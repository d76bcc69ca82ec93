--------------------------- MODULE MCPacketParser ---------------------------
(***************************************************************************)
(* Frames for PacketParser: each kind of header, alone and in chains.      *)
(***************************************************************************)
EXTENDS PacketParser

Layer(type, class, length) ==
  [type |-> type, class |-> class, length |-> length,
   later |-> FALSE, message |-> 0]

Later(layer) == [layer EXCEPT !.later = TRUE]

Message(protocol, message, class, length) ==
  [Layer(protocol, class, length) EXCEPT !.message = message]

Ether == Layer(0, "ether_header", 14)
Vlan == Layer(33024, "vlan_tag", 4)
Arp == Layer(2054, "arp", 28)
Lldp == Layer(35020, "lldpdu", 20)
Ipv4(length) == Layer(2048, "ipv4_header", length)
Ipv6 == Layer(34525, "ipv6_header", 40)
Extension(type, length) == Layer(type, "ipv6_extension_header", length)
Fragment == Layer(44, "ipv6_fragment_header", 8)
Ah == Layer(51, "ah_header", 24)
Tcp(length) == Layer(6, "tcp_header", length)
Udp == Layer(17, "udp_header", 8)

Icmpv4 ==
  {Message(1, 8, "icmpv4_echo", 8), Message(1, 0, "icmpv4_echo", 8),
   Message(1, 5, "icmpv4_redirect", 8), Message(1, 13, "icmpv4_timestamp", 20),
   Message(1, 17, "icmpv4_address_mask", 12), Message(1, 3, "icmpv4", 4)}

Icmpv6 ==
  {Message(58, 135, "icmpv6_neighbor_solicitation", 24),
   Message(58, 136, "icmpv6_neighbor_advertisement", 24),
   Message(58, 128, "icmpv6", 4)}

\* What is taken for the length is nought, or more or less than a header.
Data ==
  {Message(6, length, "data", 22) : length \in {0, 21, 60}}
    \cup {Message(17, length, "data", 12) : length \in {0, 5, 10, 300}}
    \cup {Message(1, 13, "data", 12), Message(58, 135, "data", 26)}

Network ==
  {<<Ether, Arp>>, <<Ether, Vlan, Arp>>, <<Ether, Lldp>>, <<Ether, Vlan, Vlan>>}

OverIpv4 ==
  {<<Ether, Ipv4(20), t>> : t \in {Tcp(20), Tcp(24), Udp} \cup Icmpv4}
    \cup {<<Ether, Vlan, Ipv4(24), Ah, Udp>>, <<Ether, Later(Ipv4(20))>>}

OverIpv6 ==
  {<<Ether, Ipv6, t>> : t \in {Tcp(20), Udp} \cup Icmpv6}
    \cup {<<Ether, Vlan, Ipv6, Extension(0, 8), Extension(43, 16), Tcp(24)>>,
          <<Ether, Ipv6, Ah, Extension(60, 8), Udp>>,
          <<Ether, Ipv6, Fragment, Udp>>,
          <<Ether, Ipv6, Later(Fragment), Layer(6, "data", 3)>>}
    \cup {<<Ether, Ipv6, Later(Fragment), data>> : data \in Data}

Frame(layers, rest) ==
  [layers |-> layers, rest |-> rest, payload |-> 3, padding |-> 2]

\* 59 is no next header, 89 and 0x88b5 are protocols the parser does not know,
\* 46 is the length of an IEEE 802.3 frame.
SomeFrames ==
  {Frame(layers, 89) : layers \in Network \cup OverIpv4 \cup OverIpv6}
    \cup {Frame(<<Ether>>, 46), Frame(<<Ether>>, 34997),
          Frame(<<Ether, Vlan>>, 34997), Frame(<<Ether, Ipv4(20)>>, 89),
          Frame(<<Ether, Ipv6>>, 59), Frame(<<Ether, Ipv6>>, 89),
          [Frame(<<Ether, Ipv6>>, 89) EXCEPT !.payload = 0],
          [Frame(<<Ether, Ipv6, Udp>>, 89) EXCEPT !.payload = 0]}

\* for_each_header with a function that always goes on, packet::ether_header,
\* packet::lldpdu, and the match creator of OpenFlow 1.0.
SomeFunctions ==
  {{}, {"ether_header"}, {"lldpdu"},
   {"ipv6_header", "ipv6_extension_header", "ipv6_fragment_header", "icmpv6",
    "icmpv6_neighbor_solicitation", "icmpv6_neighbor_advertisement"}}

=============================================================================
