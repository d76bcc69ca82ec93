---------------------------- MODULE PacketParser ----------------------------
(***************************************************************************)
(* packet_parser.hpp: for_each_header hands the headers of a frame, from   *)
(* the outside in, to a function, and goes on as long as that returns      *)
(* true.  One action per parse function, each with its checks of the bytes *)
(* that are left.                                                          *)
(*                                                                         *)
(* A frame is a sequence of headers, each with the number by which the     *)
(* header before it names it (type), what it is (class) and its length,    *)
(* then payload bytes and the padding of Ethernet.  It is well formed      *)
(* (FramesAssumption).  Of the frame the parser sees the first `size`      *)
(* bytes: a switch that buffers a packet sends the beginning of it.        *)
(***************************************************************************)
EXTENDS Integers, Sequences, Functions

CONSTANTS
  Frames,     \* the frames a switch may send
  Functions   \* what may be called: for each function, the classes of
              \* headers for which it returns false

VARIABLES
  frame, size, stops,   \* the call of for_each_header
  parser,               \* the parse function that is called next, or "done"
  first, last,          \* ... and its range, as offsets into the frame
  handed                \* what the function was given, in order

input == <<frame, size, stops>>
vars == <<input, parser, first, last, handed>>

-----------------------------------------------------------------------------
(* Frames                                                                  *)

Layers == frame.layers

\* Where header i of a frame begins; for the last i + 1, where they all end.
StartIn(f, i) ==
  LET start[k \in 1 .. Len(f.layers) + 1] ==
        IF k = 1 THEN 0 ELSE start[k - 1] + f.layers[k - 1].length
  IN  start[i]

Start(i) == StartIn(frame, i)

\* The end of the packet, before the padding.
PacketEnd(f) == StartIn(f, Len(f.layers) + 1) + f.payload

\* The header at the offset the parser has come to.
Here == CHOOSE i \in DOMAIN Layers : Start(i) = first

\* What the header names as the next one.
NextType(i) == IF i < Len(Layers) THEN Layers[i + 1].type ELSE frame.rest

-----------------------------------------------------------------------------
(* The accessors of each class: where those that give a value read, as     *)
(* <<offset, width>>.                                                      *)

EtherFields == {<<0, 6>>, <<6, 6>>, <<12, 2>>}

VlanFields == {<<0, 2>>, <<2, 2>>}

\* The operation is read at 3, not at 6.
ArpFields == {<<0, 2>>, <<2, 2>>, <<4, 1>>, <<5, 1>>, <<3, 2>>}

Ipv4Fields ==
  {<<0, 1>>, <<1, 1>>, <<2, 2>>, <<4, 2>>, <<6, 1>>, <<6, 2>>, <<8, 1>>,
   <<9, 1>>, <<10, 2>>, <<12, 4>>, <<16, 4>>}

Icmpv4Fields == {<<0, 1>>, <<1, 1>>, <<2, 2>>}

EchoFields == Icmpv4Fields \cup {<<4, 2>>, <<6, 2>>}

RedirectFields == Icmpv4Fields \cup {<<4, 4>>}

TimestampFields == EchoFields \cup {<<8, 4>>, <<12, 4>>, <<16, 4>>}

AddressMaskFields == EchoFields \cup {<<8, 4>>}

Ipv6Fields ==
  {<<0, 1>>, <<0, 4>>, <<4, 2>>, <<6, 1>>, <<7, 1>>, <<8, 16>>, <<24, 16>>}

ExtensionFields == {<<0, 1>>, <<1, 1>>}

FragmentFields == {<<0, 1>>, <<2, 2>>, <<4, 4>>}

AhFields == {<<0, 1>>, <<1, 1>>, <<4, 4>>, <<8, 4>>}

Icmpv6Fields == {<<0, 1>>, <<1, 1>>, <<2, 2>>}

SolicitationFields == Icmpv6Fields \cup {<<8, 16>>}

AdvertisementFields == Icmpv6Fields \cup {<<8, 16>>}

TcpFields ==
  {<<0, 2>>, <<2, 2>>, <<4, 4>>, <<8, 4>>, <<12, 1>>, <<12, 2>>, <<14, 2>>,
   <<16, 2>>, <<18, 2>>}

UdpFields == {<<0, 2>>, <<2, 2>>, <<4, 2>>, <<6, 2>>}

Fields(class) ==
  CASE class = "ether_header" -> EtherFields
    [] class = "vlan_tag" -> VlanFields
    [] class = "arp" -> ArpFields
    [] class = "ipv4_header" -> Ipv4Fields
    [] class = "icmpv4" -> Icmpv4Fields
    [] class = "icmpv4_echo" -> EchoFields
    [] class = "icmpv4_redirect" -> RedirectFields
    [] class = "icmpv4_timestamp" -> TimestampFields
    [] class = "icmpv4_address_mask" -> AddressMaskFields
    [] class = "ipv6_header" -> Ipv6Fields
    [] class = "ipv6_extension_header" -> ExtensionFields
    [] class = "ipv6_fragment_header" -> FragmentFields
    [] class = "ah_header" -> AhFields
    [] class = "icmpv6" -> Icmpv6Fields
    [] class = "icmpv6_neighbor_solicitation" -> SolicitationFields
    [] class = "icmpv6_neighbor_advertisement" -> AdvertisementFields
    [] class = "tcp_header" -> TcpFields
    [] class = "udp_header" -> UdpFields
    [] class \in {"lldpdu", "range"} -> {}

-----------------------------------------------------------------------------
(* The accessors that give a range of bytes, as <<begin, end>> in the      *)
(* frame, of an object h of a header class (see Header).                   *)

\* payload() of IPv4, IPv6, TCP and UDP
Payload(h) == <<h.next, h.end>>

MessagePayload(h) == <<h.first + 4, h.last>>

\* The four addresses, one behind the other
Addresses(h) == <<h.first + 8, h.first + h.length>>

\* Three TLVs, one behind the other by the lengths they have
Tlvs(h) == <<h.first, h.first + h.length>>

AuthenticationData(h) == <<h.first + 12, h.first + h.length>>

\* Whatever follows
LinkLayerAddress(h) == <<h.first + 24, h.last>>

Ranges(h) ==
  CASE h.class \in {"ipv4_header", "ipv6_header", "tcp_header", "udp_header"} ->
         {Payload(h)}
    [] h.class \in {"icmpv4", "icmpv4_echo", "icmpv4_redirect",
                    "icmpv4_timestamp", "icmpv4_address_mask"} ->
         {MessagePayload(h)}
    [] h.class = "arp" -> {Addresses(h)}
    [] h.class = "lldpdu" -> {Tlvs(h)}
    [] h.class = "ah_header" -> {AuthenticationData(h)}
    [] h.class \in {"icmpv6_neighbor_solicitation",
                    "icmpv6_neighbor_advertisement"} -> {LinkLayerAddress(h)}
    [] h.class = "range" -> {<<h.first, h.last>>}
    [] OTHER -> {}

-----------------------------------------------------------------------------
(* Which parse function a number names; "range" is a range of bytes.       *)

ether_next_header(type) ==
  CASE type = 2048 -> "ipv4_header"       \* 0x0800
    [] type = 2054 -> "arp"               \* 0x0806
    [] type = 33024 -> "vlan_tag"         \* 0x8100
    [] type = 34525 -> "ipv6_header"      \* 0x86dd
    [] type = 35020 -> "lldpdu"           \* 0x88cc
    [] OTHER -> "range"

\* Mutant: fragment headers are taken for one more extension header.
ip_next_header_AnyExtension(protocol) ==
  CASE protocol \in {0, 43, 44, 60} -> "ipv6_hop_by_hop"
    [] protocol = 1 -> "icmpv4"
    [] protocol = 6 -> "tcp_header"
    [] protocol = 17 -> "udp_header"
    [] protocol = 51 -> "ah_header"
    [] protocol = 58 -> "icmpv6"
    [] protocol \in {59, 132} -> "done"
    [] OTHER -> "range"

ip_next_header(protocol) ==
  CASE protocol \in {0, 43, 60} -> "ipv6_hop_by_hop"
    [] protocol = 1 -> "icmpv4"
    [] protocol = 6 -> "tcp_header"
    [] protocol = 17 -> "udp_header"
    [] protocol = 44 -> "ipv6_fragment_header"
    [] protocol = 51 -> "ah_header"
    [] protocol = 58 -> "icmpv6"
    [] protocol \in {59, 132} -> "done"
    [] OTHER -> "range"

-----------------------------------------------------------------------------
(* What the frames may be.  The parser is to make sense of packets as the  *)
(* protocols have them; nothing is said of malformed ones.  But the data   *)
(* in a later fragment can be anything: the message of a layer of data is  *)
(* what its bytes say where a header has its length, or ICMP its type.     *)

\* How long a header may be.
Lengths(class) ==
  CASE class = "ether_header" -> {14}
    [] class = "vlan_tag" -> {4}
    [] class = "ipv6_header" -> {40}
    [] class \in {"ipv6_fragment_header", "udp_header", "icmpv4_echo",
                  "icmpv4_redirect"} -> {8}
    [] class \in {"arp", "ipv6_extension_header"} -> {n \in Nat : n >= 8}
    [] class \in {"ipv4_header", "tcp_header"} -> {n \in Nat : n >= 20}
    [] class = "ah_header" -> {n \in Nat : n >= 12}
    [] class = "icmpv4_timestamp" -> {20}
    [] class = "icmpv4_address_mask" -> {12}
    [] class \in {"icmpv4", "icmpv6"} -> {4}
    [] class \in {"icmpv6_neighbor_solicitation",
                  "icmpv6_neighbor_advertisement"} -> {24}
    [] class \in {"lldpdu", "data"} -> {n \in Nat : n > 0}
    [] OTHER -> {}

\* The types of the messages that have a class of their own in ICMP.
Messages(class) ==
  CASE class = "icmpv4_echo" -> {0, 8}
    [] class = "icmpv4_redirect" -> {5}
    [] class = "icmpv4_timestamp" -> {13, 14}
    [] class = "icmpv4_address_mask" -> {17, 18}
    [] class = "icmpv4" -> Nat \ {0, 5, 8, 13, 14, 17, 18}
    [] class = "icmpv6_neighbor_solicitation" -> {135}
    [] class = "icmpv6_neighbor_advertisement" -> {136}
    [] class = "icmpv6" -> Nat \ {135, 136}
    [] OTHER -> Nat

EtherTypes ==
  {<<2048, "ipv4_header">>, <<2054, "arp">>, <<33024, "vlan_tag">>,
   <<34525, "ipv6_header">>, <<35020, "lldpdu">>}

Protocols ==
  {<<0, "ipv6_extension_header">>, <<43, "ipv6_extension_header">>,
   <<60, "ipv6_extension_header">>, <<44, "ipv6_fragment_header">>,
   <<51, "ah_header">>, <<6, "tcp_header">>, <<17, "udp_header">>,
   <<1, "icmpv4">>, <<1, "icmpv4_echo">>, <<1, "icmpv4_redirect">>,
   <<1, "icmpv4_timestamp">>, <<1, "icmpv4_address_mask">>,
   <<58, "icmpv6">>, <<58, "icmpv6_neighbor_solicitation">>,
   <<58, "icmpv6_neighbor_advertisement">>}

\* What may follow a header: the numbers that are assigned, each with what it
\* names.
Assigned(layer) ==
  CASE layer.class \in {"ether_header", "vlan_tag"} -> EtherTypes
    [] \/ layer.class = "ipv4_header" /\ ~layer.later
       \/ layer.class \in {"ipv6_header", "ipv6_extension_header",
                           "ipv6_fragment_header", "ah_header"} -> Protocols
    [] OTHER -> {}

LaterFragment(f, i) ==
  f.layers[i].class = "ipv6_fragment_header" /\ f.layers[i].later

\* A header is what the one before says it is.  After a later fragment of IPv6
\* there are data, of a protocol that is not one more extension of IPv6.
FrameOK(f) ==
  LET n == Len(f.layers)
  IN  /\ f.layers \in Seq([type : Nat, class : STRING, length : Nat,
                           later : BOOLEAN, message : Nat])
      /\ f.rest \in Nat /\ f.payload \in Nat /\ f.padding \in Nat
      /\ n > 0 /\ f.layers[1].class = "ether_header"
      /\ \A i \in 1 .. n :
           /\ f.layers[i].length \in Lengths(f.layers[i].class)
           /\ f.layers[i].message \in Messages(f.layers[i].class)
      /\ \A i \in 1 .. n - 1 :
           IF LaterFragment(f, i)
             THEN /\ f.layers[i + 1].class = "data" /\ i + 1 = n
                  /\ f.layers[i + 1].type \notin {0, 43, 44, 51, 60}
             ELSE <<f.layers[i + 1].type, f.layers[i + 1].class>>
                    \in Assigned(f.layers[i])
      /\ \A named \in Assigned(f.layers[n]) : named[1] # f.rest

ASSUME FramesAssumption == \A f \in Frames : FrameOK(f)

-----------------------------------------------------------------------------
(* The parse functions.                                                    *)

Init ==
  /\ frame \in Frames
  /\ size \in 0 .. PacketEnd(frame) + frame.padding
  /\ stops \in Functions
  /\ parser = "ether_header" /\ first = 0 /\ last = size
  /\ handed = <<>>

Left == last - first

\* The length that a header states of itself, and UDP of the datagram.
HeaderLength ==
  IF Layers[Here].class = "data" THEN Layers[Here].message
                                 ELSE Layers[Here].length

DatagramLength ==
  IF Layers[Here].class = "data" THEN Layers[Here].message
                                 ELSE PacketEnd(frame) - first

\* An object of a header class: its two pointers, and what length(), next()
\* and end() make of its bytes.  (A range has nothing but the pointers.)
Header(class, next, end) ==
  [class |-> class, first |-> first, last |-> last,
   length |-> IF \E i \in DOMAIN Layers : Start(i) = first
              THEN HeaderLength ELSE 0,
   next |-> next, end |-> end]

Return ==
  /\ parser' = "done"
  /\ UNCHANGED <<input, first, last, handed>>

\* f(header), and on to the next parse function if f returns true and there
\* are `least` bytes.
HandOn(class, least, next, begin, end) ==
  /\ handed' = Append(handed, Header(class, begin, end))
  /\ IF class \notin stops /\ Left >= least
       THEN parser' = next /\ first' = begin /\ last' = end
       ELSE parser' = "done" /\ UNCHANGED <<first, last>>
  /\ UNCHANGED input

\* Mutant: everything that was received belongs to the packet.
StatedEnd_WithPadding(length) == last

\* The end of a header's payload by the length that the header states.
StatedEnd(length) == IF Left < length THEN last ELSE first + length

\* Below 0x0600 the type is a length: no header is handed on.
ParseEther ==
  /\ parser = "ether_header"
  /\ IF Left >= 14 /\ NextType(1) >= 1536
       THEN HandOn(parser, 0, ether_next_header(NextType(1)), first + 14, last)
       ELSE Return

\* Mutant: a tag that ends the frame is not looked at.
ParseVlan_OffByOne ==
  /\ parser = "vlan_tag"
  /\ IF Left > 4
       THEN HandOn(parser, 0, ether_next_header(NextType(Here)),
                   first + 4, last)
       ELSE Return

ParseVlan ==
  /\ parser = "vlan_tag"
  /\ IF Left >= 4
       THEN HandOn(parser, 0, ether_next_header(NextType(Here)),
                   first + 4, last)
       ELSE Return

ParseArp ==
  /\ parser = "arp"
  /\ IF Left >= 8 /\ Left >= Layers[Here].length
       THEN HandOn(parser, 0, "done", first, last)
       ELSE Return

\* There is no check.
ParseLldpdu ==
  /\ parser = "lldpdu"
  /\ HandOn(parser, 0, "done", first, last)

\* The payload of a datagram; a length of 0 says nothing.
UdpEnd(length) == IF length = 0 THEN last ELSE StatedEnd(length)

\* total_length() cuts off the padding; a later fragment is a payload.
ParseIpv4 ==
  /\ parser = "ipv4_header"
  /\ IF Left >= 20
       THEN HandOn(parser, Layers[Here].length,
                   IF Layers[Here].later THEN "range"
                                         ELSE ip_next_header(NextType(Here)),
                   first + Layers[Here].length,
                   StatedEnd(PacketEnd(frame) - first))
       ELSE Return

\* The length is compared with the header and the payload, and added to the
\* header.
Ipv6End(length) ==
  IF length = 0 \/ Left < length THEN last ELSE first + 40 + length

ParseIpv6 ==
  /\ parser = "ipv6_header"
  /\ IF Left >= 40
       THEN HandOn(parser, 0, ip_next_header(NextType(Here)), first + 40,
                   Ipv6End(PacketEnd(frame) - first - 40))
       ELSE Return

ParseHopByHop ==
  /\ parser = "ipv6_hop_by_hop"
  /\ IF Left >= 8
       THEN HandOn("ipv6_extension_header", Layers[Here].length,
                   ip_next_header(NextType(Here)),
                   first + Layers[Here].length, last)
       ELSE Return

\* Later fragments are not told from the first.
ParseFragment ==
  /\ parser = "ipv6_fragment_header"
  /\ IF Left >= 8
       THEN HandOn(parser, 0, ip_next_header(NextType(Here)), first + 8, last)
       ELSE Return

ParseAh ==
  /\ parser = "ah_header"
  /\ IF Left >= 12
       THEN HandOn(parser, Layers[Here].length, ip_next_header(NextType(Here)),
                   first + Layers[Here].length, last)
       ELSE Return

\* Mutant: a timestamp message has the room of an echo message.
Icmpv4Class_Short(type) ==
  CASE type \in {0, 8} /\ Left >= 8 -> "icmpv4_echo"
    [] type = 5 /\ Left >= 8 -> "icmpv4_redirect"
    [] type \in {13, 14} /\ Left >= 8 -> "icmpv4_timestamp"
    [] type \in {17, 18} /\ Left >= 12 -> "icmpv4_address_mask"
    [] OTHER -> "icmpv4"

\* The class by the type of the message, if that has the room it needs.
Icmpv4Class(type) ==
  CASE type \in {0, 8} /\ Left >= 8 -> "icmpv4_echo"
    [] type = 5 /\ Left >= 8 -> "icmpv4_redirect"
    [] type \in {13, 14} /\ Left >= 20 -> "icmpv4_timestamp"
    [] type \in {17, 18} /\ Left >= 12 -> "icmpv4_address_mask"
    [] OTHER -> "icmpv4"

ParseIcmpv4 ==
  /\ parser = "icmpv4"
  /\ IF Left >= 4
       THEN HandOn(Icmpv4Class(Layers[Here].message), 0, "done", first, last)
       ELSE Return

Icmpv6Class(type) ==
  CASE type = 135 /\ Left >= 24 -> "icmpv6_neighbor_solicitation"
    [] type = 136 /\ Left >= 24 -> "icmpv6_neighbor_advertisement"
    [] OTHER -> "icmpv6"

ParseIcmpv6 ==
  /\ parser = "icmpv6"
  /\ IF Left >= 4
       THEN HandOn(Icmpv6Class(Layers[Here].message), 0, "done", first, last)
       ELSE Return

\* The payload is a range of its own.
ParseTcp ==
  /\ parser = "tcp_header"
  /\ IF Left >= 20
       THEN HandOn(parser, HeaderLength, "range", first + HeaderLength, last)
       ELSE Return

ParseUdp ==
  /\ parser = "udp_header"
  /\ IF Left >= 8
       THEN HandOn(parser, 0, "range", first + 8,
                   UdpEnd(DatagramLength))
       ELSE Return

HandRange ==
  /\ parser = "range"
  /\ HandOn(parser, 0, "done", first, last)

Next ==
  \/ ParseEther \/ ParseVlan \/ ParseArp \/ ParseLldpdu
  \/ ParseIpv4 \/ ParseIpv6 \/ ParseHopByHop \/ ParseFragment \/ ParseAh
  \/ ParseIcmpv4 \/ ParseIcmpv6 \/ ParseTcp \/ ParseUdp \/ HandRange

Spec == Init /\ [][Next]_vars

-----------------------------------------------------------------------------
(* Properties                                                              *)

\* The frame ends inside what an IPv6 header states, by no more than that
\* header's own length: then the end is computed past the bytes there are.
Ipv6CutShort(n) ==
  /\ \E i \in 1 .. n : handed[i].class = "ipv6_header"
  /\ size < PacketEnd(frame) /\ PacketEnd(frame) <= size + 40

\* A later fragment of an IPv6 packet is parsed as if it were the first.
LaterIpv6Fragment(i) ==
  \E k \in 1 .. i - 1 :
    Layers[k].class = "ipv6_fragment_header" /\ Layers[k].later

\* An ICMP message that is too short for its class comes under the general one.
IsA(class, layer) ==
  \/ class = layer.class
  \/ class = "icmpv4" /\ layer.type = 1
  \/ class = "icmpv6" /\ layer.type = 58

\* The function is given the headers of the frame, each in its place and under
\* its own class, with none left out; except in later IPv6 fragments.
HeadersAreTheFrames ==
  \A i \in DOMAIN handed : handed[i].class # "range" =>
    /\ i \in DOMAIN Layers
    /\ handed[i].first = Start(i)
    /\ IsA(handed[i].class, Layers[i]) \/ LaterIpv6Fragment(i)

\* A header is handed on before the length it states is looked at.
CutInside(h) ==
  /\ h.class \in {"lldpdu", "ipv4_header", "ah_header", "tcp_header"}
  /\ h.length > h.last - h.first

\* Wherever the frame was cut off, every accessor of what the function is given
\* reads bytes that were received, and a range does not end before it begins.
\* The code does not have it so
\*   below an IPv6 header that is cut short, and for the payload of that;
\*   for the ranges of an LLDPDU, an IPv4, TCP or authentication header that is
\*   itself cut off: the payload, or its data, then begins or ends too late;
\*   in a later fragment, where what is taken for the length of UDP may be less
\*   than a header.
AccessorsReadTheFrame ==
  \A i \in DOMAIN handed :
    LET h == handed[i]
    IN  /\ \A field \in Fields(h.class) :
             Ipv6CutShort(i - 1) \/ h.first + field[1] + field[2] <= size
        /\ \A range \in Ranges(h) :
             \/ Ipv6CutShort(i) \/ CutInside(h)
             \/ /\ range[2] <= size
                /\ \/ range[1] <= range[2]
                   \/ h.class \in {"udp_header", "range"} /\ LaterIpv6Fragment(i)

\* At the end the function has been given every header that was received
\* whole, up to and with the first for which it returned false.  (The data of
\* a later fragment are no header, and a frame that has a length for its type
\* is not parsed at all.)
CompleteHeadersAreHanded ==
  parser = "done" /\ NextType(1) >= 1536 =>
    LET n == Len(handed)
    IN  /\ \A i \in 1 .. n - 1 : handed[i].class \notin stops
        /\ \/ n > 0 /\ handed[n].class \in stops
           \/ \A i \in DOMAIN Layers :
                Layers[i].class # "data" /\ Start(i) + Layers[i].length <= size
                  => i <= n

\* An IPv6 header that states a length of 0 states nothing.
Ipv6Empty == Layers[Len(Layers)].class = "ipv6_header" /\ frame.payload = 0

\* A payload is what follows the last header: all of it that was received, and
\* none of the padding where the packet states its length.
PayloadIsExact ==
  \A i \in DOMAIN handed : handed[i].class = "range" =>
    \/ Ipv6CutShort(i) \/ LaterIpv6Fragment(i)
    \/ /\ handed[i].first = Start(Len(Layers) + 1)
       /\ handed[i].last =
            IF PacketEnd(frame) < size /\ ~Ipv6Empty
               /\ \E k \in DOMAIN Layers :
                    Layers[k].class \in {"ipv4_header", "ipv6_header"}
            THEN PacketEnd(frame) ELSE size

=============================================================================
