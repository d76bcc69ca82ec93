-------------------------- MODULE PacketParser_proofs --------------------------
(***************************************************************************)
(* Proofs about the packet parser, for any well-formed frames, wherever    *)
(* they are cut off, and for any functions.                                *)
(*                                                                         *)
(* Where a header starts is a recursive sum, so the facts about it need    *)
(* induction.  It is done with sets (SetInduction): a set of numbers that  *)
(* has 0 and is closed under successors has them all.                      *)
(***************************************************************************)
EXTENDS PacketParser, FiniteSetTheorems, WellFoundedInduction, TLAPS

-----------------------------------------------------------------------------
(* Induction and sums                                                      *)

LEMMA LeastOfNat ==
  ASSUME NEW S, S \subseteq Nat, S # {}
  PROVE  \E v \in S : \A w \in S : v <= w
<1> PICK n \in S : TRUE
  OBVIOUS
<1> DEFINE C == {k \in 0..n : k \in S}
           Below(k) == {j \in C : j < k}
           T == {Below(k) : k \in C}
<1>1. IsFiniteSet(C) /\ n \in C
  <2>1. IsFiniteSet(0..n) /\ n \in 0..n
    BY FS_Interval
  <2>2. C \subseteq 0..n
    OBVIOUS
  <2> QED BY <2>1, <2>2, FS_Subset
<1> HIDE DEF C
<1>2. T \subseteq FiniteSubsetsOf(C) /\ T # {}
  <2>1. \A v \in C : Below(v) \subseteq C
    OBVIOUS
  <2>2. \A v \in C : Below(v) \in FiniteSubsetsOf(C)
    BY <1>1, <2>1, FS_FiniteSubsetsOfFinite
  <2> QED BY <1>1, <2>2
<1>3. PICK t \in T : \A u \in T : ~(<<u, t>> \in StrictSubsetOrdering(C))
  <2> HIDE DEF T
  <2> QED BY <1>2, FS_StrictSubsetOrderingWellFounded, WFMin
<1>4. PICK v \in C : t = Below(v)
  BY <1>3
<1>5. \A w \in C : w \in Nat /\ w <= n /\ w \in S
  BY DEF C
<1>6. ASSUME NEW w \in S, ~(v <= w) PROVE FALSE
  <2>1. w \in Nat /\ v \in Nat /\ w < v /\ w \in C
    BY <1>5, <1>6 DEF C
  <2>2. Below(w) \subseteq Below(v) /\ w \in Below(v) /\ w \notin Below(w)
    <3>1. \A j \in C : j < w => j < v
      BY <1>5, <2>1
    <3>2. ~(w < w)
      BY <2>1
    <3> QED BY <2>1, <3>1, <3>2
  <2>3. <<Below(w), Below(v)>> \in StrictSubsetOrdering(C)
    BY <2>2 DEF StrictSubsetOrdering
  <2> QED BY <1>3, <1>4, <2>1, <2>3
<1> QED BY <1>5, <1>6

\* Induction, with a set for the property.
LEMMA SetInduction ==
  ASSUME NEW T, 0 \in T, \A n \in Nat : n \in T => n + 1 \in T
  PROVE  Nat \subseteq T
<1> SUFFICES ASSUME Nat \ T # {} PROVE FALSE
  OBVIOUS
<1>1. PICK v \in Nat \ T : \A w \in Nat \ T : v <= w
  BY LeastOfNat
<1>2. v # 0 /\ v \in Nat /\ v - 1 \in Nat /\ ~(v <= v - 1) /\ (v - 1) + 1 = v
  BY <1>1
<1>3. v - 1 \in T
  BY <1>1, <1>2
<1> QED BY <1>1, <1>2, <1>3

\* The sums a recursion makes exist, and satisfy it.
LEMMA SumsExist ==
  ASSUME NEW N \in Nat, NEW len
  PROVE  \E s : s = [k \in 1..N |-> IF k = 1 THEN 0 ELSE s[k - 1] + len[k - 1]]
<1> DEFINE Upto(s, n) ==
             s = [k \in 1..n |-> IF k = 1 THEN 0 ELSE s[k - 1] + len[k - 1]]
           T == {n \in Nat : \E s : Upto(s, n)}
<1>1. 0 \in T
  <2>1. Upto([k \in 1..0 |-> 0], 0)
    OBVIOUS
  <2> QED BY <2>1
<1>2. ASSUME NEW n \in Nat, n \in T PROVE n + 1 \in T
  <2>1. PICK s : Upto(s, n)
    BY <1>2
  <2> DEFINE r == [k \in 1..(n + 1) |->
                     IF k = 1 THEN 0 ELSE s[k - 1] + len[k - 1]]
  <2>2. \A k \in 1..n : r[k] = s[k]
    BY <2>1
  <2>3. \A k \in 1..(n + 1) : k # 1 => k - 1 \in 1..n
    OBVIOUS
  <2>4. \A k \in 1..(n + 1) :
          r[k] = IF k = 1 THEN 0 ELSE r[k - 1] + len[k - 1]
    BY <2>2, <2>3
  <2>5. r = [k \in 1..(n + 1) |-> r[k]]
    OBVIOUS
  <2> HIDE DEF r
  <2>6. Upto(r, n + 1)
    BY <2>4, <2>5
  <2>7. n + 1 \in Nat /\ \E q : Upto(q, n + 1)
    BY <2>6
  <2> HIDE DEF Upto
  <2> QED BY <2>7
<1> HIDE DEF T
<1>3. N \in T
  BY <1>1, <1>2, SetInduction
<1> QED BY <1>3 DEF T

LEMMA StartFacts ==
  ASSUME NEW f, NEW L \in Nat, L = Len(f.layers),
         \A i \in 1..L : f.layers[i].length \in Nat \ {0}
  PROVE  /\ StartIn(f, 1) = 0
         /\ \A i \in 1..L : StartIn(f, i + 1) = StartIn(f, i) + f.layers[i].length
<1> DEFINE len == [i \in 1..L |-> f.layers[i].length]
           Sums(s) == s = [k \in 1..(L + 1) |->
                             IF k = 1 THEN 0 ELSE s[k - 1] + f.layers[k - 1].length]
           start == CHOOSE s : Sums(s)
<1>1. \E s : Sums(s)
  <2>1. PICK s : s = [k \in 1..(L + 1) |->
                        IF k = 1 THEN 0 ELSE s[k - 1] + len[k - 1]]
    <3>1. L + 1 \in Nat
      OBVIOUS
    <3> HIDE DEF len
    <3> QED BY <3>1, SumsExist
  <2>2. \A k \in 1..(L + 1) : k # 1 => len[k - 1] = f.layers[k - 1].length
    OBVIOUS
  <2>3. s = [k \in 1..(L + 1) |->
                        IF k = 1 THEN 0 ELSE s[k - 1] + f.layers[k - 1].length]
    BY <2>1, <2>2
  <2> QED BY <2>3
<1>2. Sums(start)
  BY <1>1
<1>3. \A i : StartIn(f, i) = start[i]
  BY DEF StartIn
<1> HIDE DEF start
<1>4. \A k \in 1..(L + 1) :
        start[k] = IF k = 1 THEN 0 ELSE start[k - 1] + f.layers[k - 1].length
  BY <1>2
<1>5. ASSUME NEW i \in 1..L
      PROVE  start[i + 1] = start[i] + f.layers[i].length
  <2>1. i + 1 \in 1..(L + 1) /\ i + 1 # 1 /\ (i + 1) - 1 = i
    OBVIOUS
  <2> QED BY <1>4, <2>1
<1>6. start[1] = 0
  <2>1. 1 \in 1..(L + 1)
    OBVIOUS
  <2> QED BY <1>4, <2>1
<1> QED BY <1>3, <1>5, <1>6

-----------------------------------------------------------------------------
(* Frames                                                                  *)

Size(f) == Len(f.layers)

\* The layers of a frame, and what follows each.
LEMMA LayerFacts ==
  ASSUME NEW f, FrameOK(f)
  PROVE  /\ Size(f) \in Nat /\ Size(f) > 0
         /\ DOMAIN f.layers = 1..Size(f)
         /\ f.payload \in Nat
         /\ \A i \in 1..Size(f) :
              /\ f.layers[i].length \in Nat /\ f.layers[i].length > 0
              /\ f.layers[i].length \in Lengths(f.layers[i].class)
              /\ f.layers[i].class \in STRING /\ f.layers[i].type \in Nat
              /\ f.layers[i].message \in Nat
<1> DEFINE Layer == [type : Nat, class : STRING, length : Nat,
                     later : BOOLEAN, message : Nat]
<1>1. f.layers \in Seq(Layer) /\ Size(f) > 0 /\ f.payload \in Nat
  BY DEF FrameOK, Size
<1>2. Size(f) \in Nat /\ DOMAIN f.layers = 1..Size(f)
  BY <1>1 DEF Size
<1>3. \A i \in 1..Size(f) : f.layers[i] \in Layer
  <2> HIDE DEF Layer
  <2> QED BY <1>1 DEF Size
<1>4. \A i \in 1..Size(f) :
        /\ f.layers[i].class \in STRING /\ f.layers[i].type \in Nat
        /\ f.layers[i].length \in Nat /\ f.layers[i].message \in Nat
  BY <1>3
<1>5. \A i \in 1..Size(f) : f.layers[i].length \in Lengths(f.layers[i].class)
  BY DEF FrameOK, Size
<1>6. \A class : \A n \in Lengths(class) : n > 0
  BY DEF Lengths
<1> QED BY <1>1, <1>2, <1>4, <1>5, <1>6

\* Headers lie one behind the other.
LEMMA Starts ==
  ASSUME NEW f, FrameOK(f)
  PROVE  /\ StartIn(f, 1) = 0
         /\ \A i \in 1..Size(f) :
              StartIn(f, i + 1) = StartIn(f, i) + f.layers[i].length
         /\ \A i \in 1..(Size(f) + 1) : StartIn(f, i) \in Nat
         /\ \A i \in 1..Size(f), j \in 1..(Size(f) + 1) :
              i < j => StartIn(f, i) + f.layers[i].length <= StartIn(f, j)
<1> DEFINE L == Size(f)
<1>1. L \in Nat /\ \A i \in 1..L :
        f.layers[i].length \in Nat /\ f.layers[i].length > 0
  BY LayerFacts
<1>2. /\ StartIn(f, 1) = 0
      /\ \A i \in 1..L :
           StartIn(f, i + 1) = StartIn(f, i) + f.layers[i].length
  <2>1. /\ L \in Nat /\ L = Len(f.layers)
        /\ \A i \in 1..L : f.layers[i].length \in Nat \ {0}
    BY <1>1 DEF Size
  <2> HIDE DEF L
  <2> QED BY <2>1, StartFacts
<1> HIDE DEF L
<1> DEFINE T == {n \in Nat : n < L + 1 => StartIn(f, n + 1) \in Nat}
<1>3. 0 \in T
  BY <1>2
<1>4. ASSUME NEW n \in Nat, n \in T PROVE n + 1 \in T
  <2> SUFFICES ASSUME n + 1 < L + 1 PROVE StartIn(f, (n + 1) + 1) \in Nat
    OBVIOUS
  <2>1. n + 1 \in 1..L /\ StartIn(f, n + 1) \in Nat
    BY <1>1, <1>4
  <2> QED BY <1>1, <1>2, <2>1
<1>5. Nat \subseteq T
  <2> HIDE DEF T
  <2> QED BY <1>3, <1>4, SetInduction
<1>6. ASSUME NEW i \in 1..(L + 1) PROVE StartIn(f, i) \in Nat
  <2>1. i - 1 \in Nat /\ i - 1 < L + 1 /\ (i - 1) + 1 = i
    BY <1>1
  <2>2. i - 1 \in T
    BY <1>5, <2>1
  <2> QED BY <2>1, <2>2
<1>7. ASSUME NEW i \in 1..L, NEW j \in 1..(L + 1), i < j
      PROVE  StartIn(f, i) + f.layers[i].length <= StartIn(f, j)
  <2> DEFINE U == {n \in Nat : i + n + 1 <= L + 1 =>
                     StartIn(f, i) + f.layers[i].length <= StartIn(f, i + n + 1)}
  <2>1. 0 \in U
    BY <1>1, <1>2, <1>6
  <2>2. ASSUME NEW n \in Nat, n \in U PROVE n + 1 \in U
    <3> SUFFICES ASSUME i + (n + 1) + 1 <= L + 1
                 PROVE  StartIn(f, i) + f.layers[i].length
                          <= StartIn(f, i + (n + 1) + 1)
      OBVIOUS
    <3> DEFINE k == i + n + 1
    <3>1. k \in 1..L /\ k + 1 = i + (n + 1) + 1 /\ k \in 1..(L + 1)
          /\ k + 1 \in 1..(L + 1) /\ i \in 1..(L + 1)
      BY <1>1
    <3>2. StartIn(f, i) + f.layers[i].length <= StartIn(f, k)
      BY <2>2, <1>1, <3>1
    <3> HIDE DEF k
    <3>3. StartIn(f, k + 1) = StartIn(f, k) + f.layers[k].length
      BY <1>2, <3>1
    <3>4. /\ StartIn(f, k) \in Nat /\ StartIn(f, i) \in Nat
          /\ f.layers[k].length \in Nat /\ f.layers[i].length \in Nat
      BY <1>1, <1>6, <3>1
    <3>5. StartIn(f, i) + f.layers[i].length <= StartIn(f, k + 1)
      BY <3>2, <3>3, <3>4
    <3> QED BY <3>1, <3>5
  <2>3. Nat \subseteq U
    <3> HIDE DEF U
    <3> QED BY <2>1, <2>2, SetInduction
  <2>4. j - i - 1 \in Nat /\ i + (j - i - 1) + 1 = j /\ j <= L + 1
    BY <1>1, <1>7
  <2>5. j - i - 1 \in U
    BY <2>3, <2>4
  <2> QED BY <2>4, <2>5
<1> QED BY <1>2, <1>6, <1>7 DEF L

LEMMA OneStartEach ==
  ASSUME NEW f, FrameOK(f), NEW i \in 1..Size(f), NEW j \in 1..Size(f),
         StartIn(f, i) = StartIn(f, j)
  PROVE  i = j
<1>1. /\ StartIn(f, i) \in Nat /\ StartIn(f, j) \in Nat
      /\ f.layers[i].length \in Nat /\ f.layers[i].length > 0
      /\ f.layers[j].length \in Nat /\ f.layers[j].length > 0
      /\ i \in Nat /\ j \in Nat /\ i \in 1..(Size(f) + 1) /\ j \in 1..(Size(f) + 1)
  BY LayerFacts, Starts
<1>2. ~(i < j) /\ ~(j < i)
  BY <1>1, Starts
<1> QED BY <1>1, <1>2

-----------------------------------------------------------------------------
(* The inductive invariant, of a frame f cut off after sz bytes of which   *)
(* n headers have been handed on, of which an IPv6 header is cut short     *)
(* when c, in the parse function p for the range from b to e.  H has the   *)
(* objects that were handed on.                                            *)

EtherParsers ==
  {"ether_header", "vlan_tag", "arp", "lldpdu", "ipv4_header", "ipv6_header"}

IpParsers ==
  {"ipv6_hop_by_hop", "icmpv4", "tcp_header", "udp_header",
   "ipv6_fragment_header", "ah_header", "icmpv6"}

\* What is taken for the data of a later fragment.
DataParsers == {"tcp_header", "udp_header", "icmpv4", "icmpv6"}

IpClasses == {"ipv4_header", "ipv6_header"}

\* The class under which a parse function hands on a header that is there
\* whole; in ICMP, by the type of the message.
WholeClass(parse, message) ==
  CASE parse = "ipv6_hop_by_hop" -> "ipv6_extension_header"
    [] parse = "icmpv4" /\ message \in {0, 8} -> "icmpv4_echo"
    [] parse = "icmpv4" /\ message = 5 -> "icmpv4_redirect"
    [] parse = "icmpv4" /\ message \in {13, 14} -> "icmpv4_timestamp"
    [] parse = "icmpv4" /\ message \in {17, 18} -> "icmpv4_address_mask"
    [] parse = "icmpv6" /\ message = 135 -> "icmpv6_neighbor_solicitation"
    [] parse = "icmpv6" /\ message = 136 -> "icmpv6_neighbor_advertisement"
    [] OTHER -> parse

NumberAfter(f, i) == IF i < Len(f.layers) THEN f.layers[i + 1].type ELSE f.rest

\* The parse function for what follows header i, by the class of that.
After(f, i) ==
  LET class == f.layers[i].class
  IN  CASE class \in {"ether_header", "vlan_tag"} ->
             ether_next_header(NumberAfter(f, i))
        [] class \in {"ipv6_header", "ipv6_extension_header",
                      "ipv6_fragment_header", "ah_header"} ->
             ip_next_header(NumberAfter(f, i))
        [] class = "ipv4_header" ->
             IF f.layers[i].later THEN "range"
                                  ELSE ip_next_header(NumberAfter(f, i))
        [] class \in {"tcp_header", "udp_header"} -> "range"
        [] OTHER -> "done"

IpAmong(f, n) == \E k \in 1..n : f.layers[k].class \in IpClasses

LaterIn(f, i) == \E k \in 1..(i - 1) : LaterFragment(f, k)

NothingLeft(f, n) == \A i \in 1..Size(f) : f.layers[i].class # "data" => i <= n

WholeAt(f, p, n) ==
  /\ f.layers[n + 1].class = WholeClass(p, f.layers[n + 1].message)
  /\ IpAmong(f, n) <=> p \in IpParsers
  /\ p = "ether_header" => n = 0
  /\ p = "icmpv4" => f.layers[n + 1].type = 1
  /\ p = "icmpv6" => f.layers[n + 1].type = 58

DataAt(f, p, n) ==
  /\ p \in DataParsers
  /\ f.layers[n + 1].class = "data" /\ n + 1 = Size(f)
  /\ LaterIn(f, n + 1) /\ IpAmong(f, n)

HeaderAt(f, p, b, n) ==
  /\ p \in EtherParsers \cup IpParsers
  /\ n + 1 \in 1..Size(f) /\ b = StartIn(f, n + 1)
  /\ WholeAt(f, p, n) \/ DataAt(f, p, n)

RangeAt(f, b, n) ==
  \/ n = Size(f) /\ b = StartIn(f, Size(f) + 1)
  \/ LaterIn(f, n + 1) /\ NothingLeft(f, n)

ParsesAt(f, p, b, n) ==
  \/ p = "done" /\ NothingLeft(f, n)
  \/ p = "range" /\ b \in Nat /\ RangeAt(f, b, n)
  \/ HeaderAt(f, p, b, n)

\* The last header is one of IPv6 that states a length of 0.
EmptyAt(f, n) ==
  n = Size(f) /\ f.layers[n].class = "ipv6_header" /\ f.payload = 0

\* The padding is cut off from the IP header on.
ExactEnd(f, sz, n) ==
  IF IpAmong(f, n) /\ PacketEnd(f) < sz /\ ~EmptyAt(f, n)
  THEN PacketEnd(f) ELSE sz

\* After what is taken for UDP in a later fragment the end can be anywhere.
EndsAt(f, sz, c, e, n) ==
  \/ e \in {sz, PacketEnd(f)} /\ (c \/ e = ExactEnd(f, sz, n))
  \/ LaterIn(f, n) /\ (c \/ e <= sz)

RangeFits(f, b, e, n) == b <= e \/ LaterIn(f, n + 1)

Classes ==
  EtherParsers \cup
  {"icmpv4", "icmpv4_echo", "icmpv4_redirect", "icmpv4_timestamp",
   "icmpv4_address_mask", "ipv6_extension_header", "ipv6_fragment_header",
   "ah_header", "icmpv6", "icmpv6_neighbor_solicitation",
   "icmpv6_neighbor_advertisement", "tcp_header", "udp_header", "range"}

Entry == [class : Classes, first : Int, last : Int, length : Nat,
          next : Int, end : Int]

\* What the length that a layer states is read from.
LengthOf(layer) == IF layer.class = "data" THEN layer.message ELSE layer.length

CutShort(f, sz) == sz < PacketEnd(f) /\ PacketEnd(f) <= sz + 40

\* An IPv6 header among the first n of H is cut short.
CutAt(f, sz, H, n) ==
  /\ \E i \in 1..n : H[i].class = "ipv6_header"
  /\ CutShort(f, sz)

Cut(f, sz, H) == CutAt(f, sz, H, Len(H))

Placed(f, i, h) ==
  h.class # "range" =>
    /\ i \in 1..Size(f) /\ h.first = StartIn(f, i)
    /\ IsA(h.class, f.layers[i]) \/ LaterIn(f, i)

\* Above and from header i on, an IPv6 header is cut short when c and d.
Readable(f, sz, c, d, i, h) ==
  /\ \A field \in Fields(h.class) : c \/ h.first + field[1] + field[2] <= sz
  /\ \A range \in Ranges(h) :
       \/ d \/ CutInside(h)
       \/ /\ range[2] <= sz
          /\ \/ range[1] <= range[2]
             \/ h.class \in {"udp_header", "range"} /\ LaterIn(f, i)

Exact(f, sz, c, i, h) ==
  h.class = "range" =>
    \/ c \/ LaterIn(f, i)
    \/ /\ h.first = StartIn(f, Size(f) + 1)
       /\ h.last = ExactEnd(f, sz, Size(f))

EntryOK(f, sz, c, d, i, h) ==
  Placed(f, i, h) /\ Readable(f, sz, c, d, i, h) /\ Exact(f, sz, d, i, h)

EntriesOK(f, sz, H) ==
  \A i \in 1..Len(H) :
    EntryOK(f, sz, CutAt(f, sz, H, i - 1), CutAt(f, sz, H, i), i, H[i])

CompleteOK(f, sz, n) ==
  \A i \in 1..Size(f) :
    f.layers[i].class # "data" /\ StartIn(f, i) + f.layers[i].length <= sz
      => i <= n

Finished(f, sz, st, H) ==
  NumberAfter(f, 1) >= 1536 =>
    \/ Len(H) > 0 /\ H[Len(H)].class \in st
    \/ CompleteOK(f, sz, Len(H))

ParserInv(f, sz, st, p, b, e, H) ==
  /\ FrameOK(f) /\ sz \in Nat
  /\ H \in Seq(Entry) /\ b \in Int /\ e \in Int
  /\ EntriesOK(f, sz, H)
  /\ \A i \in 1..(Len(H) - 1) : H[i].class \notin st
  /\ IF p = "done" THEN Finished(f, sz, st, H)
     ELSE /\ ParsesAt(f, p, b, Len(H))
          /\ EndsAt(f, sz, Cut(f, sz, H), e, Len(H))
          /\ p = "range" => RangeFits(f, b, e, Len(H))
          /\ \A i \in 1..Len(H) : H[i].class \notin st

PInv == ParserInv(frame, size, stops, parser, first, last, handed)

-----------------------------------------------------------------------------
(* What follows a header                                                   *)

LEMMA ClassFacts ==
  ASSUME NEW p \in EtherParsers \cup IpParsers, NEW m, NEW c, c = WholeClass(p, m)
  PROVE  /\ p \notin {"ipv6_hop_by_hop", "icmpv4", "icmpv6"} => c = p
         /\ p = "ipv6_hop_by_hop" => c = "ipv6_extension_header"
         /\ p = "icmpv4" =>
              c \in {"icmpv4", "icmpv4_echo", "icmpv4_redirect",
                     "icmpv4_timestamp", "icmpv4_address_mask"}
         /\ p = "icmpv6" =>
              c \in {"icmpv6", "icmpv6_neighbor_solicitation",
                     "icmpv6_neighbor_advertisement"}
         /\ c # "data" /\ c # "range"
<1>1. CASE p \in {"ipv6_hop_by_hop", "icmpv4", "icmpv6"}
  BY <1>1 DEF WholeClass
<1>2. CASE p \notin {"ipv6_hop_by_hop", "icmpv4", "icmpv6"}
  <2>1. c = p
    BY <1>2 DEF WholeClass
  <2> QED BY <1>2, <2>1 DEF EtherParsers, IpParsers
<1> QED BY <1>1, <1>2

LEMMA EtherNext ==
  ASSUME NEW type
  PROVE  /\ ether_next_header(type) \in EtherParsers \cup {"range"}
         /\ ether_next_header(type) # "ether_header"
BY DEF ether_next_header, EtherParsers

LEMMA IpNext ==
  ASSUME NEW type
  PROVE  /\ ip_next_header(type) \in IpParsers \cup {"range", "done"}
         /\ ip_next_header(type) = "icmpv4" => type = 1
         /\ ip_next_header(type) = "icmpv6" => type = 58
BY DEF ip_next_header, IpParsers

LEMMA AfterFacts ==
  ASSUME NEW f, NEW i, NEW q, q = After(f, i), q \notin {"range", "done"}
  PROVE  \/ /\ f.layers[i].class \in {"ether_header", "vlan_tag"}
            /\ q \in EtherParsers /\ q # "ether_header"
         \/ /\ f.layers[i].class \in
                 IpClasses \cup {"ipv6_extension_header",
                                 "ipv6_fragment_header", "ah_header"}
            /\ q \in IpParsers
            /\ q = "icmpv4" => NumberAfter(f, i) = 1
            /\ q = "icmpv6" => NumberAfter(f, i) = 58
<1> DEFINE class == f.layers[i].class
           type == NumberAfter(f, i)
<1>1. CASE class \in {"ether_header", "vlan_tag"}
  <2>1. q = ether_next_header(type)
    BY <1>1 DEF After
  <2> QED BY <1>1, <2>1, EtherNext
<1>2. CASE class \in {"ipv6_header", "ipv6_extension_header",
                      "ipv6_fragment_header", "ah_header"}
  <2>1. q = ip_next_header(type)
    BY <1>2 DEF After
  <2> QED BY <1>2, <2>1, IpNext DEF IpClasses
<1>3. CASE class = "ipv4_header"
  <2>1. q = ip_next_header(type)
    BY <1>3 DEF After
  <2> QED BY <1>3, <2>1, IpNext DEF IpClasses
<1>4. CASE class \notin {"ether_header", "vlan_tag", "ipv6_header",
                         "ipv6_extension_header", "ipv6_fragment_header",
                         "ah_header", "ipv4_header"}
  <2>1. q \in {"range", "done"}
    BY <1>4 DEF After
  <2> QED BY <2>1
<1> QED BY <1>1, <1>2, <1>3, <1>4

\* The parser knows what the numbers name.
LEMMA EtherTypesAgree ==
  ASSUME NEW type, NEW class, NEW message
  PROVE  /\ <<type, class>> \in EtherTypes =>
              /\ ether_next_header(type) # "range"
              /\ ether_next_header(type) # "done"
              /\ class = WholeClass(ether_next_header(type), message)
         /\ (\A named \in EtherTypes : named[1] # type) =>
              ether_next_header(type) = "range"
<1>1. ASSUME <<type, class>> \in EtherTypes
      PROVE  ether_next_header(type) = class
             /\ class \in {"ipv4_header", "arp", "vlan_tag", "ipv6_header", "lldpdu"}
  BY <1>1 DEF EtherTypes, ether_next_header
<1>2. ASSUME NEW c \in {"ipv4_header", "arp", "vlan_tag", "ipv6_header", "lldpdu"}
      PROVE  c = WholeClass(c, message) /\ c # "range" /\ c # "done"
  BY DEF WholeClass
<1>3. ASSUME \A named \in EtherTypes : named[1] # type
      PROVE  ether_next_header(type) = "range"
  <2>1. type \notin {2048, 2054, 33024, 34525, 35020}
    BY <1>3 DEF EtherTypes
  <2> QED BY <2>1 DEF ether_next_header
<1> QED BY <1>1, <1>2, <1>3

LEMMA ProtocolsAgree ==
  ASSUME NEW type, NEW class, NEW message, message \in Messages(class)
  PROVE  /\ <<type, class>> \in Protocols =>
              /\ ip_next_header(type) # "range" /\ ip_next_header(type) # "done"
              /\ class = WholeClass(ip_next_header(type), message)
         /\ (\A named \in Protocols : named[1] # type) =>
              ip_next_header(type) \in {"range", "done"}
<1>1. ASSUME <<type, class>> \in Protocols
      PROVE  /\ ip_next_header(type) # "range" /\ ip_next_header(type) # "done"
             /\ class = WholeClass(ip_next_header(type), message)
  <2>1. CASE /\ type \in {0, 43, 60} /\ class = "ipv6_extension_header"
    <3>1. ip_next_header(type) = "ipv6_hop_by_hop"
      BY <2>1 DEF ip_next_header
    <3> QED BY <2>1, <3>1 DEF WholeClass
  <2>2. CASE \/ type = 44 /\ class = "ipv6_fragment_header"
             \/ type = 51 /\ class = "ah_header"
             \/ type = 6 /\ class = "tcp_header"
             \/ type = 17 /\ class = "udp_header"
    <3>1. ip_next_header(type) = class
      BY <2>2 DEF ip_next_header
    <3> QED BY <2>2, <3>1 DEF WholeClass
  <2>3. CASE /\ type = 1
             /\ class \in {"icmpv4", "icmpv4_echo", "icmpv4_redirect",
                           "icmpv4_timestamp", "icmpv4_address_mask"}
    <3>1. ip_next_header(type) = "icmpv4"
      BY <2>3 DEF ip_next_header
    <3>2. class = WholeClass("icmpv4", message)
      BY <2>3 DEF WholeClass, Messages
    <3> QED BY <3>1, <3>2
  <2>4. CASE /\ type = 58
             /\ class \in {"icmpv6", "icmpv6_neighbor_solicitation",
                           "icmpv6_neighbor_advertisement"}
    <3>1. ip_next_header(type) = "icmpv6"
      BY <2>4 DEF ip_next_header
    <3>2. class = WholeClass("icmpv6", message)
      BY <2>4 DEF WholeClass, Messages
    <3> QED BY <3>1, <3>2
  <2> QED BY <1>1, <2>1, <2>2, <2>3, <2>4 DEF Protocols
<1>2. ASSUME \A named \in Protocols : named[1] # type
      PROVE  ip_next_header(type) \in {"range", "done"}
  <2>1. type \notin {0, 43, 60, 44, 51, 6, 17, 1, 58}
    BY <1>2 DEF Protocols
  <2> QED BY <2>1 DEF ip_next_header
<1> QED BY <1>1, <1>2

\* What a well-formed frame is to the parser.
LEMMA FramesFollow ==
  ASSUME NEW f, FrameOK(f)
  PROVE  /\ After(f, Size(f)) \in {"range", "done"}
         /\ \A i \in 1..(Size(f) - 1) :
              IF LaterFragment(f, i)
              THEN /\ f.layers[i + 1].class = "data" /\ i + 1 = Size(f)
                   /\ After(f, i) \in DataParsers \cup {"range", "done"}
              ELSE /\ After(f, i) \notin {"range", "done"}
                   /\ f.layers[i + 1].class =
                        WholeClass(After(f, i), f.layers[i + 1].message)
<1> DEFINE L == Size(f)
           Tagged(i) == f.layers[i].class \in {"ether_header", "vlan_tag"}
           Ip(i) == \/ f.layers[i].class = "ipv4_header" /\ ~f.layers[i].later
                    \/ f.layers[i].class \in
                         {"ipv6_header", "ipv6_extension_header",
                          "ipv6_fragment_header", "ah_header"}
<1>1. L \in Nat /\ L > 0
  BY LayerFacts
<1>2. \A i \in 1..L :
        /\ Tagged(i) => /\ Assigned(f.layers[i]) = EtherTypes
                        /\ After(f, i) = ether_next_header(NumberAfter(f, i))
        /\ Ip(i) => /\ Assigned(f.layers[i]) = Protocols
                    /\ After(f, i) = ip_next_header(NumberAfter(f, i))
        /\ ~Tagged(i) /\ ~Ip(i) => /\ Assigned(f.layers[i]) = {}
                                   /\ After(f, i) \in {"range", "done"}
  <2> SUFFICES ASSUME NEW i \in 1..L
               PROVE  /\ Tagged(i) => /\ Assigned(f.layers[i]) = EtherTypes
                        /\ After(f, i) = ether_next_header(NumberAfter(f, i))
                      /\ Ip(i) => /\ Assigned(f.layers[i]) = Protocols
                        /\ After(f, i) = ip_next_header(NumberAfter(f, i))
                      /\ ~Tagged(i) /\ ~Ip(i) =>
                        /\ Assigned(f.layers[i]) = {}
                        /\ After(f, i) \in {"range", "done"}
    OBVIOUS
  <2>1. CASE Tagged(i)
    BY <2>1 DEF Assigned, After
  <2>2. CASE Ip(i)
    BY <2>2 DEF Assigned, After
  <2>3. CASE ~Tagged(i) /\ ~Ip(i)
    BY <2>3 DEF Assigned, After
  <2> QED BY <2>1, <2>2, <2>3
<1> HIDE DEF L, Tagged, Ip
<1>3. After(f, L) \in {"range", "done"}
  <2>1. \A named \in Assigned(f.layers[L]) : named[1] # f.rest
    BY DEF FrameOK, Size, L
  <2>2. NumberAfter(f, L) = f.rest /\ L \in 1..L
    BY <1>1 DEF NumberAfter, Size, L
  <2> PICK message : message \in Messages("data")
    BY DEF Messages
  <2>3. CASE Tagged(L)
    BY <1>2, <2>1, <2>2, <2>3, EtherTypesAgree
  <2>4. CASE Ip(L)
    BY <1>2, <2>1, <2>2, <2>4, ProtocolsAgree
  <2>5. CASE ~Tagged(L) /\ ~Ip(L)
    BY <1>2, <2>2, <2>5
  <2> QED BY <2>3, <2>4, <2>5
<1>4. ASSUME NEW i \in 1..(L - 1)
      PROVE  IF LaterFragment(f, i)
             THEN /\ f.layers[i + 1].class = "data" /\ i + 1 = L
                  /\ After(f, i) \in DataParsers \cup {"range", "done"}
             ELSE /\ After(f, i) \notin {"range", "done"}
                  /\ f.layers[i + 1].class =
                       WholeClass(After(f, i), f.layers[i + 1].message)
  <2> PICK next : next = f.layers[i + 1]
    OBVIOUS
  <2>1. i \in 1..L /\ i + 1 \in 1..L /\ i < L
    BY <1>1
  <2>2. NumberAfter(f, i) = next.type
    BY <2>1 DEF NumberAfter, Size, L
  <2>3. next.message \in Messages(next.class)
    BY <2>1 DEF FrameOK, Size, L
  <2>4. CASE LaterFragment(f, i)
    <3>1. /\ next.class = "data" /\ i + 1 = L
          /\ next.type \notin {0, 43, 44, 51, 60}
      BY <2>4 DEF FrameOK, Size, L
    <3>2. Ip(i)
      BY <2>4 DEF LaterFragment, Ip
    <3>3. After(f, i) = ip_next_header(next.type)
      BY <1>2, <2>1, <2>2, <3>2
    <3>4. ip_next_header(next.type) \in DataParsers \cup {"range", "done"}
      BY <3>1 DEF ip_next_header, DataParsers
    <3> QED BY <2>4, <3>1, <3>3, <3>4
  <2>5. CASE ~LaterFragment(f, i)
    <3>1. <<next.type, next.class>> \in Assigned(f.layers[i])
      BY <2>5 DEF FrameOK, Size, L
    <3>2. CASE Tagged(i)
      <4>1. <<next.type, next.class>> \in EtherTypes
            /\ After(f, i) = ether_next_header(next.type)
        BY <1>2, <2>1, <2>2, <3>1, <3>2
      <4> QED BY <2>5, <4>1, EtherTypesAgree
    <3>3. CASE Ip(i)
      <4>1. <<next.type, next.class>> \in Protocols
            /\ After(f, i) = ip_next_header(next.type)
        BY <1>2, <2>1, <2>2, <3>1, <3>3
      <4> QED BY <2>3, <2>5, <4>1, ProtocolsAgree
    <3>4. CASE ~Tagged(i) /\ ~Ip(i)
      BY <1>2, <2>1, <3>1, <3>4
    <3> QED BY <3>2, <3>3, <3>4
  <2> QED BY <2>4, <2>5
<1> QED BY <1>3, <1>4 DEF L

\* After a header that is there whole the parser is at the next one.
LEMMA NextHeader ==
  ASSUME NEW f, FrameOK(f), NEW n \in Nat, n + 1 \in 1..Size(f),
         NEW p \in EtherParsers \cup IpParsers, WholeAt(f, p, n)
  PROVE  ParsesAt(f, After(f, n + 1), StartIn(f, n + 2), n + 1)
<1> DEFINE L == Size(f)
           q == After(f, n + 1)
           class == f.layers[n + 1].class
<1>1. L \in Nat /\ n + 1 \in Nat /\ n + 1 <= L /\ n + 2 \in 1..(L + 1)
  BY LayerFacts
<1>2. StartIn(f, n + 2) \in Nat
  BY <1>1, Starts
<1>3. CASE n + 1 = L
  <2>1. q \in {"range", "done"}
    BY <1>3, FramesFollow
  <2>2. NothingLeft(f, n + 1)
    BY <1>3 DEF NothingLeft
  <2>3. n + 2 = L + 1
    BY <1>1, <1>3
  <2>4. RangeAt(f, StartIn(f, n + 2), n + 1)
    BY <1>3, <2>3 DEF RangeAt
  <2> QED BY <1>2, <2>1, <2>2, <2>4 DEF ParsesAt
<1>4. IpAmong(f, n + 1) <=> IpAmong(f, n) \/ class \in IpClasses
  <2>1. \A k : k \in 1..(n + 1) <=> k \in 1..n \/ k = n + 1
    OBVIOUS
  <2> QED BY <2>1 DEF IpAmong
<1>5. /\ IpAmong(f, n) <=> p \in IpParsers
      /\ class = WholeClass(p, f.layers[n + 1].message)
  BY DEF WholeAt
<1>8. /\ p \notin {"ipv6_hop_by_hop", "icmpv4", "icmpv6"} => class = p
      /\ p = "ipv6_hop_by_hop" => class = "ipv6_extension_header"
      /\ p = "icmpv4" =>
           class \in {"icmpv4", "icmpv4_echo", "icmpv4_redirect",
                     "icmpv4_timestamp", "icmpv4_address_mask"}
      /\ p = "icmpv6" =>
           class \in {"icmpv6", "icmpv6_neighbor_solicitation",
                     "icmpv6_neighbor_advertisement"}
  <2> HIDE DEF class
  <2> QED BY <1>5, ClassFacts
<1> HIDE DEF class
<1>6. CASE n + 1 # L /\ LaterFragment(f, n + 1)
  <2>1. /\ f.layers[n + 2].class = "data" /\ n + 2 = L
        /\ q \in DataParsers \cup {"range", "done"}
    <3>1. n + 1 \in 1..(L - 1) /\ (n + 1) + 1 = n + 2
      BY <1>1, <1>6
    <3> QED BY <1>6, <3>1, FramesFollow
  <2>2. LaterIn(f, n + 2)
    <3>1. n + 1 \in 1..((n + 2) - 1)
      BY <1>1
    <3> QED BY <1>6, <3>1 DEF LaterIn
  <2>3. IpAmong(f, n + 1)
    <3>1. class = "ipv6_fragment_header"
      BY <1>6 DEF LaterFragment, class
    <3>2. p = "ipv6_fragment_header"
      BY <1>8, <3>1
    <3> QED BY <1>4, <1>5, <3>2 DEF IpParsers
  <2>4. NothingLeft(f, n + 1)
    <3> SUFFICES ASSUME NEW i \in 1..L, f.layers[i].class # "data"
                 PROVE  i <= n + 1
      BY DEF NothingLeft
    <3>1. i # n + 2 /\ i \in Nat /\ i <= n + 2
      BY <1>1, <2>1
    <3> QED BY <3>1
  <2>5. CASE q = "range"
    <3>1. LaterIn(f, (n + 1) + 1)
      BY <2>2
    <3> QED BY <1>2, <2>4, <2>5, <3>1 DEF ParsesAt, RangeAt
  <2>6. CASE q = "done"
    BY <2>4, <2>6 DEF ParsesAt
  <2>7. CASE q \in DataParsers
    <3>1. (n + 1) + 1 = n + 2 /\ n + 2 \in 1..L
      BY <1>1, <2>1
    <3>2. DataAt(f, q, n + 1)
      BY <2>1, <2>2, <2>3, <2>7, <3>1 DEF DataAt
    <3>3. q \in EtherParsers \cup IpParsers
      BY <2>7 DEF DataParsers, IpParsers
    <3>4. HeaderAt(f, q, StartIn(f, n + 2), n + 1)
      BY <3>1, <3>2, <3>3 DEF HeaderAt
    <3> QED BY <3>4 DEF ParsesAt
  <2> QED BY <2>1, <2>5, <2>6, <2>7
<1>7. CASE n + 1 # L /\ ~LaterFragment(f, n + 1)
  <2>1. (n + 1) + 1 = n + 2 /\ n + 2 \in 1..L /\ n + 1 \in 1..(L - 1)
    BY <1>1, <1>7
  <2>2. /\ q \notin {"range", "done"}
        /\ f.layers[n + 2].class = WholeClass(q, f.layers[n + 2].message)
    BY <1>7, <2>1, FramesFollow
  <2>3. NumberAfter(f, n + 1) = f.layers[n + 2].type
    <3>1. n + 1 < L
      BY <1>1, <1>7
    <3> QED BY <2>1, <3>1 DEF NumberAfter, Size
  <2>4. CASE /\ class \in {"ether_header", "vlan_tag"}
             /\ q \in EtherParsers /\ q # "ether_header"
    <3>1. p \in {"ether_header", "vlan_tag"}
      BY <1>8, <2>4
    <3>2. ~IpAmong(f, n + 1)
      BY <1>4, <1>5, <2>4, <3>1 DEF IpParsers, IpClasses
    <3>3. q \notin IpParsers
      BY <2>4 DEF EtherParsers, IpParsers
    <3>4. WholeAt(f, q, n + 1)
      BY <2>1, <2>2, <2>4, <3>2, <3>3 DEF WholeAt, IpParsers
    <3>5. HeaderAt(f, q, StartIn(f, n + 2), n + 1)
      BY <2>1, <2>4, <3>4 DEF HeaderAt
    <3> QED BY <3>5 DEF ParsesAt
  <2>5. CASE /\ class \in IpClasses \cup {"ipv6_extension_header",
                                          "ipv6_fragment_header", "ah_header"}
             /\ q \in IpParsers
             /\ q = "icmpv4" => NumberAfter(f, n + 1) = 1
             /\ q = "icmpv6" => NumberAfter(f, n + 1) = 58
    <3>1. IpAmong(f, n + 1)
      <4>1. class \notin IpClasses =>
              p \in {"ipv6_hop_by_hop", "ipv6_fragment_header", "ah_header"}
        BY <1>8, <2>5 DEF EtherParsers, IpParsers
      <4> QED BY <1>4, <1>5, <4>1 DEF IpParsers
    <3>2. WholeAt(f, q, n + 1)
      <4>1. q # "ether_header"
        BY <2>5 DEF IpParsers
      <4> QED BY <2>1, <2>2, <2>3, <2>5, <3>1, <4>1 DEF WholeAt
    <3>3. HeaderAt(f, q, StartIn(f, n + 2), n + 1)
      BY <2>1, <2>5, <3>2 DEF HeaderAt
    <3> QED BY <3>3 DEF ParsesAt
  <2> QED BY <2>2, <2>4, <2>5, AfterFacts DEF class
<1> QED BY <1>3, <1>6, <1>7

-----------------------------------------------------------------------------
(* Where the frame is cut off                                              *)

LEMMA PacketEndFacts ==
  ASSUME NEW f, FrameOK(f)
  PROVE  /\ PacketEnd(f) \in Nat
         /\ \A i \in 1..Size(f) :
              StartIn(f, i) + f.layers[i].length <= PacketEnd(f)
<1> DEFINE L == Size(f)
<1>1. /\ L \in Nat /\ L + 1 \in 1..(L + 1) /\ f.payload \in Nat
      /\ \A i \in 1..L : f.layers[i].length \in Nat /\ i < L + 1
                         /\ i \in 1..(L + 1)
  BY LayerFacts
<1>2. PacketEnd(f) = StartIn(f, L + 1) + f.payload
  BY DEF PacketEnd, Size
<1> HIDE DEF L
<1>3. /\ StartIn(f, L + 1) \in Nat
      /\ \A i \in 1..L : /\ StartIn(f, i) \in Nat
                         /\ StartIn(f, i) + f.layers[i].length
                              <= StartIn(f, L + 1)
  BY <1>1, Starts DEF L
<1>4. ASSUME NEW i \in 1..L
      PROVE  StartIn(f, i) + f.layers[i].length <= PacketEnd(f)
  BY <1>1, <1>2, <1>3
<1> QED BY <1>1, <1>2, <1>3, <1>4 DEF L

\* If a header is not there whole, neither is any after it.
LEMMA CutOff ==
  ASSUME NEW f, FrameOK(f), NEW sz \in Nat, NEW n \in Nat,
         n + 1 \in 1..Size(f), NEW e \in {sz, PacketEnd(f)},
         e - StartIn(f, n + 1) < f.layers[n + 1].length
  PROVE  CompleteOK(f, sz, n)
<1> DEFINE len(i) == f.layers[i].length
           S(i) == StartIn(f, i)
<1>1. /\ Size(f) \in Nat /\ PacketEnd(f) \in Nat
      /\ S(n + 1) + len(n + 1) <= PacketEnd(f)
      /\ \A i \in 1..Size(f) : len(i) \in Nat /\ i \in 1..(Size(f) + 1)
  BY LayerFacts, PacketEndFacts
<1>2. /\ \A i \in 1..Size(f) : S(i) \in Nat
      /\ \A i \in 1..Size(f) : n + 1 < i => S(n + 1) + len(n + 1) <= S(i)
  BY <1>1, Starts
<1>3. e = sz /\ sz < S(n + 1) + len(n + 1)
  BY <1>1, <1>2
<1> SUFFICES ASSUME NEW i \in 1..Size(f), S(i) + len(i) <= sz
             PROVE  i <= n
  BY DEF CompleteOK
<1>4. /\ len(i) \in Nat /\ S(i) \in Nat /\ len(n + 1) \in Nat
      /\ S(n + 1) \in Nat /\ i \in Nat
  BY <1>1, <1>2
<1>5. i # n + 1 /\ ~(n + 1 < i)
  <2> HIDE DEF S, len
  <2>1. i # n + 1
    BY <1>3, <1>4
  <2>2. ~(n + 1 < i)
    BY <1>2, <1>3, <1>4
  <2> QED BY <2>1, <2>2
<1> QED BY <1>4, <1>5

LEMMA LastIsReceived ==
  ASSUME NEW f, FrameOK(f), NEW sz \in Nat, NEW e, NEW n,
         e = ExactEnd(f, sz, n)
  PROVE  e <= sz
<1>1. PacketEnd(f) \in Nat
  BY PacketEndFacts
<1> QED BY <1>1 DEF ExactEnd

\* Nothing follows the data of a later fragment.
LEMMA NotLater ==
  ASSUME NEW f, FrameOK(f), NEW n \in Nat, n + 1 \in 1..Size(f)
  PROVE  ~LaterIn(f, n)
<1> SUFFICES ASSUME NEW k \in 1..(n - 1), LaterFragment(f, k) PROVE FALSE
  BY DEF LaterIn
<1>1. Size(f) \in Nat /\ k \in 1..(Size(f) - 1) /\ k + 1 # Size(f)
  BY LayerFacts
<1> QED BY <1>1, FramesFollow

LEMMA LaterStays ==
  ASSUME NEW f, NEW n \in Nat, LaterIn(f, n)
  PROVE  LaterIn(f, n + 1)
<1>1. PICK k \in 1..(n - 1) : LaterFragment(f, k)
  BY DEF LaterIn
<1>2. k \in 1..((n + 1) - 1)
  OBVIOUS
<1> QED BY <1>1, <1>2 DEF LaterIn

\* Only IP headers have a say in where the packet ends.
LEMMA EndStays ==
  ASSUME NEW f, FrameOK(f), NEW sz, NEW n \in Nat, n + 1 \in 1..Size(f),
         f.layers[n + 1].class \notin IpClasses
  PROVE  ExactEnd(f, sz, n + 1) = ExactEnd(f, sz, n)
<1>1. \A k : k \in 1..(n + 1) <=> k \in 1..n \/ k = n + 1
  OBVIOUS
<1>2. IpAmong(f, n + 1) <=> IpAmong(f, n)
  BY <1>1 DEF IpAmong
<1>3. ~EmptyAt(f, n) /\ ~EmptyAt(f, n + 1)
  <2>1. n # Size(f)
    BY LayerFacts
  <2> QED BY <2>1 DEF EmptyAt, IpClasses
<1> QED BY <1>2, <1>3 DEF ExactEnd

-----------------------------------------------------------------------------
(* Steps                                                                   *)

\* The list of what was handed on grows by one.
LEMMA HandKeeps ==
  ASSUME NEW f, NEW sz, NEW st, NEW p, NEW b, NEW e, NEW H,
         ParserInv(f, sz, st, p, b, e, H), p # "done",
         NEW h \in Entry, NEW p2, NEW b2 \in Int, NEW e2 \in Int,
         EntryOK(f, sz, Cut(f, sz, H), Cut(f, sz, Append(H, h)), Len(H) + 1, h),
         IF p2 = "done"
         THEN h.class \in st \/ CompleteOK(f, sz, Len(H) + 1)
         ELSE /\ h.class \notin st /\ ParsesAt(f, p2, b2, Len(H) + 1)
              /\ EndsAt(f, sz, Cut(f, sz, Append(H, h)), e2, Len(H) + 1)
              /\ p2 = "range" => RangeFits(f, b2, e2, Len(H) + 1)
  PROVE  ParserInv(f, sz, st, p2, b2, e2, Append(H, h))
<1> DEFINE G == Append(H, h)
<1>1. H \in Seq(Entry) /\ FrameOK(f) /\ sz \in Nat
  BY DEF ParserInv
<1>2. /\ G \in Seq(Entry) /\ Len(G) = Len(H) + 1 /\ Len(H) \in Nat
      /\ \A i \in 1..Len(H) : G[i] = H[i] /\ i \in DOMAIN G /\ i \in DOMAIN H
      /\ G[Len(H) + 1] = h /\ DOMAIN H = 1..Len(H)
  BY <1>1
<1> HIDE DEF G
<1>3. ASSUME NEW i \in 0..Len(H)
      PROVE  CutAt(f, sz, H, i) <=> CutAt(f, sz, G, i)
  <2>1. \A k \in 1..i : k \in 1..Len(H)
    BY <1>2
  <2> QED BY <1>2, <2>1 DEF CutAt
<1>4. \A i \in 1..Len(H) :
        EntryOK(f, sz, CutAt(f, sz, H, i - 1), CutAt(f, sz, H, i), i, H[i])
  BY DEF ParserInv, EntriesOK
<1>5. EntriesOK(f, sz, G)
  <2>1. ASSUME NEW i \in 1..Len(H)
        PROVE  EntryOK(f, sz, CutAt(f, sz, G, i - 1), CutAt(f, sz, G, i), i, G[i])
    <3>1. i - 1 \in 0..Len(H) /\ i \in 0..Len(H)
      BY <1>2
    <3>2. /\ CutAt(f, sz, H, i - 1) <=> CutAt(f, sz, G, i - 1)
          /\ CutAt(f, sz, H, i) <=> CutAt(f, sz, G, i)
      BY <1>3, <3>1
    <3> QED BY <1>2, <1>4, <3>2 DEF EntryOK, Readable, Exact
  <2>2. LET i == Len(H) + 1
        IN  EntryOK(f, sz, CutAt(f, sz, G, i - 1), CutAt(f, sz, G, i), i, G[i])
    <3>1. (Len(H) + 1) - 1 = Len(H) /\ Len(H) \in 0..Len(H)
      BY <1>2
    <3>2. CutAt(f, sz, G, Len(H)) <=> Cut(f, sz, H)
      BY <1>3, <3>1 DEF Cut
    <3>3. CutAt(f, sz, G, Len(H) + 1) <=> Cut(f, sz, G)
      BY <1>2 DEF Cut
    <3>4. EntryOK(f, sz, Cut(f, sz, H), Cut(f, sz, G), Len(H) + 1, G[Len(H) + 1])
      BY <1>2 DEF G
    <3> QED BY <3>1, <3>2, <3>3, <3>4 DEF EntryOK, Readable, Exact
  <2>3. \A i \in 1..Len(G) : i \in 1..Len(H) \/ i = Len(H) + 1
    BY <1>2
  <2> QED BY <2>1, <2>2, <2>3 DEF EntriesOK
<1>6. \A i \in 1..Len(H) : H[i].class \notin st
  BY DEF ParserInv
<1>7. \A i \in 1..(Len(G) - 1) : G[i].class \notin st
  BY <1>2, <1>6
<1>8. CASE p2 = "done"
  <2>1. Finished(f, sz, st, G)
    BY <1>2, <1>8 DEF Finished
  <2> QED BY <1>1, <1>2, <1>5, <1>7, <1>8, <2>1 DEF ParserInv, G
<1>9. CASE p2 # "done"
  <2>1. \A i \in 1..Len(G) : G[i].class \notin st
    <3>1. \A i \in 1..Len(G) : i \in 1..Len(H) \/ i = Len(H) + 1
      BY <1>2
    <3> QED BY <1>2, <1>6, <1>9, <3>1
  <2>2. /\ ParsesAt(f, p2, b2, Len(G))
        /\ EndsAt(f, sz, Cut(f, sz, G), e2, Len(G))
        /\ p2 = "range" => RangeFits(f, b2, e2, Len(G))
    BY <1>2, <1>9 DEF G
  <2> QED BY <1>1, <1>2, <1>5, <1>7, <1>9, <2>1, <2>2 DEF ParserInv, G
<1> QED BY <1>8, <1>9

\* The parser gives up.
LEMMA StopKeeps ==
  ASSUME NEW f, NEW sz, NEW st, NEW p, NEW b, NEW e, NEW H,
         ParserInv(f, sz, st, p, b, e, H),
         CompleteOK(f, sz, Len(H)) \/ ~(NumberAfter(f, 1) >= 1536)
  PROVE  ParserInv(f, sz, st, "done", b, e, H)
BY DEF ParserInv, Finished

\* Where the parser is when it is at a header.
LEMMA AtHeader ==
  ASSUME PInv, parser \in EtherParsers \cup IpParsers,
         NEW n, n = Len(handed)
  PROVE  /\ FrameOK(frame) /\ size \in Nat /\ n \in Nat
         /\ n + 1 \in 1..Size(frame)
         /\ HeaderAt(frame, parser, first, n)
         /\ first \in Nat /\ first = StartIn(frame, n + 1)
         /\ first + frame.layers[n + 1].length = StartIn(frame, n + 2)
         /\ frame.layers[n + 1].length \in Nat
         /\ frame.layers[n + 1].length > 0
         /\ first + frame.layers[n + 1].length <= PacketEnd(frame)
         /\ PacketEnd(frame) \in Nat
         /\ last \in Int /\ last \in {size, PacketEnd(frame)}
         /\ Cut(frame, size, handed) \/ last = ExactEnd(frame, size, n)
         /\ Here = n + 1
<1>1. parser # "done" /\ parser # "range"
  BY DEF EtherParsers, IpParsers
<1>2. /\ FrameOK(frame) /\ size \in Nat /\ handed \in Seq(Entry) /\ last \in Int
      /\ ParsesAt(frame, parser, first, n)
      /\ EndsAt(frame, size, Cut(frame, size, handed), last, n)
  BY <1>1 DEF PInv, ParserInv
<1>3. HeaderAt(frame, parser, first, n)
  BY <1>1, <1>2 DEF ParsesAt
<1>4. n \in Nat
  BY <1>2
<1>5. n + 1 \in 1..Size(frame) /\ first = StartIn(frame, n + 1)
  BY <1>3 DEF HeaderAt
<1>6. /\ Size(frame) \in Nat /\ DOMAIN frame.layers = 1..Size(frame)
      /\ frame.layers[n + 1].length \in Nat /\ frame.layers[n + 1].length > 0
  BY <1>2, <1>5, LayerFacts
<1>7. /\ (n + 1) + 1 = n + 2 /\ n + 1 \in 1..(Size(frame) + 1)
  BY <1>4, <1>5, <1>6
<1>8. /\ first \in Nat
      /\ StartIn(frame, n + 2) = first + frame.layers[n + 1].length
  BY <1>2, <1>5, <1>7, Starts
<1>9. /\ PacketEnd(frame) \in Nat
      /\ first + frame.layers[n + 1].length <= PacketEnd(frame)
  BY <1>2, <1>5, PacketEndFacts
<1>10. Here = n + 1
  <2>1. \A i \in DOMAIN Layers : Start(i) = first <=> i = n + 1
    BY <1>2, <1>5, <1>6, OneStartEach DEF Layers, Start
  <2>2. n + 1 \in DOMAIN Layers
    BY <1>5, <1>6 DEF Layers
  <2> QED BY <2>1, <2>2 DEF Here
<1>11. /\ last \in {size, PacketEnd(frame)}
       /\ Cut(frame, size, handed) \/ last = ExactEnd(frame, size, n)
  BY <1>2, <1>4, <1>5, NotLater DEF EndsAt
<1> QED BY <1>2, <1>3, <1>4, <1>5, <1>6, <1>8, <1>9, <1>10, <1>11

\* What a header object is made of there.
LEMMA AtObject ==
  ASSUME PInv, parser \in EtherParsers \cup IpParsers,
         NEW n, n = Len(handed), NEW class, NEW next, NEW end,
         NEW h, h = Header(class, next, end)
  PROVE  /\ HeaderLength = LengthOf(frame.layers[n + 1])
         /\ HeaderLength \in Nat
         /\ h = [class |-> class, first |-> first, last |-> last,
                 length |-> HeaderLength, next |-> next, end |-> end]
         /\ h.class = class /\ h.first = first /\ h.last = last
         /\ h.length = HeaderLength /\ h.next = next /\ h.end = end
<1>1. /\ FrameOK(frame) /\ n + 1 \in 1..Size(frame) /\ Here = n + 1
      /\ first = StartIn(frame, n + 1)
  BY AtHeader
<1>2. /\ n + 1 \in DOMAIN Layers /\ Start(n + 1) = first
      /\ frame.layers[n + 1].length \in Nat
      /\ frame.layers[n + 1].message \in Nat
  BY <1>1, LayerFacts DEF Layers, Start
<1>3. HeaderLength = LengthOf(frame.layers[n + 1])
  BY <1>1 DEF HeaderLength, LengthOf, Layers
<1>4. HeaderLength \in Nat
  BY <1>2, <1>3 DEF LengthOf
<1>5. h = [class |-> class, first |-> first, last |-> last,
           length |-> HeaderLength, next |-> next, end |-> end]
  BY <1>2 DEF Header
<1> QED BY <1>3, <1>4, <1>5

\* The fields of a class fit into that many bytes.
FieldsFit(class, left) ==
  \A field \in Fields(class) :
    field[1] \in Int /\ field[2] \in Int /\ field[1] + field[2] <= left

\* The ranges of an object are inside what it was given.
RangesFit(h) ==
  \A range \in Ranges(h) :
    \/ CutInside(h)
    \/ range[1] <= range[2] /\ range[2] <= h.last

\* A header is handed on, and the parser goes on or is done.
LEMMA HandOnKeeps ==
  ASSUME PInv, parser \in EtherParsers \cup IpParsers,
         NEW n, n = Len(handed),
         NEW class \in Classes, class # "range", NEW least \in Nat,
         NEW next, NEW begin \in Int, NEW end \in Int,
         HandOn(class, least, next, begin, end),
         IsA(class, frame.layers[n + 1]) \/ LaterIn(frame, n + 1),
         FieldsFit(class, last - first),
         \/ RangesFit(Header(class, begin, end))
         \/ /\ class = "ipv6_header"
            /\ Cut(frame, size, handed) \/ CutShort(frame, size)
         \/ class = "udp_header" /\ LaterIn(frame, n + 1) /\ end <= last,
         least <= frame.layers[n + 1].length \/ n + 1 = Size(frame),
         last - first >= least =>
           /\ ParsesAt(frame, next, begin, n + 1)
           /\ next = "range" => RangeFits(frame, begin, end, n + 1)
           /\ \/ /\ end \in {size, PacketEnd(frame)}
                 /\ \/ Cut(frame, size, handed)
                    \/ class = "ipv6_header" /\ CutShort(frame, size)
                    \/ end = ExactEnd(frame, size, n + 1)
              \/ LaterIn(frame, n + 1) /\ end <= last
  PROVE  PInv'
<1> DEFINE h == Header(class, begin, end)
           G == Append(handed, h)
<1>1. /\ FrameOK(frame) /\ size \in Nat /\ n \in Nat
      /\ n + 1 \in 1..Size(frame)
      /\ first \in Nat /\ first = StartIn(frame, n + 1)
      /\ frame.layers[n + 1].length \in Nat
      /\ PacketEnd(frame) \in Nat
      /\ last \in Int /\ last \in {size, PacketEnd(frame)}
      /\ Cut(frame, size, handed) \/ last = ExactEnd(frame, size, n)
  BY AtHeader
<1>3. /\ HeaderLength \in Nat
      /\ h = [class |-> class, first |-> first, last |-> last,
              length |-> HeaderLength, next |-> begin, end |-> end]
      /\ h.class = class /\ h.first = first /\ h.last = last
      /\ h.next = begin /\ h.end = end
  BY AtObject
<1>4. h \in Entry
  BY <1>1, <1>3 DEF Entry
<1>5. /\ handed' = G /\ frame' = frame /\ size' = size /\ stops' = stops
  BY DEF HandOn, input
<1> HIDE DEF h
<1>6. handed \in Seq(Entry) /\ ParserInv(frame, size, stops, parser, first, last, handed)
  BY DEF PInv, ParserInv
<1>7. /\ Cut(frame, size, handed) => Cut(frame, size, G)
      /\ class = "ipv6_header" /\ CutShort(frame, size) => Cut(frame, size, G)
  <2>1. /\ Len(G) = n + 1 /\ G[n + 1] = h
        /\ \A i \in 1..n : i \in 1..(n + 1) /\ G[i] = handed[i]
        /\ n + 1 \in 1..(n + 1)
    BY <1>1, <1>4, <1>6
  <2> HIDE DEF G
  <2> QED BY <1>3, <2>1 DEF Cut, CutAt
<1>15. Cut(frame, size, handed) \/ last <= size
  BY <1>1, LastIsReceived
<1>8. EntryOK(frame, size, Cut(frame, size, handed), Cut(frame, size, G), n + 1, h)
  <2>1. Placed(frame, n + 1, h)
    BY <1>1, <1>3 DEF Placed
  <2>2. Exact(frame, size, Cut(frame, size, G), n + 1, h)
    BY <1>3 DEF Exact
  <2>3. ASSUME NEW field \in Fields(h.class), ~Cut(frame, size, handed)
        PROVE  h.first + field[1] + field[2] <= size
    <3>1. /\ field[1] \in Int /\ field[2] \in Int
          /\ field[1] + field[2] <= last - first
      BY <1>3, <2>3 DEF FieldsFit
    <3> QED BY <1>1, <1>3, <1>15, <2>3, <3>1
  <2>4. ASSUME NEW range \in Ranges(h), ~Cut(frame, size, G), ~CutInside(h)
        PROVE  /\ range[2] <= size
               /\ \/ range[1] <= range[2]
                  \/ h.class = "udp_header" /\ LaterIn(frame, n + 1)
    <3>1. last <= size
      BY <1>7, <1>15, <2>4
    <3>2. CASE RangesFit(h)
      <4>1. range[1] <= range[2] /\ range[2] <= last
        BY <1>3, <2>4, <3>2 DEF RangesFit
      <4>2. range[2] \in Int
        BY <1>1, <1>3, <2>4 DEF Ranges, Payload, MessagePayload, Addresses,
             Tlvs, AuthenticationData, LinkLayerAddress
      <4> QED BY <1>1, <3>1, <4>1, <4>2
    <3>3. CASE /\ class = "ipv6_header"
               /\ Cut(frame, size, handed) \/ CutShort(frame, size)
      BY <1>7, <2>4, <3>3
    <3>4. CASE class = "udp_header" /\ LaterIn(frame, n + 1) /\ end <= last
      <4>1. Ranges(h) = {<<begin, end>>}
        BY <1>3, <3>4 DEF Ranges, Payload
      <4>2. range[2] = end
        BY <4>1
      <4> QED BY <1>1, <1>3, <3>1, <3>4, <4>2
    <3> QED BY <3>2, <3>3, <3>4 DEF h
  <2> QED BY <2>1, <2>2, <2>3, <2>4 DEF EntryOK, Readable
<1>9. parser # "done"
  BY DEF EtherParsers, IpParsers
<1>10. Left = last - first
  BY DEF Left
<1>11. CASE class \notin stops /\ last - first >= least
  <2>1. parser' = next /\ first' = begin /\ last' = end
    BY <1>10, <1>11 DEF HandOn
  <2>2. ParsesAt(frame, next, begin, n + 1)
    BY <1>11
  <2>3. CASE next = "done"
    <3>1. NothingLeft(frame, n + 1)
      BY <2>2, <2>3 DEF ParsesAt, HeaderAt, EtherParsers, IpParsers
    <3>2. CompleteOK(frame, size, n + 1)
      BY <3>1 DEF NothingLeft, CompleteOK
    <3>4. ParserInv(frame, size, stops, next, begin, end, G)
      BY <1>4, <1>6, <1>8, <1>9, <2>3, <3>2, HandKeeps
    <3> HIDE DEF G
    <3> QED BY <1>5, <2>1, <3>4 DEF PInv
  <2>4. CASE next # "done"
    <3>1. LaterIn(frame, n + 1) /\ end <= last =>
            Cut(frame, size, handed) \/ end <= size
      BY <1>1, <1>15
    <3>2. EndsAt(frame, size, Cut(frame, size, G), end, n + 1)
      <4> HIDE DEF G
      <4> QED BY <1>7, <1>11, <3>1 DEF EndsAt
    <3>3. ParserInv(frame, size, stops, next, begin, end, G)
      BY <1>3, <1>4, <1>6, <1>8, <1>9, <1>11, <2>2, <2>4, <3>2, HandKeeps
    <3> HIDE DEF G
    <3> QED BY <1>5, <2>1, <3>3 DEF PInv
  <2> QED BY <2>3, <2>4
<1>12. CASE class \in stops \/ ~(last - first >= least)
  <2>1. parser' = "done" /\ first' = first /\ last' = last
    BY <1>10, <1>12 DEF HandOn
  <2>2. class \in stops \/ CompleteOK(frame, size, n + 1)
    <3>1. CASE ~(last - first >= least) /\ n + 1 # Size(frame)
      <4>1. last - first < frame.layers[n + 1].length
        BY <1>1, <3>1
      <4>2. CompleteOK(frame, size, n)
        BY <1>1, <4>1, CutOff
      <4>3. \A i \in 1..Size(frame) : i <= n => i <= n + 1
        BY <1>1
      <4> QED BY <4>2, <4>3 DEF CompleteOK
    <3>2. CASE n + 1 = Size(frame)
      BY <3>2 DEF CompleteOK
    <3> QED BY <1>12, <3>1, <3>2
  <2>3. ParserInv(frame, size, stops, "done", first, last, G)
    BY <1>1, <1>3, <1>4, <1>6, <1>8, <1>9, <2>2, HandKeeps
  <2> HIDE DEF G
  <2> QED BY <1>5, <2>1, <2>3 DEF PInv
<1> QED BY <1>11, <1>12

\* The parser gives up, before a header that is not there whole.
LEMMA ReturnKeeps ==
  ASSUME PInv, parser \in EtherParsers \cup IpParsers, Return,
         NEW n, n = Len(handed),
         \/ last - first < frame.layers[n + 1].length
         \/ frame.layers[n + 1].class = "data"
         \/ ~(NumberAfter(frame, 1) >= 1536)
  PROVE  PInv'
<1>1. /\ FrameOK(frame) /\ size \in Nat /\ n \in Nat
      /\ n + 1 \in 1..Size(frame)
      /\ first = StartIn(frame, n + 1)
      /\ last \in {size, PacketEnd(frame)}
      /\ HeaderAt(frame, parser, first, n)
  BY AtHeader
<1>2. /\ parser' = "done" /\ frame' = frame /\ size' = size /\ stops' = stops
      /\ first' = first /\ last' = last /\ handed' = handed
  BY DEF Return, input
<1>3. CompleteOK(frame, size, n) \/ ~(NumberAfter(frame, 1) >= 1536)
  <2>1. CASE last - first < frame.layers[n + 1].length
    BY <1>1, <2>1, CutOff
  <2>2. CASE frame.layers[n + 1].class = "data"
    <3>1. n + 1 = Size(frame)
      <4>1. ~WholeAt(frame, parser, n)
        BY <2>2, ClassFacts DEF WholeAt
      <4> QED BY <1>1, <4>1 DEF HeaderAt, DataAt
    <3>2. \A i \in 1..Size(frame) : i # n + 1 => i <= n
      BY <1>1, <3>1
    <3> QED BY <2>2, <3>2 DEF CompleteOK
  <2> QED BY <2>1, <2>2
<1>4. ParserInv(frame, size, stops, parser, first, last, handed)
  BY DEF PInv
<1>5. ParserInv(frame, size, stops, "done", first, last, handed)
  BY <1>3, <1>4, StopKeeps
<1> QED BY <1>2, <1>5 DEF PInv

-----------------------------------------------------------------------------
(* One lemma for each parse function                                       *)

\* What a header may look like that the parser is at.
LEMMA AtWhole ==
  ASSUME PInv, parser \in EtherParsers \cup IpParsers,
         NEW n, n = Len(handed), WholeAt(frame, parser, n),
         NEW class, class = frame.layers[n + 1].class
  PROVE  /\ class = WholeClass(parser, frame.layers[n + 1].message)
         /\ frame.layers[n + 1].length \in Lengths(class)
         /\ ParsesAt(frame, After(frame, n + 1), StartIn(frame, n + 2), n + 1)
         /\ NextType(n + 1) = NumberAfter(frame, n + 1)
<1>1. FrameOK(frame) /\ n \in Nat /\ n + 1 \in 1..Size(frame)
  BY AtHeader
<1>2. /\ class = WholeClass(parser, frame.layers[n + 1].message)
      /\ frame.layers[n + 1].length \in Lengths(class)
  BY <1>1, LayerFacts DEF WholeAt
<1>3. NextType(n + 1) = NumberAfter(frame, n + 1)
  BY DEF NextType, NumberAfter, Layers
<1> QED BY <1>1, <1>2, <1>3, NextHeader

\* The end of the range is left alone by all but IP and UDP.
LEMMA LastKeeps ==
  ASSUME PInv, parser \in EtherParsers \cup IpParsers,
         NEW n, n = Len(handed), frame.layers[n + 1].class \notin IpClasses
  PROVE  /\ last \in {size, PacketEnd(frame)}
         /\ Cut(frame, size, handed) \/ last = ExactEnd(frame, size, n + 1)
<1>1. /\ FrameOK(frame) /\ size \in Nat /\ n \in Nat
      /\ n + 1 \in 1..Size(frame)
      /\ last \in {size, PacketEnd(frame)}
      /\ Cut(frame, size, handed) \/ last = ExactEnd(frame, size, n)
  BY AtHeader
<1>2. ExactEnd(frame, size, n + 1) = ExactEnd(frame, size, n)
  BY <1>1, EndStays
<1> QED BY <1>1, <1>2

\* After the last header, or what is taken for one, there is a range at most.
LEMMA LastHeader ==
  ASSUME PInv, parser \in DataParsers, NEW n, n = Len(handed),
         NEW next \in {"range", "done"}, NEW begin \in Nat,
         WholeAt(frame, parser, n) =>
           /\ next = After(frame, n + 1)
           /\ next = "range" => begin = StartIn(frame, n + 2)
  PROVE  ParsesAt(frame, next, begin, n + 1)
<1>1. parser \in EtherParsers \cup IpParsers
  BY DEF DataParsers, IpParsers
<1>2. /\ FrameOK(frame) /\ n \in Nat /\ n + 1 \in 1..Size(frame)
      /\ HeaderAt(frame, parser, first, n)
  BY <1>1, AtHeader
<1>3. CASE WholeAt(frame, parser, n)
  <2>1. ParsesAt(frame, next, StartIn(frame, n + 2), n + 1)
    BY <1>1, <1>3, AtWhole
  <2>2. CASE next = "range"
    BY <1>3, <2>1, <2>2
  <2>3. CASE next = "done"
    <3>1. NothingLeft(frame, n + 1)
      BY <2>1, <2>3 DEF ParsesAt, HeaderAt, EtherParsers, IpParsers
    <3> QED BY <2>3, <3>1 DEF ParsesAt
  <2> QED BY <2>2, <2>3
<1>4. CASE DataAt(frame, parser, n)
  <2>1. NothingLeft(frame, n + 1)
    BY <1>4 DEF DataAt, NothingLeft
  <2>2. LaterIn(frame, (n + 1) + 1)
    <3>1. PICK k \in 1..((n + 1) - 1) : LaterFragment(frame, k)
      BY <1>4 DEF DataAt, LaterIn
    <3>2. k \in 1..(((n + 1) + 1) - 1)
      BY <1>2, <3>1
    <3> QED BY <3>1, <3>2 DEF LaterIn
  <2> QED BY <2>1, <2>2 DEF ParsesAt, RangeAt
<1> QED BY <1>2, <1>3, <1>4 DEF HeaderAt

LEMMA EtherKeeps ==
  ASSUME PInv, ParseEther
  PROVE  PInv'
<1> PICK n : n = Len(handed)
  OBVIOUS
<1> PICK q : q = After(frame, n + 1)
  OBVIOUS
<1>1. parser = "ether_header" /\ parser \in EtherParsers \cup IpParsers
  BY DEF ParseEther, EtherParsers
<1>2. /\ first \in Nat /\ n \in Nat
      /\ first + frame.layers[n + 1].length = StartIn(frame, n + 2)
      /\ frame.layers[n + 1].length \in Nat /\ last \in Int
      /\ HeaderAt(frame, parser, first, n)
  BY <1>1, AtHeader
<1>3. WholeAt(frame, parser, n)
  BY <1>1, <1>2 DEF HeaderAt, DataAt, DataParsers
<1>4. frame.layers[n + 1].class = "ether_header"
  BY <1>1, <1>3 DEF WholeAt, WholeClass
<1>5. /\ frame.layers[n + 1].length = 14
      /\ ParsesAt(frame, q, first + 14, n + 1)
      /\ NextType(n + 1) = NumberAfter(frame, n + 1)
      /\ n = 0
  <2>1. n = 0
    BY <1>1, <1>3 DEF WholeAt
  <2>2. Lengths("ether_header") = {14}
    BY DEF Lengths
  <2> QED BY <1>1, <1>2, <1>3, <1>4, <2>1, <2>2, AtWhole
<1>6. CASE Left >= 14 /\ NextType(1) >= 1536
  <2>1. q = ether_next_header(NextType(1))
    BY <1>4, <1>5 DEF After
  <2>2. HandOn("ether_header", 0, q, first + 14, last)
    BY <1>1, <1>6, <2>1 DEF ParseEther
  <2>3. FieldsFit("ether_header", last - first)
    <3>1. last - first >= 14 /\ last - first \in Int
      BY <1>2, <1>6 DEF Left
    <3> QED BY <3>1 DEF FieldsFit, Fields, EtherFields
  <2>4. IsA("ether_header", frame.layers[n + 1])
    BY <1>4 DEF IsA
  <2>5. /\ last \in {size, PacketEnd(frame)}
        /\ Cut(frame, size, handed) \/ last = ExactEnd(frame, size, n + 1)
    BY <1>1, <1>4, LastKeeps DEF IpClasses
  <2>6. first + 14 \in Int /\ 0 <= frame.layers[n + 1].length
        /\ RangeFits(frame, first + 14, last, n + 1)
    BY <1>2, <1>6 DEF RangeFits, Left
  <2>8. RangesFit(Header("ether_header", first + 14, last))
    <3> PICK h : h = Header("ether_header", first + 14, last)
      OBVIOUS
    <3>1. Ranges(h) = {}
      BY <1>1, AtObject DEF Ranges
    <3> QED BY <3>1 DEF RangesFit
  <2>7. "ether_header" \in Classes /\ "ether_header" # "range" /\ 0 \in Nat
    BY DEF Classes, EtherParsers
  <2> QED BY <1>1, <1>2, <1>5, <2>2, <2>3, <2>4, <2>5, <2>6, <2>7, <2>8, HandOnKeeps
<1>7. CASE ~(Left >= 14 /\ NextType(1) >= 1536)
  <2>1. Return
    BY <1>7 DEF ParseEther
  <2>2. \/ last - first < frame.layers[n + 1].length
        \/ ~(NumberAfter(frame, 1) >= 1536)
    BY <1>2, <1>5, <1>7 DEF Left
  <2> QED BY <1>1, <2>1, <2>2, ReturnKeeps
<1> QED BY <1>6, <1>7

\* A header that is there whole is handed on, and nothing but its place tells
\* where the parser goes on.
LEMMA WholeKeeps ==
  ASSUME PInv, parser \in EtherParsers \cup IpParsers,
         NEW n, n = Len(handed), WholeAt(frame, parser, n),
         frame.layers[n + 1].class \notin IpClasses,
         NEW class \in Classes, class # "range",
         class = frame.layers[n + 1].class,
         NEW least \in Nat, least <= frame.layers[n + 1].length,
         NEW next, next = After(frame, n + 1),
         NEW begin,
         \/ begin = first + frame.layers[n + 1].length
         \/ next = "done" /\ begin = first,
         HandOn(class, least, next, begin, last),
         FieldsFit(class, last - first), RangesFit(Header(class, begin, last)),
         \/ next = "done"
         \/ last - first >= least => last - first >= frame.layers[n + 1].length
  PROVE  PInv'
<1>1. /\ first \in Nat /\ frame.layers[n + 1].length \in Nat /\ last \in Int
      /\ first + frame.layers[n + 1].length = StartIn(frame, n + 2)
  BY AtHeader
<1>2. ParsesAt(frame, next, StartIn(frame, n + 2), n + 1)
  BY AtWhole
<1>3. begin \in Int
  BY <1>1
<1>4. ParsesAt(frame, next, begin, n + 1)
  <2>1. CASE begin = StartIn(frame, n + 2)
    BY <1>2, <2>1
  <2>2. CASE next = "done"
    BY <1>2, <2>2 DEF ParsesAt, HeaderAt, EtherParsers, IpParsers
  <2> QED BY <1>1, <2>1, <2>2
<1>5. /\ last \in {size, PacketEnd(frame)}
      /\ Cut(frame, size, handed) \/ last = ExactEnd(frame, size, n + 1)
  BY LastKeeps
<1>6. IsA(class, frame.layers[n + 1])
  BY DEF IsA
<1>7. last - first >= least /\ next = "range" =>
        RangeFits(frame, begin, last, n + 1)
  BY <1>1 DEF RangeFits
<1> QED BY <1>1, <1>3, <1>4, <1>5, <1>6, <1>7, HandOnKeeps

LEMMA VlanKeeps ==
  ASSUME PInv, ParseVlan
  PROVE  PInv'
<1> PICK n : n = Len(handed)
  OBVIOUS
<1> PICK q : q = After(frame, n + 1)
  OBVIOUS
<1>1. parser = "vlan_tag" /\ parser \in EtherParsers \cup IpParsers
  BY DEF ParseVlan, EtherParsers
<1>2. /\ first \in Nat /\ last \in Int /\ Here = n + 1
      /\ HeaderAt(frame, parser, first, n)
  BY <1>1, AtHeader
<1>3. WholeAt(frame, parser, n)
  BY <1>1, <1>2 DEF HeaderAt, DataAt, DataParsers
<1>4. frame.layers[n + 1].class = "vlan_tag"
  BY <1>1, <1>3 DEF WholeAt, WholeClass
<1>5. /\ frame.layers[n + 1].length = 4
      /\ NextType(n + 1) = NumberAfter(frame, n + 1)
  <2>1. Lengths("vlan_tag") = {4}
    BY DEF Lengths
  <2> QED BY <1>1, <1>3, <1>4, <2>1, AtWhole
<1>6. CASE Left >= 4
  <2>1. q = ether_next_header(NextType(Here))
    BY <1>2, <1>4, <1>5 DEF After
  <2>2. HandOn("vlan_tag", 0, q, first + 4, last)
    BY <1>1, <1>6, <2>1 DEF ParseVlan
  <2>3. FieldsFit("vlan_tag", last - first)
    <3>1. last - first >= 4 /\ last - first \in Int
      BY <1>2, <1>6 DEF Left
    <3> QED BY <3>1 DEF FieldsFit, Fields, VlanFields
  <2>4. /\ "vlan_tag" \in Classes /\ "vlan_tag" # "range"
        /\ "vlan_tag" \notin IpClasses /\ 0 \in Nat /\ 0 <= 4
    BY DEF Classes, EtherParsers, IpClasses
  <2>5. RangesFit(Header("vlan_tag", first + 4, last))
    <3> PICK h : h = Header("vlan_tag", first + 4, last)
      OBVIOUS
    <3>1. Ranges(h) = {}
      BY <1>1, AtObject DEF Ranges
    <3> QED BY <3>1 DEF RangesFit
  <2>6. last - first >= 4
    BY <1>6 DEF Left
  <2> QED BY <1>1, <1>3, <1>4, <1>5, <2>2, <2>3, <2>4, <2>5, <2>6, WholeKeeps
<1>7. CASE ~(Left >= 4)
  <2>1. Return
    BY <1>7 DEF ParseVlan
  <2>2. last - first < frame.layers[n + 1].length
    BY <1>2, <1>5, <1>7 DEF Left
  <2> QED BY <1>1, <2>1, <2>2, ReturnKeeps
<1> QED BY <1>6, <1>7

LEMMA ArpKeeps ==
  ASSUME PInv, ParseArp
  PROVE  PInv'
<1> PICK n : n = Len(handed)
  OBVIOUS
<1> PICK length : length = frame.layers[n + 1].length
  OBVIOUS
<1>1. parser = "arp" /\ parser \in EtherParsers \cup IpParsers
  BY DEF ParseArp, EtherParsers
<1>2. /\ first \in Nat /\ last \in Int /\ Here = n + 1
      /\ HeaderAt(frame, parser, first, n)
  BY <1>1, AtHeader
<1>3. WholeAt(frame, parser, n)
  BY <1>1, <1>2 DEF HeaderAt, DataAt, DataParsers
<1>4. frame.layers[n + 1].class = "arp"
  BY <1>1, <1>3 DEF WholeAt, WholeClass
<1>5. /\ length \in Nat /\ length >= 8
      /\ Layers[Here].length = length
  <2>1. Lengths("arp") = {k \in Nat : k >= 8}
    BY DEF Lengths
  <2> QED BY <1>1, <1>2, <1>3, <1>4, <2>1, AtWhole DEF Layers
<1>6. CASE Left >= 8 /\ Left >= length
  <2>1. "done" = After(frame, n + 1)
    BY <1>4 DEF After
  <2>2. HandOn("arp", 0, "done", first, last)
    BY <1>1, <1>5, <1>6 DEF ParseArp
  <2>3. FieldsFit("arp", last - first)
    <3>1. last - first >= length /\ last - first \in Int
      BY <1>2, <1>6 DEF Left
    <3> QED BY <1>5, <3>1 DEF FieldsFit, Fields, ArpFields
  <2>4. /\ "arp" \in Classes /\ "arp" # "range" /\ "arp" \notin IpClasses
        /\ 0 \in Nat /\ 0 <= length
    BY <1>5 DEF Classes, EtherParsers, IpClasses
  <2>5. RangesFit(Header("arp", first, last))
    <3> PICK h : h = Header("arp", first, last)
      OBVIOUS
    <3>1. /\ h.class = "arp" /\ h.first = first /\ h.last = last
          /\ h.length = length
      BY <1>1, <1>4, AtObject DEF LengthOf
    <3>2. Ranges(h) = {<<first + 8, first + length>>}
      BY <3>1 DEF Ranges, Addresses
    <3>3. first + 8 <= first + length /\ first + length <= last
      BY <1>2, <1>5, <1>6 DEF Left
    <3> QED BY <3>1, <3>2, <3>3 DEF RangesFit
  <2> QED BY <1>1, <1>3, <1>4, <2>1, <2>2, <2>3, <2>4, <2>5, WholeKeeps
<1>7. CASE ~(Left >= 8 /\ Left >= length)
  <2>1. Return
    BY <1>5, <1>7 DEF ParseArp
  <2>2. last - first < frame.layers[n + 1].length
    BY <1>2, <1>5, <1>7 DEF Left
  <2> QED BY <1>1, <2>1, <2>2, ReturnKeeps
<1> QED BY <1>6, <1>7

LEMMA LldpduKeeps ==
  ASSUME PInv, ParseLldpdu
  PROVE  PInv'
<1> PICK n : n = Len(handed)
  OBVIOUS
<1>1. parser = "lldpdu" /\ parser \in EtherParsers \cup IpParsers
  BY DEF ParseLldpdu, EtherParsers
<1>2. /\ HeaderAt(frame, parser, first, n)
      /\ frame.layers[n + 1].length \in Nat /\ first \in Nat /\ last \in Int
  BY <1>1, AtHeader
<1>3. WholeAt(frame, parser, n)
  BY <1>1, <1>2 DEF HeaderAt, DataAt, DataParsers
<1>4. frame.layers[n + 1].class = "lldpdu"
  BY <1>1, <1>3 DEF WholeAt, WholeClass
<1>5. "done" = After(frame, n + 1)
  BY <1>4 DEF After
<1>6. HandOn("lldpdu", 0, "done", first, last)
  BY <1>1 DEF ParseLldpdu
<1>7. /\ "lldpdu" \in Classes /\ "lldpdu" # "range"
      /\ "lldpdu" \notin IpClasses /\ 0 \in Nat
      /\ 0 <= frame.layers[n + 1].length
  BY <1>2 DEF Classes, EtherParsers, IpClasses
<1>8. FieldsFit("lldpdu", last - first)
  BY DEF FieldsFit, Fields
<1>9. RangesFit(Header("lldpdu", first, last))
  <2> PICK h : h = Header("lldpdu", first, last)
    OBVIOUS
  <2>1. /\ h.class = "lldpdu" /\ h.first = first /\ h.last = last
        /\ h.length \in Nat
    BY <1>1, AtObject
  <2>2. Ranges(h) = {<<first, first + h.length>>}
    BY <2>1 DEF Ranges, Tlvs
  <2>3. ~CutInside(h) => first <= first + h.length /\ first + h.length <= last
    BY <1>2, <2>1 DEF CutInside
  <2> QED BY <2>1, <2>2, <2>3 DEF RangesFit
<1> QED BY <1>1, <1>3, <1>4, <1>5, <1>6, <1>7, <1>8, <1>9, WholeKeeps

LEMMA HopByHopKeeps ==
  ASSUME PInv, ParseHopByHop
  PROVE  PInv'
<1> PICK n : n = Len(handed)
  OBVIOUS
<1> PICK q : q = After(frame, n + 1)
  OBVIOUS
<1> PICK length : length = frame.layers[n + 1].length
  OBVIOUS
<1> DEFINE class == "ipv6_extension_header"
<1>1. parser = "ipv6_hop_by_hop" /\ parser \in EtherParsers \cup IpParsers
  BY DEF ParseHopByHop, IpParsers
<1>2. /\ first \in Nat /\ last \in Int /\ Here = n + 1
      /\ HeaderAt(frame, parser, first, n)
  BY <1>1, AtHeader
<1>3. WholeAt(frame, parser, n)
  BY <1>1, <1>2 DEF HeaderAt, DataAt, DataParsers
<1>4. frame.layers[n + 1].class = class
  BY <1>1, <1>3 DEF WholeAt, WholeClass
<1>5. /\ length \in Nat /\ length >= 8
      /\ Layers[Here].length = length
      /\ NextType(n + 1) = NumberAfter(frame, n + 1)
  <2>1. Lengths(class) = {k \in Nat : k >= 8}
    BY DEF Lengths
  <2> QED BY <1>1, <1>2, <1>3, <1>4, <2>1, AtWhole DEF Layers
<1>6. CASE Left >= 8
  <2>1. q = ip_next_header(NextType(Here))
    BY <1>2, <1>4, <1>5 DEF After
  <2>2. HandOn(class, length, q, first + length, last)
    BY <1>1, <1>5, <1>6, <2>1 DEF ParseHopByHop
  <2>3. FieldsFit(class, last - first)
    <3>1. last - first >= 8 /\ last - first \in Int
      BY <1>2, <1>6 DEF Left
    <3> QED BY <3>1 DEF FieldsFit, Fields, ExtensionFields
  <2>4. /\ class \in Classes /\ class # "range" /\ class \notin IpClasses
        /\ length <= length
    BY <1>5 DEF Classes, IpClasses
  <2>5. RangesFit(Header(class, first + length, last))
    <3> PICK h : h = Header(class, first + length, last)
      OBVIOUS
    <3>1. Ranges(h) = {}
      BY <1>1, AtObject DEF Ranges
    <3> QED BY <3>1 DEF RangesFit
  <2> QED BY <1>1, <1>3, <1>4, <1>5, <2>2, <2>3, <2>4, <2>5, WholeKeeps
<1>7. CASE ~(Left >= 8)
  <2>1. Return
    BY <1>7 DEF ParseHopByHop
  <2>2. last - first < frame.layers[n + 1].length
    BY <1>2, <1>5, <1>7 DEF Left
  <2> QED BY <1>1, <2>1, <2>2, ReturnKeeps
<1> QED BY <1>6, <1>7

LEMMA FragmentKeeps ==
  ASSUME PInv, ParseFragment
  PROVE  PInv'
<1> PICK n : n = Len(handed)
  OBVIOUS
<1> PICK q : q = After(frame, n + 1)
  OBVIOUS
<1> DEFINE class == "ipv6_fragment_header"
<1>1. parser = class /\ parser \in EtherParsers \cup IpParsers
  BY DEF ParseFragment, IpParsers
<1>2. /\ first \in Nat /\ last \in Int /\ Here = n + 1
      /\ HeaderAt(frame, parser, first, n)
  BY <1>1, AtHeader
<1>3. WholeAt(frame, parser, n)
  BY <1>1, <1>2 DEF HeaderAt, DataAt, DataParsers
<1>4. frame.layers[n + 1].class = class
  BY <1>1, <1>3 DEF WholeAt, WholeClass
<1>5. /\ frame.layers[n + 1].length = 8
      /\ NextType(n + 1) = NumberAfter(frame, n + 1)
  <2>1. Lengths(class) = {8}
    BY DEF Lengths
  <2> QED BY <1>1, <1>3, <1>4, <2>1, AtWhole
<1>6. CASE Left >= 8
  <2>1. q = ip_next_header(NextType(Here))
    BY <1>2, <1>4, <1>5 DEF After
  <2>2. HandOn(class, 0, q, first + 8, last)
    BY <1>1, <1>6, <2>1 DEF ParseFragment
  <2>3. FieldsFit(class, last - first)
    <3>1. last - first >= 8 /\ last - first \in Int
      BY <1>2, <1>6 DEF Left
    <3> QED BY <3>1 DEF FieldsFit, Fields, FragmentFields
  <2>4. /\ class \in Classes /\ class # "range" /\ class \notin IpClasses
        /\ 0 \in Nat /\ 0 <= 8
    BY DEF Classes, IpClasses
  <2>5. RangesFit(Header(class, first + 8, last))
    <3> PICK h : h = Header(class, first + 8, last)
      OBVIOUS
    <3>1. Ranges(h) = {}
      BY <1>1, AtObject DEF Ranges
    <3> QED BY <3>1 DEF RangesFit
  <2>6. last - first >= 8
    BY <1>6 DEF Left
  <2> QED BY <1>1, <1>3, <1>4, <1>5, <2>2, <2>3, <2>4, <2>5, <2>6, WholeKeeps
<1>7. CASE ~(Left >= 8)
  <2>1. Return
    BY <1>7 DEF ParseFragment
  <2>2. last - first < frame.layers[n + 1].length
    BY <1>2, <1>5, <1>7 DEF Left
  <2> QED BY <1>1, <2>1, <2>2, ReturnKeeps
<1> QED BY <1>6, <1>7

LEMMA AhKeeps ==
  ASSUME PInv, ParseAh
  PROVE  PInv'
<1> PICK n : n = Len(handed)
  OBVIOUS
<1> PICK q : q = After(frame, n + 1)
  OBVIOUS
<1> PICK length : length = frame.layers[n + 1].length
  OBVIOUS
<1>1. parser = "ah_header" /\ parser \in EtherParsers \cup IpParsers
  BY DEF ParseAh, IpParsers
<1>2. /\ first \in Nat /\ last \in Int /\ Here = n + 1
      /\ HeaderAt(frame, parser, first, n)
  BY <1>1, AtHeader
<1>3. WholeAt(frame, parser, n)
  BY <1>1, <1>2 DEF HeaderAt, DataAt, DataParsers
<1>4. frame.layers[n + 1].class = "ah_header"
  BY <1>1, <1>3 DEF WholeAt, WholeClass
<1>5. /\ length \in Nat /\ length >= 12
      /\ Layers[Here].length = length
      /\ NextType(n + 1) = NumberAfter(frame, n + 1)
  <2>1. Lengths("ah_header") = {k \in Nat : k >= 12}
    BY DEF Lengths
  <2> QED BY <1>1, <1>2, <1>3, <1>4, <2>1, AtWhole DEF Layers
<1>6. CASE Left >= 12
  <2>1. q = ip_next_header(NextType(Here))
    BY <1>2, <1>4, <1>5 DEF After
  <2>2. HandOn("ah_header", length, q, first + length, last)
    BY <1>1, <1>5, <1>6, <2>1 DEF ParseAh
  <2>3. /\ "ah_header" \in Classes /\ "ah_header" # "range"
        /\ "ah_header" \notin IpClasses /\ length <= length
    BY <1>5 DEF Classes, IpClasses
  <2>4. FieldsFit("ah_header", last - first)
    <3>1. last - first >= 12 /\ last - first \in Int
      BY <1>2, <1>6 DEF Left
    <3> QED BY <3>1 DEF FieldsFit, Fields, AhFields
  <2>5. RangesFit(Header("ah_header", first + length, last))
    <3> PICK h : h = Header("ah_header", first + length, last)
      OBVIOUS
    <3>1. /\ h.class = "ah_header" /\ h.first = first /\ h.last = last
          /\ h.length = length
      BY <1>1, <1>4, AtObject DEF LengthOf
    <3>2. Ranges(h) = {<<first + 12, first + length>>}
      BY <3>1 DEF Ranges, AuthenticationData
    <3>3. ~CutInside(h) => first + 12 <= first + length /\ first + length <= last
      BY <1>2, <1>5, <3>1 DEF CutInside
    <3> QED BY <3>1, <3>2, <3>3 DEF RangesFit
  <2> QED BY <1>1, <1>3, <1>4, <1>5, <2>2, <2>3, <2>4, <2>5, WholeKeeps
<1>7. CASE ~(Left >= 12)
  <2>1. Return
    BY <1>7 DEF ParseAh
  <2>2. last - first < frame.layers[n + 1].length
    BY <1>2, <1>5, <1>7 DEF Left
  <2> QED BY <1>1, <2>1, <2>2, ReturnKeeps
<1> QED BY <1>6, <1>7

\* From an IP header on the packet ends where it says.
LEMMA IpEnd ==
  ASSUME NEW f, FrameOK(f), NEW n \in Nat, n + 1 \in 1..Size(f),
         f.layers[n + 1].class \in IpClasses
  PROVE  IpAmong(f, n + 1)
<1>1. n + 1 \in 1..(n + 1)
  OBVIOUS
<1> QED BY <1>1 DEF IpAmong

\* Before it, all that was received is taken for the packet.
LEMMA NoIpYet ==
  ASSUME PInv, parser \in EtherParsers, NEW n, n = Len(handed),
         WholeAt(frame, parser, n)
  PROVE  Cut(frame, size, handed) \/ last = size
<1>1. parser \in EtherParsers \cup IpParsers /\ parser \notin IpParsers
  BY DEF EtherParsers, IpParsers
<1>2. Cut(frame, size, handed) \/ last = ExactEnd(frame, size, n)
  BY <1>1, AtHeader
<1> QED BY <1>1, <1>2 DEF WholeAt, ExactEnd

LEMMA Ipv4Keeps ==
  ASSUME PInv, ParseIpv4
  PROVE  PInv'
<1> PICK n : n = Len(handed)
  OBVIOUS
<1> PICK q : q = After(frame, n + 1)
  OBVIOUS
<1> PICK length : length = frame.layers[n + 1].length
  OBVIOUS
<1> PICK end : end = StatedEnd(PacketEnd(frame) - first)
  OBVIOUS
<1>1. parser = "ipv4_header" /\ parser \in EtherParsers
      /\ parser \in EtherParsers \cup IpParsers
  BY DEF ParseIpv4, EtherParsers
<1>2. /\ FrameOK(frame) /\ n \in Nat /\ n + 1 \in 1..Size(frame) /\ size \in Nat
      /\ first \in Nat /\ last \in Int /\ Here = n + 1
      /\ first + length = StartIn(frame, n + 2) /\ PacketEnd(frame) \in Nat
      /\ last \in {size, PacketEnd(frame)}
      /\ HeaderAt(frame, parser, first, n)
  BY <1>1, AtHeader
<1>3. WholeAt(frame, parser, n)
  BY <1>1, <1>2 DEF HeaderAt, DataAt, DataParsers
<1>4. frame.layers[n + 1].class = "ipv4_header"
  BY <1>1, <1>3 DEF WholeAt, WholeClass
<1>5. /\ length \in Nat /\ length >= 20
      /\ Layers[Here].length = length
      /\ NextType(n + 1) = NumberAfter(frame, n + 1)
      /\ ParsesAt(frame, q, first + length, n + 1)
  <2>1. Lengths("ipv4_header") = {k \in Nat : k >= 20}
    BY DEF Lengths
  <2> QED BY <1>1, <1>2, <1>3, <1>4, <2>1, AtWhole DEF Layers
<1>6. CASE Left >= 20
  <2>1. q = IF Layers[Here].later THEN "range" ELSE ip_next_header(NextType(Here))
    BY <1>2, <1>4, <1>5 DEF After, Layers
  <2>2. HandOn("ipv4_header", length, q, first + length, end)
    BY <1>1, <1>5, <1>6, <2>1 DEF ParseIpv4
  <2>3. FieldsFit("ipv4_header", last - first)
    <3>1. last - first >= 20 /\ last - first \in Int
      BY <1>2, <1>6 DEF Left
    <3> QED BY <3>1 DEF FieldsFit, Fields, Ipv4Fields
  <2>4. IsA("ipv4_header", frame.layers[n + 1])
    BY <1>4 DEF IsA
  <2>5. end = IF last < PacketEnd(frame) THEN last ELSE PacketEnd(frame)
    BY <1>2 DEF StatedEnd, Left
  <2>6. /\ end \in {size, PacketEnd(frame)}
        /\ Cut(frame, size, handed) \/ end = ExactEnd(frame, size, n + 1)
    <3>1. IpAmong(frame, n + 1) /\ ~EmptyAt(frame, n + 1)
      BY <1>2, <1>4, IpEnd DEF EmptyAt, IpClasses
    <3>2. ExactEnd(frame, size, n + 1) =
            IF PacketEnd(frame) < size THEN PacketEnd(frame) ELSE size
      BY <3>1 DEF ExactEnd
    <3>3. Cut(frame, size, handed) \/ last = size
      BY <1>1, <1>3, NoIpYet
    <3>4. end \in {size, PacketEnd(frame)}
      BY <1>2, <2>5
    <3>5. last = size => end = ExactEnd(frame, size, n + 1)
      BY <1>2, <2>5, <3>2
    <3> QED BY <3>3, <3>4, <3>5
  <2>7. /\ "ipv4_header" \in Classes /\ "ipv4_header" # "range"
        /\ length <= length /\ first + length \in Int /\ end \in Int
    BY <1>2, <1>5, <2>5 DEF Classes, EtherParsers
  <2>8. last - first >= length => first + length <= end /\ end <= last
    <3>1. first + length <= PacketEnd(frame)
      BY <1>1, AtHeader
    <3> QED BY <1>2, <1>5, <2>5, <3>1
  <2>9. RangesFit(Header("ipv4_header", first + length, end))
    <3> PICK h : h = Header("ipv4_header", first + length, end)
      OBVIOUS
    <3>1. /\ h.class = "ipv4_header" /\ h.first = first /\ h.last = last
          /\ h.length = length /\ h.next = first + length /\ h.end = end
      BY <1>1, <1>4, AtObject DEF LengthOf
    <3>2. Ranges(h) = {<<first + length, end>>}
      BY <3>1 DEF Ranges, Payload
    <3>3. ~CutInside(h) => first + length <= end /\ end <= last
      BY <1>2, <1>5, <2>8, <3>1 DEF CutInside
    <3> QED BY <3>1, <3>2, <3>3 DEF RangesFit
  <2>10. last - first >= length => RangeFits(frame, first + length, end, n + 1)
    BY <2>8 DEF RangeFits
  <2> QED BY <1>1, <1>5, <2>2, <2>3, <2>4, <2>6, <2>7, <2>9, <2>10, HandOnKeeps
<1>7. CASE ~(Left >= 20)
  <2>1. Return
    BY <1>7 DEF ParseIpv4
  <2>2. last - first < frame.layers[n + 1].length
    BY <1>2, <1>5, <1>7 DEF Left
  <2> QED BY <1>1, <2>1, <2>2, ReturnKeeps
<1> QED BY <1>6, <1>7

LEMMA Ipv6Keeps ==
  ASSUME PInv, ParseIpv6
  PROVE  PInv'
<1> PICK n : n = Len(handed)
  OBVIOUS
<1> PICK q : q = After(frame, n + 1)
  OBVIOUS
<1> PICK E : E = PacketEnd(frame)
  OBVIOUS
<1> PICK end : end = Ipv6End(E - first - 40)
  OBVIOUS
<1> DEFINE class == "ipv6_header"
<1>1. parser = class /\ parser \in EtherParsers
      /\ parser \in EtherParsers \cup IpParsers
  BY DEF ParseIpv6, EtherParsers
<1>2. /\ FrameOK(frame) /\ n \in Nat /\ n + 1 \in 1..Size(frame) /\ size \in Nat
      /\ first \in Nat /\ last \in Int /\ Here = n + 1
      /\ E \in Nat /\ last \in {size, E}
      /\ HeaderAt(frame, parser, first, n)
      /\ first + frame.layers[n + 1].length = StartIn(frame, n + 2)
  BY <1>1, AtHeader
<1>3. WholeAt(frame, parser, n)
  BY <1>1, <1>2 DEF HeaderAt, DataAt, DataParsers
<1>4. frame.layers[n + 1].class = class
  BY <1>1, <1>3 DEF WholeAt, WholeClass
<1>5. /\ frame.layers[n + 1].length = 40
      /\ NextType(n + 1) = NumberAfter(frame, n + 1)
      /\ ParsesAt(frame, q, first + 40, n + 1)
  <2>1. Lengths(class) = {40}
    BY DEF Lengths
  <2> QED BY <1>1, <1>2, <1>3, <1>4, <2>1, AtWhole
<1>6. CASE Left >= 40
  <2>1. q = ip_next_header(NextType(Here))
    BY <1>2, <1>4, <1>5 DEF After
  <2>2. HandOn(class, 0, q, first + 40, end)
    BY <1>1, <1>6, <2>1 DEF ParseIpv6
  <2>3. FieldsFit(class, last - first)
    <3>1. last - first >= 40 /\ last - first \in Int
      BY <1>2, <1>6 DEF Left
    <3> QED BY <3>1 DEF FieldsFit, Fields, Ipv6Fields
  <2>4. IsA(class, frame.layers[n + 1])
    BY <1>4 DEF IsA
  <2>5. end = IF E = first + 40 \/ last + 40 < E THEN last ELSE E
    BY <1>2 DEF Ipv6End, Left
  \* The header states a length of 0 only if it is the last one.
  <2>6. EmptyAt(frame, n + 1) <=> E = first + 40
    <3>1. E = StartIn(frame, Size(frame) + 1) + frame.payload
      BY DEF PacketEnd, Size
    <3>2. /\ Size(frame) \in Nat /\ n + 1 <= Size(frame) /\ frame.payload \in Nat
          /\ \A i \in 1..Size(frame) : frame.layers[i].length > 0
                                       /\ frame.layers[i].length \in Nat
      BY <1>2, LayerFacts
    <3>3. CASE n + 1 = Size(frame)
      <4>1. E = first + 40 + frame.payload
        <5>1. n + 2 = Size(frame) + 1
          BY <1>2, <3>3
        <5> QED BY <1>2, <1>5, <3>1, <5>1
      <4> QED BY <1>2, <1>4, <3>2, <3>3, <4>1 DEF EmptyAt
    <3>4. CASE n + 1 # Size(frame)
      <4>1. /\ n + 2 \in 1..Size(frame) /\ n + 2 \in 1..(Size(frame) + 1)
        BY <1>2, <3>2, <3>4
      <4>2. StartIn(frame, n + 2) + frame.layers[n + 2].length <= E
        BY <1>2, <4>1, PacketEndFacts
      <4>3. E # first + 40
        <5>1. StartIn(frame, n + 2) = first + 40
          BY <1>2, <1>5
        <5>2. /\ frame.layers[n + 2].length > 0
              /\ frame.layers[n + 2].length \in Nat
          BY <3>2, <4>1
        <5>3. E \in Nat /\ first \in Nat
          BY <1>2
        <5> QED BY ONLY <4>2, <5>1, <5>2, <5>3
      <4> QED BY <3>4, <4>3 DEF EmptyAt
    <3> QED BY <3>3, <3>4
  <2>7. /\ end \in {size, E}
        /\ \/ Cut(frame, size, handed)
           \/ class = "ipv6_header" /\ CutShort(frame, size)
           \/ end = ExactEnd(frame, size, n + 1)
    <3>1. IpAmong(frame, n + 1)
      BY <1>2, <1>4, IpEnd DEF IpClasses
    <3>2. ExactEnd(frame, size, n + 1) =
            IF E < size /\ E # first + 40 THEN E ELSE size
      BY <2>6, <3>1 DEF ExactEnd
    <3>3. Cut(frame, size, handed) \/ last = size
      BY <1>1, <1>3, NoIpYet
    <3>4. end \in {size, E}
      BY <1>2, <2>5
    <3>5. last = size =>
            \/ size < E /\ E <= size + 40
            \/ end = ExactEnd(frame, size, n + 1)
      BY <1>2, <2>5, <3>2
    <3> QED BY <3>3, <3>4, <3>5 DEF CutShort
  <2>8. /\ class \in Classes /\ class # "range" /\ 0 \in Nat
        /\ 0 <= frame.layers[n + 1].length /\ first + 40 \in Int
        /\ end \in Int
    BY <1>2, <1>5, <2>5 DEF Classes, EtherParsers
  <2>9. first + 40 <= end
    <3>1. first + 40 <= E
      BY <1>1, <1>5, AtHeader
    <3>2. first + 40 <= last
      BY <1>2, <1>6 DEF Left
    <3> QED BY <2>5, <3>1, <3>2
  <2>10. \/ RangesFit(Header(class, first + 40, end))
         \/ Cut(frame, size, handed) \/ CutShort(frame, size)
    <3> PICK h : h = Header(class, first + 40, end)
      OBVIOUS
    <3> SUFFICES ASSUME ~Cut(frame, size, handed), ~CutShort(frame, size)
                 PROVE  RangesFit(h)
      OBVIOUS
    <3>1. h.class = class /\ h.last = last /\ h.next = first + 40 /\ h.end = end
      BY <1>1, AtObject
    <3>2. Ranges(h) = {<<first + 40, end>>}
      BY <3>1 DEF Ranges, Payload
    <3>3. last = size
      BY <1>1, <1>3, NoIpYet
    <3>4. end <= last
      BY <1>2, <2>5, <3>3 DEF CutShort
    <3> QED BY <2>9, <3>1, <3>2, <3>4 DEF RangesFit
  <2>11. RangeFits(frame, first + 40, end, n + 1)
    BY <2>9 DEF RangeFits
  <2> QED BY <1>1, <1>5, <2>2, <2>3, <2>4, <2>7, <2>8, <2>10, <2>11, HandOnKeeps
<1>7. CASE ~(Left >= 40)
  <2>1. Return
    BY <1>7 DEF ParseIpv6
  <2>2. last - first < frame.layers[n + 1].length
    BY <1>2, <1>5, <1>7 DEF Left
  <2> QED BY <1>1, <2>1, <2>2, ReturnKeeps
<1> QED BY <1>6, <1>7

\* What the parsers of the data of later fragments may be at.
LEMMA AtData ==
  ASSUME PInv, parser \in DataParsers, NEW n, n = Len(handed)
  PROVE  /\ parser \in EtherParsers \cup IpParsers
         /\ WholeAt(frame, parser, n) \/ DataAt(frame, parser, n)
         /\ frame.layers[n + 1].class \notin IpClasses
         /\ DataAt(frame, parser, n) =>
              /\ frame.layers[n + 1].class = "data" /\ n + 1 = Size(frame)
              /\ LaterIn(frame, n + 1)
         /\ IpAmong(frame, n)
<1>1. parser \in EtherParsers \cup IpParsers /\ parser \in IpParsers
  BY DEF DataParsers, IpParsers
<1>2. HeaderAt(frame, parser, first, n)
  BY <1>1, AtHeader
<1>3. WholeAt(frame, parser, n) \/ DataAt(frame, parser, n)
  BY <1>2 DEF HeaderAt
<1>4. CASE WholeAt(frame, parser, n)
  <2> PICK class : class = frame.layers[n + 1].class
    OBVIOUS
  <2>1. class = WholeClass(parser, frame.layers[n + 1].message)
        /\ IpAmong(frame, n)
    BY <1>1, <1>4 DEF WholeAt
  <2>2. class \notin IpClasses /\ class # "data"
    BY <1>1, <2>1, ClassFacts DEF IpClasses, DataParsers
  <2> QED BY <1>1, <1>3, <2>1, <2>2 DEF DataAt
<1>5. CASE DataAt(frame, parser, n)
  BY <1>1, <1>3, <1>5 DEF DataAt, IpClasses
<1> QED BY <1>3, <1>4, <1>5

LEMMA TcpKeeps ==
  ASSUME PInv, ParseTcp
  PROVE  PInv'
<1> PICK n : n = Len(handed)
  OBVIOUS
<1> PICK length : length = frame.layers[n + 1].length
  OBVIOUS
<1> PICK stated : stated = HeaderLength
  OBVIOUS
<1> DEFINE class == "tcp_header"
<1>1. parser = class /\ parser \in DataParsers
  BY DEF ParseTcp, DataParsers
<1>2. /\ parser \in EtherParsers \cup IpParsers
      /\ WholeAt(frame, parser, n) \/ DataAt(frame, parser, n)
      /\ frame.layers[n + 1].class \notin IpClasses
      /\ DataAt(frame, parser, n) =>
           /\ frame.layers[n + 1].class = "data" /\ n + 1 = Size(frame)
           /\ LaterIn(frame, n + 1)
  BY <1>1, AtData
<1>3. /\ first \in Nat /\ last \in Int /\ Here = n + 1
      /\ first + length = StartIn(frame, n + 2) /\ length \in Nat
      /\ stated = LengthOf(frame.layers[n + 1]) /\ stated \in Nat
  BY <1>2, AtHeader, AtObject
<1>4. WholeAt(frame, parser, n) =>
        /\ frame.layers[n + 1].class = class
        /\ length >= 20 /\ stated = length
        /\ After(frame, n + 1) = "range"
  <2> SUFFICES ASSUME WholeAt(frame, parser, n)
               PROVE  /\ frame.layers[n + 1].class = class
                      /\ length >= 20 /\ stated = length
                      /\ After(frame, n + 1) = "range"
    OBVIOUS
  <2>1. frame.layers[n + 1].class = class
    BY <1>1 DEF WholeAt, WholeClass
  <2>2. Lengths(class) = {k \in Nat : k >= 20}
    BY DEF Lengths
  <2>3. length \in Lengths(class)
    BY <1>2, <2>1, AtWhole
  <2> QED BY <1>3, <2>1, <2>2, <2>3 DEF After, LengthOf
<1>5. CASE Left >= 20
  <2>1. HandOn(class, stated, "range", first + stated, last)
    BY <1>1, <1>5 DEF ParseTcp
  <2>2. FieldsFit(class, last - first)
    <3>1. last - first >= 20 /\ last - first \in Int
      BY <1>3, <1>5 DEF Left
    <3> QED BY <3>1 DEF FieldsFit, Fields, TcpFields
  <2>3. IsA(class, frame.layers[n + 1]) \/ LaterIn(frame, n + 1)
    BY <1>2, <1>4 DEF IsA
  <2>4. ParsesAt(frame, "range", first + stated, n + 1)
    <3>1. first + stated \in Nat
      BY <1>3
    <3>2. WholeAt(frame, parser, n) =>
            /\ "range" = After(frame, n + 1)
            /\ "range" = "range" => first + stated = StartIn(frame, n + 2)
      BY <1>3, <1>4
    <3>3. "range" \in {"range", "done"}
      OBVIOUS
    <3> QED BY <1>1, <3>1, <3>2, <3>3, LastHeader
  <2>5. /\ last \in {size, PacketEnd(frame)}
        /\ Cut(frame, size, handed) \/ last = ExactEnd(frame, size, n + 1)
    BY <1>2, LastKeeps
  <2>6. /\ class \in Classes /\ class # "range"
        /\ stated <= length \/ n + 1 = Size(frame)
        /\ first + stated \in Int
    BY <1>2, <1>3, <1>4 DEF Classes
  <2>7. RangesFit(Header(class, first + stated, last))
    <3> PICK h : h = Header(class, first + stated, last)
      OBVIOUS
    <3>1. /\ h.class = class /\ h.first = first /\ h.last = last
          /\ h.length = stated /\ h.next = first + stated /\ h.end = last
      BY <1>2, AtObject
    <3>2. Ranges(h) = {<<first + stated, last>>}
      BY <3>1 DEF Ranges, Payload
    <3>3. ~CutInside(h) => first + stated <= last
      BY <1>3, <3>1 DEF CutInside
    <3> QED BY <1>3, <3>1, <3>2, <3>3 DEF RangesFit
  <2>8. last - first >= stated => RangeFits(frame, first + stated, last, n + 1)
    BY <1>3 DEF RangeFits
  <2> QED BY <1>2, <1>3, <2>1, <2>2, <2>3, <2>4, <2>5, <2>6, <2>7, <2>8, HandOnKeeps
<1>6. CASE ~(Left >= 20)
  <2>1. Return
    BY <1>6 DEF ParseTcp
  <2>2. \/ last - first < frame.layers[n + 1].length
        \/ frame.layers[n + 1].class = "data"
    BY <1>2, <1>3, <1>4, <1>6 DEF Left
  <2> QED BY <1>2, <2>1, <2>2, ReturnKeeps
<1> QED BY <1>5, <1>6

LEMMA UdpKeeps ==
  ASSUME PInv, ParseUdp
  PROVE  PInv'
<1> PICK n : n = Len(handed)
  OBVIOUS
<1> PICK length : length = frame.layers[n + 1].length
  OBVIOUS
<1> PICK end : end = UdpEnd(DatagramLength)
  OBVIOUS
<1> DEFINE class == "udp_header"
<1>1. parser = class /\ parser \in DataParsers
  BY DEF ParseUdp, DataParsers
<1>2. /\ parser \in EtherParsers \cup IpParsers
      /\ WholeAt(frame, parser, n) \/ DataAt(frame, parser, n)
      /\ frame.layers[n + 1].class \notin IpClasses
      /\ DataAt(frame, parser, n) =>
           /\ frame.layers[n + 1].class = "data" /\ n + 1 = Size(frame)
           /\ LaterIn(frame, n + 1)
      /\ IpAmong(frame, n)
  BY <1>1, AtData
<1>3. /\ FrameOK(frame) /\ size \in Nat /\ n \in Nat /\ n + 1 \in 1..Size(frame)
      /\ first \in Nat /\ last \in Int
      /\ first + length = StartIn(frame, n + 2) /\ length \in Nat /\ length > 0
      /\ first + length <= PacketEnd(frame) /\ PacketEnd(frame) \in Nat
      /\ last \in {size, PacketEnd(frame)}
      /\ Cut(frame, size, handed) \/ last = ExactEnd(frame, size, n)
      /\ Here = n + 1 /\ frame.layers[n + 1].message \in Nat
  BY <1>2, AtHeader, LayerFacts
<1>4. WholeAt(frame, parser, n) =>
        /\ frame.layers[n + 1].class = class
        /\ length = 8
        /\ After(frame, n + 1) = "range"
  <2> SUFFICES ASSUME WholeAt(frame, parser, n)
               PROVE  /\ frame.layers[n + 1].class = class
                      /\ length = 8
                      /\ After(frame, n + 1) = "range"
    OBVIOUS
  <2>1. frame.layers[n + 1].class = class
    BY <1>1 DEF WholeAt, WholeClass
  <2>2. Lengths(class) = {8}
    BY DEF Lengths
  <2>3. length \in Lengths(class)
    BY <1>2, <2>1, AtWhole
  <2> QED BY <2>1, <2>2, <2>3 DEF After
<1>5. CASE Left >= 8
  <2>1. HandOn(class, 0, "range", first + 8, end)
    BY <1>1, <1>5 DEF ParseUdp
  <2>2. FieldsFit(class, last - first)
    <3>1. last - first >= 8 /\ last - first \in Int
      BY <1>3, <1>5 DEF Left
    <3> QED BY <3>1 DEF FieldsFit, Fields, UdpFields
  <2>3. IsA(class, frame.layers[n + 1]) \/ LaterIn(frame, n + 1)
    BY <1>2, <1>4 DEF IsA
  <2>4. ParsesAt(frame, "range", first + 8, n + 1)
    <3>1. first + 8 \in Nat
      BY <1>3
    <3>2. WholeAt(frame, parser, n) =>
            /\ "range" = After(frame, n + 1)
            /\ "range" = "range" => first + 8 = StartIn(frame, n + 2)
      BY <1>3, <1>4
    <3>3. "range" \in {"range", "done"}
      OBVIOUS
    <3> QED BY <1>1, <3>1, <3>2, <3>3, LastHeader
  <2>5. end \in Int /\ end <= last
    <3>1. DatagramLength \in Nat
      BY <1>3 DEF DatagramLength, Layers
    <3> QED BY <1>3, <3>1 DEF UdpEnd, StatedEnd, Left
  \* The IP header has cut off the padding already.
  <2>6. ASSUME WholeAt(frame, parser, n)
        PROVE  /\ end \in {size, PacketEnd(frame)}
               /\ Cut(frame, size, handed) \/ end = ExactEnd(frame, size, n + 1)
               /\ first + 8 <= end
    <3>1. DatagramLength = PacketEnd(frame) - first
      BY <1>3, <1>4, <2>6 DEF DatagramLength, Layers
    <3>2. end = IF last < PacketEnd(frame) THEN last ELSE PacketEnd(frame)
      BY <1>3, <3>1 DEF UdpEnd, StatedEnd, Left
    <3>3. ExactEnd(frame, size, n + 1) = ExactEnd(frame, size, n)
      BY <1>2, <1>3, EndStays
    <3>4. ~EmptyAt(frame, n)
      <4>1. n # Size(frame)
        BY <1>3, LayerFacts
      <4> QED BY <4>1 DEF EmptyAt
    <3>5. ExactEnd(frame, size, n) =
            IF PacketEnd(frame) < size THEN PacketEnd(frame) ELSE size
      BY <1>2, <3>4 DEF ExactEnd
    <3>6. end \in {size, PacketEnd(frame)}
      BY <1>3, <3>2
    <3>7. last = ExactEnd(frame, size, n) => end = ExactEnd(frame, size, n)
      BY <1>3, <3>2, <3>5
    <3>8. first + 8 <= end
      <4>1. first + 8 <= last
        BY <1>3, <1>5 DEF Left
      <4>2. first + 8 <= PacketEnd(frame)
        BY <1>3, <1>4, <2>6
      <4> QED BY <3>2, <4>1, <4>2
    <3> QED BY <1>3, <3>3, <3>6, <3>7, <3>8
  <2>7. /\ class \in Classes /\ class # "range" /\ 0 \in Nat
        /\ 0 <= frame.layers[n + 1].length /\ first + 8 \in Int
    BY <1>3 DEF Classes
  <2>8. \/ LaterIn(frame, n + 1)
        \/ /\ end \in {size, PacketEnd(frame)}
           /\ Cut(frame, size, handed) \/ end = ExactEnd(frame, size, n + 1)
           /\ first + 8 <= end
    BY <1>2, <2>6
  <2>9. \/ RangesFit(Header(class, first + 8, end))
        \/ LaterIn(frame, n + 1)
    <3> PICK h : h = Header(class, first + 8, end)
      OBVIOUS
    <3>1. h.class = class /\ h.last = last /\ h.next = first + 8 /\ h.end = end
      BY <1>2, AtObject
    <3>2. Ranges(h) = {<<first + 8, end>>}
      BY <3>1 DEF Ranges, Payload
    <3> QED BY <2>5, <2>8, <3>1, <3>2 DEF RangesFit
  <2>10. RangeFits(frame, first + 8, end, n + 1)
    BY <1>3, <2>8, LaterStays DEF RangeFits
  <2> QED BY <1>2, <2>1, <2>2, <2>3, <2>4, <2>5, <2>7, <2>8, <2>9, <2>10, HandOnKeeps
<1>6. CASE ~(Left >= 8)
  <2>1. Return
    BY <1>6 DEF ParseUdp
  <2>2. \/ last - first < frame.layers[n + 1].length
        \/ frame.layers[n + 1].class = "data"
    BY <1>2, <1>3, <1>4, <1>6 DEF Left
  <2> QED BY <1>2, <2>1, <2>2, ReturnKeeps
<1> QED BY <1>5, <1>6

LEMMA Icmpv4Keeps ==
  ASSUME PInv, ParseIcmpv4
  PROVE  PInv'
<1> PICK n : n = Len(handed)
  OBVIOUS
<1> PICK layer : layer = frame.layers[n + 1]
  OBVIOUS
<1> PICK class : class = Icmpv4Class(layer.message)
  OBVIOUS
<1>1. parser = "icmpv4" /\ parser \in DataParsers
  BY DEF ParseIcmpv4, DataParsers
<1>2. /\ parser \in EtherParsers \cup IpParsers
      /\ WholeAt(frame, parser, n) \/ DataAt(frame, parser, n)
      /\ layer.class \notin IpClasses
      /\ DataAt(frame, parser, n) =>
           layer.class = "data" /\ LaterIn(frame, n + 1)
  BY <1>1, AtData
<1>3. /\ first \in Nat /\ last \in Int /\ Here = n + 1 /\ layer.length \in Nat
      /\ Layers[Here].message = layer.message
  BY <1>2, AtHeader DEF Layers
<1>4. WholeAt(frame, parser, n) =>
        /\ layer.class = WholeClass("icmpv4", layer.message)
        /\ layer.type = 1
        /\ layer.length >= 4
        /\ After(frame, n + 1) = "done"
  <2> SUFFICES ASSUME WholeAt(frame, parser, n)
               PROVE  /\ layer.class = WholeClass("icmpv4", layer.message)
                      /\ layer.type = 1
                      /\ layer.length >= 4
                      /\ After(frame, n + 1) = "done"
    OBVIOUS
  <2>1. /\ layer.class = WholeClass("icmpv4", layer.message)
        /\ layer.type = 1
    BY <1>1 DEF WholeAt
  <2>2. layer.class \in {"icmpv4", "icmpv4_echo", "icmpv4_redirect",
                         "icmpv4_timestamp", "icmpv4_address_mask"}
    BY <1>1, <1>2, <2>1, ClassFacts
  <2>3. layer.length \in Lengths(layer.class)
    BY <1>2, AtWhole
  <2>4. layer.length >= 4
    BY <1>3, <2>2, <2>3 DEF Lengths
  <2>5. After(frame, n + 1) = "done"
    BY <2>2 DEF After
  <2> QED BY <2>1, <2>4, <2>5
<1>5. CASE Left >= 4
  <2>1. HandOn(class, 0, "done", first, last)
    BY <1>3, <1>5 DEF ParseIcmpv4
  <2>2. class \in {"icmpv4", "icmpv4_echo", "icmpv4_redirect",
                   "icmpv4_timestamp", "icmpv4_address_mask"}
    BY DEF Icmpv4Class
  <2>3. FieldsFit(class, last - first)
    <3>1. last - first >= 4 /\ last - first \in Int
      BY <1>3, <1>5 DEF Left
    <3>2. /\ class \in {"icmpv4_echo", "icmpv4_redirect"} => last - first >= 8
          /\ class = "icmpv4_timestamp" => last - first >= 20
          /\ class = "icmpv4_address_mask" => last - first >= 12
      BY DEF Icmpv4Class, Left
    <3>3. CASE class = "icmpv4"
      BY <3>1, <3>3 DEF FieldsFit, Fields, Icmpv4Fields
    <3>4. CASE class = "icmpv4_echo"
      BY <3>1, <3>2, <3>4 DEF FieldsFit, Fields, EchoFields, Icmpv4Fields
    <3>5. CASE class = "icmpv4_redirect"
      BY <3>1, <3>2, <3>5 DEF FieldsFit, Fields, RedirectFields, Icmpv4Fields
    <3>6. CASE class = "icmpv4_timestamp"
      BY <3>1, <3>2, <3>6 DEF FieldsFit, Fields, TimestampFields, EchoFields, Icmpv4Fields
    <3>7. CASE class = "icmpv4_address_mask"
      BY <3>1, <3>2, <3>7 DEF FieldsFit, Fields, AddressMaskFields, EchoFields, Icmpv4Fields
    <3> QED BY <2>2, <3>3, <3>4, <3>5, <3>6, <3>7
  <2>4. IsA(class, layer) \/ LaterIn(frame, n + 1)
    <3>1. class # "icmpv4" => class = WholeClass("icmpv4", layer.message)
      BY DEF Icmpv4Class, WholeClass
    <3> QED BY <1>2, <1>4, <3>1 DEF IsA
  <2>5. ParsesAt(frame, "done", first, n + 1)
    <3>1. WholeAt(frame, parser, n) =>
            /\ "done" = After(frame, n + 1)
            /\ "done" = "range" => first = StartIn(frame, n + 2)
      BY <1>4
    <3>2. "done" \in {"range", "done"}
      OBVIOUS
    <3> QED BY <1>1, <1>3, <3>1, <3>2, LastHeader
  <2>6. /\ last \in {size, PacketEnd(frame)}
        /\ Cut(frame, size, handed) \/ last = ExactEnd(frame, size, n + 1)
    BY <1>2, LastKeeps
  <2>7. /\ class \in Classes /\ class # "range" /\ 0 \in Nat
        /\ 0 <= layer.length /\ first \in Int
    BY <1>3, <2>2 DEF Classes
  <2>8. RangesFit(Header(class, first, last))
    <3> PICK h : h = Header(class, first, last)
      OBVIOUS
    <3>1. h.class = class /\ h.first = first /\ h.last = last
      BY <1>2, AtObject
    <3>2. last - first >= 4 /\ last - first \in Int
      BY <1>3, <1>5 DEF Left
    <3>3. Ranges(h) = {<<first + 4, last>>}
      BY <2>2, <3>1 DEF Ranges, MessagePayload
    <3>4. first + 4 <= last
      BY <1>3, <3>2
    <3> QED BY <1>3, <3>1, <3>3, <3>4 DEF RangesFit
  <2> QED BY <1>2, <1>3, <2>1, <2>3, <2>4, <2>5, <2>6, <2>7, <2>8, HandOnKeeps
<1>6. CASE ~(Left >= 4)
  <2>1. Return
    BY <1>6 DEF ParseIcmpv4
  <2>2. last - first < layer.length \/ layer.class = "data"
    BY <1>2, <1>3, <1>4, <1>6 DEF Left
  <2> QED BY <1>2, <2>1, <2>2, ReturnKeeps
<1> QED BY <1>5, <1>6

LEMMA Icmpv6Keeps ==
  ASSUME PInv, ParseIcmpv6
  PROVE  PInv'
<1> PICK n : n = Len(handed)
  OBVIOUS
<1> PICK layer : layer = frame.layers[n + 1]
  OBVIOUS
<1> PICK class : class = Icmpv6Class(layer.message)
  OBVIOUS
<1>1. parser = "icmpv6" /\ parser \in DataParsers
  BY DEF ParseIcmpv6, DataParsers
<1>2. /\ parser \in EtherParsers \cup IpParsers
      /\ WholeAt(frame, parser, n) \/ DataAt(frame, parser, n)
      /\ layer.class \notin IpClasses
      /\ DataAt(frame, parser, n) =>
           layer.class = "data" /\ LaterIn(frame, n + 1)
  BY <1>1, AtData
<1>3. /\ first \in Nat /\ last \in Int /\ Here = n + 1 /\ layer.length \in Nat
      /\ Layers[Here].message = layer.message
  BY <1>2, AtHeader DEF Layers
<1>4. WholeAt(frame, parser, n) =>
        /\ layer.class = WholeClass("icmpv6", layer.message)
        /\ layer.type = 58
        /\ layer.length >= 4
        /\ After(frame, n + 1) = "done"
  <2> SUFFICES ASSUME WholeAt(frame, parser, n)
               PROVE  /\ layer.class = WholeClass("icmpv6", layer.message)
                      /\ layer.type = 58
                      /\ layer.length >= 4
                      /\ After(frame, n + 1) = "done"
    OBVIOUS
  <2>1. /\ layer.class = WholeClass("icmpv6", layer.message)
        /\ layer.type = 58
    BY <1>1 DEF WholeAt
  <2>2. layer.class \in {"icmpv6", "icmpv6_neighbor_solicitation",
                         "icmpv6_neighbor_advertisement"}
    BY <1>1, <1>2, <2>1, ClassFacts
  <2>3. layer.length \in Lengths(layer.class)
    BY <1>2, AtWhole
  <2>4. layer.length >= 4
    BY <1>3, <2>2, <2>3 DEF Lengths
  <2>5. After(frame, n + 1) = "done"
    BY <2>2 DEF After
  <2> QED BY <2>1, <2>4, <2>5
<1>5. CASE Left >= 4
  <2>1. HandOn(class, 0, "done", first, last)
    BY <1>3, <1>5 DEF ParseIcmpv6
  <2>2. class \in {"icmpv6", "icmpv6_neighbor_solicitation",
                   "icmpv6_neighbor_advertisement"}
    BY DEF Icmpv6Class
  <2>3. FieldsFit(class, last - first)
    <3>1. last - first >= 4 /\ last - first \in Int
      BY <1>3, <1>5 DEF Left
    <3>2. class # "icmpv6" => last - first >= 24
      BY DEF Icmpv6Class, Left
    <3>3. CASE class = "icmpv6"
      BY <3>1, <3>3 DEF FieldsFit, Fields, Icmpv6Fields
    <3>4. CASE class = "icmpv6_neighbor_solicitation"
      BY <3>1, <3>2, <3>4 DEF FieldsFit, Fields, SolicitationFields, Icmpv6Fields
    <3>5. CASE class = "icmpv6_neighbor_advertisement"
      BY <3>1, <3>2, <3>5 DEF FieldsFit, Fields, AdvertisementFields, Icmpv6Fields
    <3> QED BY <2>2, <3>3, <3>4, <3>5
  <2>4. IsA(class, layer) \/ LaterIn(frame, n + 1)
    <3>1. class # "icmpv6" => class = WholeClass("icmpv6", layer.message)
      BY DEF Icmpv6Class, WholeClass
    <3> QED BY <1>2, <1>4, <3>1 DEF IsA
  <2>5. ParsesAt(frame, "done", first, n + 1)
    <3>1. WholeAt(frame, parser, n) =>
            /\ "done" = After(frame, n + 1)
            /\ "done" = "range" => first = StartIn(frame, n + 2)
      BY <1>4
    <3>2. "done" \in {"range", "done"}
      OBVIOUS
    <3> QED BY <1>1, <1>3, <3>1, <3>2, LastHeader
  <2>6. /\ last \in {size, PacketEnd(frame)}
        /\ Cut(frame, size, handed) \/ last = ExactEnd(frame, size, n + 1)
    BY <1>2, LastKeeps
  <2>7. /\ class \in Classes /\ class # "range" /\ 0 \in Nat
        /\ 0 <= layer.length /\ first \in Int
    BY <1>3, <2>2 DEF Classes
  <2>8. RangesFit(Header(class, first, last))
    <3> PICK h : h = Header(class, first, last)
      OBVIOUS
    <3>1. h.class = class /\ h.first = first /\ h.last = last
      BY <1>2, AtObject
    <3>2. last - first >= 4 /\ last - first \in Int
      BY <1>3, <1>5 DEF Left
    <3>3. CASE class = "icmpv6"
      <4>1. Ranges(h) = {}
        BY <3>1, <3>3 DEF Ranges
      <4> QED BY <4>1 DEF RangesFit
    <3>4. CASE class # "icmpv6"
      <4>1. Ranges(h) = {<<first + 24, last>>}
        BY <2>2, <3>1, <3>4 DEF Ranges, LinkLayerAddress
      <4>2. last - first >= 24
        BY <3>4 DEF Icmpv6Class, Left
      <4>3. first + 24 <= last
        BY <1>3, <4>2
      <4> QED BY <1>3, <3>1, <4>1, <4>3 DEF RangesFit
    <3> QED BY <3>3, <3>4
  <2> QED BY <1>2, <1>3, <2>1, <2>3, <2>4, <2>5, <2>6, <2>7, <2>8, HandOnKeeps
<1>6. CASE ~(Left >= 4)
  <2>1. Return
    BY <1>6 DEF ParseIcmpv6
  <2>2. last - first < layer.length \/ layer.class = "data"
    BY <1>2, <1>3, <1>4, <1>6 DEF Left
  <2> QED BY <1>2, <2>1, <2>2, ReturnKeeps
<1> QED BY <1>5, <1>6

LEMMA RangeKeeps ==
  ASSUME PInv, HandRange
  PROVE  PInv'
<1> PICK n : n = Len(handed)
  OBVIOUS
<1> DEFINE h == Header("range", first, last)
           G == Append(handed, h)
<1>1. parser = "range" /\ HandOn("range", 0, "done", first, last)
  BY DEF HandRange
<1>2. /\ parser' = "done" /\ first' = first /\ last' = last
      /\ handed' = G /\ frame' = frame /\ size' = size /\ stops' = stops
  BY <1>1 DEF HandOn, input
<1>3. /\ FrameOK(frame) /\ size \in Nat /\ handed \in Seq(Entry) /\ last \in Int
      /\ ParsesAt(frame, "range", first, n)
      /\ EndsAt(frame, size, Cut(frame, size, handed), last, n)
      /\ RangeFits(frame, first, last, n)
      /\ ParserInv(frame, size, stops, parser, first, last, handed)
  BY <1>1 DEF PInv, ParserInv
<1>4. first \in Nat /\ RangeAt(frame, first, n) /\ n \in Nat
  BY <1>3 DEF ParsesAt, HeaderAt, EtherParsers, IpParsers
<1>5. /\ h \in Entry /\ h.class = "range" /\ h.first = first /\ h.last = last
  <2> PICK length : length = IF \E i \in DOMAIN Layers : Start(i) = first
                             THEN HeaderLength ELSE 0
    OBVIOUS
  <2>1. h = [class |-> "range", first |-> first, last |-> last,
             length |-> length, next |-> first, end |-> last]
    BY DEF Header
  <2>2. length \in Nat
    <3>1. CASE \E i \in DOMAIN Layers : Start(i) = first
      <4>1. Here \in DOMAIN Layers
        BY <3>1 DEF Here
      <4>2. \A i \in DOMAIN Layers : Layers[i].length \in Nat
                                     /\ Layers[i].message \in Nat
        BY <1>3, LayerFacts DEF Layers
      <4> QED BY <3>1, <4>1, <4>2 DEF HeaderLength
    <3>2. CASE ~\E i \in DOMAIN Layers : Start(i) = first
      BY <3>2
    <3> QED BY <3>1, <3>2
  <2>3. "range" \in Classes /\ first \in Int
    BY <1>4 DEF Classes
  <2> QED BY <1>3, <2>1, <2>2, <2>3 DEF Entry
<1> HIDE DEF h
<1>6. Cut(frame, size, handed) => Cut(frame, size, G)
  <2>1. /\ Len(G) = n + 1
        /\ \A i \in 1..n : i \in 1..(n + 1) /\ G[i] = handed[i]
    BY <1>3, <1>4, <1>5
  <2> HIDE DEF G
  <2> QED BY <2>1 DEF Cut, CutAt
<1>7. \/ Cut(frame, size, handed) \/ last = ExactEnd(frame, size, n)
      \/ LaterIn(frame, n + 1) /\ last <= size
  BY <1>3, <1>4, LaterStays DEF EndsAt
<1> HIDE DEF G
<1>8. EntryOK(frame, size, Cut(frame, size, handed), Cut(frame, size, G), n + 1, h)
  <2>1. Placed(frame, n + 1, h)
    BY <1>5 DEF Placed
  <2>2. Readable(frame, size, Cut(frame, size, handed), Cut(frame, size, G), n + 1, h)
    <3>1. Fields(h.class) = {} /\ Ranges(h) = {<<first, last>>}
      BY <1>5 DEF Fields, Ranges
    <3>2. Cut(frame, size, G) \/ last <= size
      BY <1>3, <1>6, <1>7, LastIsReceived
    <3> QED BY <1>3, <1>5, <3>1, <3>2 DEF Readable, RangeFits
  <2>3. Exact(frame, size, Cut(frame, size, G), n + 1, h)
    BY <1>4, <1>5, <1>6, <1>7 DEF Exact, RangeAt
  <2> QED BY <2>1, <2>2, <2>3 DEF EntryOK
<1>9. CompleteOK(frame, size, n + 1)
  <2>1. Size(frame) \in Nat
    BY <1>3, LayerFacts
  <2>2. NothingLeft(frame, n)
    BY <1>4 DEF RangeAt, NothingLeft
  <2>3. \A i \in 1..Size(frame) : i <= n => i <= n + 1
    BY <1>4, <2>1
  <2> QED BY <2>2, <2>3 DEF NothingLeft, CompleteOK
<1>10. ParserInv(frame, size, stops, "done", first, last, G)
  <2>1. parser # "done" /\ first \in Int
    BY <1>1, <1>4
  <2> QED BY <1>3, <1>5, <1>8, <1>9, <2>1, HandKeeps DEF G
<1> QED BY <1>2, <1>10 DEF PInv

-----------------------------------------------------------------------------
(* The properties                                                          *)

LEMMA PInvInit == Init => PInv
<1> SUFFICES ASSUME Init PROVE PInv
  OBVIOUS
<1>1. FrameOK(frame)
  BY FramesAssumption DEF Init
<1>2. PacketEnd(frame) \in Nat /\ frame.padding \in Nat
  BY <1>1, PacketEndFacts DEF FrameOK
<1>3. /\ size \in Nat /\ parser = "ether_header" /\ first = 0 /\ last = size
      /\ handed = <<>>
  BY <1>2 DEF Init
<1>4. /\ Size(frame) \in Nat /\ Size(frame) > 0 /\ StartIn(frame, 1) = 0
      /\ frame.layers[1].class = "ether_header"
  BY <1>1, LayerFacts, Starts DEF FrameOK
<1>5. ~IpAmong(frame, 0)
  BY DEF IpAmong
<1>6. HeaderAt(frame, "ether_header", 0, 0)
  <2>1. "ether_header" \in EtherParsers /\ "ether_header" \notin IpParsers
    BY DEF EtherParsers, IpParsers
  <2>2. "ether_header" = WholeClass("ether_header", frame.layers[1].message)
    BY DEF WholeClass
  <2>3. 0 + 1 = 1 /\ 1 \in 1..Size(frame)
    BY <1>4
  <2> QED BY <1>4, <1>5, <2>1, <2>2, <2>3 DEF HeaderAt, WholeAt
<1>7. EndsAt(frame, size, Cut(frame, size, handed), last, 0)
  BY <1>3, <1>5 DEF EndsAt, ExactEnd
<1>8. /\ handed \in Seq(Entry) /\ Len(handed) = 0
      /\ EntriesOK(frame, size, handed)
  BY <1>3 DEF EntriesOK
<1> QED BY <1>1, <1>3, <1>6, <1>7, <1>8 DEF PInv, ParserInv, ParsesAt

LEMMA PInvNext == PInv /\ [Next]_vars => PInv'
<1> SUFFICES ASSUME PInv, [Next]_vars PROVE PInv'
  OBVIOUS
<1>1. CASE UNCHANGED vars
  BY <1>1 DEF vars, input, PInv
<1>2. CASE Next
  BY <1>2, EtherKeeps, VlanKeeps, ArpKeeps, LldpduKeeps, Ipv4Keeps, Ipv6Keeps,
     HopByHopKeeps, FragmentKeeps, AhKeeps, Icmpv4Keeps, Icmpv6Keeps, TcpKeeps,
     UdpKeeps, RangeKeeps DEF Next
<1> QED BY <1>1, <1>2

LEMMA PInvAlways == Spec => []PInv
BY PInvInit, PInvNext, PTL DEF Spec

\* What the invariant says in the words of the properties.
LEMMA InWords ==
  ASSUME PInv
  PROVE  /\ DOMAIN handed = 1..Len(handed)
         /\ DOMAIN Layers = 1..Len(Layers) /\ Len(Layers) = Size(frame)
         /\ \A i \in DOMAIN handed :
              EntryOK(frame, size, Ipv6CutShort(i - 1), Ipv6CutShort(i), i, handed[i])
         /\ \A i : LaterIn(frame, i) <=> LaterIpv6Fragment(i)
<1>1. /\ FrameOK(frame) /\ handed \in Seq(Entry)
      /\ EntriesOK(frame, size, handed)
  BY DEF PInv, ParserInv
<1>2. DOMAIN handed = 1..Len(handed)
  BY <1>1
<1>3. DOMAIN Layers = 1..Len(Layers) /\ Len(Layers) = Size(frame)
  BY <1>1, LayerFacts DEF Layers, Size
<1>4. \A i \in DOMAIN handed :
        EntryOK(frame, size, Ipv6CutShort(i - 1), Ipv6CutShort(i), i, handed[i])
  <2>1. \A i : CutAt(frame, size, handed, i) <=> Ipv6CutShort(i)
    BY DEF CutAt, CutShort, Ipv6CutShort
  <2> HIDE DEF Ipv6CutShort
  <2> QED BY <1>1, <1>2, <2>1 DEF EntriesOK, EntryOK, Readable, Exact
<1>5. \A i : LaterIn(frame, i) <=> LaterIpv6Fragment(i)
  BY DEF LaterIn, LaterIpv6Fragment, LaterFragment, Layers
<1> QED BY <1>1, <1>2, <1>3, <1>4, <1>5

\* The function is given the headers of the frame in their order, each at its
\* place and under its class (packet_parser.hpp: for_each_header and the parse
\* functions).
THEOREM HeadersInPlace == Spec => []HeadersAreTheFrames
<1>1. PInv => HeadersAreTheFrames
  BY InWords DEF HeadersAreTheFrames, EntryOK, Placed, Layers, Start
<1> QED BY <1>1, PInvAlways, PTL

\* Wherever the frame was cut off, no accessor of a header reads a value past
\* what was received, and no payload or other range of a header ends past it or
\* before it begins, with the exceptions that the property states
\* (packet_parser.hpp: the accessors, the parse functions, next() and end()).
THEOREM AccessorsStayInside == Spec => []AccessorsReadTheFrame
<1>1. PInv => AccessorsReadTheFrame
  BY InWords DEF AccessorsReadTheFrame, EntryOK, Readable
<1> QED BY <1>1, PInvAlways, PTL

\* No header that was received whole is left out, unless the function stopped
\* before it.
THEOREM NoneLeftOut == Spec => []CompleteHeadersAreHanded
<1>1. ASSUME PInv, parser = "done", NextType(1) >= 1536
      PROVE  LET n == Len(handed)
             IN  /\ \A i \in 1 .. n - 1 : handed[i].class \notin stops
                 /\ \/ n > 0 /\ handed[n].class \in stops
                    \/ \A i \in DOMAIN Layers :
                         Layers[i].class # "data"
                           /\ Start(i) + Layers[i].length <= size => i <= n
  <2>1. NextType(1) = NumberAfter(frame, 1)
    BY DEF NextType, NumberAfter, Layers
  <2>2. /\ Finished(frame, size, stops, handed)
        /\ \A i \in 1..(Len(handed) - 1) : handed[i].class \notin stops
    BY <1>1 DEF PInv, ParserInv
  <2>3. DOMAIN Layers = 1..Size(frame)
    BY <1>1, InWords
  <2> QED BY <1>1, <2>1, <2>2, <2>3 DEF Finished, CompleteOK, Layers, Start
<1>2. PInv => CompleteHeadersAreHanded
  BY <1>1 DEF CompleteHeadersAreHanded
<1> QED BY <1>2, PInvAlways, PTL

\* A payload is handed on as a range with exactly the bytes that belong to it.
THEOREM PayloadEndsRight == Spec => []PayloadIsExact
<1>1. ASSUME PInv, NEW i \in DOMAIN handed, handed[i].class = "range",
             ~Ipv6CutShort(i), ~LaterIpv6Fragment(i)
      PROVE  /\ handed[i].first = Start(Len(Layers) + 1)
             /\ handed[i].last =
                  IF PacketEnd(frame) < size /\ ~Ipv6Empty
                     /\ \E k \in DOMAIN Layers :
                          Layers[k].class \in {"ipv4_header", "ipv6_header"}
                  THEN PacketEnd(frame) ELSE size
  <2>1. /\ handed[i].first = StartIn(frame, Size(frame) + 1)
        /\ handed[i].last = ExactEnd(frame, size, Size(frame))
    BY <1>1, InWords DEF EntryOK, Exact
  <2>2. EmptyAt(frame, Size(frame)) <=> Ipv6Empty
    BY <1>1, InWords DEF EmptyAt, Ipv6Empty, Layers
  <2>3. IpAmong(frame, Size(frame)) <=>
          \E k \in DOMAIN Layers :
            Layers[k].class \in {"ipv4_header", "ipv6_header"}
    BY <1>1, InWords DEF IpAmong, IpClasses, Layers
  <2>4. Len(Layers) = Size(frame)
    BY <1>1, InWords
  <2> QED BY <2>1, <2>2, <2>3, <2>4 DEF ExactEnd, Start
<1>2. PInv => PayloadIsExact
  BY <1>1 DEF PayloadIsExact
<1> QED BY <1>2, PInvAlways, PTL

=============================================================================
