----------------------------- MODULE MCPacketIn -----------------------------
(***************************************************************************)
(* Two packet-ins of one channel.  The library gives every request an xid  *)
(* of its own.                                                             *)
(***************************************************************************)
EXTENDS PacketIn

CONSTANTS p1, p2, f1, f2, b1, b2

FlowAdds == [p \in {p1, p2} |-> IF p = p1 THEN f1 ELSE f2]

Barriers == [p \in {p1, p2} |-> IF p = p1 THEN b1 ELSE b2]

Xid(r) == CHOOSE x \in 1 .. 4 : r = <<f1, b1, f2, b2>>[x]

PacketInMessages ==
  [r \in {f1, b1, f2, b2} |->
     [type |-> IF r \in {f1, f2} THEN 14 ELSE 20, multipart |-> 0,
      xid |-> Xid(r), hasReply |-> r \in {b1, b2}]]

=============================================================================
