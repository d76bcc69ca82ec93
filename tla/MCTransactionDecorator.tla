----------------------- MODULE MCTransactionDecorator -----------------------
(***************************************************************************)
(* Small instances of TransactionDecorator.  Message types are those of    *)
(* OpenFlow 1.3: a flow_mod (14) has no reply, a multipart_request (18)    *)
(* has one.                                                                *)
(***************************************************************************)
EXTENDS TransactionDecorator

CONSTANTS r1, r2, r3

FlowMod(x) == [type |-> 14, multipart |-> 0, xid |-> x, hasReply |-> FALSE]

Multipart(m, x) ==
  [type |-> 18, multipart |-> m, xid |-> x, hasReply |-> TRUE]

OneRequest == [r \in {r1} |-> Multipart(1, 1)]

\* The application uses an xid twice, next to a flow_mod that nothing answers
\* unless it fails.
SameKeyAndFlowMod ==
  [r \in {r1, r2, r3} |-> IF r = r3 THEN FlowMod(1) ELSE Multipart(1, 1)]

=============================================================================
