----------------------- MODULE MCSecureChannelWriter -----------------------
(***************************************************************************)
(* Two senders: one keeps its generator and uses it again, one does not.   *)
(***************************************************************************)
EXTENDS SecureChannelWriter

CONSTANTS s1, s2, m1, m2, m3, m4

ThreeAndOne ==
  [s \in {s1, s2} |-> IF s = s1 THEN <<m1, m2, m3>> ELSE <<m4>>]

=============================================================================
