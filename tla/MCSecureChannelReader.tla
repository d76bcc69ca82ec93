----------------------- MODULE MCSecureChannelReader -----------------------
(***************************************************************************)
(* Instances of SecureChannelReader.  Sizes are scaled down: a header is   *)
(* two bytes and a message at most three, so that a read can end before,   *)
(* in and after a header and a message, and hold several of them.          *)
(***************************************************************************)
EXTENDS SecureChannelReader

\* A listed type, a multipart reply, a type without a case, and messages
\* that throw
MixedStreams ==
  [length : [Positions -> 2 .. 3],
   type : {[p \in Positions |-> IF p \in other THEN "other"
                               ELSE IF p = 0 THEN "multipart_reply"
                               ELSE "packet_in"] :
             other \in {{}, {0}, {2, 3}}},
   throws : {{}, {2}, {3}}]

MixedList == <<"packet_in", "echo_request">>

\* OpenFlow 1.3: a list of twelve types, as the static_assert has it, of
\* which BOOST_PP_REPEAT makes ten cases.  The types are named by their
\* place in the list, and 13 is the multipart reply.
V13List == [i \in 1 .. 12 |-> i]

V13Streams ==
  [length : [Positions -> {2}], type : [Positions -> 1 .. 13], throws : {{}}]

=============================================================================
