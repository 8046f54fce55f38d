----------------------------- MODULE MCCoreSSE -----------------------------
(* Model-checking instances of CoreSSE.                                   *)
EXTENDS CoreSSE, TLC

CONSTANTS s1, s2, s3, operator, alice, small, large, garbled, huge

\* Two streams of an operator route share its connection, the third belongs to
\* a protected route.
SharedConnection ==
    [s \in Streams |-> IF s \in Protected THEN alice ELSE operator]

\* small and garbled have length 1, large 2, huge exceeds max_reply_bytes.
PayloadSize ==
    [p \in Payloads |->
        CASE p \in {small, garbled} -> 1
          [] p = large -> 2
          [] OTHER -> MaxReplyBytes + 1]

\* The two operator streams are interchangeable.
OperatorStreams == Permutations({s1, s2})
=============================================================================
