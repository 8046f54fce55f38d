--------------------------- MODULE MCRequestReply ---------------------------
(* Model-checking instances of RequestReply.                               *)
EXTENDS RequestReply

CONSTANTS r1, r3, operator, pooled, alice, bob, gateway, orders, pets

\* A protected request uses a pooled connection, the others the operator's.
UsedConnection == [r \in Requests |-> IF r \in Protected THEN pooled ELSE operator]

\* r1 publishes orders, r3 publishes pets.
UsedSubject == [r \in Requests |-> IF r = r1 THEN orders ELSE pets]

FirstUser == [c \in Connections |-> IF c = operator THEN gateway ELSE alice]

\* The operator may not publish orders, bob may not ask who he is.
Refusals == {<<gateway, orders>>, <<alice, orders>>, <<bob, UserInfo>>}

\* bob may publish orders, but not subscribe to them.
StreamRefusals == {<<bob, orders>>}
=============================================================================
