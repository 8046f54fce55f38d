---------------------------- MODULE HandlerCall ----------------------------
(***************************************************************************)
(* What the rest of the gateway sees of an HTTP handler call, request or   *)
(* stream (ServeHTTP and serveCoreSSE): it is let in or turned away, takes *)
(* a lease if its route is protected, subscribes or waits on a NATS        *)
(* connection, takes that back, gives the lease back, and leaves.          *)
(***************************************************************************)
CONSTANTS
    Calls,
    Guarded   \* the calls of routes with a security context

VARIABLES
    stage,    \* where each call is
    holds,    \* the call holds a lease
    active,   \* the calls with something of theirs on a NATS connection
    shut      \* the lifecycle gate is closed for good

callVars == <<stage, holds, active, shut>>

Stages == {"arrived", "acquiring", "using", "returning", "done"}

Init ==
    /\ stage = [c \in Calls |-> "arrived"]
    /\ holds = [c \in Calls |-> FALSE]
    /\ active = {}
    /\ shut = FALSE

To(c, next) == stage' = [stage EXCEPT ![c] = next]

\* The gate: unavailable, over the quota, not acceptable, without credential.
TurnAway(c) ==
    /\ stage[c] = "arrived"
    /\ To(c, "returning") \/ To(c, "done")
    /\ UNCHANGED <<holds, active, shut>>

Enter(c) ==
    /\ stage[c] = "arrived" /\ ~shut
    /\ To(c, IF c \in Guarded THEN "acquiring" ELSE "using")
    /\ UNCHANGED <<holds, active, shut>>

Take(c) ==
    /\ stage[c] = "acquiring"
    /\ To(c, "using")
    /\ holds' = [holds EXCEPT ![c] = TRUE]
    /\ UNCHANGED <<active, shut>>

\* A subscription or a wait registered for a request begins or ends.
Changes(c) == active' \in {active, active \cup {c}, active \ {c}}

Work(c) ==
    /\ stage[c] = "using"
    /\ Changes(c)
    /\ UNCHANGED <<stage, holds, shut>>

\* The call has its answer, an error or the end of its context.
Conclude(c) ==
    /\ \/ stage[c] = "acquiring" /\ UNCHANGED active
       \/ stage[c] = "using" /\ Changes(c)
    /\ To(c, "returning")
    /\ UNCHANGED <<holds, shut>>

\* A deferred call that takes back what is on the connection.
Withdraw(c) ==
    /\ stage[c] = "returning"
    /\ active' = active \ {c}
    /\ UNCHANGED <<stage, holds, shut>>

\* The deferred release, with or without further deferred calls after it: what
\* the call had on the connection is gone by then.
GiveBack(c) ==
    /\ stage[c] = "returning" /\ c \notin active
    /\ holds' = [holds EXCEPT ![c] = FALSE]
    /\ To(c, "done") \/ UNCHANGED stage
    /\ UNCHANGED <<active, shut>>

Leave(c) ==
    /\ stage[c] = "returning" /\ ~holds[c] /\ c \notin active
    /\ To(c, "done")
    /\ UNCHANGED <<holds, active, shut>>

Shut ==
    /\ ~shut /\ shut' = TRUE
    /\ UNCHANGED <<stage, holds, active>>

Next ==
    \/ \E c \in Calls :
        \/ TurnAway(c) \/ Enter(c) \/ Take(c)
        \/ Work(c) \/ Conclude(c) \/ Withdraw(c)
        \/ GiveBack(c) \/ Leave(c)
    \/ Shut

Spec == Init /\ [][Next]_callVars
=============================================================================
