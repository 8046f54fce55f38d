------------------------------ MODULE Gateway ------------------------------
(***************************************************************************)
(* One provisioned handler as a whole (gateway.go): its operator           *)
(* connection and lifecycle (ConnectionLifecycle), the pool its protected  *)
(* routes share (LeaseService, which SecurityContextPool implements), and  *)
(* the calls being served (HandlerCall, which RequestReply and CoreSSE     *)
(* implement).  Cleanup runs while calls are in progress and does not wait *)
(* for them.                                                               *)
(***************************************************************************)
EXTENDS ConnectionLifecycle

CONSTANTS
    Calls, Guarded,     \* HTTP calls; those of protected routes
    Credentials,        \* what the callers of protected routes present
    Conns,              \* pooled NATS connections
    MaxConnections,     \* SecurityContext.MaxConnections
    None

VARIABLES
    stage,              \* where each call is
    pool, lease,        \* the shared pool and the leases on it
    poolClosed          \* pool.stopping

callState == <<stage, lease>>
poolState == <<pool, lease, poolClosed>>
gatewayVars == <<vars, stage, poolState>>

Pool ==
    INSTANCE LeaseService WITH
        Clients <- Calls, Keys <- Credentials, Limit <- MaxConnections, closed <- poolClosed

\* A call holds a lease iff the pool says so, and the gate is shut by stopping.
\* What calls have on their connections is left to RequestReply and CoreSSE.
Call ==
    INSTANCE HandlerCall WITH
        holds <- [c \in Calls |-> lease[c].conn # None], active <- {}, shut <- stopping

GatewayInit == Init /\ Pool!Init /\ Call!Init

----------------------------------------------------------------------------
(* A call (ServeHTTP lines 377-505, serveCoreSSE).                         *)

\* Caddy serves a handler once it is provisioned.
Serving == provision = "done"

\* Line 377: a route of the operator needs a connection that is ready, a
\* protected one a handler that is not stopping.
Available(c) == IF c \in Guarded THEN ~stopping ELSE ready

\* The call may also be turned away for reasons of its own (406, 401, 429).
CallTurnedAway(c) ==
    /\ Serving
    /\ UNCHANGED <<vars, poolState>>
    /\ Call!TurnAway(c)

CallEnters(c) ==
    /\ Serving /\ Available(c)
    /\ UNCHANGED <<vars, poolState>>
    /\ Call!Enter(c)

CallAcquires(c, k) ==
    /\ Pool!Grant(c, k)
    /\ Call!Take(c)
    /\ UNCHANGED vars

CallConcludes(c) ==
    /\ UNCHANGED <<vars, poolState>>
    /\ Call!Conclude(c)

\* Mutant: the call ends without its deferred release.
CallReleasesForgotten(c) ==
    /\ lease[c] # Pool!NoLease
    /\ UNCHANGED <<vars, poolState>>
    /\ stage[c] = "returning" /\ Call!To(c, "done")

\* The deferred release of a call that holds a lease; the others only leave.
CallReleases(c) ==
    /\ Pool!Return(c)
    /\ Call!GiveBack(c)
    /\ UNCHANGED vars

CallLeaves(c) ==
    /\ UNCHANGED <<vars, poolState>>
    /\ Call!Leave(c)

----------------------------------------------------------------------------
(* The pool's own goroutines: dials that succeed, timers, evictions.       *)

\* The connection of a dial that some acquire started, perhaps given up since.
PoolOpens(k, x) ==
    /\ Pool!Open(k, x)
    /\ \E c \in Guarded : stage[c] # "arrived"
    /\ UNCHANGED <<vars, stage>>

PoolRetires(S) ==
    /\ Pool!Retire(S)
    /\ UNCHANGED <<vars, stage>>

----------------------------------------------------------------------------
(* The lifecycle.                                                          *)

\* Mutant: the pools are closed only when there is no operator connection.
ClosePoolsProtectedOnly ==
    /\ PoolsClosed
    /\ IF conn = "none" THEN Pool!Close ELSE UNCHANGED poolState
    /\ UNCHANGED stage

\* Lines 318-322: close of a pool, for each route that uses it.
ClosePools ==
    /\ PoolsClosed
    /\ Pool!Close
    /\ UNCHANGED stage

\* The body of Cleanup, with the pool in it.
CleanupSteps ==
    \/ ClosePools
    \/ (beginStopping \/ Drain) /\ UNCHANGED <<stage, poolState>>

LifecycleSteps ==
    /\ \/ Provision
       \/ Library
       \/ CallbackRuns
       \/ \E c \in Callers : CleanupCalled(c) \/ CleanupReturns(c)
    /\ UNCHANGED <<stage, poolState>>

CallEnds(c) == CallConcludes(c) \/ CallReleases(c) \/ CallLeaves(c)

GatewayNext ==
    \/ \E c \in Calls :
        \/ CallTurnedAway(c)
        \/ CallEnters(c)
        \/ \E k \in Credentials : CallAcquires(c, k)
        \/ CallEnds(c)
    \/ \E k \in Credentials, x \in Conns : PoolOpens(k, x)
    \/ \E S \in SUBSET Credentials : PoolRetires(S)
    \/ CleanupSteps
    \/ LifecycleSteps

\* Goroutines run, callbacks are run, the drain timer fires; a call ends, which
\* RequestsAnswered and StreamsEnd show of both kinds of call unless a client of
\* HTTP/1 stalls in the middle of its body: that no client does so for ever is
\* assumed here.  Nothing is assumed of the network, the drain, the pool or Caddy.
GatewayFairness ==
    /\ WF_gatewayVars(Provision /\ UNCHANGED <<stage, poolState>>)
    /\ WF_gatewayVars(CallbackRuns /\ UNCHANGED <<stage, poolState>>)
    /\ WF_gatewayVars(CleanupSteps)
    /\ \A c \in Callers : WF_gatewayVars(CleanupReturns(c) /\ UNCHANGED <<stage, poolState>>)
    /\ \A c \in Calls : WF_gatewayVars(CallEnds(c))

GatewaySpec == GatewayInit /\ [][GatewayNext]_gatewayVars /\ GatewayFairness

----------------------------------------------------------------------------
(* Properties.                                                             *)

\* Once Cleanup has returned to anybody, no call gets past the gate and none
\* that is past it gets a connection, although Cleanup waits for no call and
\* callbacks are still on their way (lines 151-173, 312-349, 377).
NothingStartsAfterCleanup ==
    [][\A c \in Calls :
        /\ \E d \in Callers : caller[d] = "returned"
        /\ stage'[c] # stage[c]
        => stage'[c] \in {"returning", "done"}]_gatewayVars

\* No call works, nothing is leased, pooled or connected.
Quiet ==
    /\ \A c \in Calls : stage[c] \notin {"acquiring", "using"} /\ lease[c] = Pool!NoLease
    /\ poolClosed /\ Pool!PooledKeys = {} /\ conn \in {"none", "closed"}

\* Cleanup returns, and the handler comes to rest for good: the calls it was
\* serving end and return their leases, its pools and its connection are closed,
\* whatever the network does and whichever callbacks are late, as long as no
\* client stalls its request for ever.
ShutdownCompletes ==
    \A d \in Callers : caller[d] = "waiting" ~> [](Quiet /\ caller[d] = "returned")
=============================================================================
