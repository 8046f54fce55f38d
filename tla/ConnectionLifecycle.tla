------------------------ MODULE ConnectionLifecycle ------------------------
(***************************************************************************)
(* The operator-owned NATS connection of one Handler (gateway.go):         *)
(* Provision opens it, the client library's callbacks move readiness,      *)
(* Cleanup stops the handler and drains the connection.                    *)
(*                                                                         *)
(* The library is external.  It changes the state of the connection on its *)
(* own and runs the registered callbacks later, one at a time and in       *)
(* order, in a goroutine of its own.                                       *)
(***************************************************************************)
EXTENDS Naturals, Sequences, FiniteSets

CONSTANTS
    Callers,     \* goroutines that may call Cleanup
    MaxOutages   \* bound: how often the library loses the connection

ASSUME LifecycleAssumption == MaxOutages \in Nat

VARIABLES
    provision,   \* where Provision is
    sampled,     \* the value IsConnected returned to Provision
    ready,       \* lifecycle.ready
    stopping,    \* lifecycle.stopping (the stopped channel closes with it)
    closed,      \* the closed channel has been closed
    conn,        \* the connection, as the library sees it
    callbacks,   \* library callbacks not yet run
    cleanup,     \* where the body of cleanup.Do is
    cleanupErr,  \* lifecycle.cleanupErr is set
    caller,      \* the Cleanup calls
    outages      \* how often the connection was lost

vars == <<provision, sampled, ready, stopping, closed, conn, callbacks, cleanup,
          cleanupErr, caller, outages>>

provisionVars == <<provision, sampled>>
cleanupVars == <<cleanup, cleanupErr, caller>>

Callback == {"disconnected", "reconnected", "closed"}

\* Every variable keeps to the values the program can store in it.
TypeOK ==
    /\ provision \in {"routes", "connected", "sampled", "done", "failed"}
    /\ {sampled, ready, stopping, closed, cleanupErr} \subseteq BOOLEAN
    /\ conn \in {"none", "connected", "reconnecting", "draining", "closed"}
    /\ callbacks \in Seq(Callback)
    /\ cleanup \in {"not begun", "pools", "drain", "wait", "done"}
    /\ caller \in [Callers -> {"idle", "waiting", "returned"}]
    /\ outages \in 0 .. MaxOutages

Init ==
    /\ provision = "routes" /\ sampled = FALSE
    /\ ready = FALSE /\ stopping = FALSE /\ closed = FALSE
    /\ conn = "none" /\ callbacks = <<>>
    /\ cleanup = "not begun" /\ cleanupErr = FALSE
    /\ caller = [c \in Callers |-> "idle"]
    /\ outages = 0

----------------------------------------------------------------------------
\* Mutant: the value false is not stored.
setReadyOnly(value) == ready' = (ready \/ (value /\ ~stopping))

\* setReady: a handler that is stopping never becomes ready again.
setReady(value) == ready' = IF value /\ stopping THEN ready ELSE value

----------------------------------------------------------------------------
(* Provision (lines 198-302).                                              *)

\* Validation, route compilation, a placeholder or the connect fails: the
\* handler keeps no lifecycle.
ProvisionFails ==
    /\ provision = "routes"
    /\ provision' = "failed"
    /\ UNCHANGED <<sampled, ready, stopping, closed, conn, callbacks, cleanupVars, outages>>

\* Lines 261-265: every route is protected and no connection is opened.
ProvisionProtectedOnly ==
    /\ provision = "routes"
    /\ setReady(TRUE)
    /\ provision' = "done"
    /\ UNCHANGED <<sampled, stopping, closed, conn, callbacks, cleanupVars, outages>>

\* Some route has no security context: the connector returns an open
\* connection; callbacks may run from here on.
ProvisionConnects ==
    /\ provision = "routes"
    /\ conn' = "connected"
    /\ provision' = "connected"
    /\ UNCHANGED <<sampled, ready, stopping, closed, callbacks, cleanupVars, outages>>

\* Line 299, the argument: IsConnected is read ...
ProvisionSamples ==
    /\ provision = "connected"
    /\ sampled' = (conn = "connected")
    /\ provision' = "sampled"
    /\ UNCHANGED <<ready, stopping, closed, conn, callbacks, cleanupVars, outages>>

\* ... and line 299, the call: what was read is stored.
ProvisionStores ==
    /\ provision = "sampled"
    /\ setReady(sampled)
    /\ provision' = "done"
    /\ UNCHANGED <<sampled, stopping, closed, conn, callbacks, cleanupVars, outages>>

----------------------------------------------------------------------------
(* The library.                                                            *)

\* The callbacks the library owes when it closes a connection in state c.
OwedOnClose(c) ==
    CASE c \in {"connected", "draining"} -> <<"disconnected", "closed">>
      [] c = "reconnecting" -> <<"closed">>
      [] OTHER -> <<>>

Closing ==
    /\ conn' = "closed"
    /\ callbacks' = callbacks \o OwedOnClose(conn)

Lost ==
    /\ conn = "connected" /\ outages < MaxOutages
    /\ conn' = "reconnecting"
    /\ callbacks' = Append(callbacks, "disconnected")
    /\ outages' = outages + 1
    /\ UNCHANGED <<provisionVars, ready, stopping, closed, cleanupVars>>

Restored ==
    /\ conn = "reconnecting"
    /\ conn' = "connected"
    /\ callbacks' = Append(callbacks, "reconnected")
    /\ UNCHANGED <<provisionVars, ready, stopping, closed, cleanupVars, outages>>

\* Reconnecting is given up, or a drain ends (finished, timed out, or cut off).
LibraryCloses ==
    /\ conn \in {"reconnecting", "draining"}
    /\ Closing
    /\ UNCHANGED <<provisionVars, ready, stopping, closed, cleanupVars, outages>>

\* Lines 283-288: the library runs the oldest callback.
CallbackRuns ==
    /\ callbacks # <<>>
    /\ callbacks' = Tail(callbacks)
    /\ setReady(Head(callbacks) = "reconnected")
    /\ closed' = (closed \/ Head(callbacks) = "closed")
    /\ UNCHANGED <<provisionVars, stopping, conn, cleanupVars, outages>>

----------------------------------------------------------------------------
(* Cleanup (lines 312-349).                                                *)

\* Caddy cleans a module up once Provision has returned; without a lifecycle
\* Cleanup returns at once.
CleanupCalled(c) ==
    /\ caller[c] = "idle" /\ provision \in {"done", "failed"}
    /\ caller' = [caller EXCEPT ![c] = IF provision = "failed" THEN "returned" ELSE "waiting"]
    /\ UNCHANGED <<provisionVars, ready, stopping, closed, conn, callbacks, cleanup, cleanupErr, outages>>

\* The first call runs the body of cleanup.Do: beginStopping.
beginStopping ==
    /\ cleanup = "not begun" /\ \E c \in Callers : caller[c] = "waiting"
    /\ stopping' = TRUE /\ ready' = FALSE
    /\ cleanup' = "pools"
    /\ UNCHANGED <<provisionVars, closed, conn, callbacks, cleanupErr, caller, outages>>

\* Every route's pool is closed; without an operator connection that is all.
PoolsClosed ==
    /\ cleanup = "pools"
    /\ cleanup' = IF conn = "none" THEN "done" ELSE "drain"
    /\ UNCHANGED <<provisionVars, ready, stopping, closed, conn, callbacks, cleanupErr, caller, outages>>

\* Drain starts, and the body waits for the closed callback or the timer.
DrainStarts ==
    /\ cleanup = "drain" /\ conn = "connected"
    /\ conn' = "draining"
    /\ cleanup' = "wait"
    /\ UNCHANGED <<provisionVars, ready, stopping, closed, callbacks, cleanupErr, caller, outages>>

\* Drain reports that the connection is closed or reconnecting: no error.
DrainUnneeded ==
    /\ cleanup = "drain" /\ conn \in {"closed", "reconnecting"}
    /\ Closing
    /\ cleanup' = "done"
    /\ UNCHANGED <<provisionVars, ready, stopping, closed, cleanupErr, caller, outages>>

\* Drain fails in any other way: the connection is closed and the error kept.
DrainFails ==
    /\ cleanup = "drain" /\ conn = "connected"
    /\ Closing
    /\ cleanupErr' = TRUE
    /\ cleanup' = "done"
    /\ UNCHANGED <<provisionVars, ready, stopping, closed, caller, outages>>

DrainFinished ==
    /\ cleanup = "wait" /\ closed
    /\ cleanup' = "done"
    /\ UNCHANGED <<provisionVars, ready, stopping, closed, conn, callbacks, cleanupErr, caller, outages>>

\* Mutant: the timeout is reported but the connection is left to the drain.
DrainTimedOutOpen ==
    /\ cleanup = "wait"
    /\ cleanupErr' = TRUE
    /\ cleanup' = "done"
    /\ UNCHANGED <<provisionVars, ready, stopping, closed, conn, callbacks, caller, outages>>

DrainTimedOut ==
    /\ cleanup = "wait"
    /\ Closing
    /\ cleanupErr' = TRUE
    /\ cleanup' = "done"
    /\ UNCHANGED <<provisionVars, ready, stopping, closed, caller, outages>>

\* cleanup.Do returns to every caller when the body has run.
CleanupReturns(c) ==
    /\ caller[c] = "waiting" /\ cleanup = "done"
    /\ caller' = [caller EXCEPT ![c] = "returned"]
    /\ UNCHANGED <<provisionVars, ready, stopping, closed, conn, callbacks, cleanup, cleanupErr, outages>>

----------------------------------------------------------------------------
Provision ==
    \/ ProvisionFails
    \/ ProvisionProtectedOnly
    \/ ProvisionConnects
    \/ ProvisionSamples
    \/ ProvisionStores

Drain ==
    \/ DrainStarts
    \/ DrainUnneeded
    \/ DrainFails
    \/ DrainFinished
    \/ DrainTimedOut

CleanupBody == beginStopping \/ PoolsClosed \/ Drain

Library ==
    \/ Lost
    \/ Restored
    \/ LibraryCloses

Next ==
    \/ Provision
    \/ Library
    \/ CallbackRuns
    \/ \E c \in Callers : CleanupCalled(c) \/ CleanupReturns(c)
    \/ CleanupBody

Spec == Init /\ [][Next]_vars

----------------------------------------------------------------------------
(* Properties.                                                             *)

\* Nobody is told that cleanup is over while the handler is ready or its
\* connection open: a second, concurrent call waits for the first one, and the
\* connection is closed whichever of the drain, the callback, the timer and the
\* network won (lines 312-349).
ReturnAfterCleanup ==
    \A c \in Callers :
        caller[c] = "returned" =>
            provision = "failed" \/ (cleanup = "done" /\ conn \in {"none", "closed"} /\ ~ready)

\* After Provision the last outstanding callback decides: when the queue runs
\* empty, the handler is ready iff it is connected and not stopping.
LastCallbackDecides ==
    [][provision = "done" /\ callbacks # <<>> /\ callbacks' = <<>> =>
        (ready' <=> conn' = "connected" /\ ~stopping')]_vars

=============================================================================
