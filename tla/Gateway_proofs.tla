--------------------------- MODULE Gateway_proofs ---------------------------
(***************************************************************************)
(* Proofs about ConnectionLifecycle and Gateway, for any number of Cleanup *)
(* callers, calls, credentials and outages: when Cleanup may return, which *)
(* callback decides readiness, and that nothing starts after Cleanup.      *)
(***************************************************************************)
EXTENDS Gateway, SequenceTheorems, TLAPS

----------------------------------------------------------------------------
(* The inductive invariant of the lifecycle, in named parts.               *)

\* The connection is opened by Provision, and by nothing else.
OpenedByProvision ==
    /\ provision \in {"routes", "failed"} => conn = "none"
    /\ conn = "none" => callbacks = <<>> /\ ~closed
    /\ provision \in {"connected", "sampled"} => conn # "none"

\* The body of cleanup.Do runs on a provisioned handler that is stopping, and a
\* handler that is stopping is not ready.
CleanupStops ==
    /\ cleanup # "not begun" => stopping /\ provision = "done"
    /\ stopping => ~ready
    /\ conn = "draining" => stopping
    /\ \A c \in Callers : caller[c] = "waiting" => provision = "done"
    /\ \A c \in Callers : caller[c] = "returned" => provision = "failed" \/ cleanup = "done"

\* The closed callback, queued or run, is about a connection that is closed.
ClosedIsClosed ==
    /\ closed => conn = "closed"
    /\ \A i \in 1 .. Len(callbacks) : callbacks[i] = "closed" => conn = "closed"
    /\ cleanup = "wait" => conn \in {"draining", "closed"}
    /\ cleanup = "done" => conn \in {"none", "closed"}

\* The last callback still owed is about the state the connection is in.
LastOwed ==
    callbacks # <<>> =>
        (callbacks[Len(callbacks)] = "reconnected" <=> conn \in {"connected", "draining"})

LifecycleInvariant ==
    /\ TypeOK
    /\ OpenedByProvision
    /\ CleanupStops
    /\ ClosedIsClosed
    /\ LastOwed

----------------------------------------------------------------------------
(* Lemmas about the queue of callbacks.                                    *)

\* What appending a callback does to the queue.
LEMMA Appended ==
    ASSUME NEW q \in Seq(Callback), NEW b \in Callback
    PROVE  /\ Append(q, b) \in Seq(Callback)
           /\ Append(q, b) # <<>>
           /\ Len(Append(q, b)) = Len(q) + 1
           /\ Append(q, b)[Len(q) + 1] = b
           /\ \A i \in 1 .. Len(q) : Append(q, b)[i] = q[i]
  BY DEF Callback

\* What closing the connection adds to the queue: nothing if it is closed,
\* otherwise callbacks of which the last is "closed" and none "reconnected".
LEMMA OwedCallbacks ==
    ASSUME NEW q \in Seq(Callback), NEW c
    PROVE  /\ q \o OwedOnClose(c) \in Seq(Callback)
           /\ c \in {"none", "closed"} => q \o OwedOnClose(c) = q
           /\ c \in {"connected", "draining", "reconnecting"} =>
                /\ q \o OwedOnClose(c) # <<>>
                /\ (q \o OwedOnClose(c))[Len(q \o OwedOnClose(c))] = "closed"
<1>1. CASE c \in {"connected", "draining"}
  <2>1. OwedOnClose(c) = <<"disconnected", "closed">>
    BY <1>1 DEF OwedOnClose
  <2>2. <<"disconnected", "closed">> \in Seq(Callback)
    BY DEF Callback
  <2> QED
    BY <1>1, <2>1, <2>2
<1>2. CASE c = "reconnecting"
  <2>1. OwedOnClose(c) = <<"closed">>
    BY <1>2 DEF OwedOnClose
  <2>2. "closed" \in Callback
    BY DEF Callback
  <2>3. q \o OwedOnClose(c) = Append(q, "closed")
    BY <2>1, <2>2
  <2>4. /\ Append(q, "closed") \in Seq(Callback) /\ Append(q, "closed") # <<>>
        /\ Append(q, "closed")[Len(Append(q, "closed"))] = "closed"
    BY <2>2, Appended
  <2> QED
    BY <1>2, <2>3, <2>4
<1>3. CASE c \notin {"connected", "draining", "reconnecting"}
  <2>1. OwedOnClose(c) = <<>>
    BY <1>3 DEF OwedOnClose
  <2>2. q \o <<>> = q
    OBVIOUS
  <2> QED
    BY <1>3, <2>1, <2>2
<1> QED
  BY <1>1, <1>2, <1>3

\* What running the oldest callback leaves.
LEMMA OldestRun ==
    ASSUME NEW q \in Seq(Callback), q # <<>>
    PROVE  /\ Tail(q) \in Seq(Callback)
           /\ Head(q) \in Callback
           /\ Head(q) = q[1] /\ 1 \in 1 .. Len(q)
           /\ \A i \in 1 .. Len(Tail(q)) : Tail(q)[i] = q[i + 1] /\ i + 1 \in 1 .. Len(q)
           /\ Tail(q) # <<>> => Tail(q)[Len(Tail(q))] = q[Len(q)]
           /\ Tail(q) = <<>> => Head(q) = q[Len(q)]
<1>1. Tail(q) \in Seq(Callback) /\ Head(q) \in Callback /\ Head(q) = q[1]
  OBVIOUS
<1>2. Len(q) \in Nat \ {0} /\ Len(Tail(q)) = Len(q) - 1
  OBVIOUS
<1>3. \A i \in 1 .. Len(Tail(q)) : Tail(q)[i] = q[i + 1]
  BY <1>2
<1>4. Tail(q) # <<>> => Len(Tail(q)) \in 1 .. Len(Tail(q))
  BY <1>1, <1>2
<1>5. Tail(q) = <<>> => Len(q) = 1
  <2>1. Tail(q) = <<>> => Len(Tail(q)) = 0
    BY <1>1, EmptySeq
  <2> QED
    BY <1>2, <2>1
<1> QED
  BY <1>1, <1>2, <1>3, <1>4, <1>5

----------------------------------------------------------------------------
(* The lifecycle: one lemma per group of steps.                            *)

LEMMA LifecycleInitially == Init => LifecycleInvariant
<1> SUFFICES ASSUME Init PROVE LifecycleInvariant
  OBVIOUS
<1>1. TypeOK
  <2>1. callbacks \in Seq(Callback)
    BY EmptySeq DEF Init
  <2>2. {sampled, ready, stopping, closed, cleanupErr} \subseteq BOOLEAN
    BY DEF Init
  <2>3. outages \in 0 .. MaxOutages
    <3>1. outages = 0
      BY DEF Init
    <3> QED
      BY <3>1, LifecycleAssumption
  <2> QED
    BY <2>1, <2>2, <2>3 DEF Init, TypeOK
<1>2. OpenedByProvision /\ CleanupStops /\ LastOwed
  BY DEF Init, OpenedByProvision, CleanupStops, LastOwed
<1>3. ClosedIsClosed
  <2>1. 1 .. Len(callbacks) = {}
    <3>1. Len(callbacks) = 0
      BY <1>1, EmptySeq DEF Init, TypeOK
    <3> QED
      BY <3>1
  <2> QED
    BY <2>1 DEF Init, ClosedIsClosed
<1> QED
  BY <1>1, <1>2, <1>3 DEF LifecycleInvariant

\* Provision: no callback is queued before there is a connection, and what was
\* read of it is stored before anybody may call Cleanup.
LEMMA ProvisionKeeps ==
    ASSUME LifecycleInvariant, Provision
    PROVE  LifecycleInvariant'
<1> USE DEF LifecycleInvariant, provisionVars, cleanupVars
<1>1. CASE ProvisionFails
  BY <1>1 DEF ProvisionFails, TypeOK, OpenedByProvision, CleanupStops, ClosedIsClosed, LastOwed
<1>2. CASE ProvisionProtectedOnly
  <2>1. TypeOK'
    BY <1>2 DEF ProvisionProtectedOnly, setReady, TypeOK
  <2> QED
    BY <1>2, <2>1 DEF ProvisionProtectedOnly, setReady,
        OpenedByProvision, CleanupStops, ClosedIsClosed, LastOwed
<1>3. CASE ProvisionConnects
  <2>1. TypeOK'
    BY <1>3 DEF ProvisionConnects, TypeOK
  <2> QED
    BY <1>3, <2>1 DEF ProvisionConnects, TypeOK,
        OpenedByProvision, CleanupStops, ClosedIsClosed, LastOwed
<1>4. CASE ProvisionSamples
  <2>1. TypeOK'
    BY <1>4 DEF ProvisionSamples, TypeOK
  <2> QED
    BY <1>4, <2>1 DEF ProvisionSamples,
        OpenedByProvision, CleanupStops, ClosedIsClosed, LastOwed
<1>5. CASE ProvisionStores
  <2>1. TypeOK'
    BY <1>5 DEF ProvisionStores, setReady, TypeOK
  <2> QED
    BY <1>5, <2>1 DEF ProvisionStores, setReady, TypeOK,
        OpenedByProvision, CleanupStops, ClosedIsClosed, LastOwed
<1> QED
  BY <1>1, <1>2, <1>3, <1>4, <1>5 DEF Provision

\* Closing the connection: the queue ends with the closed callback, or the
\* connection was closed before.
LEMMA ClosingOwes ==
    ASSUME LifecycleInvariant, Closing, conn # "none"
    PROVE  /\ conn' = "closed"
           /\ callbacks' \in Seq(Callback)
           /\ LastOwed'
<1> USE DEF LifecycleInvariant
<1>1. conn' = "closed" /\ callbacks' \in Seq(Callback)
  BY OwedCallbacks DEF Closing, TypeOK
<1>2. CASE conn = "closed"
  <2>1. callbacks' = callbacks
    BY <1>2, OwedCallbacks DEF Closing, TypeOK
  <2> QED
    BY <1>1, <1>2, <2>1 DEF LastOwed
<1>3. CASE conn # "closed"
  <2>1. callbacks'[Len(callbacks')] = "closed"
    BY <1>3, OwedCallbacks DEF Closing, TypeOK
  <2> QED
    BY <1>1, <2>1 DEF LastOwed
<1> QED
  BY <1>1, <1>2, <1>3

\* The library: what it queues is about the state it puts the connection in.
LEMMA LibraryKeeps ==
    ASSUME LifecycleInvariant, Library
    PROVE  LifecycleInvariant'
<1> USE DEF LifecycleInvariant, provisionVars, cleanupVars
<1> "disconnected" \in Callback /\ "reconnected" \in Callback
  BY DEF Callback
<1>1. CASE Lost
  <2>1. callbacks \in Seq(Callback) /\ callbacks' = Append(callbacks, "disconnected")
    BY <1>1 DEF Lost, TypeOK
  <2>2. TypeOK'
    <3>1. callbacks' \in Seq(Callback)
      BY <2>1, Appended
    <3>2. outages' \in 0 .. MaxOutages
      <4>1. outages \in 0 .. MaxOutages /\ outages < MaxOutages /\ outages' = outages + 1
        BY <1>1 DEF Lost, TypeOK
      <4> QED
        BY <4>1, LifecycleAssumption
    <3> QED
      BY <1>1, <3>1, <3>2 DEF Lost, TypeOK
  <2>3. LastOwed'
    BY <1>1, <2>1, Appended DEF Lost, LastOwed
  <2>4. OpenedByProvision' /\ CleanupStops'
    BY <1>1 DEF Lost, OpenedByProvision, CleanupStops
  <2>5. ClosedIsClosed'
    <3>1. \A i \in 1 .. Len(callbacks') : callbacks'[i] # "closed"
      BY <1>1, <2>1, Appended DEF Lost, ClosedIsClosed
    <3> QED
      BY <1>1, <3>1 DEF Lost, ClosedIsClosed
  <2> QED
    BY <2>2, <2>3, <2>4, <2>5
<1>2. CASE Restored
  <2>1. callbacks \in Seq(Callback) /\ callbacks' = Append(callbacks, "reconnected")
    BY <1>2 DEF Restored, TypeOK
  <2>2. TypeOK'
    BY <1>2, <2>1, Appended DEF Restored, TypeOK
  <2>3. LastOwed'
    BY <1>2, <2>1, Appended DEF Restored, LastOwed
  <2>4. OpenedByProvision' /\ CleanupStops'
    BY <1>2 DEF Restored, OpenedByProvision, CleanupStops
  <2>5. ClosedIsClosed'
    <3>1. \A i \in 1 .. Len(callbacks') : callbacks'[i] # "closed"
      BY <1>2, <2>1, Appended DEF Restored, ClosedIsClosed
    <3> QED
      BY <1>2, <3>1 DEF Restored, ClosedIsClosed
  <2> QED
    BY <2>2, <2>3, <2>4, <2>5
<1>3. CASE LibraryCloses
  <2>1. conn' = "closed" /\ callbacks' \in Seq(Callback) /\ LastOwed'
    BY <1>3, ClosingOwes DEF LibraryCloses
  <2>2. TypeOK'
    BY <1>3, <2>1 DEF LibraryCloses, TypeOK
  <2>3. OpenedByProvision' /\ CleanupStops' /\ ClosedIsClosed'
    BY <1>3, <2>1 DEF LibraryCloses, OpenedByProvision, CleanupStops, ClosedIsClosed
  <2> QED
    BY <2>1, <2>2, <2>3
<1> QED
  BY <1>1, <1>2, <1>3 DEF Library

\* A callback: it takes the oldest one away and moves readiness.
LEMMA CallbackKeeps ==
    ASSUME LifecycleInvariant, CallbackRuns
    PROVE  LifecycleInvariant'
<1> USE DEF LifecycleInvariant, provisionVars, cleanupVars
<1>1. callbacks \in Seq(Callback) /\ callbacks # <<>> /\ callbacks' = Tail(callbacks)
  BY DEF CallbackRuns, TypeOK
<1>2. TypeOK'
  <2>1. ready' \in BOOLEAN /\ closed' \in BOOLEAN
    BY DEF CallbackRuns, setReady, TypeOK
  <2>2. callbacks' \in Seq(Callback)
    BY <1>1, OldestRun
  <2> QED
    BY <2>1, <2>2 DEF CallbackRuns, TypeOK
<1>3. OpenedByProvision' /\ CleanupStops'
  BY <1>1 DEF CallbackRuns, setReady, OpenedByProvision, CleanupStops, TypeOK
<1>4. ClosedIsClosed'
  <2>1. closed' => conn = "closed"
    BY <1>1, OldestRun DEF CallbackRuns, ClosedIsClosed
  <2>2. \A i \in 1 .. Len(callbacks') : callbacks'[i] = "closed" => conn = "closed"
    BY <1>1, OldestRun DEF ClosedIsClosed
  <2> QED
    BY <2>1, <2>2 DEF CallbackRuns, ClosedIsClosed
<1>5. LastOwed'
  BY <1>1, OldestRun DEF CallbackRuns, LastOwed
<1> QED
  BY <1>2, <1>3, <1>4, <1>5

\* The Cleanup calls: one returns when the body of cleanup.Do has run, or when
\* there is no lifecycle to clean up.
LEMMA CallersKeep ==
    ASSUME LifecycleInvariant, NEW c \in Callers, CleanupCalled(c) \/ CleanupReturns(c)
    PROVE  LifecycleInvariant'
<1> USE DEF LifecycleInvariant, provisionVars, cleanupVars
<1>1. CASE CleanupCalled(c)
  BY <1>1 DEF CleanupCalled, TypeOK, OpenedByProvision, CleanupStops, ClosedIsClosed, LastOwed
<1>2. CASE CleanupReturns(c)
  BY <1>2 DEF CleanupReturns, TypeOK, OpenedByProvision, CleanupStops, ClosedIsClosed, LastOwed
<1> QED
  BY <1>1, <1>2

\* The body of cleanup.Do: every way out of it leaves the connection closed.
LEMMA CleanupBodyKeeps ==
    ASSUME LifecycleInvariant, CleanupBody
    PROVE  LifecycleInvariant'
<1> USE DEF LifecycleInvariant, provisionVars, cleanupVars
<1>1. CASE beginStopping
  <2>1. TypeOK'
    BY <1>1 DEF beginStopping, TypeOK
  <2> QED
    BY <1>1, <2>1 DEF beginStopping, OpenedByProvision, CleanupStops, ClosedIsClosed, LastOwed
<1>2. CASE PoolsClosed
  <2>1. TypeOK'
    BY <1>2 DEF PoolsClosed, TypeOK
  <2> QED
    BY <1>2, <2>1 DEF PoolsClosed, OpenedByProvision, CleanupStops, ClosedIsClosed, LastOwed
<1>3. CASE DrainStarts
  <2>1. TypeOK'
    BY <1>3 DEF DrainStarts, TypeOK
  <2> QED
    BY <1>3, <2>1 DEF DrainStarts, OpenedByProvision, CleanupStops, ClosedIsClosed, LastOwed
<1>4. CASE DrainUnneeded
  <2>1. conn' = "closed" /\ callbacks' \in Seq(Callback) /\ LastOwed'
    BY <1>4, ClosingOwes DEF DrainUnneeded
  <2>2. TypeOK'
    BY <1>4, <2>1 DEF DrainUnneeded, TypeOK
  <2> QED
    BY <1>4, <2>1, <2>2 DEF DrainUnneeded, OpenedByProvision, CleanupStops, ClosedIsClosed
<1>5. CASE DrainFails
  <2>1. conn' = "closed" /\ callbacks' \in Seq(Callback) /\ LastOwed'
    BY <1>5, ClosingOwes DEF DrainFails
  <2>2. TypeOK'
    BY <1>5, <2>1 DEF DrainFails, TypeOK
  <2> QED
    BY <1>5, <2>1, <2>2 DEF DrainFails, OpenedByProvision, CleanupStops, ClosedIsClosed
<1>6. CASE DrainFinished
  <2>1. TypeOK'
    BY <1>6 DEF DrainFinished, TypeOK
  <2> QED
    BY <1>6, <2>1 DEF DrainFinished, OpenedByProvision, CleanupStops, ClosedIsClosed, LastOwed
<1>7. CASE DrainTimedOut
  <2>1. conn' = "closed" /\ callbacks' \in Seq(Callback) /\ LastOwed'
    BY <1>7, ClosingOwes DEF DrainTimedOut, ClosedIsClosed
  <2>2. TypeOK'
    BY <1>7, <2>1 DEF DrainTimedOut, TypeOK
  <2> QED
    BY <1>7, <2>1, <2>2 DEF DrainTimedOut, OpenedByProvision, CleanupStops, ClosedIsClosed
<1> QED
  BY <1>1, <1>2, <1>3, <1>4, <1>5, <1>6, <1>7 DEF CleanupBody, Drain

LEMMA LifecycleStep ==
    ASSUME LifecycleInvariant, [Next]_vars
    PROVE  LifecycleInvariant'
<1>1. CASE UNCHANGED vars
  BY <1>1 DEF vars, LifecycleInvariant, TypeOK, OpenedByProvision, CleanupStops,
      ClosedIsClosed, LastOwed
<1> QED
  BY <1>1, ProvisionKeeps, LibraryKeeps, CallbackKeeps, CallersKeep, CleanupBodyKeeps DEF Next

----------------------------------------------------------------------------
(* What the lifecycle promises.                                            *)

\* In every state of the lifecycle its invariant holds (gateway.go 198-349).
THEOREM LifecycleInvariantHolds == Spec => []LifecycleInvariant
<1>1. Init => LifecycleInvariant
  BY LifecycleInitially
<1>2. LifecycleInvariant /\ [Next]_vars => LifecycleInvariant'
  BY LifecycleStep
<1> QED
  BY <1>1, <1>2, PTL DEF Spec

LEMMA CleanupIsOver == LifecycleInvariant => ReturnAfterCleanup
  BY DEF LifecycleInvariant, CleanupStops, ClosedIsClosed, ReturnAfterCleanup

\* A step that empties the queue of callbacks runs the last one, and that one
\* is about the state the connection is still in.
LEMMA LastOneDecides ==
    ASSUME LifecycleInvariant, [Next]_vars,
           provision = "done", callbacks # <<>>, callbacks' = <<>>
    PROVE  ready' <=> conn' = "connected" /\ ~stopping'
<1> USE DEF LifecycleInvariant
<1> callbacks \in Seq(Callback)
  BY DEF TypeOK
<1>1. CASE CallbackRuns
  <2>1. Tail(callbacks) = <<>> /\ Head(callbacks) = callbacks[Len(callbacks)]
    BY <1>1, OldestRun DEF CallbackRuns
  <2>2. Head(callbacks) = "reconnected" <=> conn \in {"connected", "draining"}
    BY <2>1 DEF LastOwed
  <2>3. conn = "draining" => stopping
    BY DEF CleanupStops
  <2>4. stopping => ~ready
    BY DEF CleanupStops
  <2>5. {ready, stopping} \subseteq BOOLEAN
    BY DEF TypeOK
  <2> QED
    BY <1>1, <2>2, <2>3, <2>4, <2>5 DEF CallbackRuns, setReady
<1>2. CASE Closing
  <2>1. callbacks' # <<>>
    <3>1. conn # "none"
      BY DEF OpenedByProvision
    <3>2. CASE conn = "closed"
      BY <1>2, <3>2, OwedCallbacks DEF Closing
    <3>3. CASE conn # "closed"
      BY <1>2, <3>1, <3>3, OwedCallbacks DEF Closing, TypeOK
    <3> QED
      BY <3>2, <3>3
  <2> QED
    BY <2>1
<1>3. CASE Lost \/ Restored
  <2>1. \E b \in Callback : callbacks' = Append(callbacks, b)
    BY <1>3 DEF Lost, Restored, Callback
  <2> QED
    BY <2>1, Appended
<1>4. CASE UNCHANGED callbacks
  BY <1>4
<1>5. Provision => UNCHANGED callbacks
  BY DEF Provision, ProvisionFails, ProvisionProtectedOnly, ProvisionConnects,
      ProvisionSamples, ProvisionStores
<1>6. CleanupBody => UNCHANGED callbacks \/ Closing
  BY DEF CleanupBody, Drain, beginStopping, PoolsClosed, DrainStarts, DrainUnneeded,
      DrainFails, DrainFinished, DrainTimedOut
<1>7. Library => Lost \/ Restored \/ Closing
  BY DEF Library, LibraryCloses
<1>8. ASSUME NEW c \in Callers, CleanupCalled(c) \/ CleanupReturns(c)
      PROVE  UNCHANGED callbacks
  BY <1>8 DEF CleanupCalled, CleanupReturns
<1> QED
  BY <1>1, <1>2, <1>3, <1>4, <1>5, <1>6, <1>7, <1>8 DEF Next, vars

----------------------------------------------------------------------------
(* The gateway: its steps are steps of the lifecycle, of the pool and of    *)
(* the calls.                                                              *)

LEMMA GatewayIsLifecycleStep == [GatewayNext]_gatewayVars => [Next]_vars
<1>1. ASSUME NEW c \in Calls,
             CallTurnedAway(c) \/ CallEnters(c) \/ (\E k \in Credentials : CallAcquires(c, k)) \/ CallEnds(c)
      PROVE  UNCHANGED vars
  BY <1>1 DEF CallTurnedAway, CallEnters, CallAcquires, CallEnds, CallConcludes,
      CallReleases, CallLeaves
<1>2. ASSUME NEW k \in Credentials, NEW x \in Conns, PoolOpens(k, x)
      PROVE  UNCHANGED vars
  BY <1>2 DEF PoolOpens
<1>3. ASSUME NEW S \in SUBSET Credentials, PoolRetires(S)
      PROVE  UNCHANGED vars
  BY <1>3 DEF PoolRetires
<1>4. CleanupSteps => CleanupBody
  BY DEF CleanupSteps, CleanupBody, ClosePools
<1>5. LifecycleSteps => Next
  BY DEF LifecycleSteps, Next
<1>6. UNCHANGED gatewayVars => UNCHANGED vars
  BY DEF gatewayVars
<1> QED
  BY <1>1, <1>2, <1>3, <1>4, <1>5, <1>6 DEF GatewayNext, Next

\* The gateway as a whole, with its pool and the calls it serves, is a
\* lifecycle: what holds of ConnectionLifecycle holds of it (gateway.go
\* 198-349, 377-505).
THEOREM GatewayIsLifecycle == GatewaySpec => Spec
<1>1. GatewayInit => Init
  BY DEF GatewayInit
<1>2. [GatewayNext]_gatewayVars => [Next]_vars
  BY GatewayIsLifecycleStep
<1> QED
  BY <1>1, <1>2, PTL DEF GatewaySpec, Spec

\* Nobody is told that Cleanup is over while the handler is ready or its
\* connection open, for any number of callers (gateway.go 312-349).
THEOREM CleanupReturnsLast == GatewaySpec => []ReturnAfterCleanup
  BY GatewayIsLifecycle, LifecycleInvariantHolds, CleanupIsOver, PTL

\* When the queue of callbacks runs empty, the last one has decided: the handler
\* is ready iff it is connected and not stopping (gateway.go 151-173, 283-299).
THEOREM LastCallbackWins == GatewaySpec => LastCallbackDecides
<1>1. LifecycleInvariant /\ [Next]_vars =>
        [provision = "done" /\ callbacks # <<>> /\ callbacks' = <<>> =>
            (ready' <=> conn' = "connected" /\ ~stopping')]_vars
  BY LastOneDecides
<1> QED
  BY <1>1, GatewayIsLifecycle, LifecycleInvariantHolds, PTL DEF Spec, LastCallbackDecides

----------------------------------------------------------------------------
(* No call starts after Cleanup.                                           *)

\* No call moves before the handler is provisioned, and once the body of Cleanup
\* is past the pools they are closed.
CallsWithin ==
    /\ stage \in [Calls -> Call!Stages]
    /\ provision # "done" => \A c \in Calls : stage[c] = "arrived"
    /\ cleanup \in {"drain", "wait", "done"} => poolClosed

LEMMA CallsWithinStep ==
    ASSUME LifecycleInvariant, CallsWithin, [GatewayNext]_gatewayVars
    PROVE  CallsWithin'
<1> USE DEF CallsWithin, Call!Stages
<1>1. ASSUME NEW c \in Calls,
             CallTurnedAway(c) \/ CallEnters(c) \/ (\E k \in Credentials : CallAcquires(c, k)) \/ CallEnds(c)
      PROVE  CallsWithin'
  <2>1. UNCHANGED <<provision, cleanup, poolClosed>> /\ provision = "done"
    BY <1>1 DEF CallTurnedAway, CallEnters, CallAcquires, CallEnds, CallConcludes,
        CallReleases, CallLeaves, vars, poolState, Serving, Pool!Grant, Pool!Return,
        Call!Take, Call!Conclude, Call!GiveBack, Call!Leave
  <2>2. stage' \in [Calls -> Call!Stages]
    BY <1>1 DEF CallTurnedAway, CallEnters, CallAcquires, CallEnds, CallConcludes,
        CallReleases, CallLeaves, Call!TurnAway, Call!Enter, Call!Take, Call!Conclude,
        Call!GiveBack, Call!Leave, Call!To
  <2> QED
    BY <2>1, <2>2
<1>2. ASSUME NEW k \in Credentials, NEW x \in Conns, PoolOpens(k, x)
      PROVE  CallsWithin'
  BY <1>2 DEF PoolOpens, Pool!Open, vars
<1>3. ASSUME NEW S \in SUBSET Credentials, PoolRetires(S)
      PROVE  CallsWithin'
  BY <1>3 DEF PoolRetires, Pool!Retire, vars
<1>4. CASE ClosePools
  BY <1>4 DEF ClosePools, Pool!Close, PoolsClosed, provisionVars
<1>5. CASE (beginStopping \/ Drain) /\ UNCHANGED <<stage, poolState>>
  BY <1>5 DEF beginStopping, Drain, poolState, provisionVars, DrainStarts, DrainUnneeded,
      DrainFails, DrainFinished, DrainTimedOut
<1>6. CASE LifecycleSteps
  <2>1. UNCHANGED <<stage, poolClosed>>
    BY <1>6 DEF LifecycleSteps, poolState
  <2>2. CASE Provision
    BY <2>1, <2>2 DEF Provision, ProvisionFails, ProvisionProtectedOnly, ProvisionConnects,
        ProvisionSamples, ProvisionStores, cleanupVars
  <2>3. CASE Library \/ CallbackRuns
    BY <2>1, <2>3 DEF Library, Lost, Restored, LibraryCloses, CallbackRuns, cleanupVars,
        provisionVars
  <2>4. ASSUME NEW c \in Callers, CleanupCalled(c) \/ CleanupReturns(c)
        PROVE  CallsWithin'
    BY <2>1, <2>4 DEF CleanupCalled, CleanupReturns, provisionVars
  <2> QED
    BY <1>6, <2>2, <2>3, <2>4 DEF LifecycleSteps
<1>7. CASE UNCHANGED gatewayVars
  BY <1>7 DEF gatewayVars, vars, poolState
<1> QED
  BY <1>1, <1>2, <1>3, <1>4, <1>5, <1>6, <1>7 DEF GatewayNext, CleanupSteps

LEMMA NothingStarts ==
    ASSUME LifecycleInvariant, CallsWithin, [GatewayNext]_gatewayVars,
           NEW c \in Calls, NEW d \in Callers, caller[d] = "returned", stage'[c] # stage[c]
    PROVE  stage'[c] \in {"returning", "done"}
<1>1. provision = "failed" \/ (cleanup = "done" /\ stopping /\ ~ready /\ poolClosed)
  BY DEF LifecycleInvariant, CleanupStops, CallsWithin
<1>2. provision = "failed" => \A b \in Calls : stage[b] = "arrived"
  BY DEF CallsWithin
<1>3. ASSUME NEW b \in Calls, CallEnters(b)
      PROVE  FALSE
  BY <1>1, <1>3 DEF CallEnters, Serving, Available
<1>4. ASSUME NEW b \in Calls, NEW k \in Credentials, CallAcquires(b, k)
      PROVE  FALSE
  BY <1>1, <1>2, <1>4 DEF CallAcquires, Pool!Grant, Call!Take
<1>5. ASSUME NEW b \in Calls, CallTurnedAway(b)
      PROVE  stage'[c] \in {"returning", "done"}
  BY <1>5 DEF CallTurnedAway, Call!TurnAway, Call!To, CallsWithin
<1>6. ASSUME NEW b \in Calls, CallEnds(b)
      PROVE  stage'[c] \in {"returning", "done"}
  BY <1>6 DEF CallEnds, CallConcludes, CallReleases, CallLeaves, Call!Conclude,
      Call!GiveBack, Call!Leave, Call!To, CallsWithin
<1>7. ASSUME NEW k \in Credentials, NEW x \in Conns, PoolOpens(k, x)
      PROVE  UNCHANGED stage
  BY <1>7 DEF PoolOpens
<1>8. ASSUME NEW S \in SUBSET Credentials, PoolRetires(S)
      PROVE  UNCHANGED stage
  BY <1>8 DEF PoolRetires
<1>9. CleanupSteps \/ LifecycleSteps \/ UNCHANGED gatewayVars => UNCHANGED stage
  BY DEF CleanupSteps, ClosePools, LifecycleSteps, gatewayVars
<1> QED
  BY <1>3, <1>4, <1>5, <1>6, <1>7, <1>8, <1>9 DEF GatewayNext

LEMMA CallsStayWithin == GatewaySpec => []CallsWithin
<1>1. GatewayInit => CallsWithin
  BY DEF GatewayInit, Init, Call!Init, CallsWithin, Call!Stages
<1>2. LifecycleInvariant /\ CallsWithin /\ [GatewayNext]_gatewayVars => CallsWithin'
  BY CallsWithinStep
<1> QED
  BY <1>1, <1>2, GatewayIsLifecycle, LifecycleInvariantHolds, PTL DEF GatewaySpec

\* Once Cleanup has returned to anybody, no call gets past the gate and none that
\* is past it gets a connection, for any number of calls in progress (gateway.go
\* 151-173, 312-349, 377).
THEOREM NothingStartsOnceCleanedUp == GatewaySpec => NothingStartsAfterCleanup
<1>1. LifecycleInvariant /\ CallsWithin /\ [GatewayNext]_gatewayVars =>
        [\A c \in Calls :
            /\ \E d \in Callers : caller[d] = "returned"
            /\ stage'[c] # stage[c]
            => stage'[c] \in {"returning", "done"}]_gatewayVars
  BY NothingStarts
<1> QED
  BY <1>1, GatewayIsLifecycle, LifecycleInvariantHolds, CallsStayWithin, PTL
     DEF GatewaySpec, NothingStartsAfterCleanup
=============================================================================
