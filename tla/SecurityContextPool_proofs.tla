--------------------- MODULE SecurityContextPool_proofs ---------------------
(***************************************************************************)
(* Proofs about SecurityContextPool, for every number of requests,         *)
(* credentials and connections and every value of the limits.              *)
(***************************************************************************)
EXTENDS SecurityContextPool, FiniteSetTheorems, TLAPS

----------------------------------------------------------------------------
(* The inductive invariant, in named parts.                                *)

\* An entry knows the key it is pooled under, and the goroutine that dialled
\* it has finished.
EntriesAddressed ==
    \A k \in Keys : entries[k] # None =>
        /\ attempt[entries[k]].key = k
        /\ attempt[entries[k]].phase = "done"
        /\ attempt[entries[k]].owner \in Requests

\* The attempt registered under a key is a dial of that key.
InflightAddressed ==
    \A k \in Keys : inflight[k] # None =>
        attempt[inflight[k]].key = k /\ Connecting(inflight[k])

\* A dial is registered under its key and has a context to dial with.
DialsRegistered ==
    \A a \in Attempts : Connecting(a) =>
        /\ attempt[a].key \in Keys
        /\ inflight[attempt[a].key] = a
        /\ attempt[a].owner \in Requests

\* What an acquire call knows at each point of its control flow.
RequestsPlaced ==
    \A r \in Requests :
        /\ request[r].pc \in {"lock", "scanned", "waiting", "leased"} => request[r].key \in Keys
        /\ request[r].pc = "waiting" => request[r].on \in Attempts
        /\ request[r].pc = "leased" =>
            request[r].on \in Attempts /\ attempt[request[r].on].phase = "done"
        /\ request[r].pc \in {"start", "lock", "scanned"} => request[r].on = None

\* Every context that was ever used presents some credential.
TrackersKnown ==
    /\ \A r \in Requests : request[r].pc # "idle" => tracker[r].key \in Keys
    /\ \A a \in Attempts : attempt[a].owner # None => tracker[attempt[a].owner].key \in Keys

\* The mutex is held between two steps by the request after its scan only.
MutexHeld == \A r \in Requests : request[r].pc = "scanned" <=> mu = r

Addressed ==
    /\ EntriesAddressed
    /\ InflightAddressed
    /\ DialsRegistered
    /\ RequestsPlaced
    /\ TrackersKnown
    /\ MutexHeld
    /\ NoLeak

Core == TypeOK /\ Addressed

Safety ==
    /\ LeasedStaysPooled
    /\ ReferencesExact
    /\ StoppedEmpty
    /\ NothingStranded
    /\ ConnectionLimit

----------------------------------------------------------------------------
(* Lemmas about the helpers.                                               *)

\* scheduleLocked touches nothing but the timer, leaves an expired entry
\* without one and gives every other entry one that is due in time.
LEMMA ScheduleProperties ==
    ASSUME NEW e \in EntryType
    PROVE  /\ scheduleLocked(e) \in EntryType
           /\ scheduleLocked(e).references = e.references
           /\ scheduleLocked(e).expired = e.expired
           /\ scheduleLocked(e).callbacks = e.callbacks
           /\ scheduleLocked(e).generation = e.generation
           /\ e.expired => scheduleLocked(e).timer = NoTimer
           /\ ~e.expired => scheduleLocked(e).timer # NoTimer
<1> USE PoolAssumption
<1> DEFINE delay == CASE e.expired -> NoTimer
                      [] ~e.expired /\ e.references = 0 ->
                            Lesser(MaxLifetime - e.age, IdleTimeout - e.idle)
                      [] OTHER -> MaxLifetime - e.age
<1>1. delay \in {NoTimer} \cup 0 .. MaxLifetime
  BY DEF EntryType, Lesser, NoTimer
<1>2. (e.expired => delay = NoTimer) /\ (~e.expired => delay # NoTimer)
  BY DEF EntryType, Lesser, NoTimer
<1>3. scheduleLocked(e) = [e EXCEPT !.timer = delay]
  BY DEF scheduleLocked
<1> HIDE DEF delay
<1> QED
  BY <1>1, <1>2, <1>3 DEF EntryType

\* The record updates of the actions keep the type of an acquire call.
LEMMA RequestUpdates ==
    ASSUME NEW x \in RequestType
    PROVE  /\ [x EXCEPT !.done = TRUE] \in RequestType
           /\ \A p \in {"idle", "leased"} \cup Acquiring :
                [x EXCEPT !.pc = p] \in RequestType
           /\ \A p \in {"idle", "leased"} \cup Acquiring, y \in Attempts \cup {None} :
                [x EXCEPT !.pc = p, !.on = y] \in RequestType
           /\ \A p \in {"idle", "leased"} \cup Acquiring, y \in Attempts \cup {None}, k \in Keys :
                [x EXCEPT !.pc = p, !.key = k, !.on = y] \in RequestType
<1>1. [x EXCEPT !.done = TRUE] \in RequestType
  BY DEF RequestType
<1>2. \A p \in {"idle", "leased"} \cup Acquiring : [x EXCEPT !.pc = p] \in RequestType
  BY DEF RequestType
<1>3. \A p \in {"idle", "leased"} \cup Acquiring, y \in Attempts \cup {None} :
        [x EXCEPT !.pc = p, !.on = y] \in RequestType
  BY DEF RequestType
<1>4. \A p \in {"idle", "leased"} \cup Acquiring, y \in Attempts \cup {None}, k \in Keys :
        [x EXCEPT !.pc = p, !.key = k, !.on = y] \in RequestType
  BY DEF RequestType
<1> QED
  BY <1>1, <1>2, <1>3, <1>4

\* The record updates of the actions keep the type of an attempt.
LEMMA AttemptUpdates ==
    \A x \in AttemptType, k \in Keys :
        /\ [x EXCEPT !.phase = "dialed", !.conn = "connected", !.auth = k] \in AttemptType
        /\ [x EXCEPT !.phase = "done", !.key = k] \in AttemptType
        /\ [x EXCEPT !.conn = "connected", !.auth = k] \in AttemptType
  BY DEF AttemptType

\* The record updates of the actions keep the type of an entry.
LEMMA EntryUpdates ==
    ASSUME NEW x \in EntryType
    PROVE  /\ \A b \in BOOLEAN : [x EXCEPT !.expired = b] \in EntryType
           /\ \A m \in Nat : [x EXCEPT !.callbacks = m] \in EntryType
           /\ \A m \in Nat : [x EXCEPT !.generation = m] \in EntryType
           /\ \A m \in Nat : [x EXCEPT !.timer = NoTimer, !.callbacks = m] \in EntryType
<1>1. \A b \in BOOLEAN : [x EXCEPT !.expired = b] \in EntryType
  BY DEF EntryType
<1>2. \A m \in Nat : [x EXCEPT !.callbacks = m] \in EntryType
  BY DEF EntryType
<1>3. \A m \in Nat : [x EXCEPT !.generation = m] \in EntryType
  BY DEF EntryType
<1>4. \A m \in Nat : [x EXCEPT !.timer = NoTimer, !.callbacks = m] \in EntryType
  BY DEF EntryType
<1> QED
  BY <1>1, <1>2, <1>3, <1>4

\* Taking or giving up references keeps the type and the other fields.
LEMMA UsedProperties ==
    ASSUME TypeOK, NEW a \in Attempts, NEW n \in Int
    PROVE  /\ Used(a, n) \in EntryType
           /\ Used(a, n).references = entry[a].references + n
           /\ Used(a, n).expired = entry[a].expired
           /\ Used(a, n).callbacks = entry[a].callbacks
<1>1. entry[a] \in EntryType /\ 0 \in 0 .. IdleTimeout
  BY PoolAssumption DEF TypeOK
<1>2. PICK m \in Int : m = entry[a].references + n
  BY <1>1 DEF EntryType
<1>3. Used(a, n) = [entry[a] EXCEPT !.references = m, !.idle = 0]
  BY <1>2 DEF Used
<1>4. PICK z \in 0 .. IdleTimeout : z = 0
  BY <1>1
<1>5. Used(a, n) = [entry[a] EXCEPT !.references = m, !.idle = z]
  BY <1>3, <1>4
<1> QED
  BY <1>1, <1>2, <1>5 DEF EntryType

\* Time changes nothing but ages and timers, and never disarms a timer.
LEMMA ElapsedProperties ==
    ASSUME NEW x \in EntryType
    PROVE  /\ Elapsed(x) \in EntryType
           /\ Elapsed(x).references = x.references
           /\ Elapsed(x).expired = x.expired
           /\ Elapsed(x).callbacks = x.callbacks
           /\ x.timer # NoTimer => Elapsed(x).timer # NoTimer
<1> DEFINE g == Lesser(x.age + 1, MaxLifetime)
           i == Lesser(x.idle + 1, IdleTimeout)
           t == IF x.timer > 0 THEN x.timer - 1 ELSE x.timer
<1>1. g \in 0 .. MaxLifetime /\ i \in 0 .. IdleTimeout
  BY PoolAssumption DEF EntryType, Lesser
<1>2. t \in {NoTimer} \cup 0 .. MaxLifetime /\ (x.timer # NoTimer => t # NoTimer)
  BY PoolAssumption DEF EntryType, NoTimer
<1>3. Elapsed(x) = [x EXCEPT !.age = g, !.idle = i, !.timer = t]
  BY DEF Elapsed
<1> HIDE DEF g, i, t
<1> QED
  BY <1>1, <1>2, <1>3 DEF EntryType

\* A freshly created entry has its type.
LEMMA FreshEntryType == FreshEntry \in EntryType
  BY PoolAssumption DEF FreshEntry, EntryType, NoTimer

\* The values of the removal helpers have the types of the variables.
LEMMA RemovalTypes ==
    ASSUME TypeOK, NEW S
    PROVE  /\ RemainingEntries(S) \in [Keys -> Attempts \cup {None}]
           /\ StoppedTimers(S) \in [Attempts -> EntryType]
           /\ ClosedConnections(S) \in [Attempts -> AttemptType]
<1>1. RemainingEntries(S) \in [Keys -> Attempts \cup {None}]
  BY DEF TypeOK, RemainingEntries
<1>2. StoppedTimers(S) \in [Attempts -> EntryType]
  BY FreshEntryType DEF TypeOK, StoppedTimers, EntryType
<1>3. ClosedConnections(S) \in [Attempts -> AttemptType]
  BY DEF TypeOK, ClosedConnections, Discarded, AttemptType
<1> QED
  BY <1>1, <1>2, <1>3

----------------------------------------------------------------------------
(* Every step preserves the types.                                         *)

\* Every action stores values of the declared types.
LEMMA TypeStep ==
    ASSUME Core, [Next]_vars
    PROVE  TypeOK'
<1> USE PoolAssumption DEF Core, TypeOK
<1>1. ASSUME NEW r \in Requests, NEW k \in Keys, Begin(r, k)
      PROVE  TypeOK'
  <2>1. request' \in [Requests -> RequestType]
    BY <1>1 DEF Begin, RequestType, Acquiring
  <2>2. tracker' \in [Requests -> TrackerType]
    BY <1>1 DEF Begin, TrackerType
  <2> QED
    BY <1>1, <2>1, <2>2 DEF Begin
<1>2. ASSUME NEW r \in Requests, ContextDone(r)
      PROVE  TypeOK'
  <2>1. request' \in [Requests -> RequestType]
    BY <1>2, RequestUpdates DEF ContextDone
  <2> QED
    BY <1>2, <2>1 DEF ContextDone
<1>3. ASSUME NEW r \in Requests, AcquireCancelled(r)
      PROVE  TypeOK'
  <2>1. request' \in [Requests -> RequestType]
    BY <1>3 DEF AcquireCancelled, Fail, Returned, RequestType, Errors
  <2> QED
    BY <1>3, <2>1 DEF AcquireCancelled
<1>4. ASSUME NEW r \in Requests, NEW k \in Keys, RefreshIdentity(r, k)
      PROVE  TypeOK'
  <2>1. request' \in [Requests -> RequestType]
    BY <1>4, RequestUpdates DEF RefreshIdentity, Acquiring
  <2>2. tracker' \in [Requests -> TrackerType]
    BY <1>4 DEF RefreshIdentity, observe, TrackerType
  <2> QED
    BY <1>4, <2>1, <2>2 DEF RefreshIdentity
<1>5. ASSUME NEW r \in Requests, RefreshFails(r)
      PROVE  TypeOK'
  <2>1. request' \in [Requests -> RequestType]
    BY <1>5 DEF RefreshFails, Fail, Returned, RequestType, Errors
  <2> QED
    BY <1>5, <2>1 DEF RefreshFails
<1>6. ASSUME NEW r \in Requests, AcquireStopped(r)
      PROVE  TypeOK'
  <2>1. request' \in [Requests -> RequestType]
    BY <1>6 DEF AcquireStopped, Fail, Returned, RequestType, Errors
  <2> QED
    BY <1>6, <2>1 DEF AcquireStopped
<1>7. ASSUME NEW r \in Requests, AcquireScan(r)
      PROVE  TypeOK'
  <2>1. request' \in [Requests -> RequestType]
    BY <1>7 DEF AcquireScan, RequestType, Acquiring
  <2>2. \A a \in Attempts : [entry[a] EXCEPT !.expired = TRUE] \in EntryType
    BY <1>7, EntryUpdates DEF AcquireScan
  <2>3. \A S : \A a \in Attempts : StoppedTimers(S)[a] \in EntryType
    BY <1>7, RemovalTypes DEF AcquireScan
  <2>4. entry' \in [Attempts -> EntryType]
    BY <1>7, <2>2, <2>3 DEF AcquireScan
  <2> QED
    BY <1>7, <2>1, <2>2, <2>3, <2>4, RemovalTypes DEF AcquireScan
<1>8. ASSUME NEW r \in Requests, AcquireStale(r)
      PROVE  TypeOK'
  <2>1. request' \in [Requests -> RequestType]
    BY <1>8 DEF AcquireStale, Fail, Returned, RequestType, Errors
  <2>2. Found(r) \in Attempts
    BY <1>8 DEF AcquireStale, Looking, Addressed, RequestsPlaced, Found
  <2>3. entry' \in [Attempts -> EntryType]
    BY <1>8, <2>2, EntryUpdates DEF AcquireStale
  <2> QED
    BY <1>8, <2>1, <2>2, <2>3 DEF AcquireStale
<1>9. ASSUME NEW r \in Requests, AcquireDisconnected(r)
      PROVE  TypeOK'
  <2>1. request' \in [Requests -> RequestType]
    BY <1>9 DEF AcquireDisconnected, Fail, Returned, RequestType, Errors
  <2> QED
    BY <1>9, <2>1 DEF AcquireDisconnected
<1>10. ASSUME NEW r \in Requests, AcquireLease(r)
      PROVE  TypeOK'
  <2>1. Found(r) \in Attempts
    BY <1>10 DEF AcquireLease, Looking, Addressed, RequestsPlaced, Found
  <2>2. Used(Found(r), 1) \in EntryType
    BY <1>10, <2>1, UsedProperties DEF AcquireLease
  <2>3. entry' \in [Attempts -> EntryType]
    BY <1>10, <2>1, <2>2, ScheduleProperties DEF AcquireLease
  <2>4. request' \in [Requests -> RequestType]
    BY <1>10, <2>1, RequestUpdates DEF AcquireLease, Goto
  <2> QED
    BY <1>10, <2>1, <2>2, <2>3, <2>4 DEF AcquireLease
<1>11. ASSUME NEW r \in Requests, AcquireJoin(r)
      PROVE  TypeOK'
  <2>1. request' \in [Requests -> RequestType]
    BY <1>11, RequestUpdates DEF AcquireJoin, Looking, Addressed, RequestsPlaced, Goto, Acquiring
  <2> QED
    BY <1>11, <2>1, RemovalTypes DEF AcquireJoin, removeLocked
<1>12. ASSUME NEW r \in Requests, AcquireLimit(r)
      PROVE  TypeOK'
  <2>1. request' \in [Requests -> RequestType]
    BY <1>12 DEF AcquireLimit, Fail, Returned, RequestType, Errors
  <2> QED
    BY <1>12, <2>1, RemovalTypes DEF AcquireLimit, removeLocked
<1>13. ASSUME NEW r \in Requests, NEW a \in Attempts, AcquireDial(r, a)
      PROVE  TypeOK'
  <2>1. request' \in [Requests -> RequestType]
    BY <1>13, RequestUpdates DEF AcquireDial, Goto, Acquiring
  <2>2. request[r].key \in Keys
    BY <1>13 DEF AcquireDial, Looking, Addressed, RequestsPlaced
  <2>3. attempt' \in [Attempts -> AttemptType]
    BY <1>13, <2>2, RemovalTypes DEF AcquireDial, AttemptType
  <2>4. inflight' \in [Keys -> Attempts \cup {None}]
    BY <1>13, <2>2 DEF AcquireDial
  <2> QED
    BY <1>13, <2>1, <2>2, <2>3, <2>4, RemovalTypes DEF AcquireDial
<1>14. ASSUME NEW r \in Requests, WaitCancelled(r)
      PROVE  TypeOK'
  <2>1. request' \in [Requests -> RequestType]
    BY <1>14 DEF WaitCancelled, Fail, Returned, RequestType, Errors
  <2> QED
    BY <1>14, <2>1 DEF WaitCancelled
<1>15. ASSUME NEW r \in Requests, WaitAttempt(r)
      PROVE  TypeOK'
  <2>1. attempt[request[r].on].err \in {None, "closed", "connect"}
    BY <1>15 DEF WaitAttempt, Addressed, RequestsPlaced, AttemptType
  <2>2. Returned(attempt[request[r].on].err) \in RequestType
    BY <1>15, <2>1 DEF WaitAttempt, Returned, RequestType, Errors
  <2>3. [request[r] EXCEPT !.pc = "start", !.on = None] \in RequestType
    BY <1>15, RequestUpdates DEF WaitAttempt, Acquiring
  <2>4. request' \in [Requests -> RequestType]
    BY <1>15, <2>2, <2>3 DEF WaitAttempt, Goto, Fail
  <2> QED
    BY <1>15, <2>1, <2>2, <2>3, <2>4 DEF WaitAttempt
<1>16. ASSUME NEW r \in Requests, Release(r)
      PROVE  TypeOK'
  <2>1. request[r].on \in Attempts
    BY <1>16 DEF Release, Addressed, RequestsPlaced
  <2>2. Used(request[r].on, -1) \in EntryType
    BY <1>16, <2>1, UsedProperties DEF Release
  <2>3. scheduleLocked(Used(request[r].on, -1)) \in EntryType
    BY <1>16, <2>2, ScheduleProperties DEF Release
  <2>4. request' \in [Requests -> RequestType]
    BY <1>16 DEF Release, Returned, RequestType
  <2>5. entries' \in [Keys -> Attempts \cup {None}] /\ entry' \in [Attempts -> EntryType] /\ attempt' \in [Attempts -> AttemptType]
    BY <1>16, <2>1, <2>3, RemovalTypes DEF Release, removeLocked
  <2> QED
    BY <1>16, <2>1, <2>2, <2>3, <2>4, <2>5 DEF Release
<1>17. ASSUME NEW a \in Attempts, NEW k \in Keys, DialSucceeds(a, k)
      PROVE  TypeOK'
  <2>1. attempt' \in [Attempts -> AttemptType]
    BY <1>17, AttemptUpdates DEF DialSucceeds
  <2>2. attempt[a].owner \in Requests
    BY <1>17 DEF DialSucceeds, Addressed, DialsRegistered, Connecting
  <2>3. tracker' \in [Requests -> TrackerType]
    BY <1>17, <2>2 DEF DialSucceeds, observe, TrackerType
  <2> QED
    BY <1>17, <2>1, <2>2, <2>3 DEF DialSucceeds
<1>18. ASSUME NEW a \in Attempts, NEW k \in Keys, DialFails(a, k)
      PROVE  TypeOK'
  <2>1. attempt' \in [Attempts -> AttemptType]
    BY <1>18 DEF DialFails, AttemptType
  <2>2. attempt[a].owner \in Requests
    BY <1>18 DEF DialFails, Addressed, DialsRegistered, Connecting
  <2>3. tracker' \in [Requests -> TrackerType]
    BY <1>18, <2>2 DEF DialFails, observe, TrackerType
  <2> QED
    BY <1>18, <2>1, <2>2, <2>3 DEF DialFails
<1>19. ASSUME NEW a \in Attempts, InstallFailed(a)
      PROVE  TypeOK'
  <2>1. attempt' \in [Attempts -> AttemptType]
    BY <1>19 DEF InstallFailed, AttemptType, Discarded
  <2> QED
    BY <1>19, <2>1 DEF InstallFailed, DialReported
<1>20. ASSUME NEW a \in Attempts, InstallStopped(a)
      PROVE  TypeOK'
  <2>1. attempt' \in [Attempts -> AttemptType]
    BY <1>20 DEF InstallStopped, AttemptType, Discarded
  <2> QED
    BY <1>20, <2>1 DEF InstallStopped, DialReported
<1>21. ASSUME NEW a \in Attempts, InstallDuplicate(a)
      PROVE  TypeOK'
  <2>1. attempt' \in [Attempts -> AttemptType]
    BY <1>21 DEF InstallDuplicate, AttemptType, Discarded
  <2> QED
    BY <1>21, <2>1 DEF InstallDuplicate, DialReported
<1>22. ASSUME NEW a \in Attempts, InstallEntry(a)
      PROVE  TypeOK'
  <2>1. attempt[a].owner \in Requests /\ ObservedKey(a) \in Keys
    BY <1>22 DEF InstallEntry, ObservedKey, Addressed, DialsRegistered, TrackersKnown, Connecting
  <2>2. attempt' \in [Attempts -> AttemptType]
    BY <1>22, <2>1, AttemptUpdates DEF InstallEntry
  <2>3. entries' \in [Keys -> Attempts \cup {None}]
    BY <1>22, <2>1 DEF InstallEntry
  <2>4. inflight' \in [Keys -> Attempts \cup {None}]
    BY <1>22 DEF InstallEntry, DialReported
  <2>5. [FreshEntry EXCEPT !.generation = tracker[attempt[a].owner].generation] \in EntryType
    BY <1>22, <2>1, FreshEntryType DEF InstallEntry, EntryType, TrackerType
  <2>6. entry' \in [Attempts -> EntryType]
    BY <1>22, <2>5, ScheduleProperties DEF InstallEntry
  <2> QED
    BY <1>22, <2>1, <2>2, <2>3, <2>4, <2>5, <2>6 DEF InstallEntry
<1>23. ASSUME NEW a \in Attempts, TimerFires(a)
      PROVE  TypeOK'
  <2>1. entry[a].callbacks + 1 \in Nat
    BY <1>23 DEF TimerFires, EntryType
  <2>2. entry' \in [Attempts -> EntryType]
    BY <1>23, <2>1, EntryUpdates DEF TimerFires
  <2> QED
    BY <1>23, <2>1, <2>2 DEF TimerFires
<1>24. ASSUME NEW a \in Attempts, expire(a)
      PROVE  TypeOK'
  <2>1. entry[a].callbacks - 1 \in Nat
    BY <1>24 DEF expire, EntryType
  <2>2. [entry[a] EXCEPT !.callbacks = entry[a].callbacks - 1] \in EntryType
    BY <1>24, <2>1, EntryUpdates DEF expire
  <2>3. (entry[a].expired \/ Aged(a)) \in BOOLEAN
    BY <1>24 DEF expire
  <2>4. [[entry[a] EXCEPT !.callbacks = entry[a].callbacks - 1] EXCEPT !.expired = entry[a].expired \/ Aged(a)] \in EntryType
    BY <1>24, <2>2, <2>3, EntryUpdates DEF expire
  <2>5. [FreshEntry EXCEPT !.callbacks = [entry[a] EXCEPT !.callbacks = entry[a].callbacks - 1].callbacks] \in EntryType
    BY <1>24, <2>2, FreshEntryType, EntryUpdates DEF expire, EntryType
  <2>6. entry' \in [Attempts -> EntryType]
    BY <1>24, <2>2, <2>4, <2>5, ScheduleProperties DEF expire
  <2>7. entries' \in [Keys -> Attempts \cup {None}] /\ attempt' \in [Attempts -> AttemptType]
    BY <1>24, RemovalTypes DEF expire
  <2> QED
    BY <1>24, <2>1, <2>2, <2>3, <2>4, <2>5, <2>6, <2>7 DEF expire
<1>25. ASSUME NEW a \in Attempts, ConnectionLost(a)
      PROVE  TypeOK'
  <2>1. attempt' \in [Attempts -> AttemptType]
    BY <1>25 DEF ConnectionLost, AttemptType
  <2> QED
    BY <1>25, <2>1 DEF ConnectionLost
<1>26. ASSUME NEW a \in Attempts, NEW k \in Keys, NEW restored \in BOOLEAN, Reconnect(a, k, restored)
      PROVE  TypeOK'
  <2>1. attempt' \in [Attempts -> AttemptType]
    BY <1>26, AttemptUpdates DEF Reconnect
  <2>2. attempt[a].owner \in Requests
    BY <1>26 DEF Reconnect, Addressed, NoLeak, InPool, EntriesAddressed, DialsRegistered, Connecting, AttemptType
  <2>3. tracker' \in [Requests -> TrackerType]
    BY <1>26, <2>2 DEF Reconnect, observe, TrackerType
  <2> QED
    BY <1>26, <2>1, <2>2, <2>3 DEF Reconnect
<1>27. ASSUME NEW a \in Attempts, ReconnectsExhausted(a)
      PROVE  TypeOK'
  <2>1. attempt' \in [Attempts -> AttemptType]
    BY <1>27 DEF ReconnectsExhausted, AttemptType
  <2> QED
    BY <1>27, <2>1 DEF ReconnectsExhausted
<1>28. CASE close
  BY <1>28, RemovalTypes DEF close, removeLocked
<1>29. CASE Tick
  <2>1. entry' \in [Attempts -> EntryType]
    BY <1>29, ElapsedProperties DEF Tick
  <2> QED
    BY <1>29, <2>1 DEF Tick
<1>30. CASE UNCHANGED vars
  BY <1>30 DEF vars
<1> QED
  BY <1>1, <1>2, <1>3, <1>4, <1>5, <1>6, <1>7, <1>8, <1>9, <1>10, <1>11, <1>12, <1>13, <1>14, <1>15, <1>16, <1>17, <1>18, <1>19, <1>20, <1>21, <1>22, <1>23, <1>24, <1>25, <1>26, <1>27, <1>28, <1>29, <1>30 DEF Next, RequestStep, Install, Dial, Library

----------------------------------------------------------------------------
(* Every step preserves the addressing.                                    *)

\* Whatever acquire removes to make room was in the pool.
LEMMA RoomIsPooled ==
    ASSUME Core, NEW r \in Requests, Looking(r)
    PROVE  /\ Dead(r) \subseteq {a \in Attempts : InPool(a)}
           /\ MadeRoom(r) \subseteq {a \in Attempts : InPool(a)}
<1>1. request[r].key \in Keys
  BY DEF Core, Addressed, RequestsPlaced, Looking
<1>2. Dead(r) \subseteq {a \in Attempts : InPool(a)}
  BY <1>1, PoolAssumption DEF Core, TypeOK, Addressed, EntriesAddressed, Dead, Found, InPool
<1> QED
  BY <1>2 DEF MadeRoom, evictIdleLocked

\* Every step keeps the objects that the pool, the callers and the dials refer
\* to in the states these references rely on.
LEMMA AddressedStep ==
    ASSUME Core, [Next]_vars
    PROVE  Addressed'
<1> USE PoolAssumption DEF Core, TypeOK, Addressed, AttemptType, RequestType, Connecting, InPool
<1>1. ASSUME NEW r \in Requests, NEW k \in Keys, Begin(r, k)
      PROVE  Addressed'
  <2>1. RequestsPlaced'
    BY <1>1 DEF Begin, RequestsPlaced, MutexHeld
  <2>2. TrackersKnown'
    BY <1>1 DEF Begin, TrackersKnown
  <2>3. MutexHeld'
    BY <1>1 DEF Begin, MutexHeld
  <2>4. EntriesAddressed' /\ InflightAddressed' /\ DialsRegistered' /\ NoLeak'
    BY <1>1 DEF Begin, EntriesAddressed, InflightAddressed, DialsRegistered, NoLeak
  <2> QED
    BY <2>1, <2>2, <2>3, <2>4
<1>2. ASSUME NEW r \in Requests, ContextDone(r)
      PROVE  Addressed'
  <2>1. RequestsPlaced'
    BY <1>2 DEF ContextDone, Acquiring, RequestsPlaced, MutexHeld
  <2>2. TrackersKnown'
    BY <1>2 DEF ContextDone, Acquiring, TrackersKnown
  <2>3. MutexHeld'
    BY <1>2 DEF ContextDone, Acquiring, MutexHeld
  <2>4. EntriesAddressed' /\ InflightAddressed' /\ DialsRegistered' /\ NoLeak'
    BY <1>2 DEF ContextDone, EntriesAddressed, InflightAddressed, DialsRegistered, NoLeak
  <2> QED
    BY <2>1, <2>2, <2>3, <2>4
<1>3. ASSUME NEW r \in Requests, AcquireCancelled(r)
      PROVE  Addressed'
  <2>1. RequestsPlaced'
    BY <1>3 DEF AcquireCancelled, Fail, Returned, RequestsPlaced, MutexHeld
  <2>2. TrackersKnown'
    BY <1>3 DEF AcquireCancelled, Fail, Returned, TrackersKnown
  <2>3. MutexHeld'
    BY <1>3 DEF AcquireCancelled, Fail, Returned, MutexHeld
  <2>4. EntriesAddressed' /\ InflightAddressed' /\ DialsRegistered' /\ NoLeak'
    BY <1>3 DEF AcquireCancelled, EntriesAddressed, InflightAddressed, DialsRegistered, NoLeak
  <2> QED
    BY <2>1, <2>2, <2>3, <2>4
<1>4. ASSUME NEW r \in Requests, NEW k \in Keys, RefreshIdentity(r, k)
      PROVE  Addressed'
  <2>1. RequestsPlaced'
    BY <1>4 DEF RefreshIdentity, observe, RequestsPlaced, MutexHeld
  <2>2. TrackersKnown'
    BY <1>4 DEF RefreshIdentity, observe, TrackersKnown
  <2>3. MutexHeld'
    BY <1>4 DEF RefreshIdentity, observe, MutexHeld
  <2>4. EntriesAddressed' /\ InflightAddressed' /\ DialsRegistered' /\ NoLeak'
    BY <1>4 DEF RefreshIdentity, EntriesAddressed, InflightAddressed, DialsRegistered, NoLeak
  <2> QED
    BY <2>1, <2>2, <2>3, <2>4
<1>5. ASSUME NEW r \in Requests, RefreshFails(r)
      PROVE  Addressed'
  <2>1. RequestsPlaced'
    BY <1>5 DEF RefreshFails, Fail, Returned, RequestsPlaced, MutexHeld
  <2>2. TrackersKnown'
    BY <1>5 DEF RefreshFails, Fail, Returned, TrackersKnown
  <2>3. MutexHeld'
    BY <1>5 DEF RefreshFails, Fail, Returned, MutexHeld
  <2>4. EntriesAddressed' /\ InflightAddressed' /\ DialsRegistered' /\ NoLeak'
    BY <1>5 DEF RefreshFails, EntriesAddressed, InflightAddressed, DialsRegistered, NoLeak
  <2> QED
    BY <2>1, <2>2, <2>3, <2>4
<1>6. ASSUME NEW r \in Requests, AcquireStopped(r)
      PROVE  Addressed'
  <2>1. RequestsPlaced'
    BY <1>6 DEF AcquireStopped, Fail, Returned, RequestsPlaced, MutexHeld
  <2>2. TrackersKnown'
    BY <1>6 DEF AcquireStopped, Fail, Returned, TrackersKnown
  <2>3. MutexHeld'
    BY <1>6 DEF AcquireStopped, Fail, Returned, MutexHeld
  <2>4. EntriesAddressed' /\ InflightAddressed' /\ DialsRegistered' /\ NoLeak'
    BY <1>6 DEF AcquireStopped, EntriesAddressed, InflightAddressed, DialsRegistered, NoLeak
  <2> QED
    BY <2>1, <2>2, <2>3, <2>4
<1>7. ASSUME NEW r \in Requests, AcquireScan(r)
      PROVE  Addressed'
  <2>1. EntriesAddressed'
    BY <1>7 DEF AcquireScan, RemainingEntries, ClosedConnections, Discarded, EntriesAddressed
  <2>2. InflightAddressed'
    BY <1>7 DEF AcquireScan, RemainingEntries, ClosedConnections, Discarded, InflightAddressed, EntriesAddressed
  <2>3. DialsRegistered'
    BY <1>7 DEF AcquireScan, RemainingEntries, ClosedConnections, Discarded, DialsRegistered, InflightAddressed, EntriesAddressed
  <2>4. RequestsPlaced'
    BY <1>7 DEF AcquireScan, RemainingEntries, ClosedConnections, Discarded, RequestsPlaced, MutexHeld
  <2>5. TrackersKnown'
    BY <1>7 DEF AcquireScan, RemainingEntries, ClosedConnections, Discarded, TrackersKnown
  <2>6. MutexHeld'
    BY <1>7 DEF AcquireScan, RemainingEntries, ClosedConnections, Discarded, MutexHeld
  <2>7. NoLeak'
    BY <1>7 DEF AcquireScan, RemainingEntries, ClosedConnections, Discarded, NoLeak, EntriesAddressed
  <2> QED
    BY <2>1, <2>2, <2>3, <2>4, <2>5, <2>6, <2>7
<1>8. ASSUME NEW r \in Requests, AcquireStale(r)
      PROVE  Addressed'
  <2>1. RequestsPlaced'
    BY <1>8 DEF AcquireStale, Fail, Returned, Looking, RequestsPlaced, MutexHeld
  <2>2. TrackersKnown'
    BY <1>8 DEF AcquireStale, Fail, Returned, Looking, TrackersKnown
  <2>3. MutexHeld'
    BY <1>8 DEF AcquireStale, Fail, Returned, Looking, MutexHeld
  <2>4. EntriesAddressed' /\ InflightAddressed' /\ DialsRegistered' /\ NoLeak'
    BY <1>8 DEF AcquireStale, EntriesAddressed, InflightAddressed, DialsRegistered, NoLeak
  <2> QED
    BY <2>1, <2>2, <2>3, <2>4
<1>9. ASSUME NEW r \in Requests, AcquireDisconnected(r)
      PROVE  Addressed'
  <2>1. RequestsPlaced'
    BY <1>9 DEF AcquireDisconnected, Fail, Returned, Looking, RequestsPlaced, MutexHeld
  <2>2. TrackersKnown'
    BY <1>9 DEF AcquireDisconnected, Fail, Returned, Looking, TrackersKnown
  <2>3. MutexHeld'
    BY <1>9 DEF AcquireDisconnected, Fail, Returned, Looking, MutexHeld
  <2>4. EntriesAddressed' /\ InflightAddressed' /\ DialsRegistered' /\ NoLeak'
    BY <1>9 DEF AcquireDisconnected, EntriesAddressed, InflightAddressed, DialsRegistered, NoLeak
  <2> QED
    BY <2>1, <2>2, <2>3, <2>4
<1>10. ASSUME NEW r \in Requests, AcquireLease(r)
      PROVE  Addressed'
  <2>1. RequestsPlaced'
    BY <1>10 DEF AcquireLease, Looking, Goto, Found, RequestsPlaced, MutexHeld, EntriesAddressed
  <2>2. TrackersKnown'
    BY <1>10 DEF AcquireLease, Looking, Goto, Found, TrackersKnown
  <2>3. MutexHeld'
    BY <1>10 DEF AcquireLease, Looking, Goto, Found, MutexHeld
  <2>4. EntriesAddressed' /\ InflightAddressed' /\ DialsRegistered' /\ NoLeak'
    BY <1>10 DEF AcquireLease, EntriesAddressed, InflightAddressed, DialsRegistered, NoLeak
  <2> QED
    BY <2>1, <2>2, <2>3, <2>4
<1>11. ASSUME NEW r \in Requests, AcquireJoin(r)
      PROVE  Addressed'
  <2>1. EntriesAddressed'
    BY <1>11 DEF AcquireJoin, Looking, Goto, removeLocked, RemainingEntries, ClosedConnections, Discarded, EntriesAddressed
  <2>2. InflightAddressed'
    BY <1>11, RoomIsPooled DEF AcquireJoin, Looking, Goto, removeLocked, RemainingEntries, ClosedConnections, Discarded, InflightAddressed, EntriesAddressed
  <2>3. DialsRegistered'
    BY <1>11 DEF AcquireJoin, Looking, Goto, removeLocked, RemainingEntries, ClosedConnections, Discarded, DialsRegistered, InflightAddressed, EntriesAddressed
  <2>4. RequestsPlaced'
    BY <1>11 DEF AcquireJoin, Looking, Goto, removeLocked, RemainingEntries, ClosedConnections, Discarded, RequestsPlaced, MutexHeld, InflightAddressed
  <2>5. TrackersKnown'
    BY <1>11 DEF AcquireJoin, Looking, Goto, removeLocked, RemainingEntries, ClosedConnections, Discarded, TrackersKnown
  <2>6. MutexHeld'
    BY <1>11 DEF AcquireJoin, Looking, Goto, removeLocked, RemainingEntries, ClosedConnections, Discarded, MutexHeld
  <2>7. NoLeak'
    BY <1>11 DEF AcquireJoin, Looking, Goto, removeLocked, RemainingEntries, ClosedConnections, Discarded, NoLeak, EntriesAddressed
  <2> QED
    BY <2>1, <2>2, <2>3, <2>4, <2>5, <2>6, <2>7
<1>12. ASSUME NEW r \in Requests, AcquireLimit(r)
      PROVE  Addressed'
  <2>1. EntriesAddressed'
    BY <1>12 DEF AcquireLimit, Looking, Fail, Returned, removeLocked, RemainingEntries, ClosedConnections, Discarded, EntriesAddressed
  <2>2. InflightAddressed'
    BY <1>12, RoomIsPooled DEF AcquireLimit, Looking, Fail, Returned, removeLocked, RemainingEntries, ClosedConnections, Discarded, InflightAddressed, EntriesAddressed
  <2>3. DialsRegistered'
    BY <1>12 DEF AcquireLimit, Looking, Fail, Returned, removeLocked, RemainingEntries, ClosedConnections, Discarded, DialsRegistered, InflightAddressed, EntriesAddressed
  <2>4. RequestsPlaced'
    BY <1>12 DEF AcquireLimit, Looking, Fail, Returned, removeLocked, RemainingEntries, ClosedConnections, Discarded, RequestsPlaced, MutexHeld
  <2>5. TrackersKnown'
    BY <1>12 DEF AcquireLimit, Looking, Fail, Returned, removeLocked, RemainingEntries, ClosedConnections, Discarded, TrackersKnown
  <2>6. MutexHeld'
    BY <1>12 DEF AcquireLimit, Looking, Fail, Returned, removeLocked, RemainingEntries, ClosedConnections, Discarded, MutexHeld
  <2>7. NoLeak'
    BY <1>12 DEF AcquireLimit, Looking, Fail, Returned, removeLocked, RemainingEntries, ClosedConnections, Discarded, NoLeak, EntriesAddressed
  <2> QED
    BY <2>1, <2>2, <2>3, <2>4, <2>5, <2>6, <2>7
<1>13. ASSUME NEW r \in Requests, NEW a \in Attempts, AcquireDial(r, a)
      PROVE  Addressed'
  <2>1. EntriesAddressed'
    BY <1>13 DEF AcquireDial, Looking, Goto, Reusable, RemainingEntries, ClosedConnections, Discarded, EntriesAddressed, RequestsPlaced
  <2>2. InflightAddressed'
    BY <1>13, RoomIsPooled DEF AcquireDial, Looking, Goto, Reusable, RemainingEntries, ClosedConnections, Discarded, InflightAddressed, RequestsPlaced, EntriesAddressed
  <2>3. DialsRegistered'
    BY <1>13 DEF AcquireDial, Looking, Goto, Reusable, RemainingEntries, ClosedConnections, Discarded, DialsRegistered, InflightAddressed, EntriesAddressed, RequestsPlaced
  <2>4. RequestsPlaced'
    BY <1>13 DEF AcquireDial, Looking, Goto, Reusable, RemainingEntries, ClosedConnections, Discarded, RequestsPlaced, MutexHeld
  <2>5. TrackersKnown'
    BY <1>13 DEF AcquireDial, Looking, Goto, Reusable, RemainingEntries, ClosedConnections, Discarded, TrackersKnown
  <2>6. MutexHeld'
    BY <1>13 DEF AcquireDial, Looking, Goto, Reusable, RemainingEntries, ClosedConnections, Discarded, MutexHeld
  <2>7. NoLeak'
    BY <1>13 DEF AcquireDial, Looking, Goto, Reusable, RemainingEntries, ClosedConnections, Discarded, NoLeak, EntriesAddressed, RequestsPlaced
  <2> QED
    BY <2>1, <2>2, <2>3, <2>4, <2>5, <2>6, <2>7
<1>14. ASSUME NEW r \in Requests, WaitCancelled(r)
      PROVE  Addressed'
  <2>1. RequestsPlaced'
    BY <1>14 DEF WaitCancelled, Fail, Returned, RequestsPlaced, MutexHeld
  <2>2. TrackersKnown'
    BY <1>14 DEF WaitCancelled, Fail, Returned, TrackersKnown
  <2>3. MutexHeld'
    BY <1>14 DEF WaitCancelled, Fail, Returned, MutexHeld
  <2>4. EntriesAddressed' /\ InflightAddressed' /\ DialsRegistered' /\ NoLeak'
    BY <1>14 DEF WaitCancelled, EntriesAddressed, InflightAddressed, DialsRegistered, NoLeak
  <2> QED
    BY <2>1, <2>2, <2>3, <2>4
<1>15. ASSUME NEW r \in Requests, WaitAttempt(r)
      PROVE  Addressed'
  <2>1. RequestsPlaced'
    <3>1. CASE attempt[request[r].on].err # None
      BY <1>15, <3>1 DEF WaitAttempt, Fail, Returned, RequestsPlaced, MutexHeld
    <3>2. CASE attempt[request[r].on].err = None
      <4>1. request' = [request EXCEPT ![r] = [request[r] EXCEPT !.pc = "start", !.on = None]]
        BY <1>15, <3>2 DEF WaitAttempt, Goto
      <4>2. request[r].pc = "waiting" /\ UNCHANGED <<attempt, tracker, mu>>
        BY <1>15 DEF WaitAttempt
      <4> QED
        BY <4>1, <4>2 DEF RequestsPlaced, MutexHeld
    <3> QED
      BY <3>1, <3>2
  <2>2. TrackersKnown'
    <3>1. CASE attempt[request[r].on].err # None
      BY <1>15, <3>1 DEF WaitAttempt, Fail, Returned, TrackersKnown
    <3>2. CASE attempt[request[r].on].err = None
      <4>1. request' = [request EXCEPT ![r] = [request[r] EXCEPT !.pc = "start", !.on = None]]
        BY <1>15, <3>2 DEF WaitAttempt, Goto
      <4>2. request[r].pc = "waiting" /\ UNCHANGED <<attempt, tracker, mu>>
        BY <1>15 DEF WaitAttempt
      <4> QED
        BY <4>1, <4>2 DEF TrackersKnown
    <3> QED
      BY <3>1, <3>2
  <2>3. MutexHeld'
    <3>1. CASE attempt[request[r].on].err # None
      BY <1>15, <3>1 DEF WaitAttempt, Fail, Returned, MutexHeld
    <3>2. CASE attempt[request[r].on].err = None
      <4>1. request' = [request EXCEPT ![r] = [request[r] EXCEPT !.pc = "start", !.on = None]]
        BY <1>15, <3>2 DEF WaitAttempt, Goto
      <4>2. request[r].pc = "waiting" /\ UNCHANGED <<attempt, tracker, mu>>
        BY <1>15 DEF WaitAttempt
      <4> QED
        BY <4>1, <4>2 DEF MutexHeld
    <3> QED
      BY <3>1, <3>2
  <2>4. EntriesAddressed' /\ InflightAddressed' /\ DialsRegistered' /\ NoLeak'
    BY <1>15 DEF WaitAttempt, EntriesAddressed, InflightAddressed, DialsRegistered, NoLeak
  <2> QED
    BY <2>1, <2>2, <2>3, <2>4
<1>16. ASSUME NEW r \in Requests, Release(r)
      PROVE  Addressed'
  <2>1. EntriesAddressed'
    BY <1>16 DEF Release, Returned, removeLocked, RemainingEntries, ClosedConnections, Discarded, EntriesAddressed, RequestsPlaced
  <2>2. InflightAddressed'
    BY <1>16 DEF Release, Returned, removeLocked, RemainingEntries, ClosedConnections, Discarded, InflightAddressed, RequestsPlaced, EntriesAddressed
  <2>3. DialsRegistered'
    BY <1>16 DEF Release, Returned, removeLocked, RemainingEntries, ClosedConnections, Discarded, DialsRegistered, InflightAddressed, EntriesAddressed, RequestsPlaced
  <2>4. RequestsPlaced'
    BY <1>16 DEF Release, Returned, removeLocked, RemainingEntries, ClosedConnections, Discarded, RequestsPlaced, MutexHeld
  <2>5. TrackersKnown'
    BY <1>16 DEF Release, Returned, removeLocked, RemainingEntries, ClosedConnections, Discarded, TrackersKnown
  <2>6. MutexHeld'
    BY <1>16 DEF Release, Returned, removeLocked, RemainingEntries, ClosedConnections, Discarded, MutexHeld
  <2>7. NoLeak'
    BY <1>16 DEF Release, Returned, removeLocked, RemainingEntries, ClosedConnections, Discarded, NoLeak, EntriesAddressed, RequestsPlaced
  <2> QED
    BY <2>1, <2>2, <2>3, <2>4, <2>5, <2>6, <2>7
<1>17. ASSUME NEW a \in Attempts, NEW k \in Keys, DialSucceeds(a, k)
      PROVE  Addressed'
  <2>1. EntriesAddressed'
    BY <1>17 DEF DialSucceeds, observe, EntriesAddressed
  <2>2. InflightAddressed'
    BY <1>17 DEF DialSucceeds, observe, InflightAddressed
  <2>3. DialsRegistered'
    BY <1>17 DEF DialSucceeds, observe, DialsRegistered, InflightAddressed, EntriesAddressed
  <2>4. RequestsPlaced'
    BY <1>17 DEF DialSucceeds, observe, RequestsPlaced, MutexHeld
  <2>5. TrackersKnown'
    BY <1>17 DEF DialSucceeds, observe, TrackersKnown, DialsRegistered
  <2>6. NoLeak'
    BY <1>17 DEF DialSucceeds, observe, NoLeak, EntriesAddressed
  <2>7. MutexHeld'
    BY <1>17 DEF DialSucceeds, MutexHeld
  <2> QED
    BY <2>1, <2>2, <2>3, <2>4, <2>5, <2>6, <2>7
<1>18. ASSUME NEW a \in Attempts, NEW k \in Keys, DialFails(a, k)
      PROVE  Addressed'
  <2>1. EntriesAddressed'
    BY <1>18 DEF DialFails, observe, EntriesAddressed
  <2>2. InflightAddressed'
    BY <1>18 DEF DialFails, observe, InflightAddressed
  <2>3. DialsRegistered'
    BY <1>18 DEF DialFails, observe, DialsRegistered, InflightAddressed, EntriesAddressed
  <2>4. RequestsPlaced'
    BY <1>18 DEF DialFails, observe, RequestsPlaced, MutexHeld
  <2>5. TrackersKnown'
    BY <1>18 DEF DialFails, observe, TrackersKnown, DialsRegistered
  <2>6. NoLeak'
    BY <1>18 DEF DialFails, observe, NoLeak, EntriesAddressed
  <2>7. MutexHeld'
    BY <1>18 DEF DialFails, MutexHeld
  <2> QED
    BY <2>1, <2>2, <2>3, <2>4, <2>5, <2>6, <2>7
<1>19. ASSUME NEW a \in Attempts, InstallFailed(a)
      PROVE  Addressed'
  <2>1. EntriesAddressed'
    BY <1>19 DEF InstallFailed, DialReported, Discarded, EntriesAddressed
  <2>2. InflightAddressed'
    BY <1>19 DEF InstallFailed, DialReported, Discarded, InflightAddressed
  <2>3. DialsRegistered'
    BY <1>19 DEF InstallFailed, DialReported, Discarded, DialsRegistered, InflightAddressed, EntriesAddressed
  <2>4. RequestsPlaced'
    BY <1>19 DEF InstallFailed, DialReported, Discarded, RequestsPlaced, MutexHeld
  <2>5. TrackersKnown'
    BY <1>19 DEF InstallFailed, DialReported, Discarded, TrackersKnown
  <2>6. NoLeak'
    BY <1>19 DEF InstallFailed, DialReported, Discarded, NoLeak, EntriesAddressed
  <2>7. MutexHeld'
    BY <1>19 DEF InstallFailed, MutexHeld
  <2> QED
    BY <2>1, <2>2, <2>3, <2>4, <2>5, <2>6, <2>7
<1>20. ASSUME NEW a \in Attempts, InstallStopped(a)
      PROVE  Addressed'
  <2>1. EntriesAddressed'
    BY <1>20 DEF InstallStopped, DialReported, Discarded, EntriesAddressed
  <2>2. InflightAddressed'
    BY <1>20 DEF InstallStopped, DialReported, Discarded, InflightAddressed
  <2>3. DialsRegistered'
    BY <1>20 DEF InstallStopped, DialReported, Discarded, DialsRegistered, InflightAddressed, EntriesAddressed
  <2>4. RequestsPlaced'
    BY <1>20 DEF InstallStopped, DialReported, Discarded, RequestsPlaced, MutexHeld
  <2>5. TrackersKnown'
    BY <1>20 DEF InstallStopped, DialReported, Discarded, TrackersKnown
  <2>6. NoLeak'
    BY <1>20 DEF InstallStopped, DialReported, Discarded, NoLeak, EntriesAddressed
  <2>7. MutexHeld'
    BY <1>20 DEF InstallStopped, MutexHeld
  <2> QED
    BY <2>1, <2>2, <2>3, <2>4, <2>5, <2>6, <2>7
<1>21. ASSUME NEW a \in Attempts, InstallDuplicate(a)
      PROVE  Addressed'
  <2>1. EntriesAddressed'
    BY <1>21 DEF InstallDuplicate, DialReported, Discarded, EntriesAddressed
  <2>2. InflightAddressed'
    BY <1>21 DEF InstallDuplicate, DialReported, Discarded, InflightAddressed
  <2>3. DialsRegistered'
    BY <1>21 DEF InstallDuplicate, DialReported, Discarded, DialsRegistered, InflightAddressed, EntriesAddressed
  <2>4. RequestsPlaced'
    BY <1>21 DEF InstallDuplicate, DialReported, Discarded, RequestsPlaced, MutexHeld
  <2>5. TrackersKnown'
    BY <1>21 DEF InstallDuplicate, DialReported, Discarded, TrackersKnown
  <2>6. NoLeak'
    BY <1>21 DEF InstallDuplicate, DialReported, Discarded, NoLeak, EntriesAddressed
  <2>7. MutexHeld'
    BY <1>21 DEF InstallDuplicate, MutexHeld
  <2> QED
    BY <2>1, <2>2, <2>3, <2>4, <2>5, <2>6, <2>7
<1>22. ASSUME NEW a \in Attempts, InstallEntry(a)
      PROVE  Addressed'
  <2>1. EntriesAddressed'
    BY <1>22 DEF InstallEntry, DialReported, ObservedKey, EntriesAddressed, DialsRegistered, TrackersKnown
  <2>2. InflightAddressed'
    BY <1>22 DEF InstallEntry, DialReported, ObservedKey, InflightAddressed, EntriesAddressed
  <2>3. DialsRegistered'
    BY <1>22 DEF InstallEntry, DialReported, ObservedKey, DialsRegistered, InflightAddressed, EntriesAddressed
  <2>4. RequestsPlaced'
    BY <1>22 DEF InstallEntry, DialReported, ObservedKey, RequestsPlaced, MutexHeld
  <2>5. TrackersKnown'
    BY <1>22 DEF InstallEntry, DialReported, ObservedKey, TrackersKnown
  <2>6. NoLeak'
    BY <1>22 DEF InstallEntry, DialReported, ObservedKey, NoLeak, EntriesAddressed, DialsRegistered, TrackersKnown
  <2>7. MutexHeld'
    BY <1>22 DEF InstallEntry, MutexHeld
  <2> QED
    BY <2>1, <2>2, <2>3, <2>4, <2>5, <2>6, <2>7
<1>23. ASSUME NEW a \in Attempts, TimerFires(a)
      PROVE  Addressed'
  BY <1>23 DEF TimerFires, EntriesAddressed, InflightAddressed, DialsRegistered, RequestsPlaced, TrackersKnown, MutexHeld, NoLeak
<1>24. ASSUME NEW a \in Attempts, expire(a)
      PROVE  Addressed'
  <2>1. EntriesAddressed'
    BY <1>24 DEF expire, RemainingEntries, ClosedConnections, Discarded, EntriesAddressed
  <2>2. InflightAddressed'
    BY <1>24 DEF expire, RemainingEntries, ClosedConnections, Discarded, InflightAddressed, EntriesAddressed
  <2>3. DialsRegistered'
    BY <1>24 DEF expire, RemainingEntries, ClosedConnections, Discarded, DialsRegistered, InflightAddressed, EntriesAddressed
  <2>4. RequestsPlaced'
    BY <1>24 DEF expire, RemainingEntries, ClosedConnections, Discarded, RequestsPlaced, MutexHeld
  <2>5. TrackersKnown'
    BY <1>24 DEF expire, RemainingEntries, ClosedConnections, Discarded, TrackersKnown
  <2>6. NoLeak'
    BY <1>24 DEF expire, RemainingEntries, ClosedConnections, Discarded, NoLeak, EntriesAddressed
  <2>7. MutexHeld'
    BY <1>24 DEF expire, MutexHeld
  <2> QED
    BY <2>1, <2>2, <2>3, <2>4, <2>5, <2>6, <2>7
<1>25. ASSUME NEW a \in Attempts, ConnectionLost(a)
      PROVE  Addressed'
  <2>1. EntriesAddressed'
    BY <1>25 DEF ConnectionLost, EntriesAddressed
  <2>2. InflightAddressed'
    BY <1>25 DEF ConnectionLost, InflightAddressed
  <2>3. DialsRegistered'
    BY <1>25 DEF ConnectionLost, DialsRegistered, InflightAddressed, EntriesAddressed
  <2>4. RequestsPlaced'
    BY <1>25 DEF ConnectionLost, RequestsPlaced, MutexHeld
  <2>5. TrackersKnown'
    BY <1>25 DEF ConnectionLost, TrackersKnown
  <2>6. NoLeak'
    BY <1>25 DEF ConnectionLost, NoLeak, EntriesAddressed
  <2>7. MutexHeld'
    BY <1>25 DEF ConnectionLost, MutexHeld
  <2> QED
    BY <2>1, <2>2, <2>3, <2>4, <2>5, <2>6, <2>7
<1>26. ASSUME NEW a \in Attempts, NEW k \in Keys, NEW restored \in BOOLEAN, Reconnect(a, k, restored)
      PROVE  Addressed'
  <2>1. EntriesAddressed'
    BY <1>26 DEF Reconnect, observe, EntriesAddressed
  <2>2. InflightAddressed'
    BY <1>26 DEF Reconnect, observe, InflightAddressed
  <2>3. DialsRegistered'
    BY <1>26 DEF Reconnect, observe, DialsRegistered, InflightAddressed, EntriesAddressed
  <2>4. RequestsPlaced'
    BY <1>26 DEF Reconnect, observe, RequestsPlaced, MutexHeld
  <2>5. TrackersKnown'
    BY <1>26 DEF Reconnect, observe, TrackersKnown
  <2>6. NoLeak'
    BY <1>26 DEF Reconnect, observe, NoLeak, EntriesAddressed
  <2>7. MutexHeld'
    BY <1>26 DEF Reconnect, MutexHeld
  <2> QED
    BY <2>1, <2>2, <2>3, <2>4, <2>5, <2>6, <2>7
<1>27. ASSUME NEW a \in Attempts, ReconnectsExhausted(a)
      PROVE  Addressed'
  <2>1. EntriesAddressed'
    BY <1>27 DEF ReconnectsExhausted, EntriesAddressed
  <2>2. InflightAddressed'
    BY <1>27 DEF ReconnectsExhausted, InflightAddressed
  <2>3. DialsRegistered'
    BY <1>27 DEF ReconnectsExhausted, DialsRegistered, InflightAddressed, EntriesAddressed
  <2>4. RequestsPlaced'
    BY <1>27 DEF ReconnectsExhausted, RequestsPlaced, MutexHeld
  <2>5. TrackersKnown'
    BY <1>27 DEF ReconnectsExhausted, TrackersKnown
  <2>6. NoLeak'
    BY <1>27 DEF ReconnectsExhausted, NoLeak, EntriesAddressed
  <2>7. MutexHeld'
    BY <1>27 DEF ReconnectsExhausted, MutexHeld
  <2> QED
    BY <2>1, <2>2, <2>3, <2>4, <2>5, <2>6, <2>7
<1>28. CASE close
  <2>1. EntriesAddressed'
    BY <1>28 DEF close, removeLocked, RemainingEntries, ClosedConnections, Discarded, EntriesAddressed
  <2>2. InflightAddressed'
    BY <1>28 DEF close, removeLocked, RemainingEntries, ClosedConnections, Discarded, InflightAddressed, EntriesAddressed
  <2>3. DialsRegistered'
    BY <1>28 DEF close, removeLocked, RemainingEntries, ClosedConnections, Discarded, DialsRegistered, InflightAddressed, EntriesAddressed
  <2>4. RequestsPlaced'
    BY <1>28 DEF close, removeLocked, RemainingEntries, ClosedConnections, Discarded, RequestsPlaced, MutexHeld
  <2>5. TrackersKnown'
    BY <1>28 DEF close, removeLocked, RemainingEntries, ClosedConnections, Discarded, TrackersKnown
  <2>6. NoLeak'
    BY <1>28 DEF close, removeLocked, RemainingEntries, ClosedConnections, Discarded, NoLeak, EntriesAddressed
  <2>7. MutexHeld'
    BY <1>28 DEF close, MutexHeld
  <2> QED
    BY <2>1, <2>2, <2>3, <2>4, <2>5, <2>6, <2>7
<1>29. CASE Tick
  BY <1>29 DEF Tick, EntriesAddressed, InflightAddressed, DialsRegistered, RequestsPlaced, TrackersKnown, MutexHeld, NoLeak
<1>30. CASE UNCHANGED vars
  BY <1>30 DEF vars, EntriesAddressed, InflightAddressed, DialsRegistered, RequestsPlaced, TrackersKnown, MutexHeld, NoLeak
<1> QED
  BY <1>1, <1>2, <1>3, <1>4, <1>5, <1>6, <1>7, <1>8, <1>9, <1>10, <1>11, <1>12, <1>13, <1>14, <1>15, <1>16, <1>17, <1>18, <1>19, <1>20, <1>21, <1>22, <1>23, <1>24, <1>25, <1>26, <1>27, <1>28, <1>29, <1>30 DEF Next, RequestStep, Install, Dial, Library

----------------------------------------------------------------------------
(* Most steps do not touch the entries or the leases.                      *)

\* No lease is granted or given back.
LeasesKept ==
    \A r \in Requests :
        /\ request'[r].pc = "leased" <=> request[r].pc = "leased"
        /\ request[r].pc = "leased" =>
            request'[r].on = request[r].on /\ request'[r].key = request[r].key

\* A step that leaves the pool, the entries and every lease as they are.
Quiet ==
    /\ UNCHANGED <<entries, inflight, stopping, entry>>
    /\ \A a \in Attempts : attempt'[a].key = attempt[a].key
    /\ LeasesKept

\* The steps of the specification that are quiet.
QuietNext ==
    \/ \E r \in Requests :
        \/ \E k \in Keys : Begin(r, k) \/ RefreshIdentity(r, k)
        \/ ContextDone(r)
        \/ AcquireCancelled(r)
        \/ RefreshFails(r)
        \/ AcquireStopped(r)
        \/ AcquireDisconnected(r)
        \/ WaitCancelled(r)
        \/ WaitAttempt(r)
    \/ \E a \in Attempts : Dial(a) \/ Library(a)
    \/ UNCHANGED vars

\* The steps that change the pool, an entry or a lease.
PoolNext ==
    \/ \E r \in Requests :
        \/ AcquireScan(r)
        \/ AcquireStale(r)
        \/ AcquireLease(r)
        \/ AcquireJoin(r)
        \/ AcquireLimit(r)
        \/ \E a \in Attempts : AcquireDial(r, a)
        \/ Release(r)
    \/ \E a \in Attempts : Install(a) \/ TimerFires(a) \/ expire(a)
    \/ close
    \/ Tick

\* A step changes the pool, an entry or a lease, or it is quiet.
LEMMA NextSplit ==
    ASSUME [Next]_vars
    PROVE  QuietNext \/ PoolNext
  BY DEF Next, RequestStep, QuietNext, PoolNext

\* No step of QuietNext disturbs an entry or a lease.
LEMMA QuietSteps ==
    ASSUME Core, QuietNext
    PROVE  Quiet
<1> USE DEF Core, TypeOK, Quiet, LeasesKept
<1>1. ASSUME NEW r \in Requests, NEW k \in Keys, Begin(r, k)
      PROVE  Quiet
  BY <1>1 DEF Begin
<1>2. ASSUME NEW r \in Requests, NEW k \in Keys, RefreshIdentity(r, k)
      PROVE  Quiet
  BY <1>2 DEF RefreshIdentity, RequestType
<1>3. ASSUME NEW r \in Requests, ContextDone(r)
      PROVE  Quiet
  BY <1>3 DEF ContextDone, RequestType
<1>4. ASSUME NEW r \in Requests, AcquireCancelled(r)
      PROVE  Quiet
  BY <1>4 DEF AcquireCancelled, Fail, Returned
<1>5. ASSUME NEW r \in Requests, RefreshFails(r)
      PROVE  Quiet
  BY <1>5 DEF RefreshFails, Fail, Returned
<1>6. ASSUME NEW r \in Requests, AcquireStopped(r)
      PROVE  Quiet
  BY <1>6 DEF AcquireStopped, Fail, Returned
<1>7. ASSUME NEW r \in Requests, AcquireDisconnected(r)
      PROVE  Quiet
  BY <1>7 DEF AcquireDisconnected, Looking, Fail, Returned
<1>8. ASSUME NEW r \in Requests, WaitCancelled(r)
      PROVE  Quiet
  BY <1>8 DEF WaitCancelled, Fail, Returned
<1>9. ASSUME NEW r \in Requests, WaitAttempt(r)
      PROVE  Quiet
  <2>1. CASE attempt[request[r].on].err # None
    BY <1>9, <2>1 DEF WaitAttempt, Fail, Returned
  <2>2. CASE attempt[request[r].on].err = None
    BY <1>9, <2>2 DEF WaitAttempt, Goto, RequestType
  <2> QED
    BY <2>1, <2>2
<1>10. ASSUME NEW a \in Attempts, Dial(a)
       PROVE  Quiet
  <2>1. \A x \in AttemptType, k \in Keys :
          [x EXCEPT !.phase = "dialed", !.conn = "connected", !.auth = k].key = x.key
    BY DEF AttemptType
  <2>2. ASSUME NEW k \in Keys, DialSucceeds(a, k)
        PROVE  Quiet
    BY <2>1, <2>2 DEF DialSucceeds
  <2>3. ASSUME NEW k \in Keys, DialFails(a, k)
        PROVE  Quiet
    BY <2>3 DEF DialFails, AttemptType
  <2> QED
    BY <1>10, <2>2, <2>3 DEF Dial
<1>11. ASSUME NEW a \in Attempts, Library(a)
       PROVE  Quiet
  <2>1. \A x \in AttemptType, k \in Keys : [x EXCEPT !.conn = "connected", !.auth = k].key = x.key
    BY DEF AttemptType
  <2>2. CASE ConnectionLost(a)
    BY <2>2 DEF ConnectionLost, AttemptType
  <2>3. ASSUME NEW k \in Keys, NEW restored \in BOOLEAN, Reconnect(a, k, restored)
        PROVE  Quiet
    <3>1. CASE restored
      BY <2>1, <2>3, <3>1 DEF Reconnect
    <3>2. CASE ~restored
      BY <2>3, <3>2 DEF Reconnect
    <3> QED
      BY <3>1, <3>2
  <2>4. CASE ReconnectsExhausted(a)
    BY <2>4 DEF ReconnectsExhausted, AttemptType
  <2> QED
    BY <1>11, <2>2, <2>3, <2>4 DEF Library
<1>12. CASE UNCHANGED vars
  BY <1>12 DEF vars
<1> QED
  BY <1>1, <1>2, <1>3, <1>4, <1>5, <1>6, <1>7, <1>8, <1>9, <1>10, <1>11, <1>12 DEF QuietNext

----------------------------------------------------------------------------
(* Counting holders and keys.                                              *)

\* Holders and keys are finite sets.
LEMMA FiniteCounts ==
    /\ \A a : IsFiniteSet(Holders(a)) /\ IsFiniteSet(Holders(a)')
    /\ IsFiniteSet(EntryKeys) /\ IsFiniteSet(InflightKeys)
    /\ IsFiniteSet(EntryKeys') /\ IsFiniteSet(InflightKeys')
<1>1. ASSUME NEW a
      PROVE  Holders(a) \subseteq Requests /\ Holders(a)' \subseteq Requests
  BY DEF Holders
<1>2. EntryKeys \subseteq Keys /\ InflightKeys \subseteq Keys
      /\ EntryKeys' \subseteq Keys /\ InflightKeys' \subseteq Keys
  BY DEF EntryKeys, InflightKeys
<1> QED
  BY <1>1, <1>2, FS_Subset, PoolAssumption

\* An entry without references has no holder.
LEMMA UnreferencedUnheld ==
    ASSUME ReferencesExact, NEW a \in Attempts, InPool(a), Unreferenced(a)
    PROVE  Holders(a) = {}
<1>1. Cardinality(Holders(a)) = 0
  BY DEF ReferencesExact, Unreferenced
<1> QED
  BY <1>1, FiniteCounts, FS_EmptySet

\* An entry whose only reference is the lease of r is held by r alone.
LEMMA SoleHolder ==
    ASSUME ReferencesExact, NEW a \in Attempts, InPool(a), entry[a].references = 1,
           NEW r \in Holders(a)
    PROVE  Holders(a) = {r}
<1>1. Cardinality(Holders(a)) = 1
  BY DEF ReferencesExact
<1>2. IsFiniteSet(Holders(a) \ {r}) /\ Cardinality(Holders(a) \ {r}) = 0
  BY <1>1, FiniteCounts, FS_RemoveElement
<1>3. Holders(a) \ {r} = {}
  BY <1>2, FS_EmptySet
<1> QED
  BY <1>3

----------------------------------------------------------------------------
(* Steps that only retire entries nobody holds.                            *)

\* The step removes exactly the entries S, all unreferenced, inserts none and
\* leaves every lease and every reference count alone.
Retires(S) ==
    /\ \A a \in S : InPool(a) /\ Unreferenced(a)
    /\ entries' = RemainingEntries(S)
    /\ stopping' = stopping
    /\ LeasesKept
    /\ \A a \in Attempts : InPool(a)' =>
        InPool(a) /\ entry'[a].references = entry[a].references

\* Such a step keeps leases pooled, the counts exact and a closed pool empty.
LEMMA RetireKeeps ==
    ASSUME Core, Safety, NEW S \in SUBSET Attempts, Retires(S)
    PROVE  LeasedStaysPooled' /\ ReferencesExact' /\ StoppedEmpty'
<1> USE DEF Retires, LeasesKept
<1>1. LeasedStaysPooled'
  <2> SUFFICES ASSUME NEW r \in Requests, request'[r].pc = "leased", ~stopping'
               PROVE  entries'[request'[r].key] = request'[r].on
    BY DEF LeasedStaysPooled
  <2>1. /\ request[r].pc = "leased" /\ request[r].key \in Keys
        /\ entries[request[r].key] = request[r].on
    BY DEF Core, Addressed, RequestsPlaced, Safety, LeasedStaysPooled
  <2>2. r \in Holders(request[r].on)
    BY <2>1 DEF Holders
  <2>3. request[r].on \notin S
    BY <2>2, UnreferencedUnheld DEF Safety
  <2> QED
    BY <2>1, <2>3 DEF RemainingEntries
<1>2. ReferencesExact'
  <2> SUFFICES ASSUME NEW a \in Attempts, InPool(a)'
               PROVE  entry'[a].references = Cardinality(Holders(a)')
    BY DEF ReferencesExact
  <2>1. Holders(a)' = Holders(a)
    BY DEF Holders
  <2> QED
    BY <2>1 DEF Safety, ReferencesExact
<1>3. StoppedEmpty'
  BY DEF Safety, StoppedEmpty, EntryKeys, RemainingEntries
<1> QED
  BY <1>1, <1>2, <1>3

\* removeLocked leaves the other entries where they are.
LEMMA RemovalInPool ==
    ASSUME Core, NEW S \in SUBSET Attempts,
           entries' = RemainingEntries(S), attempt' = ClosedConnections(S)
    PROVE  \A a \in Attempts : InPool(a)' => InPool(a) /\ a \notin S
<1> SUFFICES ASSUME NEW a \in Attempts, InPool(a)'
             PROVE  InPool(a) /\ a \notin S
  OBVIOUS
<1>1. a \notin S
  BY DEF InPool, ClosedConnections, Discarded
<1>2. attempt'[a] = attempt[a] /\ attempt[a].key \in Keys
  BY <1>1 DEF InPool, ClosedConnections, Core, TypeOK, AttemptType
<1> QED
  BY <1>1, <1>2, PoolAssumption DEF InPool, RemainingEntries

\* A step that does not touch the map removes nothing from it.
LEMMA NothingRemoved ==
    ASSUME Core, entries' = entries
    PROVE  entries' = RemainingEntries({})
  BY DEF Core, TypeOK, RemainingEntries

\* What AcquireJoin, AcquireLimit and AcquireDial remove is pooled and
\* unreferenced.
LEMMA RoomIsUnreferenced ==
    ASSUME Core, NEW r \in Requests, Looking(r), Vacant(r)
    PROVE  /\ Dead(r) \in SUBSET Attempts /\ MadeRoom(r) \in SUBSET Attempts
           /\ \A a \in Dead(r) : InPool(a) /\ Unreferenced(a)
           /\ \A a \in MadeRoom(r) : InPool(a) /\ Unreferenced(a)
<1>1. request[r].key \in Keys
  BY DEF Core, Addressed, RequestsPlaced, Looking
<1>2. \A a \in Dead(r) : a \in Attempts /\ InPool(a) /\ Unreferenced(a)
  BY <1>1, PoolAssumption DEF Core, Addressed, EntriesAddressed, Dead, Found, Vacant, InPool
<1>3. \A a \in evictIdleLocked : a \in Attempts /\ InPool(a) /\ Unreferenced(a)
  BY DEF evictIdleLocked
<1> QED
  BY <1>2, <1>3 DEF MadeRoom

\* Neither does the dial that follows a removal: its identifier is not pooled.
LEMMA DialInPool ==
    ASSUME Core, NEW r \in Requests, NEW b \in Attempts, AcquireDial(r, b)
    PROVE  \A a \in Attempts : InPool(a)' => InPool(a) /\ a \notin MadeRoom(r)
<1> SUFFICES ASSUME NEW a \in Attempts, InPool(a)'
             PROVE  InPool(a) /\ a \notin MadeRoom(r)
  OBVIOUS
<1>0. entries' = RemainingEntries(MadeRoom(r)) /\ request[r].key \in Keys
  BY DEF AcquireDial, Core, Addressed, RequestsPlaced, Looking
<1>1. CASE a = b
  <2>1. attempt'[a].key = request[r].key
    BY <1>1 DEF AcquireDial, ClosedConnections
  <2>2. entries[request[r].key] = a
    BY <2>1, <1>0, PoolAssumption DEF InPool, RemainingEntries
  <2>3. InPool(a)
    BY <2>2, <1>0, PoolAssumption DEF Core, Addressed, EntriesAddressed, InPool
  <2> QED
    BY <2>3, <1>1 DEF AcquireDial, Reusable
<1>2. CASE a # b
  <2>1. attempt'[a] = ClosedConnections(MadeRoom(r))[a]
    BY <1>2 DEF AcquireDial, ClosedConnections
  <2>2. a \notin MadeRoom(r)
    BY <2>1 DEF InPool, ClosedConnections, Discarded
  <2>3. attempt'[a] = attempt[a] /\ attempt[a].key \in Keys
    BY <2>1, <2>2 DEF InPool, ClosedConnections, Core, TypeOK, AttemptType
  <2> QED
    BY <2>2, <2>3, <1>0, PoolAssumption DEF InPool, RemainingEntries
<1> QED
  BY <1>1, <1>2

\* Stopping timers leaves the entries that stay untouched.
LEMMA StoppedTimersElsewhere ==
    ASSUME NEW S \in SUBSET Attempts, NEW a \in Attempts, a \notin S
    PROVE  StoppedTimers(S)[a] = entry[a]
  BY DEF StoppedTimers

\* The steps that insert nothing and grant or end no lease.
RetireNext ==
    \/ QuietNext
    \/ \E r \in Requests :
        \/ AcquireScan(r)
        \/ AcquireStale(r)
        \/ AcquireJoin(r)
        \/ AcquireLimit(r)
        \/ \E a \in Attempts : AcquireDial(r, a)
    \/ \E a \in Attempts :
        \/ InstallFailed(a) \/ InstallStopped(a) \/ InstallDuplicate(a)
        \/ TimerFires(a) \/ expire(a)
    \/ Tick

\* These steps take unreferenced entries out of the pool and leave the leases
\* and the other entries alone.
LEMMA RetiringSteps ==
    ASSUME Core, Safety, RetireNext
    PROVE  \E S \in SUBSET Attempts : Retires(S)
<1>1. CASE QuietNext
  <2>1. Quiet
    BY <1>1, QuietSteps
  <2>2. Retires({})
    BY <2>1, NothingRemoved DEF Quiet, Retires, InPool
  <2> QED
    BY <2>2
<1>2. ASSUME NEW r \in Requests, AcquireScan(r)
      PROVE  \E S \in SUBSET Attempts : Retires(S)
  <2> DEFINE changed == {a \in Attempts : InPool(a) /\ IdentityChanged(a)}
             removed == {a \in changed : Unreferenced(a)}
  <2>1. /\ entries' = RemainingEntries(removed) /\ attempt' = ClosedConnections(removed)
        /\ stopping' = stopping
        /\ \A a \in Attempts : entry'[a] = IF a \in changed \ removed
                                          THEN [entry[a] EXCEPT !.expired = TRUE]
                                          ELSE StoppedTimers(removed)[a]
    BY <1>2 DEF AcquireScan
  <2>2. LeasesKept
    BY <1>2 DEF AcquireScan, LeasesKept, Core, TypeOK, RequestType
  <2>3. removed \in SUBSET Attempts /\ \A a \in removed : InPool(a) /\ Unreferenced(a)
    OBVIOUS
  <2> HIDE DEF removed, changed
  <2>4. \A a \in Attempts : InPool(a)' => InPool(a) /\ a \notin removed
    BY <2>1, <2>3, RemovalInPool
  <2>5. \A a \in Attempts : InPool(a)' => entry'[a].references = entry[a].references
    <3> SUFFICES ASSUME NEW a \in Attempts, InPool(a)'
                 PROVE  entry'[a].references = entry[a].references
      OBVIOUS
    <3>1. CASE a \in changed \ removed
      BY <2>1, <3>1 DEF Core, TypeOK, EntryType
    <3>2. CASE a \notin changed \ removed
      BY <2>1, <2>3, <2>4, <3>2, StoppedTimersElsewhere
    <3> QED
      BY <3>1, <3>2
  <2>6. Retires(removed)
    BY <2>1, <2>2, <2>3, <2>4, <2>5 DEF Retires
  <2> QED
    BY <2>3, <2>6
<1>3. ASSUME NEW r \in Requests, AcquireStale(r)
      PROVE  \E S \in SUBSET Attempts : Retires(S)
  <2>1. LeasesKept
    BY <1>3 DEF AcquireStale, Looking, Fail, Returned, LeasesKept, Core, TypeOK
  <2>2. \A a \in Attempts : entry'[a].references = entry[a].references
    BY <1>3 DEF AcquireStale, Core, TypeOK, EntryType
  <2>3. Retires({})
    BY <1>3, <2>1, <2>2, NothingRemoved DEF AcquireStale, Retires, InPool
  <2> QED
    BY <2>3
<1>4. ASSUME NEW r \in Requests, AcquireJoin(r)
      PROVE  \E S \in SUBSET Attempts : Retires(S)
  <2>1. LeasesKept
    BY <1>4 DEF AcquireJoin, Looking, Goto, LeasesKept, Core, TypeOK, RequestType
  <2>2. /\ Dead(r) \in SUBSET Attempts /\ \A a \in Dead(r) : InPool(a) /\ Unreferenced(a)
        /\ removeLocked(Dead(r)) /\ stopping' = stopping
    BY <1>4, RoomIsUnreferenced DEF AcquireJoin
  <2>3. \A a \in Attempts : InPool(a)' => InPool(a) /\ a \notin Dead(r)
    BY <2>2, RemovalInPool DEF removeLocked
  <2>4. Retires(Dead(r))
    BY <2>1, <2>2, <2>3, StoppedTimersElsewhere DEF removeLocked, Retires
  <2> QED
    BY <2>2, <2>4
<1>5. ASSUME NEW r \in Requests, AcquireLimit(r)
      PROVE  \E S \in SUBSET Attempts : Retires(S)
  <2>1. LeasesKept
    BY <1>5 DEF AcquireLimit, Looking, Fail, Returned, LeasesKept, Core, TypeOK
  <2>2. /\ MadeRoom(r) \in SUBSET Attempts
        /\ \A a \in MadeRoom(r) : InPool(a) /\ Unreferenced(a)
        /\ removeLocked(MadeRoom(r)) /\ stopping' = stopping
    BY <1>5, RoomIsUnreferenced DEF AcquireLimit
  <2>3. \A a \in Attempts : InPool(a)' => InPool(a) /\ a \notin MadeRoom(r)
    BY <2>2, RemovalInPool DEF removeLocked
  <2>4. Retires(MadeRoom(r))
    BY <2>1, <2>2, <2>3, StoppedTimersElsewhere DEF removeLocked, Retires
  <2> QED
    BY <2>2, <2>4
<1>6. ASSUME NEW r \in Requests, NEW b \in Attempts, AcquireDial(r, b)
      PROVE  \E S \in SUBSET Attempts : Retires(S)
  <2>1. LeasesKept
    BY <1>6 DEF AcquireDial, Looking, Goto, LeasesKept, Core, TypeOK, RequestType
  <2>2. /\ MadeRoom(r) \in SUBSET Attempts
        /\ \A a \in MadeRoom(r) : InPool(a) /\ Unreferenced(a)
        /\ entries' = RemainingEntries(MadeRoom(r)) /\ entry' = StoppedTimers(MadeRoom(r))
        /\ stopping' = stopping /\ request[r].key \in Keys
    BY <1>6, RoomIsUnreferenced DEF AcquireDial, Core, Addressed, RequestsPlaced, Looking
  <2>3. \A a \in Attempts : InPool(a)' => InPool(a) /\ a \notin MadeRoom(r)
    BY <1>6, DialInPool
  <2>4. Retires(MadeRoom(r))
    BY <2>1, <2>2, <2>3, StoppedTimersElsewhere DEF Retires
  <2> QED
    BY <2>2, <2>4
<1>7. ASSUME NEW b \in Attempts, InstallFailed(b) \/ InstallStopped(b) \/ InstallDuplicate(b)
      PROVE  \E S \in SUBSET Attempts : Retires(S)
  <2>1. /\ UNCHANGED <<entries, stopping, entry, request>>
        /\ \A a \in Attempts : attempt'[a] = attempt[a] \/ attempt'[a].key = None
    BY <1>7 DEF InstallFailed, InstallStopped, InstallDuplicate, Discarded, Core, TypeOK
  <2>2. Retires({})
    BY <2>1, NothingRemoved DEF Retires, LeasesKept, InPool
  <2> QED
    BY <2>2
<1>8. ASSUME NEW b \in Attempts, TimerFires(b)
      PROVE  \E S \in SUBSET Attempts : Retires(S)
  <2>1. \A a \in Attempts : entry'[a].references = entry[a].references
    BY <1>8 DEF TimerFires, Core, TypeOK, EntryType
  <2>2. Retires({})
    BY <1>8, <2>1, NothingRemoved DEF TimerFires, Retires, LeasesKept, InPool
  <2> QED
    BY <2>2
<1>9. ASSUME NEW b \in Attempts, expire(b)
      PROVE  \E S \in SUBSET Attempts : Retires(S)
  <2> DEFINE run == [entry[b] EXCEPT !.callbacks = entry[b].callbacks - 1]
             marked == [run EXCEPT !.expired = entry[b].expired \/ Aged(b)]
  <2>0. entry[b] \in EntryType /\ entry[b].callbacks > 0 /\ LeasesKept /\ stopping' = stopping
    BY <1>9 DEF expire, Core, TypeOK, LeasesKept
  <2>1. run \in EntryType /\ run.references = entry[b].references
    BY <2>0 DEF EntryType
  <2>2. marked \in EntryType /\ marked.references = entry[b].references
    <3> HIDE DEF run
    <3> QED
      BY <2>0, <2>1 DEF EntryType, Aged
  <2>3. CASE ~InPool(b) /\ entry' = [entry EXCEPT ![b] = run] /\ UNCHANGED <<entries, attempt>>
    <3>1. \A a \in Attempts : entry'[a].references = entry[a].references
      BY <2>1, <2>3 DEF Core, TypeOK
    <3>2. Retires({})
      BY <2>0, <2>3, <3>1, NothingRemoved DEF Retires, InPool
    <3> QED
      BY <3>2
  <2>4. CASE /\ InPool(b) /\ ExpireRemoves(b)
             /\ entries' = RemainingEntries({b}) /\ attempt' = ClosedConnections({b})
             /\ entry' = [entry EXCEPT ![b] = [FreshEntry EXCEPT !.callbacks = run.callbacks]]
    <3>1. \A a \in Attempts : InPool(a)' => InPool(a) /\ a # b
      BY <2>4, RemovalInPool
    <3>2. Retires({b})
      BY <2>0, <2>4, <3>1 DEF Retires, ExpireRemoves, Core, TypeOK
    <3> QED
      BY <3>2
  <2>5. CASE /\ entry' = [entry EXCEPT ![b] =
                            IF marked.expired THEN marked ELSE scheduleLocked(marked)]
             /\ UNCHANGED <<entries, attempt>>
    <3>1. (IF marked.expired THEN marked ELSE scheduleLocked(marked)).references
            = entry[b].references
      <4> HIDE DEF marked
      <4> QED
        BY <2>2, ScheduleProperties
    <3> HIDE DEF marked
    <3>2. \A a \in Attempts : entry'[a].references = entry[a].references
      BY <2>5, <3>1 DEF Core, TypeOK
    <3>3. Retires({})
      BY <2>0, <2>5, <3>2, NothingRemoved DEF Retires, InPool
    <3> QED
      BY <3>3
  <2> QED
    BY <1>9, <2>3, <2>4, <2>5 DEF expire
<1>10. CASE Tick
  <2>1. \A a \in Attempts : entry'[a].references = entry[a].references
    BY <1>10, ElapsedProperties DEF Tick, Core, TypeOK
  <2>2. Retires({})
    BY <1>10, <2>1, NothingRemoved DEF Tick, Retires, LeasesKept, InPool
  <2> QED
    BY <2>2
<1> QED
  BY <1>1, <1>2, <1>3, <1>4, <1>5, <1>6, <1>7, <1>8, <1>9, <1>10 DEF RetireNext

----------------------------------------------------------------------------
(* Steps that insert an entry, grant a lease or give one back.             *)

\* A lease is granted on the entry found under the request's key.
LEMMA LeaseKeeps ==
    ASSUME Core, Safety, NEW r \in Requests, AcquireLease(r)
    PROVE  LeasedStaysPooled' /\ ReferencesExact' /\ StoppedEmpty'
<1> DEFINE b == Found(r)
<1>1. /\ b \in Attempts /\ InPool(b) /\ request[r].pc = "scanned" /\ request[r].key \in Keys
      /\ entries[request[r].key] = b
  BY PoolAssumption DEF Core, TypeOK, Addressed, RequestsPlaced, EntriesAddressed, AcquireLease, Looking, Found, InPool
<1>2. /\ UNCHANGED <<entries, attempt, stopping>>
      /\ entry' = [entry EXCEPT ![b] = scheduleLocked(Used(b, 1))]
      /\ request' = [request EXCEPT ![r] = [request[r] EXCEPT !.pc = "leased", !.on = b]]
  BY DEF AcquireLease, Goto
<1> HIDE DEF b
<1>3. /\ request'[r].pc = "leased" /\ request'[r].on = b /\ request'[r].key = request[r].key
      /\ \A q \in Requests : q # r => request'[q] = request[q]
  BY <1>2 DEF Core, TypeOK, RequestType
<1>4. LeasedStaysPooled'
  BY <1>1, <1>2, <1>3 DEF Safety, LeasedStaysPooled
<1>5. ReferencesExact'
  <2> SUFFICES ASSUME NEW a \in Attempts, InPool(a)'
               PROVE  entry'[a].references = Cardinality(Holders(a)')
    BY DEF ReferencesExact
  <2>1. InPool(a) /\ entry[a].references = Cardinality(Holders(a))
    BY <1>2 DEF InPool, Safety, ReferencesExact
  <2>2. CASE a = b
    <3>1. entry'[a].references = entry[a].references + 1
      BY <1>1, <1>2, <2>2, UsedProperties, ScheduleProperties DEF Core, TypeOK
    <3>2. Holders(a)' = Holders(a) \cup {r} /\ r \notin Holders(a)
      BY <1>1, <1>3, <2>2 DEF Holders
    <3> QED
      BY <2>1, <3>1, <3>2, FiniteCounts, FS_AddElement
  <2>3. CASE a # b
    <3>1. entry'[a] = entry[a] /\ Holders(a)' = Holders(a)
      BY <1>1, <1>2, <1>3, <2>3 DEF Holders, Core, TypeOK
    <3> QED
      BY <2>1, <3>1
  <2> QED
    BY <2>2, <2>3
<1>6. StoppedEmpty'
  BY <1>2 DEF Safety, StoppedEmpty, EntryKeys
<1> QED
  BY <1>4, <1>5, <1>6

\* A lease is given back: the entry loses its holder, or goes with it.
LEMMA ReleaseKeeps ==
    ASSUME Core, Safety, NEW r \in Requests, Release(r)
    PROVE  LeasedStaysPooled' /\ ReferencesExact' /\ StoppedEmpty'
<1> DEFINE b == request[r].on
<1>1. request[r].pc = "leased" /\ b \in Attempts /\ request[r].key \in Keys /\ r \in Holders(b)
  BY DEF Core, Addressed, RequestsPlaced, Release, Holders
<1>2. /\ request' = [request EXCEPT ![r] = Returned(None)] /\ stopping' = stopping
      /\ \/ entries[request[r].key] # b /\ UNCHANGED <<entries, attempt, entry>>
         \/ entries[request[r].key] = b /\ LastRelease(b) /\ removeLocked({b})
         \/ /\ entries[request[r].key] = b
            /\ entry' = [entry EXCEPT ![b] = scheduleLocked(Used(b, -1))]
            /\ UNCHANGED <<entries, attempt>>
  BY DEF Release
<1>3. entries[request[r].key] = b => InPool(b)
  BY <1>1, PoolAssumption DEF Core, Addressed, EntriesAddressed, InPool
<1> HIDE DEF b
<1>4. request'[r].pc = "idle" /\ \A q \in Requests : q # r => request'[q] = request[q]
  BY <1>2 DEF Returned, Core, TypeOK
<1>5. CASE entries[request[r].key] # b /\ UNCHANGED <<entries, attempt, entry>>
  <2>1. ~InPool(b)
    <3>1. CASE stopping
      BY <3>1, <1>1, PoolAssumption DEF Safety, StoppedEmpty, EntryKeys, InPool, Core, TypeOK, AttemptType
    <3>2. CASE ~stopping
      BY <3>2, <1>1, <1>5 DEF Safety, LeasedStaysPooled, b
    <3> QED
      BY <3>1, <3>2
  <2>2. LeasedStaysPooled' /\ StoppedEmpty'
    BY <1>2, <1>4, <1>5 DEF Safety, LeasedStaysPooled, StoppedEmpty, EntryKeys
  <2>3. ASSUME NEW a \in Attempts, InPool(a)'
        PROVE  entry'[a].references = Cardinality(Holders(a)')
    <3>1. InPool(a) /\ a # b
      BY <1>5, <2>1, <2>3 DEF InPool
    <3>2. Holders(a)' = Holders(a)
      BY <1>1, <1>4, <3>1 DEF Holders, b
    <3> QED
      BY <1>5, <3>1, <3>2 DEF Safety, ReferencesExact
  <2> QED
    BY <2>2, <2>3 DEF ReferencesExact
<1>6. CASE entries[request[r].key] = b /\ LastRelease(b) /\ removeLocked({b})
  <2>1. Holders(b) = {r}
    BY <1>1, <1>3, <1>6, SoleHolder DEF Safety, LastRelease
  <2>2. \A a \in Attempts : InPool(a)' => InPool(a) /\ a # b
    BY <1>1, <1>6, RemovalInPool DEF removeLocked
  <2>3. ASSUME NEW q \in Requests, request'[q].pc = "leased", ~stopping'
        PROVE  entries'[request'[q].key] = request'[q].on
    <3>1. q # r /\ request'[q] = request[q] /\ request[q].on # b /\ request[q].key \in Keys
      BY <1>4, <2>1, <2>3 DEF Holders, Core, Addressed, RequestsPlaced
    <3>2. entries[request[q].key] = request[q].on
      BY <1>2, <2>3, <3>1 DEF Safety, LeasedStaysPooled
    <3> QED
      BY <1>6, <3>1, <3>2 DEF removeLocked, RemainingEntries
  <2>4. ASSUME NEW a \in Attempts, InPool(a)'
        PROVE  entry'[a].references = Cardinality(Holders(a)')
    <3>1. InPool(a) /\ a # b
      BY <2>2, <2>4
    <3>2. Holders(a)' = Holders(a)
      BY <1>1, <1>4, <3>1 DEF Holders, b
    <3>3. entry'[a] = entry[a]
      BY <1>1, <1>6, <3>1, StoppedTimersElsewhere DEF removeLocked
    <3> QED
      BY <3>1, <3>2, <3>3 DEF Safety, ReferencesExact
  <2>5. StoppedEmpty'
    BY <1>2, <1>6 DEF Safety, StoppedEmpty, EntryKeys, removeLocked, RemainingEntries
  <2> QED
    BY <2>3, <2>4, <2>5 DEF LeasedStaysPooled, ReferencesExact
<1>7. CASE /\ entries[request[r].key] = b
           /\ entry' = [entry EXCEPT ![b] = scheduleLocked(Used(b, -1))]
           /\ UNCHANGED <<entries, attempt>>
  <2>1. LeasedStaysPooled' /\ StoppedEmpty'
    BY <1>2, <1>4, <1>7 DEF Safety, LeasedStaysPooled, StoppedEmpty, EntryKeys
  <2>2. ASSUME NEW a \in Attempts, InPool(a)'
        PROVE  entry'[a].references = Cardinality(Holders(a)')
    <3>1. InPool(a) /\ entry[a].references = Cardinality(Holders(a))
      BY <1>7, <2>2 DEF InPool, Safety, ReferencesExact
    <3>2. CASE a = b
      <4>1. entry'[a].references = entry[a].references + -1
        BY <1>1, <1>7, <3>2, UsedProperties, ScheduleProperties DEF Core, TypeOK
      <4>2. Holders(a)' = Holders(a) \ {r} /\ r \in Holders(a)
        BY <1>1, <1>4, <3>2 DEF Holders
      <4> QED
        BY <3>1, <4>1, <4>2, FiniteCounts, FS_RemoveElement, FS_CardinalityType
    <3>3. CASE a # b
      <4>1. entry'[a] = entry[a] /\ Holders(a)' = Holders(a)
        BY <1>1, <1>4, <1>7, <3>3 DEF Holders, b, Core, TypeOK
      <4> QED
        BY <3>1, <4>1
    <3> QED
      BY <3>2, <3>3
  <2> QED
    BY <2>1, <2>2 DEF ReferencesExact
<1> QED
  BY <1>2, <1>5, <1>6, <1>7

\* An entry is inserted under a free key; nobody can hold it yet.
LEMMA InstallKeeps ==
    ASSUME Core, Safety, NEW b \in Attempts, InstallEntry(b)
    PROVE  LeasedStaysPooled' /\ ReferencesExact' /\ StoppedEmpty'
<1> DEFINE k == ObservedKey(b)
<1>1. /\ k \in Keys /\ entries[k] = None /\ ~stopping /\ Connecting(b)
      /\ entries' = [entries EXCEPT ![k] = b] /\ UNCHANGED <<stopping, request>>
      /\ attempt' = [attempt EXCEPT ![b] = [attempt[b] EXCEPT !.phase = "done", !.key = k]]
      /\ attempt[b].phase = "dialed"
  BY PoolAssumption DEF InstallEntry, ObservedKey, Connecting, Core, Addressed, DialsRegistered, TrackersKnown
<1>2. /\ entry' = [entry EXCEPT ![b] =
            scheduleLocked([FreshEntry EXCEPT !.generation = tracker[attempt[b].owner].generation])]
      /\ tracker[attempt[b].owner].generation \in Nat
  BY <1>1 DEF InstallEntry, Connecting, Core, TypeOK, Addressed, DialsRegistered, TrackerType
<1> HIDE DEF k
<1>3. \A r \in Requests : request[r].pc = "leased" =>
        request[r].on # b /\ request[r].key \in Keys /\ entries[request[r].key] = request[r].on
        /\ request[r].on # None
  BY <1>1, PoolAssumption DEF Core, Addressed, RequestsPlaced, Safety, LeasedStaysPooled
<1>4. LeasedStaysPooled'
  BY <1>1, <1>3 DEF LeasedStaysPooled, Core, TypeOK
<1>5. ASSUME NEW a \in Attempts, InPool(a)'
      PROVE  entry'[a].references = Cardinality(Holders(a)')
  <2>1. Holders(a)' = Holders(a)
    BY <1>1 DEF Holders
  <2>2. CASE a = b
    <3>1. Holders(a) = {}
      BY <1>3, <2>2 DEF Holders
    <3>2. \A n \in Nat : [FreshEntry EXCEPT !.generation = n] \in EntryType
                       /\ [FreshEntry EXCEPT !.generation = n].references = 0
      BY FreshEntryType, EntryUpdates DEF FreshEntry
    <3>3. entry'[a].references = 0
      BY <1>2, <2>2, <3>2, ScheduleProperties DEF Core, TypeOK
    <3> QED
      BY <2>1, <3>1, <3>3, FS_EmptySet
  <2>3. CASE a # b
    <3>1. attempt'[a] = attempt[a] /\ entry'[a] = entry[a] /\ attempt[a].key \in Keys
      BY <1>1, <1>2, <1>5, <2>3 DEF InPool, Core, TypeOK, AttemptType
    <3>2. InPool(a)
      BY <1>1, <1>5, <2>3, <3>1 DEF InPool, Core, TypeOK
    <3> QED
      BY <2>1, <3>1, <3>2 DEF Safety, ReferencesExact
  <2> QED
    BY <2>2, <2>3
<1>6. StoppedEmpty'
  BY <1>1 DEF StoppedEmpty
<1> QED
  BY <1>4, <1>5, <1>6 DEF ReferencesExact

\* close empties the pool; the leases that remain find their entry gone.
LEMMA CloseKeeps ==
    ASSUME Core, close
    PROVE  /\ LeasedStaysPooled' /\ ReferencesExact' /\ StoppedEmpty'
           /\ \A a \in Attempts : ~InPool(a)'
<1>1. \A a \in Attempts : ~InPool(a)'
  BY RemovalInPool DEF close, removeLocked
<1>2. EntryKeys' = {}
  BY PoolAssumption DEF close, removeLocked, RemainingEntries, EntryKeys, InPool, Core, TypeOK,
     Addressed, EntriesAddressed
<1> QED
  BY <1>1, <1>2 DEF close, LeasedStaysPooled, ReferencesExact, StoppedEmpty

\* Every step keeps leases pooled, the counts exact and a closed pool empty.
LEMMA CountsStep ==
    ASSUME Core, Safety, [Next]_vars
    PROVE  LeasedStaysPooled' /\ ReferencesExact' /\ StoppedEmpty'
<1>1. CASE RetireNext
  BY <1>1, RetiringSteps, RetireKeeps
<1>2. CASE ~RetireNext
  BY <1>2, NextSplit, LeaseKeeps, ReleaseKeeps, InstallKeeps, CloseKeeps DEF PoolNext, Install, RetireNext
<1> QED
  BY <1>1, <1>2

----------------------------------------------------------------------------
(* Every pooled entry is on its way out.                                   *)

\* NothingStranded, for one entry.
Doomed(a) ==
    IF entry[a].expired
    THEN ~Unreferenced(a)
    ELSE entry[a].timer # NoTimer \/ entry[a].callbacks > 0

\* An entry is doomed after it has been rescheduled, if it has not expired.
LEMMA ScheduledIsDoomed ==
    ASSUME NEW e \in EntryType, NEW a \in Attempts, entry'[a] = scheduleLocked(e),
           e.expired => e.references # 0
    PROVE  Doomed(a)'
  BY ScheduleProperties DEF Doomed, Unreferenced

\* Every step leaves each pooled entry a way out.
LEMMA StrandedStep ==
    ASSUME Core, Safety, [Next]_vars
    PROVE  NothingStranded'
<1> SUFFICES ASSUME NEW a \in Attempts, InPool(a)'
             PROVE  Doomed(a)'
  BY DEF NothingStranded, Doomed
<1>0. /\ \A b \in Attempts : entry[b] \in EntryType
      /\ entry = [b \in Attempts |-> entry[b]]
  BY DEF Core, TypeOK
<1>1. InPool(a) => Doomed(a)
  BY DEF Safety, NothingStranded, Doomed
<1>2. InPool(a) /\ entry'[a] = entry[a] => Doomed(a)'
  BY <1>1 DEF Doomed, Unreferenced
<1>3. CASE QuietNext
  BY <1>2, <1>3, QuietSteps DEF Quiet, InPool
<1>4. ASSUME NEW r \in Requests, AcquireScan(r)
      PROVE  Doomed(a)'
  <2> DEFINE changed == {b \in Attempts : InPool(b) /\ IdentityChanged(b)}
             removed == {b \in changed : Unreferenced(b)}
  <2>1. /\ entries' = RemainingEntries(removed) /\ attempt' = ClosedConnections(removed)
        /\ entry'[a] = IF a \in changed \ removed
                       THEN [entry[a] EXCEPT !.expired = TRUE]
                       ELSE StoppedTimers(removed)[a]
    BY <1>4 DEF AcquireScan
  <2>2. InPool(a) /\ a \notin removed
    BY <2>1, RemovalInPool
  <2>3. CASE a \in changed
    <3>1. ~Unreferenced(a)
      BY <2>2, <2>3
    <3> QED
      BY <1>0, <2>1, <2>2, <2>3, <3>1 DEF Doomed, Unreferenced, EntryType
  <2>4. CASE a \notin changed
    BY <1>2, <2>1, <2>2, <2>4, StoppedTimersElsewhere
  <2> QED
    BY <2>3, <2>4
<1>5. ASSUME NEW r \in Requests, AcquireStale(r)
      PROVE  Doomed(a)'
  <2>1. InPool(a)
    BY <1>5 DEF AcquireStale, InPool
  <2>2. CASE a = Found(r)
    BY <1>0, <1>5, <2>2 DEF AcquireStale, Doomed, Unreferenced, EntryType
  <2>3. CASE a # Found(r)
    BY <1>0, <1>2, <1>5, <2>1, <2>3 DEF AcquireStale
  <2> QED
    BY <2>2, <2>3
<1>6. ASSUME NEW r \in Requests, AcquireLease(r)
      PROVE  Doomed(a)'
  <2>1. InPool(a)
    BY <1>6 DEF AcquireLease, InPool
  <2>2. CASE a = Found(r)
    <3>1. Used(a, 1) \in EntryType /\ ~Used(a, 1).expired
      BY <1>6, <2>2, UsedProperties DEF AcquireLease, Stale, Core
    <3>2. entry'[a] = scheduleLocked(Used(a, 1))
      BY <1>0, <1>6, <2>2 DEF AcquireLease
    <3> QED
      BY <3>1, <3>2, ScheduledIsDoomed
  <2>3. CASE a # Found(r)
    BY <1>0, <1>2, <1>6, <2>1, <2>3 DEF AcquireLease
  <2> QED
    BY <2>2, <2>3
<1>7. ASSUME NEW r \in Requests, AcquireJoin(r)
      PROVE  Doomed(a)'
  <2>1. InPool(a) /\ a \notin Dead(r)
    BY <1>7, RemovalInPool, RoomIsUnreferenced DEF AcquireJoin, removeLocked
  <2> QED
    BY <1>2, <1>7, <2>1 DEF AcquireJoin, removeLocked, StoppedTimers
<1>8. ASSUME NEW r \in Requests, AcquireLimit(r)
      PROVE  Doomed(a)'
  <2>1. InPool(a) /\ a \notin MadeRoom(r)
    BY <1>8, RemovalInPool, RoomIsUnreferenced DEF AcquireLimit, removeLocked
  <2> QED
    BY <1>2, <1>8, <2>1 DEF AcquireLimit, removeLocked, StoppedTimers
<1>9. ASSUME NEW r \in Requests, NEW b \in Attempts, AcquireDial(r, b)
      PROVE  Doomed(a)'
  BY <1>2, <1>9, DialInPool DEF AcquireDial, StoppedTimers
<1>10. ASSUME NEW r \in Requests, Release(r)
       PROVE  Doomed(a)'
  <2> DEFINE b == request[r].on
  <2>1. b \in Attempts /\ request[r].pc = "leased" /\ request[r].key \in Keys /\ r \in Holders(b)
    BY <1>10 DEF Release, Core, Addressed, RequestsPlaced, Holders
  <2>2. CASE UNCHANGED <<entries, attempt, entry>>
    BY <1>2, <2>2 DEF InPool
  <2>3. CASE removeLocked({b})
    BY <1>2, <2>1, <2>3, RemovalInPool DEF removeLocked, StoppedTimers
  <2>4. CASE /\ entries[request[r].key] = b /\ ~LastRelease(b)
             /\ entry' = [entry EXCEPT ![b] = scheduleLocked(Used(b, -1))]
             /\ UNCHANGED <<entries, attempt>>
    <3>1. InPool(a)
      BY <2>4 DEF InPool
    <3>2. CASE a = b
      <4>1. /\ Used(a, -1) \in EntryType /\ Used(a, -1).expired = entry[a].expired
            /\ Used(a, -1).references = entry[a].references + -1
        BY UsedProperties DEF Core
      <4>2. Used(a, -1).expired => Used(a, -1).references # 0
        BY <1>0, <2>4, <3>2, <4>1 DEF LastRelease, EntryType
      <4>3. entry'[a] = scheduleLocked(Used(a, -1))
        BY <1>0, <2>4, <3>2
      <4> QED
        BY <4>1, <4>2, <4>3, ScheduledIsDoomed
    <3>3. CASE a # b
      BY <1>0, <1>2, <2>4, <3>1, <3>3
    <3> QED
      BY <3>2, <3>3
  <2> QED
    BY <1>10, <2>2, <2>3, <2>4 DEF Release
<1>11. ASSUME NEW b \in Attempts, InstallFailed(b) \/ InstallStopped(b) \/ InstallDuplicate(b)
       PROVE  Doomed(a)'
  <2>1. /\ UNCHANGED <<entries, entry>>
        /\ attempt'[a] = attempt[a] \/ attempt'[a].key = None
    BY <1>11 DEF InstallFailed, InstallStopped, InstallDuplicate, Discarded, Core, TypeOK
  <2> QED
    BY <1>2, <2>1 DEF InPool
<1>12. ASSUME NEW b \in Attempts, InstallEntry(b)
       PROVE  Doomed(a)'
  <2> DEFINE e == [FreshEntry EXCEPT !.generation = tracker[attempt[b].owner].generation]
  <2>1. /\ tracker[attempt[b].owner].generation \in Nat
        /\ entry' = [entry EXCEPT ![b] = scheduleLocked(e)]
        /\ entries' = [entries EXCEPT ![ObservedKey(b)] = b]
        /\ attempt' = [attempt EXCEPT ![b] =
                         [attempt[b] EXCEPT !.phase = "done", !.key = ObservedKey(b)]]
    BY <1>12 DEF InstallEntry, Connecting, Core, TypeOK, Addressed, DialsRegistered, TrackerType
  <2>2. e \in EntryType /\ ~e.expired
    BY <2>1, FreshEntryType, EntryUpdates DEF FreshEntry
  <2> HIDE DEF e
  <2>3. CASE a = b
    BY <1>0, <2>1, <2>2, <2>3, ScheduledIsDoomed
  <2>4. CASE a # b
    <3>1. attempt'[a] = attempt[a] /\ entry'[a] = entry[a]
      BY <1>0, <2>1, <2>4 DEF Core, TypeOK
    <3>2. InPool(a)
      BY <2>1, <2>4, <3>1 DEF InPool, Core, TypeOK, AttemptType
    <3> QED
      BY <1>2, <3>1, <3>2
  <2> QED
    BY <2>3, <2>4
<1>13. ASSUME NEW b \in Attempts, TimerFires(b)
       PROVE  Doomed(a)'
  <2>1. InPool(a)
    BY <1>13 DEF TimerFires, InPool
  <2>2. CASE a = b
    <3>1. /\ entry'[a].expired = entry[a].expired /\ entry'[a].references = entry[a].references
          /\ entry'[a].callbacks = entry[a].callbacks + 1 /\ entry[a].callbacks \in Nat
      BY <1>0, <1>13, <2>2 DEF TimerFires, EntryType
    <3> QED
      BY <1>1, <2>1, <3>1 DEF Doomed, Unreferenced
  <2>3. CASE a # b
    BY <1>0, <1>2, <1>13, <2>1, <2>3 DEF TimerFires
  <2> QED
    BY <2>2, <2>3
<1>14. ASSUME NEW b \in Attempts, expire(b)
       PROVE  Doomed(a)'
  <2> DEFINE run == [entry[b] EXCEPT !.callbacks = entry[b].callbacks - 1]
             marked == [run EXCEPT !.expired = entry[b].expired \/ Aged(b)]
  <2>1. run \in EntryType
    BY <1>0, <1>14 DEF expire, EntryType
  <2>2. /\ marked \in EntryType /\ marked.references = entry[b].references
        /\ marked.expired <=> entry[b].expired \/ Aged(b)
    <3>1. run.references = entry[b].references
      BY <1>0, <1>14 DEF expire, EntryType
    <3> HIDE DEF run
    <3> QED
      BY <1>0, <2>1, <3>1 DEF EntryType, Aged
  <2>3. CASE ~InPool(b) /\ entry' = [entry EXCEPT ![b] = run] /\ UNCHANGED <<entries, attempt>>
    <3>1. InPool(a) /\ a # b
      BY <2>3 DEF InPool
    <3> QED
      BY <1>0, <1>2, <2>3, <3>1
  <2>4. CASE /\ entries' = RemainingEntries({b}) /\ attempt' = ClosedConnections({b})
             /\ entry' = [entry EXCEPT ![b] = [FreshEntry EXCEPT !.callbacks = run.callbacks]]
    <3>1. InPool(a) /\ a # b
      BY <2>4, RemovalInPool
    <3> QED
      BY <1>0, <1>2, <2>4, <3>1
  <2>5. CASE /\ InPool(b) /\ ~ExpireRemoves(b)
             /\ entry' = [entry EXCEPT ![b] =
                            IF marked.expired THEN marked ELSE scheduleLocked(marked)]
             /\ UNCHANGED <<entries, attempt>>
    <3> HIDE DEF marked
    <3>1. InPool(a)
      BY <2>5 DEF InPool
    <3>2. CASE a = b /\ marked.expired
      <4>1. ~Unreferenced(a)
        BY <1>1, <2>2, <2>5, <3>1, <3>2 DEF ExpireRemoves, Doomed
      <4> QED
        BY <1>0, <2>2, <2>5, <3>2, <4>1 DEF Doomed, Unreferenced
    <3>3. CASE a = b /\ ~marked.expired
      BY <1>0, <2>2, <2>5, <3>3, ScheduledIsDoomed
    <3>4. CASE a # b
      BY <1>0, <1>2, <2>5, <3>1, <3>4
    <3> QED
      BY <3>2, <3>3, <3>4
  <2> QED
    BY <1>14, <2>3, <2>4, <2>5 DEF expire
<1>15. CASE close
  BY <1>15, CloseKeeps
<1>16. CASE Tick
  <2>1. InPool(a) /\ entry'[a] = Elapsed(entry[a])
    BY <1>16 DEF Tick, InPool
  <2> QED
    BY <1>0, <1>1, <2>1, ElapsedProperties DEF Doomed, Unreferenced
<1> QED
  BY <1>3, <1>4, <1>5, <1>6, <1>7, <1>8, <1>9, <1>10, <1>11, <1>12, <1>13, <1>14, <1>15, <1>16,
     NextSplit DEF PoolNext, Install

----------------------------------------------------------------------------
(* The connection limit.                                                   *)

\* Counting fewer keys on both sides stays within the limit.
LEMMA FewerKeys ==
    ASSUME ConnectionLimit, EntryKeys' \subseteq EntryKeys, InflightKeys' \subseteq InflightKeys
    PROVE  ConnectionLimit'
<1>1. /\ Cardinality(EntryKeys') <= Cardinality(EntryKeys)
      /\ Cardinality(InflightKeys') <= Cardinality(InflightKeys)
  BY FiniteCounts, FS_Subset
<1>2. /\ Cardinality(EntryKeys) \in Nat /\ Cardinality(InflightKeys) \in Nat
      /\ Cardinality(EntryKeys') \in Nat /\ Cardinality(InflightKeys') \in Nat
  BY FiniteCounts, FS_CardinalityType
<1> QED
  BY <1>1, <1>2, PoolAssumption DEF ConnectionLimit

\* No step makes entries and dials together exceed the limit: only AcquireDial
\* adds a key, and an install trades one.
LEMMA LimitStep ==
    ASSUME Core, Safety, [Next]_vars
    PROVE  ConnectionLimit'
<1>1. CASE RetireNext /\ ~\E r \in Requests, a \in Attempts : AcquireDial(r, a)
  <2>1. EntryKeys' \subseteq EntryKeys
    BY <1>1, RetiringSteps DEF Retires, RemainingEntries, EntryKeys
  <2>2. InflightKeys' \subseteq InflightKeys
    <3>1. CASE QuietNext
      BY <3>1, QuietSteps DEF Quiet, InflightKeys
    <3>2. CASE ~QuietNext
      BY <1>1, <3>2 DEF RetireNext, AcquireScan, AcquireStale, AcquireJoin, AcquireLimit, InstallFailed,
         InstallStopped, InstallDuplicate, DialReported, TimerFires, expire, Tick, InflightKeys, Core, TypeOK
    <3> QED
      BY <3>1, <3>2
  <2> QED
    BY <2>1, <2>2, FewerKeys DEF Safety
<1>2. ASSUME NEW r \in Requests, NEW a \in Attempts, AcquireDial(r, a)
      PROVE  ConnectionLimit'
  <2> DEFINE kept == {k \in EntryKeys : entries[k] \notin MadeRoom(r)}
  <2>1. request[r].key \in Keys /\ inflight[request[r].key] = None /\ ~Full(MadeRoom(r))
    BY <1>2 DEF AcquireDial, Looking, Core, Addressed, RequestsPlaced
  <2>2. EntryKeys' \subseteq kept /\ kept \subseteq EntryKeys
    BY <1>2, PoolAssumption DEF AcquireDial, RemainingEntries, EntryKeys
  <2>3. /\ InflightKeys' = InflightKeys \cup {request[r].key}
        /\ request[r].key \notin InflightKeys
    BY <1>2, <2>1, PoolAssumption DEF AcquireDial, InflightKeys, Core, TypeOK
  <2>4. Cardinality(InflightKeys') = Cardinality(InflightKeys) + 1
    BY <2>3, FiniteCounts, FS_AddElement
  <2>5. IsFiniteSet(kept) /\ Cardinality(EntryKeys') <= Cardinality(kept)
    BY <2>2, FiniteCounts, FS_Subset
  <2>6. ~(Cardinality(kept) + Cardinality(InflightKeys) >= MaxConnections)
    BY <2>1 DEF Full, Occupancy
  <2>7. /\ Cardinality(kept) \in Nat /\ Cardinality(InflightKeys) \in Nat
        /\ Cardinality(EntryKeys') \in Nat /\ Cardinality(InflightKeys') \in Nat
    BY <2>5, FiniteCounts, FS_CardinalityType
  <2> HIDE DEF kept
  <2> QED
    BY <2>4, <2>5, <2>6, <2>7, PoolAssumption DEF ConnectionLimit
<1>3. ASSUME NEW r \in Requests, AcquireLease(r)
      PROVE  ConnectionLimit'
  BY <1>3, FewerKeys DEF AcquireLease, EntryKeys, InflightKeys, Safety
<1>4. ASSUME NEW r \in Requests, Release(r)
      PROVE  ConnectionLimit'
  <2>1. EntryKeys' \subseteq EntryKeys
    BY <1>4 DEF Release, removeLocked, RemainingEntries, EntryKeys
  <2>2. InflightKeys' = InflightKeys
    BY <1>4 DEF Release, InflightKeys
  <2> QED
    BY <2>1, <2>2, FewerKeys DEF Safety
<1>5. ASSUME NEW a \in Attempts, InstallEntry(a)
      PROVE  ConnectionLimit'
  <2>1. /\ ObservedKey(a) \in Keys /\ entries[ObservedKey(a)] = None
        /\ attempt[a].key \in Keys /\ inflight[attempt[a].key] = a
        /\ entries' = [entries EXCEPT ![ObservedKey(a)] = a]
        /\ inflight' = [inflight EXCEPT ![attempt[a].key] = None]
    BY <1>5, PoolAssumption DEF InstallEntry, DialReported, ObservedKey, Connecting, Core, Addressed,
       DialsRegistered, TrackersKnown
  <2>2. EntryKeys' = EntryKeys \cup {ObservedKey(a)} /\ ObservedKey(a) \notin EntryKeys
    BY <2>1, PoolAssumption DEF EntryKeys, Core, TypeOK
  <2>3. InflightKeys' = InflightKeys \ {attempt[a].key} /\ attempt[a].key \in InflightKeys
    BY <2>1, PoolAssumption DEF InflightKeys, Core, TypeOK
  <2>4. Cardinality(EntryKeys') = Cardinality(EntryKeys) + 1
    BY <2>2, FiniteCounts, FS_AddElement
  <2>5. Cardinality(InflightKeys') = Cardinality(InflightKeys) - 1
    BY <2>3, FiniteCounts, FS_RemoveElement
  <2>6. Cardinality(EntryKeys) \in Nat /\ Cardinality(InflightKeys) \in Nat
    BY FiniteCounts, FS_CardinalityType
  <2> QED
    BY <2>4, <2>5, <2>6, PoolAssumption DEF ConnectionLimit, Safety
<1>6. CASE close
  BY <1>6, FewerKeys DEF close, removeLocked, RemainingEntries, EntryKeys, InflightKeys, Safety
<1> QED
  BY <1>1, <1>2, <1>3, <1>4, <1>5, <1>6, NextSplit DEF PoolNext, Install, RetireNext

----------------------------------------------------------------------------
(* The theorems.                                                           *)

Invariant == Core /\ Safety

\* The invariant holds before the first acquire.
LEMMA Initially == Init => Invariant
<1> SUFFICES ASSUME Init
             PROVE  Invariant
  OBVIOUS
<1>1. TypeOK
  <2>1. Discarded(None) \in AttemptType /\ Returned(None) \in RequestType
    BY DEF Discarded, AttemptType, Returned, RequestType, Acquiring
  <2> QED
    BY <2>1, FreshEntryType DEF Init, TypeOK, TrackerType
<1>2. Addressed
  BY PoolAssumption DEF Init, Addressed, EntriesAddressed, InflightAddressed, DialsRegistered, RequestsPlaced,
     TrackersKnown, MutexHeld, NoLeak, Discarded, Returned, Connecting
<1>3. EntryKeys = {} /\ InflightKeys = {} /\ \A a \in Attempts : ~InPool(a)
  BY DEF Init, EntryKeys, InflightKeys, InPool, Discarded
<1>4. ConnectionLimit
  BY <1>3, FS_EmptySet, PoolAssumption DEF ConnectionLimit
<1> QED
  BY <1>1, <1>2, <1>3, <1>4 DEF Invariant, Core, Safety, LeasedStaysPooled, ReferencesExact, StoppedEmpty,
     NothingStranded, Init, Returned

\* Every step preserves the invariant.
LEMMA Inductive == Invariant /\ [Next]_vars => Invariant'
  BY TypeStep, AddressedStep, CountsStep, StrandedStep, LimitStep DEF Invariant, Core, Safety

\* The variables of the pool keep their types and the invariant holds in every
\* reachable state.
THEOREM InvariantHolds == Spec => []Invariant
  BY Initially, Inductive, PTL DEF Spec

\* Every variable of the pool, its entries, its dials and its callers keeps the
\* values the program can store in it, whatever interleaves.
THEOREM TypeCorrect == Spec => []TypeOK
<1>1. Invariant => TypeOK
  BY DEF Invariant, Core
<1> QED
  BY <1>1, InvariantHolds, PTL

\* max_connections is never exceeded: pooled connections and dials in flight
\* together stay within it (acquire's check against connectContext's insert).
THEOREM LimitRespected == Spec => []ConnectionLimit
<1>1. Invariant => ConnectionLimit
  BY DEF Invariant, Safety
<1> QED
  BY <1>1, InvariantHolds, PTL

\* The reference count of a pooled entry is the number of its unreleased
\* leases (leaseLocked and release).
THEOREM CountsExact == Spec => []ReferencesExact
<1>1. Invariant => ReferencesExact
  BY DEF Invariant, Safety
<1> QED
  BY <1>1, InvariantHolds, PTL

\* Neither expiry, idle eviction, rotation nor another caller's release takes a
\* connection away from the holder of a lease; only close does.
THEOREM LeasesSafe == Spec => []LeasedStaysPooled
<1>1. Invariant => LeasedStaysPooled
  BY DEF Invariant, Safety
<1> QED
  BY <1>1, InvariantHolds, PTL

\* A connection that is open is pooled or still owned by the goroutine that
\* dialled it (connectContext closes what it cannot insert).
THEOREM ConnectionsOwned == Spec => []NoLeak
<1>1. Invariant => NoLeak
  BY DEF Invariant, Core, Addressed
<1> QED
  BY <1>1, InvariantHolds, PTL

\* A closed pool stays empty although dials may finish after close.
THEOREM ClosedForGood == Spec => []StoppedEmpty
<1>1. Invariant => StoppedEmpty
  BY DEF Invariant, Safety
<1> QED
  BY <1>1, InvariantHolds, PTL

\* Every pooled entry has a timer, a pending callback or, once expired, a holder
\* whose release removes it.
THEOREM EntriesRetire == Spec => []NothingStranded
<1>1. Invariant => NothingStranded
  BY DEF Invariant, Safety
<1> QED
  BY <1>1, InvariantHolds, PTL

\* At most one dial per credential is in flight (acquire joins a running one).
THEOREM DialsAreSingle == Spec => []SingleFlight
<1>1. Invariant => SingleFlight
  BY DEF Invariant, Core, Addressed, DialsRegistered, SingleFlight
<1> QED
  BY <1>1, InvariantHolds, PTL

----------------------------------------------------------------------------
(* Credentials are kept apart.                                             *)

\* A context that has seen one credential looks up that one.
RequestsIdentified ==
    \A r \in Requests :
        request[r].pc # "idle" /\ tracker[r].generation = 0 => request[r].key = tracker[r].key

\* A connection dialled with a context that has seen one credential is
\* authenticated with that one, and pooled under it.
ConnectionsIdentified ==
    \A a \in Attempts :
        (attempt[a].phase = "dialed" \/ InPool(a)) /\ tracker[attempt[a].owner].generation = 0 =>
            /\ attempt[a].auth = tracker[attempt[a].owner].key
            /\ InPool(a) => attempt[a].key = tracker[attempt[a].owner].key

\* Observing a credential either agrees with what was known or counts a change.
LEMMA ObserveCounts ==
    ASSUME TypeOK, NEW r \in Requests, NEW k \in Keys, observe(r, k)
    PROVE  /\ \A q \in Requests : tracker'[q].generation = 0 => tracker'[q] = tracker[q]
           /\ tracker'[r].key = k
<1>1. tracker[r].generation \in Nat
  BY DEF TypeOK, TrackerType
<1>2. CASE tracker[r].key = k
  BY <1>2 DEF observe, TypeOK
<1>3. CASE tracker[r].key # k
  <2>1. tracker' = [tracker EXCEPT ![r] = [key |-> k, generation |-> tracker[r].generation + 1]]
    BY <1>3 DEF observe
  <2>2. tracker'[r].generation = tracker[r].generation + 1 /\ tracker'[r].key = k
    BY <2>1 DEF TypeOK
  <2>3. tracker'[r].generation # 0
    BY <1>1, <2>2
  <2> QED
    BY <2>1, <2>2, <2>3 DEF TypeOK
<1> QED
  BY <1>2, <1>3

\* An open connection has a context to reconnect with.
LEMMA OpenHasOwner ==
    ASSUME Core, NEW a \in Attempts, attempt[a].conn = "reconnecting"
    PROVE  attempt[a].owner \in Requests
<1>1. InPool(a) \/ attempt[a].phase = "dialed"
  BY DEF Core, Addressed, NoLeak
<1>2. CASE InPool(a)
  BY <1>2, PoolAssumption DEF InPool, Core, TypeOK, AttemptType, Addressed, EntriesAddressed
<1>3. CASE attempt[a].phase = "dialed"
  BY <1>3 DEF Core, Addressed, DialsRegistered, Connecting
<1> QED
  BY <1>1, <1>2, <1>3

\* No step but Begin makes a context forget that its credential changed.
LEMMA GenerationsGrow ==
    ASSUME Core, [Next]_vars, \A q \in Requests, j \in Keys : ~Begin(q, j)
    PROVE  \A q \in Requests : tracker'[q].generation = 0 => tracker'[q] = tracker[q]
<1> USE DEF Core
<1>1. ASSUME NEW r \in Requests, NEW k \in Keys, RefreshIdentity(r, k)
      PROVE  \A q \in Requests : tracker'[q].generation = 0 => tracker'[q] = tracker[q]
  BY <1>1, ObserveCounts DEF RefreshIdentity
<1>2. ASSUME NEW a \in Attempts, NEW k \in Keys, DialSucceeds(a, k) \/ DialFails(a, k)
      PROVE  \A q \in Requests : tracker'[q].generation = 0 => tracker'[q] = tracker[q]
  <2>1. attempt[a].owner \in Requests
    BY <1>2 DEF DialSucceeds, DialFails, Connecting, Addressed, DialsRegistered
  <2> QED
    BY <1>2, <2>1, ObserveCounts DEF DialSucceeds, DialFails
<1>3. ASSUME NEW a \in Attempts, NEW k \in Keys, NEW restored \in BOOLEAN,
             Reconnect(a, k, restored)
      PROVE  \A q \in Requests : tracker'[q].generation = 0 => tracker'[q] = tracker[q]
  <2>1. attempt[a].owner \in Requests
    BY <1>3, OpenHasOwner DEF Reconnect
  <2> QED
    BY <1>3, <2>1, ObserveCounts DEF Reconnect
<1>4. CASE UNCHANGED tracker
  BY <1>4
<1> QED
  BY <1>1, <1>2, <1>3, <1>4
     DEF Next, RequestStep, Dial, Install, Library, ContextDone, AcquireCancelled, RefreshFails,
         AcquireStopped, AcquireScan, AcquireStale, AcquireDisconnected, AcquireLease,
         AcquireJoin, AcquireLimit, AcquireDial, WaitCancelled, WaitAttempt, Release,
         InstallFailed, InstallStopped, InstallDuplicate, InstallEntry, TimerFires, expire,
         ConnectionLost, ReconnectsExhausted, close, Tick, vars

\* A call that is under way keeps the key it looked up, until it refreshes it.
LEMMA KeysKept ==
    ASSUME Core, [Next]_vars, NEW q \in Requests, request'[q].pc # "idle",
           \A j \in Keys : ~Begin(q, j) /\ ~RefreshIdentity(q, j)
    PROVE  request[q].pc # "idle" /\ request'[q].key = request[q].key
<1> USE DEF Core, TypeOK, RequestType
<1>1. ASSUME NEW r \in Requests, NEW k \in Keys, Begin(r, k) \/ RefreshIdentity(r, k)
      PROVE  request'[q] = request[q]
  BY <1>1 DEF Begin, RefreshIdentity
<1>2. ASSUME NEW r \in Requests,
             \/ AcquireCancelled(r) \/ RefreshFails(r) \/ AcquireStopped(r) \/ AcquireStale(r)
             \/ AcquireDisconnected(r) \/ AcquireLimit(r) \/ WaitCancelled(r) \/ Release(r)
      PROVE  request'[q] = request[q]
  BY <1>2 DEF AcquireCancelled, RefreshFails, AcquireStopped, AcquireStale, AcquireDisconnected,
      AcquireLimit, WaitCancelled, Release, Fail, Returned
<1>3. ASSUME NEW r \in Requests,
             \/ ContextDone(r) \/ AcquireScan(r) \/ AcquireLease(r) \/ AcquireJoin(r)
             \/ \E a \in Attempts : AcquireDial(r, a)
      PROVE  request[q].pc # "idle" /\ request'[q].key = request[q].key
  <2>1. CASE ContextDone(r)
    BY <2>1 DEF ContextDone, Acquiring
  <2>2. CASE AcquireScan(r)
    BY <2>2 DEF AcquireScan
  <2>3. CASE AcquireLease(r) \/ AcquireJoin(r) \/ \E a \in Attempts : AcquireDial(r, a)
    <3>1. PICK p, x : Goto(r, p, x)
      BY <2>3 DEF AcquireLease, AcquireJoin, AcquireDial
    <3>2. request'[q].key = request[q].key /\ (q # r => request'[q] = request[q])
      BY <3>1 DEF Goto
    <3>3. request[r].pc = "scanned"
      BY <2>3 DEF AcquireLease, AcquireJoin, AcquireDial, Looking
    <3> QED
      BY <3>2, <3>3
  <2> QED
    BY <1>3, <2>1, <2>2, <2>3
<1>4. ASSUME NEW r \in Requests, WaitAttempt(r)
      PROVE  request[q].pc # "idle" /\ request'[q].key = request[q].key
  <2>1. CASE attempt[request[r].on].err # None
    BY <1>4, <2>1 DEF WaitAttempt, Fail, Returned
  <2>2. CASE attempt[request[r].on].err = None
    <3>1. Goto(r, "start", None) /\ request[r].pc = "waiting"
      BY <1>4, <2>2 DEF WaitAttempt
    <3>2. request'[q].key = request[q].key /\ (q # r => request'[q] = request[q])
      BY <3>1 DEF Goto
    <3> QED
      BY <3>1, <3>2
  <2> QED
    BY <2>1, <2>2
<1> HIDE DEF Core, TypeOK, RequestType
<1>5. CASE UNCHANGED request
  BY <1>5
<1> QED
  BY <1>1, <1>2, <1>3, <1>4, <1>5
     DEF Next, RequestStep, Dial, Install, Library, DialSucceeds, DialFails,
         InstallFailed, InstallStopped, InstallDuplicate, InstallEntry, TimerFires, expire,
         ConnectionLost, Reconnect, ReconnectsExhausted, close, Tick, vars

LEMMA RequestsIdentifiedStep ==
    ASSUME Core, RequestsIdentified, [Next]_vars
    PROVE  RequestsIdentified'
<1> SUFFICES ASSUME NEW q \in Requests, request'[q].pc # "idle", tracker'[q].generation = 0
             PROVE  request'[q].key = tracker'[q].key
  BY DEF RequestsIdentified
<1>1. ASSUME NEW k \in Keys, Begin(q, k)
      PROVE  request'[q].key = tracker'[q].key
  BY <1>1 DEF Begin, Core, TypeOK
<1>2. ASSUME NEW k \in Keys, RefreshIdentity(q, k)
      PROVE  request'[q].key = tracker'[q].key
  <2>1. request'[q].key = k
    BY <1>2 DEF RefreshIdentity, Core, TypeOK, RequestType
  <2> QED
    BY <1>2, <2>1, ObserveCounts DEF RefreshIdentity, Core
<1>3. CASE \A k \in Keys : ~Begin(q, k) /\ ~RefreshIdentity(q, k)
  <2>1. request[q].pc # "idle" /\ request'[q].key = request[q].key
    BY <1>3, KeysKept
  <2>2. tracker'[q] = tracker[q]
    <3>1. CASE \E r \in Requests, k \in Keys : Begin(r, k)
      BY <1>3, <3>1 DEF Begin, Core, TypeOK
    <3>2. CASE \A r \in Requests, k \in Keys : ~Begin(r, k)
      BY <3>2, GenerationsGrow
    <3> QED
      BY <3>1, <3>2
  <2> QED
    BY <2>1, <2>2 DEF RequestsIdentified
<1> QED
  BY <1>1, <1>2, <1>3

\* A connection that stays, dialled or pooled, keeps its context, its key and the
\* credential it was authenticated with.
SameConnection(a) ==
    /\ attempt'[a].owner = attempt[a].owner
    /\ attempt'[a].auth = attempt[a].auth
    /\ attempt'[a].phase = "dialed" => attempt[a].phase = "dialed"
    /\ InPool(a)' => InPool(a) /\ attempt'[a].key = attempt[a].key

LEMMA ConnectionsKept ==
    ASSUME Core, Safety, [Next]_vars, NEW a \in Attempts,
           attempt'[a].phase = "dialed" \/ InPool(a)',
           \A k \in Keys : ~DialSucceeds(a, k) /\ ~Reconnect(a, k, TRUE),
           ~InstallEntry(a)
    PROVE  SameConnection(a)
<1> USE DEF SameConnection
<1>1. CASE UNCHANGED <<entries, attempt>>
  BY <1>1 DEF InPool
<1>2. ASSUME NEW S \in SUBSET Attempts, entries' = RemainingEntries(S), attempt' = ClosedConnections(S)
      PROVE  SameConnection(a)
  <2>1. a \notin S
    BY <1>2, RemovalInPool DEF ClosedConnections, Discarded
  <2>2. attempt'[a] = attempt[a]
    BY <1>2, <2>1 DEF ClosedConnections
  <2> QED
    BY <1>2, <2>2, RemovalInPool
<1>3. ASSUME NEW r \in Requests, NEW b \in Attempts, AcquireDial(r, b)
      PROVE  SameConnection(a)
  <2>1. attempt' = [ClosedConnections(MadeRoom(r)) EXCEPT ![b] =
                    [phase |-> "dialing", err |-> None, owner |-> r,
                     key |-> request[r].key, conn |-> "closed", auth |-> None]]
        /\ ~InPool(b)
    BY <1>3 DEF AcquireDial, Reusable
  <2>2. a # b
    BY <1>3, <2>1, DialInPool DEF ClosedConnections
  <2>3. a \notin MadeRoom(r)
    BY <1>3, <2>1, <2>2, DialInPool DEF ClosedConnections, Discarded
  <2>4. attempt'[a] = attempt[a]
    BY <2>1, <2>2, <2>3 DEF ClosedConnections
  <2> QED
    BY <1>3, <2>4, DialInPool
<1>4. ASSUME NEW b \in Attempts,
             \/ \E k \in Keys : DialSucceeds(b, k) \/ DialFails(b, k) \/ Reconnect(b, k, TRUE)
             \/ ConnectionLost(b) \/ ReconnectsExhausted(b)
      PROVE  SameConnection(a)
  <2>1. UNCHANGED entries
    BY <1>4 DEF DialSucceeds, DialFails, Reconnect, ConnectionLost, ReconnectsExhausted
  <2>2. attempt \in [Attempts -> AttemptType]
    BY DEF Core, TypeOK
  <2>3. ASSUME NEW k \in Keys, DialSucceeds(b, k) \/ Reconnect(b, k, TRUE)
        PROVE  attempt'[a] = attempt[a]
    BY <2>2, <2>3 DEF DialSucceeds, Reconnect
  <2>4. ASSUME NEW k \in Keys, DialFails(b, k)
        PROVE  /\ attempt'[a].owner = attempt[a].owner /\ attempt'[a].auth = attempt[a].auth
               /\ attempt'[a].key = attempt[a].key
               /\ attempt'[a].phase = "dialed" => attempt[a].phase = "dialed"
    BY <2>2, <2>4 DEF DialFails, AttemptType
  <2>5. CASE ConnectionLost(b) \/ ReconnectsExhausted(b)
    <3>1. PICK c \in {"closed", "reconnecting"} : attempt' = [attempt EXCEPT ![b].conn = c]
      BY <2>5 DEF ConnectionLost, ReconnectsExhausted
    <3>2. /\ attempt'[a].owner = attempt[a].owner /\ attempt'[a].auth = attempt[a].auth
          /\ attempt'[a].key = attempt[a].key /\ attempt'[a].phase = attempt[a].phase
      BY <2>2, <3>1 DEF AttemptType
    <3> QED
      BY <2>1, <3>2 DEF InPool
  <2> QED
    BY <1>4, <2>1, <2>3, <2>4, <2>5 DEF InPool
<1>5. ASSUME NEW b \in Attempts, InstallFailed(b) \/ InstallStopped(b) \/ InstallDuplicate(b)
      PROVE  SameConnection(a)
  <2>1. /\ UNCHANGED entries
        /\ attempt'[a] = attempt[a] \/ (attempt'[a].key = None /\ attempt'[a].phase = "done")
    BY <1>5 DEF InstallFailed, InstallStopped, InstallDuplicate, Discarded, Core, TypeOK
  <2> QED
    BY <2>1 DEF InPool
<1>6. ASSUME NEW b \in Attempts, InstallEntry(b)
      PROVE  SameConnection(a)
  <2>1. b # a /\ attempt'[a] = attempt[a]
    BY <1>6 DEF InstallEntry, Core, TypeOK
  <2>2. InPool(a)' => InPool(a)
    BY <1>6, <2>1 DEF InstallEntry, InPool, Core, TypeOK, AttemptType
  <2> QED
    BY <2>1, <2>2
<1>7. ASSUME NEW r \in Requests, AcquireScan(r)
      PROVE  SameConnection(a)
  BY <1>2, <1>7 DEF AcquireScan
<1>8. ASSUME NEW r \in Requests, AcquireJoin(r) \/ AcquireLimit(r)
      PROVE  SameConnection(a)
  BY <1>2, <1>8, RoomIsUnreferenced DEF AcquireJoin, AcquireLimit, removeLocked
<1>9. ASSUME NEW r \in Requests, Release(r)
      PROVE  SameConnection(a)
  <2>1. request[r].on \in Attempts
    BY <1>9 DEF Release, Core, Addressed, RequestsPlaced
  <2> QED
    BY <1>1, <1>2, <1>9, <2>1 DEF Release, removeLocked
<1>10. ASSUME NEW b \in Attempts, expire(b)
       PROVE  SameConnection(a)
  BY <1>1, <1>2, <1>10 DEF expire
<1>11. ASSUME close
       PROVE  SameConnection(a)
  BY <1>2, <1>11 DEF close, removeLocked
<1>12. ASSUME NEW b \in Attempts, NEW k \in Keys, Reconnect(b, k, FALSE)
       PROVE  SameConnection(a)
  BY <1>1, <1>12 DEF Reconnect
<1> HIDE DEF SameConnection
<1> QED
  BY <1>1, <1>3, <1>4, <1>5, <1>6, <1>7, <1>8, <1>9, <1>10, <1>11, <1>12
     DEF Next, RequestStep, Dial, Install, Library, Begin, RefreshIdentity, ContextDone,
         AcquireCancelled, RefreshFails, AcquireStopped, AcquireStale, AcquireDisconnected,
         AcquireLease, WaitCancelled, WaitAttempt, TimerFires, Tick, vars

LEMMA ConnectionsIdentifiedStep ==
    ASSUME Core, Safety, ConnectionsIdentified, [Next]_vars
    PROVE  ConnectionsIdentified'
<1> SUFFICES ASSUME NEW a \in Attempts, attempt'[a].phase = "dialed" \/ InPool(a)',
                    tracker'[attempt'[a].owner].generation = 0
             PROVE  /\ attempt'[a].auth = tracker'[attempt'[a].owner].key
                    /\ InPool(a)' => attempt'[a].key = tracker'[attempt'[a].owner].key
  BY DEF ConnectionsIdentified
<1>1. attempt \in [Attempts -> AttemptType]
  BY DEF Core, TypeOK
<1>2. ASSUME NEW k \in Keys, DialSucceeds(a, k)
      PROVE  /\ attempt'[a].auth = tracker'[attempt'[a].owner].key
             /\ InPool(a)' => attempt'[a].key = tracker'[attempt'[a].owner].key
  <2>1. /\ attempt[a].owner \in Requests /\ attempt[a].phase = "dialing" /\ UNCHANGED entries
        /\ attempt' = [attempt EXCEPT ![a] =
                    [attempt[a] EXCEPT !.phase = "dialed", !.conn = "connected", !.auth = k]]
    BY <1>2 DEF DialSucceeds, Core, Addressed, DialsRegistered, Connecting
  <2>2. attempt'[a].owner = attempt[a].owner /\ attempt'[a].auth = k /\ attempt'[a].key = attempt[a].key
    BY <1>1, <2>1 DEF AttemptType
  <2>3. tracker'[attempt[a].owner].key = k
    BY <1>2, <2>1, ObserveCounts DEF DialSucceeds, Core
  <2>4. ~InPool(a)'
    BY <1>1, <2>1, <2>2, PoolAssumption DEF InPool, Core, Addressed, EntriesAddressed, AttemptType
  <2> QED
    BY <2>2, <2>3, <2>4
<1>3. ASSUME NEW k \in Keys, Reconnect(a, k, TRUE)
      PROVE  /\ attempt'[a].auth = tracker'[attempt'[a].owner].key
             /\ InPool(a)' => attempt'[a].key = tracker'[attempt'[a].owner].key
  <2>1. /\ attempt[a].owner \in Requests /\ UNCHANGED entries
        /\ attempt' = [attempt EXCEPT ![a] =
                    [attempt[a] EXCEPT !.conn = "connected", !.auth = k]]
    BY <1>3, OpenHasOwner DEF Reconnect
  <2>2. /\ attempt'[a].owner = attempt[a].owner /\ attempt'[a].auth = k
        /\ attempt'[a].key = attempt[a].key /\ attempt'[a].phase = attempt[a].phase
    BY <1>1, <2>1 DEF AttemptType
  <2>3. /\ tracker'[attempt[a].owner].key = k
        /\ tracker'[attempt[a].owner] = tracker[attempt[a].owner]
    BY <1>3, <2>1, <2>2, ObserveCounts DEF Reconnect, Core
  <2>4. InPool(a)' => InPool(a)
    BY <2>1, <2>2 DEF InPool
  <2> QED
    BY <2>2, <2>3, <2>4 DEF ConnectionsIdentified
<1>4. CASE InstallEntry(a)
  <2>1. /\ UNCHANGED tracker /\ attempt[a].phase = "dialed"
        /\ attempt' = [attempt EXCEPT ![a] =
                    [attempt[a] EXCEPT !.phase = "done", !.key = ObservedKey(a)]]
    BY <1>4 DEF InstallEntry
  <2>2. /\ attempt'[a].owner = attempt[a].owner /\ attempt'[a].auth = attempt[a].auth
        /\ attempt'[a].key = ObservedKey(a)
    BY <1>1, <2>1 DEF AttemptType
  <2> QED
    BY <2>1, <2>2 DEF ConnectionsIdentified, ObservedKey
<1>5. CASE /\ \A k \in Keys : ~DialSucceeds(a, k) /\ ~Reconnect(a, k, TRUE)
           /\ ~InstallEntry(a)
  <2>1. SameConnection(a)
    BY <1>5, ConnectionsKept
  <2>2. attempt[a].owner \in Requests /\ (attempt[a].phase = "dialed" \/ InPool(a))
    BY <1>1, <2>1, PoolAssumption DEF SameConnection, InPool, Core, Addressed, EntriesAddressed,
       DialsRegistered, Connecting, AttemptType
  <2>3. tracker'[attempt[a].owner] = tracker[attempt[a].owner]
    <3>1. ASSUME NEW r \in Requests, NEW k \in Keys, Begin(r, k)
          PROVE  r # attempt[a].owner /\ tracker'[attempt[a].owner] = tracker[attempt[a].owner]
      BY <2>2, <3>1 DEF Begin, ContextReferenced, Connecting, Core, TypeOK
    <3>2. CASE \A r \in Requests, k \in Keys : ~Begin(r, k)
      BY <2>1, <2>2, <3>2, GenerationsGrow DEF SameConnection
    <3> QED
      BY <3>1, <3>2
  <2> QED
    BY <2>1, <2>2, <2>3 DEF SameConnection, ConnectionsIdentified
<1> QED
  BY <1>2, <1>3, <1>4, <1>5

\* A lease is on a connection of the holder's credential.
LEMMA LeasesIdentified ==
    ASSUME Core, Safety, RequestsIdentified, ConnectionsIdentified
    PROVE  CredentialIsolation
<1> SUFFICES ASSUME NEW r \in Requests, request[r].pc = "leased", InPool(request[r].on),
                    tracker[r].generation = 0,
                    tracker[attempt[request[r].on].owner].generation = 0
             PROVE  attempt[request[r].on].auth = tracker[r].key
  BY DEF CredentialIsolation
<1> DEFINE a == request[r].on
<1>1. a \in Attempts /\ request[r].key \in Keys /\ attempt[a].key \in Keys
  BY DEF Core, Addressed, RequestsPlaced, InPool, TypeOK, AttemptType
<1>2. ~stopping
  BY <1>1, PoolAssumption DEF InPool, Safety, StoppedEmpty, EntryKeys
<1>3. entries[request[r].key] = a
  BY <1>2 DEF Safety, LeasedStaysPooled
<1>4. attempt[a].key = request[r].key
  BY <1>1, <1>3, PoolAssumption DEF Core, Addressed, EntriesAddressed
<1> QED
  BY <1>1, <1>4 DEF RequestsIdentified, ConnectionsIdentified

\* Two contexts share a connection only if they present the same credential, as
\* long as neither has seen its credential change: whatever is dialled, rotated,
\* reconnected and retired meanwhile (acquire's lookup, ObservedIdentity).
THEOREM CredentialsKeptApart == Spec => []CredentialIsolation
<1> DEFINE Identified == RequestsIdentified /\ ConnectionsIdentified
<1>1. Init => Identified
  BY DEF Init, RequestsIdentified, ConnectionsIdentified, Returned, Discarded, InPool
<1>2. Invariant /\ Identified /\ [Next]_vars => Identified'
  BY RequestsIdentifiedStep, ConnectionsIdentifiedStep DEF Invariant
<1>3. Invariant /\ Identified => CredentialIsolation
  BY LeasesIdentified DEF Invariant
<1> QED
  BY <1>1, <1>2, <1>3, InvariantHolds, PTL DEF Spec
=============================================================================
