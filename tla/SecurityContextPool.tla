------------------------ MODULE SecurityContextPool ------------------------
(***************************************************************************)
(* The per-security-context NATS connection pool of security_context.go.   *)
(*                                                                         *)
(* Concurrent HTTP handlers acquire and release leases on NATS connections *)
(* keyed by credential digest.  A missing connection is dialled by a       *)
(* goroutine outside the pool mutex; timers retire connections that are    *)
(* idle or too old; the NATS client library drops and restores connections *)
(* on its own and asks the credential callback again when it does.         *)
(*                                                                         *)
(* Heap objects are identifiers.  One identifier in Attempts stands for    *)
(* one connectContext goroutine, the connection it opens and the           *)
(* securityContextEntry it inserts; one in Requests stands for one acquire *)
(* call with the adapted credential context it owns.  An identifier may be *)
(* used again only when nothing in the program can still reach the old     *)
(* object, which is what the garbage collector guarantees of addresses.    *)
(*                                                                         *)
(* Time is measured by what the code compares: an entry's age and idle     *)
(* time, saturated at the limits they are compared with, and the delay     *)
(* left on its timer.  The clock itself is unbounded.                      *)
(***************************************************************************)
EXTENDS Integers, FiniteSets

CONSTANTS
    Requests,        \* acquire calls, each with its adapted credentials.Context
    Keys,            \* credential digests
    Attempts,        \* connectContext goroutines / connections / entries
    Rotating,        \* the requests whose mechanism is nkey_jwt (callback-backed)
    MaxConnections,  \* SecurityContext.MaxConnections
    MaxLifetime,     \* SecurityContext.MaxLifetime, in clock ticks
    IdleTimeout,     \* SecurityContext.IdleTimeout, in clock ticks
    MaxRotations,    \* bound: credential changes one context may see
    None             \* the nil pointer, key and error

\* config.go requires the three limits to be positive.
ASSUME PoolAssumption ==
    /\ IsFiniteSet(Requests) /\ IsFiniteSet(Keys)
    /\ Rotating \subseteq Requests
    /\ MaxConnections \in Nat \ {0}
    /\ MaxLifetime \in Nat \ {0}
    /\ IdleTimeout \in Nat \ {0}
    /\ MaxRotations \in Nat
    /\ None \notin Requests \cup Keys \cup Attempts

VARIABLES
    entries,   \* pool.entries: key -> entry
    inflight,  \* pool.inflight: key -> attempt
    stopping,  \* pool.stopping
    mu,        \* the request holding pool.mu between two steps, or None
    attempt,   \* the goroutine and the connection of each identifier
    entry,     \* the securityContextEntry fields of each identifier
    request,   \* the local state of each acquire call
    tracker    \* the identityTracker of each request's adapted context

vars == <<entries, inflight, stopping, mu, attempt, entry, request, tracker>>

----------------------------------------------------------------------------
NoTimer == -1

\* Where an acquire call can be: at the head of the loop, about to lock,
\* holding the mutex after the scan, in the select.
Acquiring == {"start", "lock", "scanned", "waiting"}

Errors == {"context", "credential", "closed", "reconnecting", "limit", "connect"}

AttemptType ==
    [phase : {"dialing", "dialed", "failed", "done"},
     err   : {None, "closed", "connect"},
     owner : Requests \cup {None},
     key   : Keys \cup {None},
     conn  : {"connected", "reconnecting", "closed"},
     auth  : Keys \cup {None}]

EntryType ==
    [age        : 0 .. MaxLifetime,
     idle       : 0 .. IdleTimeout,
     references : Int,
     expired    : BOOLEAN,
     generation : Nat,
     timer      : {NoTimer} \cup 0 .. MaxLifetime,
     callbacks  : Nat]

RequestType ==
    [pc   : {"idle", "leased"} \cup Acquiring,
     key  : Keys \cup {None},
     on   : Attempts \cup {None},
     done : BOOLEAN,
     err  : Errors \cup {None}]

TrackerType == [key : Keys \cup {None}, generation : Nat]

\* Every variable keeps to the values the program can store in it.
TypeOK ==
    /\ entries \in [Keys -> Attempts \cup {None}]
    /\ inflight \in [Keys -> Attempts \cup {None}]
    /\ stopping \in BOOLEAN
    /\ mu \in Requests \cup {None}
    /\ attempt \in [Attempts -> AttemptType]
    /\ entry \in [Attempts -> EntryType]
    /\ request \in [Requests -> RequestType]
    /\ tracker \in [Requests -> TrackerType]

FreshEntry ==
    [age |-> 0, idle |-> 0, references |-> 0, expired |-> FALSE,
     generation |-> 0, timer |-> NoTimer, callbacks |-> 0]

\* An attempt that has reported error e and whose connection is closed.  Its
\* other fields are forgotten: the pool no longer reaches them, and leases and
\* timer callbacks that outlive the entry only compare its address.
Discarded(e) ==
    [phase |-> "done", err |-> e, owner |-> None, key |-> None,
     conn |-> "closed", auth |-> None]

Returned(e) ==
    [pc |-> "idle", key |-> None, on |-> None, done |-> FALSE, err |-> e]

Init ==
    /\ entries = [k \in Keys |-> None]
    /\ inflight = [k \in Keys |-> None]
    /\ stopping = FALSE
    /\ mu = None
    /\ attempt = [a \in Attempts |-> Discarded(None)]
    /\ entry = [a \in Attempts |-> FreshEntry]
    /\ request = [r \in Requests |-> Returned(None)]
    /\ tracker = [r \in Requests |-> [key |-> None, generation |-> 0]]

----------------------------------------------------------------------------
(* What the pool holds.                                                    *)

\* pool.entries[attempt's key] is this very entry (the pointer comparison
\* made by release and expire).
InPool(a) == attempt[a].key # None /\ entries[attempt[a].key] = a

EntryKeys == {k \in Keys : entries[k] # None}

InflightKeys == {k \in Keys : inflight[k] # None}

Connecting(a) == attempt[a].phase \in {"dialing", "dialed", "failed"}

Holders(a) == {r \in Requests : request[r].pc = "leased" /\ request[r].on = a}

----------------------------------------------------------------------------
(* Credential identity (credentials.go).                                   *)

\* What the credential callback of context r may return: a static mechanism
\* always presents the same credential.
Presentable(r) ==
    IF r \in Rotating /\ tracker[r].generation < MaxRotations
    THEN Keys ELSE {tracker[r].key}

\* identityTracker.observe: the generation counts changes of the credential.
observe(r, k) ==
    tracker' = IF tracker[r].key # k
               THEN [tracker EXCEPT ![r] =
                        [key |-> k, generation |-> tracker[r].generation + 1]]
               ELSE tracker

\* Context.IdentityChanged for the context the entry was dialled with.
IdentityChanged(a) ==
    tracker[attempt[a].owner].generation # entry[a].generation

----------------------------------------------------------------------------
(* Entries and their timers.                                               *)

Lesser(m, n) == IF m <= n THEN m ELSE n

\* Mutant: the age is added to the lifetime instead of subtracted from it.
scheduleLockedAddsAge(e) ==
    [e EXCEPT !.timer = IF e.expired THEN NoTimer ELSE MaxLifetime + e.age]

\* Mutant: an entry nobody holds gets no timer.
scheduleLockedHeldOnly(e) ==
    [e EXCEPT !.timer = IF e.expired \/ e.references = 0 THEN NoTimer ELSE MaxLifetime - e.age]

\* scheduleLocked: the delay until the lifetime ends, or until the idle
\* timeout if that is sooner and nobody holds the entry.
scheduleLocked(e) ==
    [e EXCEPT !.timer =
        CASE e.expired -> NoTimer
          [] ~e.expired /\ e.references = 0 ->
                Lesser(MaxLifetime - e.age, IdleTimeout - e.idle)
          [] OTHER -> MaxLifetime - e.age]

\* Mutant: the use is noted but the reference is not counted.
UsedUncounted(a, n) == [entry[a] EXCEPT !.idle = 0]

\* The entry once n references are added and lastUsed is now.
Used(a, n) == [entry[a] EXCEPT !.references = entry[a].references + n, !.idle = 0]

Aged(a) == entry[a].age >= MaxLifetime

IdledOut(a) == entry[a].idle >= IdleTimeout

Unreferenced(a) == entry[a].references = 0

\* evictIdleLocked: what it removes.
evictIdleLocked ==
    {a \in Attempts : InPool(a) /\ Unreferenced(a) /\ (entry[a].expired \/ IdledOut(a))}

\* removeLocked, for every entry in S: out of the map, timer stopped,
\* connection closed.  A timer callback already started is not recalled.
RemainingEntries(S) == [k \in Keys |-> IF entries[k] \in S THEN None ELSE entries[k]]

StoppedTimers(S) ==
    [a \in Attempts |->
        IF a \in S THEN [FreshEntry EXCEPT !.callbacks = entry[a].callbacks] ELSE entry[a]]

ClosedConnections(S) ==
    [a \in Attempts |-> IF a \in S THEN Discarded(None) ELSE attempt[a]]

removeLocked(S) ==
    /\ entries' = RemainingEntries(S)
    /\ entry' = StoppedTimers(S)
    /\ attempt' = ClosedConnections(S)

\* Mutant: dials in flight do not count against the limit.
OccupancyEntriesOnly(S) == Cardinality({k \in EntryKeys : entries[k] \notin S})

\* len(pool.entries) + len(pool.inflight) once S has been removed.
Occupancy(S) ==
    Cardinality({k \in EntryKeys : entries[k] \notin S}) + Cardinality(InflightKeys)

Full(S) == Occupancy(S) >= MaxConnections

----------------------------------------------------------------------------
(* acquire (lines 57-117).                                                 *)

\* acquire continues at pc, holding on to the attempt or entry x.
Goto(r, pc, x) ==
    request' = [request EXCEPT ![r] = [request[r] EXCEPT !.pc = pc, !.on = x]]

Fail(r, e) == request' = [request EXCEPT ![r] = Returned(e)]

\* Nothing reaches the objects identified by a any more.
Reusable(a) ==
    /\ attempt[a].phase = "done" /\ ~InPool(a)
    /\ entry[a].callbacks = 0
    /\ \A r \in Requests : request[r].on # a

\* The adapted context of r is still used by a dial or by a pooled entry.
ContextReferenced(r) ==
    \E a \in Attempts : attempt[a].owner = r /\ (Connecting(a) \/ InPool(a))

\* A handler adapts the caller's credential k and calls acquire.
Begin(r, k) ==
    /\ request[r].pc = "idle" /\ ~ContextReferenced(r)
    /\ request' = [request EXCEPT ![r] =
                    [pc |-> "start", key |-> k, on |-> None, done |-> FALSE, err |-> None]]
    /\ tracker' = [tracker EXCEPT ![r] = [key |-> k, generation |-> 0]]
    /\ UNCHANGED <<entries, inflight, stopping, mu, attempt, entry>>

\* The request's context is cancelled by the client or reaches its deadline,
\* at any time; acquire looks at it at the head of the loop and while it waits.
ContextDone(r) ==
    /\ request[r].pc \in Acquiring /\ ~request[r].done
    /\ request' = [request EXCEPT ![r].done = TRUE]
    /\ UNCHANGED <<entries, inflight, stopping, mu, attempt, entry, tracker>>

\* Head of the loop: the context is already done.
AcquireCancelled(r) ==
    /\ request[r].pc = "start" /\ request[r].done
    /\ Fail(r, "context")
    /\ UNCHANGED <<entries, inflight, stopping, mu, attempt, entry, tracker>>

\* Mutant: the digest does not depend on the secret.
RefreshIdentityCollides(r, k) ==
    /\ request[r].pc = "start" /\ ~request[r].done
    /\ k \in Presentable(r)
    /\ observe(r, k)
    /\ request' = [request EXCEPT ![r] =
        [request[r] EXCEPT !.pc = "lock", !.key = CHOOSE x \in Keys : TRUE, !.on = None]]
    /\ UNCHANGED <<entries, inflight, stopping, mu, attempt, entry>>

\* Head of the loop: RefreshIdentity, before the pool mutex is taken.
RefreshIdentity(r, k) ==
    /\ request[r].pc = "start" /\ ~request[r].done
    /\ k \in Presentable(r)
    /\ observe(r, k)
    /\ request' = [request EXCEPT ![r] =
                    [request[r] EXCEPT !.pc = "lock", !.key = k, !.on = None]]
    /\ UNCHANGED <<entries, inflight, stopping, mu, attempt, entry>>

\* RefreshIdentity fails: the callback of a rotating credential failed.
RefreshFails(r) ==
    /\ request[r].pc = "start" /\ ~request[r].done
    /\ r \in Rotating
    /\ Fail(r, "credential")
    /\ UNCHANGED <<entries, inflight, stopping, mu, attempt, entry, tracker>>

AcquireStopped(r) ==
    /\ request[r].pc = "lock" /\ mu = None /\ stopping
    /\ Fail(r, "closed")
    /\ UNCHANGED <<entries, inflight, stopping, mu, attempt, entry, tracker>>

\* Mutant: an entry whose identity changed is removed although it is leased.
AcquireScanRemovesHeld(r) ==
    /\ request[r].pc = "lock" /\ mu = None /\ ~stopping
    /\ \E a \in Attempts : Reusable(a)
    /\ mu' = r
    /\ request' = [request EXCEPT ![r].pc = "scanned"]
    /\ removeLocked({a \in Attempts : InPool(a) /\ IdentityChanged(a)})
    /\ UNCHANGED <<inflight, stopping, tracker>>

\* Lock and evictChangedLocked.  The mutex stays held: trackers and
\* connections, which have their own locks, may still change before the
\* lookup.  A reusable identifier must exist, so that a dial can be named.
AcquireScan(r) ==
    LET changed == {a \in Attempts : InPool(a) /\ IdentityChanged(a)}
        removed == {a \in changed : Unreferenced(a)}
    IN  /\ request[r].pc = "lock" /\ mu = None /\ ~stopping
        /\ \E a \in Attempts : Reusable(a)
        /\ mu' = r
        /\ request' = [request EXCEPT ![r].pc = "scanned"]
        /\ entries' = RemainingEntries(removed)
        /\ attempt' = ClosedConnections(removed)
        /\ entry' = [a \in Attempts |->
                        IF a \in changed \ removed
                        THEN [entry[a] EXCEPT !.expired = TRUE]
                        ELSE StoppedTimers(removed)[a]]
        /\ UNCHANGED <<inflight, stopping, tracker>>

\* The entry found under the request's key, while r holds the mutex.
Found(r) == entries[request[r].key]

Looking(r) == request[r].pc = "scanned" /\ mu = r

Stale(a) == entry[a].expired \/ Aged(a)

\* The entry is too old and still leased to others.
AcquireStale(r) ==
    /\ Looking(r) /\ Found(r) # None
    /\ Stale(Found(r)) /\ ~Unreferenced(Found(r))
    /\ entry' = [entry EXCEPT ![Found(r)].expired = TRUE]
    /\ Fail(r, "reconnecting") /\ mu' = None
    /\ UNCHANGED <<entries, inflight, stopping, attempt, tracker>>

\* Mutant: the early return forgets the mutex.
AcquireDisconnectedLocked(r) ==
    /\ Looking(r) /\ Found(r) # None
    /\ ~Stale(Found(r)) /\ attempt[Found(r)].conn # "connected"
    /\ Fail(r, "reconnecting")
    /\ UNCHANGED <<entries, inflight, stopping, mu, attempt, entry, tracker>>

\* The connection under the key is being restored by the library.
AcquireDisconnected(r) ==
    /\ Looking(r) /\ Found(r) # None
    /\ ~Stale(Found(r)) /\ attempt[Found(r)].conn # "connected"
    /\ Fail(r, "reconnecting") /\ mu' = None
    /\ UNCHANGED <<entries, inflight, stopping, attempt, entry, tracker>>

\* leaseLocked: the request becomes a holder of the entry.
AcquireLease(r) ==
    /\ Looking(r) /\ Found(r) # None
    /\ ~Stale(Found(r)) /\ attempt[Found(r)].conn = "connected"
    /\ entry' = [entry EXCEPT ![Found(r)] = scheduleLocked(Used(Found(r), 1))]
    /\ Goto(r, "leased", Found(r))
    /\ mu' = None
    /\ UNCHANGED <<entries, inflight, stopping, attempt, tracker>>

\* No usable entry is left under the key: there was none, or it was stale and
\* unreferenced and is removed by this step.
Vacant(r) == Found(r) # None => Stale(Found(r)) /\ Unreferenced(Found(r))

\* The entry that Vacant removes.
Dead(r) == {a \in Attempts : a = Found(r)}

\* Another request is dialling this key: wait for its attempt.
AcquireJoin(r) ==
    /\ Looking(r) /\ Vacant(r)
    /\ inflight[request[r].key] # None
    /\ removeLocked(Dead(r))
    /\ Goto(r, "waiting", inflight[request[r].key])
    /\ mu' = None
    /\ UNCHANGED <<inflight, stopping, tracker>>

\* What makes room for a new dial: idle entries go only if the pool is full.
MadeRoom(r) == IF Full(Dead(r)) THEN Dead(r) \cup evictIdleLocked ELSE Dead(r)

AcquireLimit(r) ==
    /\ Looking(r) /\ Vacant(r)
    /\ inflight[request[r].key] = None
    /\ Full(MadeRoom(r))
    /\ removeLocked(MadeRoom(r))
    /\ Fail(r, "limit") /\ mu' = None
    /\ UNCHANGED <<inflight, stopping, tracker>>

\* Start a connectContext goroutine for the key and wait for it.
AcquireDial(r, a) ==
    /\ Looking(r) /\ Vacant(r)
    /\ inflight[request[r].key] = None
    /\ ~Full(MadeRoom(r))
    /\ Reusable(a)
    /\ entries' = RemainingEntries(MadeRoom(r))
    /\ entry' = StoppedTimers(MadeRoom(r))
    /\ inflight' = [inflight EXCEPT ![request[r].key] = a]
    /\ attempt' = [ClosedConnections(MadeRoom(r)) EXCEPT ![a] =
                    [phase |-> "dialing", err |-> None, owner |-> r,
                     key |-> request[r].key, conn |-> "closed", auth |-> None]]
    /\ Goto(r, "waiting", a)
    /\ mu' = None
    /\ UNCHANGED <<stopping, tracker>>

\* The select: the context is done.
WaitCancelled(r) ==
    /\ request[r].pc = "waiting" /\ request[r].done
    /\ Fail(r, "context")
    /\ UNCHANGED <<entries, inflight, stopping, mu, attempt, entry, tracker>>

\* The select: the attempt is done; report its error or run the loop again.
WaitAttempt(r) ==
    LET a == request[r].on
    IN  /\ request[r].pc = "waiting" /\ attempt[a].phase = "done"
        /\ IF attempt[a].err # None
           THEN Fail(r, attempt[a].err)
           ELSE Goto(r, "start", None)
        /\ UNCHANGED <<entries, inflight, stopping, mu, attempt, entry, tracker>>

----------------------------------------------------------------------------
(* connectContext (lines 131-169).                                         *)

\* Mutant: the in-flight record is dropped before the entry is installed.
DialSucceedsUnregistered(a, k) ==
    /\ attempt[a].phase = "dialing"
    /\ k \in Presentable(attempt[a].owner)
    /\ observe(attempt[a].owner, k)
    /\ attempt' = [attempt EXCEPT ![a] =
                    [attempt[a] EXCEPT !.phase = "dialed", !.conn = "connected", !.auth = k]]
    /\ inflight' = [inflight EXCEPT ![attempt[a].key] = None]
    /\ UNCHANGED <<entries, stopping, mu, entry, request>>

\* pool.connect succeeds, outside the mutex: the server accepted credential k.
DialSucceeds(a, k) ==
    /\ attempt[a].phase = "dialing"
    /\ k \in Presentable(attempt[a].owner)
    /\ observe(attempt[a].owner, k)
    /\ attempt' = [attempt EXCEPT ![a] =
                    [attempt[a] EXCEPT !.phase = "dialed", !.conn = "connected", !.auth = k]]
    /\ UNCHANGED <<entries, inflight, stopping, mu, entry, request>>

\* pool.connect fails or runs into the leader's timeout, possibly after the
\* credential callback returned k.
DialFails(a, k) ==
    /\ attempt[a].phase = "dialing"
    /\ k \in Presentable(attempt[a].owner)
    /\ observe(attempt[a].owner, k)
    /\ attempt' = [attempt EXCEPT ![a].phase = "failed"]
    /\ UNCHANGED <<entries, inflight, stopping, mu, entry, request>>

\* The identity under which the dialled connection enters the pool.
ObservedKey(a) == tracker[attempt[a].owner].key

DialReported(a) == inflight' = [inflight EXCEPT ![attempt[a].key] = None]

\* Lines 141-148: the dial failed.
InstallFailed(a) ==
    /\ attempt[a].phase = "failed" /\ mu = None
    /\ DialReported(a)
    /\ attempt' = [attempt EXCEPT ![a] = Discarded("connect")]
    /\ UNCHANGED <<entries, stopping, mu, entry, request, tracker>>

\* Mutant: the connection that came too late is not closed.
InstallStoppedOpen(a) ==
    /\ attempt[a].phase = "dialed" /\ mu = None /\ stopping
    /\ DialReported(a)
    /\ attempt' = [attempt EXCEPT ![a].phase = "done"]
    /\ UNCHANGED <<entries, stopping, mu, entry, request, tracker>>

\* Lines 150-155: the pool was closed while the dial was running.
InstallStopped(a) ==
    /\ attempt[a].phase = "dialed" /\ mu = None /\ stopping
    /\ DialReported(a)
    /\ attempt' = [attempt EXCEPT ![a] = Discarded("closed")]
    /\ UNCHANGED <<entries, stopping, mu, entry, request, tracker>>

\* Mutant: the superfluous connection is not closed.
InstallDuplicateOpen(a) ==
    /\ attempt[a].phase = "dialed" /\ mu = None /\ ~stopping
    /\ entries[ObservedKey(a)] # None
    /\ DialReported(a)
    /\ attempt' = [attempt EXCEPT ![a].phase = "done"]
    /\ UNCHANGED <<entries, stopping, mu, entry, request, tracker>>

\* Lines 156-160: the observed identity already has an entry.
InstallDuplicate(a) ==
    /\ attempt[a].phase = "dialed" /\ mu = None /\ ~stopping
    /\ entries[ObservedKey(a)] # None
    /\ DialReported(a)
    /\ attempt' = [attempt EXCEPT ![a] = Discarded(None)]
    /\ UNCHANGED <<entries, stopping, mu, entry, request, tracker>>

\* Mutant: the dial does not look at stopping before it inserts.
InstallEntryUnchecked(a) ==
    /\ attempt[a].phase = "dialed" /\ mu = None
    /\ entries[ObservedKey(a)] = None
    /\ DialReported(a)
    /\ entries' = [entries EXCEPT ![ObservedKey(a)] = a]
    /\ attempt' = [attempt EXCEPT ![a] =
                    [attempt[a] EXCEPT !.phase = "done", !.key = ObservedKey(a)]]
    /\ entry' = [entry EXCEPT ![a] = scheduleLocked(FreshEntry)]
    /\ UNCHANGED <<stopping, mu, request, tracker>>

\* Lines 161-168: a new entry with no references and an idle timer.
InstallEntry(a) ==
    /\ attempt[a].phase = "dialed" /\ mu = None /\ ~stopping
    /\ entries[ObservedKey(a)] = None
    /\ DialReported(a)
    /\ entries' = [entries EXCEPT ![ObservedKey(a)] = a]
    /\ attempt' = [attempt EXCEPT ![a] =
                    [attempt[a] EXCEPT !.phase = "done", !.key = ObservedKey(a)]]
    /\ entry' = [entry EXCEPT ![a] =
                    scheduleLocked([FreshEntry EXCEPT
                        !.generation = tracker[attempt[a].owner].generation])]
    /\ UNCHANGED <<stopping, mu, request, tracker>>

----------------------------------------------------------------------------
(* release, expire and close (lines 183-241, 270-277).                     *)

\* Mutant: release looks at the age only, not at the expired mark.
LastReleaseUnmarked(a) == entry[a].references = 1 /\ (stopping \/ Aged(a))

\* release gives up the last reference of an entry that may not be kept.
LastRelease(a) ==
    entry[a].references = 1 /\ (stopping \/ entry[a].expired \/ Aged(a))

Release(r) ==
    LET a == request[r].on
    IN  /\ request[r].pc = "leased" /\ mu = None
        /\ request' = [request EXCEPT ![r] = Returned(None)]
        /\ \/ /\ entries[request[r].key] # a
              /\ UNCHANGED <<entries, attempt, entry>>
           \/ /\ entries[request[r].key] = a /\ LastRelease(a)
              /\ removeLocked({a})
           \/ /\ entries[request[r].key] = a /\ ~LastRelease(a)
              /\ entry' = [entry EXCEPT ![a] = scheduleLocked(Used(a, -1))]
              /\ UNCHANGED <<entries, attempt>>
        /\ UNCHANGED <<inflight, stopping, mu, tracker>>

\* time.AfterFunc starts the callback of a due timer in its own goroutine.
TimerFires(a) ==
    /\ entry[a].timer = 0
    /\ entry' = [entry EXCEPT ![a] =
                    [entry[a] EXCEPT !.timer = NoTimer, !.callbacks = entry[a].callbacks + 1]]
    /\ UNCHANGED <<entries, inflight, stopping, mu, attempt, request, tracker>>

\* Mutant: expire does not look at the references.
ExpireRemovesHeld(a) == Aged(a) \/ IdledOut(a)

\* expire removes an entry only if nobody holds it.
ExpireRemoves(a) == Unreferenced(a) /\ (Aged(a) \/ IdledOut(a))

\* The callback gets the mutex.  It may be stale: the entry may have been
\* removed, leased or rescheduled since the timer fired.
expire(a) ==
    LET run == [entry[a] EXCEPT !.callbacks = entry[a].callbacks - 1]
        marked == [run EXCEPT !.expired = entry[a].expired \/ Aged(a)]
    IN  /\ entry[a].callbacks > 0 /\ mu = None
        /\ \/ /\ ~InPool(a)
              /\ entry' = [entry EXCEPT ![a] = run]
              /\ UNCHANGED <<entries, attempt>>
           \/ /\ InPool(a) /\ ExpireRemoves(a)
              /\ entries' = RemainingEntries({a})
              /\ attempt' = ClosedConnections({a})
              /\ entry' = [entry EXCEPT ![a] = [FreshEntry EXCEPT !.callbacks = run.callbacks]]
           \/ /\ InPool(a) /\ ~ExpireRemoves(a)
              /\ entry' = [entry EXCEPT ![a] =
                            IF marked.expired THEN marked ELSE scheduleLocked(marked)]
              /\ UNCHANGED <<entries, attempt>>
        /\ UNCHANGED <<inflight, stopping, mu, request, tracker>>

\* close, called by Handler.Cleanup.
close ==
    /\ mu = None
    /\ stopping' = TRUE
    /\ removeLocked({a \in Attempts : InPool(a)})
    /\ UNCHANGED <<inflight, mu, request, tracker>>

----------------------------------------------------------------------------
(* The environment: the clock and the NATS client library.                 *)

\* One tick later: ages saturate where they are compared, timers come due.
Elapsed(e) ==
    [e EXCEPT !.age = Lesser(e.age + 1, MaxLifetime),
              !.idle = Lesser(e.idle + 1, IdleTimeout),
              !.timer = IF e.timer > 0 THEN e.timer - 1 ELSE e.timer]

Tick ==
    /\ entry' = [a \in Attempts |-> IF InPool(a) THEN Elapsed(entry[a]) ELSE entry[a]]
    /\ UNCHANGED <<entries, inflight, stopping, mu, attempt, request, tracker>>

ConnectionLost(a) ==
    /\ attempt[a].conn = "connected"
    /\ attempt' = [attempt EXCEPT ![a].conn = "reconnecting"]
    /\ UNCHANGED <<entries, inflight, stopping, mu, entry, request, tracker>>

\* The library reconnects: it calls the credential callback, and the server
\* accepts (restored) or refuses the credential k it returned.
Reconnect(a, k, restored) ==
    /\ attempt[a].conn = "reconnecting"
    /\ k \in Presentable(attempt[a].owner)
    /\ observe(attempt[a].owner, k)
    /\ attempt' = IF restored
                  THEN [attempt EXCEPT ![a] =
                    [attempt[a] EXCEPT !.conn = "connected", !.auth = k]]
                  ELSE attempt
    /\ UNCHANGED <<entries, inflight, stopping, mu, entry, request>>

\* The library gives up (max_reconnects, repeated authorization errors).
ReconnectsExhausted(a) ==
    /\ attempt[a].conn = "reconnecting"
    /\ attempt' = [attempt EXCEPT ![a].conn = "closed"]
    /\ UNCHANGED <<entries, inflight, stopping, mu, entry, request, tracker>>

----------------------------------------------------------------------------
RequestStep(r) ==
    \/ AcquireCancelled(r)
    \/ \E k \in Keys : RefreshIdentity(r, k)
    \/ RefreshFails(r)
    \/ AcquireStopped(r)
    \/ AcquireScan(r)
    \/ AcquireStale(r)
    \/ AcquireDisconnected(r)
    \/ AcquireLease(r)
    \/ AcquireJoin(r)
    \/ AcquireLimit(r)
    \/ \E a \in Attempts : AcquireDial(r, a)
    \/ WaitCancelled(r)
    \/ WaitAttempt(r)

\* The critical section that ends a dial.
Install(a) ==
    \/ InstallFailed(a)
    \/ InstallStopped(a)
    \/ InstallDuplicate(a)
    \/ InstallEntry(a)

Dial(a) == \E k \in Keys : DialSucceeds(a, k) \/ DialFails(a, k)

Library(a) ==
    \/ ConnectionLost(a)
    \/ \E k \in Keys, restored \in BOOLEAN : Reconnect(a, k, restored)
    \/ ReconnectsExhausted(a)

Next ==
    \/ \E r \in Requests :
        \/ \E k \in Keys : Begin(r, k)
        \/ ContextDone(r)
        \/ RequestStep(r)
        \/ Release(r)
    \/ \E a \in Attempts :
        \/ Dial(a)
        \/ Install(a)
        \/ TimerFires(a)
        \/ expire(a)
        \/ Library(a)
    \/ close
    \/ Tick

Spec == Init /\ [][Next]_vars

\* Goroutines that can run do run; sync.Mutex is starvation free, so a
\* goroutine that finds the mutex free again and again gets it; timers fire
\* and time passes; every request context carries a timeout; nats.Connect
\* returns within its timeout; a handler does not keep its lease for ever
\* (request/reply by its timeout, a stream by its maximum duration).  The last is
\* an assumption about a client of HTTP/1 that stalls in its body: until it sends
\* or leaves, the read outlasts the timeout (translation.go 62).
Fairness ==
    /\ \A r \in Requests :
        /\ SF_vars(RequestStep(r) \/ Release(r))
        /\ WF_vars(ContextDone(r))
    /\ \A a \in Attempts :
        /\ SF_vars(Dial(a) \/ Install(a))
        /\ WF_vars(TimerFires(a))
        /\ SF_vars(expire(a))
    /\ WF_vars(Tick)

FairSpec == Spec /\ Fairness

----------------------------------------------------------------------------
(* Properties.                                                             *)

\* MaxConnections bounds pooled connections and dials in flight together,
\* whatever acquires, dials, evictions and identity changes interleave
\* (lines 96-102 against the delete and insert of connectContext).
ConnectionLimit == Cardinality(EntryKeys) + Cardinality(InflightKeys) <= MaxConnections

\* entry.references is the number of leases not yet released on a pooled
\* entry (lines 86 and 189): neither lost nor counted twice.
ReferencesExact ==
    \A a \in Attempts : InPool(a) => entry[a].references = Cardinality(Holders(a))

\* The pool never takes a leased connection away from its holder, except by
\* close: until then the lease's entry is the one pooled under its key.
LeasedStaysPooled ==
    \A r \in Requests :
        request[r].pc = "leased" /\ ~stopping => entries[request[r].key] = request[r].on

\* No connection leaks: one that the library keeps open is in the pool or
\* still in the hands of the goroutine that dialled it.
NoLeak ==
    \A a \in Attempts :
        attempt[a].conn \in {"connected", "reconnecting"} =>
            InPool(a) \/ attempt[a].phase = "dialed"

\* Every pooled entry is on its way out: one not yet expired has a timer or a
\* callback pending, and one already expired has a holder whose release will
\* remove it (scheduleLocked leaves an expired entry without a timer).
NothingStranded ==
    \A a \in Attempts : InPool(a) =>
        IF entry[a].expired
        THEN ~Unreferenced(a)
        ELSE entry[a].timer # NoTimer \/ entry[a].callbacks > 0

\* Once closed the pool holds no entry again, even when dials that were in
\* flight finish later (lines 150-155).
StoppedEmpty == stopping => EntryKeys = {}

\* One dial at a time per credential: an attempt that has not reported is the
\* one registered under its key (lines 94-106).
SingleFlight ==
    \A a \in Attempts : Connecting(a) => inflight[attempt[a].key] = a

\* Two security contexts share a connection only if they present the same
\* credential, as long as neither has seen its credential change: the digest is
\* what keeps callers apart (acquire's lookup, ObservedIdentity at line 149).
CredentialIsolation ==
    \A r \in Requests :
        LET a == request[r].on
        IN  /\ request[r].pc = "leased" /\ InPool(a)
            /\ tracker[r].generation = 0 /\ tracker[attempt[a].owner].generation = 0
            => attempt[a].auth = tracker[r].key

\* Granting a lease hands out a connection authenticated as the identity under
\* which the request looked it up.
GrantIsAuthentic ==
    [][\A r \in Requests :
        request[r].pc # "leased" /\ request'[r].pc = "leased" =>
            attempt[request'[r].on].auth = request[r].key]_vars

\* Every acquire returns: a lease or an error.
AcquireAnswered ==
    \A r \in Requests :
        (request[r].pc \in Acquiring)
            ~> (request[r].pc \in {"idle", "leased"})

\* Every pooled connection is eventually retired, however often it is leased
\* again (idle_timeout, max_lifetime and the release of the last reference), as
\* long as each of its holders gives its lease back some time.
EventuallyRetired ==
    \A a \in Attempts : InPool(a) ~> ~InPool(a)

\* After close every connection is closed for good, those still being dialled
\* at that moment too.
StopClosesAll ==
    stopping ~> [](\A a \in Attempts : attempt[a].conn = "closed")
=============================================================================
