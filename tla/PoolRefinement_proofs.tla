----------------------- MODULE PoolRefinement_proofs -----------------------
(***************************************************************************)
(* SecurityContextPool implements LeaseService, for every number of        *)
(* requests, credentials and connections and every value of the limits.    *)
(* The pool's inductive invariant says what the mapping needs: counts are  *)
(* exact, so an entry without references has no holder; a lease stays      *)
(* pooled; the dial that inserts an entry still occupies a slot.           *)
(***************************************************************************)
EXTENDS PoolRefinement, SecurityContextPool_proofs

\* The lease of every request, as the mapping sees it.
HeldLeases == [r \in Requests |-> HeldLease(r)]

\* Mapped leases follow pc, key and on.
LEMMA MappedLeases ==
    ASSUME Core
    PROVE  /\ \A r \in Requests : HeldLeases[r].conn =
                IF request[r].pc = "leased" THEN request[r].on ELSE None
           /\ \A r \in Requests : HeldLeases[r] # Service!NoLease <=> request[r].pc = "leased"
<1>1. \A r \in Requests : request[r].pc = "leased" => request[r].on \in Attempts
  BY DEF Core, Addressed, RequestsPlaced
<1> QED
  BY <1>1, PoolAssumption DEF HeldLeases, HeldLease, Service!NoLease

\* The holders of a pooled connection are the same on both sides.
LEMMA MappedHolders ==
    ASSUME Core, NEW a \in Attempts
    PROVE  Service!HoldersOf(a) = Holders(a)
<1>1. Service!HoldersOf(a) = {r \in Requests : HeldLeases[r].conn = a}
  BY DEF Service!HoldersOf, HeldLeases
<1> QED
  BY <1>1, MappedLeases, PoolAssumption DEF Holders

\* A step that grants and ends no lease leaves the mapped leases alone.
LEMMA LeasesSame ==
    ASSUME LeasesKept
    PROVE  UNCHANGED HeldLeases
  BY DEF LeasesKept, HeldLeases, HeldLease

\* Taking entries out of the map retires the keys they were pooled under.
LEMMA MappedRemoval ==
    ASSUME Core, NEW S
    PROVE  RemainingEntries(S) = Service!Without({k \in Keys : entries[k] \in S})
  BY DEF RemainingEntries, Service!Without

\* The service counts as the pool does.
LEMMA MappedCardinality ==
    ASSUME NEW S
    PROVE  Service!Cardinality(S) = Cardinality(S)
  BY Zenon DEF Service!Cardinality, Cardinality

----------------------------------------------------------------------------
(* Every step of the pool is a step of the service, or none.               *)

\* Retiring unreferenced entries is Retire, or nothing if there are none.
LEMMA RetireRefines ==
    ASSUME Core, Safety, NEW S \in SUBSET Attempts, Retires(S)
    PROVE  \/ \E K \in SUBSET Service!PooledKeys : Service!Retire(K)
           \/ UNCHANGED Service!leaseVars
<1> DEFINE K == {k \in Keys : entries[k] \in S}
<1>1. UNCHANGED <<HeldLeases, stopping>> /\ entries' = Service!Without(K)
  BY LeasesSame, MappedRemoval DEF Retires
<1>2. \A k \in K : entries[k] # None /\ Service!HoldersOf(entries[k]) = {}
  <2> SUFFICES ASSUME NEW k \in K PROVE entries[k] # None /\ Service!HoldersOf(entries[k]) = {}
    OBVIOUS
  <2>1. entries[k] \in Attempts /\ InPool(entries[k]) /\ Unreferenced(entries[k])
    BY DEF Retires
  <2> QED
    BY <2>1, MappedHolders, UnreferencedUnheld, PoolAssumption DEF Safety
<1>3. K \in SUBSET Service!PooledKeys
  BY <1>2 DEF Service!PooledKeys
<1>4. CASE K = {}
  <2>1. entries' = entries
    BY <1>1, <1>4 DEF Service!Without, Core, TypeOK
  <2> QED
    BY <1>1, <2>1 DEF Service!leaseVars, HeldLeases
<1>5. CASE K # {}
  <2>1. Service!Retire(K)
    <3> HIDE DEF K
    <3> QED
      BY <1>1, <1>2, <1>5 DEF Service!Retire, HeldLeases
  <2> QED
    BY <1>3, <2>1
<1> QED
  BY <1>4, <1>5

\* A granted lease is on the connection pooled under the key asked for.
LEMMA LeaseRefines ==
    ASSUME Core, Safety, NEW r \in Requests, AcquireLease(r)
    PROVE  Service!Grant(r, request[r].key) /\ request[r].key \in Keys
<1> DEFINE b == Found(r)
           k == request[r].key
<1>1. k \in Keys /\ b = entries[k] /\ b # None /\ request[r].pc = "scanned" /\ ~stopping
  BY DEF Core, Addressed, RequestsPlaced, AcquireLease, Looking, Found, Safety, StoppedEmpty, EntryKeys
<1>2. /\ UNCHANGED <<entries, stopping>>
      /\ request' = [request EXCEPT ![r] = [request[r] EXCEPT !.pc = "leased", !.on = b]]
  BY DEF AcquireLease, Goto
<1> HIDE DEF b
<1>3. /\ request'[r].pc = "leased" /\ request'[r].on = b /\ request'[r].key = k
      /\ \A q \in Requests : q # r => request'[q] = request[q]
  BY <1>2 DEF Core, TypeOK, RequestType
<1>4. HeldLeases[r] = Service!NoLease
  BY <1>1 DEF HeldLeases, HeldLease, Service!NoLease
<1>5. HeldLeases' = [HeldLeases EXCEPT ![r] = [key |-> k, conn |-> entries[k]]]
  BY <1>1, <1>3 DEF HeldLeases, HeldLease
<1> QED
  BY <1>1, <1>2, <1>4, <1>5 DEF Service!Grant, HeldLeases

\* A lease that is given back takes its connection along only as the last one.
LEMMA ReleaseRefines ==
    ASSUME Core, Safety, NEW r \in Requests, Release(r)
    PROVE  Service!Return(r)
<1> DEFINE b == request[r].on
<1>1. /\ request[r].pc = "leased" /\ b \in Attempts /\ request[r].key \in Keys /\ r \in Holders(b)
      /\ stopping' = stopping /\ request' = [request EXCEPT ![r] = Returned(None)]
  BY DEF Core, Addressed, RequestsPlaced, Release, Holders
<1>2. HeldLeases[r] # Service!NoLease /\ HeldLeases[r].conn = b
  BY <1>1, MappedLeases
<1>3. HeldLeases' = [HeldLeases EXCEPT ![r] = Service!NoLease]
  <2>1. request'[r].pc = "idle" /\ \A q \in Requests : q # r => request'[q] = request[q]
    BY <1>1 DEF Returned, Core, TypeOK
  <2> QED
    BY <2>1 DEF HeldLeases, HeldLease, Service!NoLease
<1>4. \/ UNCHANGED entries
      \/ entries[request[r].key] = b /\ LastRelease(b) /\ entries' = RemainingEntries({b})
  BY DEF Release, removeLocked
<1>5. ASSUME entries[request[r].key] = b, LastRelease(b)
      PROVE  Service!HoldersOf(b) = {r}
  <2>1. InPool(b)
    BY <1>1, <1>5, PoolAssumption DEF Core, Addressed, EntriesAddressed, InPool
  <2> QED
    BY <1>1, <1>5, <2>1, SoleHolder, MappedHolders DEF Safety, LastRelease
<1> HIDE DEF b
<1>6. RemainingEntries({b}) = Service!Without({k \in Keys : entries[k] = b})
  BY DEF RemainingEntries, Service!Without
<1> QED
  BY <1>1, <1>2, <1>3, <1>4, <1>5, <1>6 DEF Service!Return, HeldLeases

\* The entry that is inserted takes the slot its dial held.
LEMMA InstallRefines ==
    ASSUME Core, Safety, NEW a \in Attempts, InstallEntry(a)
    PROVE  Service!Open(ObservedKey(a), a) /\ ObservedKey(a) \in Keys
<1> DEFINE k == ObservedKey(a)
<1>1. /\ k \in Keys /\ entries[k] = None /\ ~stopping /\ attempt[a].phase = "dialed"
      /\ entries' = [entries EXCEPT ![k] = a] /\ UNCHANGED <<stopping, request>>
      /\ attempt[a].key \in Keys /\ inflight[attempt[a].key] = a
  BY PoolAssumption DEF InstallEntry, ObservedKey, Connecting, Core, Addressed, DialsRegistered, TrackersKnown
<1> HIDE DEF k
<1>2. Service!Cardinality(Service!PooledKeys) < MaxConnections
  <2>1. Service!PooledKeys = EntryKeys
    BY DEF Service!PooledKeys, EntryKeys
  <2>2. attempt[a].key \in InflightKeys
    BY <1>1, PoolAssumption DEF InflightKeys
  <2>3. /\ Cardinality(EntryKeys) \in Nat /\ Cardinality(InflightKeys) \in Nat
        /\ Cardinality(InflightKeys) # 0
    BY <2>2, FiniteCounts, FS_CardinalityType, FS_EmptySet
  <2>4. Cardinality(EntryKeys) + Cardinality(InflightKeys) <= MaxConnections /\ MaxConnections \in Nat
    BY PoolAssumption DEF Safety, ConnectionLimit
  <2> QED
    BY <2>1, <2>3, <2>4, MappedCardinality
<1>3. \A j \in Keys : entries[j] # a
  BY <1>1, PoolAssumption DEF Core, Addressed, EntriesAddressed
<1>4. Service!HoldersOf(a) = {}
  <2>1. Holders(a) = {}
    BY <1>1 DEF Holders, Core, Addressed, RequestsPlaced
  <2> QED
    BY <2>1, MappedHolders
<1>5. a \notin Service!Range(entries)
  BY <1>3 DEF Service!Range, Core, TypeOK
<1>6. UNCHANGED HeldLeases
  BY <1>1 DEF HeldLeases, HeldLease
<1> QED
  BY <1>1, <1>2, <1>4, <1>5, <1>6 DEF Service!Open, HeldLeases, k

\* close empties the pool; closing it again changes nothing.
LEMMA CloseRefines ==
    ASSUME Core, Safety, close
    PROVE  Service!Close \/ UNCHANGED Service!leaseVars
<1>1. UNCHANGED HeldLeases /\ stopping' = TRUE
  BY DEF close, HeldLeases, HeldLease
<1>2. entries' = [k \in Keys |-> None]
  BY PoolAssumption DEF close, removeLocked, RemainingEntries, InPool, Core, TypeOK,
     Addressed, EntriesAddressed
<1>3. CASE ~stopping
  BY <1>1, <1>2, <1>3 DEF Service!Close, Service!Without, HeldLeases
<1>4. CASE stopping
  <2>1. \A k \in Keys : entries[k] = None
    BY <1>4 DEF Safety, StoppedEmpty, EntryKeys
  <2>2. entries' = entries
    BY <1>2, <2>1 DEF Core, TypeOK
  <2> QED
    BY <1>1, <1>4, <2>2 DEF Service!leaseVars, HeldLeases
<1> QED
  BY <1>3, <1>4

LEMMA RefinementStep ==
    ASSUME Invariant, [Next]_vars
    PROVE  [Service!Next]_(Service!leaseVars)
<1> USE DEF Invariant
<1>1. CASE RetireNext
  <2>1. PICK S \in SUBSET Attempts : Retires(S)
    BY <1>1, RetiringSteps
  <2> QED
    BY <2>1, RetireRefines DEF Service!Next
<1>2. ASSUME NEW r \in Requests, AcquireLease(r)
      PROVE  Service!Next
  BY <1>2, LeaseRefines DEF Service!Next
<1>3. ASSUME NEW r \in Requests, Release(r)
      PROVE  Service!Next
  BY <1>3, ReleaseRefines DEF Service!Next
<1>4. ASSUME NEW a \in Attempts, InstallEntry(a)
      PROVE  Service!Next
  BY <1>4, InstallRefines DEF Service!Next
<1>5. CASE close
  BY <1>5, CloseRefines DEF Service!Next
<1> QED
  BY <1>1, <1>2, <1>3, <1>4, <1>5, NextSplit DEF PoolNext, Install, RetireNext

\* Whatever dials, timers, evictions, rotations and releases interleave, the
\* callers see a lease service: a connection that is handed out was pooled under
\* the credential asked for, stays theirs until they return it or the pool
\* closes, and a closed pool hands out nothing (security_context.go 57-277).
THEOREM PoolIsLeaseService == Spec => ImplementsLeaseService
<1>1. Init => Service!Init
  BY DEF Init, Returned, HeldLease, Service!Init, Service!NoLease
<1>2. Invariant /\ [Next]_vars => [Service!Next]_(Service!leaseVars)
  BY RefinementStep
<1> QED
  BY <1>1, <1>2, InvariantHolds, PTL DEF Spec, ImplementsLeaseService, Service!Spec
=============================================================================
