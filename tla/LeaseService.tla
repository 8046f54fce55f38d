---------------------------- MODULE LeaseService ----------------------------
(***************************************************************************)
(* What the connection pool promises its callers (securityContextPool in   *)
(* security_context.go), without dials, timers, counts or the mutex: at    *)
(* most Limit connections are pooled, one per credential; a client is      *)
(* given the one pooled under its credential; a connection somebody holds  *)
(* is not retired, except when the pool closes; after that nothing is      *)
(* opened or granted.                                                      *)
(***************************************************************************)
EXTENDS Naturals, FiniteSets, Functions

CONSTANTS
    Clients,  \* callers of acquire
    Keys,     \* credentials
    Conns,    \* NATS connections
    Limit,    \* SecurityContext.MaxConnections
    None

VARIABLES
    pool,     \* credential -> the connection pooled under it
    lease,    \* client -> what it holds
    closed    \* the pool was closed

leaseVars == <<pool, lease, closed>>

NoLease == [key |-> None, conn |-> None]

Leases == [key : Keys, conn : Conns] \cup {NoLease}

Init ==
    /\ pool = [k \in Keys |-> None]
    /\ lease = [c \in Clients |-> NoLease]
    /\ closed = FALSE

PooledKeys == {k \in Keys : pool[k] # None}

\* The clients that hold connection x.
HoldersOf(x) == {c \in Clients : lease[c].conn = x}

\* A connection nobody knows of enters the pool.
Open(k, x) ==
    /\ ~closed /\ pool[k] = None
    /\ Cardinality(PooledKeys) < Limit
    /\ x \notin Range(pool) /\ HoldersOf(x) = {}
    /\ pool' = [pool EXCEPT ![k] = x]
    /\ UNCHANGED <<lease, closed>>

\* Client c asks for the connection of credential k and gets it.
Grant(c, k) ==
    /\ ~closed /\ lease[c] = NoLease /\ pool[k] # None
    /\ lease' = [lease EXCEPT ![c] = [key |-> k, conn |-> pool[k]]]
    /\ UNCHANGED <<pool, closed>>

Without(S) == [k \in Keys |-> IF k \in S THEN None ELSE pool[k]]

\* Client c gives its lease back; the last holder may retire the connection.
Return(c) ==
    /\ lease[c] # NoLease
    /\ lease' = [lease EXCEPT ![c] = NoLease]
    /\ \/ UNCHANGED pool
       \/ /\ HoldersOf(lease[c].conn) = {c}
          /\ pool' = Without({k \in Keys : pool[k] = lease[c].conn})
    /\ UNCHANGED closed

\* Connections nobody holds are retired.
Retire(S) ==
    /\ S # {} /\ \A k \in S : pool[k] # None /\ HoldersOf(pool[k]) = {}
    /\ pool' = Without(S)
    /\ UNCHANGED <<lease, closed>>

\* The pool closes all its connections, held or not.
Close ==
    /\ ~closed
    /\ closed' = TRUE
    /\ pool' = Without(Keys)
    /\ UNCHANGED lease

Next ==
    \/ \E k \in Keys, x \in Conns : Open(k, x)
    \/ \E c \in Clients, k \in Keys : Grant(c, k)
    \/ \E c \in Clients : Return(c)
    \/ \E S \in SUBSET PooledKeys : Retire(S)
    \/ Close

Spec == Init /\ [][Next]_leaseVars
=============================================================================
