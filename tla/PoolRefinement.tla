--------------------------- MODULE PoolRefinement ---------------------------
(***************************************************************************)
(* SecurityContextPool implements LeaseService: entries is the pool, and a *)
(* request holds a lease from AcquireLease to Release.                     *)
(***************************************************************************)
EXTENDS SecurityContextPool

HeldLease(r) ==
    IF request[r].pc = "leased"
    THEN [key |-> request[r].key, conn |-> request[r].on]
    ELSE [key |-> None, conn |-> None]

Service ==
    INSTANCE LeaseService WITH
        Clients <- Requests, Conns <- Attempts, Limit <- MaxConnections,
        pool <- entries, lease <- [r \in Requests |-> HeldLease(r)], closed <- stopping

\* Whatever dials, timers, evictions, rotations and releases interleave, the
\* callers see a lease service: a connection that is handed out was pooled under
\* the credential asked for, stays theirs until they return it or the pool
\* closes, and a closed pool hands out nothing (security_context.go 57-277).
ImplementsLeaseService == Service!Spec
=============================================================================
