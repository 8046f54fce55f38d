---------------------- MODULE MCSecurityContextPool ----------------------
(* Model-checking instance of SecurityContextPool.                        *)
EXTENDS PoolRefinement, TLC

\* Requests, keys and attempt identifiers are interchangeable; used in runs
\* without liveness properties.
Symmetry ==
    Permutations(Requests \ Rotating) \cup Permutations(Rotating)
        \cup Permutations(Keys) \cup Permutations(Attempts)

\* States that differ only in what no action reads before it is overwritten
\* are the same state: the tracker of a context nobody uses any more and the
\* error of an acquire that has returned.
Observable ==
    <<entries, inflight, stopping, mu, attempt, entry,
      [r \in Requests |-> [request[r] EXCEPT !.err = None]],
      [r \in Requests |->
        IF request[r].pc = "idle" /\ ~ContextReferenced(r) THEN None ELSE tracker[r]]>>
=============================================================================
