----------------------------- MODULE MCPipeline -----------------------------
(* Bounds, symmetry and a failure-free variant for Pipeline. *)
EXTENDS Pipeline, TLC

\* Users are interchangeable, and so are handlers.
Symmetry == Permutations(Users) \cup Permutations(Procs)

\* Without failures, restarts and the synchroniser: only requests overlap.
CalmNext == \E p \in Procs : Run(p)
CalmSpec == Init /\ [][CalmNext]_vars
=============================================================================
