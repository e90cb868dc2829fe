------------------------------ MODULE MCSetup ------------------------------
(* Import files and symmetry for Setup. *)
EXTENDS Setup, TLC

MCEntry(n, c) == [name |-> n, peer |-> c]

\* No peers, as when keys are generated; and two peers under one name, of which
\* the second takes over.
MCFiles ==
  {<<>>} \cup {<<MCEntry(n, e[1]), MCEntry(n, e[2])>> :
                  n \in Names, e \in {e \in Peers \X Peers : e[1] # e[2]}}

\* Browsers, peers, settings and keys are interchangeable.
Symmetry == Permutations(Procs) \cup Permutations(Settings) \cup Permutations(Keys)
            \cup Permutations(Peers)
=============================================================================
