------------------------------- MODULE MCPcq -------------------------------
(* Presets for Pcq, and a variant without failures. *)
EXTENDS Pcq

MCRate(dl, ul) == [f \in Fields |-> IF f = "dl" THEN dl ELSE IF f = "ul" THEN ul ELSE NULL]

\* A cap on downloads, and a stricter one with a cap on uploads.
MCPresets == {[clf |-> "dst-download", rate |-> MCRate(2, NULL)],
              [clf |-> "dual", rate |-> MCRate(1, 1)]}

\* Teardown deletes what it is asked to.
CalmTeardown(p) == Teardown(p) /\ tc' = Bare

CalmWork(p) == Load(p) \/ CalmTeardown(p) \/ ShapeDown(p) \/ ShapeUp(p)

\* Handlers, group pages and runs that succeed.
CalmNext == (\E p \in Procs : Handle(p) \/ Lock(p) \/ CalmWork(p)) \/ GroupPages

CalmSpec == Init /\ [][CalmNext]_vars
=============================================================================
