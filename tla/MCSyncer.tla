------------------------------ MODULE MCSyncer ------------------------------
(* Model values and bounds for Syncer. *)
EXTENDS Syncer

MCQuotas    == {NULL, 0, 1}
MCDayLimits == {NULL, 0, 1}
MCMaxBytes  == [rx |-> 2, tx |-> 1]

(***************************************************************************)
(* Without failures and restarts: what a claim's counterexample shows here *)
(* is not to be blamed on the host.                                        *)
(***************************************************************************)
CalmNext ==
  \/ SyncDump \/ SyncCommit \/ Tick
  \/ \E u \in Users, inc \in Increments : Traffic(u, inc)
  \/ \E p \in Procs : Request(p) /\ ~WriteFails(p) /\ ~ApplyFails(p)

CalmSpec == Init /\ [][CalmNext]_vars /\ Fairness
=============================================================================
