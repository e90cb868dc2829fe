------------------------------- MODULE Limits -------------------------------
(***************************************************************************)
(* Rate limits in NetPlug's queues (internal/pcq/load.go): what one row    *)
(* counts for, how two limits merge, and what a set of rows amounts to.    *)
(* A row is one enabled member of one group with an enabled preset; equal  *)
(* rows are one here, as merging a row twice changes nothing.              *)
(***************************************************************************)
EXTENDS Integers

CONSTANTS
  NULL,     \* SQL NULL
  NoAddr,   \* allowed_ips names no tunnel IPv4 address
  Addrs     \* tunnel IPv4 addresses

Fields == {"dl", "ul", "bdl", "bul"}

ASSUME LimitsAssumption == NULL \notin Int /\ NoAddr \notin Addrs

Classifiers == {"dual", "dst-download", "src-upload"}
Rates       == [Fields -> Int \cup {NULL}]
JoinRow     == [addr : Addrs \cup {NoAddr}, clf : Classifiers, rate : Rates]

Limit   == [Fields -> Nat]
NoLimit == [f \in Fields |-> 0]

nz64(v) == IF v = NULL \/ v <= 0 THEN 0 ELSE v

\* The fields a classifier leaves in force.
Covered(clf) == CASE clf = "dst-download" -> {"dl", "bdl"}
                  [] clf = "src-upload"   -> {"ul", "bul"}
                  [] OTHER                -> Fields

classifyRow(r) == [f \in Fields |-> IF f \in Covered(r.clf) THEN nz64(r.rate[f]) ELSE 0]

\* A plausible slip: the last row wins.
mergeMinLast(cur, add) == IF add <= 0 THEN cur ELSE add

\* Zero means unlimited; otherwise the smaller one wins.
mergeMin(cur, add) == IF add > 0 /\ (cur <= 0 \/ add < cur) THEN add ELSE cur

Merge(cur, add) == [f \in Fields |-> mergeMin(cur[f], add[f])]

\* Rows without a tunnel address or without any rate are skipped, their burst
\* sizes with them.
Counts(r) == /\ r.addr # NoAddr
             /\ classifyRow(r)["dl"] > 0 \/ classifyRow(r)["ul"] > 0

\* What the rows in S give field f of address a.
Values(S, a, f) ==
  {classifyRow(r)[f] : r \in {r \in S : Counts(r) /\ r.addr = a}} \ {0}

Least(v) == IF v = {} THEN 0 ELSE CHOOSE n \in v : \A m \in v : n <= m

Strictest(S) == [a \in Addrs |-> [f \in Fields |-> Least(Values(S, a, f))]]
=============================================================================
