----------------------------- MODULE PeerLimits -----------------------------
(***************************************************************************)
(* LoadPeerLimits (internal/pcq/load.go): the rows of a join, in whatever  *)
(* order SQLite returns them, are merged into one limit per tunnel address.*)
(***************************************************************************)
EXTENDS Limits

CONSTANT AllRows   \* rows the join may return

ASSUME AllRowsAssumption == AllRows \subseteq JoinRow

VARIABLES
  rows,   \* what the query returns
  left,   \* the rows not yet scanned
  out     \* address -> merged limit; all zero stands for no entry

vars == <<rows, left, out>>

-----------------------------------------------------------------------------
Init ==
  /\ rows \in SUBSET AllRows
  /\ left = rows
  /\ out = [a \in Addrs |-> NoLimit]

Scan(r) ==
  /\ r \in left
  /\ left' = left \ {r}
  /\ out' = IF Counts(r) THEN [out EXCEPT ![r.addr] = Merge(@, classifyRow(r))]
            ELSE out
  /\ UNCHANGED rows

Next == \E r \in AllRows : Scan(r)

Spec == Init /\ [][Next]_vars

-----------------------------------------------------------------------------
(* Properties *)

TypeOK ==
  /\ rows \subseteq AllRows
  /\ left \subseteq rows
  /\ out \in [Addrs -> Limit]

(***************************************************************************)
(* Whatever the order of the rows, the result gives every address the      *)
(* strictest rate and burst of all the presets that count for it, and      *)
(* nothing where no preset sets one: a user in several groups, and users   *)
(* that share an address, never end up with the limit of the last row.     *)
(***************************************************************************)
StrictestWins == left = {} => out = Strictest(rows)
=============================================================================
