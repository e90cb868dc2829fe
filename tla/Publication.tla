----------------------------- MODULE Publication -----------------------------
(***************************************************************************)
(* What publishing the user table promises: wg0.conf changes only as a     *)
(* whole, from one consistent reading of the table to the next, and the    *)
(* interface only ever takes over the whole of wg0.conf.                   *)
(***************************************************************************)
CONSTANTS Users, Missing, Down

VARIABLES
  db,      \* the enabled users
  taken,   \* a reading of db on its way into the file, or Missing
  conf,    \* the users in wg0.conf, or Missing
  iface    \* the peers on the interface, or Down

vars == <<db, taken, conf, iface>>

Init == db = {} /\ taken = Missing /\ conf = Missing /\ iface = Down

Change  == db' \in SUBSET Users /\ UNCHANGED <<taken, conf, iface>>
Take    == taken' = db /\ UNCHANGED <<db, conf, iface>>
Abandon == taken' = Missing /\ UNCHANGED <<db, conf, iface>>
Publish == taken # Missing /\ conf' = taken /\ taken' = Missing /\ UNCHANGED <<db, iface>>
Adopt   == conf # Missing /\ iface' = conf /\ UNCHANGED <<db, taken, conf>>
Restart == iface' \in {iface, Down} /\ taken' = Missing /\ UNCHANGED <<db, conf>>

Next == Change \/ Take \/ Abandon \/ Publish \/ Adopt \/ Restart

Spec == Init /\ [][Next]_vars
=============================================================================
