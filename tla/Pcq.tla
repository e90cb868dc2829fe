-------------------------------- MODULE Pcq --------------------------------
(***************************************************************************)
(* Traffic shaping in NetPlug: handlers change users, groups, memberships  *)
(* and presets in the database and then reconcile (reconcilePCQ, pcq.Apply)*)
(* by tearing the interface's qdiscs down and building them again from what*)
(* the database holds by then, one Apply at a time under applyMu.          *)
(*                                                                         *)
(* Statements are atomic (one database connection) and interleave with     *)
(* everything else.  A statement that fails changes nothing and reconciles *)
(* nothing, so it is not a step here.  That the rows of the join, taken in *)
(* any order, merge to Strictest is the subject of module PeerLimits.      *)
(***************************************************************************)
EXTENDS Limits

CONSTANTS
  Users,     \* VPN users
  Groups,    \* VPN groups
  Presets,   \* what an admin may save for a group
  Procs,     \* handler goroutines, main() among them
  NoRow,     \* the user is not in vpn_users
  NoPreset,  \* the group has no row in vpn_group_pcq
  Free       \* nobody holds applyMu

UserRow   == [addr : Addrs \cup {NoAddr}, en : BOOLEAN]
PresetRow == [clf : Classifiers, rate : Rates, off : BOOLEAN]

ASSUME PcqAssumption ==
  /\ Groups # {}
  /\ Presets \subseteq [clf : Classifiers, rate : Rates]
  /\ NoRow \notin UserRow /\ NoPreset \notin PresetRow /\ Free \notin Procs

VARIABLES
  db,       \* the tables: row, groups, members, preset
  tc,       \* the qdiscs of the interface
  mu,       \* applyMu: its holder, or Free
  pc,       \* what each handler does next
  grp,      \* per handler, the group it works on
  val,      \* per handler, the is_disabled it is about to write
  plan,     \* per handler, the limits its Apply has loaded
  disabled, \* Config.PCQDisabled of the running process
  dirty     \* history: a change or a failure that no Apply has loaded since

handlers == <<pc, grp, val, plan>>
vars == <<db, tc, mu, handlers, disabled, dirty>>

-----------------------------------------------------------------------------
(* From the tables to the qdiscs. *)

Tables == [row : [Users -> UserRow \cup {NoRow}], groups : SUBSET Groups,
           members : SUBSET (Groups \X Users),
           preset : [Groups -> PresetRow \cup {NoPreset}]]

Joins(d, g, u) == /\ <<g, u>> \in d.members
                  /\ d.row[u] # NoRow /\ d.row[u].en
                  /\ d.preset[g] # NoPreset /\ ~d.preset[g].off

\* The query of LoadPeerLimits.
Join(d) ==
  {[addr |-> d.row[m[2]].addr, clf |-> d.preset[m[1]].clf, rate |-> d.preset[m[1]].rate] :
     m \in {m \in Groups \X Users : Joins(d, m[1], m[2])}}

Effective(d) == Strictest(Join(d))

\* A class with its filter (down) or a policer (up) of an address: rate and burst.
Unshaped == <<0, 0>>
Shape    == Nat \X Nat

Downloads(l) == [a \in Addrs |-> IF l[a]["dl"] > 0 THEN <<l[a]["dl"], l[a]["bdl"]>> ELSE Unshaped]
Uploads(l)   == [a \in Addrs |-> IF l[a]["ul"] > 0 THEN <<l[a]["ul"], l[a]["bul"]>> ELSE Unshaped]

None     == [a \in Addrs |-> Unshaped]
Bare     == [root |-> FALSE, down |-> None, ingress |-> FALSE, up |-> None]
Qdiscs   == [root : BOOLEAN, down : [Addrs -> Shape], ingress : BOOLEAN, up : [Addrs -> Shape]]

\* What a whole Plan leaves on the interface.
Planned(l) == [root |-> Downloads(l) # None, down |-> Downloads(l),
               ingress |-> Uploads(l) # None, up |-> Uploads(l)]

-----------------------------------------------------------------------------
Steps == {"insert", "toggle", "lock", "load", "teardown", "down", "up"}

TypeOK ==
  /\ db \in Tables
  /\ tc \in Qdiscs
  /\ mu \in Procs \cup {Free}
  /\ pc \in [Procs -> Steps \cup {"idle"}]
  /\ grp \in [Procs -> Groups]
  /\ val \in [Procs -> BOOLEAN]
  /\ plan \in [Procs -> [Addrs -> Limit]]
  /\ disabled \in BOOLEAN /\ dirty \in BOOLEAN

AnyGroup == CHOOSE g \in Groups : TRUE
NoLimits == [a \in Addrs |-> NoLimit]

Init ==
  /\ db = [row |-> [u \in Users |-> NoRow], groups |-> {}, members |-> {},
           preset |-> [g \in Groups |-> NoPreset]]
  /\ tc = Bare /\ mu = Free
  /\ pc = [p \in Procs |-> "idle"]
  /\ grp = [p \in Procs |-> AnyGroup] /\ val = [p \in Procs |-> FALSE]
  /\ plan = [p \in Procs |-> NoLimits]
  /\ disabled = FALSE /\ dirty = FALSE

At(p, step)   == pc[p] = step
Goto(p, step) == pc' = [pc EXCEPT ![p] = step]

-----------------------------------------------------------------------------
(* The handlers: a statement, then reconcilePCQ. *)

\* reconcilePCQ returns at once when shaping is disabled.
Reconcile(p) ==
  /\ Goto(p, IF disabled THEN "idle" ELSE "lock")
  /\ dirty' = (dirty \/ disabled)

Statement(p, d) ==
  /\ At(p, "idle")
  /\ db' = d
  /\ Reconcile(p)
  /\ UNCHANGED <<tc, mu, grp, val, plan, disabled>>

\* Create, edit and toggle all leave some row.
SaveUser(p, u, r) == Statement(p, [db EXCEPT !.row[u] = r])

\* Deleting a user or a group cascades.
DeleteUser(p, u) ==
  Statement(p, [db EXCEPT !.row[u] = NoRow, !.members = @ \ (Groups \X {u})])

AddMember(p, g, u) ==
  /\ g \in db.groups /\ db.row[u] # NoRow
  /\ Statement(p, [db EXCEPT !.members = @ \cup {<<g, u>>}])

RemoveMember(p, g, u) == Statement(p, [db EXCEPT !.members = @ \ {<<g, u>>}])

\* A plausible slip: the row is replaced, is_disabled and all.
SavePresetBare(p, g, x) ==
  /\ g \in db.groups
  /\ Statement(p, [db EXCEPT !.preset[g] = x])

\* The upsert leaves is_disabled as it was, or at its default.
SavePreset(p, g, x) ==
  /\ g \in db.groups
  /\ LET off == db.preset[g] # NoPreset /\ db.preset[g].off
     IN  Statement(p, [db EXCEPT !.preset[g] = [clf |-> x.clf, rate |-> x.rate, off |-> off]])

ClearPreset(p, g) ==
  /\ g \in db.groups
  /\ Statement(p, [db EXCEPT !.preset[g] = NoPreset])

\* WireGuard settings and reloads reconcile without touching these tables.
Reload(p) == Statement(p, db)

\* A new group has a new id: no handler is still at work on it.
CreateGroup(g) ==
  /\ g \notin db.groups
  /\ \A p \in Procs : pc[p] \in {"insert", "toggle"} => grp[p] # g
  /\ db' = [db EXCEPT !.groups = @ \cup {g}]
  /\ UNCHANGED <<tc, mu, handlers, disabled, dirty>>

\* GroupDeletePost does not reconcile.
DeleteGroup(g) ==
  /\ g \in db.groups
  /\ db' = [db EXCEPT !.groups = @ \ {g}, !.members = @ \ ({g} \X Users),
                      !.preset[g] = NoPreset]
  /\ dirty' = TRUE
  /\ UNCHANGED <<tc, mu, handlers, disabled>>

\* The bulk handler inserts one member after the other and gives up at the
\* first that fails, without reconciling those it has added.
BulkAdd(p, g) ==
  /\ At(p, "idle") /\ g \in db.groups
  /\ Goto(p, "insert") /\ grp' = [grp EXCEPT ![p] = g]
  /\ UNCHANGED <<db, tc, mu, val, plan, disabled, dirty>>

BulkInsert(p, u) ==
  /\ At(p, "insert") /\ grp[p] \in db.groups /\ db.row[u] # NoRow
  /\ db' = [db EXCEPT !.members = @ \cup {<<grp[p], u>>}]
  /\ UNCHANGED <<tc, mu, handlers, disabled, dirty>>

BulkDone(p) ==
  /\ At(p, "insert")
  /\ Reconcile(p) /\ grp' = [grp EXCEPT ![p] = AnyGroup]
  /\ UNCHANGED <<db, tc, mu, val, plan, disabled>>

BulkFails(p) ==
  /\ At(p, "insert")
  /\ Goto(p, "idle") /\ grp' = [grp EXCEPT ![p] = AnyGroup]
  /\ dirty' = TRUE
  /\ UNCHANGED <<db, tc, mu, val, plan, disabled>>

\* The preset's toggle reads is_disabled and writes its opposite later.
ToggleRead(p, g) ==
  /\ At(p, "idle") /\ db.preset[g] # NoPreset
  /\ Goto(p, "toggle") /\ grp' = [grp EXCEPT ![p] = g]
  /\ val' = [val EXCEPT ![p] = ~db.preset[g].off]
  /\ UNCHANGED <<db, tc, mu, plan, disabled, dirty>>

ToggleWrite(p) ==
  /\ At(p, "toggle")
  /\ db' = IF db.preset[grp[p]] = NoPreset THEN db
           ELSE [db EXCEPT !.preset[grp[p]].off = val[p]]
  /\ Reconcile(p)
  /\ grp' = [grp EXCEPT ![p] = AnyGroup] /\ val' = [val EXCEPT ![p] = FALSE]
  /\ UNCHANGED <<tc, mu, plan, disabled>>

-----------------------------------------------------------------------------
(* pcq.Apply. *)

\* A plausible slip: Apply does without its mutex.
LockNothing(p) ==
  /\ At(p, "lock")
  /\ mu' = p
  /\ Goto(p, "load")
  /\ UNCHANGED <<db, tc, grp, val, plan, disabled, dirty>>

Lock(p) ==
  /\ At(p, "lock") /\ mu = Free
  /\ mu' = p
  /\ Goto(p, "load")
  /\ UNCHANGED <<db, tc, grp, val, plan, disabled, dirty>>

Unlock(p) == /\ mu' = Free
             /\ Goto(p, "idle") /\ plan' = [plan EXCEPT ![p] = NoLimits]

\* The query sees every change committed before it.
Load(p) ==
  /\ At(p, "load")
  /\ plan' = [plan EXCEPT ![p] = Effective(db)]
  /\ dirty' = FALSE
  /\ Goto(p, "teardown")
  /\ UNCHANGED <<db, tc, mu, grp, val, disabled>>

\* A plausible slip: the early return leaves the mutex locked.
LoadFailsLocked(p) ==
  /\ At(p, "load")
  /\ Goto(p, "idle")
  /\ dirty' = TRUE
  /\ UNCHANGED <<db, tc, mu, grp, val, plan, disabled>>

LoadFails(p) ==
  /\ At(p, "load")
  /\ Unlock(p)
  /\ dirty' = TRUE
  /\ UNCHANGED <<db, tc, grp, val, disabled>>

\* "|| true": a qdisc that cannot be deleted stays, and nobody is told.
Teardown(p) ==
  /\ At(p, "teardown")
  /\ \E keepIngress, keepRoot \in BOOLEAN :
       /\ tc' = [root |-> keepRoot /\ tc.root, down |-> IF keepRoot THEN tc.down ELSE None,
                 ingress |-> keepIngress /\ tc.ingress,
                 up |-> IF keepIngress THEN tc.up ELSE None]
       /\ dirty' = (dirty \/ keepIngress \/ keepRoot)
  /\ Goto(p, "down")
  /\ UNCHANGED <<db, mu, grp, val, plan, disabled>>

\* Adding a qdisc that is still there fails.
ShapeDown(p) ==
  /\ At(p, "down")
  /\ LET d == Downloads(plan[p])
     IN  IF d = None THEN UNCHANGED tc
         ELSE ~tc.root /\ tc' = [tc EXCEPT !.root = TRUE, !.down = d]
  /\ Goto(p, "up")
  /\ UNCHANGED <<db, mu, grp, val, plan, disabled, dirty>>

ShapeUp(p) ==
  /\ At(p, "up")
  /\ LET u == Uploads(plan[p])
     IN  IF u = None THEN UNCHANGED tc
         ELSE ~tc.ingress /\ tc' = [tc EXCEPT !.ingress = TRUE, !.up = u]
  /\ Unlock(p)
  /\ UNCHANGED <<db, grp, val, disabled, dirty>>

\* What is there of full once only the addresses in S have been reached.
Part(full, S) == [a \in Addrs |-> IF a \in S THEN full[a] ELSE Unshaped]

\* The first command that fails ends the run, and what was built stays.
ShapeDownFails(p) ==
  /\ At(p, "down") /\ Downloads(plan[p]) # None
  /\ \/ UNCHANGED tc
     \/ /\ ~tc.root
        /\ \E S \in SUBSET Addrs :
             tc' = [tc EXCEPT !.root = TRUE, !.down = Part(Downloads(plan[p]), S)]
  /\ Unlock(p)
  /\ dirty' = TRUE
  /\ UNCHANGED <<db, grp, val, disabled>>

ShapeUpFails(p) ==
  /\ At(p, "up") /\ Uploads(plan[p]) # None
  /\ \/ UNCHANGED tc
     \/ /\ ~tc.ingress
        /\ \E S \in SUBSET Addrs :
             tc' = [tc EXCEPT !.ingress = TRUE, !.up = Part(Uploads(plan[p]), S)]
  /\ Unlock(p)
  /\ dirty' = TRUE
  /\ UNCHANGED <<db, grp, val, disabled>>

-----------------------------------------------------------------------------
(* Around the handlers. *)

\* The synchroniser enables and disables users and never reconciles.
SyncerFlips(u) ==
  /\ db.row[u] # NoRow
  /\ db' = [db EXCEPT !.row[u].en = ~@]
  /\ dirty' = TRUE
  /\ UNCHANGED <<tc, mu, handlers, disabled>>

\* The process dies, or the host with its interface; main() applies the queues
\* once the interface is up, unless shaping is disabled now.
Restart(p, host, off) ==
  /\ tc' = IF host THEN Bare ELSE tc
  /\ mu' = Free
  /\ \E up \in BOOLEAN :
       pc' = [q \in Procs |-> IF q = p /\ up /\ ~off THEN "lock" ELSE "idle"]
  /\ grp' = [q \in Procs |-> AnyGroup] /\ val' = [q \in Procs |-> FALSE]
  /\ plan' = [q \in Procs |-> NoLimits]
  /\ disabled' = off /\ dirty' = TRUE
  /\ UNCHANGED db

Handle(p) ==
  \/ \E u \in Users : \/ \E r \in UserRow : SaveUser(p, u, r)
                      \/ DeleteUser(p, u) \/ BulkInsert(p, u)
                      \/ \E g \in Groups : AddMember(p, g, u) \/ RemoveMember(p, g, u)
  \/ \E g \in Groups : \/ \E x \in Presets : SavePreset(p, g, x)
                       \/ ClearPreset(p, g) \/ BulkAdd(p, g) \/ ToggleRead(p, g)
  \/ Reload(p) \/ BulkDone(p) \/ ToggleWrite(p)

Work(p) == Load(p) \/ Teardown(p) \/ ShapeDown(p) \/ ShapeUp(p)

Fails(p) == BulkFails(p) \/ LoadFails(p) \/ ShapeDownFails(p) \/ ShapeUpFails(p)

GroupPages == \E g \in Groups : CreateGroup(g) \/ DeleteGroup(g)

Restarts == \E p \in Procs, host, off \in BOOLEAN : Restart(p, host, off)

Next ==
  \/ \E p \in Procs : Handle(p) \/ Lock(p) \/ Work(p) \/ Fails(p)
  \/ GroupPages
  \/ \E u \in Users : SyncerFlips(u)
  \/ Restarts

Spec == Init /\ [][Next]_vars

(***************************************************************************)
(* tc returns, and sync.Mutex lets no waiter starve.                       *)
(***************************************************************************)
Fairness == \A p \in Procs : WF_vars(Work(p) \/ Fails(p)) /\ SF_vars(Lock(p))

FairSpec == Spec /\ Fairness

-----------------------------------------------------------------------------
(* Properties *)

Waiting(p) == pc[p] \in {"insert", "lock", "load"}
Building(p) == pc[p] \in {"teardown", "down", "up"}

(***************************************************************************)
(* Every change is followed by an Apply that has seen it: once no handler  *)
(* is between its statement and the end of its Apply, the qdiscs are those *)
(* of the tables as they are now, however handlers, users, groups and runs *)
(* interleaved.  Left out, as dirty, are only what never reconciles (group *)
(* deletion, the synchroniser, a broken-off bulk), a failed run and a      *)
(* restart, each until the next Apply loads the tables.                    *)
(***************************************************************************)
SettledShaping ==
  ~dirty /\ (\A p \in Procs : ~Waiting(p) /\ ~Building(p)) => tc = Planned(Effective(db))

(***************************************************************************)
(* A reconcile that waits for applyMu does not wait for ever: no path out  *)
(* of Apply keeps it.                                                      *)
(***************************************************************************)
EveryRunGetsItsTurn == \A p \in Procs : At(p, "lock") ~> ~At(p, "lock")

-----------------------------------------------------------------------------
(* A claim of a template that the code does not keep; see README. *)

Quiet == \A p \in Procs : At(p, "idle")

(***************************************************************************)
(* "Actual runs merge all groups' presets and execute after edits,         *)
(* membership changes, and WireGuard reloads" (group_pcq.tmpl:130): when   *)
(* every handler is done, the qdiscs are those of the tables.              *)
(***************************************************************************)
ShapedAfterEdits == Quiet /\ ~disabled => tc = Planned(Effective(db))
=============================================================================
