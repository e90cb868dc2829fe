----------------------------- MODULE Pcq_proofs -----------------------------
(***************************************************************************)
(* Every change to users, groups, memberships and presets that reconciles  *)
(* reaches the qdiscs, for any number of handlers, users, groups, addresses*)
(* and presets (SettledShaping).                                           *)
(*                                                                         *)
(* SettledShaping says nothing while a run is under way.  The inductive    *)
(* invariant says what holds then: applyMu belongs to the run that has left*)
(* "lock" (Mutex), the qdiscs are as far as that run has come (Progress),  *)
(* and as long as nothing has gone wrong either somebody will still load   *)
(* the tables, or the run under way has loaded them as they are, or they   *)
(* are in force (Covered).                                                 *)
(***************************************************************************)
EXTENDS Pcq, Limits_proofs

Inside(p) == pc[p] \in {"load", "teardown", "down", "up"}

Mutex == \A p \in Procs : Inside(p) <=> mu = p

HalfPlanned(l) == [root |-> Downloads(l) # None, down |-> Downloads(l),
                   ingress |-> FALSE, up |-> None]

Progress == ~dirty => \A p \in Procs : /\ At(p, "down") => tc = Bare
                                       /\ At(p, "up") => tc = HalfPlanned(plan[p])

CoveredNow == ~dirty => \/ \E p \in Procs : Waiting(p)
                        \/ \E p \in Procs : Building(p) /\ plan[p] = Effective(db)
                        \/ (\A p \in Procs : ~Building(p)) /\ tc = Planned(Effective(db))

IInv == TypeOK /\ Mutex /\ Progress /\ CoveredNow

-----------------------------------------------------------------------------
(* Types. *)

(***************************************************************************)
(* The join of well-formed tables has well-formed rows.                    *)
(***************************************************************************)
LEMMA JoinRows ==
  ASSUME NEW d \in Tables
  PROVE  Join(d) \in SUBSET JoinRow
<1>1. ASSUME NEW g \in Groups, NEW u \in Users, Joins(d, g, u)
      PROVE  [addr |-> d.row[u].addr, clf |-> d.preset[g].clf, rate |-> d.preset[g].rate]
               \in JoinRow
  <2>1. d.row[u] \in UserRow /\ d.preset[g] \in PresetRow
    BY <1>1 DEF Tables, Joins
  <2>. QED
    BY <2>1 DEF UserRow, PresetRow, JoinRow
<1>2. \A m \in Groups \X Users : m[1] \in Groups /\ m[2] \in Users
  OBVIOUS
<1>. QED
  BY <1>1, <1>2 DEF Join

\* Whatever is in the tables, every address has limits.
LEMMA EffectiveIsLimits ==
  ASSUME NEW d \in Tables
  PROVE  Effective(d) \in [Addrs -> Limit]
BY JoinRows, StrictestIsLimits DEF Effective

(***************************************************************************)
(* Limits shape addresses.                                                 *)
(***************************************************************************)
LEMMA ShapesTyped ==
  ASSUME NEW l \in [Addrs -> Limit]
  PROVE  Downloads(l) \in [Addrs -> Shape] /\ Uploads(l) \in [Addrs -> Shape]
<1>1. \A a \in Addrs, f \in Fields : l[a][f] \in Nat
  BY DEF Limit
<1>2. {"dl", "ul", "bdl", "bul"} \subseteq Fields
  BY DEF Fields
<1>. QED
  BY <1>1, <1>2 DEF Downloads, Uploads, Shape, Unshaped

\* No queues at all, and a bare qdisc, are states of the interface.
LEMMA NoneTyped == None \in [Addrs -> Shape] /\ Bare \in Qdiscs
BY DEF None, Bare, Qdiscs, Shape, Unshaped

\* Queues set for some of the addresses are a state of the interface.
LEMMA PartTyped ==
  ASSUME NEW full \in [Addrs -> Shape], NEW S \in SUBSET Addrs
  PROVE  Part(full, S) \in [Addrs -> Shape]
BY DEF Part, Shape, Unshaped

\* No limit anywhere is a value of the limits.
LEMMA NoLimitsTyped == NoLimits \in [Addrs -> Limit]
BY DEF NoLimits, NoLimit, Limit

\* The group chosen where any will do is a group.
LEMMA AnyGroupTyped == AnyGroup \in Groups
BY PcqAssumption DEF AnyGroup

\* The initial state is typed.
LEMMA InitTypeOK == Init => TypeOK
<1>. SUFFICES ASSUME Init PROVE TypeOK
  OBVIOUS
<1>1. db \in Tables
  BY DEF Init, Tables
<1>. QED
  BY <1>1, NoneTyped, NoLimitsTyped, AnyGroupTyped DEF Init, TypeOK, Steps

(***************************************************************************)
(* A statement with well-formed tables keeps the types.                    *)
(***************************************************************************)
LEMMA StatementTyped ==
  ASSUME TypeOK, NEW p \in Procs, NEW d \in Tables, Statement(p, d)
  PROVE  TypeOK'
BY DEF TypeOK, Statement, Reconcile, Goto, Steps

(***************************************************************************)
(* A member more keeps the tables well-formed.                             *)
(***************************************************************************)
LEMMA OneMoreMember ==
  ASSUME db \in Tables, NEW g \in Groups, NEW u \in Users
  PROVE  [db EXCEPT !.members = @ \cup {<<g, u>>}] \in Tables
<1>1. db.members \in SUBSET (Groups \X Users)
  BY DEF Tables
<1>2. db.members \cup {<<g, u>>} \in SUBSET (Groups \X Users)
  BY <1>1
<1>. QED
  BY <1>2 DEF Tables

\* A handler's work on the tables keeps the types.
LEMMA HandleTyped ==
  ASSUME TypeOK, NEW p \in Procs, Handle(p)
  PROVE  TypeOK'
<1>. USE DEF TypeOK
<1>1. ASSUME NEW u \in Users, NEW r \in UserRow, SaveUser(p, u, r) PROVE TypeOK'
  <2>1. [db EXCEPT !.row[u] = r] \in Tables
    BY DEF Tables
  <2>. QED
    BY <1>1, <2>1, StatementTyped DEF SaveUser
<1>2. ASSUME NEW u \in Users, DeleteUser(p, u) PROVE TypeOK'
  <2>1. [db EXCEPT !.row[u] = NoRow, !.members = @ \ (Groups \X {u})] \in Tables
    BY DEF Tables
  <2>. QED
    BY <1>2, <2>1, StatementTyped DEF DeleteUser
<1>3. ASSUME NEW u \in Users, BulkInsert(p, u) PROVE TypeOK'
  <2>1. [db EXCEPT !.members = @ \cup {<<grp[p], u>>}] \in Tables
    BY OneMoreMember
  <2>. QED
    BY <1>3, <2>1 DEF BulkInsert, handlers
<1>4. ASSUME NEW u \in Users, NEW g \in Groups, AddMember(p, g, u) PROVE TypeOK'
  <2>1. [db EXCEPT !.members = @ \cup {<<g, u>>}] \in Tables
    BY OneMoreMember
  <2>. QED
    BY <1>4, <2>1, StatementTyped DEF AddMember
<1>5. ASSUME NEW u \in Users, NEW g \in Groups, RemoveMember(p, g, u) PROVE TypeOK'
  <2>1. [db EXCEPT !.members = @ \ {<<g, u>>}] \in Tables
    BY DEF Tables
  <2>. QED
    BY <1>5, <2>1, StatementTyped DEF RemoveMember
<1>6. ASSUME NEW g \in Groups, NEW x \in Presets, SavePreset(p, g, x) PROVE TypeOK'
  <2>. DEFINE off == db.preset[g] # NoPreset /\ db.preset[g].off
              r == [clf |-> x.clf, rate |-> x.rate, off |-> off]
  <2>1. r \in PresetRow
    BY PcqAssumption DEF PresetRow
  <2>2. [db EXCEPT !.preset[g] = r] \in Tables
    BY <2>1 DEF Tables
  <2>. QED
    BY <1>6, <2>2, StatementTyped DEF SavePreset
<1>7. ASSUME NEW g \in Groups, ClearPreset(p, g) PROVE TypeOK'
  <2>1. [db EXCEPT !.preset[g] = NoPreset] \in Tables
    BY DEF Tables
  <2>. QED
    BY <1>7, <2>1, StatementTyped DEF ClearPreset
<1>8. ASSUME NEW g \in Groups, BulkAdd(p, g) PROVE TypeOK'
  BY <1>8 DEF BulkAdd, Goto, Steps
<1>9. ASSUME NEW g \in Groups, ToggleRead(p, g) PROVE TypeOK'
  <2>1. PICK b \in BOOLEAN : val' = [val EXCEPT ![p] = b]
    BY <1>9, Zenon DEF ToggleRead
  <2>2. val' \in [Procs -> BOOLEAN]
    BY <2>1
  <2>3. pc' \in [Procs -> Steps \cup {"idle"}] /\ grp' \in [Procs -> Groups]
    BY <1>9 DEF ToggleRead, Goto, Steps
  <2>. QED
    BY <1>9, <2>2, <2>3 DEF ToggleRead
<1>10. CASE Reload(p)
  BY <1>10, StatementTyped DEF Reload
<1>11. CASE BulkDone(p)
  BY <1>11, AnyGroupTyped DEF BulkDone, Reconcile, Goto, Steps
<1>12. CASE ToggleWrite(p)
  <2>1. CASE db.preset[grp[p]] = NoPreset
    BY <1>12, <2>1, AnyGroupTyped DEF ToggleWrite, Reconcile, Goto, Steps
  <2>2. CASE db.preset[grp[p]] # NoPreset
    <3>. DEFINE g == grp[p]
    <3>1. g \in Groups /\ val[p] \in BOOLEAN /\ db.preset[g] \in PresetRow
      BY <2>2 DEF Tables
    <3>2. [db.preset[g] EXCEPT !.off = val[p]] \in PresetRow
      BY <3>1 DEF PresetRow
    <3>3. [db EXCEPT !.preset[g].off = val[p]] \in Tables
      BY <3>1, <3>2 DEF Tables
    <3>. QED
      BY <1>12, <2>2, <3>3, AnyGroupTyped DEF ToggleWrite, Reconcile, Goto, Steps
  <2>. QED
    BY <2>1, <2>2
<1>. QED
  BY <1>1, <1>2, <1>3, <1>4, <1>5, <1>6, <1>7, <1>8, <1>9, <1>10, <1>11, <1>12 DEF Handle

\* A step of Apply keeps the types.
LEMMA ApplyTyped ==
  ASSUME TypeOK, NEW p \in Procs, Lock(p) \/ Work(p) \/ Fails(p)
  PROVE  TypeOK'
<1>. USE DEF TypeOK
<1>. DEFINE d == Downloads(plan[p])
            u == Uploads(plan[p])
<1>1. d \in [Addrs -> Shape] /\ u \in [Addrs -> Shape]
  BY ShapesTyped
<1>2. CASE Lock(p)
  BY <1>2 DEF Lock, Goto, Steps
<1>3. CASE Load(p)
  BY <1>3, EffectiveIsLimits DEF Load, Goto, Steps
<1>4. CASE Teardown(p)
  <2>1. tc' \in Qdiscs
    BY <1>4, NoneTyped DEF Teardown, Qdiscs
  <2>. QED
    BY <1>4, <2>1 DEF Teardown, Goto, Steps
<1>5. CASE ShapeDown(p)
  <2>1. [tc EXCEPT !.root = TRUE, !.down = d] \in Qdiscs
    BY <1>1 DEF Qdiscs
  <2>. QED
    BY <1>5, <2>1 DEF ShapeDown, Goto, Steps
<1>6. CASE ShapeUp(p)
  <2>1. [tc EXCEPT !.ingress = TRUE, !.up = u] \in Qdiscs
    BY <1>1 DEF Qdiscs
  <2>. QED
    BY <1>6, <2>1, NoLimitsTyped DEF ShapeUp, Unlock, Goto, Steps
<1>7. CASE BulkFails(p)
  BY <1>7, AnyGroupTyped DEF BulkFails, Goto, Steps
<1>8. CASE LoadFails(p)
  BY <1>8, NoLimitsTyped DEF LoadFails, Unlock, Goto, Steps
<1>9. CASE ShapeDownFails(p)
  <2>1. \A S \in SUBSET Addrs : [tc EXCEPT !.root = TRUE, !.down = Part(d, S)] \in Qdiscs
    BY <1>1, PartTyped DEF Qdiscs
  <2>. QED
    BY <1>9, <2>1, NoLimitsTyped DEF ShapeDownFails, Unlock, Goto, Steps
<1>10. CASE ShapeUpFails(p)
  <2>1. \A S \in SUBSET Addrs : [tc EXCEPT !.ingress = TRUE, !.up = Part(u, S)] \in Qdiscs
    BY <1>1, PartTyped DEF Qdiscs
  <2>. QED
    BY <1>10, <2>1, NoLimitsTyped DEF ShapeUpFails, Unlock, Goto, Steps
<1>. QED
  BY <1>2, <1>3, <1>4, <1>5, <1>6, <1>7, <1>8, <1>9, <1>10 DEF Work, Fails

\* What goes on around the handlers keeps the types.
LEMMA AroundTyped ==
  ASSUME TypeOK, GroupPages \/ (\E u \in Users : SyncerFlips(u)) \/ Restarts
  PROVE  TypeOK'
<1>. USE DEF TypeOK
<1>1. ASSUME NEW g \in Groups, CreateGroup(g) PROVE TypeOK'
  <2>1. [db EXCEPT !.groups = @ \cup {g}] \in Tables
    BY DEF Tables
  <2>. QED
    BY <1>1, <2>1 DEF CreateGroup, handlers
<1>2. ASSUME NEW g \in Groups, DeleteGroup(g) PROVE TypeOK'
  <2>1. [db EXCEPT !.groups = @ \ {g}, !.members = @ \ ({g} \X Users),
                   !.preset[g] = NoPreset] \in Tables
    BY DEF Tables
  <2>. QED
    BY <1>2, <2>1 DEF DeleteGroup, handlers
<1>3. ASSUME NEW u \in Users, SyncerFlips(u) PROVE TypeOK'
  <2>1. db.row[u] \in UserRow
    BY <1>3 DEF SyncerFlips, Tables
  <2>2. [db.row[u] EXCEPT !.en = ~@] \in UserRow
    BY <2>1 DEF UserRow
  <2>3. [db EXCEPT !.row[u].en = ~@] \in Tables
    BY <2>1, <2>2 DEF Tables
  <2>. QED
    BY <1>3, <2>3 DEF SyncerFlips, handlers
<1>4. ASSUME NEW p \in Procs, NEW host \in BOOLEAN, NEW off \in BOOLEAN, Restart(p, host, off)
      PROVE  TypeOK'
  BY <1>4, NoneTyped, AnyGroupTyped, NoLimitsTyped DEF Restart, Steps
<1>. QED
  BY <1>1, <1>2, <1>3, <1>4 DEF GroupPages, Restarts

(***************************************************************************)
(* The tables, the qdiscs and the handlers keep their types (TypeOK).      *)
(***************************************************************************)
THEOREM TypeCorrect == Spec => []TypeOK
<1>1. TypeOK /\ [Next]_vars => TypeOK'
  <2>. SUFFICES ASSUME TypeOK, [Next]_vars PROVE TypeOK'
    OBVIOUS
  <2>1. CASE Next
    BY <2>1, HandleTyped, ApplyTyped, AroundTyped DEF Next
  <2>2. CASE UNCHANGED vars
    BY <2>2 DEF vars, handlers, TypeOK
  <2>. QED
    BY <2>1, <2>2
<1>. QED
  BY InitTypeOK, <1>1, PTL DEF Spec

-----------------------------------------------------------------------------
(* applyMu and the state of the run that holds it. *)

Outside == {"idle", "insert", "toggle", "lock"}

(***************************************************************************)
(* A handler outside Apply moves outside Apply and touches neither the     *)
(* qdiscs nor a plan.                                                      *)
(***************************************************************************)
OutsideStep(p) == /\ UNCHANGED <<tc, plan, mu>>
                  /\ dirty => dirty'
                  /\ pc[p] \in Outside /\ \E s \in Outside : pc' = [pc EXCEPT ![p] = s]

\* A handler's work on the tables leaves the lock and the queues alone.
LEMMA HandleStaysOutside ==
  ASSUME TypeOK, NEW p \in Procs, Handle(p)
  PROVE  OutsideStep(p)
<1>. USE DEF TypeOK, At, Goto, Outside, OutsideStep
<1>1. ASSUME NEW d, Statement(p, d) PROVE OutsideStep(p)
  BY <1>1 DEF Statement, Reconcile
<1>2. ASSUME NEW u \in Users, BulkInsert(p, u) PROVE OutsideStep(p)
  <2>1. pc' = [pc EXCEPT ![p] = "insert"]
    BY <1>2 DEF BulkInsert, handlers
  <2>. QED
    BY <1>2, <2>1 DEF BulkInsert, handlers
<1>3. ASSUME NEW g \in Groups, BulkAdd(p, g) \/ ToggleRead(p, g) PROVE OutsideStep(p)
  BY <1>3 DEF BulkAdd, ToggleRead
<1>4. CASE BulkDone(p) \/ ToggleWrite(p)
  BY <1>4 DEF BulkDone, ToggleWrite, Reconcile
<1>. QED
  BY <1>1, <1>2, <1>3, <1>4 DEF Handle, SaveUser, DeleteUser, AddMember, RemoveMember,
     SavePreset, ClearPreset, Reload

\* At most one handler is inside Apply.
LEMMA MutexKept ==
  ASSUME TypeOK, Mutex, [Next]_vars
  PROVE  Mutex'
<1>. USE DEF TypeOK, Mutex, Inside, At, Goto, Unlock
<1>1. ASSUME NEW p \in Procs, Handle(p) PROVE Mutex'
  BY <1>1, HandleStaysOutside DEF Outside, OutsideStep
<1>2. ASSUME NEW p \in Procs, Lock(p) PROVE Mutex'
  <2>1. \A q \in Procs : ~Inside(q)
    BY <1>2, PcqAssumption DEF Lock
  <2>. QED
    BY <1>2, <2>1 DEF Lock
<1>3. ASSUME NEW p \in Procs, Work(p) PROVE Mutex'
  BY <1>3, PcqAssumption DEF Work, Load, Teardown, ShapeDown, ShapeUp
<1>4. ASSUME NEW p \in Procs, Fails(p) PROVE Mutex'
  <2>1. CASE BulkFails(p)
    BY <2>1 DEF BulkFails
  <2>2. CASE ~BulkFails(p)
    <3>1. Inside(p) /\ mu' = Free /\ pc' = [pc EXCEPT ![p] = "idle"]
      BY <1>4, <2>2 DEF Fails, LoadFails, ShapeDownFails, ShapeUpFails
    <3>. QED
      BY <3>1, PcqAssumption
  <2>. QED
    BY <2>1, <2>2
<1>5. CASE GroupPages \/ \E u \in Users : SyncerFlips(u)
  BY <1>5 DEF GroupPages, CreateGroup, DeleteGroup, SyncerFlips, handlers
<1>6. CASE Restarts
  BY <1>6, PcqAssumption DEF Restarts, Restart
<1>7. CASE UNCHANGED vars
  BY <1>7 DEF vars, handlers
<1>. QED
  BY <1>1, <1>2, <1>3, <1>4, <1>5, <1>6, <1>7 DEF Next

(***************************************************************************)
(* What Progress depends on.                                               *)
(***************************************************************************)
LEMMA ProgressFrame ==
  ASSUME Progress, UNCHANGED <<tc, plan>>, dirty => dirty',
         \A q \in Procs : At(q, "down")' => At(q, "down"),
         \A q \in Procs : At(q, "up")' => At(q, "up")
  PROVE  Progress'
<1>1. \A q \in Procs : HalfPlanned(plan[q])' = HalfPlanned(plan[q])
  BY DEF HalfPlanned, Downloads, None, Unshaped
<1>. QED
  BY <1>1 DEF Progress, Bare, None, Unshaped

\* The handler inside has set what its plan says so far.
LEMMA ProgressKept ==
  ASSUME TypeOK, Mutex, Progress, [Next]_vars
  PROVE  Progress'
<1>. USE DEF TypeOK
<1>1. ASSUME NEW p \in Procs, Handle(p) PROVE Progress'
  <2>1. \A q \in Procs : (At(q, "down")' => At(q, "down")) /\ (At(q, "up")' => At(q, "up"))
    BY <1>1, HandleStaysOutside DEF At, Outside, OutsideStep
  <2>. QED
    BY <1>1, <2>1, HandleStaysOutside, ProgressFrame DEF OutsideStep
<1>2. ASSUME NEW p \in Procs, Lock(p) PROVE Progress'
  <2>1. \A q \in Procs : (At(q, "down")' => At(q, "down")) /\ (At(q, "up")' => At(q, "up"))
    BY <1>2 DEF Lock, At, Goto
  <2>. QED
    BY <1>2, <2>1, ProgressFrame DEF Lock
<1>3. ASSUME NEW p \in Procs, Load(p) PROVE Progress'
  <2>1. \A q \in Procs : ~At(q, "down")' /\ ~At(q, "up")'
    BY <1>3 DEF Load, Goto, At, Mutex, Inside
  <2>. QED
    BY <2>1 DEF Progress
<1>4. ASSUME NEW p \in Procs, Teardown(p) PROVE Progress'
  <2>1. \A q \in Procs : (At(q, "down")' => q = p) /\ ~At(q, "up")'
    BY <1>4 DEF Teardown, Goto, At, Mutex, Inside
  <2>2. ~dirty' => tc' = Bare
    BY <1>4 DEF Teardown, Bare
  <2>. QED
    BY <2>1, <2>2 DEF Progress
<1>5. ASSUME NEW p \in Procs, ShapeDown(p) PROVE Progress'
  <2>1. \A q \in Procs : ~At(q, "down")' /\ (At(q, "up")' => q = p)
    BY <1>5 DEF ShapeDown, Goto, At, Mutex, Inside
  <2>2. ~dirty => tc = Bare
    BY <1>5 DEF ShapeDown, Progress
  <2>3. ~dirty => tc' = HalfPlanned(plan[p])
    <3>. DEFINE d == Downloads(plan[p])
    <3>. SUFFICES ASSUME ~dirty PROVE tc' = HalfPlanned(plan[p])
      OBVIOUS
    <3>1. tc = [root |-> FALSE, down |-> None, ingress |-> FALSE, up |-> None]
      BY <2>2 DEF Bare
    <3>2. IF d = None THEN tc' = tc ELSE tc' = [tc EXCEPT !.root = TRUE, !.down = d]
      BY <1>5 DEF ShapeDown
    <3>. HIDE DEF d
    <3>3. tc' = [root |-> d # None, down |-> d, ingress |-> FALSE, up |-> None]
      BY <3>1, <3>2
    <3>. QED
      BY <3>3 DEF d, HalfPlanned
  <2>4. plan' = plan /\ dirty' = dirty
    BY <1>5 DEF ShapeDown
  <2>. QED
    BY <2>1, <2>3, <2>4 DEF Progress, HalfPlanned, Downloads, None, Unshaped
<1>6. ASSUME NEW p \in Procs, ShapeUp(p) PROVE Progress'
  <2>1. \A q \in Procs : ~At(q, "down")' /\ ~At(q, "up")'
    BY <1>6 DEF ShapeUp, Unlock, Goto, At, Mutex, Inside
  <2>. QED
    BY <2>1 DEF Progress
<1>7. ASSUME NEW p \in Procs, Fails(p) PROVE Progress'
  BY <1>7 DEF Fails, BulkFails, LoadFails, ShapeDownFails, ShapeUpFails, Progress
<1>8. CASE Restarts \/ \E u \in Users : SyncerFlips(u)
  BY <1>8 DEF Restarts, Restart, SyncerFlips, Progress
<1>9. CASE GroupPages \/ UNCHANGED vars
  <2>1. UNCHANGED <<tc, plan, pc>> /\ (dirty => dirty')
    BY <1>9 DEF GroupPages, CreateGroup, DeleteGroup, handlers, vars
  <2>. QED
    BY <2>1, ProgressFrame DEF At
<1>. QED
  BY <1>1, <1>2, <1>3, <1>4, <1>5, <1>6, <1>7, <1>8, <1>9 DEF Next, Work

-----------------------------------------------------------------------------
(* Somebody takes care of every change. *)

\* Whoever changed the tables is still to apply them, or has.
LEMMA CoveredKept ==
  ASSUME TypeOK, Mutex, Progress, CoveredNow, [Next]_vars
  PROVE  CoveredNow'
<1>. SUFFICES ASSUME ~dirty' PROVE CoveredNow'
  BY DEF CoveredNow
<1>. USE DEF TypeOK
<1>1. ASSUME NEW p \in Procs, Waiting(p)' PROVE CoveredNow'
  BY <1>1 DEF CoveredNow
<1>2. ASSUME UNCHANGED <<tc, plan>>, dirty => dirty', Effective(db)' = Effective(db),
             \A q \in Procs : (Waiting(q) => Waiting(q)') /\ Building(q)' = Building(q)
      PROVE  CoveredNow'
  <2>1. Planned(Effective(db))' = Planned(Effective(db))
    BY <1>2 DEF Planned, Downloads, Uploads, None, Unshaped
  <2>. QED
    BY <1>2, <2>1 DEF CoveredNow
<1>3. ASSUME NEW p \in Procs, Handle(p) PROVE CoveredNow'
  <2>1. CASE \E d : Statement(p, d)
    BY <1>1, <2>1 DEF Statement, Reconcile, Goto, Waiting
  <2>2. CASE BulkDone(p) \/ ToggleWrite(p)
    BY <1>1, <2>2 DEF BulkDone, ToggleWrite, Reconcile, Goto, Waiting
  <2>3. CASE (\E g \in Groups : BulkAdd(p, g)) \/ \E u \in Users : BulkInsert(p, u)
    BY <1>1, <2>3 DEF BulkAdd, BulkInsert, handlers, Goto, At, Waiting
  <2>4. CASE \E g \in Groups : ToggleRead(p, g)
    <3>1. \A q \in Procs : (Waiting(q) => Waiting(q)') /\ Building(q)' = Building(q)
      BY <2>4 DEF ToggleRead, Goto, At, Waiting, Building
    <3>2. UNCHANGED <<tc, plan, dirty, db>>
      BY <2>4 DEF ToggleRead
    <3>3. Effective(db)' = Effective(db)
      BY <3>2
    <3>. QED
      BY <1>2, <3>1, <3>2, <3>3
  <2>. QED
    BY <1>3, <2>1, <2>2, <2>3, <2>4 DEF Handle, SaveUser, DeleteUser, AddMember,
       RemoveMember, SavePreset, ClearPreset, Reload
<1>4. ASSUME NEW p \in Procs, Lock(p) PROVE CoveredNow'
  BY <1>1, <1>4 DEF Lock, Goto, Waiting
<1>5. ASSUME NEW p \in Procs, Load(p) PROVE CoveredNow'
  <2>1. Building(p)' /\ plan'[p] = Effective(db) /\ db' = db
    BY <1>5 DEF Load, Goto, Building
  <2>. QED
    BY <2>1 DEF CoveredNow
<1>6. ASSUME NEW p \in Procs, Teardown(p) \/ ShapeDown(p) PROVE CoveredNow'
  <2>1. /\ UNCHANGED <<db, plan>> /\ (dirty => dirty')
        /\ Building(p) /\ \A q \in Procs : Building(q)' = Building(q) /\ Waiting(q)' = Waiting(q)
    BY <1>6 DEF Teardown, ShapeDown, Goto, At, Building, Waiting
  <2>2. \/ \E q \in Procs : Waiting(q)
        \/ \E q \in Procs : Building(q) /\ plan[q] = Effective(db)
    BY <2>1 DEF CoveredNow
  <2>. QED
    BY <2>1, <2>2 DEF CoveredNow
<1>7. ASSUME NEW p \in Procs, ShapeUp(p) PROVE CoveredNow'
  <2>1. UNCHANGED <<db, dirty>> /\ Building(p) /\ pc' = [pc EXCEPT ![p] = "idle"]
    BY <1>7 DEF ShapeUp, Unlock, Goto, At, Building
  <2>2. \A q \in Procs : Building(q) => q = p
    BY <2>1 DEF Mutex, Inside, Building
  <2>3. CASE \E q \in Procs : Waiting(q)
    <3>1. PICK q \in Procs : Waiting(q)
      BY <2>3
    <3>2. Waiting(q)'
      BY <2>1, <3>1 DEF Waiting, Building
    <3>. QED
      BY <1>1, <3>2
  <2>4. CASE plan[p] = Effective(db)
    <3>1. \A q \in Procs : ~Building(q)'
      BY <2>1, <2>2 DEF Building
    <3>2. tc = HalfPlanned(plan[p])
      BY <1>7, <2>1 DEF ShapeUp, Progress
    <3>3. tc' = Planned(plan[p])
      <4>. DEFINE u == Uploads(plan[p])
                  d == Downloads(plan[p])
      <4>1. IF u = None THEN tc' = tc ELSE tc' = [tc EXCEPT !.ingress = TRUE, !.up = u]
        BY <1>7 DEF ShapeUp
      <4>2. tc = [root |-> d # None, down |-> d, ingress |-> FALSE, up |-> None]
        BY <3>2 DEF HalfPlanned
      <4>. HIDE DEF u, d
      <4>3. tc' = [root |-> d # None, down |-> d, ingress |-> u # None, up |-> u]
        BY <4>1, <4>2
      <4>. QED
        BY <4>3 DEF u, d, Planned
    <3>4. tc' = Planned(Effective(db))'
      BY <2>1, <2>4, <3>3 DEF Planned, Downloads, Uploads, None, Unshaped
    <3>. QED
      BY <3>1, <3>4 DEF CoveredNow
  <2>. QED
    BY <2>1, <2>2, <2>3, <2>4 DEF CoveredNow
<1>8. ASSUME NEW p \in Procs, Fails(p) PROVE CoveredNow'
  BY <1>8 DEF Fails, BulkFails, LoadFails, ShapeDownFails, ShapeUpFails
<1>9. CASE GroupPages
  <2>1. PICK g \in Groups : CreateGroup(g)
    BY <1>9 DEF GroupPages, DeleteGroup
  <2>2. UNCHANGED <<tc, plan, dirty, pc>>
    BY <2>1 DEF CreateGroup, handlers
  <2>3. db'.row = db.row /\ db'.members = db.members /\ db'.preset = db.preset
    BY <2>1 DEF CreateGroup, Tables
  <2>4. Effective(db)' = Effective(db)
    <3>1. \A h \in Groups, u \in Users : Joins(db', h, u) = Joins(db, h, u)
      BY <2>3 DEF Joins
    <3>2. Join(db') = Join(db)
      BY <2>3, <3>1 DEF Join
    <3>. QED
      BY <3>2 DEF Effective
  <2>. QED
    BY <1>2, <2>2, <2>4 DEF Waiting, Building
<1>10. CASE Restarts \/ \E u \in Users : SyncerFlips(u)
  BY <1>10 DEF Restarts, Restart, SyncerFlips
<1>11. CASE UNCHANGED vars
  <2>1. UNCHANGED <<tc, plan, dirty, db, pc>>
    BY <1>11 DEF vars, handlers
  <2>2. Effective(db)' = Effective(db)
    BY <2>1
  <2>. QED
    BY <1>2, <2>1, <2>2 DEF Waiting, Building
<1>. QED
  BY <1>3, <1>4, <1>5, <1>6, <1>7, <1>8, <1>9, <1>10, <1>11 DEF Next, Work

\* The invariant holds initially.
LEMMA InitIInv == Init => IInv
<1>. SUFFICES ASSUME Init PROVE IInv
  OBVIOUS
<1>1. Mutex
  BY PcqAssumption DEF Init, Mutex, Inside
<1>2. Progress
  BY DEF Init, Progress, At
<1>3. CoveredNow
  <2>1. Join(db) = {}
    BY DEF Init, Join, Joins
  <2>2. Effective(db) = [a \in Addrs |-> [f \in Fields |-> 0]]
    BY <2>1 DEF Effective, Strictest, Values, Least
  <2>3. Downloads(Effective(db)) = None /\ Uploads(Effective(db)) = None
    BY <2>2 DEF Downloads, Uploads, None, Fields
  <2>4. tc = Planned(Effective(db))
    BY <2>3 DEF Init, Planned, Bare
  <2>. QED
    BY <2>4 DEF Init, CoveredNow, Building
<1>. QED
  BY <1>1, <1>2, <1>3, InitTypeOK DEF IInv

(***************************************************************************)
(* Every change that reconciles reaches the qdiscs: SettledShaping holds   *)
(* for all handlers, users, groups, addresses and presets.                 *)
(***************************************************************************)
THEOREM ShapingSettles == Spec => []SettledShaping
<1>1. TypeOK /\ (Mutex /\ Progress /\ CoveredNow) /\ [Next]_vars
        => (Mutex /\ Progress /\ CoveredNow)'
  BY MutexKept, ProgressKept, CoveredKept
<1>2. Mutex /\ Progress /\ CoveredNow => SettledShaping
  BY DEF CoveredNow, SettledShaping
<1>3. Init => Mutex /\ Progress /\ CoveredNow
  BY InitIInv DEF IInv
<1>. QED
  BY TypeCorrect, <1>1, <1>2, <1>3, PTL DEF Spec
=============================================================================
