--------------------------- MODULE Syncer_proofs ----------------------------
(***************************************************************************)
(* Proofs about quota enforcement, for any set of users, limits and clock  *)
(* steps and any number of request handlers.  None of them uses the bounds *)
(* MaxBytes and MaxTime.                                                   *)
(***************************************************************************)
EXTENDS Syncer, TLAPS

-----------------------------------------------------------------------------
(* Facts about one row. *)

\* Counters are added direction by direction.
LEMMA CounterType ==
  ASSUME NEW a \in Counter, NEW b \in Counter
  PROVE  Plus(a, b) \in Counter /\ Zero \in Counter
BY DEF Counter, Plus, Zero

\* What a pass takes from the days is not negative and at most the whole
\* days since last_day_check.
LEMMA ChargeBounds ==
  ASSUME NEW row \in Row, row.days # NULL, NEW t \in Nat,
         row.ldc # NULL => row.ldc <= t
  PROVE  /\ NewDays(row, t) \in Nat
         /\ 0 <= row.days - NewDays(row, t)
         /\ row.days - NewDays(row, t) <= DaysSince(row, t)
         /\ DaysSince(row, t) \in Nat
<1>1. DaysSince(row, t) \in Nat
  BY NullAssumption DEF DaysSince, Row, DayHours
<1>2. row.days \in Nat
  BY DEF Row
<1>3. QED
  BY <1>1, <1>2 DEF NewDays, AtLeastZero

\* A row stays a row across a pass.
LEMMA SyncRowType ==
  ASSUME NEW row \in Row, NEW p \in Counter, NEW t \in Nat
  PROVE  SyncRow(row, p, t) \in Row
<1>1. NewTotal(row, p) \in Counter
  BY CounterType DEF NewTotal, Row
<1>2. NewQuota(row, p) \in Nat \cup {NULL}
  <2>1. UsageInc(row, p) \in Int
    BY <1>1 DEF UsageInc, Usage, Row, Counter
  <2>2. QED
    BY <2>1 DEF NewQuota, AtLeastZero, Row
<1>3. NewDays(row, t) \in Nat \cup {NULL}
  <2>1. DaysSince(row, t) \in Int
    BY NullAssumption DEF DaysSince, Row, DayHours
  <2>2. QED
    BY <2>1 DEF NewDays, AtLeastZero, Row
<1>4. NewLdc(row, t) \in Nat \cup {NULL}
  BY DEF NewLdc, Row
<1>5. QED
  BY <1>1, <1>2, <1>3, <1>4 DEF SyncRow, Row, Exhausted

\* What a pass writes into the columns the invariants speak of.
LEMMA SyncRowColumns ==
  ASSUME NEW row \in Row, NEW p \in Counter, NEW t \in Nat
  PROVE  /\ SyncRow(row, p, t).bytes = p
         /\ SyncRow(row, p, t).total = NewTotal(row, p)
         /\ SyncRow(row, p, t).quota = NewQuota(row, p)
         /\ SyncRow(row, p, t).ldc = NewLdc(row, t)
BY DEF SyncRow, Row

-----------------------------------------------------------------------------
(* Types.  The days charged are natural because last_day_check never lies  *)
(* in the future, so the two are proved together.                          *)

LdcPassed == \A u \in Users : db[u] # NoRow /\ db[u].ldc # NULL => db[u].ldc <= now

TypeInv == TypeOK /\ LdcPassed

\* The initial state is typed.
LEMMA InitTypeInv == Init => TypeInv
BY ValueAssumption, SyncerAssumption
   DEF Init, TypeInv, TypeOK, LdcPassed, Peers, History, Counter, Zero

\* Changing which peers are on the interface keeps the types.
LEMMA SetPeersType ==
  ASSUME TypeOK, NEW P, SetPeers(P)
  PROVE  iface' \in Peers /\ hist' \in [Users -> History]
<1>1. ASSUME NEW u \in Users
      PROVE  [hist[u] EXCEPT !.past = Carried(u)] \in History
  <2>1. Carried(u) \in Counter
    BY CounterType DEF TypeOK, Carried, History, Peers
  <2>2. QED
    BY <2>1 DEF TypeOK, History
<1>2. QED
  BY <1>1, CounterType DEF SetPeers, TypeOK, Peers, Zero, Counter

\* A commit of the synchroniser keeps the types.
LEMMA CommitTypeInv == ASSUME TypeInv, SyncCommit PROVE TypeInv'
<1> USE DEF TypeInv
<1>1. dump \in Peers /\ now \in Nat /\ now' = now
  BY DEF TypeOK, SyncCommit
<1>2. ASSUME NEW u \in Users, Seen(u)
      PROVE  /\ db[u] \in Row /\ dump[u] \in Counter
             /\ SyncRow(db[u], dump[u], now) \in Row
  BY <1>1, <1>2, SyncRowType DEF Seen, TypeOK, Peers
<1>3. db' \in [Users -> Row \cup {NoRow}]
  BY <1>2 DEF SyncCommit, TypeOK
<1>4. ASSUME NEW u \in Users, Seen(u), db[u].days # NULL
      PROVE  hist[u].charged + db[u].days - NewDays(db[u], now) \in Nat
  <2>1. /\ NewDays(db[u], now) \in Nat
        /\ 0 <= db[u].days - NewDays(db[u], now)
    BY <1>1, <1>2, <1>4, ChargeBounds DEF LdcPassed, Seen
  <2>2. db[u].days \in Nat /\ hist[u].charged \in Nat
    BY <1>2, <1>4 DEF Row, TypeOK, History
  <2>3. QED
    BY <2>1, <2>2
<1>5. hist' \in [Users -> History]
  BY <1>4 DEF SyncCommit, TypeOK, History
<1>6. ASSUME NEW u \in Users, db'[u] # NoRow, db'[u].ldc # NULL
      PROVE  db'[u].ldc <= now
  <2>1. CASE Seen(u)
    <3>1. db'[u].ldc = NewLdc(db[u], now)
      BY <1>1, <1>2, <2>1, SyncRowColumns DEF SyncCommit, TypeOK
    <3>2. QED
      BY <1>1, <1>6, <2>1, <3>1 DEF NewLdc, LdcPassed, Seen
  <2>2. CASE ~Seen(u)
    BY <1>6, <2>2 DEF SyncCommit, LdcPassed, TypeOK
  <2>3. QED
    BY <2>1, <2>2
<1>7. QED
  BY <1>1, <1>3, <1>5, <1>6 DEF TypeOK, LdcPassed, SyncCommit

\* An edit or a toggle leaves the accounting columns alone.
AccountsKept ==
  /\ db' \in [Users -> Row \cup {NoRow}] /\ UNCHANGED hist
  /\ \A v \in Users : db'[v] # NoRow =>
       /\ db[v] # NoRow /\ db'[v].ldc = db[v].ldc
       /\ db'[v].total = db[v].total /\ db'[v].bytes = db[v].bytes

\* An edit of a row that leaves its counters alone keeps the accounts.
LEMMA EditKeepsAccounts ==
  ASSUME TypeOK, NEW u \in Users, db[u] # NoRow,
         NEW row \in Row, db' = [db EXCEPT ![u] = row],
         row.ldc = db[u].ldc, row.total = db[u].total, row.bytes = db[u].bytes,
         UNCHANGED hist
  PROVE  AccountsKept
BY DEF AccountsKept, TypeOK

\* Saving a user's form keeps the accounts.
LEMMA UpdateEffect ==
  ASSUME TypeOK, NEW p \in Procs, NEW u \in Users, NEW q \in Quotas, NEW d \in DayLimits,
         NEW e \in BOOLEAN, Update(p, u, q, d, e)
  PROVE  AccountsKept
<1> DEFINE row == [db[u] EXCEPT !.quota = q, !.days = d, !.en = e]
<1>1. /\ db[u] \in Row /\ db' = [db EXCEPT ![u] = row] /\ UNCHANGED hist
  BY DEF Update, TypeOK
<1>2. row \in Row /\ row.ldc = db[u].ldc /\ row.total = db[u].total /\ row.bytes = db[u].bytes
  BY <1>1, SyncerAssumption DEF Row
<1>3. QED
  <2> HIDE DEF row
  <2> QED BY <1>1, <1>2, EditKeepsAccounts, ValueAssumption

\* Enabling or disabling a user keeps the accounts.
LEMMA ToggleEffect == ASSUME TypeOK, NEW p \in Procs, NEW u \in Users, Toggle(p, u) PROVE AccountsKept
<1> DEFINE row == [db[u] EXCEPT !.en = ~db[u].en]
<1>1. /\ db[u] \in Row /\ db' = [db EXCEPT ![u] = row] /\ UNCHANGED hist
  BY DEF Toggle, TypeOK
<1>2. row \in Row /\ row.ldc = db[u].ldc /\ row.total = db[u].total /\ row.bytes = db[u].bytes
  BY <1>1 DEF Row
<1>3. QED
  <2> HIDE DEF row
  <2> QED BY <1>1, <1>2, EditKeepsAccounts, ValueAssumption

\* An edit that keeps the accounts keeps the types.
LEMMA EditTypeInv ==
  ASSUME TypeInv, AccountsKept, UNCHANGED <<conf, iface, dump, rows, now>>,
         NEW p \in Procs, Then(p, "write")
  PROVE  TypeInv'
BY DEF TypeInv, TypeOK, LdcPassed, AccountsKept, Then

\* The steps of a request that touch neither the rows of vpn_users nor the
\* interface.
Quiet(p) == Reload(p) \/ ReadRows(p) \/ Rename(p) \/ WriteFails(p) \/ ApplyFails(p)

\* Every step keeps the types.
LEMMA NextTypeInv == TypeInv /\ [Next]_vars => TypeInv'
<1> SUFFICES ASSUME TypeInv, [Next]_vars PROVE TypeInv'
  OBVIOUS
<1> USE ValueAssumption, SyncerAssumption DEF TypeInv, TypeOK, LdcPassed
<1>1. ASSUME NEW u \in Users, NEW inc \in Increments, Traffic(u, inc) PROVE TypeInv'
  <2>1. inc \in Counter
    BY DEF Increments, Counter
  <2>2. iface' \in Peers
    BY <1>1, <2>1, CounterType DEF Traffic, Peers
  <2>3. QED
    BY <1>1, <2>2 DEF Traffic
<1>2. CASE Tick
  BY <1>2 DEF Tick, Row
<1>3. CASE SyncDump
  BY <1>3 DEF SyncDump
<1>4. CASE SyncCommit
  BY <1>4, CommitTypeInv
<1>5. CASE SyncAbort
  BY <1>5 DEF SyncAbort
<1>6. ASSUME NEW p \in Procs, NEW u \in Users, NEW q \in Quotas, NEW d \in DayLimits,
             NEW e \in BOOLEAN, Create(p, u, q, d, e)
      PROVE  TypeInv'
  <2> DEFINE row == [bytes |-> Zero, total |-> Zero, quota |-> q, days |-> d,
                     ldc |-> NULL, en |-> e]
  <2>1. row \in Row /\ row.ldc = NULL
    BY <1>6, CounterType DEF Row
  <2>2. db' = [db EXCEPT ![u] = row]
    BY <1>6 DEF Create
  <2>3. Then(p, "write") /\ UNCHANGED <<conf, iface, dump, rows, now, hist>>
    BY <1>6 DEF Create
  <2> HIDE DEF row
  <2> QED  BY <2>1, <2>2, <2>3 DEF Then
<1>7. ASSUME NEW p \in Procs, NEW u \in Users, NEW q \in Quotas, NEW d \in DayLimits,
             NEW e \in BOOLEAN, Update(p, u, q, d, e)
      PROVE  TypeInv'
  BY <1>7, UpdateEffect, EditTypeInv DEF Update
<1>8. ASSUME NEW p \in Procs, NEW u \in Users, Toggle(p, u) PROVE TypeInv'
  BY <1>8, ToggleEffect, EditTypeInv DEF Toggle
<1>9. ASSUME NEW p \in Procs, NEW u \in Users, Delete(p, u) PROVE TypeInv'
  BY <1>9 DEF Delete, Then, Row, History
<1>10. ASSUME NEW p \in Procs, Quiet(p) PROVE TypeInv'
  BY <1>10 DEF Quiet, Reload, ReadRows, Rename, WriteFails, ApplyFails, Then, Hold
<1>11. ASSUME NEW p \in Procs, Apply(p) PROVE TypeInv'
  BY <1>11, SetPeersType DEF Apply, Then
<1>12. ASSUME NEW p \in Procs, NEW host \in BOOLEAN, Restart(p, host) PROVE TypeInv'
  BY <1>12, SetPeersType DEF Restart
<1>13. CASE UNCHANGED vars
  BY <1>13 DEF vars
<1>14. QED
  BY <1>1, <1>2, <1>3, <1>4, <1>5, <1>6, <1>7, <1>8, <1>9, <1>10, <1>11, <1>12, <1>13
     DEF Next, Sync, Request, Publish, World, Quiet

\* Every variable keeps its type: days are charged in natural numbers, as
\* last_day_check never lies in the future.
THEOREM TypeCorrect == Spec => []TypeOK
<1>1. TypeInv => TypeOK
  BY DEF TypeInv
<1> QED  BY <1>1, InitTypeInv, NextTypeInv, PTL DEF Spec

-----------------------------------------------------------------------------
(***************************************************************************)
(* Recorded usage.  RecordedWithinCarried is not inductive: a row is either*)
(* in step with the current life of the counters, and then what it banked  *)
(* belongs to the lives before (past), or it was written in an earlier one,*)
(* and then all of it does.  The same must hold of the dump in hand, which *)
(* may itself be of the current life or of an earlier one.                 *)
(***************************************************************************)
Live(u) == IF iface[u] = NoPeer THEN Zero ELSE iface[u]

\* Of a row with total T and bytes B, against counters c of a life before
\* which the peer carried P.
InStep(T, B, P, c) == (Leq(B, c) /\ Leq(T, P)) \/ Leq(Plus(T, B), P)

\* The same when c is of an earlier life: P includes c.
WasInStep(T, B, P, c) ==
  \/ Leq(B, c) /\ Leq(Plus(T, c), P)
  \/ Leq(Plus(Plus(T, B), c), P)

RowInStep(u) == InStep(db[u].total, db[u].bytes, hist[u].past, Live(u))

DumpInStep(u) ==
  \/ Leq(dump[u], Live(u)) /\ InStep(db[u].total, db[u].bytes, hist[u].past, dump[u])
  \/ Leq(dump[u], hist[u].past) /\ WasInStep(db[u].total, db[u].bytes, hist[u].past, dump[u])

DumpCarried(u) == Leq(dump[u], Live(u)) \/ Leq(dump[u], hist[u].past)

HasDump(u) == dump # Idle /\ dump[u] # NoPeer

UsageInv == \A u \in Users :
  /\ db[u] # NoRow => RowInStep(u)
  /\ HasDump(u) => DumpCarried(u)
  /\ HasDump(u) /\ db[u] # NoRow => DumpInStep(u)

\* A row in step with the interface accounts for no more than was carried.
LEMMA InStepCarried ==
  ASSUME NEW T \in Counter, NEW B \in Counter, NEW P \in Counter, NEW c \in Counter,
         InStep(T, B, P, c)
  PROVE  Leq(Plus(T, B), Plus(P, c))
BY DEF InStep, Leq, Plus, Counter

\* A pass leaves a row in step with the counters it saw.
LEMMA PassInStep ==
  ASSUME NEW row \in Row, NEW P \in Counter, NEW c \in Counter, NEW k \in Counter
  PROVE  /\ InStep(row.total, row.bytes, P, c) /\ Leq(c, k)
              => InStep(NewTotal(row, c), c, P, k)
         /\ WasInStep(row.total, row.bytes, P, c)
              => InStep(NewTotal(row, c), c, P, k)
<1>1. row.total \in Counter /\ row.bytes \in Counter
  BY DEF Row
<1>2. QED
  BY <1>1 DEF InStep, WasInStep, NewTotal, Leq, Plus, Counter

\* More traffic in the current life keeps everything in step.
LEMMA TrafficInStep ==
  ASSUME NEW T \in Counter, NEW B \in Counter, NEW P \in Counter, NEW k \in Counter,
         NEW l \in Counter, Leq(k, l), InStep(T, B, P, k)
  PROVE  InStep(T, B, P, l)
BY DEF InStep, Leq, Plus, Counter

\* A peer that loses its counters k ends a life: k joins the past.
LEMMA ResetInStep ==
  ASSUME NEW T \in Counter, NEW B \in Counter, NEW P \in Counter, NEW k \in Counter,
         NEW c \in Counter
  PROVE  /\ InStep(T, B, P, k) => InStep(T, B, Plus(P, k), Zero)
         /\ Leq(c, k) /\ InStep(T, B, P, c) => WasInStep(T, B, Plus(P, k), c)
         /\ WasInStep(T, B, P, c) => WasInStep(T, B, Plus(P, k), c)
         /\ Leq(c, k) \/ Leq(c, P) => Leq(c, Plus(P, k))
BY DEF InStep, WasInStep, Leq, Plus, Counter, Zero

\* A fresh row is in step with anything.
LEMMA FreshInStep ==
  ASSUME NEW P \in Counter, NEW c \in Counter
  PROVE  /\ InStep(Zero, Zero, P, c)
         /\ Leq(c, P) => WasInStep(Zero, Zero, P, c)
         /\ Leq(c, c)
BY DEF InStep, WasInStep, Leq, Plus, Counter, Zero

\* What the interface and the rows hold of a user are counters.
LEMMA LiveType ==
  ASSUME TypeOK, NEW u \in Users
  PROVE  /\ Live(u) \in Counter /\ hist[u].past \in Counter
         /\ Carried(u) \in Counter
         /\ Carried(u) = Plus(hist[u].past, Live(u))
         /\ HasDump(u) => dump[u] \in Counter
         /\ db[u] # NoRow => /\ db[u] \in Row
                             /\ db[u].total \in Counter /\ db[u].bytes \in Counter
<1>1. Live(u) \in Counter
  BY CounterType DEF Live, TypeOK, Peers, Zero, Counter
<1>2. hist[u].past \in Counter
  BY DEF TypeOK, History
<1>3. Carried(u) = Plus(hist[u].past, Live(u))
  BY <1>2 DEF Carried, Live, Plus, Zero, Counter
<1>4. HasDump(u) => dump[u] \in Counter
  BY DEF HasDump, TypeOK, Peers
<1>5. QED
  BY <1>1, <1>2, <1>3, <1>4, CounterType DEF TypeOK, Row

\* What one step may do to one user, seen from the counters.
LEMMA SetPeersUsage ==
  ASSUME TypeOK, UsageInv, NEW P, SetPeers(P), UNCHANGED db, UNCHANGED dump \/ dump' = Idle
  PROVE  UsageInv'
<1> SUFFICES ASSUME NEW u \in Users
             PROVE  /\ db[u] # NoRow => RowInStep(u)'
                    /\ HasDump(u)' => DumpCarried(u)'
                    /\ HasDump(u)' /\ db[u] # NoRow => DumpInStep(u)'
  BY DEF UsageInv
<1>0. HasDump(u)' => HasDump(u) /\ dump' = dump
  BY DEF HasDump
<1>1. CASE u \in P
  <2>1. Live(u)' = Live(u) /\ hist'[u] = hist[u]
    <3>1. Zero # NoPeer
      BY CounterType, ValueAssumption DEF Zero, Counter
    <3>2. QED
      BY <1>1, <3>1 DEF SetPeers, Live
  <2>2. QED
    BY <1>0, <2>1 DEF UsageInv, RowInStep, DumpCarried, DumpInStep
<1>2. CASE u \notin P
  <2>1. Live(u)' = Zero
    BY <1>2 DEF SetPeers, Live
  <2>2. hist'[u].past = Plus(hist[u].past, Live(u))
    BY <1>2, LiveType DEF SetPeers, TypeOK, History
  <2>3. db[u] # NoRow => RowInStep(u)'
    BY <2>1, <2>2, LiveType, ResetInStep DEF UsageInv, RowInStep
  <2>4. ASSUME HasDump(u)' PROVE DumpCarried(u)'
    <3>1. HasDump(u) /\ DumpCarried(u) /\ dump' = dump
      BY <1>0, <2>4 DEF UsageInv
    <3>2. Leq(dump[u], hist'[u].past)
      BY <2>2, <3>1, LiveType, ResetInStep DEF DumpCarried
    <3> QED  BY <3>1, <3>2 DEF DumpCarried
  <2>5. ASSUME HasDump(u)', db[u] # NoRow PROVE DumpInStep(u)'
    <3>1. HasDump(u) /\ DumpInStep(u) /\ dump' = dump /\ db' = db
      BY <1>0, <2>5 DEF UsageInv
    <3> DEFINE T == db[u].total  B == db[u].bytes  P0 == hist[u].past  L == Live(u)
               c == dump[u]
    <3>2. T \in Counter /\ B \in Counter /\ P0 \in Counter /\ L \in Counter /\ c \in Counter
      BY <2>5, <3>1, LiveType
    <3>3. \/ Leq(c, L) /\ InStep(T, B, P0, c)
          \/ Leq(c, P0) /\ WasInStep(T, B, P0, c)
      BY <3>1 DEF DumpInStep
    <3>4. hist'[u].past = Plus(P0, L)
      BY <2>2
    <3> HIDE DEF T, B, P0, L, c
    <3>5. Leq(c, Plus(P0, L)) /\ WasInStep(T, B, Plus(P0, L), c)
      BY <3>2, <3>3, ResetInStep
    <3> QED  BY <3>1, <3>4, <3>5 DEF DumpInStep, T, B, c
  <2>6. QED
    BY <2>3, <2>4, <2>5
<1>3. QED
  BY <1>1, <1>2

\* Traffic keeps usage within what was carried.
LEMMA TrafficUsage ==
  ASSUME TypeOK, UsageInv, NEW v \in Users, NEW inc \in Increments, Traffic(v, inc)
  PROVE  UsageInv'
<1> SUFFICES ASSUME NEW u \in Users
             PROVE  /\ db[u] # NoRow => RowInStep(u)'
                    /\ HasDump(u) => DumpCarried(u)'
                    /\ HasDump(u) /\ db[u] # NoRow => DumpInStep(u)'
  BY DEF UsageInv, Traffic, HasDump
<1>1. UNCHANGED <<db, dump, hist>>
  BY DEF Traffic
<1>2. inc \in Counter
  BY DEF Increments, Counter
<1>3. Live(u)' \in Counter /\ Leq(Live(u), Live(u)')
  <2>1. CASE u = v
    <3>1. iface'[u] = Plus(iface[u], inc) /\ iface[u] \in Counter
      BY <2>1 DEF Traffic, TypeOK, Peers
    <3>2. iface'[u] \in Counter /\ Leq(iface[u], iface'[u])
      BY <1>2, <3>1 DEF Plus, Leq, Counter
    <3>3. iface'[u] # NoPeer /\ iface[u] # NoPeer
      BY <3>1, <3>2, ValueAssumption
    <3>4. QED
      BY <3>2, <3>3 DEF Live
  <2>2. CASE u # v
    <3>1. Live(u)' = Live(u)
      BY <2>2 DEF Traffic, Live, TypeOK, Peers
    <3>2. QED
      BY <3>1, LiveType, FreshInStep
  <2>3. QED
    BY <2>1, <2>2
<1>4. db[u] # NoRow => RowInStep(u)'
  BY <1>1, <1>3, LiveType, TrafficInStep DEF UsageInv, RowInStep
<1>5. HasDump(u) /\ Leq(dump[u], Live(u)) => Leq(dump[u], Live(u)')
  BY <1>3, LiveType DEF Leq, Counter
<1>6. QED
  BY <1>1, <1>4, <1>5 DEF UsageInv, DumpCarried, DumpInStep

\* Reading the interface keeps usage within what was carried.
LEMMA DumpUsage == ASSUME TypeOK, UsageInv, SyncDump PROVE UsageInv'
<1> SUFFICES ASSUME NEW u \in Users
             PROVE  /\ db[u] # NoRow => RowInStep(u)
                    /\ iface[u] # NoPeer => DumpCarried(u)'
                    /\ iface[u] # NoPeer /\ db[u] # NoRow => DumpInStep(u)'
  BY DEF UsageInv, SyncDump, RowInStep, Live, HasDump
<1>1. db[u] # NoRow => RowInStep(u)
  BY DEF UsageInv
<1>2. iface[u] # NoPeer => dump'[u] = Live(u) /\ Live(u)' = Live(u)
  BY DEF SyncDump, Live
<1>3. Leq(Live(u), Live(u))
  BY LiveType, FreshInStep
<1>4. QED
  BY <1>1, <1>2, <1>3 DEF DumpCarried, DumpInStep, RowInStep, SyncDump

\* A commit charges no more than was carried.
LEMMA CommitUsage == ASSUME TypeOK, UsageInv, SyncCommit PROVE UsageInv'
<1> SUFFICES ASSUME NEW u \in Users, db'[u] # NoRow PROVE RowInStep(u)'
  BY DEF UsageInv, SyncCommit, HasDump
<1>1. Live(u)' = Live(u) /\ dump # Idle /\ now \in Nat
  BY DEF SyncCommit, Live, TypeOK
<1>2. hist'[u].past = hist[u].past
  BY DEF SyncCommit, TypeOK, History
<1>3. CASE Seen(u)
  <2>1. HasDump(u) /\ db[u] # NoRow
    BY <1>1, <1>3 DEF Seen, HasDump
  <2>2. db'[u].bytes = dump[u] /\ db'[u].total = NewTotal(db[u], dump[u])
    <3>1. db'[u] = SyncRow(db[u], dump[u], now)
      BY <1>3 DEF SyncCommit
    <3>2. QED
      BY <1>1, <2>1, <3>1, LiveType, SyncRowColumns
  <2>3. InStep(NewTotal(db[u], dump[u]), dump[u], hist[u].past, Live(u))
    BY <2>1, LiveType, PassInStep DEF UsageInv, DumpInStep
  <2>4. QED
    BY <1>1, <1>2, <2>2, <2>3 DEF RowInStep
<1>4. CASE ~Seen(u)
  BY <1>1, <1>2, <1>4 DEF SyncCommit, UsageInv, RowInStep
<1>5. QED
  BY <1>3, <1>4

\* A new user starts with nothing used.
LEMMA CreateUsage ==
  ASSUME TypeOK, UsageInv, NEW p \in Procs, NEW v \in Users, NEW q, NEW d, NEW e, Create(p, v, q, d, e)
  PROVE  UsageInv'
<1> SUFFICES ASSUME NEW u \in Users
             PROVE  /\ db'[u] # NoRow => RowInStep(u)'
                    /\ HasDump(u) => DumpCarried(u)'
                    /\ HasDump(u) /\ db'[u] # NoRow => DumpInStep(u)'
  BY DEF UsageInv, Create, HasDump
<1>1. Live(u)' = Live(u) /\ dump' = dump
  BY DEF Create, Live
<1>2. hist'[u].past = hist[u].past
  BY DEF Create, TypeOK, History
<1>3. CASE u = v
  <2>1. db'[u].total = Zero /\ db'[u].bytes = Zero
    BY <1>3 DEF Create, TypeOK
  <2>2. QED
    BY <1>1, <1>2, <2>1, LiveType, FreshInStep
       DEF UsageInv, RowInStep, DumpCarried, DumpInStep
<1>4. CASE u # v
  <2>1. db'[u] = db[u]
    BY <1>4 DEF Create, TypeOK
  <2>2. QED
    BY <1>1, <1>2, <2>1 DEF UsageInv, RowInStep, DumpCarried, DumpInStep
<1>5. QED
  BY <1>3, <1>4

\* A step that writes no counter and drops or keeps rows and the dump.
LEMMA KeptUsage ==
  ASSUME TypeOK, UsageInv, UNCHANGED iface,
         \A u \in Users : hist'[u].past = hist[u].past,
         \A u \in Users : db'[u] # NoRow => /\ db[u] # NoRow
                                            /\ db'[u].total = db[u].total
                                            /\ db'[u].bytes = db[u].bytes,
         UNCHANGED dump \/ dump' = Idle
  PROVE  UsageInv'
<1> SUFFICES ASSUME NEW u \in Users
             PROVE  /\ db'[u] # NoRow => RowInStep(u)'
                    /\ HasDump(u)' => DumpCarried(u)'
                    /\ HasDump(u)' /\ db'[u] # NoRow => DumpInStep(u)'
  BY DEF UsageInv
<1>1. Live(u)' = Live(u)
  BY DEF Live
<1>2. HasDump(u)' => HasDump(u) /\ dump' = dump
  BY DEF HasDump
<1>3. QED
  BY <1>1, <1>2 DEF UsageInv, RowInStep, DumpCarried, DumpInStep

\* Nothing is used initially.
LEMMA InitUsage == Init => UsageInv
BY DEF Init, UsageInv, HasDump

\* Every step keeps usage within what was carried.
LEMMA NextUsage == TypeInv /\ UsageInv /\ [Next]_vars => UsageInv'
<1> SUFFICES ASSUME TypeOK, UsageInv, [Next]_vars PROVE UsageInv'
  BY DEF TypeInv
<1>1. ASSUME NEW u \in Users, NEW inc \in Increments, Traffic(u, inc) PROVE UsageInv'
  BY <1>1, TrafficUsage
<1>2. CASE SyncDump
  BY <1>2, DumpUsage
<1>3. CASE SyncCommit
  BY <1>3, CommitUsage
<1>4. ASSUME NEW p \in Procs, NEW u \in Users, NEW q, NEW d, NEW e, Create(p, u, q, d, e) PROVE UsageInv'
  BY <1>4, CreateUsage
<1>5. ASSUME NEW p \in Procs, NEW u \in Users, NEW q \in Quotas, NEW d \in DayLimits,
             NEW e \in BOOLEAN, Update(p, u, q, d, e)
      PROVE  UsageInv'
  BY <1>5, UpdateEffect, KeptUsage DEF Update, AccountsKept
<1>6. ASSUME NEW p \in Procs, NEW u \in Users, Toggle(p, u) PROVE UsageInv'
  BY <1>6, ToggleEffect, KeptUsage DEF Toggle, AccountsKept
<1>7. ASSUME NEW p \in Procs, NEW u \in Users, Delete(p, u) PROVE UsageInv'
  <2>1. \A v \in Users : hist'[v].past = hist[v].past
    BY <1>7 DEF Delete, TypeOK, History
  <2>2. \A v \in Users : db'[v] # NoRow => db[v] # NoRow /\ db'[v] = db[v]
    BY <1>7 DEF Delete, TypeOK
  <2>3. QED
    BY <1>7, <2>1, <2>2, KeptUsage DEF Delete
<1>8. ASSUME NEW p \in Procs, Apply(p) PROVE UsageInv'
  BY <1>8, SetPeersUsage DEF Apply
<1>9. ASSUME NEW p \in Procs, NEW host \in BOOLEAN, Restart(p, host) PROVE UsageInv'
  BY <1>9, SetPeersUsage, KeptUsage DEF Restart
<1>10. CASE Tick \/ SyncAbort \/ (\E p \in Procs : Quiet(p)) \/ UNCHANGED vars
  BY <1>10, KeptUsage DEF Tick, SyncAbort, Quiet, Reload, ReadRows, Rename, WriteFails,
                          ApplyFails, vars
<1>11. QED
  BY <1>1, <1>2, <1>3, <1>4, <1>5, <1>6, <1>7, <1>8, <1>9, <1>10
     DEF Next, Sync, Request, Publish, World, Quiet

\* Recorded usage never exceeds the traffic really carried.
THEOREM UsageNeverOverstated == Spec => []RecordedWithinCarried
<1>1. TypeInv /\ UsageInv => RecordedWithinCarried
  BY LiveType, InStepCarried DEF TypeInv, UsageInv, RowInStep, RecordedWithinCarried
<1>2. QED
  BY <1>1, InitTypeInv, NextTypeInv, InitUsage, NextUsage, PTL DEF Spec

-----------------------------------------------------------------------------
(***************************************************************************)
(* Days.  DaysChargedHavePassed is strengthened with the date up to which  *)
(* a row has been charged: no charge lies beyond last_day_check.           *)
(***************************************************************************)
DaysInv == \A u \in Users :
  /\ DayHours * hist[u].charged <= now
  /\ db[u] # NoRow /\ db[u].ldc # NULL => DayHours * hist[u].charged <= db[u].ldc

\* Days charged move the last deduction on by as many days.
LEMMA ChargeMovesLdc ==
  ASSUME NEW row \in Row, NEW t \in Nat, NEW n \in Nat, row.days # NULL,
         row.ldc # NULL => row.ldc <= t /\ DayHours * n <= row.ldc,
         DayHours * n <= t
  PROVE  /\ DayHours * (n + row.days - NewDays(row, t)) <= t
         /\ NewLdc(row, t) # NULL
              => DayHours * (n + row.days - NewDays(row, t)) <= NewLdc(row, t)
<1> DEFINE charge == row.days - NewDays(row, t)
<1>1. /\ charge \in Nat /\ charge <= DaysSince(row, t) /\ DaysSince(row, t) \in Nat
      /\ NewDays(row, t) \in Nat
  BY ChargeBounds DEF Row
<1>2. row.days \in Nat /\ (row.ldc # NULL => row.ldc \in Nat)
  BY DEF Row
<1>3. n + row.days - NewDays(row, t) = n + charge
  BY <1>1, <1>2
<1>4. CASE row.ldc = NULL
  <2>1. charge = 0
    BY <1>1, <1>4 DEF DaysSince
  <2>2. NewLdc(row, t) # NULL => NewLdc(row, t) = t
    BY <1>4 DEF NewLdc
  <2>3. QED
    BY <1>3, <2>1, <2>2 DEF DayHours
<1>5. CASE row.ldc # NULL
  <2>1. DayHours * DaysSince(row, t) <= t - row.ldc
    BY <1>2, <1>5 DEF DaysSince, DayHours
  <2>2. DayHours * (n + charge) <= t
    BY <1>1, <1>2, <1>5, <2>1 DEF DayHours
  <2>3. NewLdc(row, t) = t \/ (NewLdc(row, t) = row.ldc /\ charge = 0)
    <3>1. CASE row.days = 0
      BY <1>1, <3>1 DEF NewLdc
    <3>2. CASE row.days # 0 /\ DaysSince(row, t) >= 1
      BY <3>2 DEF NewLdc
    <3>3. CASE ~(DaysSince(row, t) >= 1)
      BY <1>1, <1>5, <3>3 DEF NewLdc
    <3>4. QED
      BY <1>1, <3>1, <3>2, <3>3
  <2>4. QED
    BY <1>2, <1>3, <1>5, <2>2, <2>3 DEF DayHours
<1>6. QED
  BY <1>4, <1>5

\* A commit charges no more days than have passed.
LEMMA CommitDays == ASSUME TypeInv, DaysInv, SyncCommit PROVE DaysInv'
<1> SUFFICES ASSUME NEW u \in Users
             PROVE  /\ DayHours * hist'[u].charged <= now
                    /\ db'[u] # NoRow /\ db'[u].ldc # NULL
                         => DayHours * hist'[u].charged <= db'[u].ldc
  BY DEF DaysInv, SyncCommit
<1>1. now \in Nat /\ hist[u].charged \in Nat /\ dump # Idle /\ hist[u] \in History
  BY DEF SyncCommit, TypeInv, TypeOK, History
<1>2. CASE Seen(u)
  <2>1. db[u] \in Row /\ db[u] # NoRow /\ dump[u] \in Counter
    BY <1>1, <1>2 DEF Seen, TypeInv, TypeOK, Peers
  <2>2. db'[u].ldc = NewLdc(db[u], now)
    BY <1>1, <1>2, <2>1, SyncRowColumns DEF SyncCommit
  <2>3. CASE db[u].days # NULL
    <3>1. hist'[u].charged = hist[u].charged + db[u].days - NewDays(db[u], now)
      BY <1>1, <1>2, <2>3 DEF SyncCommit, History
    <3>2. db[u].ldc # NULL => /\ db[u].ldc <= now
                              /\ DayHours * hist[u].charged <= db[u].ldc
      BY <2>1 DEF DaysInv, TypeInv, LdcPassed
    <3>3. DayHours * hist[u].charged <= now
      BY DEF DaysInv
    <3>4. QED
      BY <1>1, <2>1, <2>2, <2>3, <3>1, <3>2, <3>3, ChargeMovesLdc
  <2>4. CASE db[u].days = NULL
    <3>1. hist'[u] = hist[u]
      BY <2>4 DEF SyncCommit
    <3>2. NewLdc(db[u], now) = db[u].ldc
      BY <2>4 DEF NewLdc
    <3>3. QED
      BY <2>1, <2>2, <3>1, <3>2 DEF DaysInv
  <2>5. QED
    BY <2>3, <2>4
<1>3. CASE ~Seen(u)
  BY <1>3 DEF SyncCommit, DaysInv
<1>4. QED
  BY <1>2, <1>3

\* A step that charges nobody and lets no row's last_day_check change.
LEMMA KeptDays ==
  ASSUME TypeInv, DaysInv, now' \in Nat, now <= now',
         \A u \in Users : hist'[u].charged = hist[u].charged,
         \A u \in Users : db'[u] # NoRow =>
           db'[u].ldc = NULL \/ (db[u] # NoRow /\ db'[u].ldc = db[u].ldc)
  PROVE  DaysInv'
<1> SUFFICES ASSUME NEW u \in Users
             PROVE  /\ DayHours * hist[u].charged <= now'
                    /\ db'[u] # NoRow /\ db'[u].ldc # NULL
                         => DayHours * hist[u].charged <= db'[u].ldc
  BY DEF DaysInv
<1>1. DayHours * hist[u].charged <= now /\ hist[u].charged \in Nat /\ now \in Nat
  BY DEF DaysInv, TypeInv, TypeOK, History
<1>2. QED
  BY <1>1 DEF DaysInv, DayHours

\* Putting wg0.conf on the interface charges no days.
LEMMA SetPeersDays ==
  ASSUME TypeInv, NEW P, SetPeers(P)
  PROVE  \A u \in Users : hist'[u].charged = hist[u].charged
BY DEF SetPeers, TypeInv, TypeOK, History

\* Every step keeps the days charged within those that passed.
LEMMA NextDays == TypeInv /\ DaysInv /\ [Next]_vars => DaysInv'
<1> SUFFICES ASSUME TypeInv, DaysInv, [Next]_vars PROVE DaysInv'
  OBVIOUS
<1>0. now \in Nat
  BY DEF TypeInv, TypeOK
<1>1. CASE SyncCommit
  BY <1>1, CommitDays
<1>2. CASE Tick
  BY <1>0, <1>2, KeptDays, SyncerAssumption DEF Tick
<1>3. ASSUME NEW p \in Procs, NEW u \in Users, NEW q, NEW d, NEW e, Create(p, u, q, d, e) PROVE DaysInv'
  <2>1. \A v \in Users : hist'[v].charged = hist[v].charged
    BY <1>3 DEF Create, TypeInv, TypeOK, History
  <2>2. \A v \in Users : db'[v] # NoRow => db'[v].ldc = NULL \/ db'[v] = db[v]
    BY <1>3 DEF Create, TypeInv, TypeOK
  <2>3. QED
    BY <1>0, <1>3, <2>1, <2>2, KeptDays DEF Create
<1>4. ASSUME NEW p \in Procs, NEW u \in Users, NEW q \in Quotas, NEW d \in DayLimits,
             NEW e \in BOOLEAN, Update(p, u, q, d, e)
      PROVE  DaysInv'
  <2>1. AccountsKept
    BY <1>4, UpdateEffect DEF TypeInv
  <2>2. now' \in Nat /\ now <= now'
    BY <1>0, <1>4 DEF Update
  <2>3. QED
    BY <2>1, <2>2, KeptDays DEF AccountsKept
<1>5. ASSUME NEW p \in Procs, NEW u \in Users, Toggle(p, u) PROVE DaysInv'
  <2>1. AccountsKept
    BY <1>5, ToggleEffect DEF TypeInv
  <2>2. now' \in Nat /\ now <= now'
    BY <1>0, <1>5 DEF Toggle
  <2>3. QED
    BY <2>1, <2>2, KeptDays DEF AccountsKept
<1>6. ASSUME NEW p \in Procs, NEW u \in Users, Delete(p, u) PROVE DaysInv'
  <2>1. \A v \in Users : hist'[v].charged = hist[v].charged
    BY <1>6 DEF Delete, TypeInv, TypeOK, History
  <2>2. \A v \in Users : db'[v] # NoRow => db[v] # NoRow /\ db'[v] = db[v]
    BY <1>6 DEF Delete, TypeInv, TypeOK
  <2>3. QED
    BY <1>0, <1>6, <2>1, <2>2, KeptDays DEF Delete
<1>7. CASE \E p \in Procs : Apply(p) \/ \E host \in BOOLEAN : Restart(p, host)
  <2>1. \A u \in Users : hist'[u].charged = hist[u].charged
    BY <1>7, SetPeersDays DEF Apply, Restart
  <2>2. QED
    BY <1>0, <1>7, <2>1, KeptDays DEF Apply, Restart
<1>8. CASE \/ \E u \in Users, inc \in Increments : Traffic(u, inc)
           \/ SyncDump \/ SyncAbort \/ (\E p \in Procs : Quiet(p))
           \/ UNCHANGED vars
  <2>1. UNCHANGED <<db, now, hist>>
    BY <1>8 DEF Traffic, SyncDump, SyncAbort, Quiet, Reload, ReadRows, Rename,
                WriteFails, ApplyFails, vars
  <2>2. QED
    BY <1>0, <2>1, KeptDays
<1>9. QED
  BY <1>1, <1>2, <1>3, <1>4, <1>5, <1>6, <1>7, <1>8
     DEF Next, Sync, Request, Publish, World, Quiet

\* The days charged to a user never outrun the clock.
THEOREM DaysNeverOvercharged == Spec => []DaysChargedHavePassed
<1>1. Init => DaysInv
  BY DEF Init, DaysInv, DayHours
<1>2. DaysInv => DaysChargedHavePassed
  BY DEF DaysInv, DaysChargedHavePassed
<1>3. QED
  BY <1>1, <1>2, InitTypeInv, NextTypeInv, NextDays, PTL DEF Spec

-----------------------------------------------------------------------------
(* Quota. *)

\* A pass never shrinks what is recorded of a row, whatever it was shown.
LEMMA UsageGrows ==
  ASSUME NEW row \in Row, NEW p \in Counter
  PROVE  /\ Usage(row.total, row.bytes) <= Usage(NewTotal(row, p), p)
         /\ row.quota # NULL => NewQuota(row, p) <= row.quota
<1>1. /\ row.total.rx \in Nat /\ row.total.tx \in Nat
      /\ row.bytes.rx \in Nat /\ row.bytes.tx \in Nat
      /\ p.rx \in Nat /\ p.tx \in Nat /\ (row.quota # NULL => row.quota \in Nat)
  BY DEF Row, Counter
<1>2. Usage(row.total, row.bytes) <= Usage(NewTotal(row, p), p)
  BY <1>1 DEF Usage, NewTotal, Plus
<1>3. UsageInc(row, p) \in Nat
  BY <1>1, <1>2 DEF UsageInc, Usage, NewTotal, Plus
<1>4. QED
  BY <1>1, <1>2, <1>3 DEF NewQuota, AtLeastZero

\* No pass hands traffic back to a user.
THEOREM QuotaNeverRefunded == Spec => SyncNeverRefunds
<1> DEFINE Grows(u) ==
      db[u] # NoRow /\ db'[u] # NoRow =>
        /\ Usage(db[u].total, db[u].bytes) <= Usage(db'[u].total, db'[u].bytes)
        /\ db[u].quota # NULL => db'[u].quota <= db[u].quota
<1>1. ASSUME TypeInv, SyncCommit, NEW u \in Users PROVE Grows(u)
  <2>1. CASE Seen(u)
    <3>1. db[u] \in Row /\ dump[u] \in Counter /\ now \in Nat
      BY <1>1, <2>1 DEF Seen, SyncCommit, TypeInv, TypeOK, Peers
    <3>2. db'[u] = SyncRow(db[u], dump[u], now)
      BY <1>1, <2>1 DEF SyncCommit
    <3>3. QED
      BY <3>1, <3>2, SyncRowColumns, UsageGrows
  <2>2. CASE ~Seen(u) /\ db[u] # NoRow
    <3>1. db'[u] = db[u] /\ db[u] \in Row
      BY <1>1, <2>2 DEF SyncCommit, TypeInv, TypeOK
    <3>2. QED
      BY <3>1 DEF Usage, Row, Counter
  <2>3. QED
    BY <2>1, <2>2
<1>2. ASSUME TypeInv, db' = db, NEW u \in Users PROVE Grows(u)
  <2>1. db[u] # NoRow => db[u] \in Row
    BY <1>2 DEF TypeInv, TypeOK
  <2>2. QED
    BY <1>2, <2>1 DEF Usage, Row, Counter
<1>3. ASSUME [Next]_vars, dump # Idle, dump' = Idle PROVE SyncCommit \/ db' = db
  <2>1. ASSUME NEW p \in Procs, Request(p) PROVE dump' = dump
    <3>1. ASSUME NEW u \in Users, NEW q \in Quotas, NEW d \in DayLimits,
                 NEW e \in BOOLEAN, Create(p, u, q, d, e) \/ Update(p, u, q, d, e)
          PROVE  dump' = dump
      BY <3>1 DEF Create, Update
    <3>2. ASSUME NEW u \in Users, Toggle(p, u) \/ Delete(p, u) PROVE dump' = dump
      BY <3>2 DEF Toggle, Delete
    <3>3. CASE Quiet(p) \/ Apply(p)
      BY <3>3 DEF Quiet, Reload, ReadRows, Rename, WriteFails, ApplyFails, Apply
    <3>4. QED
      BY <2>1, <3>1, <3>2, <3>3 DEF Request, Publish, Quiet
  <2>2. CASE Sync
    BY <1>3, <2>2 DEF Sync, SyncDump, SyncAbort
  <2>3. CASE World
    BY <2>3 DEF World, Traffic, Tick, Restart
  <2>4. QED
    BY <1>3, <2>1, <2>2, <2>3 DEF Next, vars
<1>4. TypeInv /\ [Next]_vars
        => [dump # Idle /\ dump' = Idle => \A u \in Users : Grows(u)]_vars
  BY <1>1, <1>2, <1>3
<1>5. QED
  BY <1>4, InitTypeInv, NextTypeInv, PTL DEF Spec, SyncNeverRefunds
=============================================================================
