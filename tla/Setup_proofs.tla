---------------------------- MODULE Setup_proofs ----------------------------
(***************************************************************************)
(* Proofs about Setup: whoever completes it was signed in, and only an     *)
(* administrator ever is; every variable keeps its type; and a request     *)
(* that runs alone does what its form says.                                *)
(***************************************************************************)
EXTENDS Setup, WellFoundedInduction, SequenceTheorems, TLAPS

(***************************************************************************)
(* A session, and a wizard post on its way to the tables, outlive the      *)
(* check that let them in; what keeps it true is that administrators are   *)
(* never taken away.                                                       *)
(***************************************************************************)
Pending(p) == pc[p] = "sys"

AdminInv ==
  /\ admins \in Nat
  /\ pc \in [Procs -> Steps \cup {"idle"}]
  /\ sess # {} => admins > 0
  /\ SetupComplete => admins > 0
  /\ \A p \in Procs : Pending(p) => admins > 0

\* Nothing is set up yet.
LEMMA AdminInit == Init => AdminInv
BY DEF Init, AdminInv, SetupComplete, Pending

\* Steps that leave the accounts and sys alone and enter the tables nowhere.
LEMMA AdminKept ==
  ASSUME AdminInv, UNCHANGED <<sys, admins, sess>>,
         NEW p \in Procs, NEW s \in (Steps \cup {"idle"}) \ {"sys"},
         pc' = [pc EXCEPT ![p] = s] \/ UNCHANGED pc
  PROVE  AdminInv'
BY DEF AdminInv, SetupComplete, Pending

\* A post that begins: only the signed-in go on to the tables.
LEMMA AdminBegin ==
  ASSUME AdminInv, NEW p \in Procs, Enter(p) PROVE AdminInv'
<1>1. CASE AdminCheck(p)
  BY <1>1, AdminKept DEF AdminCheck, Goto, tables, host, auth, Steps
<1>2. CASE AdminInsert(p)
  BY <1>2 DEF AdminInsert, End, Goto, tables, host, AdminInv, SetupComplete, Pending
<1>3. CASE Login(p) \/ Logout(p)
  BY <1>3 DEF Login, Logout, tables, host, AdminInv, SetupComplete, Pending
<1>4. CASE ReloadPost(p)
  BY <1>4, AdminKept DEF ReloadPost, Begin, Goto, tables, host, auth, Steps
<1>5. CASE \E s \in Settings, k \in Keys, file \in Files : SetupPost(p, s, k, file)
  <2>1. p \in sess /\ pc' = [pc EXCEPT ![p] = "sys"] /\ UNCHANGED <<sys, admins, sess>>
    BY <1>5 DEF SetupPost, Begin, Goto, tables, host, auth
  <2> QED  BY <2>1 DEF AdminInv, SetupComplete, Pending, Steps
<1>6. CASE \E s \in Settings, k \in Keys \cup {Nothing} : SavePost(p, s, k)
  <2>1. p \in sess /\ pc' = [pc EXCEPT ![p] = "sys"] /\ UNCHANGED <<sys, admins, sess>>
    BY <1>6 DEF SavePost, Begin, Goto, tables, host, auth
  <2> QED  BY <2>1 DEF AdminInv, SetupComplete, Pending, Steps
<1> QED  BY <1>1, <1>2, <1>3, <1>4, <1>5, <1>6 DEF Enter

\* A post under way only goes from one table to the next.
LEMMA AdminRun ==
  ASSUME AdminInv, NEW p \in Procs, Run(p) PROVE AdminInv'
<1>1. CASE UpsertSystem(p)
  BY <1>1 DEF UpsertSystem, At, Goto, host, auth, AdminInv, SetupComplete, Pending, Steps
<1>2. CASE UpsertServer(p)
  <2>1. PICK s \in {"import", "config"} : pc' = [pc EXCEPT ![p] = s]
    BY <1>2 DEF UpsertServer, Goto
  <2> QED  BY <1>2, <2>1, AdminKept DEF UpsertServer, host, auth, Steps
<1>3. CASE ImportPeer(p) \/ ImportDone(p) \/ ReadSystem(p) \/ WriteConf(p)
  <2>1. CASE ImportPeer(p)
    <3>1. UNCHANGED <<sys, admins, sess, pc>>
      BY <2>1 DEF ImportPeer, auth
    <3> QED  BY <3>1 DEF AdminInv, SetupComplete, Pending
  <2>2. CASE ImportDone(p) \/ ReadSystem(p) \/ WriteConf(p)
    <3>1. PICK s \in {"config", "row", "apply"} : pc' = [pc EXCEPT ![p] = s]
      BY <2>2 DEF ImportDone, ReadSystem, WriteConf, Goto
    <3>2. UNCHANGED <<sys, admins, sess>>
      BY <2>2 DEF ImportDone, ReadSystem, WriteConf, tables, auth
    <3> QED  BY <3>1, <3>2, AdminKept DEF Steps
  <2> QED  BY <1>3, <2>1, <2>2
<1>4. CASE ReadServer(p)
  <2>1. PICK s \in {"idle", "apply", "write"} : pc' = [pc EXCEPT ![p] = s]
    BY <1>4 DEF ReadServer, WriteFailed, End, Goto
  <2> QED  BY <1>4, <2>1, AdminKept DEF ReadServer, tables, auth, Steps
<1>5. CASE Apply(p)
  BY <1>5, AdminKept DEF Apply, End, Goto, tables, auth
<1> QED  BY <1>1, <1>2, <1>3, <1>4, <1>5 DEF Run

\* Nobody takes an administrator away, not even a restart.
LEMMA AdminStep == AdminInv /\ [Next]_vars => AdminInv'
<1> SUFFICES ASSUME AdminInv, [Next]_vars PROVE AdminInv'
  OBVIOUS
<1>1. CASE UNCHANGED vars
  BY <1>1 DEF vars, tables, auth, AdminInv, SetupComplete, Pending
<1>2. ASSUME NEW p \in Procs, Fail(p) PROVE AdminInv'
  <2>1. PICK s \in {"idle", "apply"} : pc' = [pc EXCEPT ![p] = s]
    BY <1>2 DEF Fail, WriteFailed, End, Goto
  <2> QED  BY <1>2, <2>1, AdminKept DEF Fail, tables, auth, Steps
<1>3. ASSUME NEW p \in Procs, Restart(p) PROVE AdminInv'
  <2>1. admins' \in Nat /\ (admins > 0 => admins' > 0)
    BY <1>3 DEF Restart, AdminInv
  <2>2. /\ sess' = {} /\ sys' = sys
        /\ pc' \in [Procs -> Steps \cup {"idle"}] /\ \A q \in Procs : pc'[q] # "sys"
    BY <1>3 DEF Restart, tables, Steps
  <2> QED  BY <2>1, <2>2 DEF AdminInv, SetupComplete, Pending
<1> QED  BY <1>1, <1>2, <1>3, AdminBegin, AdminRun DEF Next

(***************************************************************************)
(* For any number of browsers, settings, keys and import files, and with   *)
(* requests that overlap, fail and are cut off by restarts: setup is never *)
(* complete without an administrator, so it can always be signed in to.    *)
(***************************************************************************)
THEOREM AlwaysSomeoneToSignIn == Spec => []CompleteSetupHasAdmin
<1>1. AdminInv => CompleteSetupHasAdmin
  BY DEF AdminInv, CompleteSetupHasAdmin
<1> QED  BY <1>1, AdminInit, AdminStep, PTL DEF Spec

-----------------------------------------------------------------------------
(* Importing a file one peer at a time. *)

\* Numbers up to a bound have a greatest one among them.
LEMMA Greatest ==
  ASSUME NEW k \in Nat, NEW S \in SUBSET (1..k), S # {}
  PROVE  \E a \in S : \A b \in S : b <= a
<1> DEFINE More == {s \in Nat \X Nat : s[1] < s[2]}
<1> DEFINE Below == {n \in Nat : \E s \in S : n = k - s}
<1>1. IsWellFoundedOn(More, Nat)
  BY NatLessThanWellFounded DEF OpToRel
<1>2. Below # {} /\ Below \in SUBSET Nat
  <2>1. PICK s \in S : TRUE
    OBVIOUS
  <2>2. k - s \in Nat
    OBVIOUS
  <2> QED  BY <2>1, <2>2
<1>3. \E x \in Below : \A y \in Below : <<y, x>> \notin More
  <2> HIDE DEF More, Below
  <2> QED  BY <1>1, <1>2, WFMin
<1>4. PICK x \in Below : \A y \in Below : <<y, x>> \notin More
  BY <1>3
<1>5. PICK a \in S : x = k - a
  OBVIOUS
<1>6. ASSUME NEW b \in S PROVE b <= a
  <2>1. k - b \in Below
    OBVIOUS
  <2>2. <<k - b, x>> \in Nat \X Nat /\ ~(k - b < x)
    BY <1>4, <2>1
  <2> QED  BY <1>5, <2>2
<1> QED  BY <1>6

\* Where a name stands in a file for the last time.
PlacesOf(file, n) == {i \in DOMAIN file : file[i].name = n}
LastOf(S) == CHOOSE i \in S : \A j \in S : j <= i

\* A name that stands in a file has a last place there.
LEMMA LastIs ==
  ASSUME NEW file \in Seq(Entry), NEW n, PlacesOf(file, n) # {}
  PROVE  /\ LastOf(PlacesOf(file, n)) \in PlacesOf(file, n)
         /\ \A j \in PlacesOf(file, n) : j <= LastOf(PlacesOf(file, n))
<1>1. \E i \in PlacesOf(file, n) : \A j \in PlacesOf(file, n) : j <= i
  <2>1. PlacesOf(file, n) \in SUBSET (1..Len(file)) /\ Len(file) \in Nat
    BY DEF PlacesOf
  <2> QED  BY <2>1, Greatest
<1> QED  BY <1>1 DEF LastOf

\* Imported, in terms of the two operators above.
LEMMA ImportedIs ==
  ASSUME NEW file
  PROVE  Imported(file) = [n \in Names |-> IF PlacesOf(file, n) = {} THEN users[n]
                                            ELSE file[LastOf(PlacesOf(file, n))].peer]
BY DEF Imported, PlacesOf, LastOf

\* An import that has nothing left leaves the users alone.
LEMMA ImportedNothing ==
  ASSUME users \in [Names -> Peers \cup {Nothing}]
  PROVE  Imported(<<>>) = users
<1>1. \A n : PlacesOf(<<>>, n) = {}
  BY DEF PlacesOf
<1> QED  BY <1>1, ImportedIs

\* What an import leaves is a table of users.
LEMMA ImportedTyped ==
  ASSUME NEW file \in Seq(Entry), users \in [Names -> Peers \cup {Nothing}]
  PROVE  Imported(file) \in [Names -> Peers \cup {Nothing}]
<1>1. ASSUME NEW n \in Names, PlacesOf(file, n) # {} PROVE file[LastOf(PlacesOf(file, n))].peer \in Peers
  <2>1. LastOf(PlacesOf(file, n)) \in DOMAIN file
    BY <1>1, LastIs DEF PlacesOf
  <2>2. file[LastOf(PlacesOf(file, n))] \in Entry
    BY <2>1
  <2> QED  BY <2>2 DEF Entry
<1> QED  BY <1>1, ImportedIs

\* Importing one peer and then the rest is importing them all.
LEMMA ImportOne ==
  ASSUME NEW file \in Seq(Entry), file # <<>>, NEW n \in Names,
         users \in [Names -> Peers \cup {Nothing}],
         NEW us, us = [users EXCEPT ![Head(file).name] = Head(file).peer]
  PROVE  (IF PlacesOf(Tail(file), n) = {} THEN us[n] ELSE Tail(file)[LastOf(PlacesOf(Tail(file), n))].peer)
         = Imported(file)[n]
<1> DEFINE all == PlacesOf(file, n)  rest == PlacesOf(Tail(file), n)
<1>1. /\ Len(file) \in Nat \ {0} /\ DOMAIN file = 1..Len(file) /\ Head(file) = file[1]
      /\ Tail(file) \in Seq(Entry) /\ DOMAIN Tail(file) = 1..(Len(file) - 1)
      /\ \A i \in 1..(Len(file) - 1) : Tail(file)[i] = file[i + 1]
      /\ Head(file) \in Entry
  OBVIOUS
<1>2. \A i \in Nat \ {0} : i \in rest <=> i + 1 \in all
  BY <1>1 DEF PlacesOf
<1>3. rest \subseteq Nat \ {0} /\ all \subseteq Nat \ {0}
  BY <1>1 DEF PlacesOf
<1>4. CASE rest = {}
  <2>1. all \subseteq {1}
    <3>1. ASSUME NEW i \in all, i # 1 PROVE FALSE
      <4>1. i - 1 \in Nat \ {0} /\ (i - 1) + 1 = i
        BY <1>3, <3>1
      <4> QED  BY <1>2, <1>4, <4>1
    <3> QED  BY <3>1
  <2>2. CASE file[1].name = n
    <3>1. all = {1}
      BY <1>1, <2>1, <2>2 DEF PlacesOf
    <3>2. LastOf(all) = 1
      BY <3>1 DEF LastOf
    <3>3. us[n] = file[1].peer
      BY <1>1, <2>2 DEF Entry
    <3>4. Imported(file)[n] = file[1].peer
      BY <3>1, <3>2, ImportedIs
    <3> QED  BY <1>4, <3>3, <3>4
  <2>3. CASE file[1].name # n
    <3>1. all = {}
      BY <1>1, <2>1, <2>3 DEF PlacesOf
    <3>2. us[n] = users[n]
      BY <1>1, <2>3
    <3> QED  BY <1>4, <3>1, <3>2, ImportedIs
  <2> QED  BY <2>2, <2>3
<1>5. CASE rest # {}
  <2> DEFINE m == LastOf(rest)
  <2>1. m \in rest /\ \A j \in rest : j <= m
    BY <1>1, <1>5, LastIs
  <2>2. m \in 1..(Len(file) - 1)
    BY <1>1, <2>1 DEF PlacesOf
  <2>3. m + 1 \in all
    BY <1>2, <1>3, <2>1
  <2>4. ASSUME NEW j \in all PROVE j <= m + 1
    <3>1. CASE j = 1
      BY <2>2, <3>1
    <3>2. CASE j # 1
      <4>1. j - 1 \in Nat \ {0} /\ (j - 1) + 1 = j
        BY <1>3, <3>2
      <4>2. j - 1 <= m
        BY <1>2, <2>1, <4>1
      <4> QED  BY <2>2, <4>1, <4>2
    <3> QED  BY <3>1, <3>2
  <2>5. LastOf(all) = m + 1
    <3>1. all # {}
      BY <2>3
    <3>2. LastOf(all) \in all /\ \A j \in all : j <= LastOf(all)
      BY <3>1, LastIs
    <3>3. LastOf(all) <= m + 1 /\ m + 1 <= LastOf(all)
      BY <2>3, <2>4, <3>2
    <3> QED  BY <1>3, <2>2, <3>2, <3>3
  <2>6. Tail(file)[m] = file[m + 1]
    BY <1>1, <2>2
  <2> QED  BY <1>5, <2>3, <2>5, <2>6, ImportedIs
<1> QED  BY <1>4, <1>5

-----------------------------------------------------------------------------
(***************************************************************************)
(* Types.  What a request stores and reads is there from the step before:  *)
(* settings in its form until both tables have them, setup complete once   *)
(* the first has, and a server row once it is about to write wg0.conf.     *)
(***************************************************************************)
Buf == [addr : Settings \cup {Nothing}, srv : Server \cup {Nothing}]

\* A request at step s with form f and what it has read, b.
Ready(s, f, b) ==
  /\ s \in {"sys", "server"} => /\ f.set \in Settings /\ f.kind \in {"setup", "save"}
                                /\ f.kind = "setup" => f.key \in Keys
  /\ s \in {"row", "write"} => b.addr \in Settings
  /\ s = "write" => b.srv \in Server

Later == {"server", "import", "config", "row", "write"}

Armed(p) == Ready(pc[p], form[p], buf[p]) /\ (pc[p] \in Later => SetupComplete)

TypeInv == TypeOK /\ \A p \in Procs : Armed(p)

Requests ==
  /\ pc \in [Procs -> Steps \cup {"idle"}] /\ form \in [Procs -> Form]
  /\ buf \in [Procs -> Buf]

\* The empty form and the empty buffer are of their types.
LEMMA NoneTyped == NoForm \in Form /\ NoBuf \in Buf
<1>1. <<>> \in Seq(Entry)
  OBVIOUS
<1> QED  BY <1>1 DEF NoForm, Form, Kinds, NoBuf, Buf

\* The installation starts well-typed.
LEMMA TypeInit == Init => TypeInv
<1> SUFFICES ASSUME Init PROVE TypeInv
  OBVIOUS
<1>1. TypeOK
  BY NoneTyped DEF Init, TypeOK, Tables, Buf
<1>2. ASSUME NEW p \in Procs PROVE Armed(p)
  BY DEF Init, Armed, Ready, Later
<1> QED  BY <1>1, <1>2 DEF TypeInv

\* TypeOK, one variable at a time.
LEMMA TypeOKIs ==
  TypeOK <=> /\ sys \in Settings \cup {Nothing} /\ srv \in Server \cup {Nothing}
             /\ users \in [Names -> Peers \cup {Nothing}]
             /\ conf \in Config \cup {Nothing} /\ iface \in Settings \cup {Nothing}
             /\ admins \in Nat /\ sess \subseteq Procs
             /\ Requests
             /\ solo \in Procs \cup {Nothing} /\ want \in Tables \cup {Nothing}
<1>1. [sys |-> sys, srv |-> srv, users |-> users] \in Tables
        <=> /\ sys \in Settings \cup {Nothing} /\ srv \in Server \cup {Nothing}
            /\ users \in [Names -> Peers \cup {Nothing}]
  BY DEF Tables
<1> QED  BY <1>1 DEF TypeOK, Requests, Buf

\* A request moves on; the others stay ready.
LEMMA Turn ==
  ASSUME TypeInv, NEW p \in Procs, NEW s \in Steps \cup {"idle"}, NEW f \in Form, NEW b \in Buf,
         pc' = [pc EXCEPT ![p] = s], form' = [form EXCEPT ![p] = f],
         buf' = [buf EXCEPT ![p] = b],
         SetupComplete => SetupComplete',
         Ready(s, f, b), s \in Later => SetupComplete'
  PROVE  Requests' /\ (\A q \in Procs : Armed(q))'
<1>1. Requests
  BY TypeOKIs DEF TypeInv
<1>2. Requests'
  BY <1>1 DEF Requests
<1>3. ASSUME NEW q \in Procs PROVE Armed(q)'
  <2>1. CASE q = p
    <3>1. pc'[q] = s /\ form'[q] = f /\ buf'[q] = b
      BY <1>1, <2>1 DEF Requests
    <3>2. Ready(pc'[q], form'[q], buf'[q]) /\ (pc'[q] \in Later => SetupComplete')
      BY <3>1
    <3> QED  BY <3>2 DEF Armed, Ready
  <2>2. CASE q # p
    <3>1. pc'[q] = pc[q] /\ form'[q] = form[q] /\ buf'[q] = buf[q]
      BY <1>1, <2>2 DEF Requests
    <3>2. Armed(q)
      BY DEF TypeInv
    <3> QED  BY <3>1, <3>2 DEF Armed, Ready
  <2> QED  BY <2>1, <2>2
<1> QED  BY <1>2, <1>3

\* A request that ends leaves everyone ready.
LEMMA Ending ==
  ASSUME TypeInv, NEW p \in Procs, End(p), UNCHANGED sys
  PROVE  Requests' /\ (\A q \in Procs : Armed(q))'
<1>1. Ready("idle", NoForm, NoBuf)
  BY DEF Ready
<1>2. SetupComplete => SetupComplete'
  BY DEF SetupComplete
<1> QED  BY <1>1, <1>2, NoneTyped, Turn DEF End, Goto, Later, Steps

\* A step of one request that stores and keeps its form.
LEMMA Moving ==
  ASSUME TypeInv, NEW p \in Procs, NEW s \in Steps \cup {"idle"}, NEW b \in Buf,
         Goto(p, s), buf' = [buf EXCEPT ![p] = b], UNCHANGED form,
         SetupComplete => SetupComplete',
         Ready(s, form[p], b), s \in Later => SetupComplete'
  PROVE  Requests' /\ (\A q \in Procs : Armed(q))'
<1>1. form[p] \in Form /\ form' = [form EXCEPT ![p] = form[p]]
  BY TypeOKIs DEF TypeInv, Requests
<1> QED  BY <1>1, Turn DEF Goto

\* What a beginning request writes into the history is of its type.
LEMMA Alones ==
  ASSUME NEW p \in Procs, NEW t \in Tables, Alone(p, t)
  PROVE  solo' \in Procs \cup {Nothing} /\ want' \in Tables \cup {Nothing}
BY DEF Alone

\* The tables are of their type.
LEMMA NowTyped == TypeOK => Now \in Tables
BY DEF TypeOK, Now, Tables

\* A request that begins with a form that is ready.
LEMMA Starting ==
  ASSUME TypeInv, NEW p \in Procs, NEW s \in Steps, NEW f \in Form, NEW t \in Tables,
         Begin(p, s, f, t), Ready(s, f, buf[p]), s \in Later => SetupComplete
  PROVE  TypeInv'
<1>1. buf[p] \in Buf /\ buf' = [buf EXCEPT ![p] = buf[p]]
  BY TypeOKIs DEF TypeInv, Requests, Begin
<1>2. UNCHANGED <<sys, srv, users, conf, iface, admins, sess>>
  BY DEF Begin, tables, host, auth
<1>3. Requests' /\ (\A q \in Procs : Armed(q))'
  BY <1>1, <1>2, Turn DEF Begin, Goto, SetupComplete
<1>4. solo' \in Procs \cup {Nothing} /\ want' \in Tables \cup {Nothing}
  BY Alones DEF Begin
<1>5. TypeOK'
  BY <1>2, <1>3, <1>4, TypeOKIs DEF TypeInv, TypeOK, Requests, Buf
<1> QED  BY <1>3, <1>5 DEF TypeInv

\* The parts of TypeOK after a step.
LEMMA Parts ==
  ASSUME sys' \in Settings \cup {Nothing}, srv' \in Server \cup {Nothing},
         users' \in [Names -> Peers \cup {Nothing}],
         conf' \in Config \cup {Nothing}, iface' \in Settings \cup {Nothing},
         admins' \in Nat, sess' \subseteq Procs, Requests',
         solo' \in Procs \cup {Nothing}, want' \in Tables \cup {Nothing}
  PROVE  TypeOK'
BY DEF TypeOK, Tables, Requests, Buf

\* Administrators, sessions and requests that begin keep the types.
LEMMA TypeEnter ==
  ASSUME TypeInv, NEW p \in Procs, Enter(p) PROVE TypeInv'
<1> USE TypeOKIs DEF TypeInv
<1>1. CASE AdminCheck(p)
  <2>1. buf[p] \in Buf /\ buf' = [buf EXCEPT ![p] = buf[p]]
    BY <1>1 DEF AdminCheck, Requests
  <2>2. UNCHANGED <<sys, srv, users, conf, iface, admins, sess>>
    BY <1>1 DEF AdminCheck, tables, host, auth
  <2>3. Ready("hash", form[p], buf[p])
    BY DEF Ready
  <2>4. Requests' /\ (\A q \in Procs : Armed(q))'
    BY <1>1, <2>1, <2>2, <2>3, Moving DEF AdminCheck, SetupComplete, Later, Steps
  <2>5. solo' \in Procs \cup {Nothing} /\ want' \in Tables \cup {Nothing}
    BY <1>1, Alones, NowTyped DEF AdminCheck
  <2>6. TypeOK'
    BY <2>2, <2>4, <2>5, Parts
  <2> QED  BY <2>4, <2>6
<1>2. CASE AdminInsert(p)
  <2>1. UNCHANGED <<sys, srv, users, conf, iface, solo, want>>
    BY <1>2 DEF AdminInsert, tables, host
  <2>2. admins' \in Nat /\ sess' \subseteq Procs
    BY <1>2 DEF AdminInsert
  <2>3. Requests' /\ (\A q \in Procs : Armed(q))'
    BY <1>2, <2>1, Ending DEF AdminInsert
  <2>4. TypeOK'
    BY <2>1, <2>2, <2>3, Parts
  <2> QED  BY <2>3, <2>4
<1>3. CASE Login(p) \/ Logout(p)
  <2>1. UNCHANGED <<sys, srv, users, conf, iface, admins, pc, form, buf, solo, want>>
    BY <1>3 DEF Login, Logout, tables, host
  <2>2. sess' \subseteq Procs
    BY <1>3 DEF Login, Logout
  <2>3. Requests'
    BY <2>1 DEF Requests
  <2>4. TypeOK'
    BY <2>1, <2>2, <2>3, Parts
  <2>5. ASSUME NEW q \in Procs PROVE Armed(q)'
    BY <2>1 DEF Armed, Ready, SetupComplete
  <2> QED  BY <2>4, <2>5
<1>4. CASE ReloadPost(p)
  <2>1. Ready("config", NoForm, buf[p])
    BY DEF Ready
  <2> QED  BY <1>4, <2>1, NoneTyped, NowTyped, Starting DEF ReloadPost, Steps
<1>5. ASSUME NEW s \in Settings, NEW k \in Keys, NEW file \in Files, SetupPost(p, s, k, file)
      PROVE  TypeInv'
  <2> DEFINE f == [kind |-> "setup", set |-> s, key |-> k, left |-> file]
             t == [sys |-> s, srv |-> [port |-> s, key |-> k], users |-> Imported(file)]
  <2>1. file \in Seq(Entry)
    BY SetupAssumption
  <2>2. f \in Form
    BY <2>1 DEF Form, Kinds
  <2>3. t \in Tables
    BY <2>1, ImportedTyped DEF Tables, Server
  <2>4. Ready("sys", f, buf[p])
    BY DEF Ready
  <2>5. Begin(p, "sys", f, t)
    BY <1>5 DEF SetupPost
  <2> HIDE DEF f, t
  <2> QED  BY <2>2, <2>3, <2>4, <2>5, Starting DEF Steps, Later
<1>6. ASSUME NEW s \in Settings, NEW k \in Keys \cup {Nothing}, SavePost(p, s, k) PROVE TypeInv'
  <2> DEFINE f == [kind |-> "save", set |-> s, key |-> k, left |-> <<>>]
             t == [sys |-> s, srv |-> Saved(f), users |-> users]
  <2>1. <<>> \in Seq(Entry)
    OBVIOUS
  <2>2. f \in Form
    BY <2>1 DEF Form, Kinds
  <2>3. Saved(f) \in Server \cup {Nothing}
    BY DEF Saved, Server
  <2>4. t \in Tables
    BY <2>3 DEF Tables
  <2>5. Ready("sys", f, buf[p])
    BY DEF Ready
  <2>6. Begin(p, "sys", f, t)
    BY <1>6 DEF SavePost
  <2> HIDE DEF f, t
  <2> QED  BY <2>2, <2>4, <2>5, <2>6, Starting DEF Steps, Later
<1> QED  BY <1>1, <1>2, <1>3, <1>4, <1>5, <1>6 DEF Enter

\* What WriteFailed leaves, for a request that is writing.
LEMMA Failing ==
  ASSUME TypeInv, NEW p \in Procs, WriteFailed(p), UNCHANGED sys
  PROVE  Requests' /\ (\A q \in Procs : Armed(q))'
<1>1. CASE End(p)
  BY <1>1, Ending
<1>2. CASE Goto(p, "apply") /\ buf' = [buf EXCEPT ![p] = NoBuf] /\ UNCHANGED form
  <2>1. Ready("apply", form[p], NoBuf)
    BY DEF Ready
  <2> QED  BY <1>2, <2>1, NoneTyped, Moving DEF SetupComplete, Later, Steps
<1> QED  BY <1>1, <1>2 DEF WriteFailed

\* So does every step of a request that runs.
LEMMA TypeRun ==
  ASSUME TypeInv, NEW p \in Procs, Run(p) PROVE TypeInv'
<1> USE TypeOKIs DEF TypeInv
<1>0. form[p] \in Form /\ buf[p] \in Buf /\ Armed(p)
  BY DEF Requests
<1>1. CASE UpsertSystem(p)
  <2>1. UNCHANGED <<srv, users, conf, iface, admins, sess, form, buf, solo, want>>
    BY <1>1 DEF UpsertSystem, host, auth
  <2>2. Ready("server", form[p], buf[p]) /\ form[p].set \in Settings
    BY <1>0, <1>1 DEF UpsertSystem, At, Armed, Ready
  <2>3. sys' \in Settings /\ SetupComplete'
    BY <1>1, <2>2, SetupAssumption DEF UpsertSystem, SetupComplete
  <2>4. buf' = [buf EXCEPT ![p] = buf[p]]
    BY <2>1 DEF Requests
  <2>5. Requests' /\ (\A q \in Procs : Armed(q))'
    BY <1>0, <1>1, <2>1, <2>2, <2>3, <2>4, Moving DEF UpsertSystem, Steps
  <2>6. TypeOK'
    BY <2>1, <2>3, <2>5, Parts
  <2> QED  BY <2>5, <2>6
<1>2. CASE UpsertServer(p)
  <2> DEFINE s == IF form[p].kind = "setup" THEN "import" ELSE "config"
             f == [form[p] EXCEPT !.set = Nothing, !.key = Nothing]
  <2>1. UNCHANGED <<sys, users, conf, iface, admins, sess, buf, solo, want>>
    BY <1>2 DEF UpsertServer, host, auth
  <2>2. f \in Form
    BY <1>0 DEF Form
  <2>3. Ready(s, f, buf[p]) /\ s \in Steps
    BY DEF Ready, Steps
  <2>4. SetupComplete /\ form[p].set \in Settings /\ (form[p].kind = "setup" => form[p].key \in Keys)
    BY <1>0, <1>2 DEF UpsertServer, At, Armed, Ready, Later
  <2>5. srv' \in Server \cup {Nothing}
    <3>1. CASE form[p].kind = "setup"
      BY <1>2, <2>4, <3>1 DEF UpsertServer, Server
    <3>2. CASE form[p].kind # "setup"
      <4>1. form[p].key \in Keys \cup {Nothing}
        BY <1>0 DEF Form
      <4>2. Saved(form[p]) \in Server \cup {Nothing}
        BY <2>4, <4>1 DEF Saved, Server
      <4> QED  BY <1>2, <3>2, <4>2 DEF UpsertServer
    <3> QED  BY <3>1, <3>2
  <2>6. pc' = [pc EXCEPT ![p] = s] /\ form' = [form EXCEPT ![p] = f]
        /\ buf' = [buf EXCEPT ![p] = buf[p]]
    BY <1>2, <2>1 DEF UpsertServer, Goto, Requests
  <2>7. SetupComplete'
    BY <2>1, <2>4 DEF SetupComplete
  <2> HIDE DEF s, f
  <2>8. Requests' /\ (\A q \in Procs : Armed(q))'
    BY <1>0, <2>2, <2>3, <2>6, <2>7, Turn
  <2>9. TypeOK'
    BY <2>1, <2>5, <2>8, Parts
  <2> QED  BY <2>8, <2>9
<1>3. CASE ImportPeer(p)
  <2> DEFINE f == [form[p] EXCEPT !.left = Tail(@)]
  <2>1. UNCHANGED <<sys, srv, conf, iface, admins, sess, pc, buf, solo, want>>
    BY <1>3 DEF ImportPeer, host, auth
  <2>2. form[p].left \in Seq(Entry) /\ form[p].left # <<>>
    BY <1>0, <1>3 DEF Form, ImportPeer
  <2>3. Head(form[p].left) \in Entry /\ Tail(form[p].left) \in Seq(Entry)
    BY <2>2
  <2>4. f \in Form
    BY <1>0, <2>3 DEF Form
  <2>5. users' \in [Names -> Peers \cup {Nothing}]
    <3>1. Head(form[p].left).name \in Names /\ Head(form[p].left).peer \in Peers
      BY <2>3 DEF Entry
    <3> QED  BY <1>3, <3>1 DEF ImportPeer
  <2>6. form' = [form EXCEPT ![p] = f] /\ pc' = [pc EXCEPT ![p] = "import"]
        /\ buf' = [buf EXCEPT ![p] = buf[p]]
    BY <1>3, <2>1 DEF ImportPeer, At, Requests
  <2>7. Ready("import", f, buf[p])
    BY DEF Ready
  <2>8. SetupComplete /\ SetupComplete'
    BY <1>0, <1>3, <2>1 DEF ImportPeer, At, Armed, Later, SetupComplete
  <2> HIDE DEF f
  <2>9. Requests' /\ (\A q \in Procs : Armed(q))'
    BY <1>0, <2>4, <2>6, <2>7, <2>8, Turn DEF Steps
  <2>10. TypeOK'
    BY <2>1, <2>5, <2>9, Parts
  <2> QED  BY <2>9, <2>10
<1>4. CASE ImportDone(p)
  <2>1. UNCHANGED <<sys, srv, users, conf, iface, admins, sess, form, buf, solo, want>>
    BY <1>4 DEF ImportDone, tables, host, auth
  <2>2. Ready("config", form[p], buf[p])
    BY DEF Ready
  <2>3. SetupComplete /\ SetupComplete'
    BY <1>0, <1>4, <2>1 DEF ImportDone, At, Armed, Later, SetupComplete
  <2>4. buf' = [buf EXCEPT ![p] = buf[p]]
    BY <2>1 DEF Requests
  <2>5. Requests' /\ (\A q \in Procs : Armed(q))'
    BY <1>0, <1>4, <2>1, <2>2, <2>3, <2>4, Moving DEF ImportDone, Steps
  <2>6. TypeOK'
    BY <2>1, <2>5, Parts
  <2> QED  BY <2>5, <2>6
<1>5. CASE ReadSystem(p)
  <2> DEFINE b == [buf[p] EXCEPT !.addr = sys]
  <2>1. UNCHANGED <<sys, srv, users, conf, iface, admins, sess, form, solo, want>>
    BY <1>5 DEF ReadSystem, tables, host, auth
  <2>2. SetupComplete /\ SetupComplete'
    BY <1>0, <1>5, <2>1 DEF ReadSystem, At, Armed, Later, SetupComplete
  <2>3. b \in Buf /\ b.addr \in Settings
    BY <1>0, <2>2 DEF Buf, SetupComplete
  <2>4. buf' = [buf EXCEPT ![p] = b]
    BY <1>5 DEF ReadSystem
  <2> HIDE DEF b
  <2>5. Ready("row", form[p], b)
    BY <2>3 DEF Ready
  <2>6. Requests' /\ (\A q \in Procs : Armed(q))'
    BY <1>5, <2>1, <2>2, <2>3, <2>4, <2>5, Moving DEF ReadSystem, Steps
  <2>7. TypeOK'
    BY <2>1, <2>6, Parts
  <2> QED  BY <2>6, <2>7
<1>6. CASE ReadServer(p)
  <2> DEFINE b == [buf[p] EXCEPT !.srv = srv]
  <2>1. UNCHANGED <<sys, srv, users, conf, iface, admins, sess, solo, want>>
    BY <1>6 DEF ReadServer, tables, host, auth
  <2>2. SetupComplete /\ SetupComplete'
    BY <1>0, <1>6, <2>1 DEF ReadServer, At, Armed, Later, SetupComplete
  <2>3. ASSUME srv = Nothing PROVE Requests' /\ (\A q \in Procs : Armed(q))'
    BY <1>6, <2>1, <2>3, Failing DEF ReadServer
  <2>4. ASSUME srv # Nothing PROVE Requests' /\ (\A q \in Procs : Armed(q))'
    <3>1. b \in Buf /\ b.srv \in Server /\ b.addr \in Settings
      BY <1>0, <1>6, <2>4 DEF Buf, ReadServer, At, Armed, Ready
    <3>2. Goto(p, "write") /\ buf' = [buf EXCEPT ![p] = b] /\ UNCHANGED form
      BY <1>6, <2>4 DEF ReadServer
    <3> HIDE DEF b
    <3>3. Ready("write", form[p], b)
      BY <3>1 DEF Ready
    <3> QED  BY <2>2, <3>1, <3>2, <3>3, Moving DEF Steps
  <2>5. TypeOK'
    BY <2>1, <2>3, <2>4, Parts
  <2> QED  BY <2>3, <2>4, <2>5
<1>7. CASE WriteConf(p)
  <2>1. UNCHANGED <<sys, srv, users, iface, admins, sess, form, solo, want>>
    BY <1>7 DEF WriteConf, tables, auth
  <2>2. buf[p].addr \in Settings /\ buf[p].srv \in Server
    BY <1>0, <1>7 DEF WriteConf, At, Armed, Ready
  <2>3. {users[n] : n \in Names} \ {Nothing} \subseteq Peers
    OBVIOUS
  <2>4. conf' \in Config
    BY <1>7, <2>2, <2>3 DEF WriteConf, Rendered, Config, Server
  <2>5. Ready("apply", form[p], NoBuf)
    BY DEF Ready
  <2>6. Requests' /\ (\A q \in Procs : Armed(q))'
    BY <1>7, <2>1, <2>5, NoneTyped, Moving DEF WriteConf, SetupComplete, Steps, Later
  <2>7. TypeOK'
    BY <2>1, <2>4, <2>6, Parts
  <2> QED  BY <2>6, <2>7
<1>8. CASE Apply(p)
  <2>1. UNCHANGED <<sys, srv, users, conf, admins, sess, solo, want>>
    BY <1>8 DEF Apply, tables, auth
  <2>2. iface' \in Settings \cup {Nothing}
    BY <1>8 DEF Apply, Config
  <2>3. Requests' /\ (\A q \in Procs : Armed(q))'
    BY <1>8, <2>1, Ending DEF Apply
  <2>4. TypeOK'
    BY <2>1, <2>2, <2>3, Parts
  <2> QED  BY <2>3, <2>4
<1> QED  BY <1>1, <1>2, <1>3, <1>4, <1>5, <1>6, <1>7, <1>8 DEF Run

\* And so does every step.
LEMMA TypeStep == TypeInv /\ [Next]_vars => TypeInv'
<1> SUFFICES ASSUME TypeInv, [Next]_vars PROVE TypeInv'
  OBVIOUS
<1> USE TypeOKIs DEF TypeInv
<1>1. CASE UNCHANGED vars
  <2>1. UNCHANGED <<sys, srv, users, conf, iface, admins, sess, pc, form, buf, solo, want>>
    BY <1>1 DEF vars, tables, host, auth
  <2>2. TypeOK'
    BY <2>1, Parts DEF Requests
  <2>3. ASSUME NEW q \in Procs PROVE Armed(q)'
    BY <2>1 DEF Armed, Ready, SetupComplete
  <2> QED  BY <2>2, <2>3
<1>2. ASSUME NEW p \in Procs, Fail(p) PROVE TypeInv'
  <2>1. UNCHANGED <<sys, srv, users, conf, iface, admins, sess>> /\ solo' = Nothing /\ want' = Nothing
    BY <1>2 DEF Fail, tables, host, auth
  <2>2. WriteFailed(p) \/ End(p)
    BY <1>2 DEF Fail
  <2>3. Requests' /\ (\A q \in Procs : Armed(q))'
    BY <2>1, <2>2, Failing, Ending
  <2>4. TypeOK'
    BY <2>1, <2>3, Parts
  <2> QED  BY <2>3, <2>4
<1>3. ASSUME NEW p \in Procs, Restart(p) PROVE TypeInv'
  <2>1. UNCHANGED <<sys, srv, users, conf>> /\ sess' = {}
    BY <1>3 DEF Restart, tables
  <2>2. admins' \in Nat /\ iface' \in Settings \cup {Nothing}
    BY <1>3 DEF Restart
  <2>3. \A q \in Procs : pc'[q] \in {"idle", "config"} /\ (pc'[q] = "config" => SetupComplete)
    BY <1>3 DEF Restart
  <2>4. pc' \in [Procs -> {"idle", "config"}]
        /\ form' = [q \in Procs |-> NoForm] /\ buf' = [q \in Procs |-> NoBuf]
    BY <1>3 DEF Restart
  <2>5. Requests'
    BY <2>4, NoneTyped DEF Requests, Steps
  <2>6. ASSUME NEW q \in Procs PROVE Armed(q)'
    BY <2>1, <2>3 DEF Armed, Ready, SetupComplete, Later
  <2>7. solo' \in Procs \cup {Nothing} /\ want' \in Tables \cup {Nothing}
    BY <1>3, NowTyped DEF Restart
  <2>8. TypeOK'
    BY <2>1, <2>2, <2>5, <2>7, Parts
  <2> QED  BY <2>6, <2>8
<1> QED  BY <1>1, <1>2, <1>3, TypeEnter, TypeRun DEF Next

(***************************************************************************)
(* Every variable keeps its type, for any number of browsers, settings,    *)
(* keys and import files: in particular wg0.conf never gets the settings   *)
(* or the key of a table that is not there.                                *)
(***************************************************************************)
THEOREM TypeCorrect == Spec => []TypeOK
<1>1. TypeInv => TypeOK
  BY DEF TypeInv
<1> QED  BY <1>1, TypeInit, TypeStep, PTL DEF Spec

-----------------------------------------------------------------------------
(***************************************************************************)
(* A request that runs alone, step by step.  Before both tables are stored,*)
(* what it is to leave is what the steps to come will make of its form and *)
(* of the tables; afterwards it is the tables; and what it has read is     *)
(* what they still hold, as nobody else is at work.                        *)
(***************************************************************************)
Owed(p) ==
  IF form[p].kind = "setup"
  THEN want.srv = [port |-> form[p].set, key |-> form[p].key]
       /\ want.users = Imported(form[p].left)
  ELSE want.srv = Saved(form[p]) /\ want.users = users

Published == srv # Nothing => conf = Rendered(Now)

Course(p) ==
  /\ \A q \in Procs \ {p} : pc[q] = "idle"
  /\ want \in Tables
  /\ At(p, "hash") => ~SetupComplete
  /\ At(p, "sys") => want.sys = form[p].set /\ Owed(p)
  /\ At(p, "server") => want.sys = sys /\ Owed(p)
  /\ At(p, "import") => /\ want.sys = sys /\ want.srv = srv
                        /\ want.users = Imported(form[p].left)
  /\ pc[p] \in {"config", "row", "write", "apply"} => want = Now
  /\ pc[p] \in {"row", "write"} => buf[p].addr = sys
  /\ At(p, "write") => buf[p].srv = srv
  /\ At(p, "apply") => Published
  /\ At(p, "idle") /\ SetupComplete =>
       want = Now /\ Published /\ (srv # Nothing => iface # Nothing)

SoloInv == solo # Nothing => Course(solo)

\* At first nobody has run.
LEMMA SoloInit == Init => SoloInv
BY DEF Init, SoloInv

\* What is read off the tables stays while they do.
LEMMA SameTables ==
  ASSUME UNCHANGED <<sys, srv, users>>
  PROVE  /\ Now' = Now /\ Rendered(Now)' = Rendered(Now) /\ SetupComplete' = SetupComplete
         /\ UNCHANGED conf => Published' = Published
BY DEF Now, Rendered, Published, SetupComplete

\* What the steps to come amount to stays while their inputs do.
LEMMA SameImported ==
  ASSUME NEW p, UNCHANGED users, form'[p].left = form[p].left
  PROVE  Imported(form[p].left)' = Imported(form[p].left)
BY DEF Imported

\* What a request owes depends on its form, the settings and the users alone.
LEMMA SameOwed ==
  ASSUME NEW p, UNCHANGED <<srv, users, want>>, form'[p] = form[p]
  PROVE  Owed(p)' = Owed(p)
<1>1. Imported(form[p].left)' = Imported(form[p].left)
  BY SameImported
<1>2. Saved(form[p])' = Saved(form[p])
  BY DEF Saved
<1> QED  BY <1>1, <1>2 DEF Owed

\* A course is kept by who does not touch it.
LEMMA SoloStays ==
  ASSUME SoloInv, UNCHANGED <<sys, srv, users, conf, iface, pc, form, buf, solo, want>>
  PROVE  SoloInv'
<1> SUFFICES ASSUME solo # Nothing PROVE Course(solo)'
  BY DEF SoloInv
<1>1. Course(solo)
  BY DEF SoloInv
<1>2. Owed(solo)' = Owed(solo)
  BY SameOwed
<1>3. Imported(form[solo].left)' = Imported(form[solo].left)
  BY SameImported
<1>4. Now' = Now /\ SetupComplete' = SetupComplete /\ Published' = Published
  BY SameTables
<1> QED  BY <1>1, <1>2, <1>3, <1>4 DEF Course, At

\* A request begins alone, or not alone.
LEMMA SoloBegin ==
  ASSUME NEW p \in Procs, NEW t \in Tables, Alone(p, t),
         solo' = p /\ want' = t /\ (\A q \in Procs \ {p} : pc[q] = "idle") => Course(p)'
  PROVE  SoloInv'
<1>1. CASE \A q \in Procs \ {p} : pc[q] = "idle"
  BY <1>1 DEF Alone, SoloInv
<1>2. CASE ~\A q \in Procs \ {p} : pc[q] = "idle"
  BY <1>2 DEF Alone, SoloInv
<1> QED  BY <1>1, <1>2

\* A request that begins starts its course; other entries disturb none.
LEMMA SoloEnter ==
  ASSUME TypeInv, SoloInv, NEW p \in Procs, Enter(p) PROVE SoloInv'
<1> USE TypeOKIs DEF TypeInv
<1>0. pc \in [Procs -> Steps \cup {"idle"}] /\ form \in [Procs -> Form]
  BY DEF Requests
<1>1. CASE AdminCheck(p)
  <2>1. ASSUME solo' = p /\ want' = Now /\ (\A q \in Procs \ {p} : pc[q] = "idle")
        PROVE  Course(p)'
    <3>1. pc'[p] = "hash" /\ \A q \in Procs \ {p} : pc'[q] = "idle"
      BY <1>0, <1>1, <2>1 DEF AdminCheck, Goto
    <3>2. ~SetupComplete'
      BY <1>1 DEF AdminCheck, tables, SetupComplete
    <3> QED  BY <2>1, <3>1, <3>2, NowTyped DEF Course, At
  <2> QED  BY <1>1, <2>1, NowTyped, SoloBegin DEF AdminCheck
<1>2. CASE AdminInsert(p)
  <2>1. UNCHANGED <<sys, srv, users, conf, iface, solo, want>> /\ pc[p] = "hash"
        /\ pc' = [pc EXCEPT ![p] = "idle"]
    BY <1>2 DEF AdminInsert, tables, host, At, End, Goto
  <2>2. ASSUME solo # Nothing PROVE Course(solo)'
    <3>1. Course(solo)
      BY <2>2 DEF SoloInv
    <3>2. solo = p
      BY <2>1, <2>2, <3>1 DEF Course
    <3>3. pc'[p] = "idle" /\ (\A q \in Procs \ {p} : pc'[q] = "idle") /\ ~SetupComplete'
      BY <1>0, <2>1, <3>1, <3>2 DEF Course, At, SetupComplete
    <3> QED  BY <2>1, <3>1, <3>2, <3>3 DEF Course, At
  <2> QED  BY <2>1, <2>2 DEF SoloInv
<1>3. CASE Login(p) \/ Logout(p)
  <2>1. UNCHANGED <<sys, srv, users, conf, iface, pc, form, buf, solo, want>>
    BY <1>3 DEF Login, Logout, tables, host
  <2> QED  BY <2>1, SoloStays
<1>4. CASE ReloadPost(p)
  <2>1. ASSUME solo' = p /\ want' = Now /\ (\A q \in Procs \ {p} : pc[q] = "idle")
        PROVE  Course(p)'
    <3>1. pc'[p] = "config" /\ \A q \in Procs \ {p} : pc'[q] = "idle"
      BY <1>0, <1>4, <2>1 DEF ReloadPost, Begin, Goto
    <3>2. Now' = Now
      BY <1>4 DEF ReloadPost, Begin, tables, Now
    <3> QED  BY <2>1, <3>1, <3>2, NowTyped DEF Course, At
  <2> QED  BY <1>4, <2>1, NowTyped, SoloBegin DEF ReloadPost, Begin
<1>5. ASSUME NEW s \in Settings, NEW k \in Keys, NEW file \in Files, SetupPost(p, s, k, file)
      PROVE  SoloInv'
  <2> DEFINE f == [kind |-> "setup", set |-> s, key |-> k, left |-> file]
             t == [sys |-> s, srv |-> [port |-> s, key |-> k], users |-> Imported(file)]
  <2>1. file \in Seq(Entry)
    BY SetupAssumption
  <2>2. t \in Tables
    BY <2>1, ImportedTyped DEF Tables, Server
  <2>3. Begin(p, "sys", f, t)
    BY <1>5 DEF SetupPost
  <2>4. ASSUME solo' = p /\ want' = t /\ (\A q \in Procs \ {p} : pc[q] = "idle")
        PROVE  Course(p)'
    <3>1. pc'[p] = "sys" /\ \A q \in Procs \ {p} : pc'[q] = "idle"
      BY <1>0, <2>3, <2>4 DEF Begin, Goto
    <3>2. form'[p] = f /\ UNCHANGED users
      BY <1>0, <2>3 DEF Begin, tables
    <3>3. Owed(p)'
      BY <2>4, <3>2 DEF Owed, Imported
    <3> QED  BY <2>2, <2>4, <3>1, <3>2, <3>3 DEF Course, At
  <2>5. Alone(p, t)
    BY <2>3 DEF Begin
  <2> HIDE DEF f, t
  <2> QED  BY <2>2, <2>4, <2>5, SoloBegin
<1>6. ASSUME NEW s \in Settings, NEW k \in Keys \cup {Nothing}, SavePost(p, s, k) PROVE SoloInv'
  <2> DEFINE f == [kind |-> "save", set |-> s, key |-> k, left |-> <<>>]
             t == [sys |-> s, srv |-> Saved(f), users |-> users]
  <2>1. Saved(f) \in Server \cup {Nothing}
    BY DEF Saved, Server
  <2>2. t \in Tables
    BY <2>1 DEF Tables
  <2>3. Begin(p, "sys", f, t)
    BY <1>6 DEF SavePost
  <2>4. ASSUME solo' = p /\ want' = t /\ (\A q \in Procs \ {p} : pc[q] = "idle")
        PROVE  Course(p)'
    <3>1. pc'[p] = "sys" /\ \A q \in Procs \ {p} : pc'[q] = "idle"
      BY <1>0, <2>3, <2>4 DEF Begin, Goto
    <3>2. form'[p] = f /\ UNCHANGED <<users, srv>>
      BY <1>0, <2>3 DEF Begin, tables
    <3>3. Owed(p)'
      BY <2>4, <3>2 DEF Owed, Saved
    <3> QED  BY <2>2, <2>4, <3>1, <3>2, <3>3 DEF Course, At
  <2>5. Alone(p, t)
    BY <2>3 DEF Begin
  <2> HIDE DEF f, t
  <2> QED  BY <2>2, <2>4, <2>5, SoloBegin
<1> QED  BY <1>1, <1>2, <1>3, <1>4, <1>5, <1>6 DEF Enter

\* Wherever a lone request goes next, it is still alone.
LEMMA SoloMoves ==
  ASSUME TypeInv, SoloInv, NEW p \in Procs, solo # Nothing, Run(p)
  PROVE  /\ solo = p /\ Course(p) /\ solo' = solo /\ want' = want
         /\ \A q \in Procs \ {p} : pc'[q] = "idle"
<1>1. pc[p] # "idle" /\ solo' = solo /\ want' = want
  BY DEF Run, UpsertSystem, UpsertServer, ImportPeer, ImportDone, ReadSystem, ReadServer,
         WriteConf, Apply, At
<1>2. Course(solo) /\ solo = p
  BY <1>1 DEF SoloInv, Course
<1>3. pc \in [Procs -> Steps \cup {"idle"}]
  BY TypeOKIs DEF TypeInv, Requests
<1>4. UNCHANGED pc \/ \E s \in Steps \cup {"idle"} : pc' = [pc EXCEPT ![p] = s]
  BY DEF Run, UpsertSystem, UpsertServer, ImportPeer, ImportDone, ReadSystem, ReadServer,
         WriteConf, Apply, WriteFailed, End, Goto, Steps
<1> QED  BY <1>1, <1>2, <1>3, <1>4 DEF Course

\* Every step of a lone request follows its course.
LEMMA SoloRun ==
  ASSUME TypeInv, SoloInv, NEW p \in Procs, Run(p) PROVE SoloInv'
<1> SUFFICES ASSUME solo # Nothing PROVE Course(p)'
  <2>1. solo' = solo
    BY DEF Run, UpsertSystem, UpsertServer, ImportPeer, ImportDone, ReadSystem, ReadServer,
           WriteConf, Apply
  <2>2. solo # Nothing => solo' = p
    BY SoloMoves
  <2> QED  BY <2>1, <2>2 DEF SoloInv
<1>1. /\ Course(p) /\ want' = want /\ want \in Tables
      /\ \A q \in Procs \ {p} : pc'[q] = "idle"
  BY SoloMoves DEF Course
<1>2. /\ pc \in [Procs -> Steps \cup {"idle"}] /\ form \in [Procs -> Form]
      /\ buf \in [Procs -> Buf] /\ Armed(p)
      /\ sys \in Settings \cup {Nothing} /\ srv \in Server \cup {Nothing}
      /\ users \in [Names -> Peers \cup {Nothing}]
  BY TypeOKIs DEF TypeInv, Requests
<1>3. CASE UpsertSystem(p)
  <2>1. pc'[p] = "server" /\ UNCHANGED <<srv, users, form>> /\ sys' = form[p].set
    BY <1>2, <1>3 DEF UpsertSystem, Goto
  <2>2. want.sys = form[p].set /\ Owed(p)
    BY <1>1, <1>3 DEF UpsertSystem, At, Course
  <2>3. Owed(p)'
    BY <1>1, <2>1, <2>2, SameOwed
  <2> QED  BY <1>1, <2>1, <2>2, <2>3 DEF Course, At
<1>4. CASE UpsertServer(p)
  <2>1. UNCHANGED <<sys, users>> /\ want.sys = sys /\ Owed(p)
    BY <1>1, <1>4 DEF UpsertServer, At, Course
  <2>2. CASE form[p].kind = "setup"
    <3>1. pc'[p] = "import" /\ srv' = [port |-> form[p].set, key |-> form[p].key]
      BY <1>2, <1>4, <2>2 DEF UpsertServer, Goto
    <3>2. form'[p].left = form[p].left
      BY <1>2, <1>4 DEF UpsertServer, Form
    <3>3. want.users = Imported(form[p].left)'
      <4>1. want.users = Imported(form[p].left)
        BY <2>1, <2>2 DEF Owed
      <4> QED  BY <2>1, <3>2, <4>1, SameImported
    <3>4. want.srv = srv'
      <4>1. want.srv = [port |-> form[p].set, key |-> form[p].key]
        BY <2>1, <2>2 DEF Owed
      <4> QED  BY <3>1, <4>1
    <3> QED  BY <1>1, <2>1, <3>1, <3>3, <3>4 DEF Course, At
  <2>3. CASE form[p].kind # "setup"
    <3>1. pc'[p] = "config" /\ srv' = Saved(form[p])
      BY <1>2, <1>4, <2>3 DEF UpsertServer, Goto
    <3>2. want.srv = srv' /\ want.users = users' /\ want.sys = sys'
      BY <2>1, <2>3, <3>1 DEF Owed
    <3>3. want = Now'
      BY <1>1, <3>2 DEF Now, Tables
    <3> QED  BY <1>1, <3>1, <3>3 DEF Course, At
  <2> QED  BY <2>2, <2>3
<1>5. CASE ImportPeer(p)
  <2> DEFINE file == form[p].left
  <2>1. file \in Seq(Entry) /\ file # <<>> /\ Head(file) \in Entry
    BY <1>2, <1>5 DEF Form, ImportPeer
  <2>2. /\ pc'[p] = "import" /\ UNCHANGED <<sys, srv>>
        /\ want.sys = sys /\ want.srv = srv /\ want.users = Imported(file)
    BY <1>1, <1>5 DEF ImportPeer, At, Course
  <2>3. form'[p].left = Tail(file)
    BY <1>2, <1>5 DEF ImportPeer, Form
  <2>4. users' = [users EXCEPT ![Head(file).name] = Head(file).peer]
    BY <1>5 DEF ImportPeer
  <2>5. Imported(form[p].left)' = [n \in Names |->
          IF PlacesOf(Tail(file), n) = {} THEN users'[n]
          ELSE Tail(file)[LastOf(PlacesOf(Tail(file), n))].peer]
    BY <2>3 DEF Imported, PlacesOf, LastOf
  <2>6. Imported(file) = [n \in Names |-> Imported(file)[n]]
    BY DEF Imported
  <2>7. \A n \in Names : (IF PlacesOf(Tail(file), n) = {} THEN users'[n]
                          ELSE Tail(file)[LastOf(PlacesOf(Tail(file), n))].peer) = Imported(file)[n]
    BY <1>2, <2>1, <2>4, ImportOne
  <2>8. Imported(form[p].left)' = Imported(file)
    BY <2>5, <2>6, <2>7
  <2> QED  BY <1>1, <2>2, <2>8 DEF Course, At
<1>6. CASE ImportDone(p)
  <2>1. /\ pc'[p] = "config" /\ UNCHANGED <<sys, srv, users>> /\ form[p].left = <<>>
        /\ want.sys = sys /\ want.srv = srv /\ want.users = Imported(form[p].left)
    BY <1>1, <1>2, <1>6 DEF ImportDone, At, Goto, tables, Course
  <2>2. want = Now'
    BY <1>1, <1>2, <2>1, ImportedNothing DEF Now, Tables
  <2> QED  BY <1>1, <2>1, <2>2 DEF Course, At
<1>7. CASE ReadSystem(p)
  <2>1. pc'[p] = "row" /\ UNCHANGED <<sys, srv, users, conf>> /\ buf'[p].addr = sys
    BY <1>2, <1>7 DEF ReadSystem, Goto, tables, host, Buf
  <2>2. want = Now /\ Now' = Now
    BY <1>1, <1>7, <2>1 DEF ReadSystem, At, Course, Now
  <2> QED  BY <1>1, <2>1, <2>2 DEF Course, At
<1>8. CASE ReadServer(p)
  <2>1. UNCHANGED <<sys, srv, users, conf>>
    BY <1>8 DEF ReadServer, tables, host
  <2>2. want = Now /\ Now' = Now /\ buf[p].addr = sys
    BY <1>1, <1>8, <2>1 DEF ReadServer, At, Course, Now
  <2>3. CASE srv = Nothing
    <3>1. pc'[p] \in {"idle", "apply"} /\ ~(srv' # Nothing)
      BY <1>2, <1>8, <2>1, <2>3 DEF ReadServer, WriteFailed, End, Goto
    <3> QED  BY <1>1, <2>2, <3>1 DEF Course, At, Published
  <2>4. CASE srv # Nothing
    <3>1. pc'[p] = "write" /\ buf'[p].addr = sys' /\ buf'[p].srv = srv'
      BY <1>2, <1>8, <2>1, <2>2, <2>4 DEF ReadServer, Goto, Buf
    <3> QED  BY <1>1, <2>2, <3>1 DEF Course, At
  <2> QED  BY <2>3, <2>4
<1>9. CASE WriteConf(p)
  <2>1. pc'[p] = "apply" /\ UNCHANGED <<sys, srv, users>>
    BY <1>2, <1>9 DEF WriteConf, Goto, tables
  <2>2. want = Now /\ Now' = Now /\ buf[p].addr = sys /\ buf[p].srv = srv
    BY <1>1, <1>9, <2>1 DEF WriteConf, At, Course, Now
  <2>3. conf' = Rendered(Now)
    BY <1>9, <2>2 DEF WriteConf, Now
  <2>4. Rendered(Now)' = Rendered(Now)
    BY <2>1 DEF Rendered, Now
  <2>5. Published'
    BY <2>3, <2>4 DEF Published
  <2> QED  BY <1>1, <2>1, <2>2, <2>5 DEF Course, At
<1>10. CASE Apply(p)
  <2>1. pc'[p] = "idle" /\ UNCHANGED <<sys, srv, users, conf>>
    BY <1>2, <1>10 DEF Apply, End, Goto, tables
  <2>2. want = Now /\ Now' = Now /\ Published /\ Published'
    BY <1>1, <1>10, <2>1, SameTables DEF Apply, At, Course
  <2>3. ASSUME sys # Nothing, srv # Nothing PROVE iface' # Nothing
    <3>1. Rendered(Now) \in Config
      BY <1>2, <2>3 DEF Rendered, Now, Config, Server
    <3>2. conf = Rendered(Now) /\ conf # Nothing
      BY <2>2, <2>3, <3>1, SetupAssumption DEF Published
    <3>3. Rendered(Now).addr = sys
      BY DEF Rendered, Now
    <3> QED  BY <1>10, <2>3, <3>2, <3>3 DEF Apply
  <2> QED  BY <1>1, <2>1, <2>2, <2>3 DEF Course, At, SetupComplete
<1> QED  BY <1>3, <1>4, <1>5, <1>6, <1>7, <1>8, <1>9, <1>10 DEF Run

\* An error ends the history; a restart starts one, with the reload.
LEMMA SoloStep == TypeInv /\ SoloInv /\ [Next]_vars => SoloInv'
<1> SUFFICES ASSUME TypeInv, SoloInv, [Next]_vars PROVE SoloInv'
  OBVIOUS
<1>1. CASE UNCHANGED vars
  <2>1. UNCHANGED <<sys, srv, users, conf, iface, pc, form, buf, solo, want>>
    BY <1>1 DEF vars, tables, host, auth
  <2> QED  BY <2>1, SoloStays
<1>2. ASSUME NEW p \in Procs, Fail(p) PROVE SoloInv'
  BY <1>2 DEF Fail, SoloInv
<1>3. ASSUME NEW p \in Procs, Restart(p) PROVE SoloInv'
  <2>1. CASE SetupComplete
    <3>1. solo' = p /\ want' = Now /\ UNCHANGED <<sys, srv, users>> /\ pc'[p] = "config"
          /\ \A q \in Procs \ {p} : pc'[q] = "idle"
      BY <1>3, <2>1 DEF Restart, tables
    <3>2. want' = Now' /\ want' \in Tables
      BY <3>1, NowTyped DEF Now, TypeInv
    <3> QED  BY <3>1, <3>2 DEF SoloInv, Course, At
  <2>2. CASE ~SetupComplete
    BY <1>3, <2>2 DEF Restart, SoloInv
  <2> QED  BY <2>1, <2>2
<1> QED  BY <1>1, <1>2, <1>3, SoloEnter, SoloRun DEF Next

(***************************************************************************)
(* For any number of browsers, settings, keys and import files: a wizard   *)
(* post, a save, a reload or a startup that ran alone and met no error     *)
(* left both tables as its form says, every peer of an imported file under *)
(* the user of its name, and wg0.conf and the interface behind them,       *)
(* whatever overlapping or broken-off requests came before it.             *)
(***************************************************************************)
THEOREM UndisturbedRequestTakesEffect == Spec => []SoloRequestTakesEffect
<1>1. SoloInv => SoloRequestTakesEffect
  <2> SUFFICES ASSUME SoloInv, NEW p \in Procs, solo = p, pc[p] = "idle", SetupComplete
               PROVE  Now = want /\ (srv # Nothing => conf = Rendered(Now) /\ iface # Nothing)
    BY DEF SoloRequestTakesEffect
  <2>1. Course(p)
    BY SetupAssumption DEF SoloInv
  <2> QED  BY <2>1 DEF Course, At, Published
<1>2. Init => TypeInv /\ SoloInv
  BY TypeInit, SoloInit
<1>3. (TypeInv /\ SoloInv) /\ [Next]_vars => (TypeInv /\ SoloInv)'
  BY TypeStep, SoloStep
<1> QED  BY <1>1, <1>2, <1>3, PTL DEF Spec
=============================================================================
