------------------------------- MODULE Syncer -------------------------------
(***************************************************************************)
(* Quota enforcement in NetPlug: the background synchroniser, the admin's  *)
(* user requests and the WireGuard interface.                              *)
(*                                                                         *)
(* The synchroniser reads the kernel's per-peer counters first and opens   *)
(* its transaction afterwards (syncOnce); an admin request changes the     *)
(* database, reads the enabled users, replaces wg0.conf by what it has     *)
(* read, then syncs the interface with the file.                           *)
(* main.go limits the pool to one connection, so the transaction and every *)
(* single statement of a request are atomic with respect to each other,    *)
(* and everything between them interleaves.                                *)
(*                                                                         *)
(* Requests overlap: one may replace the file by rows it read before       *)
(* another's statement.  That they share scratch files, too, is the        *)
(* subject of module Pipeline; here a file is replaced whole.  A user is   *)
(* identified with its key pair; deleting it and creating it again with    *)
(* the same key is possible, as the form accepts a private key.            *)
(***************************************************************************)
EXTENDS Accounting

CONSTANTS
  Users,      \* the users an admin may create, one key pair each
  Procs,      \* handler goroutines
  Quotas,     \* traffic limits an admin may enter, NULL for none
  DayLimits,  \* day limits an admin may enter, NULL for none
  TimeSteps,  \* numbers of hours by which the clock may jump
  MaxBytes,   \* bound: bytes a peer carries, a Counter
  MaxTime     \* bound: hours the clock runs

ASSUME SyncerAssumption ==
  /\ Quotas \subseteq Nat \cup {NULL}
  /\ DayLimits \subseteq Nat \cup {NULL}
  /\ TimeSteps \subseteq Nat
  /\ MaxBytes \in Counter /\ MaxTime \in Nat

CONSTANTS
  NoRow,      \* the user is not in vpn_users
  NoPeer,     \* the peer is not on the interface
  Idle        \* the synchroniser holds no dump, a request no rows

ASSUME ValueAssumption ==
  /\ NoRow \notin Row /\ NoPeer \notin Counter
  /\ Idle \notin [Users -> Counter \cup {NoPeer}] /\ \A S \in SUBSET Users : S # Idle

VARIABLES
  db,      \* vpn_users: user -> Row or NoRow
  conf,    \* users with a [Peer] section in wg0.conf
  iface,   \* the kernel: user -> Counter or NoPeer
  dump,    \* what syncOnce holds between the dump and the transaction, or Idle
  req,     \* per handler, what its request has still to do
  rows,    \* per handler, the enabled users read and not yet written, or Idle
  now,     \* the clock, in hours
  hist     \* history: per user, facts the program does not keep

vars == <<db, conf, iface, dump, req, rows, now, hist>>

(***************************************************************************)
(* past: bytes the peer carried before its counters last started at zero;  *)
(* charged: days charged to the user, over all its rows.                   *)
(***************************************************************************)
History == [past : Counter, charged : Nat]

Peers == [Users -> Counter \cup {NoPeer}]

TypeOK ==
  /\ db    \in [Users -> Row \cup {NoRow}]
  /\ conf  \subseteq Users
  /\ iface \in Peers
  /\ dump  \in Peers \cup {Idle}
  /\ req   \in [Procs -> {"none", "write", "boot", "apply"}]
  /\ rows  \in [Procs -> {Idle} \cup SUBSET Users]
  /\ now   \in Nat
  /\ hist  \in [Users -> History]

Init ==
  /\ db    = [u \in Users |-> NoRow]
  /\ conf  = {}
  /\ iface = [u \in Users |-> NoPeer]
  /\ dump  = Idle
  /\ req   = [p \in Procs |-> "none"]
  /\ rows  = [p \in Procs |-> Idle]
  /\ now   = 0
  /\ hist  = [u \in Users |-> [past |-> Zero, charged |-> 0]]

-----------------------------------------------------------------------------
(* The kernel and the clock. *)

\* Bytes the peer has carried since it was first on the interface.
Carried(u) == IF iface[u] = NoPeer THEN hist[u].past
              ELSE Plus(hist[u].past, iface[u])

Traffic(u, inc) ==
  /\ iface[u] # NoPeer
  /\ iface' = [iface EXCEPT ![u] = Plus(@, inc)]
  /\ Leq(Plus(Carried(u), inc), MaxBytes)
  /\ UNCHANGED <<db, conf, dump, req, rows, now, hist>>

\* A pass is short against an hour: the clock does not jump inside one.
Tick ==
  /\ dump = Idle
  /\ \E s \in TimeSteps : now + s <= MaxTime /\ now' = now + s
  /\ UNCHANGED <<db, conf, iface, dump, req, rows, hist>>

\* The interface keeps exactly the peers of set P: a kept peer keeps its
\* counters, a new one starts at zero, a removed one loses them.
SetPeers(P) ==
  /\ iface' = [u \in Users |-> IF u \notin P THEN NoPeer
                               ELSE IF iface[u] = NoPeer THEN Zero ELSE iface[u]]
  /\ hist'  = [u \in Users |-> IF u \in P THEN hist[u]
                               ELSE [hist[u] EXCEPT !.past = Carried(u)]]

-----------------------------------------------------------------------------
(* The synchroniser: a tick of loop() is SyncDump, then SyncCommit or SyncAbort. *)

SyncDump ==
  /\ dump = Idle
  /\ dump' = iface
  /\ UNCHANGED <<db, conf, iface, req, rows, now, hist>>

Seen(u) == db[u] # NoRow /\ dump[u] # NoPeer

\* The transaction: every row whose peer was in the dump, the others only
\* lose their connection state.
SyncCommit ==
  /\ dump # Idle
  /\ db'   = [u \in Users |-> IF Seen(u) THEN SyncRow(db[u], dump[u], now)
                              ELSE db[u]]
  /\ hist' = [u \in Users |->
                IF Seen(u) /\ db[u].days # NULL
                THEN [hist[u] EXCEPT !.charged = @ + db[u].days - NewDays(db[u], now)]
                ELSE hist[u]]
  /\ dump' = Idle
  /\ UNCHANGED <<conf, iface, req, rows, now>>

\* Any error on the way rolls the whole transaction back.
SyncAbort ==
  /\ dump # Idle
  /\ dump' = Idle
  /\ UNCHANGED <<db, conf, iface, req, rows, now, hist>>

-----------------------------------------------------------------------------
(* Requests: the statement, then "write" (ReadRows, Rename), then "apply". *)

Then(p, step) == req'  = [req EXCEPT ![p] = step]
Hold(p, r)    == rows' = [rows EXCEPT ![p] = r]

Create(p, u, q, d, e) ==
  /\ req[p] = "none" /\ db[u] = NoRow
  /\ db'  = [db EXCEPT ![u] = [bytes |-> Zero, total |-> Zero, quota |-> q,
                               days |-> d, ldc |-> NULL, en |-> e]]
  /\ Then(p, "write")
  /\ UNCHANGED <<conf, iface, dump, rows, now, hist>>

\* The edit form overwrites both limits and the enabled flag, nothing else.
Update(p, u, q, d, e) ==
  /\ req[p] = "none" /\ db[u] # NoRow
  /\ db'  = [db EXCEPT ![u] = [@ EXCEPT !.quota = q, !.days = d, !.en = e]]
  /\ Then(p, "write")
  /\ UNCHANGED <<conf, iface, dump, rows, now, hist>>

Toggle(p, u) ==
  /\ req[p] = "none" /\ db[u] # NoRow
  /\ db'  = [db EXCEPT ![u].en = ~@]
  /\ Then(p, "write")
  /\ UNCHANGED <<conf, iface, dump, rows, now, hist>>

Delete(p, u) ==
  /\ req[p] = "none" /\ db[u] # NoRow
  /\ db'  = [db EXCEPT ![u] = NoRow]
  /\ Then(p, "write")
  /\ UNCHANGED <<conf, iface, dump, rows, now, hist>>

\* Publishing a table that has not changed: ReloadWireGuard, from its button or
\* at startup, gives up when it cannot write; saving the settings, or an edit
\* of a user deleted meanwhile, goes on.
Reload(p) ==
  /\ req[p] = "none"
  /\ Then(p, "write") \/ Then(p, "boot")
  /\ UNCHANGED <<db, conf, iface, dump, rows, now, hist>>

Enabled(u) == db[u] # NoRow /\ db[u].en

\* WriteWireGuardConfig reads the enabled users first and replaces wg0.conf
\* later: a pass that commits in between is not in the file.
ReadRows(p) ==
  /\ req[p] \in {"write", "boot"} /\ rows[p] = Idle
  /\ Hold(p, {u \in Users : Enabled(u)})
  /\ UNCHANGED <<db, conf, iface, dump, req, now, hist>>

Rename(p) ==
  /\ req[p] \in {"write", "boot"} /\ rows[p] # Idle
  /\ conf' = rows[p]
  /\ Hold(p, Idle) /\ Then(p, "apply")
  /\ UNCHANGED <<db, iface, dump, now, hist>>

\* It may fail before the rows are read and after; the user handlers drop the
\* error and apply the old file.
WriteFails(p) ==
  /\ req[p] \in {"write", "boot"}
  /\ Hold(p, Idle) /\ Then(p, IF req[p] = "boot" THEN "none" ELSE "apply")
  /\ UNCHANGED <<db, conf, iface, dump, now, hist>>

Apply(p) ==
  /\ req[p] = "apply"
  /\ SetPeers(conf)
  /\ Then(p, "none")
  /\ UNCHANGED <<db, conf, dump, rows, now>>

ApplyFails(p) ==
  /\ req[p] = "apply"
  /\ Then(p, "none")
  /\ UNCHANGED <<db, conf, iface, dump, rows, now, hist>>

\* The process dies between any two steps and main() reloads; the kernel keeps
\* the interface, unless the host restarts as well.
Restart(p, host) ==
  /\ dump' = Idle
  /\ req'  = [q \in Procs |-> IF q = p THEN "boot" ELSE "none"]
  /\ rows' = [q \in Procs |-> Idle]
  /\ IF host THEN SetPeers({}) ELSE UNCHANGED <<iface, hist>>
  /\ UNCHANGED <<db, conf, now>>

-----------------------------------------------------------------------------

Increments == {[rx |-> 1, tx |-> 0], [rx |-> 0, tx |-> 1]}

Sync       == SyncDump \/ SyncCommit \/ SyncAbort
Publish(p) == ReadRows(p) \/ Rename(p) \/ Apply(p)
Request(p) == \/ \E u \in Users : \/ Toggle(p, u) \/ Delete(p, u)
                                  \/ \E q \in Quotas, d \in DayLimits, e \in BOOLEAN :
                                       Create(p, u, q, d, e) \/ Update(p, u, q, d, e)
              \/ Reload(p) \/ Publish(p) \/ WriteFails(p) \/ ApplyFails(p)
World      == \/ \E u \in Users, inc \in Increments : Traffic(u, inc)
              \/ Tick
              \/ \E p \in Procs, host \in BOOLEAN : Restart(p, host)

Next == Sync \/ (\E p \in Procs : Request(p)) \/ World

Spec == Init /\ [][Next]_vars

(***************************************************************************)
(* The ticker starts pass after pass and the host's tools and disk do not  *)
(* fail for ever; a request, once accepted, runs to its end.               *)
(***************************************************************************)
Fairness ==
  /\ WF_vars(SyncDump)
  /\ SF_vars(SyncCommit)
  /\ \A p \in Procs : WF_vars(Publish(p))

FairSpec == Spec /\ Fairness
-----------------------------------------------------------------------------
(* Properties *)

(***************************************************************************)
(* Usage recorded for a user never exceeds, in either direction, what its  *)
(* peer really carried, whatever resets, stale dumps and re-created peers  *)
(* come between (the reset test of syncOnce never banks bytes twice).      *)
(***************************************************************************)
RecordedWithinCarried ==
  \A u \in Users : db[u] # NoRow => Leq(Plus(db[u].total, db[u].bytes), Carried(u))

(***************************************************************************)
(* A pass never hands traffic back: recorded usage does not shrink and the *)
(* remaining traffic does not grow, for any two dumps it may have seen.    *)
(***************************************************************************)
SyncNeverRefunds ==
  [][dump # Idle /\ dump' = Idle =>
       \A u \in Users : db[u] # NoRow /\ db'[u] # NoRow =>
         /\ Usage(db[u].total, db[u].bytes) <= Usage(db'[u].total, db'[u].bytes)
         /\ db[u].quota # NULL => db'[u].quota <= db[u].quota]_vars

(***************************************************************************)
(* Every charged day is a day that has passed, and none is charged twice:  *)
(* however the limits are edited, however often the user leaves the        *)
(* interface or is deleted and created again, the days charged to it never *)
(* outrun the clock (last_day_check moves with every charge).              *)
(***************************************************************************)
DaysChargedHavePassed ==
  \A u \in Users : DayHours * hist[u].charged <= now

(***************************************************************************)
(* An enabled user whose traffic or days are used up does not stay so: the *)
(* synchroniser disables it, as long as its peer is on the interface.      *)
(***************************************************************************)
Overdue(u) == Enabled(u) /\ Exhausted(db[u]) /\ iface[u] # NoPeer

ExhaustedEventuallyDisabled == \A u \in Users : Overdue(u) ~> ~Overdue(u)

-----------------------------------------------------------------------------
(* A claim of the user interface that the code does not keep; see README. *)

(***************************************************************************)
(* "Maximum data transfer limit in megabytes" (edit_user_modal.tmpl:181):  *)
(* a user disabled for its limits eventually loses its peer, or is enabled *)
(* again.                                                                  *)
(***************************************************************************)
CutOff(u) == db[u] # NoRow /\ ~db[u].en /\ Exhausted(db[u])

ExhaustedEventuallyCutOff ==
  \A u \in Users : CutOff(u) ~> (iface[u] = NoPeer \/ ~CutOff(u))
=============================================================================
