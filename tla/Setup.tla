-------------------------------- MODULE Setup --------------------------------
(***************************************************************************)
(* The server's own configuration in NetPlug: the first-run wizard (create *)
(* the administrator, then generate or import a WireGuard server), saving  *)
(* the settings later, and reloading.                                      *)
(*                                                                         *)
(* Settings live in two tables, system_config and vpn_servers, which every *)
(* path writes one after the other, and reach the host through wg0.conf,   *)
(* which reads both again.  Each statement is atomic; nothing larger is,   *)
(* and the wizard's checks come long before its writes.  How the file      *)
(* itself is replaced is the subject of module Pipeline.                   *)
(*                                                                         *)
(* A form's settings are one value here; the port and host, which both     *)
(* tables hold, and the address, which only system_config does, are told   *)
(* apart by the table they are read from.  Users come from imports alone    *)
(* here; the user pages are the subject of Syncer, Pipeline and Pcq.        *)
(***************************************************************************)
EXTENDS Naturals, Sequences

CONSTANTS
  Settings,  \* what a settings form holds, the key apart
  Keys,      \* private keys of the server
  Names,     \* user names
  Peers,     \* public keys of peers
  Files,     \* the peers of a wg0.conf an admin may import, in order
  Procs,     \* browsers, each with its session and at most one request
  Nothing    \* NULL, no row, no file, no interface

Entry  == [name : Names, peer : Peers]
Server == [port : Settings, key : Keys]
Config == [addr : Settings, port : Settings, key : Keys, peers : SUBSET Peers]

ASSUME SetupAssumption ==
  /\ Files \subseteq Seq(Entry)
  /\ Nothing \notin Settings \cup Keys \cup Peers \cup Procs
  /\ Nothing \notin Config

VARIABLES
  sys,     \* system_config: the settings, or Nothing before setup is complete
  srv,     \* vpn_servers: a row with port and key, or Nothing
  users,   \* vpn_users: name -> peer or Nothing
  conf,    \* wg0.conf, or Nothing
  iface,   \* the address the interface was brought up with, or Nothing
  admins,  \* number of administrators
  sess,    \* browsers that are signed in
  pc,      \* what each request does next
  form,    \* per request, what of its form is still to be stored
  buf,     \* per request, what it has read for wg0.conf so far
  solo,    \* history: the request that has run alone and unhindered, if any
  want     \* history: the tables such a request should leave

tables == <<sys, srv, users>>
host == <<conf, iface>>
auth == <<admins, sess>>
vars == <<tables, host, auth, pc, form, buf, solo, want>>

Kinds  == {"setup", "save", "reload"}
Form   == [kind : Kinds, set : Settings \cup {Nothing}, key : Keys \cup {Nothing},
           left : Seq(Entry)]
Steps  == {"hash", "sys", "server", "import", "config", "row", "write", "apply"}

Tables == [sys : Settings \cup {Nothing}, srv : Server \cup {Nothing},
           users : [Names -> Peers \cup {Nothing}]]

TypeOK ==
  /\ [sys |-> sys, srv |-> srv, users |-> users] \in Tables
  /\ conf \in Config \cup {Nothing} /\ iface \in Settings \cup {Nothing}
  /\ admins \in Nat /\ sess \subseteq Procs
  /\ pc \in [Procs -> Steps \cup {"idle"}]
  /\ form \in [Procs -> Form]
  /\ buf \in [Procs -> [addr : Settings \cup {Nothing}, srv : Server \cup {Nothing}]]
  /\ solo \in Procs \cup {Nothing}
  /\ want \in Tables \cup {Nothing}

NoForm == [kind |-> "reload", set |-> Nothing, key |-> Nothing, left |-> <<>>]
NoBuf  == [addr |-> Nothing, srv |-> Nothing]

Init ==
  /\ sys = Nothing /\ srv = Nothing /\ users = [n \in Names |-> Nothing]
  /\ conf = Nothing /\ iface = Nothing
  /\ admins = 0 /\ sess = {}
  /\ pc = [p \in Procs |-> "idle"]
  /\ form = [p \in Procs |-> NoForm] /\ buf = [p \in Procs |-> NoBuf]
  /\ solo = Nothing /\ want = Nothing

At(p, step)   == pc[p] = step
Goto(p, step) == pc' = [pc EXCEPT ![p] = step]

SetupComplete == sys # Nothing

\* A request is over: its form and what it has read are gone.
End(p) ==
  /\ Goto(p, "idle")
  /\ form' = [form EXCEPT ![p] = NoForm] /\ buf' = [buf EXCEPT ![p] = NoBuf]

-----------------------------------------------------------------------------
(* What a request should amount to, were it a single step. *)

\* The last peer of a name counts.
Imported(file) ==
  [n \in Names |->
     LET at == {i \in DOMAIN file : file[i].name = n}
     IN  IF at = {} THEN users[n]
         ELSE file[CHOOSE i \in at : \A j \in at : j <= i].peer]

Rendered(t) == [addr |-> t.sys, port |-> t.srv.port, key |-> t.srv.key,
                peers |-> {t.users[n] : n \in Names} \ {Nothing}]

Alone(p, t) ==
  IF \A q \in Procs \ {p} : pc[q] = "idle" THEN solo' = p /\ want' = t
  ELSE solo' = Nothing /\ want' = Nothing

Now == [sys |-> sys, srv |-> srv, users |-> users]

-----------------------------------------------------------------------------
(* Administrators and sessions. *)

\* SetupAdminPost counts the administrators, hashes, and inserts.
AdminCheck(p) ==
  /\ At(p, "idle") /\ ~SetupComplete /\ admins = 0
  /\ Goto(p, "hash")
  /\ Alone(p, Now)
  /\ UNCHANGED <<tables, host, auth, form, buf>>

AdminInsert(p) ==
  /\ At(p, "hash")
  /\ admins' = admins + 1 /\ sess' = sess \cup {p}
  /\ End(p)
  /\ UNCHANGED <<tables, host, solo, want>>

\* SetupLoginPost before setup is complete, LoginPost afterwards.
Login(p) ==
  /\ admins > 0
  /\ sess' = sess \cup {p}
  /\ UNCHANGED <<tables, host, admins, pc, form, buf, solo, want>>

Logout(p) ==
  /\ SetupComplete
  /\ sess' = sess \ {p}
  /\ UNCHANGED <<tables, host, admins, pc, form, buf, solo, want>>

-----------------------------------------------------------------------------
(* Requests begin. *)

Begin(p, step, f, t) ==
  /\ At(p, "idle")
  /\ Goto(p, step) /\ form' = [form EXCEPT ![p] = f]
  /\ Alone(p, t)
  /\ UNCHANGED <<tables, host, auth, buf>>

\* A plausible slip: the wizard does not ask who is there.
SetupPostAnonymous(p, s, k, file) ==
  /\ ~SetupComplete
  /\ Begin(p, "sys", [kind |-> "setup", set |-> s, key |-> k, left |-> file],
           [sys |-> s, srv |-> [port |-> s, key |-> k], users |-> Imported(file)])

\* The wizard's two posts: an import also brings peers.
SetupPost(p, s, k, file) ==
  /\ ~SetupComplete /\ p \in sess
  /\ Begin(p, "sys", [kind |-> "setup", set |-> s, key |-> k, left |-> file],
           [sys |-> s, srv |-> [port |-> s, key |-> k], users |-> Imported(file)])

\* A plausible slip: a missing row is inserted, key or no key.
SavedInserting(f) ==
  [port |-> f.set, key |-> IF f.key = Nothing /\ srv # Nothing THEN srv.key ELSE f.key]

\* upsertServerFromConfig: the key stays unless the form brings one, and
\* without a row there is nothing to update.
Saved(f) == IF srv = Nothing THEN Nothing
            ELSE [port |-> f.set, key |-> IF f.key = Nothing THEN srv.key ELSE f.key]

SavePost(p, s, k) ==
  /\ SetupComplete /\ p \in sess
  /\ LET f == [kind |-> "save", set |-> s, key |-> k, left |-> <<>>]
     IN  Begin(p, "sys", f, [sys |-> s, srv |-> Saved(f), users |-> users])

ReloadPost(p) ==
  /\ SetupComplete /\ p \in sess
  /\ Begin(p, "config", NoForm, Now)

-----------------------------------------------------------------------------
(* The two tables, and the imported peers. *)

UpsertSystem(p) ==
  /\ At(p, "sys")
  /\ sys' = form[p].set
  /\ Goto(p, "server")
  /\ UNCHANGED <<srv, users, host, auth, form, buf, solo, want>>

\* A plausible slip: saving without a key leaves the row alone, port and all.
UpsertServerKeyOnly(p) ==
  /\ At(p, "server")
  /\ srv' = IF form[p].kind = "setup" THEN [port |-> form[p].set, key |-> form[p].key]
            ELSE IF form[p].key = Nothing THEN srv ELSE Saved(form[p])
  /\ Goto(p, IF form[p].kind = "setup" THEN "import" ELSE "config")
  /\ form' = [form EXCEPT ![p].set = Nothing, ![p].key = Nothing]
  /\ UNCHANGED <<sys, users, host, auth, buf, solo, want>>

UpsertServer(p) ==
  /\ At(p, "server")
  /\ srv' = IF form[p].kind = "setup" THEN [port |-> form[p].set, key |-> form[p].key]
            ELSE Saved(form[p])
  /\ Goto(p, IF form[p].kind = "setup" THEN "import" ELSE "config")
  /\ form' = [form EXCEPT ![p].set = Nothing, ![p].key = Nothing]
  /\ UNCHANGED <<sys, users, host, auth, buf, solo, want>>

\* An imported peer takes over the row of its name.
ImportPeer(p) ==
  /\ At(p, "import") /\ form[p].left # <<>>
  /\ LET e == Head(form[p].left) IN users' = [users EXCEPT ![e.name] = e.peer]
  /\ form' = [form EXCEPT ![p].left = Tail(@)]
  /\ UNCHANGED <<sys, srv, host, auth, pc, buf, solo, want>>

ImportDone(p) ==
  /\ At(p, "import") /\ form[p].left = <<>>
  /\ Goto(p, "config")
  /\ UNCHANGED <<tables, host, auth, form, buf, solo, want>>

-----------------------------------------------------------------------------
(* WriteWireGuardConfig and ApplyConfig. *)

\* The wizard and the reload button give up on a failed write.
WriteFailed(p) ==
  IF form[p].kind \in {"setup", "reload"} THEN End(p)
  ELSE Goto(p, "apply") /\ buf' = [buf EXCEPT ![p] = NoBuf] /\ UNCHANGED form

ReadSystem(p) ==
  /\ At(p, "config")
  /\ buf' = [buf EXCEPT ![p].addr = sys]
  /\ Goto(p, "row")
  /\ UNCHANGED <<tables, host, auth, form, solo, want>>

\* Without a server row there is no file to write.
ReadServer(p) ==
  /\ At(p, "row")
  /\ IF srv = Nothing THEN WriteFailed(p)
     ELSE Goto(p, "write") /\ buf' = [buf EXCEPT ![p].srv = srv] /\ UNCHANGED form
  /\ UNCHANGED <<tables, host, auth, solo, want>>

WriteConf(p) ==
  /\ At(p, "write")
  /\ conf' = Rendered([sys |-> buf[p].addr, srv |-> buf[p].srv, users |-> users])
  /\ Goto(p, "apply") /\ buf' = [buf EXCEPT ![p] = NoBuf]
  /\ UNCHANGED <<tables, iface, auth, form, solo, want>>

\* wg-quick up sets the address, wg syncconf leaves it alone; what else they
\* carry to the interface is the subject of module Pipeline.
Apply(p) ==
  /\ At(p, "apply")
  /\ iface' = IF conf # Nothing /\ iface = Nothing THEN conf.addr ELSE iface
  /\ End(p)
  /\ UNCHANGED <<tables, conf, auth, solo, want>>

\* The error return of any step above: what was written stays.
Fail(p) ==
  /\ pc[p] \in Steps
  /\ IF pc[p] \in {"config", "row", "write"} THEN WriteFailed(p) ELSE End(p)
  /\ solo' = Nothing /\ want' = Nothing
  /\ UNCHANGED <<tables, host, auth>>

-----------------------------------------------------------------------------

\* The process dies, with its sessions, or the host, with its interface.
\* main() makes the administrator the environment names, if there is none,
\* and reloads if setup is complete.
Restart(p) ==
  /\ admins' \in IF admins = 0 THEN {0, 1} ELSE {admins}
  /\ sess' = {}
  /\ iface' \in {iface, Nothing}
  /\ pc' = [q \in Procs |-> IF q = p /\ SetupComplete THEN "config" ELSE "idle"]
  /\ form' = [q \in Procs |-> NoForm] /\ buf' = [q \in Procs |-> NoBuf]
  /\ IF SetupComplete THEN solo' = p /\ want' = Now
     ELSE solo' = Nothing /\ want' = Nothing
  /\ UNCHANGED <<tables, conf>>

Enter(p) ==
  \/ AdminCheck(p) \/ AdminInsert(p) \/ Login(p) \/ Logout(p) \/ ReloadPost(p)
  \/ \E s \in Settings : \/ \E k \in Keys, file \in Files : SetupPost(p, s, k, file)
                         \/ \E k \in Keys \cup {Nothing} : SavePost(p, s, k)

Run(p) ==
  \/ UpsertSystem(p) \/ UpsertServer(p) \/ ImportPeer(p) \/ ImportDone(p)
  \/ ReadSystem(p) \/ ReadServer(p) \/ WriteConf(p) \/ Apply(p)

Next == \E p \in Procs : Enter(p) \/ Run(p) \/ Fail(p) \/ Restart(p)

Spec == Init /\ [][Next]_vars

-----------------------------------------------------------------------------
(* Properties *)

(***************************************************************************)
(* A request, or a startup, that ran alone and met no error did what it    *)
(* says as if in one step: both tables hold the form, wg0.conf holds both  *)
(* and every user's peer, and the interface is up, whatever half-finished  *)
(* requests and restarts came before.  Only a missing server row, left by  *)
(* a wizard that broke off, stays missing.                                 *)
(***************************************************************************)
SoloRequestTakesEffect ==
  \A p \in Procs : solo = p /\ pc[p] = "idle" /\ SetupComplete =>
    /\ Now = want
    /\ srv # Nothing => conf = Rendered(Now) /\ iface # Nothing

(***************************************************************************)
(* Setup that is complete can always be signed in to: SetupAdminPost no    *)
(* longer creates an administrator then, so there had better be one.       *)
(***************************************************************************)
CompleteSetupHasAdmin == SetupComplete => admins > 0
=============================================================================
