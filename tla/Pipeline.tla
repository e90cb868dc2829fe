------------------------------ MODULE Pipeline ------------------------------
(***************************************************************************)
(* From the database to the interface: what WriteWireGuardConfig and       *)
(* ApplyConfig do on behalf of the request handlers, call by call.         *)
(*                                                                         *)
(* Nothing serialises the handlers, and every one of them uses the same    *)
(* two scratch names, wg0.conf.tmp and wg0.conf.peers.tmp.  Files are      *)
(* modelled as inodes behind names: a second os.WriteFile truncates the    *)
(* inode the first is still writing, and os.Rename moves whatever inode    *)
(* the scratch name then stands for.                                       *)
(*                                                                         *)
(* The content of a file is the set of users that have a [Peer] section in *)
(* it; a truncated file has none.  The synchroniser dumps the interface    *)
(* before it opens its transaction, so that requests run in between.       *)
(***************************************************************************)
EXTENDS Naturals, FiniteSets

CONSTANTS
  Users,    \* VPN users
  Procs,    \* handler goroutines
  Inodes,   \* file objects; one per name and one per open descriptor suffice
  Missing,  \* no file, descriptor, process or dump
  Down      \* the interface does not exist

ASSUME PipelineAssumption ==
  /\ Missing \notin Inodes \cup Procs
  /\ Down # Missing /\ \A S \in SUBSET Users : S \notin {Down, Missing}
  /\ IsFiniteSet(Inodes) /\ IsFiniteSet(Procs)
  /\ Cardinality(Inodes) >= Cardinality(Procs) + 3

Names == {"wg0.conf", "wg0.conf.tmp", "wg0.conf.peers.tmp"}

VARIABLES
  db,     \* users that are enabled in vpn_users
  path,   \* name -> Inode or Missing
  data,   \* inode -> content
  iface,  \* peers on the interface, or Down
  dump,   \* peers the synchroniser holds until its transaction, or Missing
  pc,     \* what each handler does next
  strict, \* handlers that give up when the file cannot be written
  buf,    \* per handler, the content it holds in memory
  fd,     \* per handler, the file it has open
  solo    \* history: the handler that has run alone and unhindered, if any

files == <<path, data>>
vars == <<db, path, data, iface, dump, pc, strict, buf, fd, solo>>

Steps == {"read", "open", "fill", "rename", "probe", "up", "strip", "popen", "pfill",
          "sync", "remove"}

TypeOK ==
  /\ db \subseteq Users
  /\ path \in [Names -> Inodes \cup {Missing}]
  /\ data \in [Inodes -> SUBSET Users]
  /\ iface # Missing   \* a missing file is never taken over
  /\ iface \in {Down} \cup SUBSET Users
  /\ dump \in {Missing} \cup SUBSET Users
  /\ pc \in [Procs -> Steps \cup {"idle"}]
  /\ strict \subseteq Procs
  /\ buf \in [Procs -> SUBSET Users]
  /\ fd \in [Procs -> Inodes \cup {Missing}]
  /\ \A p \in Procs : (fd[p] # Missing) = (pc[p] \in {"fill", "pfill"})
  /\ solo \in Procs \cup {Missing}

Init ==
  /\ db = {} /\ iface = Down /\ dump = Missing
  /\ path = [n \in Names |-> Missing]
  /\ data = [i \in Inodes |-> {}]
  /\ pc = [p \in Procs |-> "idle"] /\ strict = {}
  /\ buf = [p \in Procs |-> {}] /\ fd = [p \in Procs |-> Missing]
  /\ solo = Missing

Content(n) == IF path[n] = Missing THEN Missing ELSE data[path[n]]

Goto(p, step) == pc' = [pc EXCEPT ![p] = step]
At(p, step)   == pc[p] = step
Hold(p, b)    == buf' = [buf EXCEPT ![p] = b]

-----------------------------------------------------------------------------
(* The file calls. *)

\* An inode nothing refers to; the contents of one are forgotten.
Fresh == CHOOSE i \in Inodes : i \notin {path[n] : n \in Names} \cup {fd[q] : q \in Procs}

\* os.WriteFile opens with O_CREATE and O_TRUNC: an existing file is emptied.
OpenTrunc(p, n) ==
  LET i == IF path[n] = Missing THEN Fresh ELSE path[n]
  IN  /\ path' = [path EXCEPT ![n] = i]
      /\ fd'   = [fd EXCEPT ![p] = i]
      /\ data' = [data EXCEPT ![i] = {}]

\* The write starts at offset 0: over a longer text it leaves trailing sections.
Fill(p) ==
  /\ \E tail \in SUBSET (data[fd[p]] \ buf[p]) :
       data' = [data EXCEPT ![fd[p]] = buf[p] \cup tail]
  /\ fd' = [fd EXCEPT ![p] = Missing]
  /\ UNCHANGED path

-----------------------------------------------------------------------------
(* A request. *)

\* A statement enables, disables, creates or deletes one user.
Flip(u) == db' = IF u \in db THEN db \ {u} ELSE db \cup {u}

AloneAfter(p) == IF \A q \in Procs \ {p} : pc[q] = "idle" THEN p ELSE Missing

\* The statement of a user handler, which may leave who is enabled as it was;
\* the reload button and main() only reload, and give up on a failed write.
Begin(p) ==
  /\ At(p, "idle")
  /\ \/ /\ (\E u \in Users : Flip(u)) \/ UNCHANGED db
        /\ strict' = strict \ {p}
     \/ /\ UNCHANGED db
        /\ strict' = strict \cup {p}
  /\ Goto(p, "read")
  /\ solo' = AloneAfter(p)
  /\ UNCHANGED <<files, iface, dump, buf, fd>>

\* WriteWireGuardConfig: the rows, the scratch file, the rename.
Read(p) ==
  /\ At(p, "read")
  /\ Hold(p, db)
  /\ Goto(p, "open")
  /\ UNCHANGED <<db, files, iface, dump, strict, fd, solo>>

\* A plausible slip: wg0.conf itself is rewritten in place.
OpenInPlace(p) ==
  /\ At(p, "open")
  /\ OpenTrunc(p, "wg0.conf")
  /\ Goto(p, "fill")
  /\ UNCHANGED <<db, iface, dump, strict, buf, solo>>

\* A plausible slip: an O_EXCL, meant against overlaps, trips over what a
\* failed or dead request has left behind.
OpenExclusive(p) ==
  /\ At(p, "open")
  /\ IF path["wg0.conf.tmp"] # Missing
     THEN Goto(p, IF p \in strict THEN "idle" ELSE "probe") /\ UNCHANGED <<files, fd>>
     ELSE OpenTrunc(p, "wg0.conf.tmp") /\ Goto(p, "fill")
  /\ UNCHANGED <<db, iface, dump, strict, buf, solo>>

\* A plausible slip: opened without O_TRUNC, the file keeps its old text.
OpenKeeping(p) ==
  /\ At(p, "open")
  /\ LET n == "wg0.conf.tmp"
     IN  IF path[n] = Missing THEN OpenTrunc(p, n)
         ELSE fd' = [fd EXCEPT ![p] = path[n]] /\ UNCHANGED files
  /\ Goto(p, "fill")
  /\ UNCHANGED <<db, iface, dump, strict, buf, solo>>

Open(p) ==
  /\ At(p, "open")
  /\ OpenTrunc(p, "wg0.conf.tmp")
  /\ Goto(p, "fill")
  /\ UNCHANGED <<db, iface, dump, strict, buf, solo>>

FillConf(p) ==
  /\ At(p, "fill")
  /\ Fill(p)
  /\ Goto(p, "rename")
  /\ UNCHANGED <<db, iface, dump, strict, buf, solo>>

\* Where a handler goes after a failed write: on to ApplyConfig, or out.
AfterFailedWrite(p) == IF p \in strict THEN "idle" ELSE "probe"

Rename(p) ==
  /\ At(p, "rename")
  /\ IF path["wg0.conf.tmp"] = Missing
     THEN Goto(p, AfterFailedWrite(p)) /\ UNCHANGED path
     ELSE /\ path' = [path EXCEPT !["wg0.conf"] = path["wg0.conf.tmp"],
                                  !["wg0.conf.tmp"] = Missing]
          /\ Goto(p, "probe")
  /\ Hold(p, {})
  /\ UNCHANGED <<db, data, iface, dump, strict, fd, solo>>

\* A plausible slip: nobody checks that there is a file.
ProbeUnchecked(p) ==
  /\ At(p, "probe")
  /\ Goto(p, IF iface = Down THEN "up" ELSE "strip")
  /\ UNCHANGED <<db, files, iface, dump, strict, buf, fd, solo>>

\* ApplyConfig: no file, no interface yet, or an interface to sync.
Probe(p) ==
  /\ At(p, "probe")
  /\ Goto(p, IF path["wg0.conf"] = Missing THEN "idle"
             ELSE IF iface = Down THEN "up" ELSE "strip")
  /\ UNCHANGED <<db, files, iface, dump, strict, buf, fd, solo>>

\* wg-quick up refuses an interface that has come up meanwhile.
Up(p) ==
  /\ At(p, "up")
  /\ iface' = IF iface = Down THEN Content("wg0.conf") ELSE iface
  /\ Goto(p, "idle")
  /\ UNCHANGED <<db, files, dump, strict, buf, fd, solo>>

Strip(p) ==
  /\ At(p, "strip")
  /\ Hold(p, Content("wg0.conf"))
  /\ Goto(p, "popen")
  /\ UNCHANGED <<db, files, iface, dump, strict, fd, solo>>

OpenPeers(p) ==
  /\ At(p, "popen")
  /\ OpenTrunc(p, "wg0.conf.peers.tmp")
  /\ Goto(p, "pfill")
  /\ UNCHANGED <<db, iface, dump, strict, buf, solo>>

FillPeers(p) ==
  /\ At(p, "pfill")
  /\ Fill(p)
  /\ Hold(p, {})
  /\ Goto(p, "sync")
  /\ UNCHANGED <<db, iface, dump, strict, solo>>

\* wg syncconf reads the scratch file by name; another handler may have
\* removed it.
SyncConf(p) ==
  /\ At(p, "sync")
  /\ iface' = IF path["wg0.conf.peers.tmp"] = Missing \/ iface = Down THEN iface
              ELSE Content("wg0.conf.peers.tmp")
  /\ Goto(p, "remove")
  /\ UNCHANGED <<db, files, dump, strict, buf, fd, solo>>

Remove(p) ==
  /\ At(p, "remove")
  /\ path' = [path EXCEPT !["wg0.conf.peers.tmp"] = Missing]
  /\ Goto(p, "idle")
  /\ UNCHANGED <<db, data, iface, dump, strict, buf, fd, solo>>

\* The error returns of the calls above; the deferred remove still runs after a
\* failed syncconf, and a half-written scratch file stays where it is.
Fail(p) ==
  /\ pc[p] \in Steps \ {"remove"}
  /\ Goto(p, CASE pc[p] \in {"read", "open", "fill", "rename"} -> AfterFailedWrite(p)
               [] pc[p] = "sync" -> "remove"
               [] OTHER -> "idle")
  /\ Hold(p, {}) /\ fd' = [fd EXCEPT ![p] = Missing]
  /\ solo' = Missing
  /\ UNCHANGED <<db, files, iface, dump, strict>>

-----------------------------------------------------------------------------
(* Around the requests. *)

\* A pass begins with a dump of the interface; without one there is no dump.
SyncDump ==
  /\ dump = Missing /\ iface # Down
  /\ dump' = iface
  /\ UNCHANGED <<db, files, iface, pc, strict, buf, fd, solo>>

\* Its transaction enables or disables the users of the dump as their limits
\* have it, and publishes nothing.
SyncCommit ==
  /\ dump # Missing
  /\ \E on \in SUBSET dump : db' = (db \ dump) \cup on
  /\ dump' = Missing
  /\ solo' = IF db' = db THEN solo ELSE Missing
  /\ UNCHANGED <<files, iface, pc, strict, buf, fd>>

\* An error rolls the transaction back.
SyncAbort ==
  /\ dump # Missing
  /\ dump' = Missing
  /\ UNCHANGED <<db, files, iface, pc, strict, buf, fd, solo>>

\* The process dies, or the host, and main() reloads; files stay as they are.
Restart(p) ==
  /\ pc'     = [q \in Procs |-> IF q = p THEN "read" ELSE "idle"]
  /\ strict' = {p}
  /\ buf'    = [q \in Procs |-> {}]
  /\ fd'     = [q \in Procs |-> Missing]
  /\ iface'  \in {iface, Down}
  /\ dump'   = Missing
  /\ solo'   = p
  /\ UNCHANGED <<db, files>>

Run(p) == \/ Begin(p) \/ Read(p) \/ Open(p) \/ FillConf(p) \/ Rename(p)
          \/ Probe(p) \/ Up(p) \/ Strip(p) \/ OpenPeers(p) \/ FillPeers(p)
          \/ SyncConf(p) \/ Remove(p)

Sync == SyncDump \/ SyncCommit \/ SyncAbort

Next == Sync \/ \E p \in Procs : Run(p) \/ Fail(p) \/ Restart(p)

Spec == Init /\ [][Next]_vars

-----------------------------------------------------------------------------
(* Properties *)

Within(n) == IF path[n] = Missing THEN {} ELSE data[path[n]]

\* What a handler may still put into a file or onto the interface.
InHand(p) ==
  CASE pc[p] \in {"open", "popen"} -> buf[p]
    [] pc[p] = "fill"   -> buf[p] \cup data[fd[p]] \cup Within("wg0.conf.tmp")
    [] pc[p] = "rename" -> Within("wg0.conf.tmp")
    [] pc[p] = "pfill"  -> buf[p] \cup data[fd[p]] \cup Within("wg0.conf.peers.tmp")
    [] pc[p] = "sync"   -> Within("wg0.conf.peers.tmp")
    [] OTHER -> {}

InDump(u) == dump # Missing /\ u \in dump

\* Not enabled, not published, and in no reading somebody may still act on.
Gone(u) ==
  /\ u \notin db /\ u \notin Within("wg0.conf") /\ ~InDump(u)
  /\ iface # Down => u \notin iface
  /\ \A p \in Procs : u \notin InHand(p)

(***************************************************************************)
(* A request, or a startup, that ran alone and met no error has published  *)
(* the table: wg0.conf and the interface hold exactly the enabled users,   *)
(* whatever earlier crashes, failures and overlapping requests left in the *)
(* scratch files, in wg0.conf and on the interface; who is not enabled is  *)
(* gone, but for a dump taken before.                                      *)
(***************************************************************************)
SoloRequestPublishes ==
  \A p \in Procs : solo = p /\ pc[p] = "idle" =>
    /\ Content("wg0.conf") = db /\ iface = db
    /\ \A u \in Users \ db : InDump(u) \/ Gone(u)

(***************************************************************************)
(* A user that is gone stays gone: no reload, pass, overlap, failed or cut *)
(* off request and no restart brings it back, whatever the scratch files   *)
(* still hold of it; only a request's own statement does.  A user disabled *)
(* while an older reading is in hand is not gone yet: that reading may     *)
(* still be published (RemovedFromConf), or the pass enable it again.      *)
(***************************************************************************)
GoneStaysGone ==
  [][\A u \in Users : Gone(u) => Gone(u)' \/ \E p \in Procs : Begin(p) /\ u \in db']_vars

(***************************************************************************)
(* Requests that do not overlap implement the abstract promise, crashes    *)
(* and failures included (checked with a single handler).                  *)
(***************************************************************************)
Taken == IF \E p \in Procs : pc[p] \in {"open", "fill", "rename"}
         THEN buf[CHOOSE p \in Procs : pc[p] \in {"open", "fill", "rename"}]
         ELSE Missing

Abstract == INSTANCE Publication
              WITH taken <- Taken, conf <- Content("wg0.conf")

Publishes == Abstract!Spec

(***************************************************************************)
(* "Delete user ... and remove their peer from wg0.conf"                   *)
(* (delete_user_modal.tmpl:36): when no request is running, a user that is *)
(* not enabled has no [Peer] section.  Overlapping requests break this.    *)
(***************************************************************************)
RemovedFromConf ==
  (\A p \in Procs : pc[p] = "idle") =>
     \A u \in Users \ db : Content("wg0.conf") # Missing => u \notin Content("wg0.conf")
=============================================================================
