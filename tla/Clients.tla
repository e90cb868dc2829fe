------------------------------ MODULE Clients ------------------------------
(***************************************************************************)
(* Who a VPN user is in NetPlug: its name, tunnel address and keys.        *)
(*                                                                         *)
(* An address is offered when the add-user form opens and stored when it   *)
(* is posted, a good while later; an edit reads the row and writes it back *)
(* in a second statement; an import writes peer after peer, while the user *)
(* pages already work.  Single statements are atomic, nothing larger is.   *)
(*                                                                         *)
(* Addresses are numbers for IPv4, model values for IPv6; prefix lengths   *)
(* are left out, as every operation here strips them.  A key pair is one   *)
(* value: a public key is named by the private key it derives from.        *)
(* Limits and the publication of wg0.conf belong to Syncer and Pipeline.   *)
(***************************************************************************)
EXTENDS WgQuick

CONSTANTS
  Ids,     \* ids of rows
  Names,   \* user names an admin may enter
  V4, V6,  \* addresses
  Lists,   \* allowed_ips an admin may enter
  Extras,  \* extra prefixes an admin may enter
  Keys,    \* key pairs of users
  Nets,    \* settings: server address and client range; also the server's keys
  Uploads, \* wg0.conf files an admin may import
  Texts,   \* the files the parser is checked on
  Procs    \* browsers, each with at most one form or request

Parts == V4 \cup V6
AddressList == Seq(Parts) \ {<<>>}
Row == [name : Names \cup Parts, ips : AddressList, priv : Keys \cup {None}, pub : Keys,
        en : BOOLEAN]

Peer == PeersOf(Names, Keys, AddressList)

\* A range and a file hold values of the kinds an admin may enter.
ASSUME ClientsAssumption ==
  /\ V4 \subseteq Nat /\ None \notin Parts
  /\ Lists \subseteq AddressList /\ Extras \subseteq Seq(Parts)
  /\ \A n \in Nets : n.bits \in 1..16 => (n.base + 1)..(n.base + 2 ^ n.bits - 2) \subseteq V4
  /\ Uploads \cup Texts \subseteq Seq(Lines(Names, Nets, Keys, AddressList))

VARIABLES
  users,   \* vpn_users: id -> row, for the ids in use
  net,     \* the settings, None before setup
  pc,      \* what each browser's form or request does next
  buf,     \* what it has read or still to store
  upset,   \* history: browsers whose reading others have since invalidated
  saw      \* history: id -> the rows its address was chosen apart from

vars == <<users, net, pc, buf, upset, saw>>

Live == DOMAIN users
Tunnel(r) == IF r.ips = <<>> THEN None ELSE Head(r.ips)

NoBuf == [net |-> None, id |-> None, tunnel |-> None, priv |-> None,
          left |-> <<>>]

Buf == [net : Nets \cup {None}, id : Ids \cup {None}, tunnel : Parts \cup {None},
        priv : Keys \cup {None}, left : Seq(Peer)]

Steps == {"idle", "used", "form", "edit", "wizard", "peers"}

TypeOK ==
  /\ Live \subseteq Ids /\ \A i \in Live : users[i] \in Row
  /\ net \in Nets \cup {None}
  /\ pc \in [Procs -> Steps]
  /\ buf \in [Procs -> Buf]
  /\ upset \subseteq Procs
  /\ saw \in [Ids -> SUBSET Ids]

Init ==
  /\ users = [i \in {} |-> None] /\ net = None
  /\ pc = [p \in Procs |-> "idle"] /\ buf = [p \in Procs |-> NoBuf]
  /\ upset = {} /\ saw = [i \in Ids |-> {}]

At(p, step) == pc[p] = step
Goto(p, step, b) == pc' = [pc EXCEPT ![p] = step] /\ buf' = [buf EXCEPT ![p] = b]
End(p) == Goto(p, "idle", NoBuf)

-----------------------------------------------------------------------------
(* History.  A row is taken when its address may have changed or is new.   *)

\* p wrote row i: an edit of that row has read it too early, and so has an
\* allocation, if the row is taken.
Wrote(p, i, taken) ==
  upset' = {q \in Procs \ {p} :
              \/ q \in upset
              \/ At(q, "edit") /\ buf[q].id = i
              \/ pc[q] \in {"used", "form"} /\ taken}

Calm(p) == upset' = upset \ {p}

\* No row is known to be apart from row i any more, but those of set S are.
Apart(i, S) == saw' = [j \in Ids |-> IF j = i THEN S ELSE saw[j] \ {i}]

-----------------------------------------------------------------------------
(* NextClientAllowedIP *)

\* A plausible slip: counting starts at the network address.
HostsFromNetwork(n) ==
  IF n.bits \in 1..16 THEN n.base..(n.base + 2 ^ n.bits - 2) ELSE {}

\* Network and broadcast address are skipped; ranges above /16 give nothing.
Hosts(n) == IF n.bits \in 1..16 THEN (n.base + 1)..(n.base + 2 ^ n.bits - 2) ELSE {}

\* The first IPv4 address of a row, wherever it stands.
FirstV4(ips) ==
  LET at == {k \in DOMAIN ips : ips[k] \in V4}
  IN  IF at = {} THEN None ELSE ips[CHOOSE k \in at : \A l \in at : k <= l]

\* A plausible slip: the addresses of disabled users are given away.
UsedByEnabled == {FirstV4(users[i].ips) : i \in {j \in Live : users[j].en}}

Used == {FirstV4(users[i].ips) : i \in Live}

Free(n) == Hosts(n) \ (Used \cup {n.server})

\* The add-user form opens, or a post without an address: the range first,
\* then the addresses in use.
ReadRange(p) ==
  /\ At(p, "idle") /\ net # None
  /\ Goto(p, "used", [NoBuf EXCEPT !.net = net])
  /\ UNCHANGED <<users, net, upset, saw>>

ReadUsed(p) ==
  /\ At(p, "used")
  /\ LET free == Free(buf[p].net)
     IN  IF free = {} THEN End(p) /\ Calm(p)
         ELSE /\ Goto(p, "form", [NoBuf EXCEPT
                        !.tunnel = CHOOSE a \in free : \A b \in free : a <= b])
              /\ UNCHANGED upset
  /\ UNCHANGED <<users, net, saw>>

-----------------------------------------------------------------------------
(* UserCreatePost *)

\* The id is new: no request knows it.
NewId(i) == i \notin Live /\ \A p \in Procs : buf[p].id # i

Named(name, i) == \A j \in Live \ {i} : users[j].name # name

\* The statement fails on a name taken.
Insert(i, r) ==
  /\ NewId(i) /\ Named(r.name, i)
  /\ users' = [j \in Live \cup {i} |-> IF j = i THEN r ELSE users[j]]

Create(p, i, name, extra, k, e) ==
  /\ At(p, "form")
  /\ Insert(i, [name |-> name, ips |-> <<buf[p].tunnel>> \o extra,
                priv |-> k, pub |-> k, en |-> e])
  /\ Apart(i, IF p \in upset THEN {} ELSE Live)
  /\ Wrote(p, i, TRUE) /\ End(p)
  /\ UNCHANGED net

\* The admin enters an address of his own: nothing was read before.
CreateWith(p, i, name, ips, k, e) ==
  /\ At(p, "idle") /\ net # None
  /\ Insert(i, [name |-> name, ips |-> ips, priv |-> k, pub |-> k, en |-> e])
  /\ Apart(i, {}) /\ Wrote(p, i, TRUE)
  /\ UNCHANGED <<net, pc, buf>>

\* The form is closed, or a statement fails; what was written before stays.
GiveUp(p) ==
  /\ ~At(p, "idle")
  /\ End(p) /\ Calm(p)
  /\ UNCHANGED <<users, net, saw>>

-----------------------------------------------------------------------------
(* UserUpdatePost, UserTogglePost, UserDeletePost *)

EditRead(p, i) ==
  /\ At(p, "idle") /\ i \in Live
  /\ Goto(p, "edit", [NoBuf EXCEPT !.id = i, !.tunnel = Tunnel(users[i]),
                        !.priv = users[i].priv])
  /\ UNCHANGED <<users, net, upset, saw>>

\* A plausible slip: keys in the form are stored without looking at the row.
EditedOverKeys(b, r, name, extra, k, e) ==
  [name |-> name, en |-> e,
   ips  |-> (IF b.tunnel = None THEN <<>> ELSE <<b.tunnel>>) \o extra,
   priv |-> IF k # None THEN k ELSE r.priv, pub |-> IF k # None THEN k ELSE r.pub]

\* A plausible slip: the public key stays as it was imported.
EditedPrivateOnly(b, r, name, extra, k, e) ==
  [name |-> name, en |-> e,
   ips  |-> (IF b.tunnel = None THEN <<>> ELSE <<b.tunnel>>) \o extra,
   priv |-> IF b.priv = None /\ k # None THEN k ELSE r.priv, pub |-> r.pub]

\* The tunnel address is the one read, keys are set only where none was read.
Edited(b, r, name, extra, k, e) ==
  [name |-> name, en |-> e,
   ips  |-> (IF b.tunnel = None THEN <<>> ELSE <<b.tunnel>>) \o extra,
   priv |-> IF b.priv = None /\ k # None THEN k ELSE r.priv,
   pub  |-> IF b.priv = None /\ k # None THEN k ELSE r.pub]

\* An edit that was overtaken may put an address back that others now have.
EditWrite(p, name, extra, k, e) ==
  LET i == buf[p].id IN
  /\ At(p, "edit")
  /\ IF i \in Live
     THEN /\ Named(name, i)
          /\ users' = [users EXCEPT ![i] = Edited(buf[p], @, name, extra, k, e)]
          /\ IF p \in upset THEN Apart(i, {}) ELSE UNCHANGED saw
          /\ Wrote(p, i, p \in upset)
     ELSE UNCHANGED <<users, saw>> /\ Calm(p)
  /\ End(p)
  /\ UNCHANGED net

Toggle(i) ==
  /\ i \in Live
  /\ users' = [users EXCEPT ![i].en = ~@]
  /\ UNCHANGED <<net, pc, buf, upset, saw>>

Delete(i) ==
  /\ i \in Live
  /\ users' = [j \in Live \ {i} |-> users[j]]
  /\ Apart(i, {})
  /\ UNCHANGED <<net, pc, buf, upset>>

-----------------------------------------------------------------------------
(* The wizard's two posts check that setup is open long before they write.  *)
(* Settings and server keys, which saving may replace, are one value here;  *)
(* how the two tables they are in can part is the subject of Setup.         *)

Post(p, n, peers) ==
  /\ At(p, "idle") /\ net = None
  /\ Goto(p, "wizard", [NoBuf EXCEPT !.net = n, !.left = peers])
  /\ UNCHANGED <<users, net, upset, saw>>

GeneratePost(p, n) == Post(p, n, <<>>)

ImportPost(p, text) == Parses(text) /\ Post(p, Scanned(text).key, ParsedPeers(text))

SaveWizard(p) ==
  /\ At(p, "wizard")
  /\ net' = buf[p].net
  /\ Goto(p, "peers", [NoBuf EXCEPT !.left = buf[p].left])
  /\ UNCHANGED <<users, upset, saw>>

SaveSettings(n) ==
  /\ net # None
  /\ net' = n
  /\ UNCHANGED <<users, pc, buf, upset, saw>>

\* A peer nobody named is called by its address.
ImportName(e) == IF e.name # None THEN e.name ELSE Head(e.ips)

\* The row of an imported peer, on top of row r of the same name, if any.
ImportedRow(e, r) ==
  [name |-> ImportName(e), ips |-> e.ips, pub |-> e.pub, en |-> TRUE,
   priv |-> IF r = None THEN None ELSE r.priv]

ImportPeer(p) ==
  /\ At(p, "peers") /\ buf[p].left # <<>>
  /\ LET e == Head(buf[p].left)
         same == {i \in Live : users[i].name = ImportName(e)}
     IN  IF e.pub = None \/ e.ips = None THEN UNCHANGED <<users, upset, saw>>
         ELSE \E i \in IF same = {} THEN {j \in Ids : NewId(j)} ELSE same :
                /\ users' = [j \in Live \cup {i} |->
                               IF j # i THEN users[j]
                               ELSE ImportedRow(e, IF same = {} THEN None ELSE users[i])]
                /\ Apart(i, {}) /\ Wrote(p, i, TRUE)
  /\ buf' = [buf EXCEPT ![p].left = Tail(@)]
  /\ UNCHANGED <<net, pc>>

ImportDone(p) ==
  /\ At(p, "peers") /\ buf[p].left = <<>>
  /\ End(p)
  /\ UNCHANGED <<users, net, upset, saw>>

\* The process dies and with it every request; forms stay open.
Restart ==
  /\ pc'  = [p \in Procs |-> IF At(p, "form") THEN "form" ELSE "idle"]
  /\ buf' = [p \in Procs |-> IF At(p, "form") THEN buf[p] ELSE NoBuf]
  /\ upset' = {p \in upset : At(p, "form")}
  /\ UNCHANGED <<users, net, saw>>

-----------------------------------------------------------------------------

Enter(p) ==
  \/ ReadRange(p) \/ \E i \in Ids : EditRead(p, i)
  \/ \E n \in Nets : GeneratePost(p, n)
  \/ \E text \in Uploads : ImportPost(p, text)

Store(p) ==
  \E name \in Names, e \in BOOLEAN :
    \/ \E i \in Ids, k \in Keys : \/ \E ips \in Lists : CreateWith(p, i, name, ips, k, e)
                                  \/ \E extra \in Extras : Create(p, i, name, extra, k, e)
    \/ \E k \in Keys \cup {None}, extra \in Extras : EditWrite(p, name, extra, k, e)

Work(p) ==
  \/ ReadUsed(p) \/ SaveWizard(p)
  \/ ImportPeer(p) \/ ImportDone(p) \/ GiveUp(p)

Next ==
  \/ \E p \in Procs : Enter(p) \/ Store(p) \/ Work(p)
  \/ \E i \in Ids : Toggle(i) \/ Delete(i)
  \/ \E n \in Nets : SaveSettings(n)
  \/ Restart

Spec == Init /\ [][Next]_vars

-----------------------------------------------------------------------------
\* wg0.conf, as WriteWireGuardConfig would render the tables now.
InConf(i) == users[i].en /\ users[i].ips # <<>>

Conf == Rendered(net, SetToSeq({users[i] : i \in {j \in Live : InConf(j)}}))

-----------------------------------------------------------------------------
(* Properties *)

(***************************************************************************)
(* An address NetPlug chose is nobody else's tunnel address, for as long   *)
(* as both rows live: not that of a row that was there, enabled or not,    *)
(* when the form opened or when it was posted, however that row is edited  *)
(* since.  Only a user created or imported while the form was open can     *)
(* spoil this; new settings, or an edit that nothing overtook, cannot.     *)
(***************************************************************************)
AllocatedApart ==
  \A i \in Live : \A j \in saw[i] : j \in Live /\ Tunnel(users[i]) # Tunnel(users[j])

(***************************************************************************)
(* An edit that was not overtaken by another write of its row keeps the    *)
(* tunnel address, and the keys of a row that has a private key.  Keys     *)
(* change only where there is no private key, and then both at once, to a  *)
(* pair.  The public key of an imported row is not safe: nothing compares  *)
(* it with the one that belongs to the private key pasted into the form.   *)
(***************************************************************************)
EditsSetKeysOnce ==
  [][\A p \in Procs :
       At(p, "edit") /\ ~At(p, "edit")' /\ p \notin upset /\ buf[p].id \in Live =>
         LET r == users[buf[p].id]  new == users'[buf[p].id]
         IN  /\ <<new.priv, new.pub>> # <<r.priv, r.pub>> =>
                  r.priv = None /\ new.priv # None /\ new.pub = new.priv
             /\ r.ips # <<>> => Tunnel(new) = Tunnel(r)]_vars

(***************************************************************************)
(* A private key and the public key stored with it belong together, or a   *)
(* client that is configured from them connects to nobody.  No edit parts  *)
(* them, overtaken or not: only an import, which takes over the row of its *)
(* name and leaves the private key there, can.                             *)
(***************************************************************************)
Paired(keys) == keys.priv \in {None, keys.pub}

OnlyImportsPartKeys ==
  [][\A i \in Live' : ~Paired(users'[i]) /\ (i \in Live => Paired(users[i])) =>
       \E p \in Procs : At(p, "peers") /\ buf'[p].left # buf[p].left]_vars

(***************************************************************************)
(* What NetPlug renders it reads back: importing wg0.conf into a fresh     *)
(* installation restores every enabled user with its name, public key and  *)
(* addresses, and nobody else's.                                           *)
(***************************************************************************)
Restored(r) == [name |-> r.name, pub |-> r.pub, ips |-> r.ips]

ReimportRestores ==
  net # None =>
    LET peers == ParsedPeers(Conf)
    IN  /\ Parses(Conf)
        /\ {peers[n] : n \in DOMAIN peers} = {Restored(users[i]) : i \in {j \in Live : InConf(j)}}
        /\ \A n, m \in DOMAIN peers : peers[n].name = peers[m].name => n = m

(***************************************************************************)
(* The parser reads from any file, line by line, what the file says.  As   *)
(* it depends on nothing else, this is looked at once, where imports begin.*)
(***************************************************************************)
Fresh == net = None /\ \A p \in Procs : At(p, "idle")

ReadsWhatTextSays == Fresh => \A text \in Texts : Says(text, ParsedPeers(text))
=============================================================================
