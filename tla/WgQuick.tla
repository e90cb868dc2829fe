------------------------------ MODULE WgQuick ------------------------------
(***************************************************************************)
(* The text of wg0.conf in NetPlug: what WriteWireGuardConfig renders      *)
(* (internal/wireguard/config.go) and how ParseWGQuickConfig reads such a  *)
(* file, ours or another tool's, back (internal/wireguard/wgquick_parse.go)*)
(*                                                                         *)
(* A line is a record: what kind of line it is, and its value.  Blank      *)
(* lines and comments that name nobody are "other", as are the keys that   *)
(* do not matter here; a preshared key is read and set as a public key is. *)
(***************************************************************************)
EXTENDS Naturals, Sequences, SequencesExt

CONSTANT None   \* no name, no key, no addresses: the empty string

Line(kind, value) == [kind |-> kind, val |-> value]

Header == {"interface", "peer", "section"}

\* The keys of a [Peer] section a user's row is made from.
PeerKey == {"pub", "ips"}

\* The empty string is no section.
ASSUME WgQuickAssumption == None \notin Header

\* The lines of files that name these users, server keys, public keys and
\* addresses.  A key may have no value; a comment that names nobody is "other".
Lines(names, keys, pubs, ips) ==
  [kind : {"user"}, val : names] \cup [kind : {"key"}, val : keys \cup {None}]
  \cup [kind : {"pub"}, val : pubs \cup {None}] \cup [kind : {"ips"}, val : ips \cup {None}]
  \cup [kind : Header \cup {"other"}, val : {None}]

\* What such a file says of a peer, of which any part may be missing.
PeersOf(names, pubs, ips) ==
  [name : names \cup {None}, pub : pubs \cup {None}, ips : ips \cup {None}]

NewPeer(name) == [name |-> name, pub |-> None, ips |-> None]

-----------------------------------------------------------------------------
(* ParseWGQuickConfig, line by line.  user is the last name seen in a       *)
(* comment; sec is the section, whose last peer is the one being read.      *)

Blank == [sec |-> None, user |-> None, key |-> None, peers |-> <<>>]

\* A plausible slip: the name stays pending and goes to every later peer too.
ScanKeepingUser(st, line) ==
  CASE line.kind = "user" -> [st EXCEPT !.user = line.val]
    [] line.kind = "peer" ->
         [st EXCEPT !.sec = "peer", !.peers = Append(@, NewPeer(st.user))]
    [] line.kind \in Header \ {"peer"} -> [st EXCEPT !.sec = line.kind]
    [] line.kind = "key" /\ st.sec = "interface" -> [st EXCEPT !.key = line.val]
    [] line.kind \in PeerKey /\ st.sec = "peer" ->
         [st EXCEPT !.peers[Len(st.peers)] = [@ EXCEPT ![line.kind] = line.val]]
    [] OTHER -> st

\* Keys outside their section are ignored, and a later line of a section wins.
Scan(st, line) ==
  CASE line.kind = "user" -> [st EXCEPT !.user = line.val]
    [] line.kind = "peer" ->
         [st EXCEPT !.sec = "peer", !.user = None, !.peers = Append(@, NewPeer(st.user))]
    [] line.kind \in Header \ {"peer"} -> [st EXCEPT !.sec = line.kind]
    [] line.kind = "key" /\ st.sec = "interface" -> [st EXCEPT !.key = line.val]
    [] line.kind \in PeerKey /\ st.sec = "peer" ->
         [st EXCEPT !.peers[Len(st.peers)] = [@ EXCEPT ![line.kind] = line.val]]
    [] OTHER -> st

Scanned(text) == FoldLeft(Scan, Blank, text)

\* A file without the server's private key is refused.
Parses(text) == Scanned(text).key # None

ParsedPeers(text) == Scanned(text).peers

-----------------------------------------------------------------------------
(* WriteWireGuardConfig: the server's key, then the peers it is given.      *)

\* A plausible slip: the comment moves into the section it is about.
RenderedPeerNamedInside(u) ==
  <<Line("peer", None), Line("user", u.name), Line("pub", u.pub), Line("ips", u.ips),
    Line("other", None)>>

RenderedPeer(u) ==
  <<Line("user", u.name), Line("peer", None), Line("pub", u.pub), Line("ips", u.ips),
    Line("other", None)>>

Rendered(key, us) ==
  <<Line("other", None), Line("interface", None), Line("key", key), Line("other", None)>>
  \o FlattenSeq([i \in DOMAIN us |-> RenderedPeer(us[i])])

-----------------------------------------------------------------------------
(***************************************************************************)
(* What a wg-quick file says, read as a whole: a section runs to the next  *)
(* header, the last line of a key counts, and a peer is called what the    *)
(* last "# User:" comment between the previous [Peer] and its own says.    *)
(***************************************************************************)
LastVal(text, from, to, kind) ==
  LET at == {i \in from..to : text[i].kind = kind}
  IN  IF at = {} THEN None ELSE text[Max(at)].val

SectionEnd(text, h) ==
  LET next == {i \in (h + 1)..Len(text) : text[i].kind \in Header}
  IN  IF next = {} THEN Len(text) ELSE Min(next) - 1

\* The last [Peer] header before line h.
PrevPeer(text, h) ==
  LET before == {i \in 1..(h - 1) : text[i].kind = "peer"}
  IN  IF before = {} THEN 0 ELSE Max(before)

PeerAt(text, h) ==
  [name |-> LastVal(text, PrevPeer(text, h) + 1, h - 1, "user"),
   pub  |-> LastVal(text, h + 1, SectionEnd(text, h), "pub"),
   ips  |-> LastVal(text, h + 1, SectionEnd(text, h), "ips")]

\* The number of the peer whose header is line h.
Number(text, h) == Cardinality({i \in 1..h : text[i].kind = "peer"})

Says(text, peers) ==
  /\ Len(peers) = Number(text, Len(text))
  /\ \A h \in DOMAIN text : text[h].kind = "peer" => peers[Number(text, h)] = PeerAt(text, h)
=============================================================================
