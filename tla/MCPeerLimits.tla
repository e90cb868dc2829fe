---------------------------- MODULE MCPeerLimits ----------------------------
(* Rows for PeerLimits. *)
EXTENDS PeerLimits

MCRate(dl, ul, bdl, bul) == [f \in Fields |-> CASE f = "dl"  -> dl [] f = "ul" -> ul
                                               [] f = "bdl" -> bdl [] OTHER -> bul]

\* Two rates per direction, NULL and zero, bursts with and without a rate to
\* go with, under each classifier.
Low    == MCRate(1, NULL, 3, 3)
High   == MCRate(2, 2, 1, NULL)
UpOnly == MCRate(0, 1, NULL, 2)
Bursts == MCRate(NULL, NULL, 1, 1)

MCRow(a, c, r) == [addr |-> a, clf |-> c, rate |-> r]

First == CHOOSE a \in Addrs : TRUE

MCRows ==
  {MCRow(First, "dual", r) : r \in {Low, High, UpOnly, Bursts}}
  \cup {MCRow(First, c, r) : c \in {"dst-download", "src-upload"}, r \in {High, UpOnly}}
  \cup {MCRow(a, "dual", High) : a \in Addrs \cup {NoAddr}}
=============================================================================
