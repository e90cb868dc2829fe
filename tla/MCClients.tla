----------------------------- MODULE MCClients -----------------------------
(* Addresses, settings and files for Clients. *)
EXTENDS Clients

MCV4 == 1..6

\* Ranges of two and of six addresses, the first of them the server's.
MCNet(bits) == [server |-> 1, base |-> 0, bits |-> bits]
MCNets == {MCNet(2), MCNet(3)}

\* What an admin types: an address that may be offered, too, or IPv6 only.
MCLists == {<<2>>} \cup {<<a>> : a \in V6}

MCExtras == {<<>>, <<3>>}

MCPeer(n, k, ips) ==
  <<IF n = None THEN Line("other", None) ELSE Line("user", n),
    Line("peer", None), Line("pub", k), Line("ips", ips)>>

\* Files with one peer, of a name, or none, and an address others may have too.
MCUploads == {<<Line("interface", None), Line("key", MCNet(3))>> \o MCPeer(n, u, <<2>>) :
                n \in Names \cup {None}, u \in Keys}

\* Every file of up to five lines.
MCLines == {Line(kind, None) : kind \in {"interface", "section", "peer"}}
           \cup {Line("key", n) : n \in MCNets} \cup {Line("ips", <<2>>)}
           \cup {Line("user", n) : n \in Names} \cup {Line("pub", k) : k \in Keys}

MCTexts == UNION {[1..n -> MCLines] : n \in 0..5}

MCSymmetry == Permutations(Ids) \cup Permutations(Keys) \cup Permutations(Procs)
              \cup Permutations(Names)
=============================================================================
