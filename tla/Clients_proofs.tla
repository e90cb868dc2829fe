--------------------------- MODULE Clients_proofs ---------------------------
(***************************************************************************)
(* Proofs about Clients: an address that was offered stays apart, and keys *)
(* stay with their clients, for any range and any number of browsers; and  *)
(* about WgQuick: the parser reads what any file says, and what NetPlug    *)
(* writes it reads back.                                                   *)
(***************************************************************************)
EXTENDS Clients, FiniteSetTheorems, WellFoundedInduction, SequenceTheorems, TLAPS

-----------------------------------------------------------------------------
(* Induction, on sets that are given rather than described.                *)

\* A set of numbers that is not empty has a least member.
LEMMA Least ==
  ASSUME NEW S \in SUBSET Nat, S # {} PROVE \E a \in S : \A b \in S : a <= b
<1> DEFINE Less == {s \in Nat \X Nat : s[1] < s[2]}
<1>1. IsWellFoundedOn(Less, Nat)
  BY NatLessThanWellFounded DEF OpToRel
<1>2. \E x \in S : \A y \in S : <<y, x>> \notin Less
  <2> HIDE DEF Less
  <2> QED  BY <1>1, WFMin
<1>3. PICK x \in S : \A y \in S : <<y, x>> \notin Less
  BY <1>2
<1>4. ASSUME NEW y \in S PROVE x <= y
  <2>1. <<y, x>> \in Nat \X Nat /\ ~(y < x)
    BY <1>3
  <2> QED  BY <2>1
<1> QED  BY <1>4

\* A set that holds 0, and with every number the next, holds all.
LEMMA NatInd ==
  ASSUME NEW S, 0 \in S, \A n \in Nat : n \in S => n + 1 \in S
  PROVE  Nat \subseteq S
<1> DEFINE Left == Nat \ S
<1> SUFFICES ASSUME Left # {} PROVE FALSE
  OBVIOUS
<1>1. PICK x \in Left : \A y \in Left : x <= y
  <2>1. Left \in SUBSET Nat
    OBVIOUS
  <2> HIDE DEF Left
  <2> QED  BY <2>1, Least
<1>2. x - 1 \in Nat /\ (x - 1) + 1 = x
  BY <1>1
<1>3. x - 1 \notin S
  BY <1>1, <1>2
<1>4. x - 1 \in Left
  BY <1>2, <1>3
<1> QED  BY <1>1, <1>2, <1>4

\* A set of some numbers up to n that is not empty has a greatest member.
LEMMA Greatest ==
  ASSUME NEW n \in Nat, NEW S \in SUBSET (1..n), S # {}
  PROVE  /\ Max(S) \in S /\ \A y \in S : y <= Max(S)
         /\ \A x \in S : (\A y \in S : y <= x) => Max(S) = x
<1> DEFINE T == {n - y : y \in S}
<1>0. \A y \in S : y \in Int /\ y <= n
  OBVIOUS
<1>1. T \in SUBSET Nat /\ T # {}
  BY <1>0
<1>2. PICK a \in T : \A b \in T : a <= b
  <2> HIDE DEF T
  <2> QED  BY <1>1, Least
<1>3. PICK x \in S : a = n - x
  BY DEF T
<1>4. ASSUME NEW y \in S PROVE x >= y
  <2>1. n - y \in T
    BY DEF T
  <2>2. n - x <= n - y
    BY <1>2, <1>3, <2>1
  <2> QED  BY <1>0, <2>2
<1>5. Max(S) \in S /\ \A y \in S : Max(S) >= y
  BY <1>4 DEF Max
<1>6. ASSUME NEW z \in S, \A y \in S : y <= z PROVE Max(S) = z
  <2>1. Max(S) <= z /\ Max(S) >= z /\ Max(S) \in Int /\ z \in Int
    BY <1>0, <1>5, <1>6
  <2> QED  BY <2>1
<1>7. ASSUME NEW y \in S PROVE y <= Max(S)
  <2>1. Max(S) >= y /\ Max(S) \in Int /\ y \in Int
    BY <1>0, <1>5
  <2> QED  BY <2>1
<1> QED  BY <1>5, <1>6, <1>7

-----------------------------------------------------------------------------
(* The parser's states: one after each line.                                *)

\* What folds Scan over the subsets of D.
Folds(g, text, D) ==
  g = [s \in D |-> IF s = {} THEN Blank ELSE Scan(g[s \ {Max(s)}], text[Max(s)])]

\* The fold over the lines is the function that folds over sets of line numbers.
LEMMA ScannedIs ==
  ASSUME NEW text
  PROVE  Scanned(text) = (CHOOSE g : Folds(g, text, SUBSET DOMAIN text))[DOMAIN text]
BY DEF Scanned, FoldLeft, MapThenFoldSet, Folds

\* There is such a function for the lines of any text.
LEMMA FoldExists ==
  ASSUME NEW text, NEW m \in Nat
  PROVE  \E g : Folds(g, text, SUBSET (1..m))
<1> DEFINE Small(n) == {s \in SUBSET (1..m) : Cardinality(s) <= n}
           N == {n \in Nat : \E g : Folds(g, text, Small(n))}
<1>0. \A s \in SUBSET (1..m) : IsFiniteSet(s) /\ Cardinality(s) \in Nat /\ Cardinality(s) <= m
  <2>1. IsFiniteSet(1..m) /\ Cardinality(1..m) = m
    BY FS_Interval
  <2> QED  BY <2>1, FS_Subset, FS_CardinalityType
<1>1. 0 \in N
  <2> DEFINE g == [s \in Small(0) |-> Blank]
  <2>1. \A s \in Small(0) : s = {}
    BY <1>0, FS_EmptySet
  <2> HIDE DEF Small
  <2>2. Folds(g, text, Small(0))
    BY <2>1 DEF Folds
  <2> QED  BY <2>2
<1>2. ASSUME NEW n \in Nat, n \in N PROVE n + 1 \in N
  <2>1. PICK f : Folds(f, text, Small(n))
    BY <1>2
  <2> DEFINE g == [s \in Small(n + 1) |->
                     IF s = {} THEN Blank ELSE Scan(f[s \ {Max(s)}], text[Max(s)])]
  <2>2. ASSUME NEW s \in Small(n + 1), s # {}
        PROVE  s \ {Max(s)} \in Small(n) /\ s \ {Max(s)} \in Small(n + 1)
    <3>1. Max(s) \in s
      BY <2>2, Greatest
    <3>2. Cardinality(s \ {Max(s)}) = Cardinality(s) - 1
      BY <1>0, <3>1, FS_RemoveElement
    <3>3. s \ {Max(s)} \in SUBSET (1..m) /\ Cardinality(s) \in Nat /\ Cardinality(s) <= n + 1
      BY <1>0
    <3> HIDE DEF Max
    <3> QED  BY <3>2, <3>3
  <2>3. ASSUME NEW s \in Small(n) PROVE s \in Small(n + 1)
    BY <1>0
  <2> HIDE DEF Small
  <2>4. ASSUME NEW s \in Small(n) PROVE g[s] = f[s]
    <3>1. g[s] = IF s = {} THEN Blank ELSE Scan(f[s \ {Max(s)}], text[Max(s)])
      BY <2>3
    <3>2. f[s] = IF s = {} THEN Blank ELSE Scan(f[s \ {Max(s)}], text[Max(s)])
      BY <2>1 DEF Folds
    <3> QED  BY <3>1, <3>2
  <2>5. ASSUME NEW s \in Small(n + 1)
        PROVE  g[s] = IF s = {} THEN Blank ELSE Scan(g[s \ {Max(s)}], text[Max(s)])
    BY <2>2, <2>4
  <2>6. g = [s \in Small(n + 1) |-> g[s]]
    OBVIOUS
  <2> HIDE DEF g
  <2>7. Folds(g, text, Small(n + 1))
    BY <2>5, <2>6 DEF Folds
  <2> QED  BY <2>7
<1>3. Nat \subseteq N
  <2> HIDE DEF N
  <2> QED  BY <1>1, <1>2, NatInd
<1>4. m \in N
  BY <1>3
<1>5. Small(m) = SUBSET (1..m)
  BY <1>0
<1> HIDE DEF Small
<1> QED  BY <1>4, <1>5

\* The parser is in its first state before the first line, every line takes it
\* to the next, and what it returns is its last.
LEMMA ScannedByLine ==
  ASSUME NEW L, NEW text \in Seq(L)
  PROVE  \E f : /\ f[0] = Blank /\ Scanned(text) = f[Len(text)]
                /\ \A n \in Nat : n < Len(text) => f[n + 1] = Scan(f[n], text[n + 1])
<1> DEFINE m == Len(text)
           g == CHOOSE g : Folds(g, text, SUBSET (1..m))
           f == [n \in Nat |-> g[1..n]]
<1>1. m \in Nat /\ DOMAIN text = 1..m
  BY LenProperties
<1>2. Folds(g, text, SUBSET (1..m))
  BY <1>1, FoldExists
<1>3. Scanned(text) = g[1..m]
  BY <1>1, ScannedIs
<1> HIDE DEF g, m
<1>4. \A s \in SUBSET (1..m) :
        g[s] = IF s = {} THEN Blank ELSE Scan(g[s \ {Max(s)}], text[Max(s)])
  BY <1>2 DEF Folds
<1>5. g[1..0] = Blank
  <2>1. 1..0 = {}
    OBVIOUS
  <2> QED  BY <1>4, <2>1
<1>6. ASSUME NEW n \in Nat, n < m PROVE g[1..(n + 1)] = Scan(g[1..n], text[n + 1])
  <2> DEFINE s == 1..(n + 1)
  <2>1. s \in SUBSET (1..m) /\ s # {} /\ n + 1 \in s /\ \A y \in s : y <= n + 1
    BY <1>1, <1>6
  <2>2. s \ {n + 1} = 1..n
    OBVIOUS
  <2> HIDE DEF s
  <2>3. Max(s) = n + 1
    BY <1>1, <2>1, Greatest
  <2>4. g[s] = Scan(g[s \ {n + 1}], text[n + 1])
    BY <1>4, <2>1, <2>3
  <2> QED  BY <2>2, <2>4 DEF s
<1>7. /\ f[0] = Blank /\ Scanned(text) = f[m]
      /\ \A n \in Nat : n < m => f[n + 1] = Scan(f[n], text[n + 1])
  BY <1>1, <1>3, <1>5, <1>6
<1> HIDE DEF f
<1> QED  BY <1>7 DEF m

-----------------------------------------------------------------------------
(* What a line does to the parser's state.                                  *)

\* The states of the parser, on files that name these users, keys and addresses.
States(names, keys, pubs, ips) ==
  {st \in [sec : Header \cup {None}, user : names \cup {None}, key : keys \cup {None},
           peers : Seq(PeersOf(names, pubs, ips))] :
     st.sec = "peer" => st.peers # <<>>}

\* The state new is what line makes of st.
Scans(st, line, new) ==
  /\ new.user = IF line.kind = "user" THEN line.val
                ELSE IF line.kind = "peer" THEN None ELSE st.user
  /\ new.sec = IF line.kind \in Header THEN line.kind ELSE st.sec
  /\ new.key = IF line.kind = "key" /\ st.sec = "interface" THEN line.val ELSE st.key
  /\ Len(new.peers) = IF line.kind = "peer" THEN Len(st.peers) + 1 ELSE Len(st.peers)
  /\ line.kind = "peer" => new.peers[Len(st.peers) + 1] = NewPeer(st.user)
  /\ \A n \in 1..Len(st.peers) :
       new.peers[n] =
         IF line.kind \in PeerKey /\ st.sec = "peer" /\ n = Len(st.peers)
         THEN [st.peers[n] EXCEPT ![line.kind] = line.val] ELSE st.peers[n]

\* One line keeps the parser's state typed and does what Scans says.
LEMMA ScanEffect ==
  ASSUME NEW names, NEW keys, NEW pubs, NEW ips,
         NEW st \in States(names, keys, pubs, ips), NEW line \in Lines(names, keys, pubs, ips)
  PROVE  /\ Scan(st, line) \in States(names, keys, pubs, ips)
         /\ Scans(st, line, Scan(st, line))
<1> DEFINE P == PeersOf(names, pubs, ips)
           R == [sec : Header \cup {None}, user : names \cup {None}, key : keys \cup {None},
                 peers : Seq(P)]
           new == Scan(st, line)
<1>1. st \in R /\ (st.sec = "peer" => st.peers # <<>>)
  BY DEF States
<1>2. /\ line.kind \in {"user", "key", "pub", "ips", "other"} \cup Header
      /\ line.kind = "user" => line.val \in names
      /\ line.kind = "key" => line.val \in keys \cup {None}
      /\ line.kind = "pub" => line.val \in pubs \cup {None}
      /\ line.kind = "ips" => line.val \in ips \cup {None}
  BY DEF Lines, Header
<1>3. /\ st.peers \in Seq(P) /\ Len(st.peers) \in Nat /\ st.user \in names \cup {None}
      /\ DOMAIN st.peers = 1..Len(st.peers)
  <2>1. st.peers \in Seq(P) /\ st.user \in names \cup {None}
    BY <1>1
  <2> HIDE DEF P
  <2> QED  BY <2>1, LenProperties
<1>4. new \in R => (new \in States(names, keys, pubs, ips) <=> (new.sec = "peer" => new.peers # <<>>))
  BY DEF States
<1>5. CASE line.kind = "user"
  <2>1. new = [st EXCEPT !.user = line.val]
    BY <1>5 DEF Scan, Header, PeerKey
  <2> HIDE DEF new, P
  <2>2. /\ new \in R /\ new.user = line.val /\ new.sec = st.sec /\ new.key = st.key
        /\ new.peers = st.peers
    BY <1>1, <1>2, <1>5, <2>1
  <2> QED  BY <1>1, <1>3, <1>4, <1>5, <2>2 DEF Scans, Header, PeerKey, new
<1>6. CASE line.kind = "peer"
  <2>1. new = [st EXCEPT !.sec = "peer", !.user = None,
                         !.peers = Append(st.peers, NewPeer(st.user))]
    BY <1>6 DEF Scan, Header, PeerKey
  <2>2. NewPeer(st.user) \in P
    BY <1>3 DEF NewPeer, PeersOf
  <2> HIDE DEF new, P
  <2>3. Append(st.peers, NewPeer(st.user)) \in Seq(P)
    BY <1>3, <2>2
  <2>4. /\ new \in R /\ new.user = None /\ new.sec = "peer" /\ new.key = st.key
        /\ new.peers = Append(st.peers, NewPeer(st.user))
    BY <1>1, <2>1, <2>3 DEF Header
  <2>5. /\ Len(new.peers) = Len(st.peers) + 1
        /\ new.peers[Len(st.peers) + 1] = NewPeer(st.user)
        /\ \A n \in 1..Len(st.peers) : new.peers[n] = st.peers[n]
        /\ new.peers # <<>>
    BY <1>3, <2>2, <2>4, AppendProperties
  <2> QED  BY <1>4, <1>6, <2>4, <2>5 DEF Scans, Header, PeerKey, new
<1>7. CASE line.kind \in Header \ {"peer"}
  <2>1. new = [st EXCEPT !.sec = line.kind]
    BY <1>7 DEF Scan, Header, PeerKey
  <2> HIDE DEF new, P
  <2>2. /\ new \in R /\ new.user = st.user /\ new.sec = line.kind /\ new.key = st.key
        /\ new.peers = st.peers
    BY <1>1, <1>7, <2>1 DEF Header
  <2> QED  BY <1>1, <1>3, <1>4, <1>7, <2>2 DEF Scans, Header, PeerKey, new
<1>8. CASE line.kind = "key" /\ st.sec = "interface"
  <2>1. new = [st EXCEPT !.key = line.val]
    BY <1>8 DEF Scan, Header
  <2> HIDE DEF new, P
  <2>2. /\ new \in R /\ new.user = st.user /\ new.sec = st.sec /\ new.key = line.val
        /\ new.peers = st.peers
    BY <1>1, <1>2, <1>8, <2>1
  <2> QED  BY <1>1, <1>3, <1>4, <1>8, <2>2 DEF Scans, Header, PeerKey, new
<1>9. CASE line.kind \in PeerKey /\ st.sec = "peer"
  <2> DEFINE n == Len(st.peers)
             e == [st.peers[n] EXCEPT ![line.kind] = line.val]
  <2>1. new = [st EXCEPT !.peers = [st.peers EXCEPT ![n] = e]]
    BY <1>9 DEF Scan, Header, PeerKey
  <2>2. n \in 1..Len(st.peers)
    BY <1>1, <1>3, <1>9
  <2>3. st.peers[n] \in P
    <3> HIDE DEF P, n
    <3> QED  BY <1>3, <2>2, ElementOfSeq
  <2>4. e \in P
    BY <1>2, <1>9, <2>3 DEF PeersOf, PeerKey
  <2> HIDE DEF new, P, e, n
  <2>5. /\ [st.peers EXCEPT ![n] = e] \in Seq(P) /\ Len([st.peers EXCEPT ![n] = e]) = Len(st.peers)
        /\ \A k \in 1..Len(st.peers) :
             [st.peers EXCEPT ![n] = e][k] = IF k = n THEN e ELSE st.peers[k]
    BY <1>3, <2>2, <2>4, ExceptSeq
  <2>6. /\ new \in R /\ new.user = st.user /\ new.sec = st.sec /\ new.key = st.key
        /\ new.peers = [st.peers EXCEPT ![n] = e]
    BY <1>1, <2>1, <2>5
  <2>7. /\ Len(new.peers) = Len(st.peers) /\ new.peers # <<>>
        /\ \A k \in 1..Len(st.peers) : new.peers[k] = IF k = Len(st.peers) THEN e ELSE st.peers[k]
    BY <1>3, <2>2, <2>5, <2>6 DEF n
  <2>8. line.kind \in PeerKey /\ line.kind \notin Header \cup {"user", "key"}
    BY <1>9 DEF PeerKey, Header
  <2>9. /\ line.kind # "user" /\ line.kind # "peer" /\ line.kind # "key"
    BY <2>8 DEF Header
  <2>10. \A k \in 1..Len(st.peers) : k = Len(st.peers) => e = [st.peers[k] EXCEPT ![line.kind] = line.val]
    BY DEF e, n
  <2> QED  BY <1>4, <1>9, <2>6, <2>7, <2>8, <2>9, <2>10 DEF Scans, new
<1>10. CASE /\ line.kind \notin Header \cup {"user"}
            /\ ~(line.kind = "key" /\ st.sec = "interface")
            /\ ~(line.kind \in PeerKey /\ st.sec = "peer")
  <2>1. new = st
    BY <1>10 DEF Scan, Header, PeerKey
  <2> HIDE DEF new
  <2> QED  BY <1>1, <1>3, <1>4, <1>10, <2>1 DEF Scans, Header, new
<1> QED  BY <1>2, <1>5, <1>6, <1>7, <1>8, <1>9, <1>10 DEF Header

-----------------------------------------------------------------------------
(* What one more line does to what a file says.                             *)

\* The greatest member of a set of numbers is the only one.
LEMMA LastOne ==
  ASSUME NEW S \in SUBSET Int, NEW k \in S, \A j \in S : j <= k
  PROVE  Max(S) = k
<1>1. \A i \in S : k >= i
  OBVIOUS
<1>2. ASSUME NEW i \in S, \A j \in S : i >= j PROVE i = k
  <2>1. i \in Int /\ k \in Int /\ i <= k /\ i >= k
    BY <1>2
  <2> QED  BY <2>1
<1> QED  BY <1>1, <1>2 DEF Max

\* The least member of a set of numbers is the least of a set with a greater one, too.
LEMMA FirstOne ==
  ASSUME NEW S \in SUBSET Nat, S # {}, NEW n \in Nat, \A j \in S : j <= n,
         NEW T, T = S \cup {n + 1}
  PROVE  Min(T) = Min(S)
<1>1. PICK k \in S : \A j \in S : k <= j
  BY Least
<1>2. \A i \in S : (\A j \in S : i <= j) => i = k
  <2>1. ASSUME NEW i \in S, \A j \in S : i <= j PROVE i = k
    <3>1. i \in Nat /\ k \in Nat /\ i <= k /\ k <= i
      BY <1>1, <2>1
    <3> QED  BY <3>1
  <2> QED  BY <2>1
<1>3. k <= n /\ k \in Nat
  OBVIOUS
<1>4. k \in T /\ \A j \in T : k <= j
  BY <1>1, <1>3
<1>5. \A i \in T : (\A j \in T : i <= j) => i = k
  <2>1. ASSUME NEW i \in T, \A j \in T : i <= j PROVE i = k
    <3>1. i <= k /\ i \in Nat
      BY <1>4, <2>1
    <3>2. i \in S
      BY <1>3, <3>1
    <3> QED  BY <1>2, <2>1, <3>2
  <2> QED  BY <2>1
<1>6. Min(S) = k
  BY <1>1, <1>2 DEF Min
<1>7. Min(T) = k
  BY <1>4, <1>5 DEF Min
<1> QED  BY <1>6, <1>7

\* One more line is the last of its kind.
LEMMA LastValNext ==
  ASSUME NEW text, NEW from \in Nat, NEW n \in Nat, NEW kind
  PROVE  LastVal(text, from, n + 1, kind) =
           IF from <= n + 1 /\ text[n + 1].kind = kind THEN text[n + 1].val
           ELSE LastVal(text, from, n, kind)
<1> DEFINE at == {i \in from..n : text[i].kind = kind}
           more == {i \in from..(n + 1) : text[i].kind = kind}
           Val(S) == IF S = {} THEN None ELSE text[Max(S)].val
<1>1. LastVal(text, from, n, kind) = Val(at) /\ LastVal(text, from, n + 1, kind) = Val(more)
  BY DEF LastVal
<1>2. CASE from <= n + 1 /\ text[n + 1].kind = kind
  <2>1. more \in SUBSET Int /\ n + 1 \in more /\ \A j \in more : j <= n + 1
    BY <1>2
  <2> HIDE DEF more
  <2>2. Max(more) = n + 1
    BY <2>1, LastOne
  <2>3. more # {}
    BY <2>1
  <2>4. LastVal(text, from, n + 1, kind) = text[n + 1].val
    BY <1>1, <2>2, <2>3
  <2> QED  BY <1>2, <2>4
<1>3. CASE ~(from <= n + 1 /\ text[n + 1].kind = kind)
  <2>1. ASSUME NEW i \in more PROVE i \in at
    <3>1. i # n + 1
      BY <1>3
    <3> QED  BY <3>1
  <2>2. at \subseteq more
    OBVIOUS
  <2>3. more = at
    BY <2>1, <2>2
  <2> HIDE DEF more, at, Val
  <2> QED  BY <1>1, <1>3, <2>3
<1> QED  BY <1>2, <1>3

\* No line is the last of its kind where there are none.
LEMMA LastValNone ==
  ASSUME NEW text, NEW n \in Nat, NEW kind PROVE LastVal(text, n + 1, n, kind) = None
<1>1. (n + 1)..n = {}
  OBVIOUS
<1> QED  BY <1>1 DEF LastVal

\* A [Peer] header becomes the previous one of every line after it.
LEMMA PrevPeerNext ==
  ASSUME NEW text, NEW n \in Nat
  PROVE  /\ PrevPeer(text, n + 1) \in Nat /\ PrevPeer(text, n + 1) <= n
         /\ PrevPeer(text, n + 2) = IF text[n + 1].kind = "peer" THEN n + 1
                                    ELSE PrevPeer(text, n + 1)
<1> DEFINE at == {i \in 1..n : text[i].kind = "peer"}
           more == {i \in 1..(n + 1) : text[i].kind = "peer"}
           Top(S) == IF S = {} THEN 0 ELSE Max(S)
<1>1. PrevPeer(text, n + 1) = Top(at) /\ PrevPeer(text, n + 2) = Top(more)
  <2>1. (n + 1) - 1 = n /\ (n + 2) - 1 = n + 1
    OBVIOUS
  <2>2. PrevPeer(text, n + 1) = Top({i \in 1..((n + 1) - 1) : text[i].kind = "peer"})
    BY DEF PrevPeer
  <2>3. PrevPeer(text, n + 2) = Top({i \in 1..((n + 2) - 1) : text[i].kind = "peer"})
    BY DEF PrevPeer
  <2> HIDE DEF Top
  <2> QED  BY <2>1, <2>2, <2>3
<1>2. PrevPeer(text, n + 1) \in Nat /\ PrevPeer(text, n + 1) <= n
  <2>1. CASE at = {}
    BY <1>1, <2>1
  <2>2. CASE at # {}
    <3>1. at \in SUBSET (1..n) /\ at \in SUBSET Int
      OBVIOUS
    <3> HIDE DEF at
    <3>2. Max(at) \in at /\ \A j \in at : j <= Max(at)
      BY <2>2, <3>1, Greatest
    <3>3. PrevPeer(text, n + 1) = Max(at)
      BY <1>1, <2>2, <3>1, <3>2, LastOne
    <3>4. Max(at) \in 1..n
      BY <3>1, <3>2
    <3> QED  BY <3>3, <3>4
  <2> QED  BY <2>1, <2>2
<1>3. CASE text[n + 1].kind = "peer"
  <2>1. more \in SUBSET Int /\ n + 1 \in more /\ \A j \in more : j <= n + 1
    BY <1>3
  <2> HIDE DEF more, at
  <2>2. Max(more) = n + 1
    BY <2>1, LastOne
  <2>3. PrevPeer(text, n + 2) = n + 1
    BY <1>1, <2>1, <2>2
  <2> QED  BY <1>2, <1>3, <2>3
<1>4. CASE text[n + 1].kind # "peer"
  <2>1. more = at
    <3>1. 1..(n + 1) = 1..n \cup {n + 1}
      OBVIOUS
    <3> QED  BY <1>4, <3>1
  <2> HIDE DEF more, at
  <2> QED  BY <1>1, <1>2, <1>4, <2>1
<1> QED  BY <1>3, <1>4

\* Of the peers up to a line.
LEMMA NumberNext ==
  ASSUME NEW text, NEW n \in Nat
  PROVE  /\ Number(text, 0) = 0 /\ Number(text, n) \in Nat
         /\ Number(text, n + 1) = IF text[n + 1].kind = "peer" THEN Number(text, n) + 1
                                  ELSE Number(text, n)
<1> DEFINE at == {i \in 1..n : text[i].kind = "peer"}
           more == {i \in 1..(n + 1) : text[i].kind = "peer"}
<1>1. {i \in 1..0 : text[i].kind = "peer"} = {}
  OBVIOUS
<1>2. Number(text, 0) = 0
  BY <1>1, FS_EmptySet DEF Number
<1>3. IsFiniteSet(at) /\ Cardinality(at) \in Nat /\ n + 1 \notin at
  <2>1. at \subseteq 1..n /\ IsFiniteSet(1..n)
    BY FS_Interval
  <2>2. n + 1 \notin 1..n
    OBVIOUS
  <2> HIDE DEF at
  <2> QED  BY <2>1, <2>2, FS_Subset, FS_CardinalityType
<1>4. more = IF text[n + 1].kind = "peer" THEN at \cup {n + 1} ELSE at
  <2>1. 1..(n + 1) = 1..n \cup {n + 1}
    OBVIOUS
  <2> QED  BY <2>1
<1>5. Number(text, n) = Cardinality(at) /\ Number(text, n + 1) = Cardinality(more)
  BY DEF Number
<1> HIDE DEF at, more
<1>6. Cardinality(at \cup {n + 1}) = Cardinality(at) + 1
  BY <1>3, FS_AddElement
<1> QED  BY <1>2, <1>3, <1>4, <1>5, <1>6

\* Later peers have greater numbers.
LEMMA NumberGrows ==
  ASSUME NEW text, NEW n \in Nat, NEW h \in 1..n, text[h].kind = "peer"
  PROVE  /\ Number(text, h) \in 1..Number(text, n)
         /\ \A k \in 1..n : k < h => Number(text, k) < Number(text, h)
<1> DEFINE N(k) == {i \in 1..k : text[i].kind = "peer"}
<1>1. ASSUME NEW k \in Nat PROVE IsFiniteSet(N(k)) /\ Number(text, k) = Cardinality(N(k))
  <2>1. N(k) \subseteq 1..k /\ IsFiniteSet(1..k)
    BY FS_Interval
  <2> QED  BY <2>1, FS_Subset DEF Number
<1>2. h \in Nat /\ h \in N(h) /\ N(h) \subseteq N(n)
  OBVIOUS
<1>3. ASSUME NEW k \in 1..n, k < h PROVE k \in Nat /\ N(k) \subseteq N(h) \ {h}
  BY <1>3
<1> HIDE DEF N
<1>4. Number(text, h) <= Number(text, n) /\ Number(text, h) \in Nat /\ Number(text, n) \in Nat
  BY <1>1, <1>2, FS_Subset, FS_CardinalityType
<1>5. IsFiniteSet(N(h) \ {h}) /\ Cardinality(N(h) \ {h}) = Number(text, h) - 1
      /\ Cardinality(N(h) \ {h}) \in Nat
  BY <1>1, <1>2, FS_RemoveElement, FS_CardinalityType
<1>6. ASSUME NEW k \in 1..n, k < h PROVE Number(text, k) < Number(text, h)
  <2>1. Cardinality(N(k)) <= Cardinality(N(h) \ {h}) /\ Number(text, k) = Cardinality(N(k))
    BY <1>1, <1>3, <1>5, <1>6, FS_Subset
  <2>2. Cardinality(N(k)) \in Nat
    BY <1>1, <1>3, <1>6, FS_CardinalityType
  <2> QED  BY <1>4, <1>5, <2>1, <2>2
<1> QED  BY <1>4, <1>5, <1>6

\* Where the section of header h ends among the first n lines, and what these
\* lines say of its peer.
EndTo(text, h, n) ==
  LET next == {i \in (h + 1)..n : text[i].kind \in Header}
  IN  IF next = {} THEN n ELSE Min(next) - 1

PeerTo(text, h, n) ==
  [name |-> LastVal(text, PrevPeer(text, h) + 1, h - 1, "user"),
   pub  |-> LastVal(text, h + 1, EndTo(text, h, n), "pub"),
   ips  |-> LastVal(text, h + 1, EndTo(text, h, n), "ips")]

Open(text, h, n) == \A i \in (h + 1)..n : text[i].kind \notin Header

\* A section goes on to the next header.
LEMMA EndToNext ==
  ASSUME NEW text, NEW n \in Nat, NEW h \in 1..n
  PROVE  /\ Open(text, h, n) => EndTo(text, h, n) = n
         /\ Open(text, h, n + 1) <=> Open(text, h, n) /\ text[n + 1].kind \notin Header
         /\ EndTo(text, h, n + 1) = IF Open(text, h, n + 1) THEN n + 1 ELSE EndTo(text, h, n)
<1> DEFINE at == {i \in (h + 1)..n : text[i].kind \in Header}
           more == {i \in (h + 1)..(n + 1) : text[i].kind \in Header}
           Ends(S, k) == IF S = {} THEN k ELSE Min(S) - 1
<1>1. EndTo(text, h, n) = Ends(at, n) /\ EndTo(text, h, n + 1) = Ends(more, n + 1)
  BY DEF EndTo
<1>2. h + 1 \in Nat /\ (h + 1)..(n + 1) = (h + 1)..n \cup {n + 1}
  OBVIOUS
<1>3. (Open(text, h, n) <=> at = {}) /\ (Open(text, h, n + 1) <=> more = {})
  BY DEF Open
<1>4. more = IF text[n + 1].kind \in Header THEN at \cup {n + 1} ELSE at
  BY <1>2
<1>5. at \in SUBSET Nat /\ \A j \in at : j <= n
  OBVIOUS
<1> HIDE DEF at, more
<1>6. CASE text[n + 1].kind \notin Header
  <2>1. at = more
    BY <1>4, <1>6
  <2> QED  BY <1>1, <1>3, <1>6, <2>1
<1>7. CASE text[n + 1].kind \in Header /\ at = {}
  <2>1. more = {n + 1}
    BY <1>4, <1>7
  <2>2. Min(more) = n + 1
    BY <2>1 DEF Min
  <2> QED  BY <1>1, <1>3, <1>7, <2>1, <2>2
<1>8. CASE text[n + 1].kind \in Header /\ at # {}
  <2>1. more = at \cup {n + 1} /\ more # {}
    BY <1>4, <1>8
  <2>2. Min(more) = Min(at)
    BY <1>5, <1>8, <2>1, FirstOne
  <2>3. Ends(more, n + 1) = Ends(at, n)
    BY <1>8, <2>1, <2>2
  <2> HIDE DEF Ends
  <2> QED  BY <1>1, <1>3, <1>8, <2>1, <2>3
<1> QED  BY <1>6, <1>7, <1>8

\* A line changes what is said of the peer whose section it is in, and only if
\* it sets one of its keys.
LEMMA PeerToNext ==
  ASSUME NEW text, NEW n \in Nat, NEW h \in 1..n
  PROVE  PeerTo(text, h, n + 1) =
           IF Open(text, h, n) /\ text[n + 1].kind \in PeerKey
           THEN [PeerTo(text, h, n) EXCEPT ![text[n + 1].kind] = text[n + 1].val]
           ELSE PeerTo(text, h, n)
<1> DEFINE line == text[n + 1]
           name == LastVal(text, PrevPeer(text, h) + 1, h - 1, "user")
           Val(m, kind) == LastVal(text, h + 1, m, kind)
           Told(m) == [name |-> name, pub |-> Val(m, "pub"), ips |-> Val(m, "ips")]
<1>1. \A m : PeerTo(text, h, m) = Told(EndTo(text, h, m))
  BY DEF PeerTo
<1>2. CASE Open(text, h, n) /\ line.kind \notin Header
  <2>1. EndTo(text, h, n) = n /\ EndTo(text, h, n + 1) = n + 1
    BY <1>2, EndToNext
  <2>2. h + 1 \in Nat /\ h + 1 <= n + 1
    OBVIOUS
  <2>3. \A kind : Val(n + 1, kind) = IF line.kind = kind THEN line.val ELSE Val(n, kind)
    BY <2>2, LastValNext
  <2> HIDE DEF Val, line, name
  <2>4. Told(n + 1) = IF line.kind \in PeerKey THEN [Told(n) EXCEPT ![line.kind] = line.val]
                      ELSE Told(n)
    BY <2>3 DEF PeerKey
  <2> HIDE DEF Told
  <2> QED  BY <1>1, <1>2, <2>1, <2>4 DEF line
<1>3. CASE ~Open(text, h, n) \/ line.kind \in Header
  <2>1. ~Open(text, h, n + 1)
    BY <1>3, EndToNext
  <2>2. EndTo(text, h, n + 1) = EndTo(text, h, n)
    BY <2>1, EndToNext
  <2>3. ~(Open(text, h, n) /\ line.kind \in PeerKey)
    BY <1>3 DEF Header, PeerKey
  <2> HIDE DEF Told
  <2> QED  BY <1>1, <2>2, <2>3
<1> QED  BY <1>2, <1>3

\* A new peer is called what the last comment since the peer before says.
LEMMA PeerToNew ==
  ASSUME NEW text, NEW n \in Nat
  PROVE  /\ PeerTo(text, n + 1, n + 1) =
              NewPeer(LastVal(text, PrevPeer(text, n + 1) + 1, n, "user"))
         /\ Open(text, n + 1, n + 1)
<1>1. (n + 1) - 1 = n /\ ((n + 1) + 1)..(n + 1) = {} /\ n + 1 \in Nat
  OBVIOUS
<1>2. Open(text, n + 1, n + 1)
  BY <1>1 DEF Open
<1>3. EndTo(text, n + 1, n + 1) = n + 1
  <2>1. {i \in ((n + 1) + 1)..(n + 1) : text[i].kind \in Header} = {}
    BY <1>1
  <2> QED  BY <2>1 DEF EndTo
<1>4. \A kind : LastVal(text, (n + 1) + 1, n + 1, kind) = None
  BY <1>1, LastValNone
<1> QED  BY <1>1, <1>2, <1>3, <1>4 DEF PeerTo, NewPeer

-----------------------------------------------------------------------------
(* The parser reads what a file says.                                       *)

\* After n lines the state holds what these say.
Reads(text, st, n) ==
  /\ st.user = LastVal(text, PrevPeer(text, n + 1) + 1, n, "user")
  /\ Len(st.peers) = Number(text, n)
  /\ \A h \in 1..n : text[h].kind = "peer" => st.peers[Number(text, h)] = PeerTo(text, h, n)
  /\ \A h \in 1..n :
       text[h].kind = "peer" /\ Open(text, h, n) =>
         st.sec = "peer" /\ Number(text, h) = Number(text, n)
  /\ st.sec = "peer" => \E h \in 1..n : text[h].kind = "peer" /\ Open(text, h, n)

\* If the parser has read n lines as the file says, one line more keeps it so.
LEMMA ReadsNext ==
  ASSUME NEW text, NEW n \in Nat, NEW st, NEW new, Reads(text, st, n),
         Scans(st, text[n + 1], new)
  PROVE  Reads(text, new, n + 1)
<1> DEFINE line == text[n + 1]
<1>1. /\ Number(text, n) \in Nat
      /\ Number(text, n + 1) = IF line.kind = "peer" THEN Number(text, n) + 1
                               ELSE Number(text, n)
  BY NumberNext
<1>2. n + 1 \in Nat /\ (n + 1) + 1 = n + 2 /\ \A h \in 1..(n + 1) : h \in 1..n \/ h = n + 1
  OBVIOUS
<1>3. new.user = LastVal(text, PrevPeer(text, (n + 1) + 1) + 1, n + 1, "user")
  <2>1. /\ PrevPeer(text, n + 1) \in Nat /\ PrevPeer(text, n + 1) + 1 <= n + 1
        /\ PrevPeer(text, n + 1) + 1 \in Nat
        /\ PrevPeer(text, n + 2) = IF line.kind = "peer" THEN n + 1 ELSE PrevPeer(text, n + 1)
    <3>1. PrevPeer(text, n + 1) \in Nat /\ PrevPeer(text, n + 1) <= n
      BY PrevPeerNext
    <3>2. PrevPeer(text, n + 2) = IF line.kind = "peer" THEN n + 1 ELSE PrevPeer(text, n + 1)
      BY PrevPeerNext
    <3> QED  BY <3>1, <3>2
  <2>2. CASE line.kind = "peer"
    <3>1. new.user = None /\ PrevPeer(text, n + 2) + 1 = n + 2
      BY <2>1, <2>2 DEF Scans
    <3>2. LastVal(text, (n + 1) + 1, n + 1, "user") = None
      BY <1>2, LastValNone
    <3> QED  BY <1>2, <3>1, <3>2
  <2>3. CASE line.kind # "peer"
    <3>1. LastVal(text, PrevPeer(text, n + 1) + 1, n + 1, "user") =
            IF line.kind = "user" THEN line.val
            ELSE LastVal(text, PrevPeer(text, n + 1) + 1, n, "user")
      BY <2>1, LastValNext
    <3> QED  BY <1>2, <2>1, <2>3, <3>1 DEF Reads, Scans
  <2> QED  BY <2>2, <2>3
<1>4. Len(new.peers) = Number(text, n + 1)
  BY <1>1 DEF Reads, Scans
<1>5. ASSUME NEW h \in 1..(n + 1), text[h].kind = "peer"
      PROVE  new.peers[Number(text, h)] = PeerTo(text, h, n + 1)
  <2>1. CASE h = n + 1
    <3>1. new.peers[Number(text, n) + 1] = NewPeer(st.user)
      BY <1>5, <2>1 DEF Reads, Scans
    <3>2. PeerTo(text, n + 1, n + 1) = NewPeer(st.user)
      BY PeerToNew DEF Reads
    <3> QED  BY <1>1, <1>5, <2>1, <3>1, <3>2
  <2>2. CASE h \in 1..n
    <3> DEFINE k == Number(text, h)
    <3>1. k \in 1..Number(text, n) /\ st.peers[k] = PeerTo(text, h, n)
      BY <1>5, <2>2, NumberGrows DEF Reads
    <3>2. (st.sec = "peer" /\ k = Number(text, n)) <=> Open(text, h, n)
      <4>1. Open(text, h, n) => st.sec = "peer" /\ k = Number(text, n)
        BY <1>5, <2>2 DEF Reads
      <4>2. ASSUME st.sec = "peer", k = Number(text, n) PROVE Open(text, h, n)
        <5>1. PICK g \in 1..n : text[g].kind = "peer" /\ Open(text, g, n)
          BY <4>2 DEF Reads
        <5>2. Number(text, g) = Number(text, n)
          BY <5>1 DEF Reads
        <5>3. ~(h < g)
          BY <1>1, <2>2, <4>2, <5>1, <5>2, NumberGrows
        <5>4. ~(g < h)
          <6>1. g < h => h \in (g + 1)..n
            BY <2>2
          <6> QED  BY <1>5, <5>1, <6>1 DEF Open, Header
        <5>5. g = h
          BY <2>2, <5>3, <5>4
        <5> QED  BY <5>1, <5>5
      <4> QED  BY <4>1, <4>2
    <3>3. new.peers[k] = IF line.kind \in PeerKey /\ Open(text, h, n)
                         THEN [st.peers[k] EXCEPT ![line.kind] = line.val] ELSE st.peers[k]
      <4>1. k \in 1..Len(st.peers) /\ Len(st.peers) = Number(text, n)
        BY <3>1 DEF Reads
      <4>2. new.peers[k] = IF line.kind \in PeerKey /\ st.sec = "peer" /\ k = Len(st.peers)
                           THEN [st.peers[k] EXCEPT ![line.kind] = line.val] ELSE st.peers[k]
        BY <4>1 DEF Scans
      <4> QED  BY <3>2, <4>1, <4>2
    <3>4. PeerTo(text, h, n + 1) = IF Open(text, h, n) /\ line.kind \in PeerKey
                                   THEN [PeerTo(text, h, n) EXCEPT ![line.kind] = line.val]
                                   ELSE PeerTo(text, h, n)
      BY <2>2, PeerToNext
    <3> QED  BY <3>1, <3>3, <3>4
  <2> QED  BY <1>2, <2>1, <2>2
<1>6. ASSUME NEW h \in 1..(n + 1), text[h].kind = "peer", Open(text, h, n + 1)
      PROVE  new.sec = "peer" /\ Number(text, h) = Number(text, n + 1)
  <2>1. CASE h = n + 1
    BY <1>6, <2>1 DEF Scans, Header
  <2>2. CASE h \in 1..n
    <3>1. Open(text, h, n) /\ line.kind \notin Header
      BY <1>6, <2>2, EndToNext
    <3>2. st.sec = "peer" /\ Number(text, h) = Number(text, n)
      BY <1>6, <2>2, <3>1 DEF Reads
    <3> QED  BY <1>1, <3>1, <3>2 DEF Scans, Header
  <2> QED  BY <1>2, <2>1, <2>2
<1>7. ASSUME new.sec = "peer"
      PROVE  \E h \in 1..(n + 1) : text[h].kind = "peer" /\ Open(text, h, n + 1)
  <2>1. CASE line.kind \in Header
    <3>1. line.kind = "peer"
      BY <1>7, <2>1 DEF Scans
    <3>2. Open(text, n + 1, n + 1) /\ n + 1 \in 1..(n + 1)
      BY PeerToNew
    <3> QED  BY <3>1, <3>2
  <2>2. CASE line.kind \notin Header
    <3>1. st.sec = "peer"
      BY <1>7, <2>2 DEF Scans
    <3>2. PICK h \in 1..n : text[h].kind = "peer" /\ Open(text, h, n)
      BY <3>1 DEF Reads
    <3>3. Open(text, h, n + 1) /\ h \in 1..(n + 1)
      BY <2>2, <3>2, EndToNext
    <3> QED  BY <3>2, <3>3
  <2> QED  BY <2>1, <2>2
<1> QED  BY <1>3, <1>4, <1>5, <1>6, <1>7 DEF Reads

(***************************************************************************)
(* ParseWGQuickConfig reads of the peers of any file what the file says,   *)
(* and the values it returns are the file's.                               *)
(***************************************************************************)
THEOREM ParserReads ==
  ASSUME NEW names, NEW keys, NEW pubs, NEW ips, NEW text \in Seq(Lines(names, keys, pubs, ips))
  PROVE  /\ Scanned(text) \in States(names, keys, pubs, ips)
         /\ Says(text, ParsedPeers(text))
<1> DEFINE L == Lines(names, keys, pubs, ips)
           S == States(names, keys, pubs, ips)
<1>1. PICK f : /\ f[0] = Blank /\ Scanned(text) = f[Len(text)]
               /\ \A n \in Nat : n < Len(text) => f[n + 1] = Scan(f[n], text[n + 1])
  <2> HIDE DEF L
  <2> QED  BY ScannedByLine DEF L
<1>2. Len(text) \in Nat /\ DOMAIN text = 1..Len(text) /\ \A n \in 1..Len(text) : text[n] \in L
  <2> HIDE DEF L
  <2> QED  BY LenProperties, ElementOfSeq DEF L
<1> DEFINE N == {n \in Nat : n <= Len(text) => f[n] \in S /\ Reads(text, f[n], n)}
<1>3. 0 \in N
  <2>1. Blank \in S
    BY WgQuickAssumption DEF Blank, States, Header
  <2>2. Blank.user = None /\ Blank.sec = None /\ Blank.peers = <<>>
    BY DEF Blank
  <2>3. PrevPeer(text, 0 + 1) = 0
    <3>1. {i \in 1..((0 + 1) - 1) : text[i].kind = "peer"} = {}
      OBVIOUS
    <3> QED  BY <3>1 DEF PrevPeer
  <2>4. LastVal(text, 0 + 1, 0, "user") = None
    BY LastValNone
  <2>5. Number(text, 0) = 0
    BY NumberNext
  <2>6. Reads(text, Blank, 0)
    BY <2>2, <2>3, <2>4, <2>5, WgQuickAssumption DEF Reads, Header
  <2> HIDE DEF S
  <2> QED  BY <1>1, <2>1, <2>6
<1>4. ASSUME NEW n \in Nat, n \in N PROVE n + 1 \in N
  <2> SUFFICES ASSUME n + 1 <= Len(text) PROVE f[n + 1] \in S /\ Reads(text, f[n + 1], n + 1)
    OBVIOUS
  <2>1. n <= Len(text) /\ n < Len(text) /\ n + 1 \in 1..Len(text)
    BY <1>2
  <2>2. f[n] \in S /\ Reads(text, f[n], n)
    BY <1>4, <2>1
  <2>3. f[n + 1] = Scan(f[n], text[n + 1]) /\ text[n + 1] \in L
    BY <1>1, <1>2, <2>1
  <2>4. f[n + 1] \in S /\ Scans(f[n], text[n + 1], f[n + 1])
    BY <2>2, <2>3, ScanEffect
  <2> QED  BY <2>2, <2>4, ReadsNext
<1>5. Len(text) \in N
  <2> HIDE DEF N
  <2> QED  BY <1>2, <1>3, <1>4, NatInd
<1>6. Scanned(text) \in S /\ Reads(text, Scanned(text), Len(text))
  BY <1>1, <1>2, <1>5
<1>7. \A h : PeerAt(text, h) = PeerTo(text, h, Len(text))
  BY DEF PeerAt, PeerTo, SectionEnd, EndTo
<1> HIDE DEF S
<1>8. Says(text, ParsedPeers(text))
  BY <1>2, <1>6, <1>7 DEF Reads, Says, ParsedPeers
<1> QED  BY <1>6, <1>8 DEF S

-----------------------------------------------------------------------------
(* What WriteWireGuardConfig writes, the parser reads.                      *)

\* A user, and users, of these names, keys and addresses, and what a file says.
Written(u, names, pubs, ips) == u.name \in names /\ u.pub \in pubs /\ u.ips \in ips

Storable(us, names, pubs, ips) ==
  /\ Len(us) \in Nat /\ DOMAIN us = 1..Len(us)
  /\ \A i \in DOMAIN us : Written(us[i], names, pubs, ips)

PeerOf(u) == [name |-> u.name, pub |-> u.pub, ips |-> u.ips]

\* A user is written as these five lines.
LEMMA RenderedPeerLines ==
  ASSUME NEW names, NEW keys, NEW pubs, NEW ips, NEW u, Written(u, names, pubs, ips)
  PROVE  /\ RenderedPeer(u) \in Seq(Lines(names, keys, pubs, ips)) /\ Len(RenderedPeer(u)) = 5
         /\ RenderedPeer(u)[1] = Line("user", u.name) /\ RenderedPeer(u)[2] = Line("peer", None)
         /\ RenderedPeer(u)[3] = Line("pub", u.pub) /\ RenderedPeer(u)[4] = Line("ips", u.ips)
         /\ RenderedPeer(u)[5] = Line("other", None)
<1> DEFINE L == Lines(names, keys, pubs, ips)
<1>1. /\ Line("user", u.name) \in L /\ Line("peer", None) \in L /\ Line("pub", u.pub) \in L
      /\ Line("ips", u.ips) \in L /\ Line("other", None) \in L
  BY DEF Written, Line, Lines, Header
<1> HIDE DEF L
<1> QED  BY <1>1 DEF RenderedPeer, L

\* Two sequences, one after the other.
LEMMA Joined ==
  ASSUME NEW L, NEW s \in Seq(L), NEW t \in Seq(L)
  PROVE  /\ s \o t \in Seq(L) /\ Len(s \o t) = Len(s) + Len(t)
         /\ \A p \in 1..Len(s) : (s \o t)[p] = s[p]
         /\ \A p \in 1..Len(t) : (s \o t)[Len(s) + p] = t[p]
<1>1. Len(s) \in Nat /\ Len(t) \in Nat
  BY LenProperties
<1>2. \A p \in 1..Len(t) : /\ Len(s) + p \in 1..(Len(s) + Len(t)) /\ Len(s) + p > Len(s)
                            /\ (Len(s) + p) - Len(s) = p
  BY <1>1
<1>3. /\ s \o t \in Seq(L) /\ Len(s \o t) = Len(s) + Len(t)
      /\ \A p \in 1..(Len(s) + Len(t)) : (s \o t)[p] = IF p <= Len(s) THEN s[p] ELSE t[p - Len(s)]
  BY ConcatProperties
<1> QED  BY <1>1, <1>2, <1>3

\* Blocks of five lines, one after the other.
LEMMA FlattenBlocks ==
  ASSUME NEW L, NEW m \in Nat, NEW seqs \in [1..m -> Seq(L)], \A i \in 1..m : Len(seqs[i]) = 5
  PROVE  /\ FlattenSeq(seqs) \in Seq(L) /\ Len(FlattenSeq(seqs)) = 5 * m
         /\ \A i \in 1..m, j \in 1..5 : FlattenSeq(seqs)[5 * (i - 1) + j] = seqs[i][j]
<1> DEFINE Flattens(f, n) == f = [i \in 1..n |-> IF i = 1 THEN seqs[i] ELSE f[i - 1] \o seqs[i]]
<1>1. Len(seqs) = m
  OBVIOUS
<1>2. CASE m = 0
  <2>1. FlattenSeq(seqs) = seqs /\ 1..m = {}
    BY <1>1, <1>2 DEF FlattenSeq
  <2>2. seqs \in Seq(L) /\ Len(seqs) = 5 * m
    BY <1>1, <1>2
  <2> QED  BY <2>1, <2>2
<1>3. CASE m # 0
  <2> DEFINE N == {n \in Nat : \E f : Flattens(f, n)}
  <2>1. 0 \in N
    <3> DEFINE f == [i \in 1..0 |-> 0]
    <3>1. Flattens(f, 0)
      OBVIOUS
    <3> QED  BY <3>1
  <2>2. ASSUME NEW n \in Nat, n \in N PROVE n + 1 \in N
    <3>1. PICK f : Flattens(f, n)
      BY <2>2
    <3> DEFINE g == [i \in 1..(n + 1) |-> IF i = 1 THEN seqs[i] ELSE f[i - 1] \o seqs[i]]
    <3>2. \A i \in 1..n : g[i] = f[i]
      <4>1. \A i \in 1..n : f[i] = IF i = 1 THEN seqs[i] ELSE f[i - 1] \o seqs[i]
        BY <3>1
      <4>2. \A i \in 1..n : i \in 1..(n + 1)
        OBVIOUS
      <4> QED  BY <4>1, <4>2
    <3>3. \A i \in 1..(n + 1) : i # 1 => i - 1 \in 1..n
      OBVIOUS
    <3>4. \A i \in 1..(n + 1) : g[i] = IF i = 1 THEN seqs[i] ELSE g[i - 1] \o seqs[i]
      BY <3>2, <3>3
    <3>5. g = [i \in 1..(n + 1) |-> g[i]]
      OBVIOUS
    <3> HIDE DEF g
    <3>6. Flattens(g, n + 1)
      BY <3>4, <3>5
    <3> HIDE DEF Flattens
    <3> QED  BY <3>6
  <2>3. m \in N
    <3> HIDE DEF N
    <3> QED  BY <2>1, <2>2, NatInd
  <2> DEFINE f == CHOOSE f : Flattens(f, m)
  <2>4. Flattens(f, m)
    <3> HIDE DEF Flattens
    <3> QED  BY <2>3
  <2>5. FlattenSeq(seqs) = f[m]
    BY <1>1, <1>3 DEF FlattenSeq
  <2> HIDE DEF f, N
  <2>6. \A i \in 1..m : f[i] = IF i = 1 THEN seqs[i] ELSE f[i - 1] \o seqs[i]
    BY <2>4
  <2> DEFINE Holds(n) == /\ f[n] \in Seq(L) /\ Len(f[n]) = 5 * n
                         /\ \A i \in 1..n, j \in 1..5 : f[n][5 * (i - 1) + j] = seqs[i][j]
             K == {n \in Nat : n \in 1..m => Holds(n)}
  <2>7. ASSUME NEW n \in Nat, n \in K PROVE n + 1 \in K
    <3> SUFFICES ASSUME n + 1 \in 1..m PROVE Holds(n + 1)
      <4> HIDE DEF Holds
      <4> QED  OBVIOUS
    <3>1. seqs[n + 1] \in Seq(L) /\ Len(seqs[n + 1]) = 5
      OBVIOUS
    <3>2. CASE n = 0
      <4>1. f[1] = seqs[1]
        BY <2>6, <3>2
      <4> QED  BY <3>1, <3>2, <4>1
    <3>3. CASE n # 0
      <4>1. Holds(n)
        BY <2>7, <3>3
      <4>2. f[n + 1] = f[n] \o seqs[n + 1]
        <5>1. n + 1 # 1 /\ (n + 1) - 1 = n
          BY <3>3
        <5>2. f[n + 1] = IF n + 1 = 1 THEN seqs[n + 1] ELSE f[(n + 1) - 1] \o seqs[n + 1]
          BY <2>6
        <5> QED  BY <5>1, <5>2
      <4>3. /\ f[n + 1] \in Seq(L) /\ Len(f[n + 1]) = 5 * (n + 1)
            /\ \A p \in 1..(5 * n) : f[n + 1][p] = f[n][p]
            /\ \A j \in 1..5 : f[n + 1][5 * n + j] = seqs[n + 1][j]
        <5>1. /\ f[n] \in Seq(L) /\ Len(f[n]) = 5 * n /\ Len(f[n]) \in Nat
              /\ 5 * (n + 1) = 5 * n + 5
          BY <4>1
        <5>2. LET t == f[n] \o seqs[n + 1]
              IN  /\ t \in Seq(L) /\ Len(t) = Len(f[n]) + Len(seqs[n + 1])
                  /\ \A p \in 1..Len(f[n]) : t[p] = f[n][p]
                  /\ \A p \in 1..Len(seqs[n + 1]) : t[Len(f[n]) + p] = seqs[n + 1][p]
          <6> DEFINE s == f[n]
                     r == seqs[n + 1]
          <6>1. s \in Seq(L) /\ r \in Seq(L)
            BY <3>1, <5>1
          <6> HIDE DEF s, r
          <6>2. /\ s \o r \in Seq(L) /\ Len(s \o r) = Len(s) + Len(r)
                /\ \A p \in 1..Len(s) : (s \o r)[p] = s[p]
                /\ \A p \in 1..Len(r) : (s \o r)[Len(s) + p] = r[p]
            BY <6>1, Joined
          <6> QED  BY <6>2 DEF s, r
        <5> QED  BY <3>1, <4>2, <5>1, <5>2
      <4>4. ASSUME NEW i \in 1..(n + 1), NEW j \in 1..5
            PROVE  f[n + 1][5 * (i - 1) + j] = seqs[i][j]
        <5>1. CASE i = n + 1
          <6>1. 5 * (i - 1) + j = 5 * n + j
            BY <5>1
          <6> QED  BY <4>3, <5>1, <6>1
        <5>2. CASE i # n + 1
          <6>1. i \in 1..n /\ 5 * (i - 1) + j \in 1..(5 * n)
            BY <5>2
          <6> QED  BY <4>1, <4>3, <6>1
        <5> QED  BY <5>1, <5>2
      <4> QED  BY <4>3, <4>4
    <3> QED  BY <3>2, <3>3
  <2>8. 0 \in K
    OBVIOUS
  <2>9. m \in K /\ m \in 1..m
    <3> HIDE DEF K
    <3> QED  BY <1>3, <2>7, <2>8, NatInd
  <2>10. Holds(m)
    BY <2>9
  <2> QED  BY <2>5, <2>10
<1> QED  BY <1>2, <1>3

\* The lines of the file.
InBlocks(file, us) ==
  \A i \in 1..Len(us), j \in 1..5 : file[4 + 5 * (i - 1) + j] = RenderedPeer(us[i])[j]

\* The file is the server's four lines and then five for each user.
LEMMA RenderedLines ==
  ASSUME NEW names, NEW keys, NEW pubs, NEW ips, NEW key \in keys, NEW us,
         Storable(us, names, pubs, ips), NEW file, file = Rendered(key, us)
  PROVE  /\ file \in Seq(Lines(names, keys, pubs, ips)) /\ Len(file) = 4 + 5 * Len(us)
         /\ file[1] = Line("other", None) /\ file[2] = Line("interface", None)
         /\ file[3] = Line("key", key) /\ file[4] = Line("other", None)
         /\ InBlocks(file, us)
<1> DEFINE L == Lines(names, keys, pubs, ips)
           m == Len(us)
           seqs == [i \in DOMAIN us |-> RenderedPeer(us[i])]
           head == <<Line("other", None), Line("interface", None), Line("key", key),
                     Line("other", None)>>
<1>1. m \in Nat /\ DOMAIN us = 1..m /\ \A i \in 1..m : Written(us[i], names, pubs, ips)
  BY DEF Storable
<1>2. \A i \in 1..m : RenderedPeer(us[i]) \in Seq(L) /\ Len(RenderedPeer(us[i])) = 5
  BY <1>1, RenderedPeerLines
<1>3. /\ Line("other", None) \in L /\ Line("interface", None) \in L /\ Line("key", key) \in L
  BY DEF Line, Lines, Header
<1> HIDE DEF L
<1>4. /\ head \in Seq(L) /\ Len(head) = 4
      /\ head[1] = Line("other", None) /\ head[2] = Line("interface", None)
      /\ head[3] = Line("key", key) /\ head[4] = Line("other", None)
  BY <1>3
<1>5. seqs \in [1..m -> Seq(L)] /\ \A i \in 1..m : seqs[i] = RenderedPeer(us[i])
  BY <1>1, <1>2
<1>6. Rendered(key, us) = head \o FlattenSeq(seqs)
  BY DEF Rendered
<1> HIDE DEF head, seqs, m
<1>7. /\ FlattenSeq(seqs) \in Seq(L) /\ Len(FlattenSeq(seqs)) = 5 * m
      /\ \A i \in 1..m, j \in 1..5 : FlattenSeq(seqs)[5 * (i - 1) + j] = seqs[i][j]
  <2>1. \A i \in 1..m : Len(seqs[i]) = 5
    BY <1>2, <1>5
  <2>2. m \in Nat
    BY <1>1
  <2>3. seqs \in [1..m -> Seq(L)]
    BY <1>5
  <2> QED  BY <2>1, <2>2, <2>3, FlattenBlocks, Zenon
<1> DEFINE text == head \o FlattenSeq(seqs)
<1>8. /\ text \in Seq(L) /\ Len(text) = 4 + 5 * m
      /\ \A p \in 1..4 : text[p] = head[p]
      /\ \A p \in 1..(5 * m) : text[4 + p] = FlattenSeq(seqs)[p]
  <2>1. 5 * m \in Nat
    BY <1>1
  <2>2. /\ text \in Seq(L) /\ Len(text) = Len(head) + Len(FlattenSeq(seqs))
        /\ \A p \in 1..Len(head) : text[p] = head[p]
        /\ \A p \in 1..Len(FlattenSeq(seqs)) : text[Len(head) + p] = FlattenSeq(seqs)[p]
    <3> DEFINE t == FlattenSeq(seqs)
    <3>1. head \in Seq(L) /\ t \in Seq(L)
      BY <1>4, <1>7
    <3> HIDE DEF t
    <3>2. /\ head \o t \in Seq(L) /\ Len(head \o t) = Len(head) + Len(t)
          /\ \A p \in 1..Len(head) : (head \o t)[p] = head[p]
          /\ \A p \in 1..Len(t) : (head \o t)[Len(head) + p] = t[p]
      BY <3>1, Joined
    <3> QED  BY <3>2 DEF t
  <2> HIDE DEF text
  <2> QED  BY <1>4, <1>7, <2>1, <2>2
<1> HIDE DEF text
<1>9. ASSUME NEW i \in 1..m, NEW j \in 1..5
      PROVE  text[4 + 5 * (i - 1) + j] = RenderedPeer(us[i])[j]
  <2> DEFINE p == 5 * (i - 1) + j
  <2>1. p \in 1..(5 * m) /\ 4 + 5 * (i - 1) + j = 4 + p
    BY <1>1
  <2>2. FlattenSeq(seqs)[p] = seqs[i][j]
    BY <1>7
  <2> HIDE DEF p
  <2> QED  BY <1>5, <1>8, <2>1, <2>2
<1>10. file = text
  BY <1>6 DEF text
<1>11. /\ text[1] = Line("other", None) /\ text[2] = Line("interface", None)
       /\ text[3] = Line("key", key) /\ text[4] = Line("other", None)
  BY <1>4, <1>8
<1>12. InBlocks(text, us)
  BY <1>9 DEF InBlocks, m
<1> QED  BY <1>8, <1>10, <1>11, <1>12 DEF m, L

\* The five lines of a user make one more peer.
AfterBlock(st, u) ==
  Scan(Scan(Scan(Scan(Scan(st, Line("user", u.name)), Line("peer", None)), Line("pub", u.pub)),
            Line("ips", u.ips)), Line("other", None))

\* Reading a user's five lines adds that user's peer and changes nothing else.
LEMMA BlockScanned ==
  ASSUME NEW names, NEW keys, NEW pubs, NEW ips, NEW u, Written(u, names, pubs, ips),
         NEW s0 \in States(names, keys, pubs, ips), NEW new, new = AfterBlock(s0, u)
  PROVE  /\ new \in States(names, keys, pubs, ips) /\ new.key = s0.key
         /\ Len(s0.peers) \in Nat /\ Len(new.peers) = Len(s0.peers) + 1
         /\ new.peers[Len(s0.peers) + 1] = PeerOf(u)
         /\ \A n \in 1..Len(s0.peers) : new.peers[n] = s0.peers[n]
<1> DEFINE L == Lines(names, keys, pubs, ips)
           S == States(names, keys, pubs, ips)
           m == Len(s0.peers)
           s1 == Scan(s0, Line("user", u.name))
           s2 == Scan(s1, Line("peer", None))
           s3 == Scan(s2, Line("pub", u.pub))
           s4 == Scan(s3, Line("ips", u.ips))
           s5 == Scan(s4, Line("other", None))
<1>0. new = s5
  BY DEF AfterBlock
<1>1. /\ Line("user", u.name) \in L /\ Line("peer", None) \in L /\ Line("pub", u.pub) \in L
      /\ Line("ips", u.ips) \in L /\ Line("other", None) \in L
  BY DEF Written, Line, Lines, Header
<1>2. m \in Nat
  BY LenProperties DEF States
<1> HIDE DEF L, S
<1>3. s1 \in S /\ Scans(s0, Line("user", u.name), s1)
  BY <1>1, ScanEffect DEF L, S
<1>4. s2 \in S /\ Scans(s1, Line("peer", None), s2)
  BY <1>1, <1>3, ScanEffect DEF L, S
<1>5. s3 \in S /\ Scans(s2, Line("pub", u.pub), s3)
  BY <1>1, <1>4, ScanEffect DEF L, S
<1>6. s4 \in S /\ Scans(s3, Line("ips", u.ips), s4)
  BY <1>1, <1>5, ScanEffect DEF L, S
<1>7. s5 \in S /\ Scans(s4, Line("other", None), s5)
  BY <1>1, <1>6, ScanEffect DEF L, S
<1> HIDE DEF m, s1, s2, s3, s4, s5
<1>8. /\ s1.user = u.name /\ s1.key = s0.key /\ Len(s1.peers) = m
      /\ \A n \in 1..m : s1.peers[n] = s0.peers[n]
  BY <1>3 DEF Scans, Line, PeerKey, m
<1>9. /\ s2.sec = "peer" /\ s2.key = s0.key /\ Len(s2.peers) = m + 1
      /\ s2.peers[m + 1] = NewPeer(u.name) /\ \A n \in 1..m : s2.peers[n] = s0.peers[n]
  BY <1>4, <1>8 DEF Scans, Line, PeerKey, Header
<1>10. m + 1 \in 1..(m + 1) /\ \A n \in 1..m : n \in 1..(m + 1) /\ n # m + 1
  BY <1>2
<1>11. /\ s3.sec = "peer" /\ s3.key = s0.key /\ Len(s3.peers) = m + 1
       /\ s3.peers[m + 1] = [NewPeer(u.name) EXCEPT !["pub"] = u.pub]
       /\ \A n \in 1..m : s3.peers[n] = s0.peers[n]
  <2>1. Line("pub", u.pub).kind = "pub" /\ Line("pub", u.pub).val = u.pub
    BY DEF Line
  <2> QED  BY <1>5, <1>9, <1>10, <2>1 DEF Scans, PeerKey, Header
<1>12. /\ s4.key = s0.key /\ Len(s4.peers) = m + 1
       /\ s4.peers[m + 1] = [[NewPeer(u.name) EXCEPT !["pub"] = u.pub] EXCEPT !["ips"] = u.ips]
       /\ \A n \in 1..m : s4.peers[n] = s0.peers[n]
  <2>1. Line("ips", u.ips).kind = "ips" /\ Line("ips", u.ips).val = u.ips
    BY DEF Line
  <2> QED  BY <1>6, <1>10, <1>11, <2>1 DEF Scans, PeerKey, Header
<1>13. /\ s5.key = s0.key /\ Len(s5.peers) = m + 1 /\ s5.peers[m + 1] = s4.peers[m + 1]
       /\ \A n \in 1..m : s5.peers[n] = s0.peers[n]
  BY <1>7, <1>10, <1>12 DEF Scans, Line, PeerKey
<1>14. [[NewPeer(u.name) EXCEPT !["pub"] = u.pub] EXCEPT !["ips"] = u.ips] = PeerOf(u)
  BY DEF NewPeer, PeerOf
<1> QED  BY <1>0, <1>2, <1>7, <1>12, <1>13, <1>14 DEF S, m

(***************************************************************************)
(* ParseWGQuickConfig reads from the file WriteWireGuardConfig writes the  *)
(* server's key and every user in order, and nothing else.                 *)
(***************************************************************************)
THEOREM WrittenIsRead ==
  ASSUME NEW names, NEW keys, NEW pubs, NEW ips, NEW key \in keys, NEW us,
         Storable(us, names, pubs, ips)
  PROVE  /\ Scanned(Rendered(key, us)).key = key
         /\ Len(ParsedPeers(Rendered(key, us))) = Len(us)
         /\ \A n \in 1..Len(us) : ParsedPeers(Rendered(key, us))[n] = PeerOf(us[n])
<1> DEFINE L == Lines(names, keys, pubs, ips)
           S == States(names, keys, pubs, ips)
           text == Rendered(key, us)
           m == Len(us)
<1>0. text = Rendered(key, us)
  OBVIOUS
<1> HIDE DEF text
<1>1. m \in Nat /\ \A i \in 1..m : Written(us[i], names, pubs, ips)
  BY DEF Storable
<1>2. /\ text \in Seq(L) /\ Len(text) = 4 + 5 * m
      /\ text[1] = Line("other", None) /\ text[2] = Line("interface", None)
      /\ text[3] = Line("key", key) /\ text[4] = Line("other", None)
      /\ \A i \in 1..m, j \in 1..5 : text[4 + 5 * (i - 1) + j] = RenderedPeer(us[i])[j]
  <2> HIDE DEF L, m
  <2>1. text \in Seq(Lines(names, keys, pubs, ips))
    BY <1>0, RenderedLines
  <2>2. Len(text) = 4 + 5 * Len(us)
    BY <1>0, <2>1, RenderedLines
  <2>3. /\ text[1] = Line("other", None) /\ text[2] = Line("interface", None)
        /\ text[3] = Line("key", key) /\ text[4] = Line("other", None)
    BY <1>0, <2>1, RenderedLines
  <2>4. InBlocks(text, us)
    BY <1>0, <2>1, RenderedLines
  <2> QED  BY <2>1, <2>2, <2>3, <2>4 DEF InBlocks, L, m
<1>3. /\ Line("other", None) \in L /\ Line("interface", None) \in L /\ Line("key", key) \in L
  BY DEF Line, Lines, Header
<1> HIDE DEF L
<1>4. PICK f : /\ f[0] = Blank /\ Scanned(text) = f[Len(text)]
               /\ \A n \in Nat : n < Len(text) => f[n + 1] = Scan(f[n], text[n + 1])
  BY <1>2, ScannedByLine
<1>5. f[4] \in S /\ f[4].key = key /\ Len(f[4].peers) = 0
  <2>1. f[0] \in S /\ f[0].sec = None /\ Len(f[0].peers) = 0
    <3>1. Blank \in S
      BY WgQuickAssumption DEF Blank, States, Header
    <3> QED  BY <1>4, <3>1 DEF Blank
  <2>2. /\ f[1] = Scan(f[0], text[1]) /\ f[2] = Scan(f[1], text[2])
        /\ f[3] = Scan(f[2], text[3]) /\ f[4] = Scan(f[3], text[4])
    <3>1. 0 < Len(text) /\ 1 < Len(text) /\ 2 < Len(text) /\ 3 < Len(text)
      BY <1>1, <1>2
    <3>2. f[0 + 1] = Scan(f[0], text[0 + 1]) /\ f[1 + 1] = Scan(f[1], text[1 + 1])
          /\ f[2 + 1] = Scan(f[2], text[2 + 1]) /\ f[3 + 1] = Scan(f[3], text[3 + 1])
      BY <1>4, <3>1
    <3> QED  BY <3>2
  <2> HIDE DEF S
  <2>3. f[1] \in S /\ Scans(f[0], Line("other", None), f[1])
    BY <1>2, <1>3, <2>1, <2>2, ScanEffect DEF S, L
  <2>4. f[2] \in S /\ Scans(f[1], Line("interface", None), f[2])
    BY <1>2, <1>3, <2>2, <2>3, ScanEffect DEF S, L
  <2>5. f[3] \in S /\ Scans(f[2], Line("key", key), f[3])
    BY <1>2, <1>3, <2>2, <2>4, ScanEffect DEF S, L
  <2>6. f[4] \in S /\ Scans(f[3], Line("other", None), f[4])
    BY <1>2, <1>3, <2>2, <2>5, ScanEffect DEF S, L
  <2>7. Len(f[1].peers) = 0
    BY <2>1, <2>3 DEF Scans, Line, Header
  <2>8. f[2].sec = "interface" /\ Len(f[2].peers) = 0
    BY <2>4, <2>7 DEF Scans, Line, Header
  <2>9. f[3].key = key /\ Len(f[3].peers) = 0
    BY <2>5, <2>8 DEF Scans, Line, Header
  <2>10. f[4].key = key /\ Len(f[4].peers) = 0
    BY <2>6, <2>9 DEF Scans, Line, Header
  <2> QED  BY <2>6, <2>10
<1> DEFINE Holds(k) == /\ f[4 + 5 * k] \in S /\ f[4 + 5 * k].key = key
                       /\ Len(f[4 + 5 * k].peers) = k
                       /\ \A n \in 1..k : f[4 + 5 * k].peers[n] = PeerOf(us[n])
           K == {k \in Nat : k <= m => Holds(k)}
<1>6. 0 \in K
  <2>1. 4 + 5 * 0 = 4 /\ 1..0 = {}
    OBVIOUS
  <2> HIDE DEF S
  <2> QED  BY <1>5, <2>1
<1>7. ASSUME NEW k \in Nat, k \in K PROVE k + 1 \in K
  <2> SUFFICES ASSUME k + 1 <= m PROVE Holds(k + 1)
    OBVIOUS
  <2> DEFINE a == 4 + 5 * k
             u == us[k + 1]
  <2>1. Holds(k)
    BY <1>1, <1>7
  <2>2. k + 1 \in 1..m /\ Written(u, names, pubs, ips)
    BY <1>1
  <2>3. /\ a \in Nat /\ a + 5 <= Len(text) /\ a + 5 = 4 + 5 * (k + 1) /\ (k + 1) - 1 = k
    BY <1>1, <1>2
  <2>4. /\ text[a + 1] = Line("user", u.name) /\ text[a + 2] = Line("peer", None)
        /\ text[a + 3] = Line("pub", u.pub) /\ text[a + 4] = Line("ips", u.ips)
        /\ text[a + 5] = Line("other", None)
    <3>1. \A j \in 1..5 : text[a + j] = RenderedPeer(u)[j]
      <4>1. \A j \in 1..5 : text[4 + 5 * ((k + 1) - 1) + j] = RenderedPeer(u)[j]
        BY <1>2, <2>2
      <4>2. \A j \in 1..5 : 4 + 5 * ((k + 1) - 1) + j = a + j
        OBVIOUS
      <4> QED  BY <4>1, <4>2
    <3>2. 1 \in 1..5 /\ 2 \in 1..5 /\ 3 \in 1..5 /\ 4 \in 1..5 /\ 5 \in 1..5
      OBVIOUS
    <3> HIDE DEF a, u
    <3>3. /\ RenderedPeer(u) \in Seq(Lines(names, keys, pubs, ips))
          /\ RenderedPeer(u)[1] = Line("user", u.name) /\ RenderedPeer(u)[2] = Line("peer", None)
          /\ RenderedPeer(u)[3] = Line("pub", u.pub) /\ RenderedPeer(u)[4] = Line("ips", u.ips)
          /\ RenderedPeer(u)[5] = Line("other", None)
      BY <2>2, RenderedPeerLines
    <3> QED  BY <3>1, <3>2, <3>3
  <2>5. /\ f[a + 1] = Scan(f[a], text[a + 1]) /\ f[a + 2] = Scan(f[a + 1], text[a + 2])
        /\ f[a + 3] = Scan(f[a + 2], text[a + 3]) /\ f[a + 4] = Scan(f[a + 3], text[a + 4])
        /\ f[a + 5] = Scan(f[a + 4], text[a + 5])
    <3> HIDE DEF a
    <3>1. /\ a + 1 \in Nat /\ a + 2 \in Nat /\ a + 3 \in Nat /\ a + 4 \in Nat
          /\ (a + 1) + 1 = a + 2 /\ (a + 2) + 1 = a + 3 /\ (a + 3) + 1 = a + 4
          /\ (a + 4) + 1 = a + 5 /\ a < Len(text) /\ a + 1 < Len(text) /\ a + 2 < Len(text)
          /\ a + 3 < Len(text) /\ a + 4 < Len(text)
      <4>1. Len(text) \in Nat /\ a \in Nat /\ a + 5 <= Len(text)
        BY <1>1, <1>2, <2>3
      <4> DEFINE z == Len(text)
      <4>2. z \in Nat /\ a + 5 <= z
        BY <4>1
      <4> HIDE DEF z
      <4>3. a + 1 \in Nat /\ a + 2 \in Nat /\ a + 3 \in Nat /\ a + 4 \in Nat
        BY <4>1
      <4>4. (a + 1) + 1 = a + 2 /\ (a + 2) + 1 = a + 3 /\ (a + 3) + 1 = a + 4 /\ (a + 4) + 1 = a + 5
        BY <4>1
      <4>5. a < z /\ a + 1 < z /\ a + 2 < z /\ a + 3 < z /\ a + 4 < z
        BY <4>1, <4>2
      <4> QED  BY <4>3, <4>4, <4>5 DEF z
    <3>2. \A n \in Nat : n < Len(text) => f[n + 1] = Scan(f[n], text[n + 1])
      BY <1>4
    <3>3. f[a + 1] = Scan(f[a], text[a + 1])
      BY <2>3, <3>1, <3>2
    <3>4. f[(a + 1) + 1] = Scan(f[a + 1], text[(a + 1) + 1])
      BY <3>1, <3>2
    <3>5. f[(a + 2) + 1] = Scan(f[a + 2], text[(a + 2) + 1])
      BY <3>1, <3>2
    <3>6. f[(a + 3) + 1] = Scan(f[a + 3], text[(a + 3) + 1])
      BY <3>1, <3>2
    <3>7. f[(a + 4) + 1] = Scan(f[a + 4], text[(a + 4) + 1])
      BY <3>1, <3>2
    <3> QED  BY <3>1, <3>3, <3>4, <3>5, <3>6, <3>7
  <2> HIDE DEF S, a, u
  <2>6. /\ f[a] \in S /\ f[a].key = key /\ Len(f[a].peers) = k
        /\ \A n \in 1..k : f[a].peers[n] = PeerOf(us[n])
    BY <2>1 DEF a
  <2>7. /\ f[a + 5] \in S /\ f[a + 5].key = key
        /\ Len(f[a + 5].peers) = k + 1 /\ f[a + 5].peers[k + 1] = PeerOf(u)
        /\ \A n \in 1..k : f[a + 5].peers[n] = f[a].peers[n]
    <3>1. f[a] \in States(names, keys, pubs, ips)
      BY <2>6 DEF S
    <3>2. /\ f[a + 1] = Scan(f[a], Line("user", u.name))
          /\ f[a + 2] = Scan(f[a + 1], Line("peer", None))
          /\ f[a + 3] = Scan(f[a + 2], Line("pub", u.pub))
          /\ f[a + 4] = Scan(f[a + 3], Line("ips", u.ips))
          /\ f[a + 5] = Scan(f[a + 4], Line("other", None))
      BY <2>4, <2>5
    <3>3. /\ f[a + 5] \in States(names, keys, pubs, ips) /\ f[a + 5].key = f[a].key
          /\ Len(f[a + 5].peers) = Len(f[a].peers) + 1
          /\ f[a + 5].peers[Len(f[a].peers) + 1] = PeerOf(u)
          /\ \A n \in 1..Len(f[a].peers) : f[a + 5].peers[n] = f[a].peers[n]
      <4>1. f[a + 5] = AfterBlock(f[a], u)
        BY <3>2 DEF AfterBlock
      <4> QED  BY <2>2, <3>1, <4>1, BlockScanned
    <3> QED  BY <2>6, <3>3 DEF S
  <2>8. \A n \in 1..(k + 1) : n \in 1..k \/ n = k + 1
    OBVIOUS
  <2>9. \A n \in 1..(k + 1) : f[a + 5].peers[n] = PeerOf(us[n])
    BY <2>6, <2>7, <2>8 DEF u
  <2> QED  BY <2>3, <2>7, <2>9 DEF a
<1>8. Holds(m)
  <2>1. m \in K
    <3> HIDE DEF K, m
    <3> QED  BY <1>1, <1>6, <1>7, NatInd
  <2> QED  BY <1>1, <2>1
<1>9. Scanned(text) = f[4 + 5 * m]
  BY <1>2, <1>4
<1> HIDE DEF S, m
<1> QED  BY <1>8, <1>9 DEF text, m, ParsedPeers

-----------------------------------------------------------------------------
(* Lemmas on the operators. *)

\* The tunnel address of a row counts as used when it is an IPv4 address.
LEMMA TunnelIsFirst ==
  ASSUME NEW ips \in AddressList, Head(ips) \in V4 PROVE FirstV4(ips) = Head(ips)
<1> DEFINE at == {k \in DOMAIN ips : ips[k] \in V4}
<1>1. ips[1] = Head(ips) /\ 1 \in DOMAIN ips /\ DOMAIN ips \subseteq Nat \ {0}
  BY DEF AddressList
<1>2. 1 \in at /\ \A l \in at : 1 <= l
  BY <1>1
<1>3. (CHOOSE k \in at : \A l \in at : k <= l) = 1
  <2>1. ASSUME NEW k \in at, \A l \in at : k <= l PROVE k = 1
    BY <1>1, <1>2, <2>1
  <2> QED  BY <1>2, <2>1
<1> QED  BY <1>1, <1>2, <1>3 DEF FirstV4

\* What is offered is an address of the range that is no row's tunnel address.
LEMMA OfferIsFree ==
  ASSUME NEW n \in Nets, Free(n) # {}, \A i \in Live : users[i] \in Row
  PROVE  LET a == CHOOSE x \in Free(n) : \A y \in Free(n) : x <= y
         IN  a \in V4 /\ \A i \in Live : Tunnel(users[i]) # a
<1> DEFINE a == CHOOSE x \in Free(n) : \A y \in Free(n) : x <= y
<1>1. Free(n) \subseteq V4 /\ Free(n) \in SUBSET Nat
  BY ClientsAssumption DEF Free, Hosts
<1>2. \E x \in Free(n) : \A y \in Free(n) : x <= y
  BY <1>1, Least
<1>3. a \in Free(n)
  BY <1>2
<1>4. ASSUME NEW i \in Live, Tunnel(users[i]) = a PROVE FALSE
  <2>1. users[i].ips \in AddressList /\ users[i].ips # <<>>
    BY DEF Row, AddressList
  <2>2. Head(users[i].ips) = a
    BY <1>4, <2>1 DEF Tunnel
  <2>3. a \in Used
    BY <1>1, <1>3, <2>1, <2>2, TunnelIsFirst DEF Used
  <2> QED  BY <1>3, <2>3 DEF Free
<1> QED  BY <1>1, <1>3, <1>4

-----------------------------------------------------------------------------
(* The invariant.                                                           *)

(***************************************************************************)
(* AllocatedApart speaks of rows only.  What makes it so is what is known  *)
(* before they are written: an address in a form that nothing has upset is *)
(* no row's tunnel address, and an edit that nothing has upset still knows *)
(* its row.                                                                *)
(***************************************************************************)
FormKnows(p) ==
  At(p, "form") =>
    /\ buf[p].tunnel \in V4
    /\ p \notin upset => \A i \in Live : Tunnel(users[i]) # buf[p].tunnel

EditKnows(p) ==
  At(p, "edit") =>
    /\ buf[p].tunnel \in Parts
    /\ p \notin upset /\ buf[p].id \in Live =>
         /\ buf[p].tunnel = Tunnel(users[buf[p].id])
         /\ buf[p].priv = users[buf[p].id].priv

Knows(p) == FormKnows(p) /\ EditKnows(p) /\ (At(p, "used") => buf[p].net \in Nets)

IInv == TypeOK /\ AllocatedApart /\ \A p \in Procs : Knows(p)

\* A file that parses holds a server key, and peers.
LEMMA UploadsRead ==
  ASSUME NEW text \in Uploads, Parses(text)
  PROVE  Scanned(text).key \in Nets /\ ParsedPeers(text) \in Seq(Peer)
<1>1. Scanned(text) \in States(Names, Nets, Keys, AddressList)
  BY ClientsAssumption, ParserReads
<1> QED  BY <1>1 DEF States, Peer, Parses, ParsedPeers

\* A handler that does nothing holds a buffer of the right type.
LEMMA NoBufTyped == NoBuf \in Buf
BY DEF NoBuf, Buf

\* A row has a first address, and that one is the tunnel's.
LEMMA TunnelIsHead ==
  ASSUME NEW r \in Row
  PROVE  r.ips # <<>> /\ Tunnel(r) = Head(r.ips) /\ Tunnel(r) \in Parts
<1>1. r.ips \in Seq(Parts) /\ r.ips # <<>>
  BY DEF Row, AddressList
<1> QED  BY <1>1, HeadTailProperties DEF Tunnel

\* What p may go on to know when the rows stay as they are.
MayKnow(step, b) ==
  /\ step \in Steps /\ b \in Buf
  /\ step = "used" => b.net \in Nets
  /\ step = "form" => b.tunnel \in V4 /\ \A i \in Live : Tunnel(users[i]) # b.tunnel
  /\ step = "edit" => /\ b.id \in Live /\ b.tunnel = Tunnel(users[b.id])
                      /\ b.priv = users[b.id].priv

\* Steps that read, check or give up.
LEMMA StepKeepsRows ==
  ASSUME IInv, NEW p \in Procs, NEW step, NEW b,
         MayKnow(step, b), Goto(p, step, b), upset' \in {upset, upset \ {p}},
         UNCHANGED <<users, saw>>, net' \in Nets \cup {None}
  PROVE  IInv'
<1>1. TypeOK'
  BY DEF IInv, TypeOK, MayKnow, Goto, Live
<1>2. AllocatedApart'
  BY DEF IInv, AllocatedApart, Live
<1>3. ASSUME NEW q \in Procs PROVE Knows(q)'
  <2>1. CASE q = p
    <3>1. pc'[p] = step /\ buf'[p] = b
      BY DEF IInv, TypeOK, Goto
    <3>2. step = "edit" => b.tunnel \in Parts
      BY TunnelIsHead DEF IInv, TypeOK, MayKnow
    <3> QED  BY <2>1, <3>1, <3>2 DEF Knows, FormKnows, EditKnows, At, MayKnow, Live
  <2>2. CASE q # p
    <3>1. pc'[q] = pc[q] /\ buf'[q] = buf[q] /\ (q \in upset' <=> q \in upset)
      BY <2>2 DEF IInv, TypeOK, Goto
    <3>2. Knows(q)
      BY DEF IInv
    <3> QED  BY <3>1, <3>2 DEF Knows, FormKnows, EditKnows, At, Live
  <2> QED  BY <2>1, <2>2
<1> QED  BY <1>1, <1>2, <1>3 DEF IInv

\* What a handler does when it writes row i: taken, if the row's tunnel address
\* may be another than before.
WritesRow(p, i, r, taken) ==
  /\ users' = [j \in Live \cup {i} |-> IF j = i THEN r ELSE users[j]]
  /\ i \in Live \/ NewId(i)
  /\ taken \/ (i \in Live /\ Tunnel(r) = Tunnel(users[i]))
  /\ Wrote(p, i, taken)
  /\ net' = net

\* What the written row is known to be apart from, and the other rows from it.
KnowsApart(i, r, taken) ==
  /\ saw' \in [Ids -> SUBSET Ids]
  /\ \A j \in saw'[i] : j \in Live /\ j # i /\ Tunnel(users[j]) # Tunnel(r)
  /\ \A j \in Live \ {i} : saw'[j] \subseteq saw[j] /\ (taken => i \notin saw'[j])

\* Where the handler that wrote goes on; the other browsers stay where they are.
MovesOn(p) ==
  /\ pc' \in [Procs -> Steps] /\ buf' \in [Procs -> Buf]
  /\ pc'[p] \notin {"used", "form", "edit"}
  /\ \A q \in Procs \ {p} : pc'[q] = pc[q] /\ buf'[q] = buf[q]

\* A handler that ends knows nothing the invariant asks about.
LEMMA EndMovesOn == ASSUME TypeOK, NEW p \in Procs, End(p) PROVE MovesOn(p)
<1>1. pc' = [pc EXCEPT ![p] = "idle"] /\ buf' = [buf EXCEPT ![p] = NoBuf]
  BY DEF End, Goto
<1>2. pc \in [Procs -> Steps] /\ buf \in [Procs -> Buf] /\ "idle" \in Steps
  BY DEF TypeOK, Steps
<1>3. pc' \in [Procs -> Steps] /\ pc'[p] = "idle" /\ \A q \in Procs \ {p} : pc'[q] = pc[q]
  BY <1>1, <1>2
<1>4. buf' \in [Procs -> Buf] /\ \A q \in Procs \ {p} : buf'[q] = buf[q]
  BY <1>1, <1>2, NoBufTyped
<1> QED  BY <1>3, <1>4 DEF MovesOn

\* Where nothing is known any more of the row that was written.
LEMMA NothingKnown ==
  ASSUME TypeOK, NEW i \in Ids, NEW r, Apart(i, {}) PROVE KnowsApart(i, r, TRUE)
<1>1. saw \in [Ids -> SUBSET Ids] /\ Live \subseteq Ids
  BY DEF TypeOK
<1>2. saw' = [j \in Ids |-> IF j = i THEN {} ELSE saw[j] \ {i}]
  BY DEF Apart
<1>3. saw' \in [Ids -> SUBSET Ids] /\ saw'[i] = {}
  BY <1>1, <1>2
<1>4. \A j \in Live \ {i} : saw'[j] = saw[j] \ {i}
  BY <1>1, <1>2
<1> QED  BY <1>3, <1>4 DEF KnowsApart

\* Writing one row keeps the invariant if the row keeps the offered addresses apart.
LEMMA RowWritten ==
  ASSUME IInv, NEW p \in Procs, NEW i \in Ids, NEW r \in Row, NEW taken \in BOOLEAN,
         WritesRow(p, i, r, taken), KnowsApart(i, r, taken), MovesOn(p)
  PROVE  IInv'
<1> USE DEF IInv, WritesRow, KnowsApart, MovesOn
<1>1. Live' = Live \cup {i} /\ users'[i] = r /\ \A j \in Live \ {i} : users'[j] = users[j]
  BY DEF Live
<1>2. TypeOK'
  BY <1>1 DEF TypeOK, Wrote
<1>3. AllocatedApart'
  <2>1. ASSUME NEW k \in Live', NEW j \in saw'[k]
        PROVE  j \in Live' /\ Tunnel(users'[k]) # Tunnel(users'[j])
    <3>1. CASE k = i
      BY <1>1, <2>1, <3>1
    <3>2. CASE k # i
      <4>1. k \in Live /\ j \in saw[k] /\ users'[k] = users[k]
        BY <1>1, <2>1, <3>2
      <4>2. j \in Live /\ Tunnel(users[k]) # Tunnel(users[j])
        BY <4>1 DEF AllocatedApart
      <4>3. CASE j = i
        <5>1. ~taken /\ Tunnel(r) = Tunnel(users[i])
          BY <1>1, <2>1, <3>2, <4>1, <4>3
        <5> QED  BY <1>1, <4>1, <4>2, <4>3, <5>1
      <4>4. CASE j # i
        BY <1>1, <4>1, <4>2, <4>4
      <4> QED  BY <4>3, <4>4
    <3> QED  BY <3>1, <3>2
  <2> QED  BY <2>1 DEF AllocatedApart
<1>4. ASSUME NEW q \in Procs PROVE Knows(q)'
  <2>1. CASE q = p
    BY <2>1 DEF Knows, FormKnows, EditKnows, At
  <2>2. CASE q # p
    <3>1. pc'[q] = pc[q] /\ buf'[q] = buf[q] /\ Knows(q)
      BY <2>2
    <3>2. FormKnows(q)'
      <4> SUFFICES ASSUME At(q, "form"), q \notin upset', NEW j \in Live'
                   PROVE  Tunnel(users'[j]) # buf[q].tunnel
        BY <3>1 DEF FormKnows, At, Knows
      <4>1. q \notin upset /\ ~taken
        BY <2>2 DEF Wrote, At
      <4>2. \A k \in Live : Tunnel(users[k]) # buf[q].tunnel
        BY <3>1, <4>1 DEF Knows, FormKnows
      <4> QED  BY <1>1, <4>1, <4>2
    <3>3. EditKnows(q)'
      <4> SUFFICES ASSUME At(q, "edit"), q \notin upset', buf[q].id \in Live'
                   PROVE  /\ buf[q].tunnel = Tunnel(users'[buf[q].id])
                          /\ buf[q].priv = users'[buf[q].id].priv
        BY <3>1 DEF EditKnows, At, Knows
      <4>1. q \notin upset /\ buf[q].id # i
        BY <2>2 DEF Wrote
      <4>2. buf[q].id \in Live /\ users'[buf[q].id] = users[buf[q].id]
        BY <1>1, <4>1
      <4> QED  BY <3>1, <4>1, <4>2 DEF Knows, EditKnows
    <3> QED  BY <3>1, <3>2, <3>3 DEF Knows, At
  <2> QED  BY <2>1, <2>2
<1> QED  BY <1>2, <1>3, <1>4

-----------------------------------------------------------------------------
(* The actions. *)

\* Choosing an address for the form keeps the invariant.
LEMMA Allocation ==
  ASSUME IInv, NEW p \in Procs, ReadRange(p) \/ ReadUsed(p) PROVE IInv'
<1> USE DEF IInv
<1>1. CASE ReadRange(p)
  <2> DEFINE b == [NoBuf EXCEPT !.net = net]
  <2>1. b \in Buf /\ b.net \in Nets
    BY <1>1, NoBufTyped DEF ReadRange, TypeOK, Buf
  <2>2. MayKnow("used", b)
    BY <2>1 DEF MayKnow, Steps
  <2>3. Goto(p, "used", b) /\ UNCHANGED <<users, net, upset, saw>>
    BY <1>1 DEF ReadRange
  <2> QED  BY <2>2, <2>3, StepKeepsRows DEF TypeOK
<1>2. CASE ReadUsed(p)
  <2> DEFINE free == Free(buf[p].net)
             a == CHOOSE x \in free : \A y \in free : x <= y
             b == [NoBuf EXCEPT !.tunnel = a]
  <2>1. buf[p].net \in Nets
    BY <1>2 DEF ReadUsed, Knows
  <2>2. CASE free = {}
    <3>1. MayKnow("idle", NoBuf)
      BY NoBufTyped DEF MayKnow, Steps
    <3> QED  BY <1>2, <2>2, <3>1, StepKeepsRows DEF ReadUsed, End, Calm, TypeOK
  <2>3. CASE free # {}
    <3>1. a \in V4 /\ \A i \in Live : Tunnel(users[i]) # a
      BY <2>1, <2>3, OfferIsFree DEF TypeOK
    <3>2. Goto(p, "form", b) /\ UNCHANGED <<users, net, upset, saw>>
      BY <1>2, <2>3 DEF ReadUsed
    <3> HIDE DEF a
    <3>3. b \in Buf /\ b.tunnel = a
      BY <3>1, NoBufTyped DEF Parts, Buf
    <3> HIDE DEF b
    <3>4. MayKnow("form", b)
      BY <3>1, <3>3 DEF MayKnow, Steps
    <3> QED  BY <3>2, <3>4, StepKeepsRows DEF TypeOK
  <2> QED  BY <2>2, <2>3
<1> QED  BY <1>1, <1>2

\* Reading the row to edit keeps the invariant.
LEMMA Reading ==
  ASSUME IInv, NEW p \in Procs, NEW i \in Ids, EditRead(p, i) PROVE IInv'
<1> USE DEF IInv
<1> DEFINE b == [NoBuf EXCEPT !.id = i, !.tunnel = Tunnel(users[i]),
                   !.priv = users[i].priv]
<1>1. i \in Live /\ Goto(p, "edit", b) /\ UNCHANGED <<users, net, upset, saw>>
  BY DEF EditRead
<1>2. Tunnel(users[i]) \in Parts /\ users[i].priv \in Keys \cup {None}
  BY <1>1, TunnelIsHead DEF TypeOK, Row
<1>3. b \in Buf /\ b.id = i /\ b.tunnel = Tunnel(users[i]) /\ b.priv = users[i].priv
  BY <1>2, NoBufTyped DEF Buf
<1> HIDE DEF b
<1>4. MayKnow("edit", b)
  BY <1>1, <1>3 DEF MayKnow, Steps
<1> QED  BY <1>1, <1>4, StepKeepsRows DEF TypeOK

\* Ending without writing a row keeps the invariant.
LEMMA Closing ==
  ASSUME IInv, NEW p \in Procs, End(p), upset' \in {upset, upset \ {p}},
         UNCHANGED <<users, net, saw>>
  PROVE  IInv'
<1>1. MayKnow("idle", NoBuf)
  BY NoBufTyped DEF MayKnow, Steps
<1> QED  BY <1>1, StepKeepsRows DEF End, IInv, TypeOK

\* Creating a user keeps the invariant.
LEMMA Creating ==
  ASSUME IInv, NEW p \in Procs, NEW i \in Ids, NEW name \in Names, NEW k \in Keys,
         NEW e \in BOOLEAN,
         \/ \E extra \in Extras : Create(p, i, name, extra, k, e)
         \/ \E ips \in Lists : CreateWith(p, i, name, ips, k, e)
  PROVE  IInv'
<1> USE DEF IInv
<1>1. ASSUME NEW extra \in Extras, Create(p, i, name, extra, k, e) PROVE IInv'
  <2> DEFINE r == [name |-> name, ips |-> <<buf[p].tunnel>> \o extra, priv |-> k,
                   pub |-> k, en |-> e]
             S == IF p \in upset THEN {} ELSE Live
  <2>1. /\ At(p, "form") /\ i \notin Live /\ NewId(i) /\ Apart(i, S) /\ Wrote(p, i, TRUE)
        /\ users' = [j \in Live \cup {i} |-> IF j = i THEN r ELSE users[j]]
        /\ End(p) /\ UNCHANGED net
    BY <1>1 DEF Create, Insert, NewId
  <2>2. buf[p].tunnel \in V4 /\ buf[p].tunnel \in Parts /\ extra \in Seq(Parts)
    BY <2>1, ClientsAssumption DEF Knows, FormKnows, Parts
  <2>3. /\ <<buf[p].tunnel>> \o extra \in Seq(Parts)
        /\ Len(<<buf[p].tunnel>> \o extra) = 1 + Len(extra)
        /\ (<<buf[p].tunnel>> \o extra)[1] = buf[p].tunnel
    BY <2>2, ConcatProperties
  <2>4. <<buf[p].tunnel>> \o extra \in AddressList /\ Head(<<buf[p].tunnel>> \o extra) = buf[p].tunnel
    BY <2>2, <2>3 DEF AddressList
  <2>5. r \in Row
    BY <2>4 DEF Row
  <2>6. Tunnel(r) = buf[p].tunnel
    BY <2>4, <2>5, TunnelIsHead
  <2> HIDE DEF r
  <2>7. WritesRow(p, i, r, TRUE)
    BY <2>1 DEF WritesRow
  <2>8. MovesOn(p)
    BY <2>1, EndMovesOn
  <2>9. \A j \in S : j \in Live /\ j # i /\ Tunnel(users[j]) # Tunnel(r)
    BY <2>1, <2>6 DEF Knows, FormKnows
  <2>10. S \subseteq Live
    OBVIOUS
  <2> HIDE DEF S
  <2>11. KnowsApart(i, r, TRUE)
    <3>1. saw' = [j \in Ids |-> IF j = i THEN S ELSE saw[j] \ {i}]
      BY <2>1 DEF Apart
    <3>2. saw \in [Ids -> SUBSET Ids] /\ Live \subseteq Ids
      BY DEF TypeOK
    <3>3. saw' \in [Ids -> SUBSET Ids] /\ saw'[i] = S
      BY <2>10, <3>1, <3>2
    <3>4. \A j \in Live \ {i} : saw'[j] = saw[j] \ {i}
      BY <3>1, <3>2
    <3> QED  BY <2>9, <3>3, <3>4 DEF KnowsApart
  <2> HIDE DEF IInv
  <2> QED  BY <2>5, <2>7, <2>8, <2>11, RowWritten
<1>2. ASSUME NEW ips \in Lists, CreateWith(p, i, name, ips, k, e) PROVE IInv'
  <2> DEFINE r == [name |-> name, ips |-> ips, priv |-> k, pub |-> k, en |-> e]
  <2>1. r \in Row
    BY ClientsAssumption DEF Row
  <2>2. /\ At(p, "idle") /\ i \notin Live /\ NewId(i) /\ Apart(i, {}) /\ Wrote(p, i, TRUE)
        /\ users' = [j \in Live \cup {i} |-> IF j = i THEN r ELSE users[j]]
        /\ UNCHANGED <<net, pc, buf>>
    BY <1>2 DEF CreateWith, Insert, NewId
  <2> HIDE DEF r
  <2>3. WritesRow(p, i, r, TRUE)
    BY <2>2 DEF WritesRow
  <2>4. KnowsApart(i, r, TRUE)
    BY <2>2, NothingKnown
  <2>5. MovesOn(p)
    BY <2>2 DEF MovesOn, TypeOK, At
  <2> HIDE DEF IInv
  <2> QED  BY <2>1, <2>3, <2>4, <2>5, RowWritten
<1> QED  BY <1>1, <1>2

\* An edit puts back the address it has read and keeps the key it has read.
LEMMA EditedRow ==
  ASSUME NEW b \in Buf, b.tunnel \in Parts, NEW r \in Row, NEW name \in Names,
         NEW extra \in Extras, NEW k \in Keys \cup {None}, NEW e \in BOOLEAN
  PROVE  LET new == Edited(b, r, name, extra, k, e)
         IN  /\ new \in Row /\ Tunnel(new) = b.tunnel
             /\ Paired(r) => Paired(new)
<1> DEFINE ips == <<b.tunnel>> \o extra
           new == Edited(b, r, name, extra, k, e)
<1>1. extra \in Seq(Parts) /\ b.tunnel # None
  BY ClientsAssumption
<1>2. ips \in Seq(Parts) /\ Len(ips) = 1 + Len(extra) /\ ips[1] = b.tunnel
  BY <1>1, ConcatProperties
<1>3. ips \in AddressList /\ Head(ips) = b.tunnel
  BY <1>1, <1>2 DEF AddressList
<1>4. new.ips = ips /\ new.name = name /\ new.en = e
  BY <1>1 DEF Edited
<1>5. /\ new.priv = IF b.priv = None /\ k # None THEN k ELSE r.priv
      /\ new.pub = IF b.priv = None /\ k # None THEN k ELSE r.pub
  BY DEF Edited
<1>6. new = [name |-> new.name, ips |-> new.ips, priv |-> new.priv, pub |-> new.pub,
             en |-> new.en]
  BY DEF Edited
<1>7. r.priv \in Keys \cup {None} /\ r.pub \in Keys
  BY DEF Row
<1> HIDE DEF ips, new
<1>8. new \in Row
  BY <1>3, <1>4, <1>5, <1>6, <1>7 DEF Row
<1>9. Tunnel(new) = b.tunnel
  BY <1>3, <1>4, <1>8, TunnelIsHead
<1>10. Paired(r) => Paired(new)
  BY <1>5 DEF Paired
<1> QED  BY <1>8, <1>9, <1>10 DEF new

\* An edited row has new keys only where the form has read none.
LEMMA EditedKeys ==
  ASSUME NEW b, NEW r, NEW name, NEW extra, NEW k, NEW e,
         NEW new, new = Edited(b, r, name, extra, k, e),
         <<new.priv, new.pub>> # <<r.priv, r.pub>>
  PROVE  b.priv = None /\ new.priv # None /\ new.pub = new.priv
<1>1. /\ new.priv = IF b.priv = None /\ k # None THEN k ELSE r.priv
      /\ new.pub = IF b.priv = None /\ k # None THEN k ELSE r.pub
  BY DEF Edited
<1> QED  BY <1>1

\* Writing an edited row keeps the invariant.
LEMMA Editing ==
  ASSUME IInv, NEW p \in Procs, NEW name \in Names, NEW extra \in Extras,
         NEW k \in Keys \cup {None}, NEW e \in BOOLEAN, EditWrite(p, name, extra, k, e)
  PROVE  IInv'
<1> USE DEF IInv
<1> DEFINE i == buf[p].id
           r == Edited(buf[p], users[i], name, extra, k, e)
<1>1. CASE i \notin Live
  <2>1. End(p) /\ upset' = upset \ {p} /\ UNCHANGED <<users, net, saw>>
    BY <1>1 DEF EditWrite, Calm
  <2> QED  BY <2>1, Closing
<1>2. CASE i \in Live
  <2>1. /\ At(p, "edit") /\ i \in Ids /\ buf[p] \in Buf /\ users[i] \in Row
        /\ buf[p].tunnel \in Parts
        /\ p \notin upset => buf[p].tunnel = Tunnel(users[i])
    BY <1>2 DEF EditWrite, TypeOK, Knows, EditKnows
  <2>2. r \in Row /\ Tunnel(r) = buf[p].tunnel
    BY <2>1, EditedRow
  <2>3. /\ users' = [users EXCEPT ![i] = r]
        /\ IF p \in upset THEN Apart(i, {}) ELSE UNCHANGED saw
        /\ Wrote(p, i, p \in upset) /\ End(p) /\ UNCHANGED net
    BY <1>2 DEF EditWrite
  <2> HIDE DEF r
  <2>4. users' = [j \in Live \cup {i} |-> IF j = i THEN r ELSE users[j]]
    BY <1>2, <2>3 DEF Live
  <2>5. MovesOn(p)
    BY <2>3, EndMovesOn
  <2> HIDE DEF i
  <2>7. CASE p \in upset
    <3>1. Apart(i, {}) /\ Wrote(p, i, TRUE)
      BY <2>3, <2>7 DEF Wrote
    <3>2. WritesRow(p, i, r, TRUE)
      BY <1>2, <2>3, <2>4, <3>1 DEF WritesRow
    <3>3. KnowsApart(i, r, TRUE)
      BY <2>1, <3>1, NothingKnown
    <3> HIDE DEF IInv
    <3> QED  BY <2>1, <2>2, <2>5, <3>2, <3>3, RowWritten
  <2>8. CASE p \notin upset
    <3>1. saw' = saw /\ Wrote(p, i, FALSE) /\ Tunnel(r) = Tunnel(users[i])
      BY <2>1, <2>2, <2>3, <2>8 DEF Wrote
    <3>2. ASSUME NEW j \in saw'[i]
          PROVE  j \in Live /\ j # i /\ Tunnel(users[j]) # Tunnel(r)
      BY <1>2, <3>1, <3>2 DEF AllocatedApart
    <3>3. saw' \in [Ids -> SUBSET Ids] /\ \A j \in Live \ {i} : saw'[j] \subseteq saw[j]
      BY <3>1 DEF TypeOK
    <3>4. WritesRow(p, i, r, FALSE)
      BY <1>2, <2>3, <2>4, <3>1 DEF WritesRow
    <3>5. KnowsApart(i, r, FALSE)
      BY <3>2, <3>3 DEF KnowsApart
    <3> HIDE DEF IInv
    <3> QED  BY <2>1, <2>2, <2>5, <3>4, <3>5, RowWritten
  <2> QED  BY <2>7, <2>8
<1> QED  BY <1>1, <1>2

\* Enabling or disabling a user keeps the invariant.
LEMMA Toggling ==
  ASSUME IInv, NEW i \in Ids, Toggle(i) PROVE IInv'
<1> USE DEF IInv
<1>1. /\ i \in Live /\ users' = [users EXCEPT ![i].en = ~@]
      /\ UNCHANGED <<net, pc, buf, upset, saw>>
  BY DEF Toggle
<1>2. Live' = Live /\ \A j \in Live : users'[j] = IF j = i THEN [users[i] EXCEPT !.en = ~@] ELSE users[j]
  BY <1>1 DEF Live
<1>3. users[i] \in Row
  BY <1>1 DEF TypeOK
<1>4. ASSUME NEW r \in Row
      PROVE  LET new == [r EXCEPT !.en = ~@]
             IN  new \in Row /\ new.ips = r.ips /\ new.priv = r.priv
  BY DEF Row
<1>5. \A j \in Live : users'[j] \in Row /\ users'[j].ips = users[j].ips /\ users'[j].priv = users[j].priv
  <2> SUFFICES ASSUME NEW j \in Live
               PROVE  /\ users'[j] \in Row /\ users'[j].ips = users[j].ips
                      /\ users'[j].priv = users[j].priv
    OBVIOUS
  <2>1. CASE j = i
    <3>1. users'[j] = [users[i] EXCEPT !.en = ~@]
      BY <1>2, <2>1
    <3> QED  BY <1>3, <1>4, <2>1, <3>1
  <2>2. CASE j # i
    <3>1. users'[j] = users[j] /\ users[j] \in Row
      BY <1>2, <2>2 DEF TypeOK
    <3> QED  BY <3>1
  <2> QED  BY <2>1, <2>2
<1>6. ASSUME NEW j \in Live PROVE Tunnel(users'[j]) = Tunnel(users[j])
  <2>1. users'[j].ips = users[j].ips
    BY <1>5
  <2> QED  BY <2>1 DEF Tunnel
<1>7. TypeOK'
  BY <1>1, <1>2, <1>5 DEF TypeOK
<1>8. AllocatedApart'
  BY <1>1, <1>2, <1>6 DEF AllocatedApart
<1>9. ASSUME NEW q \in Procs PROVE Knows(q)'
  <2>1. Knows(q)
    OBVIOUS
  <2> QED  BY <1>1, <1>2, <1>5, <1>6, <2>1 DEF Knows, FormKnows, EditKnows, At
<1> QED  BY <1>7, <1>8, <1>9

\* Deleting a user keeps the invariant.
LEMMA Deleting ==
  ASSUME IInv, NEW i \in Ids, Delete(i) PROVE IInv'
<1> USE DEF IInv
<1>1. /\ i \in Live /\ users' = [j \in Live \ {i} |-> users[j]]
      /\ Apart(i, {}) /\ UNCHANGED <<net, pc, buf, upset>>
  BY DEF Delete
<1>2. Live' = Live \ {i} /\ \A j \in Live' : users'[j] = users[j]
  BY <1>1 DEF Live
<1>3. saw' \in [Ids -> SUBSET Ids] /\ \A j \in Ids \ {i} : saw'[j] = saw[j] \ {i}
  BY <1>1 DEF Apart, TypeOK
<1>4. TypeOK'
  BY <1>1, <1>2, <1>3 DEF TypeOK
<1>5. AllocatedApart'
  BY <1>2, <1>3 DEF AllocatedApart, TypeOK
<1>6. ASSUME NEW q \in Procs PROVE Knows(q)'
  <2>1. Knows(q)
    OBVIOUS
  <2> QED  BY <1>1, <1>2, <2>1 DEF Knows, FormKnows, EditKnows, At
<1> QED  BY <1>4, <1>5, <1>6

\* Saving the server's settings keeps the invariant.
LEMMA Setting ==
  ASSUME IInv, NEW p \in Procs,
         \/ \E n \in Nets : GeneratePost(p, n)
         \/ \E text \in Uploads : ImportPost(p, text)
         \/ SaveWizard(p)
  PROVE  IInv'
<1> USE DEF IInv
<1>1. ASSUME NEW n \in Nets, NEW f \in Seq(Peer), Post(p, n, f) PROVE IInv'
  <2> DEFINE b == [NoBuf EXCEPT !.net = n, !.left = f]
  <2>1. b \in Buf
    BY NoBufTyped DEF Buf
  <2>2. Goto(p, "wizard", b) /\ UNCHANGED <<users, net, upset, saw>>
    BY <1>1 DEF Post
  <2> HIDE DEF b
  <2>3. MayKnow("wizard", b)
    BY <2>1 DEF MayKnow, Steps
  <2> QED  BY <2>2, <2>3, StepKeepsRows DEF TypeOK
<1>2. CASE \E n \in Nets : GeneratePost(p, n)
  <2>1. <<>> \in Seq(Peer)
    OBVIOUS
  <2> QED  BY <1>1, <1>2, <2>1 DEF GeneratePost
<1>3. CASE \E text \in Uploads : ImportPost(p, text)
  BY <1>1, <1>3, UploadsRead DEF ImportPost
<1>4. CASE SaveWizard(p)
  <2> DEFINE b == [NoBuf EXCEPT !.left = buf[p].left]
  <2>1. buf[p].left \in Seq(Peer) /\ net' \in Nets \cup {None}
    BY <1>4 DEF SaveWizard, TypeOK, Buf
  <2>2. b \in Buf
    BY <2>1, NoBufTyped DEF Buf
  <2>3. Goto(p, "peers", b) /\ UNCHANGED <<users, upset, saw>>
    BY <1>4 DEF SaveWizard
  <2> HIDE DEF b
  <2>4. MayKnow("peers", b)
    BY <2>2 DEF MayKnow, Steps
  <2> QED  BY <2>1, <2>3, <2>4, StepKeepsRows
<1> QED  BY <1>2, <1>3, <1>4

\* Importing a peer keeps the invariant.
LEMMA Importing ==
  ASSUME IInv, NEW p \in Procs, ImportPeer(p) PROVE IInv'
<1> USE DEF IInv
<1> DEFINE e == Head(buf[p].left)
           same == {i \in Live : users[i].name = ImportName(e)}
           rest == [buf[p] EXCEPT !.left = Tail(@)]
<1>1. buf[p] \in Buf /\ buf[p].left \in Seq(Peer) /\ buf[p].left # <<>> /\ At(p, "peers")
  BY DEF ImportPeer, TypeOK, Buf
<1>2. e \in Peer /\ Tail(buf[p].left) \in Seq(Peer)
  BY <1>1, HeadTailProperties
<1>3. rest \in Buf
  BY <1>1, <1>2 DEF Buf
<1>4. buf' = [buf EXCEPT ![p] = rest] /\ UNCHANGED <<net, pc>>
  BY DEF ImportPeer
<1> HIDE DEF rest
<1>5. MovesOn(p)
  <2>1. buf' \in [Procs -> Buf] /\ \A q \in Procs \ {p} : buf'[q] = buf[q]
    BY <1>3, <1>4 DEF TypeOK
  <2>2. pc' = pc /\ pc \in [Procs -> Steps] /\ pc[p] = "peers"
    BY <1>1, <1>4 DEF TypeOK, At
  <2> QED  BY <2>1, <2>2 DEF MovesOn
<1>6. CASE e.pub = None \/ e.ips = None
  <2>1. UNCHANGED <<users, upset, saw>>
    BY <1>6 DEF ImportPeer
  <2>2. MayKnow("peers", rest)
    BY <1>3 DEF MayKnow, Steps
  <2>3. pc' = [pc EXCEPT ![p] = "peers"]
    BY <1>1, <1>4 DEF TypeOK, At
  <2> QED  BY <1>4, <2>1, <2>2, <2>3, StepKeepsRows DEF Goto, TypeOK
<1>7. CASE e.pub # None /\ e.ips # None
  <2>1. PICK i \in IF same = {} THEN {j \in Ids : NewId(j)} ELSE same :
          /\ users' = [j \in Live \cup {i} |->
                         IF j # i THEN users[j]
                         ELSE ImportedRow(e, IF same = {} THEN None ELSE users[i])]
          /\ Apart(i, {}) /\ Wrote(p, i, TRUE)
    BY <1>7 DEF ImportPeer
  <2> DEFINE old == IF same = {} THEN None ELSE users[i]
             r == ImportedRow(e, old)
  <2>2. i \in Ids /\ (i \in Live \/ NewId(i))
    BY <2>1 DEF TypeOK
  <2>3. old = None \/ old \in Row
    BY <2>1 DEF TypeOK
  <2>4. /\ e.ips \in AddressList /\ e.pub \in Keys
        /\ e.name \in Names \cup {None}
    BY <1>2, <1>7 DEF Peer, PeersOf
  <2>5. ImportName(e) \in Names \cup Parts
    <3>1. Head(e.ips) \in Parts
      BY <2>4, HeadTailProperties DEF AddressList
    <3> QED  BY <2>4, <3>1 DEF ImportName
  <2>6. r \in Row
    <3>1. (IF old = None THEN None ELSE old.priv) \in Keys \cup {None}
      BY <2>3 DEF Row
    <3> HIDE DEF old
    <3> QED  BY <2>4, <2>5, <3>1 DEF ImportedRow, Row
  <2>7. users' = [j \in Live \cup {i} |-> IF j = i THEN r ELSE users[j]]
    BY <2>1
  <2>8. Apart(i, {}) /\ Wrote(p, i, TRUE)
    BY <2>1
  <2> HIDE DEF r, same, old, e
  <2>9. KnowsApart(i, r, TRUE)
    BY <2>2, <2>8, NothingKnown
  <2>10. WritesRow(p, i, r, TRUE)
    BY <1>4, <2>2, <2>7, <2>8 DEF WritesRow
  <2> HIDE DEF IInv
  <2> QED  BY <1>5, <2>2, <2>6, <2>9, <2>10, RowWritten
<1> QED  BY <1>6, <1>7

\* A restart keeps the invariant.
LEMMA Dying == IInv /\ Restart => IInv'
<1> SUFFICES ASSUME IInv, Restart PROVE IInv'
  OBVIOUS
<1> USE DEF IInv
<1>1. /\ pc' = [p \in Procs |-> IF At(p, "form") THEN "form" ELSE "idle"]
      /\ buf' = [p \in Procs |-> IF At(p, "form") THEN buf[p] ELSE NoBuf]
      /\ upset' = {p \in upset : At(p, "form")} /\ UNCHANGED <<users, net, saw>>
  BY DEF Restart
<1>2. TypeOK'
  BY <1>1, NoBufTyped DEF TypeOK, Steps, Live
<1>3. AllocatedApart'
  BY <1>1 DEF AllocatedApart, Live
<1>4. ASSUME NEW q \in Procs PROVE Knows(q)'
  <2>1. Knows(q)
    OBVIOUS
  <2>2. At(q, "form")' => At(q, "form") /\ buf'[q] = buf[q] /\ (q \in upset' <=> q \in upset)
    BY <1>1 DEF At
  <2>3. ~At(q, "edit")' /\ ~At(q, "used")'
    BY <1>1 DEF At
  <2> QED  BY <1>1, <2>1, <2>2, <2>3 DEF Knows, FormKnows, EditKnows, Live
<1> QED  BY <1>2, <1>3, <1>4

-----------------------------------------------------------------------------
(* The theorems. *)

\* The invariant holds of a fresh database.
LEMMA InitInv == Init => IInv
<1> SUFFICES ASSUME Init PROVE IInv
  OBVIOUS
<1>1. Live = {}
  BY DEF Init, Live
<1>2. TypeOK
  BY <1>1, NoBufTyped DEF Init, TypeOK, Steps
<1>3. AllocatedApart
  BY <1>1 DEF AllocatedApart
<1>4. \A p \in Procs : Knows(p)
  BY DEF Init, Knows, FormKnows, EditKnows, At
<1> QED  BY <1>2, <1>3, <1>4 DEF IInv

\* Every step keeps the invariant.
LEMMA NextInv == IInv /\ [Next]_vars => IInv'
<1> SUFFICES ASSUME IInv, [Next]_vars PROVE IInv'
  OBVIOUS
<1>1. ASSUME NEW p \in Procs, Enter(p) PROVE IInv'
  BY <1>1, Allocation, Reading, Setting DEF Enter
<1>2. ASSUME NEW p \in Procs, Store(p) PROVE IInv'
  BY <1>2, Creating, Editing DEF Store
<1>3. ASSUME NEW p \in Procs, Work(p) PROVE IInv'
  <2>1. CASE ReadUsed(p) \/ SaveWizard(p) \/ ImportPeer(p)
    BY <2>1, Allocation, Setting, Importing
  <2>2. CASE ImportDone(p) \/ GiveUp(p)
    BY <2>2, Closing DEF ImportDone, GiveUp, Calm
  <2> QED  BY <1>3, <2>1, <2>2 DEF Work
<1>4. CASE \E i \in Ids : Toggle(i) \/ Delete(i)
  BY <1>4, Toggling, Deleting
<1>5. CASE \E n \in Nets : SaveSettings(n)
  BY <1>5 DEF SaveSettings, IInv, TypeOK, AllocatedApart, Knows, FormKnows, EditKnows, At, Live
<1>6. CASE Restart
  BY <1>6, Dying
<1>7. CASE UNCHANGED vars
  BY <1>7 DEF vars, IInv, TypeOK, AllocatedApart, Knows, FormKnows, EditKnows, At, Live
<1> QED  BY <1>1, <1>2, <1>3, <1>4, <1>5, <1>6, <1>7 DEF Next

\* The invariant holds in every state.
LEMMA Invariant == Spec => []IInv
BY InitInv, NextInv, PTL DEF Spec

(***************************************************************************)
(* Rows, forms and half-done imports keep their types, whatever the range, *)
(* the files and the number of browsers: in particular every row has an    *)
(* address and a public key.                                               *)
(***************************************************************************)
THEOREM TypeCorrect == Spec => []TypeOK
<1>1. IInv => TypeOK
  BY DEF IInv
<1> QED  BY <1>1, Invariant, PTL

(***************************************************************************)
(* An address that NextClientAllowedIP offered stays apart from the other  *)
(* rows', unless a user was created or imported while the form was open.   *)
(***************************************************************************)
THEOREM OfferedAddressesStayApart == Spec => []AllocatedApart
<1>1. IInv => AllocatedApart
  BY DEF IInv
<1> QED  BY <1>1, Invariant, PTL

-----------------------------------------------------------------------------
(* What steps do to keys. *)

Edits(p) ==
  \E name \in Names, e \in BOOLEAN, k \in Keys \cup {None}, extra \in Extras :
    EditWrite(p, name, extra, k, e)

\* An edit ends by being written, or with the rows as they were.
LEMMA EditEnds ==
  ASSUME TypeOK, [Next]_vars, NEW p \in Procs, At(p, "edit"), ~At(p, "edit")'
  PROVE  Edits(p) \/ users' = users
<1>1. ASSUME NEW q \in Procs, Enter(q) PROVE users' = users
  BY <1>1 DEF Enter, ReadRange, EditRead, GeneratePost, ImportPost, Post
<1>2. ASSUME NEW q \in Procs, Store(q) PROVE Edits(p) \/ users' = users
  <2>1. PICK name \in Names, e \in BOOLEAN :
          \/ \E i \in Ids, k \in Keys : \/ \E ips \in Lists : CreateWith(q, i, name, ips, k, e)
                                        \/ \E extra \in Extras : Create(q, i, name, extra, k, e)
          \/ \E k \in Keys \cup {None}, extra \in Extras : EditWrite(q, name, extra, k, e)
    BY <1>2 DEF Store
  <2>2. CASE \E i \in Ids, k \in Keys, ips \in Lists : CreateWith(q, i, name, ips, k, e)
    BY <2>2 DEF CreateWith, At
  <2>3. CASE \E i \in Ids, k \in Keys, extra \in Extras : Create(q, i, name, extra, k, e)
    BY <2>3 DEF Create, End, Goto, At, TypeOK
  <2>4. CASE \E k \in Keys \cup {None}, extra \in Extras : EditWrite(q, name, extra, k, e)
    <3>1. CASE q = p
      BY <2>4, <3>1 DEF Edits
    <3>2. CASE q # p
      BY <2>4, <3>2 DEF EditWrite, End, Goto, At, TypeOK
    <3> QED  BY <3>1, <3>2
  <2> QED  BY <2>1, <2>2, <2>3, <2>4
<1>3. ASSUME NEW q \in Procs, Work(q) PROVE users' = users
  <2>1. CASE ImportPeer(q)
    BY <2>1 DEF ImportPeer, At
  <2> QED  BY <1>3, <2>1 DEF Work, ReadUsed, SaveWizard, ImportDone, GiveUp
<1>4. CASE \E i \in Ids : Toggle(i) \/ Delete(i)
  BY <1>4 DEF Toggle, Delete, At
<1>5. CASE (\E n \in Nets : SaveSettings(n)) \/ Restart \/ UNCHANGED vars
  BY <1>5 DEF SaveSettings, Restart, vars
<1> QED  BY <1>1, <1>2, <1>3, <1>4, <1>5 DEF Next

\* Keys part in no step but one of an import.
Keeps(i) == Paired(users'[i]) \/ (i \in Live /\ ~Paired(users[i]))

\* A new row with a pair of keys parts no keys.
LEMMA InsertKeeps ==
  ASSUME NEW i \in Ids, NEW r, Paired(r), Insert(i, r), NEW j \in Live' PROVE Keeps(j)
<1>1. j \in Live \cup {i} /\ users'[j] = IF j = i THEN r ELSE users[j]
  BY DEF Insert, Live
<1> QED  BY <1>1 DEF Keeps

\* An edit parts no keys: it stores both of a pair or neither.
LEMMA EditKeeps ==
  ASSUME IInv, NEW p \in Procs, Edits(p), NEW j \in Live' PROVE Keeps(j)
<1> DEFINE i == buf[p].id
<1>1. PICK name \in Names, e \in BOOLEAN, k \in Keys \cup {None}, extra \in Extras :
        EditWrite(p, name, extra, k, e)
  BY DEF Edits
<1>2. CASE i \notin Live
  BY <1>1, <1>2 DEF EditWrite, Keeps, Live
<1>3. CASE i \in Live
  <2> DEFINE r == Edited(buf[p], users[i], name, extra, k, e)
  <2>1. /\ users[i] \in Row /\ buf[p] \in Buf /\ buf[p].tunnel \in Parts
        /\ users' = [users EXCEPT ![i] = r]
    BY <1>1, <1>3 DEF EditWrite, IInv, TypeOK, Knows, EditKnows
  <2>2. Paired(users[i]) => Paired(r)
    BY <2>1, EditedRow
  <2> HIDE DEF r
  <2>3. j \in Live /\ users'[j] = IF j = i THEN r ELSE users[j]
    BY <1>3, <2>1 DEF Live
  <2> QED  BY <2>2, <2>3 DEF Keeps
<1> QED  BY <1>2, <1>3

\* A step that parts a row's keys reads a peer of an import.
LEMMA StepKeeps ==
  ASSUME IInv, [Next]_vars, NEW j \in Live'
  PROVE  Keeps(j) \/ \E p \in Procs : At(p, "peers") /\ buf'[p].left # buf[p].left
<1>1. CASE users' = users
  BY <1>1 DEF Keeps, Live
<1>2. ASSUME NEW p \in Procs, Store(p) PROVE Keeps(j)
  <2>1. PICK name \in Names, e \in BOOLEAN :
          \/ \E i \in Ids, k \in Keys : \/ \E ips \in Lists : CreateWith(p, i, name, ips, k, e)
                                        \/ \E extra \in Extras : Create(p, i, name, extra, k, e)
          \/ \E k \in Keys \cup {None}, extra \in Extras : EditWrite(p, name, extra, k, e)
    BY <1>2 DEF Store
  <2>2. ASSUME NEW i \in Ids, NEW k \in Keys, NEW ips,
               Insert(i, [name |-> name, ips |-> ips, priv |-> k, pub |-> k, en |-> e])
        PROVE  Keeps(j)
    <3> DEFINE r == [name |-> name, ips |-> ips, priv |-> k, pub |-> k, en |-> e]
    <3>1. Paired(r)
      BY DEF Paired
    <3> HIDE DEF r
    <3> QED  BY <2>2, <3>1, InsertKeeps DEF r
  <2>3. CASE \E i \in Ids, k \in Keys, ips \in Lists : CreateWith(p, i, name, ips, k, e)
    BY <2>2, <2>3 DEF CreateWith
  <2>4. CASE \E i \in Ids, k \in Keys, extra \in Extras : Create(p, i, name, extra, k, e)
    BY <2>2, <2>4 DEF Create
  <2>5. CASE \E k \in Keys \cup {None}, extra \in Extras : EditWrite(p, name, extra, k, e)
    BY <2>5, EditKeeps DEF Edits
  <2> QED  BY <2>1, <2>3, <2>4, <2>5
<1>3. ASSUME NEW p \in Procs, ImportPeer(p)
      PROVE  At(p, "peers") /\ buf'[p].left # buf[p].left
  <2>1. /\ At(p, "peers") /\ buf[p] \in Buf /\ buf[p].left \in Seq(Peer)
        /\ buf[p].left # <<>> /\ buf' = [buf EXCEPT ![p].left = Tail(@)]
    BY <1>3 DEF ImportPeer, IInv, TypeOK, Buf
  <2>2. buf'[p].left = Tail(buf[p].left)
    BY <2>1 DEF IInv, TypeOK, Buf
  <2>3. Len(Tail(buf[p].left)) # Len(buf[p].left)
    BY <2>1, HeadTailProperties, LenProperties
  <2> QED  BY <2>1, <2>2, <2>3
<1>4. ASSUME NEW i \in Ids, Toggle(i) PROVE Keeps(j)
  <2>1. j \in Live /\ users[j] \in Row
    BY <1>4 DEF Toggle, Live, IInv, TypeOK
  <2>2. users'[j] = users[j] \/ users'[j] = [users[j] EXCEPT !.en = ~@]
    BY <1>4, <2>1 DEF Toggle, Live
  <2>3. users'[j].priv = users[j].priv /\ users'[j].pub = users[j].pub
    BY <2>1, <2>2 DEF Row
  <2> QED  BY <2>1, <2>3 DEF Keeps, Paired
<1>5. ASSUME NEW i \in Ids, Delete(i) PROVE Keeps(j)
  BY <1>5 DEF Delete, Keeps, Live
<1>6. ASSUME NEW p \in Procs, Enter(p) PROVE users' = users
  BY <1>6 DEF Enter, ReadRange, EditRead, GeneratePost, ImportPost, Post
<1>7. ASSUME NEW p \in Procs, Work(p), ~ImportPeer(p) PROVE users' = users
  BY <1>7 DEF Work, ReadUsed, SaveWizard, ImportDone, GiveUp
<1>8. CASE (\E n \in Nets : SaveSettings(n)) \/ Restart \/ UNCHANGED vars
  BY <1>1, <1>8 DEF SaveSettings, Restart, vars
<1> QED  BY <1>1, <1>2, <1>3, <1>4, <1>5, <1>6, <1>7, <1>8 DEF Next

(***************************************************************************)
(* For any browsers, keys and texts, an edit that nothing overtook keeps   *)
(* the tunnel address of its row and sets keys only where there is no      *)
(* private key, as a pair: what UserUpdatePost has read is still so when   *)
(* it writes.  Rows without a private key get no promise that the public   *)
(* key stays.                                                              *)
(***************************************************************************)
THEOREM KeysSetOnce == Spec => EditsSetKeysOnce
<1>1. ASSUME IInv, [Next]_vars, NEW p \in Procs, At(p, "edit"), ~At(p, "edit")',
             p \notin upset, buf[p].id \in Live
      PROVE  LET r == users[buf[p].id]  new == users'[buf[p].id]
             IN  /\ <<new.priv, new.pub>> # <<r.priv, r.pub>> =>
                      r.priv = None /\ new.priv # None /\ new.pub = new.priv
                 /\ r.ips # <<>> => Tunnel(new) = Tunnel(r)
  <2> DEFINE i == buf[p].id
  <2>1. CASE users' = users
    BY <2>1
  <2>2. CASE Edits(p)
    <3>1. PICK name \in Names, e \in BOOLEAN, k \in Keys \cup {None}, extra \in Extras :
            EditWrite(p, name, extra, k, e)
      BY <2>2 DEF Edits
    <3> DEFINE r == Edited(buf[p], users[i], name, extra, k, e)
    <3>2. /\ users[i] \in Row /\ buf[p] \in Buf /\ buf[p].tunnel \in Parts
          /\ users' = [users EXCEPT ![i] = r]
          /\ buf[p].tunnel = Tunnel(users[i]) /\ buf[p].priv = users[i].priv
      BY <1>1, <3>1 DEF EditWrite, IInv, TypeOK, Knows, EditKnows
    <3>3. /\ Tunnel(r) = buf[p].tunnel
          /\ <<r.priv, r.pub>> # <<users[i].priv, users[i].pub>> =>
               buf[p].priv = None /\ r.priv # None /\ r.pub = r.priv
      BY <3>2, EditedRow, EditedKeys
    <3> HIDE DEF r
    <3>4. users'[i] = r
      BY <1>1, <3>2 DEF Live
    <3> QED  BY <3>2, <3>3, <3>4
  <2> QED  BY <1>1, <2>1, <2>2, EditEnds DEF IInv
<1>2. IInv /\ [Next]_vars =>
        [\A p \in Procs :
           At(p, "edit") /\ ~At(p, "edit")' /\ p \notin upset /\ buf[p].id \in Live =>
             LET r == users[buf[p].id]  new == users'[buf[p].id]
             IN  /\ <<new.priv, new.pub>> # <<r.priv, r.pub>> =>
                      r.priv = None /\ new.priv # None /\ new.pub = new.priv
                 /\ r.ips # <<>> => Tunnel(new) = Tunnel(r)]_vars
  BY <1>1
<1> QED  BY <1>2, Invariant, PTL DEF Spec, EditsSetKeysOnce

(***************************************************************************)
(* A key pair is parted by an import and by nothing else: every other      *)
(* handler stores both keys of a pair, or neither.                         *)
(***************************************************************************)
THEOREM KeysStayTogether == Spec => OnlyImportsPartKeys
<1>1. IInv /\ [Next]_vars =>
        [\A i \in Live' : ~Paired(users'[i]) /\ (i \in Live => Paired(users[i])) =>
           \E p \in Procs : At(p, "peers") /\ buf'[p].left # buf[p].left]_vars
  BY StepKeeps DEF Keeps
<1> QED  BY <1>1, Invariant, PTL DEF Spec, OnlyImportsPartKeys

-----------------------------------------------------------------------------
(* The parser on the files of Clients. *)

(***************************************************************************)
(* ParseWGQuickConfig reads what the file says, whatever files are given.  *)
(***************************************************************************)
THEOREM TextsAreRead == Spec => []ReadsWhatTextSays
<1>1. \A text \in Texts : Says(text, ParsedPeers(text))
  BY ClientsAssumption, ParserReads
<1>2. ReadsWhatTextSays
  BY <1>1 DEF ReadsWhatTextSays
<1> QED  BY <1>2, PTL

-----------------------------------------------------------------------------
(* Users are finitely many and no two have the same name: so the statements *)
(* see to it, and so the peers of wg0.conf can be told apart.                *)

NamesApart == \A i, j \in Live : users[i].name = users[j].name => i = j

RowsApart == IsFiniteSet(Live) /\ NamesApart

\* A row that is written has a name of its own.
LEMMA NamedRow ==
  ASSUME RowsApart, NEW i, NEW r, Named(r.name, i),
         users' = [j \in Live \cup {i} |-> IF j = i THEN r ELSE users[j]]
  PROVE  RowsApart'
<1>1. Live' = Live \cup {i} /\ \A j \in Live' : users'[j] = IF j = i THEN r ELSE users[j]
  BY DEF Live
<1>2. IsFiniteSet(Live \cup {i})
  BY FS_AddElement DEF RowsApart
<1>3. ASSUME NEW j \in Live', NEW k \in Live', users'[j].name = users'[k].name PROVE j = k
  <2>1. CASE j # i /\ k # i
    BY <1>1, <1>3, <2>1 DEF RowsApart, NamesApart
  <2>2. CASE j = i \/ k = i
    BY <1>1, <1>3, <2>2 DEF Named
  <2> QED  BY <2>1, <2>2
<1> QED  BY <1>1, <1>2, <1>3 DEF RowsApart, NamesApart

\* An edit keeps names apart: the column is unique.
LEMMA EditNamed ==
  ASSUME RowsApart, NEW p \in Procs, Edits(p) PROVE RowsApart'
<1> DEFINE i == buf[p].id
<1>1. PICK name \in Names, e \in BOOLEAN, k \in Keys \cup {None}, extra \in Extras :
        EditWrite(p, name, extra, k, e)
  BY DEF Edits
<1>2. CASE i \notin Live
  BY <1>1, <1>2 DEF EditWrite, RowsApart, NamesApart, Live
<1>3. CASE i \in Live
  <2> DEFINE r == Edited(buf[p], users[i], name, extra, k, e)
  <2>1. users' = [users EXCEPT ![i] = r] /\ Named(name, i)
    BY <1>1, <1>3 DEF EditWrite
  <2>2. r.name = name
    BY DEF Edited
  <2> HIDE DEF r
  <2>3. users' = [j \in Live \cup {i} |-> IF j = i THEN r ELSE users[j]]
    BY <1>3, <2>1 DEF Live
  <2> QED  BY <2>1, <2>2, <2>3, NamedRow
<1> QED  BY <1>2, <1>3

\* An import keeps names apart: it updates the row of a name it finds.
LEMMA ImportNamed ==
  ASSUME RowsApart, NEW p \in Procs, ImportPeer(p) PROVE RowsApart'
<1> DEFINE e == Head(buf[p].left)
           same == {i \in Live : users[i].name = ImportName(e)}
<1>1. CASE users' = users
  BY <1>1 DEF RowsApart, NamesApart, Live
<1>2. CASE users' # users
  <2>1. PICK i \in IF same = {} THEN {j \in Ids : NewId(j)} ELSE same :
          users' = [j \in Live \cup {i} |->
                     IF j # i THEN users[j]
                     ELSE ImportedRow(e, IF same = {} THEN None ELSE users[i])]
    BY <1>2 DEF ImportPeer
  <2> DEFINE r == ImportedRow(e, IF same = {} THEN None ELSE users[i])
  <2>2. r.name = ImportName(e)
    BY DEF ImportedRow
  <2>3. Named(ImportName(e), i)
    BY <2>1 DEF Named, RowsApart, NamesApart
  <2> HIDE DEF r
  <2>4. users' = [j \in Live \cup {i} |-> IF j = i THEN r ELSE users[j]]
    BY <2>1 DEF r
  <2> QED  BY <2>2, <2>3, <2>4, NamedRow
<1> QED  BY <1>1, <1>2

\* Every step keeps names apart and the rows finitely many.
LEMMA NextApart == TypeOK /\ RowsApart /\ [Next]_vars => RowsApart'
<1> SUFFICES ASSUME TypeOK, RowsApart, [Next]_vars PROVE RowsApart'
  OBVIOUS
<1>1. CASE users' = users
  BY <1>1 DEF RowsApart, NamesApart, Live
<1>2. ASSUME NEW p \in Procs, Store(p) PROVE RowsApart'
  <2>1. PICK name \in Names, e \in BOOLEAN :
          \/ \E i \in Ids, k \in Keys : \/ \E ips \in Lists : CreateWith(p, i, name, ips, k, e)
                                        \/ \E extra \in Extras : Create(p, i, name, extra, k, e)
          \/ \E k \in Keys \cup {None}, extra \in Extras : EditWrite(p, name, extra, k, e)
    BY <1>2 DEF Store
  <2>2. ASSUME NEW i \in Ids, NEW r, Insert(i, r) PROVE RowsApart'
    BY <2>2, NamedRow DEF Insert
  <2>3. CASE \E i \in Ids, k \in Keys, ips \in Lists : CreateWith(p, i, name, ips, k, e)
    BY <2>2, <2>3 DEF CreateWith
  <2>4. CASE \E i \in Ids, k \in Keys, extra \in Extras : Create(p, i, name, extra, k, e)
    BY <2>2, <2>4 DEF Create
  <2>5. CASE \E k \in Keys \cup {None}, extra \in Extras : EditWrite(p, name, extra, k, e)
    BY <2>5, EditNamed DEF Edits
  <2> QED  BY <2>1, <2>3, <2>4, <2>5
<1>3. ASSUME NEW i \in Ids, Toggle(i) PROVE RowsApart'
  <2> DEFINE r == [users[i] EXCEPT !.en = ~@]
  <2>1. i \in Live /\ users[i] \in Row /\ users' = [users EXCEPT ![i] = r]
    BY <1>3 DEF Toggle, TypeOK
  <2>2. r.name = users[i].name
    BY <2>1 DEF Row
  <2> HIDE DEF r
  <2>3. users' = [j \in Live \cup {i} |-> IF j = i THEN r ELSE users[j]]
    BY <2>1 DEF Live
  <2>4. Named(r.name, i)
    BY <2>1, <2>2 DEF Named, RowsApart, NamesApart
  <2> QED  BY <2>3, <2>4, NamedRow
<1>4. ASSUME NEW i \in Ids, Delete(i) PROVE RowsApart'
  <2>1. Live' = Live \ {i} /\ \A j \in Live' : users'[j] = users[j]
    BY <1>4 DEF Delete, Live
  <2>2. IsFiniteSet(Live \ {i})
    BY FS_RemoveElement DEF RowsApart
  <2> QED  BY <2>1, <2>2 DEF RowsApart, NamesApart
<1>5. ASSUME NEW p \in Procs, Enter(p) PROVE users' = users
  BY <1>5 DEF Enter, ReadRange, EditRead, GeneratePost, ImportPost, Post
<1>6. ASSUME NEW p \in Procs, Work(p), ~ImportPeer(p) PROVE users' = users
  BY <1>6 DEF Work, ReadUsed, SaveWizard, ImportDone, GiveUp
<1>7. CASE (\E n \in Nets : SaveSettings(n)) \/ Restart \/ UNCHANGED vars
  BY <1>1, <1>7 DEF SaveSettings, Restart, vars
<1> QED  BY <1>1, <1>2, <1>3, <1>4, <1>5, <1>6, <1>7, ImportNamed DEF Next

\* Names are apart, and the rows finitely many, in every state.
LEMMA Apartness == Spec => []RowsApart
<1>1. Init => RowsApart
  <2> SUFFICES ASSUME Init PROVE RowsApart
    OBVIOUS
  <2>1. Live = {}
    BY DEF Init, Live
  <2> QED  BY <2>1, FS_EmptySet DEF RowsApart, NamesApart
<1> QED  BY <1>1, NextApart, TypeCorrect, PTL DEF Spec

\* A finite set as a sequence: every element once.
LEMMA SetAsSeq ==
  ASSUME NEW S, IsFiniteSet(S)
  PROVE  /\ SetToSeq(S) \in Seq(S) /\ \A x \in S : \E n \in DOMAIN SetToSeq(S) : SetToSeq(S)[n] = x
         /\ \A n, m \in DOMAIN SetToSeq(S) : SetToSeq(S)[n] = SetToSeq(S)[m] => n = m
<1> DEFINE n == Cardinality(S)
           s == SetToSeq(S)
<1>1. n \in Nat /\ ExistsBijection(1..n, S)
  BY FS_CardinalityType
<1>2. PICK f : f \in Injection(1..n, S)
  BY <1>1 DEF ExistsBijection, Bijection
<1>3. s \in [1..n -> S] /\ IsInjective(s)
  BY <1>2 DEF SetToSeq, Injection
<1> HIDE DEF s, n
<1>4. s \in Injection(1..n, S)
  BY <1>3 DEF Injection
<1>5. IsFiniteSet(1..n) /\ Cardinality(1..n) = n
  BY <1>1, FS_Interval
<1>6. s \in Surjection(1..n, S)
  BY <1>4, <1>5, FS_Injection DEF n
<1>7. s \in Seq(S) /\ DOMAIN s = 1..n
  BY <1>1, <1>3
<1> QED  BY <1>3, <1>6, <1>7 DEF s, Surjection, IsInjective

(***************************************************************************)
(* Importing the wg0.conf that NetPlug would write now restores exactly    *)
(* the users in it, and their names tell them apart.                       *)
(***************************************************************************)
THEOREM ReimportsRestore == Spec => []ReimportRestores
<1>1. TypeOK /\ RowsApart => ReimportRestores
  <2> SUFFICES ASSUME TypeOK, RowsApart, net # None
               PROVE  LET peers == ParsedPeers(Conf)
                      IN  /\ Parses(Conf)
                          /\ {peers[n] : n \in DOMAIN peers} =
                               {Restored(users[i]) : i \in {j \in Live : InConf(j)}}
                          /\ \A n, m \in DOMAIN peers : peers[n].name = peers[m].name => n = m
    BY DEF ReimportRestores
  <2> DEFINE I == {j \in Live : InConf(j)}
             S == {users[i] : i \in I}
             us == SetToSeq(S)
             peers == ParsedPeers(Conf)
  <2>1. IsFiniteSet(S)
    <3>1. IsFiniteSet(I)
      BY FS_Subset DEF RowsApart
    <3> DEFINE f == [i \in I |-> users[i]]
    <3>2. f \in Surjection(I, S)
      BY DEF Surjection
    <3> QED  BY <3>1, <3>2, FS_Surjection
  <2>2. /\ us \in Seq(S) /\ \A x \in S : \E n \in DOMAIN us : us[n] = x
        /\ \A n, m \in DOMAIN us : us[n] = us[m] => n = m
    BY <2>1, SetAsSeq
  <2>3. \A r \in S : PeerOf(r) = Restored(r)
    BY DEF PeerOf, Restored
  <2>4. net \in Nets /\ Conf = Rendered(net, us) /\ \A r \in S : r \in Row
    BY DEF TypeOK, Conf
  <2> HIDE DEF us, S
  <2>5. Storable(us, Names \cup Parts, Keys, AddressList)
    <3>1. Len(us) \in Nat /\ DOMAIN us = 1..Len(us) /\ \A n \in DOMAIN us : us[n] \in S
      BY <2>2, LenProperties, ElementOfSeq
    <3>2. \A r \in Row : Written(r, Names \cup Parts, Keys, AddressList)
      BY DEF Written, Row
    <3> QED  BY <2>4, <3>1, <3>2 DEF Storable
  <2>6. /\ Scanned(Conf).key = net /\ Len(peers) = Len(us)
        /\ \A n \in 1..Len(us) : peers[n] = PeerOf(us[n])
    <3> HIDE DEF peers
    <3>1. /\ Scanned(Rendered(net, us)).key = net
          /\ Len(ParsedPeers(Rendered(net, us))) = Len(us)
          /\ \A n \in 1..Len(us) : ParsedPeers(Rendered(net, us))[n] = PeerOf(us[n])
      BY <2>4, <2>5, WrittenIsRead
    <3> QED  BY <2>4, <3>1 DEF peers
  <2>7. DOMAIN peers = 1..Len(us) /\ DOMAIN us = 1..Len(us) /\ \A n \in DOMAIN us : us[n] \in S
    <3>1. Conf \in Seq(Lines(Names \cup Parts, Nets, Keys, AddressList))
      BY <2>4, <2>5, RenderedLines
    <3>2. peers \in Seq(PeersOf(Names \cup Parts, Keys, AddressList))
      BY <3>1, ParserReads DEF ParsedPeers, States
    <3>3. DOMAIN peers = 1..Len(peers)
      BY <3>2, LenProperties
    <3> QED  BY <2>2, <2>6, <3>3, LenProperties, ElementOfSeq
  <2>8. \A n \in DOMAIN us : peers[n] = Restored(us[n])
    BY <2>3, <2>6, <2>7
  <2>9. Parses(Conf)
    BY <2>6 DEF Parses
  <2>10. {peers[n] : n \in DOMAIN peers} = {Restored(r) : r \in S}
    BY <2>2, <2>7, <2>8
  <2>11. {Restored(r) : r \in S} = {Restored(users[i]) : i \in I}
    BY DEF S
  <2>12. ASSUME NEW n \in DOMAIN peers, NEW m \in DOMAIN peers, peers[n].name = peers[m].name
         PROVE  n = m
    <3>1. us[n].name = us[m].name /\ us[n] \in S /\ us[m] \in S
      BY <2>7, <2>8, <2>12 DEF Restored
    <3>2. us[n] = us[m]
      BY <3>1 DEF S, RowsApart, NamesApart
    <3> QED  BY <2>2, <2>7, <3>2
  <2> QED  BY <2>9, <2>10, <2>11, <2>12
<1> QED  BY <1>1, TypeCorrect, Apartness, PTL
=============================================================================
