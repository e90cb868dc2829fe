------------------------- MODULE PeerLimits_proofs -------------------------
(***************************************************************************)
(* LoadPeerLimits merges in any order to the strictest limits.  The        *)
(* inductive invariant says of every prefix of the scan what StrictestWins *)
(* says of its end.                                                        *)
(***************************************************************************)
EXTENDS PeerLimits, Limits_proofs

Scanned == rows \ left

IInv == /\ TypeOK
        /\ \A a \in Addrs, f \in Fields : IsLeast(out[a][f], Values(Scanned, a, f))

\* Before the first row nothing is limited.
LEMMA InitIInv == Init => IInv
<1>. SUFFICES ASSUME Init PROVE IInv
  OBVIOUS
<1>1. TypeOK
  BY DEF Init, TypeOK, NoLimit, Limit
<1>2. ASSUME NEW a \in Addrs, NEW f \in Fields
      PROVE  IsLeast(out[a][f], Values(Scanned, a, f))
  <2>1. Scanned = {}
    BY DEF Init, Scanned
  <2>2. Values({}, a, f) = {}
    BY DEF Values
  <2>. QED
    BY <2>1, <2>2 DEF Init, NoLimit, IsLeast
<1>. QED
  BY <1>1, <1>2 DEF IInv

\* One row more keeps the strictest limits of those scanned.
LEMMA NextIInv == IInv /\ [Next]_vars => IInv'
<1>. SUFFICES ASSUME IInv, [Next]_vars PROVE IInv'
  OBVIOUS
<1>1. ASSUME NEW r \in AllRows, Scan(r) PROVE IInv'
  <2>. DEFINE c == classifyRow(r)
  <2>0. r \in JoinRow
    BY AllRowsAssumption
  <2>1. c \in Limit
    BY <2>0, ClassifiedIsLimit
  <2>2. Scanned' = Scanned \cup {r} /\ Scanned \in SUBSET JoinRow
    BY <1>1, AllRowsAssumption DEF Scan, Scanned, IInv, TypeOK
  <2>3. Counts(r) => r.addr \in Addrs
    BY <2>0 DEF Counts, JoinRow
  <2>4. ASSUME NEW a \in Addrs, NEW f \in Fields
        PROVE  /\ Counts(r) /\ r.addr = a => out'[a][f] = mergeMin(out[a][f], c[f])
               /\ ~(Counts(r) /\ r.addr = a) => out'[a][f] = out[a][f]
    BY <1>1 DEF Scan, Merge, IInv, TypeOK, Limit
  <2>5. ASSUME NEW a \in Addrs, NEW f \in Fields
        PROVE  out'[a][f] \in Nat /\ IsLeast(out'[a][f], Values(Scanned', a, f))
    <3>1. IsLeast(out[a][f], Values(Scanned, a, f)) /\ out[a][f] \in Nat /\ c[f] \in Nat
      BY <2>1 DEF IInv, TypeOK, Limit
    <3>2. CASE Counts(r) /\ r.addr = a
      <4>1. Values(Scanned', a, f) = Values(Scanned, a, f) \cup ({c[f]} \ {0})
        BY <2>0, <2>2, <3>2, ValuesOfOneMore
      <4>2. Values(Scanned, a, f) \in SUBSET (Nat \ {0})
        BY <2>2, ValuesArePositive
      <4>3. /\ mergeMin(out[a][f], c[f]) \in Nat
            /\ IsLeast(mergeMin(out[a][f], c[f]), Values(Scanned, a, f) \cup ({c[f]} \ {0}))
        BY <3>1, <4>2, MergeMinIsLeast
      <4>. QED
        BY <2>4, <3>2, <4>1, <4>3
    <3>3. CASE ~(Counts(r) /\ r.addr = a)
      <4>1. Values(Scanned', a, f) = Values(Scanned, a, f)
        BY <2>0, <2>2, <3>3, ValuesOfOneMore
      <4>2. out'[a][f] = out[a][f]
        BY <2>4, <3>3
      <4>. QED
        BY <3>1, <4>1, <4>2
    <3>. QED
      BY <3>2, <3>3
  <2>6. TypeOK'
    <3>1. ASSUME NEW a \in Addrs PROVE out'[a] \in Limit
      BY <1>1, <2>5 DEF Scan, Merge, IInv, TypeOK, Limit
    <3>. QED
      BY <1>1, <3>1 DEF Scan, IInv, TypeOK
  <2>7. \A a \in Addrs, f \in Fields : IsLeast(out[a][f], Values(Scanned, a, f))'
    BY <2>5 DEF Scanned, Values
  <2>. QED
    BY <2>6, <2>7 DEF IInv
<1>2. CASE UNCHANGED vars
  BY <1>2 DEF vars, IInv, TypeOK, Scanned, Values
<1>. QED
  BY <1>1, <1>2 DEF Next

(***************************************************************************)
(* For every set of rows and every order of scanning them, LoadPeerLimits  *)
(* ends with the strictest limit of each address (StrictestWins).          *)
(***************************************************************************)
THEOREM StrictestAlwaysWins == Spec => []StrictestWins
<1>1. IInv => StrictestWins
  <2>. SUFFICES ASSUME IInv, left = {} PROVE out = Strictest(rows)
    BY DEF StrictestWins
  <2>1. Scanned = rows /\ rows \in SUBSET JoinRow
    BY AllRowsAssumption DEF Scanned, IInv, TypeOK
  <2>2. ASSUME NEW a \in Addrs, NEW f \in Fields
        PROVE  out[a][f] = Least(Values(rows, a, f))
    BY <2>1, ValuesArePositive, LeastIsLeast DEF IInv
  <2>3. ASSUME NEW a \in Addrs PROVE out[a] = Strictest(rows)[a]
    <3>1. out[a] = [f \in Fields |-> out[a][f]]
      BY DEF IInv, TypeOK, Limit
    <3>. QED
      BY <2>2, <3>1, Zenon DEF Strictest
  <2>. QED
    BY <2>3 DEF IInv, TypeOK, Strictest
<1>. QED
  BY InitIInv, NextIInv, <1>1, PTL DEF Spec
=============================================================================
