--------------------------- MODULE Limits_proofs ---------------------------
(***************************************************************************)
(* Lemmas about the operators of Limits.                                   *)
(***************************************************************************)
EXTENDS Limits, WellFoundedInduction, TLAPS

\* n is the limit the rates in v amount to: none, or the least of them.
IsLeast(n, v) == IF v = {} THEN n = 0 ELSE n \in v /\ \A m \in v : n <= m

(***************************************************************************)
(* A classified row holds naturals (nz64, classifyRow).                    *)
(***************************************************************************)
LEMMA ClassifiedIsLimit ==
  ASSUME NEW r \in JoinRow
  PROVE  classifyRow(r) \in Limit
<1>1. ASSUME NEW v \in Int \cup {NULL} PROVE nz64(v) \in Nat
  BY <1>1, LimitsAssumption DEF nz64
<1>2. \A f \in Fields : nz64(r.rate[f]) \in Nat
  BY <1>1 DEF JoinRow, Rates
<1>. QED
  BY <1>2 DEF classifyRow, Limit

\* The rates that apply to an address are positive: zero is no limit.
LEMMA ValuesArePositive ==
  ASSUME NEW S \in SUBSET JoinRow, NEW a \in Addrs, NEW f \in Fields
  PROVE  Values(S, a, f) \in SUBSET (Nat \ {0})
BY ClassifiedIsLimit DEF Values, Limit

(***************************************************************************)
(* mergeMin adds one rate to the least of those seen so far.               *)
(***************************************************************************)
LEMMA MergeMinIsLeast ==
  ASSUME NEW v \in SUBSET (Nat \ {0}), NEW n \in Nat, NEW add \in Nat, IsLeast(n, v)
  PROVE  /\ mergeMin(n, add) \in Nat
         /\ IsLeast(mergeMin(n, add), v \cup ({add} \ {0}))
BY DEF IsLeast, mergeMin

(***************************************************************************)
(* What a further row adds to the values of a field.                       *)
(***************************************************************************)
LEMMA ValuesOfOneMore ==
  ASSUME NEW S \in SUBSET JoinRow, NEW r \in JoinRow, NEW a \in Addrs, NEW f \in Fields
  PROVE  Values(S \cup {r}, a, f) =
           IF Counts(r) /\ r.addr = a THEN Values(S, a, f) \cup ({classifyRow(r)[f]} \ {0})
           ELSE Values(S, a, f)
<1>1. CASE Counts(r) /\ r.addr = a
  <2>1. {x \in S \cup {r} : Counts(x) /\ x.addr = a}
          = {x \in S : Counts(x) /\ x.addr = a} \cup {r}
    BY <1>1
  <2>. QED
    BY <1>1, <2>1, Zenon DEF Values
<1>2. CASE ~(Counts(r) /\ r.addr = a)
  <2>1. {x \in S \cup {r} : Counts(x) /\ x.addr = a} = {x \in S : Counts(x) /\ x.addr = a}
    BY <1>2
  <2>. QED
    BY <1>2, <2>1, Zenon DEF Values
<1>. QED
  BY <1>1, <1>2

(***************************************************************************)
(* Every set of naturals that is not empty has a least element.            *)
(***************************************************************************)
LEMMA NatHasLeast ==
  ASSUME NEW v \in SUBSET Nat, v # {}
  PROVE  \E n \in v : \A m \in v : n <= m
<1>. DEFINE R == OpToRel(<, Nat)
<1>1. IsWellFoundedOn(R, Nat)
  BY NatLessThanWellFounded, Zenon
<1>2. \A a, b \in Nat : a < b => <<a, b>> \in R
  BY DEF OpToRel
<1>. HIDE DEF R
<1>3. PICK n \in v : \A m \in v : ~(<<m, n>> \in R)
  BY <1>1, WFMin
<1>4. \A m \in v : m \in Nat
  OBVIOUS
<1>5. ASSUME NEW m \in v PROVE n <= m
  <2>1. m \in Nat /\ n \in Nat /\ ~(m < n)
    BY <1>2, <1>3, <1>4
  <2>. QED
    BY <2>1
<1>. QED
  BY <1>5

(***************************************************************************)
(* The least value is unique, and Least names it.                          *)
(***************************************************************************)
LEMMA LeastIsLeast ==
  ASSUME NEW v \in SUBSET Nat, NEW x, IsLeast(x, v)
  PROVE  x = Least(v)
<1>1. CASE v = {}
  BY <1>1 DEF IsLeast, Least
<1>2. CASE v # {}
  <2>1. x \in v /\ \A m \in v : x <= m
    BY <1>2 DEF IsLeast
  <2>2. Least(v) \in v /\ \A m \in v : Least(v) <= m
    BY <1>2, <2>1 DEF Least
  <2>3. x \in Nat /\ Least(v) \in Nat
    BY <2>1, <2>2, Zenon
  <2>. QED
    BY <2>1, <2>2, <2>3
<1>. QED
  BY <1>1, <1>2

(***************************************************************************)
(* Strictest yields limits.                                                *)
(***************************************************************************)
LEMMA StrictestIsLimits ==
  ASSUME NEW S \in SUBSET JoinRow
  PROVE  Strictest(S) \in [Addrs -> Limit]
<1>1. ASSUME NEW v \in SUBSET Nat PROVE Least(v) \in Nat
  <2>1. CASE v = {}
    BY <2>1 DEF Least
  <2>2. CASE v # {}
    <3>1. Least(v) \in v
      BY <2>2, NatHasLeast DEF Least
    <3>. QED
      BY <3>1
  <2>. QED
    BY <2>1, <2>2
<1>2. ASSUME NEW a \in Addrs, NEW f \in Fields PROVE Least(Values(S, a, f)) \in Nat
  <2>1. Values(S, a, f) \in SUBSET Nat
    BY ValuesArePositive
  <2>. QED
    BY <1>1, <2>1
<1>. QED
  BY <1>2 DEF Strictest, Limit
=============================================================================
