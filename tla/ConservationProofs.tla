------------------------- MODULE ConservationProofs -------------------------
(***************************************************************************)
(* The MySQL store neither makes nor loses chips, for any finite number of *)
(* tables, users and keys: every wallet is what its ledger rows say, and   *)
(* wallets and seats together always hold what the users began with.       *)
(***************************************************************************)
EXTENDS StoreProofs, FiniteSetTheorems

-----------------------------------------------------------------------------
(* Sums over finite sets.  MapThenSumSet takes the elements in the order of CHOOSE; *)
(* induction over the parts of a finite set shows that the order does not matter. *)

\* The element that MapThenFoldSet takes first.
Pick(s) == CHOOSE x \in s : TRUE

\* h gives the sum of f over each part of S, as MapThenFoldSet computes it.
Sums(h, f, S) ==
  h = [s \in SUBSET S |-> IF s = {} THEN 0 ELSE f[Pick(s)] + h[s \ {Pick(s)}]]

\* A set of parts of S which has a part whenever it has all smaller ones is all
\* of them.
LEMMA PartsInduction ==
  ASSUME NEW S, IsFiniteSet(S), NEW T,
         \A s \in SUBSET S : (\A r \in SUBSET S : r \subseteq s /\ r # s => r \in T) => s \in T
  PROVE  SUBSET S \subseteq T
<1> DEFINE Bad == (SUBSET S) \ T
<1>1. IsWellFoundedOn(StrictSubsetOrdering(S), SUBSET S)
  BY FS_StrictSubsetOrderingWellFounded, FS_FiniteSubsetsOfFinite, Zenon
<1>2. ASSUME Bad # {} PROVE FALSE
  <2>1. PICK s \in Bad : \A r \in Bad : ~(<<r, s>> \in StrictSubsetOrdering(S))
    <3> HIDE DEF Bad
    <3>1. Bad \subseteq SUBSET S
      BY DEF Bad
    <3> QED BY <1>1, <1>2, <3>1, WFMin
  <2>2. \A r \in SUBSET S : r \subseteq s /\ r # s => r \in T
    BY <2>1, Zenon DEF StrictSubsetOrdering
  <2>3. s \in SUBSET S /\ s \notin T
    BY <2>1
  <2>4. s \in T
    BY <2>2, <2>3, Zenon
  <2> QED BY <2>3, <2>4
<1> QED BY <1>2, Zenon

\* Where two functions agree, so do their sums.
LEMMA SumsAgree ==
  ASSUME NEW S, IsFiniteSet(S), NEW R \in SUBSET S, NEW f, NEW h, Sums(h, f, S),
         NEW g, NEW k, Sums(k, g, R), \A x \in R : f[x] = g[x]
  PROVE  \A s \in SUBSET R : h[s] = k[s]
<1> DEFINE T == {s \in SUBSET R : h[s] = k[s]}
<1>1. IsFiniteSet(R)
  BY FS_Subset
<1>2. ASSUME NEW s \in SUBSET R, \A r \in SUBSET R : r \subseteq s /\ r # s => r \in T
      PROVE  s \in T
  <2>1. CASE s = {}
    BY <2>1 DEF Sums
  <2>2. CASE s # {}
    <3>1. Pick(s) \in s
      BY <2>2 DEF Pick
    <3> DEFINE p == Pick(s)
    <3> HIDE DEF p
    <3>2. s \ {p} \in SUBSET R /\ s \ {p} \subseteq s /\ s \ {p} # s /\ s \in SUBSET S /\ p \in R
      BY <3>1 DEF p
    <3>3. h[s \ {p}] = k[s \ {p}]
      BY <1>2, <3>2
    <3>4. h[s] = f[p] + h[s \ {p}] /\ k[s] = g[p] + k[s \ {p}]
      BY <2>2, <3>2, Zenon DEF Sums, p
    <3> QED BY <3>2, <3>3, <3>4
  <2> QED BY <2>1, <2>2
<1> HIDE DEF T
<1>3. SUBSET R \subseteq T
  BY <1>1, <1>2, PartsInduction, Zenon
<1> QED BY <1>3 DEF T

\* There is one.
LEMMA SumsExist ==
  ASSUME NEW S, IsFiniteSet(S), NEW f
  PROVE  \E h : Sums(h, f, S)
<1> DEFINE T == {s \in SUBSET S : \E h : Sums(h, f, s)}
<1>1. ASSUME NEW s \in SUBSET S, \A r \in SUBSET S : r \subseteq s /\ r # s => r \in T
      PROVE  s \in T
  <2> DEFINE of(r) == CHOOSE h : Sums(h, f, r)
             low == [r \in SUBSET s |-> IF r = s THEN 0 ELSE of(r)[r]]
             at(r) == IF r = {} THEN 0 ELSE f[Pick(r)] + low[r \ {Pick(r)}]
             all == [r \in SUBSET s |-> at(r)]
  <2>1. \A r \in SUBSET s : r # s => Sums(of(r), f, r)
    BY <1>1
  <2>2. ASSUME NEW r \in SUBSET s, r # s PROVE low[r] = at(r)
    <3>1. low[r] = of(r)[r] /\ Sums(of(r), f, r)
      BY <2>1, <2>2
    <3>2. CASE r = {}
      BY <3>1, <3>2, Zenon DEF Sums
    <3>3. CASE r # {}
      <4>1. Pick(r) \in r
        BY <3>3 DEF Pick
      <4> DEFINE p == Pick(r)
      <4> HIDE DEF p
      <4>2. r \ {p} \in SUBSET r /\ r \ {p} \in SUBSET s /\ r \ {p} # s /\ IsFiniteSet(r)
        BY <2>2, <4>1, FS_Subset DEF p
      <4>3. Sums(of(r \ {p}), f, r \ {p}) /\ low[r \ {p}] = of(r \ {p})[r \ {p}]
        BY <2>1, <4>2
      <4> HIDE DEF of
      <4>4. of(r \ {p})[r \ {p}] = of(r)[r \ {p}]
        <5> PICK R : R = r \ {p}
          BY Zenon
        <5> PICK h, k : h = of(r) /\ k = of(R)
          OBVIOUS
        <5>1. IsFiniteSet(r) /\ R \in SUBSET r /\ R \in SUBSET R /\ Sums(h, f, r) /\ Sums(k, f, R)
          BY <3>1, <4>2, <4>3
        <5>2. \A q \in SUBSET R : h[q] = k[q]
          BY <5>1, SumsAgree
        <5> QED BY <5>1, <5>2, Zenon
      <4>5. of(r)[r] = f[p] + of(r)[r \ {p}]
        BY <3>1, <3>3, Zenon DEF Sums, p
      <4> QED BY <3>1, <3>3, <4>3, <4>4, <4>5 DEF p
    <3> QED BY <3>2, <3>3
  <2>3. \A r \in SUBSET s : all[r] = at(r)
    OBVIOUS
  <2>4. \A r \in SUBSET s : r # s => low[r] = all[r]
    BY <2>2, <2>3, Zenon
  <2> HIDE DEF low, all
  <2>5. ASSUME NEW r \in SUBSET s, r # {}
        PROVE  all[r] = f[Pick(r)] + all[r \ {Pick(r)}]
    <3>1. Pick(r) \in r
      BY <2>5 DEF Pick
    <3>2. r \ {Pick(r)} \in SUBSET s /\ r \ {Pick(r)} # s
      BY <3>1
    <3>3. low[r \ {Pick(r)}] = all[r \ {Pick(r)}]
      BY <2>4, <3>2
    <3> QED BY <2>3, <2>5, <3>3
  <2>6. \A r \in SUBSET s : all[r] = IF r = {} THEN 0 ELSE f[Pick(r)] + all[r \ {Pick(r)}]
    BY <2>3, <2>5, Zenon
  <2>7. all = [r \in SUBSET s |-> all[r]]
    BY DEF all
  <2>8. Sums(all, f, s)
    BY <2>6, <2>7, Zenon DEF Sums
  <2> QED BY <2>8
<1> HIDE DEF T
<1>2. SUBSET S \subseteq T
  BY <1>1, PartsInduction, Zenon
<1> QED BY <1>2 DEF T

\* SumOf is such a sum.
LEMMA SumOfSums ==
  ASSUME NEW f, IsFiniteSet(DOMAIN f)
  PROVE  \E h : Sums(h, f, DOMAIN f) /\ SumOf(f) = h[DOMAIN f]
<1>1. PICK h : Sums(h, f, DOMAIN f)
  BY SumsExist
<1> DEFINE iter == CHOOSE i : i = [s \in SUBSET DOMAIN f |->
                                     IF s = {} THEN 0
                                     ELSE f[CHOOSE x \in s : TRUE] + i[s \ {CHOOSE x \in s : TRUE}]]
<1>2. SumOf(f) = iter[DOMAIN f]
  BY DEF SumOf, MapThenSumSet, MapThenFoldSet
<1>3. Sums(iter, f, DOMAIN f)
  BY <1>1, Zenon DEF Sums, Pick
<1> QED BY <1>2, <1>3, Zenon

\* What is used of such a function.
Totals(h, f, S) ==
  /\ h[{}] = 0
  /\ \A s \in SUBSET S : h[s] \in Int /\ \A x \in s : h[s] = f[x] + h[s \ {x}]

\* Any element may be taken first: the order does not matter.
LEMMA SumsTake ==
  ASSUME NEW S, IsFiniteSet(S), NEW f \in [S -> Int], NEW h, Sums(h, f, S)
  PROVE  Totals(h, f, S)
<1> DEFINE T == {s \in SUBSET S : h[s] \in Int /\ \A x \in s : h[s] = f[x] + h[s \ {x}]}
<1>1. ASSUME NEW s \in SUBSET S, \A r \in SUBSET S : r \subseteq s /\ r # s => r \in T
      PROVE  s \in T
  <2>1. CASE s = {}
    BY <2>1 DEF Sums
  <2>2. CASE s # {}
    <3>1. Pick(s) \in s
      BY <2>2 DEF Pick
    <3> DEFINE p == Pick(s)
    <3>2. h[s] = f[p] + h[s \ {p}]
      BY <2>2, Zenon DEF Sums
    <3> HIDE DEF p
    <3>3. p \in s
      BY <3>1 DEF p
    <3>4. \A x \in s : s \ {x} \in T
      BY <1>1
    <3>5. h[s] \in Int
      BY <3>2, <3>3, <3>4
    <3>6. ASSUME NEW x \in s, x # p PROVE h[s] = f[x] + h[s \ {x}]
      <4> PICK u, v, w : u = (s \ {p}) \ {x} /\ v = s \ {p} /\ w = s \ {x}
        BY Zenon
      <4>1. u = v \ {x} /\ u = w \ {p} /\ x \in v /\ p \in w
        BY <3>3, <3>6
      <4>2. u \in T /\ v \in T /\ w \in T
        BY <1>1, <3>3, <3>4
      <4>3. h[v] = f[x] + h[u] /\ h[w] = f[p] + h[u]
        BY <4>1, <4>2, Zenon
      <4>4. f[x] \in Int /\ f[p] \in Int /\ h[u] \in Int
        BY <3>3, <4>2
      <4>5. h[s] = f[p] + h[v]
        BY <3>2
      <4>6. h[s] = f[x] + h[w]
        BY <4>3, <4>4, <4>5
      <4> QED BY <4>6
    <3> QED BY <3>2, <3>5, <3>6, Zenon
  <2> QED BY <2>1, <2>2, Zenon
<1> HIDE DEF T
<1>2. SUBSET S \subseteq T
  BY <1>1, PartsInduction, Zenon
<1>3. h[{}] = 0
  BY DEF Sums
<1> QED BY <1>2, <1>3, Zenon DEF T, Totals

\* SumOf is the total of all.
LEMMA SumTakes ==
  ASSUME NEW S, IsFiniteSet(S), NEW f \in [S -> Int]
  PROVE  \E h : SumOf(f) = h[S] /\ Totals(h, f, S)
<1>1. PICK h : Sums(h, f, S) /\ SumOf(f) = h[S]
  BY SumOfSums
<1> QED BY <1>1, SumsTake

\* A sum of whole numbers is one.
LEMMA SumIsInt ==
  ASSUME NEW S, IsFiniteSet(S), NEW f \in [S -> Int]
  PROVE  SumOf(f) \in Int
<1>1. \E h : SumOf(f) = h[S] /\ Totals(h, f, S)
  BY SumTakes
<1> QED BY <1>1 DEF Totals

\* Sums are added term by term.
LEMMA SumAdds ==
  ASSUME NEW S, IsFiniteSet(S), NEW f \in [S -> Int], NEW g \in [S -> Int], NEW d \in [S -> Int],
         \A x \in S : g[x] = f[x] + d[x]
  PROVE  SumOf(g) = SumOf(f) + SumOf(d)
<1>1. PICK h : SumOf(f) = h[S] /\ Totals(h, f, S)
  BY SumTakes
<1>2. PICK k : SumOf(g) = k[S] /\ Totals(k, g, S)
  BY SumTakes
<1>3. PICK e : SumOf(d) = e[S] /\ Totals(e, d, S)
  BY SumTakes
<1> DEFINE T == {s \in SUBSET S : k[s] = h[s] + e[s]}
<1>4. ASSUME NEW s \in SUBSET S, \A r \in SUBSET S : r \subseteq s /\ r # s => r \in T
      PROVE  s \in T
  <2>1. CASE s = {}
    BY <1>1, <1>2, <1>3, <2>1 DEF Totals
  <2>2. ASSUME NEW x \in s PROVE s \in T
    <3>1. PICK r : r = s \ {x}
      BY Zenon
    <3>2. r \in SUBSET S /\ r \in T
      BY <1>4, <3>1
    <3>3. k[r] = h[r] + e[r] /\ g[x] = f[x] + d[x] /\ f[x] \in Int /\ d[x] \in Int
      BY <3>2
    <3>4. h[s] = f[x] + h[r] /\ k[s] = g[x] + k[r] /\ e[s] = d[x] + e[r]
      BY <1>1, <1>2, <1>3, <3>1, Zenon DEF Totals
    <3>5. h[r] \in Int /\ e[r] \in Int
      BY <1>1, <1>3, <3>2 DEF Totals
    <3> QED BY <3>3, <3>4, <3>5
  <2> QED BY <2>1, <2>2
<1> HIDE DEF T
<1>5. SUBSET S \subseteq T
  BY <1>4, PartsInduction, Zenon
<1> QED BY <1>1, <1>2, <1>3, <1>5 DEF T

\* Summands that are zero may be left out.
LEMMA SumOfPart ==
  ASSUME NEW S, IsFiniteSet(S), NEW f \in [S -> Int], NEW P \in SUBSET S, NEW g \in [P -> Int],
         \A x \in S : f[x] = IF x \in P THEN g[x] ELSE 0
  PROVE  SumOf(f) = SumOf(g)
<1>1. PICK h : SumOf(f) = h[S] /\ Totals(h, f, S)
  BY SumTakes
<1>2. IsFiniteSet(P)
  BY FS_Subset
<1>3. PICK k : SumOf(g) = k[P] /\ Totals(k, g, P)
  BY <1>2, SumTakes
<1> DEFINE T == {s \in SUBSET S : h[s] = k[s \cap P]}
<1>4. ASSUME NEW s \in SUBSET S, \A r \in SUBSET S : r \subseteq s /\ r # s => r \in T
      PROVE  s \in T
  <2>1. CASE s = {}
    <3>1. s \cap P = {}
      BY <2>1
    <3> QED BY <1>1, <1>3, <2>1, <3>1 DEF Totals
  <2>2. ASSUME NEW x \in s PROVE s \in T
    <3>1. PICK r : r = s \ {x}
      BY Zenon
    <3>2. r \in SUBSET S /\ h[r] = k[r \cap P]
      BY <1>4, <3>1
    <3>3. h[s] = f[x] + h[r] /\ h[r] \in Int
      BY <1>1, <3>1, <3>2 DEF Totals
    <3>4. CASE x \in P
      <4> PICK q : q = s \cap P
        BY Zenon
      <4>1. x \in q /\ q \in SUBSET P /\ q \ {x} = r \cap P /\ f[x] = g[x]
        BY <3>1, <3>4
      <4>2. k[q] = g[x] + k[q \ {x}]
        BY <1>3, <4>1, Zenon DEF Totals
      <4> QED BY <3>2, <3>3, <4>1, <4>2, Zenon
    <3>5. CASE x \notin P
      <4>1. s \cap P = r \cap P /\ f[x] = 0
        BY <3>1, <3>5
      <4> QED BY <3>2, <3>3, <4>1
    <3> QED BY <3>4, <3>5
  <2> QED BY <2>1, <2>2
<1> HIDE DEF T
<1>5. SUBSET S \subseteq T
  BY <1>4, PartsInduction, Zenon
<1>6. S \cap P = P /\ h[S] = k[S \cap P]
  BY <1>5 DEF T
<1> QED BY <1>1, <1>3, <1>6

\* One summand changes.
LEMMA SumUpdates ==
  ASSUME NEW S, IsFiniteSet(S), NEW f \in [S -> Int], NEW g \in [S -> Int], NEW x \in S,
         \A y \in S \ {x} : g[y] = f[y]
  PROVE  SumOf(g) = SumOf(f) + (g[x] - f[x])
<1> PICK n : n = g[x] - f[x]
  OBVIOUS
<1> PICK d, e : d = [y \in S |-> IF y = x THEN n ELSE 0] /\ e = [y \in {x} |-> n]
  BY Zenon
<1>1. n \in Int /\ d \in [S -> Int] /\ e \in [{x} -> Int] /\ {x} \in SUBSET S
  OBVIOUS
<1>2. \A y \in S : g[y] = f[y] + d[y]
  OBVIOUS
<1>3. SumOf(g) = SumOf(f) + SumOf(d)
  BY <1>1, <1>2, SumAdds
<1>4. \A y \in S : d[y] = IF y \in {x} THEN e[y] ELSE 0
  OBVIOUS
<1>5. SumOf(d) = SumOf(e)
  BY <1>1, <1>4, SumOfPart
<1>6. PICK h : SumOf(e) = h[{x}] /\ Totals(h, e, {x})
  BY <1>1, FS_Singleton, SumTakes, Zenon
<1>7. {x} \in SUBSET {x} /\ x \in {x} /\ {x} \ {x} = {} /\ e[x] = n
  OBVIOUS
<1>8. h[{x}] = n + 0
  BY <1>6, <1>7, Zenon DEF Totals
<1> QED BY <1>1, <1>3, <1>5, <1>6, <1>8

\* The same summand for everybody.
LEMMA SumIsProduct ==
  ASSUME NEW S, IsFiniteSet(S), NEW f, NEW n \in Int, f = [x \in S |-> n]
  PROVE  SumOf(f) = n * Cardinality(S)
<1>0. f \in [S -> Int]
  OBVIOUS
<1>1. PICK h : SumOf(f) = h[S] /\ Totals(h, f, S)
  BY <1>0, SumTakes
<1> DEFINE T == {s \in SUBSET S : h[s] = n * Cardinality(s)}
<1>2. \A s \in SUBSET S : \A x \in s : h[s] = n + h[s \ {x}]
  BY <1>1, Zenon DEF Totals
<1>3. ASSUME NEW s \in SUBSET S, \A r \in SUBSET S : r \subseteq s /\ r # s => r \in T
      PROVE  s \in T
  <2>1. CASE s = {}
    <3>1. h[s] = 0 /\ Cardinality(s) = 0
      BY <1>1, <2>1, FS_EmptySet DEF Totals
    <3> QED BY <3>1
  <2>2. ASSUME NEW x \in s PROVE s \in T
    <3>1. PICK r : r = s \ {x}
      BY Zenon
    <3>2. r \in SUBSET S /\ h[r] = n * Cardinality(r) /\ h[s] = n + h[r]
      BY <1>2, <1>3, <3>1
    <3>3. IsFiniteSet(r) /\ Cardinality(r) \in Nat /\ s = r \cup {x} /\ x \notin r
      BY <3>1, <3>2, FS_Subset, FS_CardinalityType
    <3>4. Cardinality(s) = Cardinality(r) + 1
      BY <3>3, FS_AddElement, Zenon
    <3>5. n * (Cardinality(r) + 1) = n * Cardinality(r) + n
      BY <3>3
    <3>6. n * Cardinality(r) \in Int
      BY <3>3
    <3> QED BY <3>2, <3>4, <3>5, <3>6
  <2> QED BY <2>1, <2>2
<1> HIDE DEF T
<1>4. SUBSET S \subseteq T
  BY <1>3, PartsInduction, Zenon
<1> QED BY <1>1, <1>4 DEF T

-----------------------------------------------------------------------------
(* The ledger explains the wallets *)

\* A user has finitely many keys: those of the callers, and a refund's for each table.
LEMMA KeysAreFinite == IsFiniteSet(LedgerKeys)
<1> DEFINE refunds == {Crash(t) : t \in Tables}
           named == [t \in Tables |-> Crash(t)]
<1>1. named \in Surjection(Tables, refunds)
  BY DEF Surjection
<1>2. IsFiniteSet(Tables) /\ IsFiniteSet(Keys)
  BY StoreAssumption
<1>3. IsFiniteSet(refunds)
  <2> HIDE DEF named, refunds
  <2> QED BY <1>1, <1>2, FS_Surjection
<1> QED BY <1>2, <1>3, FS_Union, Zenon DEF LedgerKeys

\* A user's deltas are whole numbers.
LEMMA DeltasType == ASSUME StoreTypes, NEW u \in Users PROVE Deltas(u) \in [LedgerKeys -> Int]
<1>1. ASSUME NEW k \in LedgerKeys, wallet_ledger[<<u, k>>] # None PROVE wallet_ledger[<<u, k>>].delta \in Int
  <2>1. wallet_ledger[<<u, k>>] \in LedgerRows
    BY <1>1 DEF StoreTypes
  <2> QED BY <2>1 DEF LedgerRows
<1> QED BY <1>1 DEF Deltas

\* A row that is written moves the wallet and the sum of the deltas alike.
LEMMA ExplainedKept ==
  ASSUME StoreInv, StoreInv', LedgerExplainsWallets, NEW u \in Users, Follows(u)
  PROVE  wallets'[u] = InitialBalance + SumOf(Deltas(u)')
<1>1. PICK f, g : f = Deltas(u) /\ g = Deltas(u)'
  OBVIOUS
<1>2. f \in [LedgerKeys -> Int]
  BY <1>1, DeltasType DEF StoreInv
<1>3. g = [k \in LedgerKeys |-> IF wallet_ledger'[<<u, k>>] = None THEN 0 ELSE wallet_ledger'[<<u, k>>].delta]
  BY <1>1 DEF Deltas
<1>4. ASSUME NEW k \in LedgerKeys, wallet_ledger'[<<u, k>>] # None PROVE wallet_ledger'[<<u, k>>].delta \in Int
  <2>1. wallet_ledger'[<<u, k>>] \in LedgerRows
    BY <1>4 DEF StoreInv, StoreTypes
  <2> QED BY <2>1 DEF LedgerRows
<1>5. g \in [LedgerKeys -> Int]
  BY <1>3, <1>4
<1>6. wallets[u] = InitialBalance + SumOf(f) /\ InitialBalance \in Nat /\ SumOf(f) \in Int
  BY <1>1, <1>2, KeysAreFinite, SumIsInt, StoreAssumption, Zenon
     DEF LedgerExplainsWallets
<1>7. wallets'[u] = InitialBalance + SumOf(g)
  <2>1. CASE /\ wallets'[u] = wallets[u]
             /\ \A k \in LedgerKeys : wallet_ledger'[<<u, k>>] = wallet_ledger[<<u, k>>]
    <3>1. f = g
      BY <1>1, <1>3, <2>1 DEF Deltas
    <3> QED BY <1>6, <2>1, <3>1
  <2>2. ASSUME NEW k \in LedgerKeys,
               wallet_ledger[<<u, k>>] = None, wallet_ledger'[<<u, k>>] # None,
               wallets'[u] = wallets[u] + wallet_ledger'[<<u, k>>].delta,
               \A j \in LedgerKeys \ {k} : wallet_ledger'[<<u, j>>] = wallet_ledger[<<u, j>>]
        PROVE  wallets'[u] = InitialBalance + SumOf(g)
    <3>1. f[k] = 0 /\ g[k] = wallet_ledger'[<<u, k>>].delta /\ g[k] \in Int
      BY <1>1, <1>3, <1>5, <2>2, Zenon DEF Deltas
    <3>2. \A j \in LedgerKeys \ {k} : g[j] = f[j]
      BY <1>1, <1>3, <2>2 DEF Deltas
    <3>3. SumOf(g) = SumOf(f) + (g[k] - f[k])
      BY <1>2, <1>5, <3>2, KeysAreFinite, SumUpdates
    <3> QED BY <1>6, <2>2, <3>1, <3>3
  <2> QED BY <2>1, <2>2, Zenon DEF Follows
<1> QED BY <1>1, <1>7

\* Nobody has a row to begin with, and everybody the grant.
LEMMA ExplainedAtStart == Init => LedgerExplainsWallets
<1> SUFFICES ASSUME Init, NEW u \in Users PROVE wallets[u] = InitialBalance + SumOf(Deltas(u))
  BY DEF LedgerExplainsWallets
<1>1. Deltas(u) = [k \in LedgerKeys |-> 0]
  BY DEF Init, Deltas
<1>2. SumOf(Deltas(u)) = 0 * Cardinality(LedgerKeys)
  BY <1>1, KeysAreFinite, SumIsProduct
<1>3. Cardinality(LedgerKeys) \in Nat
  BY KeysAreFinite, FS_CardinalityType
<1> QED BY <1>2, <1>3, StoreAssumption DEF Init

\* The ledger explains every wallet, for any tables, users, keys and callers.
THEOREM WalletsExplained == Spec => []LedgerExplainsWallets
<1>1. StoreInv /\ StoreInv' /\ LedgerExplainsWallets /\ [Next]_<<vars, load>> => LedgerExplainsWallets'
  <2> SUFFICES ASSUME StoreInv, StoreInv', LedgerExplainsWallets, [Next]_<<vars, load>>,
                      NEW u \in Users
               PROVE  wallets'[u] = InitialBalance + SumOf(Deltas(u)')
    BY DEF LedgerExplainsWallets
  <2>1. Follows(u)
    BY RowsFollow
  <2> QED BY <2>1, ExplainedKept
<1> QED
  BY StoreAlways, ExplainedAtStart, <1>1, PTL DEF Spec

-----------------------------------------------------------------------------
(* Chips are conserved *)

\* What the users have at a table are whole numbers.
LEMMA ChipsType == ASSUME StoreTypes, NEW t \in Tables PROVE ChipsAt(t) \in [Users -> Int]
BY SeatFields DEF ChipsAt

\* The same after a step.
LEMMA ChipsTypeNext == ASSUME StoreTypes', NEW t \in Tables PROVE ChipsAt(t)' \in [Users -> Int]
<1>1. ASSUME NEW u \in Users, table_seats'[t][u] # None PROVE table_seats'[t][u].stack \in Int
  <2>1. table_seats'[t][u] \in SeatRow
    BY <1>1 DEF StoreTypes
  <2> QED BY <2>1 DEF SeatRow
<1> QED BY <1>1 DEF ChipsAt, Seated

\* Chips may move between the wallets and one table.
LEMMA OneTableMoves ==
  ASSUME StoreTypes, StoreTypes', ConservesChips, NEW t \in Tables,
         \A s \in Tables \ {t} : table_seats'[s] = table_seats[s],
         SumOf(wallets') + SumOf(ChipsAt(t)') = SumOf(wallets) + SumOf(ChipsAt(t))
  PROVE  ConservesChips'
<1>1. PICK f, g : f = [s \in Tables |-> SumOf(ChipsAt(s))] /\ g = [s \in Tables |-> SumOf(ChipsAt(s)')]
  BY Zenon
<1>2. IsFiniteSet(Users) /\ IsFiniteSet(Tables)
  BY StoreAssumption
<1>3. ASSUME NEW s \in Tables PROVE SumOf(ChipsAt(s)) \in Int /\ SumOf(ChipsAt(s)') \in Int
  BY <1>2, ChipsType, ChipsTypeNext, SumIsInt, Zenon
<1>4. f \in [Tables -> Int] /\ g \in [Tables -> Int] /\ f[t] = SumOf(ChipsAt(t)) /\ g[t] = SumOf(ChipsAt(t)')
  BY <1>1, <1>3, Zenon
<1>5. ASSUME NEW s \in Tables \ {t} PROVE g[s] = f[s]
  <2>1. ChipsAt(s)' = ChipsAt(s)
    BY Zenon DEF ChipsAt, Seated
  <2> QED BY <1>1, <2>1
<1>6. SumOf(g) = SumOf(f) + (g[t] - f[t])
  BY <1>2, <1>4, <1>5, SumUpdates
<1>7. wallets \in [Users -> Int] /\ wallets' \in [Users -> Int]
  BY DEF StoreTypes
<1>8. SumOf(wallets) \in Int /\ SumOf(wallets') \in Int /\ SumOf(f) \in Int
  BY <1>2, <1>4, <1>7, SumIsInt, Zenon
<1>9. SumOf(wallets) + SumOf(f) = InitialBalance * Cardinality(Users)
  BY <1>1 DEF ConservesChips
<1>10. SumOf(wallets') + SumOf(g) = InitialBalance * Cardinality(Users)
  <2>1. f[t] \in Int /\ g[t] \in Int /\ SumOf(wallets') + g[t] = SumOf(wallets) + f[t]
    BY <1>4
  <2> QED BY <1>6, <1>8, <1>9, <2>1
<1> QED BY <1>1, <1>10 DEF ConservesChips

\* A buy-in or a cash-out moves a user's chips between the wallet and the seat.
LEMMA SeatMoves ==
  ASSUME StoreTypes, StoreTypes', ConservesChips, NEW t \in Tables, NEW u \in Users, NEW n \in Int,
         wallets'[u] = wallets[u] - n, \A v \in Users \ {u} : wallets'[v] = wallets[v],
         \A s \in Tables \ {t} : table_seats'[s] = table_seats[s],
         \A v \in Users \ {u} : table_seats'[t][v] = table_seats[t][v],
         ChipsAt(t)'[u] = ChipsAt(t)[u] + n
  PROVE  ConservesChips'
<1>1. PICK f, g : f = ChipsAt(t) /\ g = ChipsAt(t)'
  BY Zenon
<1>2. IsFiniteSet(Users)
  BY StoreAssumption, Zenon
<1>3. f \in [Users -> Int] /\ g \in [Users -> Int]
  BY <1>1, ChipsType, ChipsTypeNext, Zenon
<1>4. \A v \in Users \ {u} : g[v] = f[v]
  BY <1>1, Zenon DEF ChipsAt, Seated
<1>5. SumOf(g) = SumOf(f) + (g[u] - f[u])
  BY <1>2, <1>3, <1>4, SumUpdates
<1>6. wallets \in [Users -> Int] /\ wallets' \in [Users -> Int]
  BY DEF StoreTypes
<1>7. SumOf(wallets') = SumOf(wallets) + (wallets'[u] - wallets[u])
  BY <1>2, <1>6, SumUpdates
<1>8. SumOf(wallets) \in Int /\ SumOf(f) \in Int
  BY <1>2, <1>3, <1>6, SumIsInt, Zenon
<1>9. wallets'[u] = wallets[u] - n /\ wallets[u] \in Int /\ g[u] = f[u] + n /\ f[u] \in Int
  BY <1>1, <1>3, <1>6, Zenon
<1>10. SumOf(wallets') + SumOf(g) = SumOf(wallets) + SumOf(f)
  BY <1>5, <1>7, <1>8, <1>9
<1> QED BY <1>1, <1>10, OneTableMoves, Zenon

\* reserveBuyIn moves chips from the wallet to a free seat.
LEMMA BuyInConserves ==
  ASSUME StoreInv, StoreInv', ConservesChips, NEW c \in Callers, BuyInCommits(c)
  PROVE  ConservesChips'
<1>1. PICK t \in Tables, u \in Users, n \in Nat :
        t = calls[c].table /\ u = calls[c].user /\ n = calls[c].amount
  BY BuyInReads, Zenon
<1>2. /\ wallets' = [wallets EXCEPT ![u] = @ - n]
      /\ table_seats' = [table_seats EXCEPT ![t][u] =
                           [seat_no |-> calls[c].seat, stack |-> n, hand_start_stack |-> n]]
      /\ u \notin Seated(t)
  BY <1>1, Zenon DEF BuyInCommits, SeatIsFree
<1>3. wallets \in [Users -> Nat] /\ table_seats \in [Tables -> [Users -> SeatRow \cup {None}]]
  BY Zenon DEF StoreInv, StoreTypes
<1>4. wallets'[u] = wallets[u] - n /\ \A v \in Users \ {u} : wallets'[v] = wallets[v]
  BY <1>1, <1>2, <1>3, Zenon
<1>5. /\ \A s \in Tables \ {t} : table_seats'[s] = table_seats[s]
      /\ \A v \in Users \ {u} : table_seats'[t][v] = table_seats[t][v]
      /\ table_seats'[t][u] = [seat_no |-> calls[c].seat, stack |-> n, hand_start_stack |-> n]
  BY <1>1, <1>2, <1>3, Zenon
<1>6. ChipsAt(t)'[u] = ChipsAt(t)[u] + n
  <2>1. ChipsAt(t)[u] = 0
    BY <1>1, <1>2, Zenon DEF ChipsAt
  <2>2. table_seats'[t][u] # None
    <3>1. table_seats'[t][u] \in SeatRow \cup {None} /\ table_seats'[t][u].stack = n
      BY <1>5 DEF StoreInv, StoreTypes
    <3>2. [seat_no |-> calls[c].seat, stack |-> n, hand_start_stack |-> n] \in SeatRow
      BY <1>1, BuyInReads, Zenon DEF SeatRow
    <3> QED BY <1>5, <3>2, NoneAssumption, Zenon
  <2>3. ChipsAt(t)'[u] = n
    BY <1>5, <2>2 DEF ChipsAt, Seated
  <2> QED BY <1>1, <2>1, <2>3
<1> QED BY <1>4, <1>5, <1>6, SeatMoves DEF StoreInv

\* cashOut moves all chips of a seat to the wallet.
LEMMA CashOutConserves ==
  ASSUME StoreInv, StoreInv', ConservesChips, NEW c \in Callers, CashOutCommits(c)
  PROVE  ConservesChips'
<1>1. PICK t \in Tables, u \in Users, n \in Nat :
        /\ t = calls[c].table /\ u = calls[c].user /\ n = table_seats[t][u].stack
        /\ u \in Seated(t) /\ wallets[u] \in Nat
  BY CashOutReads, Zenon
<1>2. /\ wallets' = [wallets EXCEPT ![u] = @ + n]
      /\ table_seats' = [table_seats EXCEPT ![t][u] = None]
  BY <1>1, Zenon DEF CashOutCommits
<1>3. ChipsAt(t)[u] = n
  BY <1>1, Zenon DEF ChipsAt
<1>4. wallets \in [Users -> Nat] /\ table_seats \in [Tables -> [Users -> SeatRow \cup {None}]]
  BY DEF StoreInv, StoreTypes
<1>5. wallets'[u] = wallets[u] + n /\ \A v \in Users \ {u} : wallets'[v] = wallets[v]
  BY <1>1, <1>2, <1>4, Zenon
<1>6. /\ \A s \in Tables \ {t} : table_seats'[s] = table_seats[s]
      /\ \A v \in Users \ {u} : table_seats'[t][v] = table_seats[t][v]
      /\ table_seats'[t][u] = None
  BY <1>1, <1>2, <1>4, Zenon
<1>7. ChipsAt(t)'[u] = 0
  BY <1>1, <1>6, Zenon DEF ChipsAt, Seated
<1>8. PICK m \in Int : m = -n
  OBVIOUS
<1>9. wallets'[u] = wallets[u] - m
  <2>1. wallets[u] \in Nat
    BY <1>4
  <2> QED BY <1>5, <1>8, <2>1
<1>10. ChipsAt(t)'[u] = ChipsAt(t)[u] + m
  BY <1>3, <1>7, <1>8
<1> QED BY <1>5, <1>6, <1>9, <1>10, SeatMoves DEF StoreInv

\* abortTableAndRefund moves the chips of every seat to its user's wallet.
LEMMA AbortConserves ==
  ASSUME StoreInv, StoreInv', ConservesChips, NEW t \in Tables, AbortTableAndRefund(t)
  PROVE  ConservesChips'
<1>1. PICK f, w, x : f = ChipsAt(t) /\ w = wallets /\ x = wallets'
  OBVIOUS
<1>2. IsFiniteSet(Users)
  BY StoreAssumption
<1>3. f \in [Users -> Int] /\ w \in [Users -> Int] /\ x \in [Users -> Int]
  BY <1>1, ChipsType DEF StoreInv, StoreTypes
<1>4. \A u \in Users : x[u] = w[u] + f[u]
  BY <1>1, Zenon DEF AbortTableAndRefund, ChipsAt
<1>5. SumOf(x) = SumOf(w) + SumOf(f)
  BY <1>2, <1>3, <1>4, SumAdds
<1>6. /\ \A s \in Tables \ {t} : table_seats'[s] = table_seats[s]
      /\ \A u \in Users : table_seats'[t][u] = None
  BY Zenon DEF AbortTableAndRefund, StoreInv, StoreTypes
<1>7. ChipsAt(t)' = [u \in Users |-> 0]
  BY <1>6, Zenon DEF ChipsAt, Seated
<1>8. SumOf(ChipsAt(t)') = 0 * Cardinality(Users) /\ Cardinality(Users) \in Nat
  BY <1>2, <1>7, SumIsProduct, FS_CardinalityType
<1>9. SumOf(w) \in Int /\ SumOf(f) \in Int
  BY <1>2, <1>3, SumIsInt
<1>10. SumOf(x) + SumOf(ChipsAt(t)') = SumOf(w) + SumOf(f)
  BY <1>5, <1>8, <1>9
<1> QED BY <1>1, <1>6, <1>10, OneTableMoves, Zenon DEF StoreInv

\* beginHand takes the stacks as they are.
LEMMA BeginHandConserves ==
  ASSUME StoreInv, StoreInv', ConservesChips, NEW h \in Hands, NEW players \in SUBSET Seated(h[1]),
         BeginHand(h, Stacks(h[1], players))
  PROVE  ConservesChips'
<1> PICK t : t = h[1]
  OBVIOUS
<1>1. t \in Tables
  BY DEF Hands
<1>2. /\ wallets' = wallets
      /\ table_seats' = [table_seats EXCEPT ![t] =
                           [u \in Users |-> IF u \in players
                                            THEN [@[u] EXCEPT !.hand_start_stack = Stacks(t,
                                            players)[u]] ELSE @[u]]]
  BY Zenon DEF BeginHand, Stacks
<1>3. table_seats \in [Tables -> [Users -> SeatRow \cup {None}]]
  BY Zenon DEF StoreInv, StoreTypes
<1>4. \A s \in Tables \ {t} : table_seats'[s] = table_seats[s]
  BY <1>1, <1>2, <1>3
<1>5. ASSUME NEW u \in Users
      PROVE  /\ u \in players => table_seats'[t][u] = [table_seats[t][u] EXCEPT !.hand_start_stack = Stacks(t, players)[u]]
             /\ u \notin players => table_seats'[t][u] = table_seats[t][u]
  BY <1>1, <1>2, <1>3, Zenon
<1>6. ChipsAt(t)' = ChipsAt(t)
  <2>1. ASSUME NEW u \in players
        PROVE  u \in Users /\ table_seats[t][u] \in SeatRow /\ table_seats'[t][u].stack = table_seats[t][u].stack
               /\ table_seats[t][u] # None /\ table_seats'[t][u] # None
    <3>1. u \in Users /\ table_seats[t][u] \in SeatRow /\ table_seats[t][u] # None
      BY <1>1, SeatFields, Zenon DEF StoreInv, Seated
    <3>2. table_seats'[t][u].stack = table_seats[t][u].stack
      BY <1>5, <3>1, Zenon DEF SeatRow
    <3>3. table_seats'[t][u] # None
      <4>1. Stacks(t, players)[u] \in Nat
        BY <1>1, <2>1, SeatFields, Zenon DEF StoreInv, Stacks
      <4>2. [table_seats[t][u] EXCEPT !.hand_start_stack = Stacks(t, players)[u]] \in SeatRow
        BY <3>1, <4>1 DEF SeatRow
      <4> QED BY <1>5, <2>1, <3>1, <4>2, NoneAssumption, Zenon
    <3> QED BY <3>1, <3>2, <3>3, Zenon
  <2> QED BY <1>5, <2>1, Zenon DEF ChipsAt, Seated
<1> QED BY <1>1, <1>2, <1>4, <1>6, OneTableMoves, Zenon DEF StoreInv

\* settleHand deals the stacks of a hand's players out anew.
LEMMA SettleConserves ==
  ASSUME StoreInv, StoreInv', ConservesChips, NEW h \in Hands, NEW players \in SUBSET Seated(h[1]),
         NEW end \in [players -> Chips], SettleHand(h, Stacks(h[1], players), end)
  PROVE  ConservesChips'
<1> PICK t, start : t = h[1] /\ start = Stacks(h[1], players)
  OBVIOUS
<1>1. t \in Tables /\ players \in SUBSET Users /\ IsFiniteSet(Users)
  BY StoreAssumption, Zenon DEF Hands, Seated
<1>2. /\ wallets' = wallets
      /\ SumOf(start) = SumOf(end)
      /\ table_seats' = [table_seats EXCEPT ![t] =
                           [u \in Users |-> IF u \in players
                                            THEN [@[u] EXCEPT !.stack = end[u],
                                            !.hand_start_stack = end[u]]
                                            ELSE @[u]]]
  BY ZenonT(30) DEF SettleHand, ValidHandSettlement
<1>3. table_seats \in [Tables -> [Users -> SeatRow \cup {None}]]
  BY Zenon DEF StoreInv, StoreTypes
<1>4. \A s \in Tables \ {t} : table_seats'[s] = table_seats[s]
  BY <1>1, <1>2, <1>3, Zenon
<1>5. ASSUME NEW u \in Users
      PROVE  /\ u \in players => table_seats'[t][u] =
                                   [table_seats[t][u] EXCEPT !.stack = end[u], !.hand_start_stack = end[u]]
             /\ u \notin players => table_seats'[t][u] = table_seats[t][u]
  BY <1>1, <1>2, <1>3, Zenon
<1>6. \A u \in players : end[u] \in Nat
  <2>1. Chips \subseteq Nat
    BY StoreAssumption, FS_CardinalityType DEF Chips
  <2> QED BY <2>1, Zenon
<1>7. start \in [players -> Int] /\ end \in [players -> Int]
  <2>1. \A u \in players : table_seats[t][u].stack \in Int
    BY <1>1, SeatFields DEF StoreInv
  <2> QED BY <1>6, <2>1 DEF Stacks
<1>8. ASSUME NEW u \in players
      PROVE  /\ table_seats[t][u] # None /\ table_seats[t][u].stack = start[u]
             /\ table_seats'[t][u] # None /\ table_seats'[t][u].stack = end[u]
  <2>1. u \in Users /\ table_seats[t][u] \in SeatRow /\ table_seats[t][u] # None
    BY <1>1, SeatFields, Zenon DEF StoreInv, Seated
  <2>2. end[u] \in Nat
    BY <1>6
  <2>3. /\ [table_seats[t][u] EXCEPT !.stack = end[u], !.hand_start_stack = end[u]] \in SeatRow
        /\ [table_seats[t][u] EXCEPT !.stack = end[u], !.hand_start_stack = end[u]].stack = end[u]
    BY <2>1, <2>2, Zenon DEF SeatRow
  <2>4. table_seats'[t][u] \in SeatRow /\ table_seats'[t][u].stack = end[u]
    BY <1>5, <2>1, <2>3, Zenon
  <2>5. table_seats[t][u].stack = start[u]
    BY Zenon DEF Stacks
  <2> QED BY <2>1, <2>4, <2>5, NoneAssumption, Zenon
<1>9. PICK f, g, rest, a, b :
        /\ f = ChipsAt(t) /\ g = ChipsAt(t)'
        /\ rest = [u \in Users |-> IF u \in players THEN 0 ELSE f[u]]
        /\ a = [u \in Users |-> IF u \in players THEN start[u] ELSE 0]
        /\ b = [u \in Users |-> IF u \in players THEN end[u] ELSE 0]
  BY Zenon
<1>10. f \in [Users -> Int] /\ g \in [Users -> Int]
  BY <1>1, <1>9, ChipsType, ChipsTypeNext, Zenon DEF StoreInv
<1>11. rest \in [Users -> Int] /\ a \in [Users -> Int] /\ b \in [Users -> Int]
  BY <1>7, <1>9, <1>10
<1>12. /\ \A u \in players : f[u] = start[u] /\ g[u] = end[u]
       /\ \A u \in Users \ players : g[u] = f[u]
  <2>1. ASSUME NEW u \in players PROVE f[u] = start[u] /\ g[u] = end[u]
    BY <1>1, <1>8, <1>9, Zenon DEF ChipsAt, Seated
  <2>2. ASSUME NEW u \in Users \ players PROVE g[u] = f[u]
    BY <1>5, <1>9, Zenon DEF ChipsAt, Seated
  <2> QED BY <2>1, <2>2, Zenon
<1>13. SumOf(f) = SumOf(rest) + SumOf(a)
  <2>1. \A u \in Users : f[u] = rest[u] + a[u]
    BY <1>7, <1>9, <1>10, <1>12
  <2> QED BY <1>1, <1>10, <1>11, <2>1, SumAdds
<1>14. SumOf(g) = SumOf(rest) + SumOf(b)
  <2>1. \A u \in Users : g[u] = rest[u] + b[u]
    BY <1>7, <1>9, <1>10, <1>12
  <2> QED BY <1>1, <1>10, <1>11, <2>1, SumAdds
<1>15. SumOf(a) = SumOf(start) /\ SumOf(b) = SumOf(end)
  BY <1>1, <1>7, <1>9, <1>11, SumOfPart
<1>16. SumOf(g) = SumOf(f)
  BY <1>2, <1>13, <1>14, <1>15, Zenon
<1> QED BY <1>1, <1>2, <1>4, <1>9, <1>16, OneTableMoves, Zenon DEF StoreInv

\* All chips are in the wallets to begin with.
LEMMA ConservesAtStart == Init => ConservesChips
<1> SUFFICES ASSUME Init PROVE ConservesChips
  OBVIOUS
<1>1. IsFiniteSet(Users) /\ IsFiniteSet(Tables) /\ InitialBalance \in Nat
  BY StoreAssumption
<1>2. Cardinality(Users) \in Nat /\ Cardinality(Tables) \in Nat
  BY <1>1, FS_CardinalityType
<1>3. SumOf(wallets) = InitialBalance * Cardinality(Users)
  BY <1>1, SumIsProduct DEF Init
<1>4. ASSUME NEW t \in Tables PROVE SumOf(ChipsAt(t)) = 0
  <2>1. ChipsAt(t) = [u \in Users |-> 0]
    BY Zenon DEF Init, ChipsAt, Seated
  <2>2. SumOf(ChipsAt(t)) = 0 * Cardinality(Users)
    BY <1>1, <2>1, SumIsProduct
  <2> QED BY <1>2, <2>2
<1>5. PICK f : f = [t \in Tables |-> SumOf(ChipsAt(t))]
  BY Zenon
<1>6. f = [t \in Tables |-> 0]
  BY <1>4, <1>5
<1>7. SumOf(f) = 0 * Cardinality(Tables)
  BY <1>1, <1>6, SumIsProduct
<1>8. InitialBalance * Cardinality(Users) \in Int
  BY <1>1, <1>2
<1> QED BY <1>2, <1>3, <1>5, <1>7, <1>8 DEF ConservesChips

\* Chips are neither made nor lost, for any tables, users, keys and callers: a
\* buy-in and a cash-out move them between a wallet and a seat, a settlement
\* between the seats of a hand, and a refund from all seats of a table to the
\* wallets; whatever else a call does, or fails to do, moves none.
THEOREM ChipsAlwaysConserved == Spec => []ConservesChips
<1>1. StoreInv /\ StoreInv' /\ ConservesChips /\ [Next]_<<vars, load>> => ConservesChips'
  <2> SUFFICES ASSUME StoreInv, StoreInv', ConservesChips, [Next]_<<vars, load>> PROVE ConservesChips'
    OBVIOUS
  <2>1. CASE UNCHANGED <<wallets, table_seats>>
    BY <2>1, Zenon DEF ConservesChips, ChipsAt, Seated
  <2>2. QED
    BY <2>1, BuyInConserves, CashOutConserves, AbortConserves, BeginHandConserves, SettleConserves,
       ZenonT(30) DEF Next, vars, CreateTable, Lookup, RollsBack, ReplayAfterRollback, CallFails,
       db, AppendAction
<1> QED
  BY StoreAlways, ConservesAtStart, <1>1, PTL DEF Spec
=============================================================================
