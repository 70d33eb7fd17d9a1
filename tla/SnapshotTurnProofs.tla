------------------------- MODULE SnapshotTurnProofs -------------------------
(***************************************************************************)
(* Proofs about turns over the model, its rewind points and the stores:    *)
(* whatever sequence of turns, failures, panics and restarts came before,  *)
(* a turn works on the exact state of its own tokens.  The inductive       *)
(* invariant adds to that what makes it last: both rewind points are good  *)
(* for the model as it is, broken or not, the shorter has no higher window *)
(* base, and a running turn's model is behind neither.                     *)
(*                                                                         *)
(* The RAM tier comes first, with theorems of its own specification: its   *)
(* operators are part of a turn.  Its inductive invariant is the           *)
(* conjunction of the type and of everything ram.rs relies on silently:    *)
(* the byte counter is exact, the pin names a live entry, entries are      *)
(* keyed by their own prefix, recency is a strict total order, and the map *)
(* is finite.  The recency order is what makes the eviction loop terminate *)
(* under the budget: the oldest survivor bounds what the victims freed.    *)
(***************************************************************************)
EXTENDS SnapshotTurn, FiniteSetTheorems, SequenceTheorems, WellFoundedInduction, TLAPS

SInv(s) ==
  /\ s \in RamRecords
  /\ IsFiniteSet(Live(s))
  /\ Accounted(s)
  /\ PinOK(s)
  /\ WellKeyed(s)
  /\ RecencyOK(s)

RamInv == SInv(ram)

-----------------------------------------------------------------------------
Cells(K) == {c \in K \X (1..MaxBytes) : c[2] <= Bytes[c[1][2]]}

\* The byte cells of a finite set of keys are finite, so its size is a number.
LEMMA CellsFinite ==
  ASSUME NEW K, IsFiniteSet(K)
  PROVE  IsFiniteSet(Cells(K)) /\ BytesOf(K) = Cardinality(Cells(K)) /\ BytesOf(K) \in Nat
<1>1. MaxBytes \in Int
  BY SnapshotAssumption, RamAssumption
<1>2. IsFiniteSet(1..MaxBytes)
  BY <1>1, FS_Interval
<1>3. IsFiniteSet(K \X (1..MaxBytes))
  BY <1>2, FS_Product
<1>4. IsFiniteSet(Cells(K))
  BY <1>3, FS_Subset DEF Cells
<1>5. BytesOf(K) = Cardinality(Cells(K))
  BY DEF BytesOf, Cells
<1> QED
  BY <1>4, <1>5, FS_CardinalityType

\* Sizes add up over disjoint sets of entries.
LEMMA BytesAdd ==
  ASSUME NEW K, NEW L, IsFiniteSet(K), IsFiniteSet(L), K \cap L = {}
  PROVE  BytesOf(K \cup L) = BytesOf(K) + BytesOf(L)
<1>1. IsFiniteSet(K \cup L)
  BY FS_Union
<1>2. Cells(K \cup L) = Cells(K) \cup Cells(L)
  BY DEF Cells
<1>3. Cells(K) \cap Cells(L) = {}
  BY DEF Cells
<1>4. IsFiniteSet(Cells(K)) /\ IsFiniteSet(Cells(L))
  BY CellsFinite
<1>5. Cardinality(Cells(K)) \in Nat /\ Cardinality(Cells(L)) \in Nat
  BY <1>4, FS_CardinalityType
<1>6. Cardinality(Cells(K) \cup Cells(L)) = Cardinality(Cells(K)) + Cardinality(Cells(L)) - 0
  BY <1>3, <1>4, FS_Union, FS_EmptySet
<1>7. BytesOf(K) = Cardinality(Cells(K)) /\ BytesOf(L) = Cardinality(Cells(L))
  BY CellsFinite
<1>8. BytesOf(K \cup L) = Cardinality(Cells(K \cup L))
  BY <1>1, CellsFinite
<1>9. BytesOf(K \cup L) = Cardinality(Cells(K) \cup Cells(L))
  BY <1>2, <1>8, Zenon
<1> QED
  BY <1>5, <1>6, <1>7, <1>9

LEMMA BytesDifference ==
  ASSUME NEW K, NEW L, IsFiniteSet(K), L \subseteq K
  PROVE  BytesOf(K \ L) = BytesOf(K) - BytesOf(L) /\ BytesOf(L) <= BytesOf(K)
<1>1. IsFiniteSet(L) /\ IsFiniteSet(K \ L)
  BY FS_Subset
<1>2. BytesOf((K \ L) \cup L) = BytesOf(K \ L) + BytesOf(L)
  BY <1>1, BytesAdd
<1>3. BytesOf((K \ L) \cup L) = BytesOf(K)
  <2>1. (K \ L) \cup L = K
    OBVIOUS
  <2> QED
    BY <2>1, Zenon
<1>4. BytesOf(K) \in Nat /\ BytesOf(L) \in Nat /\ BytesOf(K \ L) \in Nat
  BY <1>1, CellsFinite
<1> QED
  BY <1>2, <1>3, <1>4

\* One entry occupies what its position says.
LEMMA BytesOne ==
  ASSUME NEW k \in Keys
  PROVE  BytesOf({k}) = Bytes[k[2]] /\ Bytes[k[2]] \in Nat
<1>1. k[2] \in 1..MaxLen
  BY DEF Keys
<1>2. Bytes[k[2]] \in 1..MaxBytes /\ MaxBytes \in Nat
  BY <1>1, SnapshotAssumption, RamAssumption
<1> DEFINE n == Bytes[k[2]]
           f == [i \in 1..n |-> <<k, i>>]
<1>3. n \in Nat /\ n <= MaxBytes /\ n \in Int /\ 1 <= n
  BY <1>2
<1>4. \A i \in 1..n : <<k, i>> \in Cells({k})
  <2> TAKE i \in 1..n
  <2>1. i \in 1..MaxBytes /\ i <= Bytes[k[2]]
    BY <1>3, <1>2
  <2>2. <<k, i>> \in {k} \X (1..MaxBytes)
    BY <2>1
  <2>3. <<k, i>>[1][2] = k[2] /\ <<k, i>>[2] = i
    OBVIOUS
  <2> QED
    BY <2>1, <2>2, <2>3 DEF Cells
<1>5. \A c \in Cells({k}) : c[2] \in 1..n /\ c = <<k, c[2]>>
  BY <1>3 DEF Cells
<1> HIDE DEF n
<1>6. f \in Bijection(1..n, Cells({k}))
  <2>1. f \in [1..n -> Cells({k})]
    BY <1>4
  <2>2. \A i, j \in 1..n : f[i] = f[j] => i = j
    OBVIOUS
  <2>3. \A c \in Cells({k}) : \E i \in 1..n : f[i] = c
    BY <1>5
  <2> HIDE DEF f
  <2>4. f \in Injection(1..n, Cells({k}))
    BY <2>1, <2>2 DEF Injection, IsInjective
  <2>5. f \in Surjection(1..n, Cells({k}))
    BY <2>1, <2>3 DEF Surjection
  <2> QED
    BY <2>4, <2>5 DEF Bijection
<1>7. IsFiniteSet(1..n) /\ Cardinality(1..n) = n
  BY <1>3, FS_Interval
<1>8. Cardinality(Cells({k})) = n
  BY <1>6, <1>7, FS_Bijection DEF ExistsBijection
<1>9. BytesOf({k}) = n
  BY <1>8 DEF BytesOf, Cells
<1> QED
  BY <1>3, <1>9 DEF n

-----------------------------------------------------------------------------
\* A prefix has a length within the model's context, and a key.
LEMMA PrefixKey ==
  ASSUME NEW p \in TokenSeqs, NEW stamp \in Stamps
  PROVE  /\ Len(p) \in 1..MaxLen
         /\ KeyOf(stamp, p) \in Keys
         /\ KeyOf(stamp, p)[2] = Len(p)
         /\ KeyOf(stamp, p)[3] = Hash[p]
         /\ p # NoData
<1>1. PICK n \in 1..MaxLen : p \in [1..n -> Tokens]
  BY DEF TokenSeqs
<1>2. n \in Nat
  BY <1>1, SnapshotAssumption, RamAssumption
<1>3. Len(p) = n
  BY <1>1, <1>2
<1>4. Hash[p] \in Hashes
  BY SnapshotAssumption, RamAssumption
<1> QED
  BY <1>3, <1>4, SnapshotAssumption, RamAssumption DEF KeyOf, Keys

\* Removal keeps the store consistent and frees exactly what it dropped.
LEMMA WithoutOK ==
  ASSUME NEW s, SInv(s), NEW K, K \subseteq Keys
  PROVE  /\ SInv(Without(s, K))
         /\ Live(Without(s, K)) = Live(s) \ K
         /\ Without(s, K).used = s.used - BytesOf(K \cap Live(s))
         /\ Without(s, K).budget = s.budget
         /\ Without(s, K).pinned = IF s.pinned \in K THEN NoKey ELSE s.pinned
<1> DEFINE w == Without(s, K)
<1>1. s \in RamRecords
  BY DEF SInv
<1>2. /\ w.data = [k \in Keys |-> IF k \in K THEN NoData ELSE s.data[k]]
      /\ w.used = s.used - BytesOf(K \cap Live(s))
      /\ w.older = [k \in Keys |-> IF k \in K THEN {} ELSE s.older[k] \ K]
      /\ w.pinned = (IF s.pinned \in K THEN NoKey ELSE s.pinned)
      /\ w.budget = s.budget
  BY <1>1 DEF Without, RamRecords
<1>3. ASSUME w.data \in [Keys -> TokenSeqs \cup {NoData}], w.used \in Nat,
             w.older \in [Keys -> SUBSET Keys], w.pinned \in Keys \cup {NoKey}
      PROVE  w \in RamRecords
  BY <1>1, <1>3 DEF Without, RamRecords
<1> HIDE DEF w
<1>4. Live(w) = Live(s) \ K
  BY <1>1, <1>2 DEF Live, RamRecords
<1>5. IsFiniteSet(Live(s)) /\ IsFiniteSet(Live(w))
  BY <1>4, FS_Difference DEF SInv
<1>6. /\ BytesOf(Live(s) \ (K \cap Live(s))) = BytesOf(Live(s)) - BytesOf(K \cap Live(s))
      /\ BytesOf(K \cap Live(s)) <= BytesOf(Live(s))
  BY <1>5, BytesDifference
<1>7. BytesOf(Live(w)) = BytesOf(Live(s) \ (K \cap Live(s)))
  <2>1. Live(w) = Live(s) \ (K \cap Live(s))
    BY <1>4
  <2> QED
    BY <2>1, Zenon
<1>8. s.used = BytesOf(Live(s)) /\ s.used <= s.budget /\ s.used \in Nat /\ s.budget \in Nat
  BY <1>1, SnapshotAssumption, RamAssumption DEF SInv, Accounted, RamRecords
<1>9. IsFiniteSet(K \cap Live(s))
  BY <1>5, FS_Subset
<1>10. BytesOf(K \cap Live(s)) \in Nat
  BY <1>9, CellsFinite
<1>11. Accounted(w) /\ w.used \in Nat
  BY <1>2, <1>6, <1>7, <1>8, <1>10 DEF Accounted
<1>12. w \in RamRecords
  <2>1. w.data \in [Keys -> TokenSeqs \cup {NoData}]
    BY <1>1, <1>2 DEF RamRecords
  <2>2. w.older \in [Keys -> SUBSET Keys]
    BY <1>1, <1>2 DEF RamRecords
  <2>3. w.pinned \in Keys \cup {NoKey}
    BY <1>1, <1>2 DEF RamRecords
  <2> QED
    BY <1>3, <1>11, <2>1, <2>2, <2>3
<1>13. PinOK(w)
  BY <1>2, <1>4, <1>1 DEF SInv, PinOK
<1>14. WellKeyed(w)
  <2> SUFFICES ASSUME NEW k \in Live(w)
               PROVE  k[2] = Len(w.data[k]) /\ k[3] = Hash[w.data[k]]
    BY DEF WellKeyed
  <2>1. k \in Live(s) /\ k \notin K /\ k \in Keys
    BY <1>4 DEF Live
  <2>2. w.data[k] = s.data[k]
    BY <1>2, <2>1
  <2> QED
    BY <2>1, <2>2 DEF SInv, WellKeyed
<1>15. RecencyOK(w)
  <2>1. RecencyOK(s) /\ Live(s) \subseteq Keys
    BY DEF SInv, Live
  <2>2. \A k \in Keys : \A x : x \in w.older[k] <=> k \notin K /\ x \in s.older[k] /\ x \notin K
    BY <1>2
  <2>3. \A k \in Keys : w.older[k] \subseteq Live(w) \ {k}
    <3> TAKE k \in Keys
    <3>1. s.older[k] \subseteq Live(s) \ {k}
      BY <2>1 DEF RecencyOK
    <3> QED
      BY <3>1, <2>2, <1>4
  <2>4. \A k \in Keys \ Live(w) : w.older[k] = {}
    BY <2>1, <2>2, <1>4 DEF RecencyOK
  <2>5. \A j, k \in Live(w) : j = k \/ j \in w.older[k] \/ k \in w.older[j]
    <3> TAKE j, k \in Live(w)
    <3>1. j \in Live(s) /\ k \in Live(s) /\ j \notin K /\ k \notin K /\ j \in Keys /\ k \in Keys
      BY <1>4, <2>1
    <3>2. j = k \/ j \in s.older[k] \/ k \in s.older[j]
      BY <2>1, <3>1 DEF RecencyOK
    <3> QED
      BY <3>1, <3>2, <2>2
  <2>6. \A j, k \in Live(w) : j \in w.older[k] => w.older[j] \subseteq w.older[k]
    <3> TAKE j, k \in Live(w)
    <3>1. j \in Live(s) /\ k \in Live(s) /\ j \notin K /\ k \notin K /\ j \in Keys /\ k \in Keys
      BY <1>4, <2>1
    <3>2. j \in s.older[k] => s.older[j] \subseteq s.older[k]
      BY <2>1, <3>1 DEF RecencyOK
    <3> QED
      BY <3>1, <3>2, <2>2
  <2> QED
    BY <2>3, <2>4, <2>5, <2>6 DEF RecencyOK
<1> QED
  BY <1>2, <1>4, <1>5, <1>11, <1>12, <1>13, <1>14, <1>15 DEF SInv, w

\* Making an entry the most recent keeps the store consistent.
LEMMA TouchOK ==
  ASSUME NEW s, SInv(s), NEW k \in Live(s)
  PROVE  /\ SInv(Touch(s, k))
         /\ Live(Touch(s, k)) = Live(s)
         /\ Touch(s, k).data = s.data
         /\ Touch(s, k).used = s.used
         /\ Touch(s, k).budget = s.budget
         /\ Touch(s, k).pinned = s.pinned
<1> DEFINE w == Touch(s, k)
<1>1. s \in RamRecords /\ k \in Keys /\ Live(s) \subseteq Keys
  BY DEF SInv, Live
<1>2. /\ w.data = s.data /\ w.used = s.used /\ w.budget = s.budget /\ w.pinned = s.pinned
      /\ w.older = [j \in Keys |-> IF j = k THEN Live(s) \ {k} ELSE s.older[j] \ {k}]
  BY <1>1 DEF Touch, RamRecords
<1>3. ASSUME w.older \in [Keys -> SUBSET Keys]
      PROVE  w \in RamRecords
  BY <1>1, <1>3 DEF Touch, RamRecords
<1> HIDE DEF w
<1>4. Live(w) = Live(s)
  BY <1>2 DEF Live
<1>5. w.older \in [Keys -> SUBSET Keys]
  BY <1>1, <1>2 DEF RamRecords
<1>6. w \in RamRecords
  BY <1>3, <1>5
<1>7. Accounted(w)
  <2>1. BytesOf(Live(w)) = BytesOf(Live(s))
    BY <1>4, Zenon
  <2> QED
    BY <1>2, <2>1 DEF SInv, Accounted
<1>8. IsFiniteSet(Live(w))
  BY <1>4, Zenon DEF SInv
<1>9. PinOK(w) /\ WellKeyed(w)
  BY <1>2, <1>4 DEF SInv, PinOK, WellKeyed
<1>10. RecencyOK(w)
  <2>1. RecencyOK(s)
    BY DEF SInv
  <2>2. \A j \in Keys : \A x : x \in w.older[j] <=>
          (j = k /\ x \in Live(s) /\ x # k) \/ (j # k /\ x \in s.older[j] /\ x # k)
    BY <1>2
  <2>3. \A j \in Keys : w.older[j] \subseteq Live(w) \ {j}
    <3> TAKE j \in Keys
    <3>1. s.older[j] \subseteq Live(s) \ {j}
      BY <2>1 DEF RecencyOK
    <3> QED
      BY <3>1, <2>2, <1>4
  <2>4. \A j \in Keys \ Live(w) : w.older[j] = {}
    BY <2>1, <2>2, <1>4, <1>1 DEF RecencyOK
  <2>5. \A i, j \in Live(w) : i = j \/ i \in w.older[j] \/ j \in w.older[i]
    <3> TAKE i, j \in Live(w)
    <3>1. i \in Live(s) /\ j \in Live(s) /\ i \in Keys /\ j \in Keys
      BY <1>4, <1>1
    <3>2. i = j \/ i \in s.older[j] \/ j \in s.older[i]
      BY <2>1, <3>1 DEF RecencyOK
    <3> QED
      BY <3>1, <3>2, <2>2
  <2>6. \A i, j \in Live(w) : i \in w.older[j] => w.older[i] \subseteq w.older[j]
    <3> TAKE i, j \in Live(w)
    <3>1. i \in Live(s) /\ j \in Live(s) /\ i \in Keys /\ j \in Keys
      BY <1>4, <1>1
    <3>2. i \in s.older[j] => s.older[i] \subseteq s.older[j]
      BY <2>1, <3>1 DEF RecencyOK
    <3>3. s.older[i] \subseteq Live(s)
      BY <2>1, <3>1 DEF RecencyOK
    <3> QED
      BY <3>1, <3>2, <3>3, <2>2
  <2> QED
    BY <2>3, <2>4, <2>5, <2>6 DEF RecencyOK
<1> QED
  BY <1>2, <1>4, <1>6, <1>7, <1>8, <1>9, <1>10 DEF SInv, w

\* Storing under a free key, when the entry fits, keeps the store consistent.
LEMMA StoreOK ==
  ASSUME NEW s, SInv(s), NEW stamp \in Stamps, NEW p \in TokenSeqs,
         KeyOf(stamp, p) \notin Live(s), s.used + Bytes[Len(p)] <= s.budget
  PROVE  LET k == KeyOf(stamp, p)
             w == Store(s, k, p)
         IN  /\ SInv(w)
             /\ Live(w) = Live(s) \cup {k}
             /\ w.data = [s.data EXCEPT ![k] = p]
             /\ w.pinned = s.pinned
             /\ w.budget = s.budget
<1> DEFINE k == KeyOf(stamp, p)
           mid == [s EXCEPT !.data = [@ EXCEPT ![k] = p], !.used = @ + Bytes[Len(p)]]
           w == Store(s, k, p)
<1>1. s \in RamRecords /\ Live(s) \subseteq Keys /\ Live(s) = {j \in Keys : s.data[j] # NoData}
  BY DEF SInv, Live
<1>2. k \in Keys /\ k[2] = Len(p) /\ k[3] = Hash[p] /\ p # NoData /\ k \notin Live(s)
  BY PrefixKey
<1> HIDE DEF k
<1>3. /\ mid.data = [s.data EXCEPT ![k] = p] /\ mid.used = s.used + Bytes[Len(p)]
      /\ mid.older = s.older /\ mid.pinned = s.pinned /\ mid.budget = s.budget
  BY <1>1 DEF RamRecords
<1>4. Live(mid) = Live(s) \cup {k}
  BY <1>1, <1>2, <1>3 DEF Live, RamRecords
<1>5. w = [mid EXCEPT !.older = [j \in Keys |->
                                    IF j = k THEN Live(mid) \ {k} ELSE mid.older[j] \ {k}]]
  BY DEF Store, Touch
<1>6. ASSUME mid \in RamRecords, w.older \in [Keys -> SUBSET Keys]
      PROVE  w \in RamRecords
  BY <1>5, <1>6 DEF RamRecords
<1>7. ASSUME mid.used \in Nat, mid.data \in [Keys -> TokenSeqs \cup {NoData}]
      PROVE  mid \in RamRecords
  BY <1>1, <1>7 DEF RamRecords
<1>8. w.data = mid.data /\ w.used = mid.used /\ w.pinned = mid.pinned /\ w.budget = mid.budget
  BY <1>1, <1>5 DEF RamRecords
<1>9. w.older = [j \in Keys |-> IF j = k THEN Live(mid) \ {k} ELSE mid.older[j] \ {k}]
  BY <1>1, <1>5 DEF RamRecords
<1> HIDE DEF mid, w
<1>10. Live(w) = Live(s) \cup {k}
  BY <1>4, <1>8 DEF Live
<1>11. w.older \in [Keys -> SUBSET Keys]
  BY <1>1, <1>3, <1>4, <1>9, <1>2 DEF RamRecords
<1>12. IsFiniteSet(Live(s)) /\ IsFiniteSet({k}) /\ IsFiniteSet(Live(w))
  <2>1. IsFiniteSet(Live(s) \cup {k})
    BY FS_AddElement DEF SInv
  <2>2. IsFiniteSet(Live(w))
    BY <2>1, <1>10, Zenon
  <2> QED
    BY <2>2, FS_Singleton DEF SInv
<1>13. BytesOf({k}) = Bytes[Len(p)] /\ Bytes[Len(p)] \in Nat
  BY <1>2, BytesOne
<1>14. BytesOf(Live(w)) = BytesOf(Live(s)) + BytesOf({k})
  <2>1. Live(s) \cap {k} = {}
    BY <1>2
  <2>2. BytesOf(Live(s) \cup {k}) = BytesOf(Live(s)) + BytesOf({k})
    BY <2>1, <1>12, BytesAdd
  <2> QED
    BY <2>2, <1>10, Zenon
<1>15. s.used \in Nat /\ s.used = BytesOf(Live(s))
  BY <1>1 DEF SInv, Accounted, RamRecords
<1>16. Accounted(w) /\ w.used \in Nat
  BY <1>3, <1>8, <1>13, <1>14, <1>15 DEF Accounted
<1>17. w \in RamRecords
  <2>1. mid.data \in [Keys -> TokenSeqs \cup {NoData}]
    BY <1>1, <1>2, <1>3 DEF RamRecords
  <2> QED
    BY <1>6, <1>7, <1>8, <1>11, <1>16, <2>1
<1>18. PinOK(w)
  BY <1>3, <1>8, <1>10 DEF SInv, PinOK
<1>19. \A j \in Keys : w.data[j] = IF j = k THEN p ELSE s.data[j]
  BY <1>1, <1>3, <1>8 DEF RamRecords
<1>20. WellKeyed(w)
  BY <1>2, <1>10, <1>19, <1>1 DEF SInv, WellKeyed
<1>21. RecencyOK(w)
  <2>1. RecencyOK(s)
    BY DEF SInv
  <2>2. \A j \in Keys : \A x : x \in w.older[j] <=>
          (j = k /\ x \in Live(s)) \/ (j # k /\ x \in s.older[j] /\ x # k)
    BY <1>9, <1>3, <1>4, <1>2
  <2>3. \A j \in Keys : w.older[j] \subseteq Live(w) \ {j}
    <3> TAKE j \in Keys
    <3>1. s.older[j] \subseteq Live(s) \ {j}
      BY <2>1 DEF RecencyOK
    <3> QED
      BY <3>1, <2>2, <1>10, <1>2
  <2>4. \A j \in Keys \ Live(w) : w.older[j] = {}
    BY <2>1, <2>2, <1>10, <1>2 DEF RecencyOK
  <2>5. \A i, j \in Live(w) : i = j \/ i \in w.older[j] \/ j \in w.older[i]
    <3> TAKE i, j \in Live(w)
    <3>1. i \in Live(s) \cup {k} /\ j \in Live(s) \cup {k} /\ i \in Keys /\ j \in Keys
      BY <1>10, <1>1, <1>2
    <3>2. i \in Live(s) /\ j \in Live(s) => i = j \/ i \in s.older[j] \/ j \in s.older[i]
      BY <2>1 DEF RecencyOK
    <3> QED
      BY <3>1, <3>2, <2>2, <1>2
  <2>6. \A i, j \in Live(w) : i \in w.older[j] => w.older[i] \subseteq w.older[j]
    <3> TAKE i, j \in Live(w)
    <3>1. i \in Live(s) \cup {k} /\ j \in Live(s) \cup {k} /\ i \in Keys /\ j \in Keys
      BY <1>10, <1>1, <1>2
    <3>2. i \in Live(s) /\ j \in Live(s) /\ i \in s.older[j] => s.older[i] \subseteq s.older[j]
      BY <2>1 DEF RecencyOK
    <3>3. s.older[i] \subseteq Live(s) /\ s.older[j] \subseteq Live(s)
      BY <2>1, <3>1 DEF RecencyOK
    <3> QED
      BY <3>1, <3>2, <3>3, <2>2, <1>2
  <2> QED
    BY <2>3, <2>4, <2>5, <2>6 DEF RecencyOK
<1> QED
  BY <1>3, <1>8, <1>10, <1>12, <1>16, <1>17, <1>18, <1>20, <1>21 DEF SInv, w, k

-----------------------------------------------------------------------------
\* A nonempty set of live entries has a least recently used one.
LEMMA Oldest ==
  ASSUME NEW s, SInv(s), NEW S, S \subseteq Live(s), S # {}
  PROVE  \E m \in S : s.older[m] \cap S = {}
<1> DEFINE R == StrictSubsetOrdering(Live(s))
           T == {s.older[m] : m \in S}
<1>1. /\ Live(s) \subseteq Keys /\ RecencyOK(s) /\ IsFiniteSet(Live(s))
  BY DEF SInv, Live
<1>2. \A m \in Keys : s.older[m] \subseteq Live(s) /\ m \notin s.older[m]
  BY <1>1 DEF RecencyOK
<1>3. \A m \in Keys : IsFiniteSet(s.older[m])
  BY <1>1, <1>2, FS_Subset
<1>4. T \subseteq FiniteSubsetsOf(Live(s)) /\ T # {}
  BY <1>1, <1>2, <1>3 DEF FiniteSubsetsOf
<1>5. PICK t \in T : \A u \in T : <<u, t>> \notin R
  <2> HIDE DEF T, R
  <2>1. IsWellFoundedOn(R, FiniteSubsetsOf(Live(s)))
    BY FS_StrictSubsetOrderingWellFounded DEF R
  <2> QED
    BY <2>1, <1>4, WFMin
<1>6. PICK m \in S : t = s.older[m]
  OBVIOUS
<1>7. ASSUME NEW x \in S, x \in s.older[m]
      PROVE  FALSE
  <2>1. s.older[x] \subseteq s.older[m] /\ x \notin s.older[x] /\ s.older[m] \subseteq Live(s)
    BY <1>7, <1>1, <1>2 DEF RecencyOK
  <2>2. <<s.older[x], s.older[m]>> \in R
    BY <2>1, <1>7 DEF StrictSubsetOrdering
  <2>3. s.older[x] \in T
    OBVIOUS
  <2> QED
    BY <2>2, <2>3, <1>5, <1>6
<1> QED
  BY <1>7

(***************************************************************************)
(* The eviction loop makes room: whenever the new entry fits beside the    *)
(* pinned one, the victims free enough for it.                             *)
(***************************************************************************)
LEMMA VictimsMakeRoom ==
  ASSUME NEW s, SInv(s), NEW b \in Nat, PinnedBytes(s) + b <= s.budget
  PROVE  Without(s, Victims(s, b)).used + b <= s.budget
<1> DEFINE V == Victims(s, b)
           P == {s.pinned} \cap Live(s)
           S == Unpinned(s) \ V
<1>1. V \subseteq Unpinned(s) /\ V \subseteq Live(s) /\ Unpinned(s) \subseteq Live(s)
  BY DEF Victims, Unpinned
<1>2. IsFiniteSet(Live(s)) /\ s.used = BytesOf(Live(s)) /\ s.used \in Nat /\ s.budget \in Nat
  BY SnapshotAssumption, RamAssumption DEF SInv, Accounted, RamRecords
<1>3. Without(s, V).used = s.used - BytesOf(V)
  <2>1. V \cap Live(s) = V
    BY <1>1
  <2>2. Without(s, V).used = s.used - BytesOf(V \cap Live(s))
    BY <1>1, WithoutOK DEF Live
  <2> QED
    BY <2>1, <2>2, Zenon
<1>4. BytesOf(V) \in Nat /\ IsFiniteSet(V)
  BY <1>1, <1>2, FS_Subset, CellsFinite
<1>5. CASE S = {}
  <2>1. Live(s) \ V = P
    BY <1>1, <1>5 DEF Unpinned
  <2>2. BytesOf(Live(s) \ V) = BytesOf(Live(s)) - BytesOf(V)
    BY <1>1, <1>2, BytesDifference
  <2>3. BytesOf(Live(s) \ V) = PinnedBytes(s)
    BY <2>1, Zenon DEF PinnedBytes
  <2> QED
    BY <1>2, <1>3, <1>4, <2>2, <2>3
<1>6. CASE S # {}
  <2>1. PICK m \in S : s.older[m] \cap S = {}
    BY <1>6, <1>1, Oldest
  <2> DEFINE O == s.older[m] \cap Unpinned(s)
  <2>2. O \subseteq V
    BY <2>1
  <2>3. BytesOf(O) <= BytesOf(V)
    BY <2>2, <1>4, BytesDifference
  <2>4. BytesOf(O) \in Nat
    BY <2>2, <1>4, FS_Subset, CellsFinite
  <2>5. ~ (s.used - BytesOf(O) + b > s.budget)
    BY DEF Victims
  <2> HIDE DEF O
  <2> QED
    BY <1>2, <1>3, <1>4, <2>3, <2>4, <2>5
<1> QED
  BY <1>5, <1>6

LEMMA MakeRoomAndStoreOK ==
  ASSUME NEW s, SInv(s), NEW stamp \in Stamps, NEW p \in TokenSeqs,
         KeyOf(stamp, p) \notin Live(s),
         PinnedBytes(s) + Bytes[Len(p)] <= s.budget
  PROVE  LET k == KeyOf(stamp, p)
             w == MakeRoomAndStore(s, k, p)
         IN  /\ SInv(w)
             /\ k \in Live(w)
             /\ w.pinned = s.pinned
             /\ w.budget = s.budget
             /\ s.pinned # NoKey => w.data[s.pinned] = s.data[s.pinned]
<1> DEFINE k == KeyOf(stamp, p)
           b == Bytes[Len(p)]
           V == Victims(s, b)
           r == Without(s, V)
<1>1. k \in Keys /\ k[2] = Len(p)
  BY PrefixKey
<1>2. b \in Nat
  BY <1>1, BytesOne
<1>3. V \subseteq Keys /\ s.pinned \notin V
  BY DEF Victims, Unpinned, Live
<1>4. SInv(r) /\ Live(r) = Live(s) \ V /\ r.pinned = s.pinned /\ r.budget = s.budget
  BY <1>3, WithoutOK
<1>5. r.used + b <= s.budget
  BY <1>2, VictimsMakeRoom
<1>6. KeyOf(stamp, p) \notin Live(r) /\ r.used + Bytes[Len(p)] <= r.budget
  BY <1>4, <1>5
<1>7. /\ SInv(Store(r, k, p)) /\ Live(Store(r, k, p)) = Live(r) \cup {k}
      /\ Store(r, k, p).data = [r.data EXCEPT ![k] = p]
      /\ Store(r, k, p).pinned = r.pinned
      /\ Store(r, k, p).budget = r.budget
  <2> HIDE DEF r
  <2> QED
    BY <1>4, <1>6, StoreOK
<1>8. s.pinned # NoKey => Store(r, k, p).data[s.pinned] = s.data[s.pinned]
  <2> SUFFICES ASSUME s.pinned # NoKey
               PROVE  Store(r, k, p).data[s.pinned] = s.data[s.pinned]
    OBVIOUS
  <2>1. s.pinned \in Live(s) /\ s.pinned \in Keys
    BY DEF SInv, PinOK, Live
  <2>2. s.pinned # k
    BY <2>1
  <2>3. r.data = [j \in Keys |-> IF j \in V THEN NoData ELSE s.data[j]]
    BY DEF Without, SInv, RamRecords
  <2> QED
    BY <1>7, <2>1, <2>2, <2>3, <1>3
<1>9. MakeRoomAndStore(s, k, p) = Store(r, k, p)
  BY DEF MakeRoomAndStore
<1> QED
  BY <1>4, <1>7, <1>8, <1>9

-----------------------------------------------------------------------------
\* A nonempty set of positions has a largest element.
LEMMA LargestPosition ==
  ASSUME NEW L \in Nat, NEW H, H \subseteq 1..L, H # {}
  PROVE  \E n \in H : \A m \in H : m <= n
<1> DEFINE R == StrictSubsetOrdering(1..L)
           T == {(n + 1)..L : n \in H}
<1>1. IsFiniteSet(1..L)
  BY FS_Interval
<1>2. \A n \in H : (n + 1)..L \subseteq 1..L
  OBVIOUS
<1>3. T \subseteq FiniteSubsetsOf(1..L) /\ T # {}
  <2>1. \A n \in H : IsFiniteSet((n + 1)..L)
    BY <1>1, <1>2, FS_Subset
  <2> QED
    BY <1>2, <2>1 DEF FiniteSubsetsOf
<1>4. PICK t \in T : \A u \in T : <<u, t>> \notin R
  <2> HIDE DEF T, R
  <2>1. IsWellFoundedOn(R, FiniteSubsetsOf(1..L))
    BY FS_StrictSubsetOrderingWellFounded DEF R
  <2> QED
    BY <2>1, <1>3, WFMin
<1>5. PICK n \in H : t = (n + 1)..L
  OBVIOUS
<1>6. ASSUME NEW m \in H, ~ (m <= n)
      PROVE  FALSE
  <2>1. m \in 1..L /\ n \in 1..L /\ n < m
    BY <1>6
  <2>2. (m + 1)..L \subseteq (n + 1)..L
    BY <2>1
  <2>3. m \in (n + 1)..L /\ m \notin (m + 1)..L
    BY <2>1
  <2>4. <<(m + 1)..L, (n + 1)..L>> \in R
    BY <1>2, <2>2, <2>3 DEF StrictSubsetOrdering
  <2>5. (m + 1)..L \in T
    OBVIOUS
  <2> QED
    BY <2>4, <2>5, <1>4, <1>5
<1> QED
  BY <1>6

\* find_best returns the longest hit whenever there is a hit.
LEMMA BestIsLongest ==
  ASSUME NEW s, NEW stamp, NEW ids, Len(ids) \in Nat, RamHits(s, stamp, ids) # {}
  PROVE  /\ RamBest(s, stamp, ids) \in RamHits(s, stamp, ids)
         /\ \A m \in RamHits(s, stamp, ids) : m <= RamBest(s, stamp, ids)
<1>1. RamHits(s, stamp, ids) \subseteq 1..Len(ids)
  BY DEF RamHits
<1>2. \E n \in RamHits(s, stamp, ids) : \A m \in RamHits(s, stamp, ids) : m <= n
  BY <1>1, LargestPosition
<1> QED
  BY <1>2 DEF RamBest

-----------------------------------------------------------------------------
\* The three operations keep the store consistent, and `insert` keeps the pin
\* and what it names unless it stores under the pinned key.
LEMMA InsertOK ==
  ASSUME NEW s, SInv(s), NEW stamp \in Stamps, NEW p \in TokenSeqs
  PROVE  /\ SInv(RamInsert(s, stamp, p))
         /\ s.pinned # NoKey /\ s.pinned # KeyOf(stamp, p) =>
              /\ RamInsert(s, stamp, p).pinned = s.pinned
              /\ RamInsert(s, stamp, p).data[s.pinned] = s.data[s.pinned]
<1> DEFINE k == KeyOf(stamp, p)
           b == Bytes[Len(p)]
           fresh == Without(s, {k})
<1>1. k \in Keys /\ b \in Nat
  BY PrefixKey, BytesOne
<1>2. /\ SInv(fresh) /\ Live(fresh) = Live(s) \ {k} /\ fresh.budget = s.budget
      /\ fresh.pinned = IF s.pinned \in {k} THEN NoKey ELSE s.pinned
  <2>1. {k} \subseteq Keys
    BY <1>1
  <2> HIDE DEF k
  <2> QED
    BY <2>1, WithoutOK
<1>3. ASSUME s.pinned # NoKey, s.pinned # k
      PROVE  fresh.pinned = s.pinned /\ fresh.data[s.pinned] = s.data[s.pinned]
  <2>1. s.pinned \in Keys
    BY <1>3 DEF SInv, PinOK, Live
  <2>2. fresh.data = [j \in Keys |-> IF j \in {k} THEN NoData ELSE s.data[j]]
    BY DEF Without, SInv, RamRecords
  <2> QED
    BY <1>2, <1>3, <2>1, <2>2
<1>4. CASE ~ CanPin(s, b)
  BY <1>4 DEF RamInsert
<1>5. CASE CanPin(s, b) /\ ~ FitsBesidePinned(fresh, b)
  <2>1. RamInsert(s, stamp, p) = fresh
    BY <1>5 DEF RamInsert
  <2> QED
    BY <2>1, <1>2, <1>3
<1>6. CASE CanPin(s, b) /\ FitsBesidePinned(fresh, b)
  <2>1. RamInsert(s, stamp, p) = MakeRoomAndStore(fresh, k, p)
    BY <1>6 DEF RamInsert
  <2>2. PinnedBytes(fresh) + b <= fresh.budget
    <3>1. IsFiniteSet({fresh.pinned} \cap Live(fresh))
      BY <1>2, FS_Intersection DEF SInv
    <3>2. PinnedBytes(fresh) \in Nat
      BY <3>1, CellsFinite DEF PinnedBytes
    <3> QED
      BY <1>1, <1>6, <3>2 DEF FitsBesidePinned
  <2>3. KeyOf(stamp, p) \notin Live(fresh)
    BY <1>2
  <2> HIDE DEF fresh
  <2>4. /\ SInv(MakeRoomAndStore(fresh, k, p))
        /\ MakeRoomAndStore(fresh, k, p).pinned = fresh.pinned
        /\ fresh.pinned # NoKey =>
             MakeRoomAndStore(fresh, k, p).data[fresh.pinned] = fresh.data[fresh.pinned]
    BY <1>2, <2>2, <2>3, MakeRoomAndStoreOK
  <2> QED
    BY <1>3, <2>1, <2>4
<1> QED
  BY <1>4, <1>5, <1>6

\* Setting or clearing the pin disturbs nothing else.
LEMMA RepinOK ==
  ASSUME NEW s, SInv(s), NEW k \in Live(s) \cup {NoKey}
  PROVE  LET w == [s EXCEPT !.pinned = k]
         IN  SInv(w) /\ Live(w) = Live(s) /\ w.pinned = k /\ w.budget = s.budget
<1> DEFINE w == [s EXCEPT !.pinned = k]
<1>1. s \in RamRecords /\ Live(s) \subseteq Keys
  BY DEF SInv, Live
<1>2. w.data = s.data /\ w.used = s.used /\ w.older = s.older /\ w.budget = s.budget
        /\ w.pinned = k
  BY <1>1 DEF RamRecords
<1>3. w \in RamRecords
  BY <1>1 DEF RamRecords
<1> HIDE DEF w
<1>4. Live(w) = Live(s)
  BY <1>2 DEF Live
<1>5. BytesOf(Live(w)) = BytesOf(Live(s)) /\ IsFiniteSet(Live(w))
  BY <1>4, Zenon DEF SInv
<1>6. Accounted(w)
  BY <1>2, <1>5 DEF SInv, Accounted
<1>7. PinOK(w) /\ WellKeyed(w)
  BY <1>2, <1>4 DEF SInv, PinOK, WellKeyed
<1>8. RecencyOK(w)
  BY <1>2, <1>4 DEF SInv, RecencyOK
<1> QED
  BY <1>2, <1>3, <1>4, <1>5, <1>6, <1>7, <1>8 DEF SInv, w

LEMMA InsertPinnedOK ==
  ASSUME NEW s, SInv(s), NEW stamp \in Stamps, NEW p \in TokenSeqs
  PROVE  /\ SInv(RamInsertPinned(s, stamp, p))
         /\ \/ RamInsertPinned(s, stamp, p) = s
            \/ RamInsertPinned(s, stamp, p).pinned = KeyOf(stamp, p)
<1> DEFINE k == KeyOf(stamp, p)
           b == Bytes[Len(p)]
           fresh == [Without(s, {k}) EXCEPT !.pinned = NoKey]
<1>1. k \in Keys /\ b \in Nat
  BY PrefixKey, BytesOne
<1>2. SInv(Without(s, {k})) /\ Live(Without(s, {k})) = Live(s) \ {k}
        /\ Without(s, {k}).budget = s.budget
  BY <1>1, WithoutOK
<1>3. SInv(fresh) /\ Live(fresh) = Live(s) \ {k} /\ fresh.pinned = NoKey
        /\ fresh.budget = s.budget
  BY <1>2, RepinOK
<1>4. CASE ~ CanPin(s, b)
  BY <1>4 DEF RamInsertPinned
<1>5. CASE CanPin(s, b)
  <2>1. RamInsertPinned(s, stamp, p) = [MakeRoomAndStore(fresh, k, p) EXCEPT !.pinned = k]
    BY <1>5 DEF RamInsertPinned
  <2>2. PinnedBytes(fresh) = 0
    <3>1. {fresh.pinned} \cap Live(fresh) = {}
      BY <1>3, SnapshotAssumption, RamAssumption DEF Live
    <3>2. Cells({}) = {} /\ BytesOf({}) = Cardinality(Cells({}))
      BY FS_EmptySet, CellsFinite DEF Cells
    <3>3. BytesOf({}) = 0
      BY <3>2, FS_EmptySet
    <3> QED
      BY <3>1, <3>3, Zenon DEF PinnedBytes
  <2>3. PinnedBytes(fresh) + b <= fresh.budget
    BY <1>1, <1>3, <1>5, <2>2 DEF CanPin
  <2>4. KeyOf(stamp, p) \notin Live(fresh)
    BY <1>3
  <2> HIDE DEF fresh
  <2>5. SInv(MakeRoomAndStore(fresh, k, p)) /\ k \in Live(MakeRoomAndStore(fresh, k, p))
    BY <1>3, <2>3, <2>4, MakeRoomAndStoreOK
  <2> QED
    BY <2>1, <2>5, RepinOK
<1> QED
  BY <1>4, <1>5

LEMMA FindBestOK ==
  ASSUME NEW s, SInv(s), NEW stamp \in Stamps, NEW ids \in TokenSeqs
  PROVE  /\ SInv(RamTouchBest(s, stamp, ids))
         /\ RamTouchBest(s, stamp, ids).pinned = s.pinned
         /\ RamTouchBest(s, stamp, ids).data = s.data
<1>1. CASE RamBest(s, stamp, ids) = 0
  BY <1>1 DEF RamTouchBest
<1>2. CASE RamBest(s, stamp, ids) # 0
  <2>1. RamHits(s, stamp, ids) # {}
    BY <1>2 DEF RamBest
  <2>2. Len(ids) \in Nat
    BY PrefixKey
  <2>3. RamBest(s, stamp, ids) \in RamHits(s, stamp, ids)
    BY <2>1, <2>2, BestIsLongest
  <2>4. KeyOf(stamp, SubSeq(ids, 1, RamBest(s, stamp, ids))) \in Live(s)
    BY <2>3 DEF RamHits, Holds
  <2> QED
    BY <1>2, <2>4, TouchOK DEF RamTouchBest
<1> QED
  BY <1>1, <1>2

-----------------------------------------------------------------------------
\* An empty store is consistent, whatever its budget.
LEMMA NewRamOK ==
  ASSUME NEW budget \in Budgets
  PROVE  SInv(NewRam(budget))
<1> DEFINE s == NewRam(budget)
<1>1. Live(s) = {}
  BY DEF NewRam, Live
<1>2. BytesOf({}) = 0
  BY FS_EmptySet DEF BytesOf
<1>3. s \in RamRecords
  BY DEF NewRam, RamRecords
<1>4. IsFiniteSet(Live(s)) /\ BytesOf(Live(s)) = 0
  BY <1>1, <1>2, FS_EmptySet, Zenon
<1>5. Accounted(s)
  BY <1>4, SnapshotAssumption, RamAssumption DEF Accounted, NewRam
<1>6. PinOK(s) /\ WellKeyed(s) /\ RecencyOK(s)
  BY <1>1 DEF PinOK, WellKeyed, RecencyOK, NewRam
<1> QED
  BY <1>3, <1>4, <1>5, <1>6 DEF SInv

LEMMA InitInv == RamInit => RamInv
BY NewRamOK, Zenon DEF RamInit, RamInv

LEMMA NextInv == RamInv /\ [RamNext]_ram => RamInv'
<1> SUFFICES ASSUME SInv(ram), [RamNext]_ram
             PROVE  SInv(ram')
  BY DEF RamInv, SInv, RamRecords, Live, Accounted, BytesOf, PinOK, WellKeyed, RecencyOK
<1>1. ASSUME NEW stamp \in Stamps, NEW p \in TokenSeqs, Insert(stamp, p)
      PROVE  SInv(ram')
  BY <1>1, InsertOK, Zenon DEF Insert
<1>2. ASSUME NEW stamp \in Stamps, NEW p \in TokenSeqs, InsertPinned(stamp, p)
      PROVE  SInv(ram')
  BY <1>2, InsertPinnedOK, Zenon DEF InsertPinned
<1>3. ASSUME NEW stamp \in Stamps, NEW p \in TokenSeqs, FindBest(stamp, p)
      PROVE  SInv(ram')
  BY <1>3, FindBestOK, Zenon DEF FindBest
<1>4. CASE UNCHANGED ram
  BY <1>4, Zenon
<1> QED
  BY <1>1, <1>2, <1>3, <1>4 DEF RamNext

\* The whole inductive invariant, for every budget, size function and hash.
THEOREM RamStoreInvariant == RamSpec => []RamInv
<1> QED
  BY InitInv, NextInv, PTL DEF RamSpec

\* The fields of the store keep their types.
THEOREM RamTypeCorrect == RamSpec => []RamTypeOK
<1>1. RamInv => RamTypeOK
  BY DEF RamInv, SInv, RamTypeOK
<1> QED
  BY <1>1, RamStoreInvariant, PTL

(***************************************************************************)
(* However large the budget and the snapshots, the byte counter is exact   *)
(* and within the budget, the pin names a live entry, and the map is keyed *)
(* and ordered consistently.                                               *)
(***************************************************************************)
THEOREM RamWithinBudget ==
  RamSpec => [](ExactWithinBudget /\ IndexConsistent)
<1>1. RamInv => ExactWithinBudget /\ IndexConsistent
  BY DEF RamInv, SInv, ExactWithinBudget, IndexConsistent
<1> QED
  BY <1>1, RamStoreInvariant, PTL

(***************************************************************************)
(* The lookup contract holds for every hash function, collisions included: *)
(* a hit is an exact strict prefix stored under that stamp, and nothing    *)
(* longer that is stored was missed.                                       *)
(***************************************************************************)
THEOREM RamLookupCorrect == RamSpec => []LookupIsLongestExactPrefix
<1>1. RamInv => LookupIsLongestExactPrefix
  <2> SUFFICES ASSUME SInv(ram), NEW stamp \in Stamps, NEW ids \in TokenSeqs
               PROVE  LET n == RamBest(ram, stamp, ids) IN
                        /\ n # 0 => n < Len(ids) /\ Stored(stamp, ids, n)
                             /\ ram.data[KeyOf(stamp, SubSeq(ids, 1, n))] = SubSeq(ids, 1, n)
                        /\ \A m \in (n + 1)..(Len(ids) - 1) : ~ Stored(stamp, ids, m)
    BY DEF RamInv, LookupIsLongestExactPrefix
  <2> DEFINE n == RamBest(ram, stamp, ids)
  <2>1. Len(ids) \in Nat
    BY PrefixKey
  <2>2. ASSUME NEW m \in 1..(Len(ids) - 1), Stored(stamp, ids, m)
        PROVE  m \in RamHits(ram, stamp, ids)
    <3>1. PICK k \in Live(ram) : k[1] = stamp /\ ram.data[k] = SubSeq(ids, 1, m)
      BY <2>2 DEF Stored
    <3>2. k[2] = Len(SubSeq(ids, 1, m)) /\ k[3] = Hash[SubSeq(ids, 1, m)]
      BY <3>1 DEF SInv, WellKeyed
    <3>3. k \in Keys /\ k = <<k[1], k[2], k[3]>>
      BY DEF Live, Keys
    <3>4. k = KeyOf(stamp, SubSeq(ids, 1, m))
      BY <3>1, <3>2, <3>3 DEF KeyOf
    <3> QED
      BY <3>1, <3>4 DEF RamHits, Holds
  <2>3. CASE RamHits(ram, stamp, ids) = {}
    <3>1. n = 0
      BY <2>3 DEF RamBest
    <3> QED
      BY <3>1, <2>2, <2>3
  <2>4. CASE RamHits(ram, stamp, ids) # {}
    <3>1. n \in RamHits(ram, stamp, ids) /\ \A m \in RamHits(ram, stamp, ids) : m <= n
      BY <2>1, <2>4, BestIsLongest
    <3>2. n \in 1..(Len(ids) - 1) /\ Holds(ram, stamp, SubSeq(ids, 1, n))
      BY <3>1 DEF RamHits
    <3> HIDE DEF n
    <3>3. \A m \in (n + 1)..(Len(ids) - 1) : ~ Stored(stamp, ids, m)
      <4> SUFFICES ASSUME NEW m \in (n + 1)..(Len(ids) - 1), Stored(stamp, ids, m)
                   PROVE  FALSE
        OBVIOUS
      <4>1. m \in 1..(Len(ids) - 1) /\ ~ (m <= n)
        BY <3>2, <2>1
      <4> QED
        BY <4>1, <2>2, <3>1
    <3>4. KeyOf(stamp, SubSeq(ids, 1, n))[1] = stamp
      BY DEF KeyOf
    <3>5. Stored(stamp, ids, n)
      BY <3>2, <3>4 DEF Stored, Holds
    <3> QED
      BY <2>1, <3>2, <3>3, <3>5 DEF Holds, n
  <2> QED
    BY <2>3, <2>4
<1> QED
  BY <1>1, RamStoreInvariant, PTL

(***************************************************************************)
(* The pin protects its entry in every reachable state, not only in the    *)
(* instances TLC explores.                                                 *)
(***************************************************************************)
THEOREM RamPinProtects == RamSpec => PinProtects
<1> DEFINE Protected ==
      ram.pinned # NoKey =>
        \/ ram.pinned' = ram.pinned /\ ram.data'[ram.pinned] = ram.data[ram.pinned]
        \/ ram.pinned' # NoKey
        \/ \E stamp \in Stamps, p \in TokenSeqs :
             ram.pinned = KeyOf(stamp, p) /\ Insert(stamp, p)
<1>1. RamInv /\ [RamNext]_ram => [Protected]_ram
  <2> SUFFICES ASSUME SInv(ram), RamNext, ram.pinned # NoKey
               PROVE  Protected
    BY DEF RamInv
  <2>1. ASSUME NEW stamp \in Stamps, NEW p \in TokenSeqs, Insert(stamp, p)
        PROVE  Protected
    <3>1. CASE ram.pinned = KeyOf(stamp, p)
      BY <2>1, <3>1
    <3>2. CASE ram.pinned # KeyOf(stamp, p)
      BY <2>1, <3>2, InsertOK DEF Insert
    <3> QED
      BY <3>1, <3>2
  <2>2. ASSUME NEW stamp \in Stamps, NEW p \in TokenSeqs, InsertPinned(stamp, p)
        PROVE  Protected
    <3>1. KeyOf(stamp, p) # NoKey
      BY PrefixKey, SnapshotAssumption, RamAssumption
    <3> QED
      BY <2>2, <3>1, InsertPinnedOK DEF InsertPinned
  <2>3. ASSUME NEW stamp \in Stamps, NEW p \in TokenSeqs, FindBest(stamp, p)
        PROVE  Protected
    BY <2>3, FindBestOK DEF FindBest
  <2> QED
    BY <2>1, <2>2, <2>3 DEF RamNext
<1> QED
  BY <1>1, RamStoreInvariant, PTL DEF RamSpec, PinProtects

\* The pin names a live entry, entries are under the key of their own prefix, and
\* recency is a strict total order, at every moment (the comment on `pinned`, ram.rs).
THEOREM RamIndexConsistent == RamSpec => []IndexConsistent
<1>1. RamInv => IndexConsistent
  BY DEF RamInv, SInv, IndexConsistent
<1> QED
  BY <1>1, RamStoreInvariant, PTL

-----------------------------------------------------------------------------
\* Every victim is older than every unpinned entry that stays.
LEMMA VictimsOldest ==
  ASSUME NEW s, SInv(s), NEW b \in Nat,
         NEW d \in Victims(s, b), NEW j \in Unpinned(s) \ Victims(s, b)
  PROVE  d \in s.older[j]
<1> DEFINE U == Unpinned(s)
<1>1. /\ U \subseteq Live(s) /\ Live(s) \subseteq Keys /\ IsFiniteSet(Live(s)) /\ RecencyOK(s)
      /\ d \in U /\ j \in U /\ d # j
  BY DEF SInv, Victims, Unpinned, Live
<1>2. s.used - BytesOf(s.older[d] \cap U) + b > s.budget
      /\ ~ (s.used - BytesOf(s.older[j] \cap U) + b > s.budget)
  BY DEF Victims
<1>3. s.used \in Nat /\ s.budget \in Nat
  BY RamAssumption DEF SInv, RamRecords
<1>4. IsFiniteSet(s.older[d] \cap U) /\ IsFiniteSet(s.older[j] \cap U)
  BY <1>1, FS_Subset
<1>5. BytesOf(s.older[d] \cap U) \in Nat /\ BytesOf(s.older[j] \cap U) \in Nat
  BY <1>4, CellsFinite
<1>6. ASSUME j \in s.older[d]
      PROVE  FALSE
  <2>1. s.older[j] \cap U \subseteq s.older[d] \cap U
    BY <1>1, <1>6 DEF RecencyOK
  <2>2. BytesOf(s.older[j] \cap U) <= BytesOf(s.older[d] \cap U)
    BY <1>4, <2>1, BytesDifference
  <2> QED
    BY <1>2, <1>3, <1>5, <2>2
<1> QED
  BY <1>1, <1>6 DEF RecencyOK

\* The victims are no more than needed: with the most recent of them kept, the new
\* entry would not have fitted.
LEMMA VictimsFrugal ==
  ASSUME NEW s, SInv(s), NEW b \in Nat, NEW d \in Victims(s, b),
         \A e \in Victims(s, b) \ {d} : e \in s.older[d]
  PROVE  s.used - BytesOf(Victims(s, b)) + b + BytesOf({d}) > s.budget
<1> DEFINE U == Unpinned(s)
           V == Victims(s, b)
<1>1. U \subseteq Live(s) /\ V \subseteq U /\ IsFiniteSet(Live(s)) /\ d \in U
  BY DEF SInv, Victims, Unpinned
<1>2. s.used - BytesOf(s.older[d] \cap U) + b > s.budget
  BY DEF Victims
<1>3. s.used \in Nat /\ s.budget \in Nat
  BY RamAssumption DEF SInv, RamRecords
<1>4. V \ {d} \subseteq s.older[d] \cap U
  BY <1>1
<1>5. /\ IsFiniteSet(V) /\ IsFiniteSet(V \ {d}) /\ IsFiniteSet({d})
      /\ IsFiniteSet(s.older[d] \cap U)
  BY <1>1, FS_Subset
<1>6. BytesOf(V \ {d}) <= BytesOf(s.older[d] \cap U)
  BY <1>4, <1>5, BytesDifference
<1>7. BytesOf(V \ {d}) = BytesOf(V) - BytesOf({d})
  BY <1>5, BytesDifference
<1>8. /\ BytesOf(V) \in Nat /\ BytesOf({d}) \in Nat /\ BytesOf(V \ {d}) \in Nat
      /\ BytesOf(s.older[d] \cap U) \in Nat
  BY <1>5, CellsFinite
<1> HIDE DEF U, V
<1>9. s.used - BytesOf(V) + b + BytesOf({d}) > s.budget
  BY <1>2, <1>3, <1>6, <1>7, <1>8
<1> QED
  BY <1>9 DEF V

\* What making room and storing leaves behind.
LEMMA MakeRoomShape ==
  ASSUME NEW s, SInv(s), NEW stamp \in Stamps, NEW p \in TokenSeqs,
         KeyOf(stamp, p) \notin Live(s),
         PinnedBytes(s) + Bytes[Len(p)] <= s.budget
  PROVE  LET k == KeyOf(stamp, p)
             V == Victims(s, Bytes[Len(p)])
             w == MakeRoomAndStore(s, k, p)
         IN  /\ Live(w) = (Live(s) \ V) \cup {k}
             /\ w.used = s.used - BytesOf(V) + Bytes[Len(p)]
             /\ \A j \in Keys \ {k} : w.older[j] \subseteq s.older[j]
<1> DEFINE k == KeyOf(stamp, p)
           b == Bytes[Len(p)]
           V == Victims(s, b)
           r == Without(s, V)
           w == MakeRoomAndStore(s, k, p)
<1>1. k \in Keys /\ b \in Nat
  BY PrefixKey, BytesOne
<1>2. V \subseteq Keys /\ V \subseteq Live(s) /\ s \in RamRecords
  BY DEF Victims, Unpinned, Live, SInv
<1>3. SInv(r) /\ Live(r) = Live(s) \ V /\ r.used = s.used - BytesOf(V \cap Live(s))
      /\ r.budget = s.budget
  BY <1>2, WithoutOK
<1>4. V \cap Live(s) = V
  BY <1>2
<1>5. r.used = s.used - BytesOf(V)
  BY <1>3, <1>4, Zenon
<1>6. r.older = [j \in Keys |-> IF j \in V THEN {} ELSE s.older[j] \ V] /\ r \in RamRecords
  BY <1>2, <1>3 DEF Without, RamRecords, SInv
<1>7. r.used + b <= r.budget
  BY <1>1, <1>3, VictimsMakeRoom
<1> HIDE DEF r, V, b, k
<1>8. w = Store(r, k, p)
  BY DEF MakeRoomAndStore, r, V, b
<1>9. Live(w) = Live(r) \cup {k}
  <2>1. KeyOf(stamp, p) \notin Live(r) /\ r.used + Bytes[Len(p)] <= r.budget
    BY <1>3, <1>7 DEF b
  <2>2. Live(Store(r, KeyOf(stamp, p), p)) = Live(r) \cup {KeyOf(stamp, p)}
    BY <1>3, <2>1, StoreOK
  <2> QED
    BY <1>8, <2>2 DEF k
<1>10. w.used = r.used + b
       /\ \A j \in Keys : j # k => w.older[j] = r.older[j] \ {k}
  <2> DEFINE mid == [r EXCEPT !.data = [@ EXCEPT ![k] = p], !.used = @ + b]
  <2>1. mid.used = r.used + b /\ mid.older = r.older /\ mid = [mid EXCEPT !.used = @]
    BY <1>6 DEF RamRecords
  <2>2. w = [mid EXCEPT !.older = [j \in Keys |->
                             IF j = k THEN Live(mid) \ {k} ELSE mid.older[j] \ {k}]]
    BY <1>8 DEF Store, Touch, b
  <2>3. w.used = mid.used /\ w.older = [j \in Keys |->
                             IF j = k THEN Live(mid) \ {k} ELSE mid.older[j] \ {k}]
    BY <1>6, <2>2 DEF RamRecords
  <2> HIDE DEF mid
  <2> QED
    BY <2>1, <2>3
<1>11. \A j \in Keys \ {k} : w.older[j] \subseteq s.older[j]
  BY <1>6, <1>10
<1> QED
  BY <1>3, <1>5, <1>9, <1>10, <1>11 DEF k, V, b

(***************************************************************************)
(* Eviction is oldest-first and frugal for every budget, size function and *)
(* sequence of calls: a step that stores drops only entries older than     *)
(* those it keeps, and not one that could have stayed (ram.rs, the loop of *)
(* insert_inner).                                                          *)
(***************************************************************************)
THEOREM RamEvictsOldestFirst == RamSpec => EvictsOldestFirst
<1> DEFINE Frugal ==
      \/ Refreshed = {} /\ Cardinality(Dropped) <= 1
      \/ \A new \in Refreshed, d \in Dropped :
           /\ \A k \in Unpinned(ram)' \ {new} : d \in ram.older[k]
           /\ (\A e \in Dropped \ {d} : e \in ram.older[d]) =>
                ram.used' + BytesOf({d}) > ram.budget
<1>1. ASSUME SInv(ram), NEW stamp \in Stamps, NEW p \in TokenSeqs, NEW fresh, SInv(fresh),
             NEW k, k = KeyOf(stamp, p),
             Live(fresh) = Live(ram) \ {k}, fresh.budget = ram.budget,
             \A j \in Keys \ {k} : fresh.older[j] = ram.older[j] \ {k},
             PinnedBytes(fresh) + Bytes[Len(p)] <= fresh.budget,
             ram'.older = MakeRoomAndStore(fresh, k, p).older,
             ram'.used = MakeRoomAndStore(fresh, k, p).used,
             Live(ram)' = Live(MakeRoomAndStore(fresh, k, p)),
             \A j \in Unpinned(ram)' \ {k} : j # fresh.pinned
      PROVE  Frugal
  <2> DEFINE b == Bytes[Len(p)]
             V == Victims(fresh, b)
  <2>1. k \in Keys /\ b \in Nat /\ k \notin Live(fresh)
    BY <1>1, PrefixKey, BytesOne
  <2>2. /\ Live(ram)' = (Live(fresh) \ V) \cup {k}
        /\ ram'.used = fresh.used - BytesOf(V) + b
        /\ \A j \in Keys \ {k} : ram'.older[j] \subseteq fresh.older[j]
    BY <1>1, <2>1, MakeRoomShape
  <2>3. V \subseteq Live(fresh) /\ V \subseteq Unpinned(fresh) /\ Live(ram) \subseteq Keys
    BY DEF Victims, Unpinned, Live
  <2> HIDE DEF b, V
  <2>4. Dropped = V
    BY <1>1, <2>2, <2>3 DEF Dropped
  <2>5. \A new \in Refreshed : new = k
    BY <1>1, <2>2, <2>3 DEF Refreshed
  <2>6. ASSUME NEW d \in V, NEW j \in Unpinned(ram)' \ {k}
        PROVE  d \in ram.older[j]
    <3>1. j \in Live(ram)' /\ j # fresh.pinned
      BY <1>1, <2>6 DEF Unpinned
    <3>2. j \in Unpinned(fresh) \ V /\ j \in Keys
      BY <2>2, <2>6, <3>1, <2>3, <1>1 DEF Unpinned
    <3>3. d \in fresh.older[j]
      BY <1>1, <2>1, <2>6, <3>2, VictimsOldest DEF V
    <3> QED
      BY <1>1, <3>2, <3>3
  <2>7. ASSUME NEW d \in V, \A e \in V \ {d} : e \in ram.older[d]
        PROVE  ram.used' + BytesOf({d}) > ram.budget
    <3>1. d \in Keys \ {k} /\ k \notin V
      BY <1>1, <2>1, <2>3
    <3>2. \A e \in V \ {d} : e \in fresh.older[d]
      BY <1>1, <2>7, <3>1
    <3>3. fresh.used - BytesOf(V) + b + BytesOf({d}) > fresh.budget
      BY <1>1, <2>1, <3>2, VictimsFrugal DEF V
    <3> QED
      BY <1>1, <2>2, <3>3
  <2> QED
    BY <2>4, <2>5, <2>6, <2>7

<1>2. ASSUME SInv(ram), NEW k \in Keys
      PROVE  LET w == Without(ram, {k})
             IN  /\ SInv(w) /\ Live(w) = Live(ram) \ {k} /\ w.budget = ram.budget
                 /\ w.older = [j \in Keys |-> IF j \in {k} THEN {} ELSE ram.older[j] \ {k}]
                 /\ \A j \in Keys \ {k} : w.older[j] = ram.older[j] \ {k}
                 /\ w \in RamRecords
  <2>1. ram \in RamRecords /\ {k} \subseteq Keys
    BY <1>2 DEF SInv
  <2>2. SInv(Without(ram, {k})) /\ Live(Without(ram, {k})) = Live(ram) \ {k}
        /\ Without(ram, {k}).budget = ram.budget
    BY <1>2, <2>1, WithoutOK
  <2>3. Without(ram, {k}).older = [j \in Keys |-> IF j \in {k} THEN {} ELSE ram.older[j] \ {k}]
    BY <2>1 DEF Without, RamRecords
  <2> QED
    BY <2>2, <2>3 DEF SInv
<1>3. ASSUME SInv(ram), NEW stamp \in Stamps, NEW p \in TokenSeqs, Insert(stamp, p)
      PROVE  Frugal
  <2> DEFINE b == Bytes[Len(p)]
  <2>0. PICK k \in Keys : k = KeyOf(stamp, p)
    BY PrefixKey
  <2>1. PICK fresh : fresh = Without(ram, {k})
    OBVIOUS
  <2>2. /\ SInv(fresh) /\ Live(fresh) = Live(ram) \ {k} /\ fresh.budget = ram.budget
        /\ fresh.older = [j \in Keys |-> IF j \in {k} THEN {} ELSE ram.older[j] \ {k}]
        /\ \A j \in Keys \ {k} : fresh.older[j] = ram.older[j] \ {k}
    BY <1>2, <1>3, <2>1
  <2>3. b \in Nat
    BY <2>0, PrefixKey, BytesOne
  <2>4. CASE ~ CanPin(ram, b)
    <3>1. ram' = ram
      BY <1>3, <2>4 DEF Insert, RamInsert
    <3>2. Dropped = {}
      BY <3>1 DEF Dropped, Live
    <3> QED
      BY <3>2
  <2>5. CASE CanPin(ram, b) /\ ~ FitsBesidePinned(fresh, b)
    <3>1. ram' = fresh
      BY <1>3, <2>0, <2>1, <2>5 DEF Insert, RamInsert
    <3>2. Live(ram)' = Live(ram) \ {k} /\ ram'.older = fresh.older
      BY <2>2, <3>1 DEF Live
    <3>3. Dropped \subseteq {k}
      BY <3>2 DEF Dropped
    <3>4. Refreshed = {}
      BY <2>2, <3>2 DEF Refreshed, Live
    <3>5. Cardinality(Dropped) <= 1
      <4>1. IsFiniteSet({k}) /\ Cardinality({k}) = 1
        BY FS_Singleton
      <4> HIDE DEF Dropped
      <4> QED
        BY <3>3, <4>1, FS_Subset
    <3> QED
      BY <3>4, <3>5
  <2>6. CASE CanPin(ram, b) /\ FitsBesidePinned(fresh, b)
    <3>1. ram' = MakeRoomAndStore(fresh, k, p)
      BY <1>3, <2>0, <2>1, <2>6 DEF Insert, RamInsert
    <3>2. PinnedBytes(fresh) + b <= fresh.budget
      <4>1. IsFiniteSet({fresh.pinned} \cap Live(fresh))
        BY <2>2, FS_Intersection DEF SInv
      <4>2. PinnedBytes(fresh) \in Nat
        BY <4>1, CellsFinite DEF PinnedBytes
      <4> QED
        BY <2>3, <2>6, <4>2 DEF FitsBesidePinned
    <3>3. ram'.pinned = fresh.pinned
      BY <2>0, <2>2, <3>1, <3>2, MakeRoomAndStoreOK
    <3>4. /\ ram'.older = MakeRoomAndStore(fresh, k, p).older
          /\ ram'.used = MakeRoomAndStore(fresh, k, p).used
          /\ Live(ram)' = Live(MakeRoomAndStore(fresh, k, p))
      BY <3>1 DEF Live
    <3>5. \A j \in Unpinned(ram)' \ {k} : j # fresh.pinned
      BY <3>3 DEF Unpinned
    <3> QED
      BY <1>1, <1>3, <2>0, <2>2, <3>2, <3>4, <3>5
  <2> QED
    BY <2>4, <2>5, <2>6
<1>4. ASSUME SInv(ram), NEW stamp \in Stamps, NEW p \in TokenSeqs, InsertPinned(stamp, p)
      PROVE  Frugal
  <2> DEFINE b == Bytes[Len(p)]
  <2>0. PICK k \in Keys : k = KeyOf(stamp, p)
    BY PrefixKey
  <2>1. PICK w : w = Without(ram, {k})
    OBVIOUS
  <2>2. /\ SInv(w) /\ Live(w) = Live(ram) \ {k} /\ w.budget = ram.budget
        /\ \A j \in Keys \ {k} : w.older[j] = ram.older[j] \ {k} /\ w \in RamRecords
    BY <1>2, <1>4, <2>1
  <2>3. PICK fresh : fresh = [w EXCEPT !.pinned = NoKey]
    OBVIOUS
  <2>4. /\ SInv(fresh) /\ Live(fresh) = Live(w) /\ fresh.pinned = NoKey /\ fresh.budget = w.budget
        /\ fresh.older = w.older
    BY <2>2, <2>3, RepinOK DEF SInv, RamRecords
  <2>5. b \in Nat
    BY <2>0, PrefixKey, BytesOne
  <2>6. CASE ~ CanPin(ram, b)
    <3>1. ram' = ram
      BY <1>4, <2>6 DEF InsertPinned, RamInsertPinned
    <3>2. Dropped = {}
      BY <3>1 DEF Dropped, Live
    <3> QED
      BY <3>2
  <2>7. CASE CanPin(ram, b)
    <3>1. ram' = [MakeRoomAndStore(fresh, k, p) EXCEPT !.pinned = k]
      BY <1>4, <2>0, <2>1, <2>3, <2>7 DEF InsertPinned, RamInsertPinned
    <3>2. PinnedBytes(fresh) = 0
      <4>1. {fresh.pinned} \cap Live(fresh) = {}
        BY <2>4, RamAssumption DEF Live
      <4>2. BytesOf({}) = 0
        BY FS_EmptySet DEF BytesOf
      <4> QED
        BY <4>1, <4>2, Zenon DEF PinnedBytes
    <3>3. PinnedBytes(fresh) + b <= fresh.budget
      BY <2>2, <2>4, <2>5, <2>7, <3>2 DEF CanPin
    <3>4. SInv(MakeRoomAndStore(fresh, k, p))
      BY <2>0, <2>2, <2>4, <3>3, MakeRoomAndStoreOK
    <3>5. /\ ram'.older = MakeRoomAndStore(fresh, k, p).older
          /\ ram'.used = MakeRoomAndStore(fresh, k, p).used
          /\ Live(ram)' = Live(MakeRoomAndStore(fresh, k, p))
      <4> HIDE DEF MakeRoomAndStore
      <4>1. MakeRoomAndStore(fresh, k, p) \in RamRecords
        BY <3>4 DEF SInv
      <4> QED
        BY <3>1, <4>1 DEF RamRecords, Live
    <3>6. \A j \in Unpinned(ram)' \ {k} : j # fresh.pinned
      BY <2>4, RamAssumption DEF Unpinned, Live
    <3> QED
      BY <1>1, <1>4, <2>0, <2>2, <2>4, <3>3, <3>5, <3>6
  <2> QED
    BY <2>6, <2>7
<1>5. ASSUME SInv(ram), NEW stamp \in Stamps, NEW p \in TokenSeqs, FindBest(stamp, p)
      PROVE  Frugal
  <2>1. ram'.data = ram.data
    BY <1>5, FindBestOK DEF FindBest
  <2>2. Dropped = {}
    BY <2>1 DEF Dropped, Live
  <2> QED
    BY <2>2
<1>6. RamInv /\ [RamNext]_ram => [Frugal]_ram
  BY <1>3, <1>4, <1>5, Zenon DEF RamNext, RamInv
<1> QED
  BY <1>6, RamStoreInvariant, PTL DEF RamSpec, EvictsOldestFirst

-----------------------------------------------------------------------------
(***************************************************************************)
(* Lemmas about the operators of HybridModel: a forward pass takes the     *)
(* state of a sequence to that of the sequence and one token more, a       *)
(* restore gives the state of its prefix, and neither a forward pass nor   *)
(* one that fails touches a row that is behind both the position and the   *)
(* window base -- which is what a rewind point relies on.                  *)
(***************************************************************************)
Models ==
  [pos : 0..MaxLen, base : Nat, gdn : Contents,
   fixed : [Positions -> Contents], win : [WinSlots -> Contents]]

\* Where the window base can be when n rows were appended.
Shaped(base, n) ==
  /\ base \in Nat
  /\ IF n <= Sink THEN base = Sink ELSE Sink <= base /\ base < n /\ n <= base + Window

-----------------------------------------------------------------------------
\* A history is a sequence of tokens that fits the context, and vice versa.
LEMMA HistoryIsSeq ==
  ASSUME NEW q \in Histories
  PROVE  q \in Seq(Tokens) /\ Len(q) \in 0..MaxLen
<1>1. MaxLen \in Nat
  BY SnapshotAssumption
<1>2. CASE q = <<>>
  BY <1>1, <1>2
<1>3. CASE q \in TokenSeqs
  <2>1. PICK n \in 1..MaxLen : q \in [1..n -> Tokens]
    BY <1>3 DEF TokenSeqs
  <2> QED
    BY <1>1, <2>1
<1> QED
  BY <1>2, <1>3 DEF Histories

\* The converse of HistoryIsSeq.
LEMMA SeqIsHistory ==
  ASSUME NEW q \in Seq(Tokens), Len(q) <= MaxLen
  PROVE  q \in Histories /\ (q # <<>> => q \in TokenSeqs)
<1>1. MaxLen \in Nat /\ Len(q) \in Nat /\ q \in [1..Len(q) -> Tokens]
  BY SnapshotAssumption
<1>2. CASE q = <<>>
  BY <1>2 DEF Histories
<1>3. CASE q # <<>>
  <2>1. Len(q) \in 1..MaxLen
    BY <1>1, <1>3
  <2> QED
    BY <1>1, <2>1 DEF Histories, TokenSeqs
<1> QED
  BY <1>2, <1>3

\* Prefixes of a sequence.
LEMMA Prefix ==
  ASSUME NEW q \in Seq(Tokens), NEW n \in 0..Len(q)
  PROVE  /\ SubSeq(q, 1, n) \in Seq(Tokens) /\ Len(SubSeq(q, 1, n)) = n
         /\ n = Len(q) => SubSeq(q, 1, n) = q
         /\ \A i \in 0..n : SubSeq(SubSeq(q, 1, n), 1, i) = SubSeq(q, 1, i)
<1>1. SubSeq(q, 1, n) \in Seq(Tokens) /\ Len(SubSeq(q, 1, n)) = n
  OBVIOUS
<1>2. n = Len(q) => SubSeq(q, 1, n) = q
  OBVIOUS
<1>3. ASSUME NEW i \in 0..n
      PROVE  SubSeq(SubSeq(q, 1, n), 1, i) = SubSeq(q, 1, i)
  OBVIOUS
<1> QED
  BY <1>1, <1>2, <1>3

\* The prefixes of a sequence with one token more.
LEMMA PrefixOfAppend ==
  ASSUME NEW q \in Seq(Tokens), NEW t \in Tokens
  PROVE  /\ Append(q, t) \in Seq(Tokens) /\ Len(Append(q, t)) = Len(q) + 1
         /\ SubSeq(Append(q, t), 1, Len(q) + 1) = Append(q, t)
         /\ \A i \in 0..Len(q) : SubSeq(Append(q, t), 1, i) = SubSeq(q, 1, i)
<1>1. Append(q, t) \in Seq(Tokens) /\ Len(Append(q, t)) = Len(q) + 1
  OBVIOUS
<1>2. SubSeq(Append(q, t), 1, Len(q) + 1) = Append(q, t)
  BY <1>1
<1>3. ASSUME NEW i \in 0..Len(q)
      PROVE  SubSeq(Append(q, t), 1, i) = SubSeq(q, 1, i)
  OBVIOUS
<1> QED
  BY <1>1, <1>2, <1>3

-----------------------------------------------------------------------------
\* The constants of the layout, one fact each.
LEMMA ModelConstants ==
  /\ Sink \in Nat /\ Window \in Nat /\ Window >= 1 /\ MaxLen \in Nat
  /\ 0 \in WinSlots
  /\ Garbage \notin Histories /\ Invalid \notin Histories
BY ModelAssumption, SnapshotAssumption DEF WinSlots, Histories

\* The context a forward pass reads.
LEMMA ContextOK ==
  ASSUME NEW m \in Models
  PROVE  /\ Context(m) \in Contents
         /\ Context(m) # Garbage => Context(m) \in Histories /\ Len(Context(m)) = m.pos
         /\ \A q \in Histories : Exact(m, q) => Context(m) = q
<1>1. m.gdn \in Contents
  BY DEF Models
<1>2. ASSUME NEW q \in Histories, Exact(m, q)
      PROVE  Context(m) = q
  BY <1>2, ModelConstants DEF Context, Exact
<1>3. ASSUME Context(m) # Garbage
      PROVE  Context(m) \in Histories /\ Len(Context(m)) = m.pos
  BY <1>1, <1>3 DEF Context, Exact, Contents
<1> QED
  BY <1>2, <1>3 DEF Contents

\* What a forward pass computes is typed, and right in an exact state.
LEMMA ResultOK ==
  ASSUME NEW m \in Models, m.pos < MaxLen, NEW t \in Tokens
  PROVE  /\ Result(m, t) \in Contents
         /\ \A q \in Histories : Exact(m, q) => Result(m, t) = Append(q, t)
<1>1. CASE Context(m) = Garbage
  BY <1>1, ContextOK, ModelConstants DEF Result, Contents
<1>2. CASE Context(m) # Garbage
  <2>1. Context(m) \in Seq(Tokens) /\ Len(Context(m)) = m.pos
    BY <1>2, ContextOK, HistoryIsSeq
  <2>2. Append(Context(m), t) \in Seq(Tokens) /\ Len(Append(Context(m), t)) <= MaxLen
    BY <2>1, PrefixOfAppend, ModelConstants
  <2>3. Append(Context(m), t) \in Histories
    BY <2>2, SeqIsHistory
  <2> QED
    BY <1>2, <2>3, ContextOK DEF Result, Contents
<1> QED
  BY <1>1, <1>2

\* What an append writes: its row's place and, when the window is full, the
\* window's rows to where their positions are.
LEMMA AppendRowOK ==
  ASSUME NEW m \in Models, NEW c \in Contents, m.pos < MaxLen
  PROVE  LET e == AppendRow(m, c) IN
         /\ e \in Models /\ e.pos = m.pos /\ e.gdn = m.gdn
         /\ e.base >= m.base
         /\ \A i \in Positions : i < m.pos /\ i < m.base => e.fixed[i] = m.fixed[i]
<1> DEFINE e == AppendRow(m, c)
<1>1. CASE m.pos < Sink
  <2>1. e = [m EXCEPT !.fixed = [m.fixed EXCEPT ![m.pos] = c]]
    BY <1>1 DEF AppendRow
  <2> QED
    BY <2>1, ModelConstants DEF Models
<1>2. CASE ~ (m.pos < Sink)
  <2> DEFINE v == IF WindowFull(m) THEN Evict(m) ELSE m
  <2>1. /\ v \in Models /\ v.pos = m.pos /\ v.gdn = m.gdn /\ v.base >= m.base
        /\ \A i \in Positions : i < m.base => v.fixed[i] = m.fixed[i]
    <3>1. CASE WindowFull(m)
      <4>1. v.fixed = [i \in Positions |-> IF i - m.base \in WinSlots THEN m.win[i - m.base]
                                           ELSE m.fixed[i]]
        BY <3>1 DEF Evict, Models
      <4>2. v.base = m.base + Window /\ v.pos = m.pos /\ v.gdn = m.gdn /\ v.win = m.win
        BY <3>1 DEF Evict, Models
      <4>3. ASSUME NEW i \in Positions, i < m.base
            PROVE  v.fixed[i] = m.fixed[i]
        <5>1. i - m.base \notin WinSlots
          BY <4>3, ModelConstants DEF WinSlots, Positions, Models
        <5> QED
          BY <4>1, <5>1
      <4>4. v.fixed \in [Positions -> Contents]
        BY <4>1 DEF Models
      <4>5. m.base + Window \in Nat
        BY ModelConstants DEF Models
      <4>6. v = [pos |-> v.pos, base |-> v.base, gdn |-> v.gdn, fixed |-> v.fixed, win |-> v.win]
        BY <3>1 DEF Evict, Models
      <4>7. v \in Models
        BY <4>2, <4>4, <4>5, <4>6 DEF Models
      <4> QED
        BY <4>2, <4>3, <4>7, ModelConstants DEF Models
    <3>2. CASE ~ WindowFull(m)
      BY <3>2 DEF Models
    <3> QED
      BY <3>1, <3>2
  <2>2. e = [v EXCEPT !.win = [v.win EXCEPT ![m.pos - v.base] = c]]
    BY <1>2 DEF AppendRow
  <2> HIDE DEF v
  <2>3. [v.win EXCEPT ![m.pos - v.base] = c] \in [WinSlots -> Contents]
    BY <2>1 DEF Models
  <2> QED
    BY <2>1, <2>2, <2>3 DEF Models
<1> QED
  BY <1>1, <1>2

\* A forward pass, whatever the state it starts from.
LEMMA ForwardOK ==
  ASSUME NEW m \in Models, NEW t \in Tokens, m.pos < MaxLen
  PROVE  LET f == Forward(m, t) IN
         /\ f \in Models /\ f.pos = m.pos + 1
         /\ f.base >= m.base
         /\ \A i \in Positions : i < m.pos /\ i < m.base => f.fixed[i] = m.fixed[i]
<1> DEFINE e == AppendRow(m, Result(m, t))
           f == Forward(m, t)
<1>1. Result(m, t) \in Contents
  BY ResultOK
<1>2. /\ e \in Models /\ e.pos = m.pos /\ e.base >= m.base
      /\ \A i \in Positions : i < m.pos /\ i < m.base => e.fixed[i] = m.fixed[i]
  BY <1>1, AppendRowOK
<1>3. f = [e EXCEPT !.gdn = Result(m, t), !.pos = m.pos + 1]
  BY DEF Forward
<1> HIDE DEF e
<1>4. m.pos + 1 \in 0..MaxLen
  BY ModelConstants DEF Models
<1> QED
  BY <1>1, <1>2, <1>3, <1>4 DEF Models

-----------------------------------------------------------------------------
(***************************************************************************)
(* From the exact state of q, a forward pass of t gives that of Append(q,  *)
(* t).  Three cases: the row goes to the sink; to the window; or to its    *)
(* first slot after the full window has been evicted.                      *)
(***************************************************************************)
LEMMA ForwardExact ==
  ASSUME NEW m \in Models, NEW q \in Histories, NEW t \in Tokens,
         Exact(m, q), Shaped(m.base, m.pos), m.pos < MaxLen
  PROVE  LET f == Forward(m, t) IN
         /\ Exact(f, Append(q, t))
         /\ Shaped(f.base, f.pos)
<1> DEFINE c == Append(q, t)
           f == Forward(m, t)
           n == Len(q)
<1>1. /\ m.pos = n /\ m.pos \in Nat /\ m.pos \in Positions /\ m.base \in Nat
      /\ \A i \in 0..(n - 1) : Row(m, i) = SubSeq(q, 1, i + 1)
      /\ \A i \in 0..(n - 1) : i \in Positions
  BY ModelConstants DEF Exact, Models, Positions
<1>2. /\ q \in Seq(Tokens) /\ n \in Nat /\ c \in Seq(Tokens) /\ Len(c) = n + 1
      /\ SubSeq(c, 1, n + 1) = c
      /\ \A i \in 0..(n - 1) : SubSeq(c, 1, i + 1) = SubSeq(q, 1, i + 1)
  <2>1. q \in Seq(Tokens) /\ n \in Nat
    BY HistoryIsSeq
  <2> QED
    BY <2>1, PrefixOfAppend
<1>3. Result(m, t) = c
  BY ResultOK
<1>4. /\ f = [AppendRow(m, c) EXCEPT !.gdn = c, !.pos = m.pos + 1]
      /\ c \in Contents
  BY <1>3, ResultOK DEF Forward
<1>5. AppendRow(m, c) \in Models
  BY <1>1, <1>4, AppendRowOK
<1>6. /\ f.gdn = c /\ f.pos = n + 1 /\ f.base = AppendRow(m, c).base
      /\ f.fixed = AppendRow(m, c).fixed /\ f.win = AppendRow(m, c).win
  BY <1>1, <1>4, <1>5 DEF Models
<1> SUFFICES /\ \A i \in 0..(n - 1) : Row(f, i) = Row(m, i)
             /\ Row(f, n) = c
             /\ Shaped(f.base, n + 1)
  <2>1. ASSUME \A i \in 0..(n - 1) : Row(f, i) = Row(m, i), Row(f, n) = c
        PROVE  \A i \in 0..(Len(c) - 1) : Row(f, i) = SubSeq(c, 1, i + 1)
    <3> TAKE i \in 0..(Len(c) - 1)
    <3>1. CASE i = n
      BY <1>2, <2>1, <3>1
    <3>2. CASE i # n
      <4>1. i \in 0..(n - 1)
        BY <1>2, <3>2
      <4> QED
        BY <1>1, <1>2, <2>1, <4>1
    <3> QED
      BY <3>1, <3>2
  <2> QED
    BY <1>2, <1>6, <2>1 DEF Exact
<1> HIDE DEF f, c
<1>7. CASE n < Sink
  <2>1. AppendRow(m, c) = [m EXCEPT !.fixed = [m.fixed EXCEPT ![m.pos] = c]]
    BY <1>1, <1>7 DEF AppendRow
  <2>2. f.base = Sink /\ m.base = Sink /\ f.win = m.win
        /\ f.fixed = [m.fixed EXCEPT ![n] = c]
    <3>1. m.base = Sink
      BY <1>1, <1>2, <1>7, ModelConstants DEF Shaped
    <3>2. /\ AppendRow(m, c).base = m.base /\ AppendRow(m, c).win = m.win
          /\ AppendRow(m, c).fixed = [m.fixed EXCEPT ![m.pos] = c]
      BY <2>1 DEF Models
    <3> QED
      BY <1>1, <1>6, <3>1, <3>2
  <2>3. \A i \in 0..(n - 1) : Row(f, i) = Row(m, i)
    BY <1>1, <1>2, <1>7, <2>2, ModelConstants DEF Row, Models
  <2>4. Row(f, n) = c
    BY <1>1, <1>7, <2>2 DEF Row, Models
  <2>5. Shaped(f.base, n + 1)
    BY <1>2, <1>7, <2>2, ModelConstants DEF Shaped
  <2> QED
    BY <2>3, <2>4, <2>5
<1>8. CASE n >= Sink /\ ~ WindowFull(m)
  <2>1. AppendRow(m, c) = [m EXCEPT !.win = [m.win EXCEPT ![m.pos - m.base] = c]]
    BY <1>1, <1>2, <1>8, ModelConstants DEF AppendRow
  <2>2. f.base = m.base /\ f.fixed = m.fixed /\ f.win = [m.win EXCEPT ![n - m.base] = c]
    BY <1>1, <1>6, <2>1 DEF Models
  <2>3. m.base <= n /\ n < m.base + Window /\ Sink <= m.base
    BY <1>1, <1>2, <1>8, ModelConstants DEF Shaped, WindowFull
  <2>4. n - m.base \in WinSlots
    BY <1>1, <1>2, <2>3, ModelConstants DEF WinSlots
  <2>5. ASSUME NEW i \in 0..(n - 1)
        PROVE  Row(f, i) = Row(m, i)
    <3>1. i - m.base # n - m.base
      BY <1>1, <1>2
    <3> QED
      BY <2>2, <3>1 DEF Row, Models
  <2>6. Row(f, n) = c
    BY <1>1, <1>2, <2>2, <2>3, <2>4 DEF Row, Models
  <2>7. Shaped(f.base, n + 1)
    BY <1>1, <1>2, <1>8, <2>2, <2>3, ModelConstants DEF Shaped
  <2> QED
    BY <2>5, <2>6, <2>7
<1>9. CASE n >= Sink /\ WindowFull(m)
  <2>1. n = m.base + Window /\ Sink <= m.base
    BY <1>1, <1>2, <1>9, ModelConstants DEF Shaped, WindowFull
  <2> DEFINE e == Evict(m)
  <2>2. /\ e.fixed = [i \in Positions |-> IF i - m.base \in WinSlots THEN m.win[i - m.base]
                                         ELSE m.fixed[i]]
        /\ e.base = m.base + Window /\ e.win = m.win
        /\ e.pos = m.pos
    BY DEF Evict, Models
  <2>3. AppendRow(m, c) = [e EXCEPT !.win = [e.win EXCEPT ![m.pos - e.base] = c]]
    BY <1>1, <1>2, <1>9, ModelConstants DEF AppendRow
  <2>4. n - e.base = 0
    BY <1>1, <1>2, <2>1, <2>2
  <2>5. f.base = n /\ f.fixed = e.fixed /\ f.win = [m.win EXCEPT ![0] = c]
    <3>1. AppendRow(m, c).base = e.base /\ AppendRow(m, c).fixed = e.fixed
          /\ AppendRow(m, c).win = [e.win EXCEPT ![m.pos - e.base] = c]
      BY <2>3 DEF Evict, Models
    <3> QED
      BY <1>1, <1>6, <2>1, <2>2, <2>4, <3>1
  <2>6. ASSUME NEW i \in 0..(n - 1)
        PROVE  Row(f, i) = Row(m, i)
    <3>1. i \in Positions /\ f.fixed[i] = Row(f, i)
      BY <1>1, <1>2, <2>5 DEF Row
    <3>2. CASE i < m.base
      BY <1>1, <2>2, <2>5, <3>1, <3>2, ModelConstants DEF Row, WinSlots
    <3>3. CASE i >= m.base
      <4>1. i - m.base \in WinSlots
        <5>1. i \in Int /\ m.base \in Int /\ i < m.base + Window /\ Window \in Nat
          BY <1>1, <1>2, <2>1, ModelConstants
        <5> QED
          BY <3>3, <5>1 DEF WinSlots
      <4>2. Row(m, i) = m.win[i - m.base]
        BY <1>1, <1>2, <3>3 DEF Row
      <4> QED
        BY <2>2, <2>5, <3>1, <4>1, <4>2
    <3> QED
      BY <1>1, <1>2, <3>2, <3>3
  <2>7. Row(f, n) = c
    BY <1>2, <2>5, ModelConstants DEF Row, Models
  <2>8. Shaped(f.base, n + 1)
    BY <1>1, <1>2, <1>9, <2>1, <2>5, ModelConstants DEF Shaped
  <2> QED
    BY <2>6, <2>7, <2>8
<1> QED
  BY <1>1, <1>2, <1>7, <1>8, <1>9, ModelConstants

-----------------------------------------------------------------------------
\* A forward pass that fails spares the same rows as one that does not.
LEMMA ForwardBrokenOK ==
  ASSUME NEW m \in Models, NEW t \in Tokens, m.pos < MaxLen, NEW f \in ForwardBroken(m, t)
  PROVE  /\ f \in Models
         /\ \A i \in Positions : i < m.pos /\ i < m.base => f.fixed[i] = m.fixed[i]
<1> DEFINE g == Forward(m, t)
<1>1. /\ g \in Models /\ g.base \in Nat
      /\ \A i \in Positions : i < m.pos /\ i < m.base => g.fixed[i] = m.fixed[i]
  BY ForwardOK DEF Models
<1> HIDE DEF g
<1>2. f \in {[m EXCEPT !.gdn = Garbage], [g EXCEPT !.gdn = Garbage, !.pos = m.pos],
             [Scribbled(m) EXCEPT !.gdn = Garbage, !.base = g.base]}
  BY DEF ForwardBroken, g
<1>3. CASE f = [m EXCEPT !.gdn = Garbage]
  BY <1>3 DEF Models, Contents
<1>4. CASE f = [g EXCEPT !.gdn = Garbage, !.pos = m.pos]
  BY <1>1, <1>4 DEF Models, Contents
<1>5. CASE f = [Scribbled(m) EXCEPT !.gdn = Garbage, !.base = g.base]
  <2>1. Scribbled(m) \in Models
    BY DEF Scribbled, Models, Contents
  <2>2. Scribbled(m).fixed = [i \in Positions |-> IF i < m.pos /\ i < m.base THEN m.fixed[i]
                                                 ELSE Garbage]
    BY DEF Scribbled, Models
  <2>3. f.fixed = Scribbled(m).fixed
    BY <1>5, <2>1 DEF Models
  <2>4. f \in Models
    BY <1>1, <1>5, <2>1 DEF Models, Contents
  <2> QED
    BY <2>2, <2>3, <2>4
<1> QED
  BY <1>2, <1>3, <1>4, <1>5

\* A new model and one that was reset hold the empty sequence.
LEMMA ResetOK ==
  ASSUME NEW m \in Models
  PROVE  /\ ResetModel(m) \in Models /\ ResetBroken(m) \in Models
         /\ ResetModel(m).pos = 0
         /\ Exact(ResetModel(m), <<>>) /\ Shaped(ResetModel(m).base, 0)
<1>1. <<>> \in Contents /\ Garbage \in Contents /\ 0 \in 0..MaxLen /\ Sink \in Nat
  BY ModelConstants DEF Contents, Histories
<1>2. ResetModel(m) \in Models /\ ResetBroken(m) \in Models
  BY <1>1 DEF ResetModel, ResetBroken, Models
<1>3. ResetModel(m).pos = 0 /\ ResetModel(m).base = Sink /\ ResetModel(m).gdn = <<>>
  BY DEF ResetModel, Models
<1>4. \A i \in 0..(Len(<<>>) - 1) : FALSE
  OBVIOUS
<1> QED
  BY <1>1, <1>2, <1>3, <1>4 DEF Exact, Shaped

\* A freshly loaded model is typed.
LEMMA NewModelOK == NewModel \in Models
BY ModelConstants DEF NewModel, Models, Contents, Histories

(***************************************************************************)
(* A restore gives the state of its prefix: each row is in the region where*)
(* the captured window base says it is read.                               *)
(***************************************************************************)
LEMMA RestoreOK ==
  ASSUME NEW m \in Models, NEW p \in TokenSeqs, NEW base \in BasesAt(Len(p))
  PROVE  LET r == RestoreModel(m, p, base) IN
         /\ r \in Models /\ r.pos = Len(p)
         /\ Exact(r, p) /\ Shaped(r.base, r.pos)
<1> DEFINE r == RestoreModel(m, p, base)
           n == Len(p)
<1>1. p \in Histories /\ p \in Seq(Tokens) /\ n \in 0..MaxLen
  BY HistoryIsSeq DEF Histories
<1>2. base \in Nat /\ Shaped(base, n)
  <2>1. base \in Sink..(Sink + MaxLen)
    BY DEF BasesAt
  <2>2. IF n <= Sink THEN base = Sink ELSE base < n /\ n <= base + Window
    BY DEF BasesAt
  <2>3. base \in Nat /\ Sink <= base
    BY <2>1, ModelConstants
  <2> QED
    BY <2>2, <2>3 DEF Shaped
<1>3. ASSUME NEW i \in 0..(n - 1)
      PROVE  SubSeq(p, 1, i + 1) \in Contents
  <2>1. i + 1 \in 0..n
    BY <1>1, <1>3
  <2>2. SubSeq(p, 1, i + 1) \in Seq(Tokens) /\ Len(SubSeq(p, 1, i + 1)) = i + 1
    BY <1>1, <2>1, Prefix
  <2>3. i + 1 <= MaxLen
    BY <1>1, <2>1, ModelConstants
  <2> QED
    BY <2>2, <2>3, SeqIsHistory DEF Contents
<1>4. /\ r.pos = n /\ r.base = base /\ r.gdn = p
      /\ r.fixed = [i \in Positions |-> IF i < base /\ i < n THEN SubSeq(p, 1, i + 1)
                                        ELSE m.fixed[i]]
      /\ r.win = [j \in WinSlots |-> IF base + j < n THEN SubSeq(p, 1, base + j + 1)
                                     ELSE Garbage]
  BY DEF RestoreModel
<1>5. r.fixed \in [Positions -> Contents]
  <2>1. ASSUME NEW i \in Positions, i < n
        PROVE  i \in 0..(n - 1)
    BY <1>1, <2>1 DEF Positions
  <2> QED
    BY <1>3, <1>4, <2>1 DEF Models
<1>6. r.win \in [WinSlots -> Contents]
  <2>1. ASSUME NEW j \in WinSlots, base + j < n
        PROVE  base + j \in 0..(n - 1)
    BY <1>1, <1>2, <2>1, ModelConstants DEF WinSlots
  <2> QED
    BY <1>3, <1>4, <2>1 DEF Contents
<1>7. r \in Models
  <2>1. r = [pos |-> r.pos, base |-> r.base, gdn |-> r.gdn, fixed |-> r.fixed, win |-> r.win]
    BY DEF RestoreModel
  <2> HIDE DEF r
  <2> QED
    BY <1>1, <1>2, <1>4, <1>5, <1>6, <2>1 DEF Models, Contents
<1> HIDE DEF r
<1>8. ASSUME NEW i \in 0..(n - 1)
      PROVE  Row(r, i) = SubSeq(p, 1, i + 1)
  <2>1. i \in Positions /\ i < n /\ i \in Nat
    BY <1>1, <1>8, ModelConstants DEF Positions
  <2>2. CASE i < base
    BY <1>4, <2>1, <2>2 DEF Row
  <2>3. CASE ~ (i < base)
    <3>1. n \in Nat /\ n <= base + Window
      BY <1>1, <1>2, <2>1, <2>3, ModelConstants DEF Shaped
    <3>2. i - base \in WinSlots /\ base + (i - base) = i
      BY <1>2, <2>1, <2>3, <3>1, ModelConstants DEF WinSlots
    <3> QED
      BY <1>4, <2>1, <2>3, <3>2 DEF Row
  <2> QED
    BY <2>2, <2>3
<1>9. r.pos = n /\ Exact(r, p) /\ Shaped(r.base, r.pos)
  BY <1>2, <1>4, <1>8 DEF Exact
<1> QED
  BY <1>7, <1>9 DEF r

\* A restore that fails leaves a typed model.
LEMMA RestoreBrokenOK ==
  ASSUME NEW m \in Models, NEW p \in TokenSeqs, NEW base \in BasesAt(Len(p))
  PROVE  RestoreBroken(m, p, base) \subseteq Models
<1> DEFINE r == RestoreModel(m, p, base)
<1>1. r \in Models
  BY RestoreOK
<1>2. RestoreBroken(m, p, base) = {[m EXCEPT !.gdn = Garbage],
                                   [r EXCEPT !.gdn = Garbage, !.pos = m.pos]}
  BY DEF RestoreBroken
<1> HIDE DEF r
<1> QED
  BY <1>1, <1>2 DEF Models, Contents

-----------------------------------------------------------------------------
(***************************************************************************)
(* Rewind points.  A point that is good for a model stays so as long as the*)
(* rows below its length and its window base do not change.                *)
(***************************************************************************)
PointRecords ==
  [prefix : Histories \cup {Invalid}, gdn : Contents, base : Nat,
   win : [WinSlots -> Contents]]

PointOK(m, p) == Exact(RewindModel(m, p), p.prefix) /\ Shaped(p.base, Len(p.prefix))

\* A rewind sets the state back and touches no fixed row.
LEMMA RewindOK ==
  ASSUME NEW m \in Models, NEW p \in PointRecords, p.prefix # Invalid
  PROVE  LET r == RewindModel(m, p) IN
         /\ p.prefix \in Histories
         /\ r \in Models /\ r.pos = Len(p.prefix) /\ r.base = p.base
         /\ r.gdn = p.gdn /\ r.win = p.win /\ r.fixed = m.fixed
<1>1. p.prefix \in Histories /\ Len(p.prefix) \in 0..MaxLen
  BY HistoryIsSeq DEF PointRecords
<1> QED
  BY <1>1 DEF RewindModel, Models, PointRecords

\* Nor does a rewind that fails.
LEMMA RewindBrokenOK ==
  ASSUME NEW m \in Models, NEW p \in PointRecords, p.prefix # Invalid,
         NEW r \in RewindBroken(m, p)
  PROVE  r \in Models /\ r.fixed = m.fixed
<1> DEFINE w == RewindModel(m, p)
<1>1. w \in Models /\ w.fixed = m.fixed
  BY RewindOK
<1> HIDE DEF w
<1>2. r \in {[m EXCEPT !.gdn = Garbage], [w EXCEPT !.gdn = Garbage, !.pos = m.pos]}
  BY DEF RewindBroken, w
<1> QED
  BY <1>1, <1>2 DEF Models, Contents

\* A point depends only on the fixed rows below it.
LEMMA PointKept ==
  ASSUME NEW m \in Models, NEW o \in Models, NEW p \in PointRecords, p.prefix # Invalid,
         PointOK(m, p),
         \A i \in Positions : i < Len(p.prefix) /\ i < p.base => o.fixed[i] = m.fixed[i]
  PROVE  PointOK(o, p)
<1> DEFINE w == RewindModel(m, p)
           v == RewindModel(o, p)
           n == Len(p.prefix)
<1>1. n \in 0..MaxLen
  BY RewindOK, HistoryIsSeq
<1>2. /\ v.pos = w.pos /\ v.base = p.base /\ w.base = p.base /\ v.gdn = w.gdn
      /\ v.win = w.win /\ v.fixed = o.fixed /\ w.fixed = m.fixed
  BY RewindOK
<1>3. ASSUME NEW i \in 0..(n - 1)
      PROVE  Row(v, i) = Row(w, i)
  <2>1. i \in Positions /\ i < n
    BY <1>1, <1>3, ModelConstants DEF Positions
  <2> QED
    BY <1>2, <2>1 DEF Row
<1> QED
  BY <1>2, <1>3 DEF PointOK, Exact

\* What is saved from an exact model is a good point.
LEMMA SavedPointOK ==
  ASSUME NEW m \in Models, NEW q \in Histories, Exact(m, q), Shaped(m.base, m.pos)
  PROVE  LET p == [prefix |-> q, gdn |-> m.gdn, base |-> m.base, win |-> m.win] IN
         p \in PointRecords /\ PointOK(m, p)
<1> DEFINE p == [prefix |-> q, gdn |-> m.gdn, base |-> m.base, win |-> m.win]
<1>1. p \in PointRecords
  BY DEF PointRecords, Models
<1>2. RewindModel(m, p) = m
  <2>1. RewindModel(m, p) = [m EXCEPT !.pos = m.pos, !.gdn = m.gdn, !.win = m.win,
                                      !.base = m.base]
    BY DEF RewindModel, Exact
  <2> QED
    BY <2>1 DEF Models
<1>3. Len(q) = m.pos
  BY DEF Exact
<1> QED
  BY <1>1, <1>2, <1>3 DEF PointOK

\* The slot that is chosen matches, and none that does is longer.
LEMMA MatchingSlotOK ==
  ASSUME NEW r, NEW ids,
         \A s \in RewindSlots : Valid(r, s) => Len(r[s].prefix) \in Nat,
         Matching(r, ids) # {}
  PROVE  /\ MatchingSlot(r, ids) \in Matching(r, ids)
         /\ \A o \in Matching(r, ids) :
              Len(r[o].prefix) <= Len(r[MatchingSlot(r, ids)].prefix)
<1> DEFINE Longest(s) ==
             \A o \in Matching(r, ids) :
               \/ Len(r[o].prefix) < Len(r[s].prefix)
               \/ Len(r[o].prefix) = Len(r[s].prefix) /\ (s = "EndOfTurn" \/ o = s)
<1>1. \E s \in Matching(r, ids) : Longest(s)
  <2>1. Matching(r, ids) \subseteq {"StableBoundary", "EndOfTurn"}
    BY DEF Matching, RewindSlots
  <2>2. \A s \in Matching(r, ids) : Len(r[s].prefix) \in Nat
    BY DEF Matching
  <2>3. CASE "StableBoundary" \notin Matching(r, ids)
    BY <2>1, <2>3
  <2>4. CASE "EndOfTurn" \notin Matching(r, ids)
    BY <2>1, <2>4
  <2>5. CASE "StableBoundary" \in Matching(r, ids) /\ "EndOfTurn" \in Matching(r, ids)
    <3>1. CASE Len(r["EndOfTurn"].prefix) < Len(r["StableBoundary"].prefix)
      BY <2>1, <2>5, <3>1
    <3>2. CASE ~ (Len(r["EndOfTurn"].prefix) < Len(r["StableBoundary"].prefix))
      BY <2>1, <2>2, <2>5, <3>2
    <3> QED
      BY <3>1, <3>2
  <2> QED
    BY <2>3, <2>4, <2>5
<1>2. MatchingSlot(r, ids) \in Matching(r, ids) /\ Longest(MatchingSlot(r, ids))
  BY <1>1 DEF MatchingSlot
<1>3. \A s \in Matching(r, ids) : Len(r[s].prefix) \in Nat
  BY DEF Matching
<1> QED
  BY <1>2, <1>3

-----------------------------------------------------------------------------
(***************************************************************************)
(* Both points at once, and the live model they were saved from: each is   *)
(* good; the shorter has no higher window base, so that a rewind to it     *)
(* spares the other's rows or drops it; and a running model is behind none.*)
(***************************************************************************)
PointTable == [RewindSlots -> PointRecords]

PointsOK(m, r) == \A s \in RewindSlots : Valid(r, s) => PointOK(m, r[s])

PointsOrdered(r) ==
  \A s, o \in RewindSlots :
    Valid(r, s) /\ Valid(r, o) /\ Len(r[s].prefix) <= Len(r[o].prefix) =>
      r[s].base <= r[o].base

Behind(m, r) ==
  \A s \in RewindSlots :
    Valid(r, s) => /\ Len(r[s].prefix) <= m.pos /\ r[s].base <= m.base
                   /\ Len(r[s].prefix) = m.pos => r[s].base = m.base

\* A matchable point has a prefix that fits the context.
LEMMA PointTypes ==
  ASSUME NEW r \in PointTable, NEW s \in RewindSlots
  PROVE  /\ r[s] \in PointRecords /\ r[s].base \in Nat
         /\ Valid(r, s) => /\ r[s].prefix \in Histories /\ r[s].prefix # Invalid
                           /\ Len(r[s].prefix) \in 0..MaxLen /\ Len(r[s].prefix) \in Nat
<1>1. r[s] \in PointRecords
  BY DEF PointTable
<1>2. ASSUME Valid(r, s)
      PROVE  r[s].prefix \in Histories /\ r[s].prefix # Invalid
  BY <1>1, <1>2 DEF PointRecords, Valid
<1>3. r[s].base \in Nat
  BY <1>1 DEF PointRecords
<1> QED
  BY <1>1, <1>2, <1>3, HistoryIsSeq, ModelConstants

\* A model that only changed rows at or after the position, or the window
\* base, of one that is behind no point leaves the points good.
LEMMA PointsKept ==
  ASSUME NEW m \in Models, NEW o \in Models, NEW r \in PointTable,
         PointsOK(m, r), Behind(m, r),
         \A i \in Positions : i < m.pos /\ i < m.base => o.fixed[i] = m.fixed[i]
  PROVE  PointsOK(o, r)
<1> SUFFICES ASSUME NEW s \in RewindSlots, Valid(r, s)
             PROVE  PointOK(o, r[s])
  BY DEF PointsOK
<1>1. /\ r[s] \in PointRecords /\ r[s].prefix # Invalid
      /\ Len(r[s].prefix) \in Nat /\ r[s].base \in Nat
  BY PointTypes
<1>2. PointOK(m, r[s]) /\ Len(r[s].prefix) <= m.pos /\ r[s].base <= m.base
  BY DEF PointsOK, Behind
<1>3. m.pos \in Nat /\ m.base \in Nat
  BY ModelConstants DEF Models
<1>4. ASSUME NEW i \in Positions, i < Len(r[s].prefix), i < r[s].base
      PROVE  o.fixed[i] = m.fixed[i]
  <2>1. i \in Int
    BY DEF Positions
  <2>2. i < m.pos /\ i < m.base
    BY <1>1, <1>2, <1>3, <1>4, <2>1
  <2> QED
    BY <2>2
<1> QED
  BY <1>1, <1>2, <1>4, PointKept

\* A model with the same rows outside the window.
LEMMA PointsKeptSame ==
  ASSUME NEW m \in Models, NEW o \in Models, NEW r \in PointTable,
         PointsOK(m, r), o.fixed = m.fixed
  PROVE  PointsOK(o, r)
<1> SUFFICES ASSUME NEW s \in RewindSlots, Valid(r, s)
             PROVE  PointOK(o, r[s])
  BY DEF PointsOK
<1>1. r[s] \in PointRecords /\ r[s].prefix # Invalid /\ PointOK(m, r[s])
  BY PointTypes DEF PointsOK
<1> QED
  BY <1>1, PointKept

\* A model that moves ahead leaves no point in front of it.
LEMMA BehindAhead ==
  ASSUME NEW m \in Models, NEW o \in Models, NEW r \in PointTable, Behind(m, r),
         o.pos = m.pos + 1, o.base >= m.base
  PROVE  Behind(o, r)
<1> SUFFICES ASSUME NEW s \in RewindSlots, Valid(r, s)
             PROVE  /\ Len(r[s].prefix) <= o.pos /\ r[s].base <= o.base
                    /\ Len(r[s].prefix) # o.pos
  BY DEF Behind
<1>1. Len(r[s].prefix) \in Nat /\ r[s].base \in Nat
  BY PointTypes
<1>2. m.pos \in Nat /\ m.base \in Nat /\ o.base \in Nat
  BY ModelConstants DEF Models
<1>3. Len(r[s].prefix) <= m.pos /\ r[s].base <= m.base
  BY DEF Behind
<1> QED
  BY <1>1, <1>2, <1>3

\* Without a valid point there is nothing to say.
LEMMA NoPointsOK ==
  ASSUME NEW r \in PointTable, NEW m
  PROVE  /\ InvalidateAll(r) \in PointTable
         /\ PointsOK(m, InvalidateAll(r)) /\ PointsOrdered(InvalidateAll(r))
         /\ Behind(m, InvalidateAll(r))
<1>1. \A s \in RewindSlots : ~ Valid(InvalidateAll(r), s)
  BY DEF InvalidateAll, Valid, PointTable, PointRecords
<1>2. InvalidateAll(r) \in PointTable
  BY DEF InvalidateAll, PointTable, PointRecords
<1> QED
  BY <1>1, <1>2 DEF PointsOK, PointsOrdered, Behind

\* No point is saved yet, so none is wrong.
LEMMA NewPointsOK ==
  ASSUME NEW m
  PROVE  NoPoints \in PointTable /\ PointsOK(m, NoPoints) /\ PointsOrdered(NoPoints)
<1>1. \A s \in RewindSlots : ~ Valid(NoPoints, s)
  BY DEF NoPoints, NoPoint, Valid
<1>2. NoPoints \in PointTable
  BY ModelConstants DEF NoPoints, NoPoint, PointTable, PointRecords, Contents
<1> QED
  BY <1>1, <1>2 DEF PointsOK, PointsOrdered

\* Saving a point of an exact model; a save that fails leaves one point less.
LEMMA SaveOK ==
  ASSUME NEW m \in Models, NEW r \in PointTable, NEW q \in Histories, NEW t \in RewindSlots,
         PointsOK(m, r), PointsOrdered(r), Behind(m, r),
         Exact(m, q), Shaped(m.base, m.pos)
  PROVE  \A w \in {SavePoint(r, t, m, q), SavePointBroken(r, t)} :
           w \in PointTable /\ PointsOK(m, w) /\ PointsOrdered(w)
<1> DEFINE p == [prefix |-> q, gdn |-> m.gdn, base |-> m.base, win |-> m.win]
<1>1. p \in PointRecords /\ PointOK(m, p)
  BY SavedPointOK
<1>2. /\ p.prefix = q /\ p.base = m.base /\ Len(q) = m.pos
      /\ m.pos \in Nat /\ m.base \in Nat
  BY ModelConstants DEF Exact, Models
<1>3. SavePoint(r, t, m, q) = [r EXCEPT ![t] = p]
  BY <1>2 DEF SavePoint
<1>4. NoPoint \in PointRecords /\ NoPoint.prefix = Invalid
  BY ModelConstants DEF NoPoint, PointRecords, Contents
<1> HIDE DEF p
<1>5. ASSUME NEW w, w = [r EXCEPT ![t] = p]
      PROVE  w \in PointTable /\ PointsOK(m, w) /\ PointsOrdered(w)
  <2>1. w \in PointTable /\ w[t] = p /\ \A s \in RewindSlots \ {t} : w[s] = r[s]
    BY <1>1, <1>5 DEF PointTable
  <2>2. \A s \in RewindSlots \ {t} : Valid(w, s) = Valid(r, s)
    BY <2>1 DEF Valid
  <2>3. PointsOK(m, w)
    <3> SUFFICES ASSUME NEW s \in RewindSlots, Valid(w, s)
                 PROVE  PointOK(m, w[s])
      BY DEF PointsOK
    <3>1. CASE s = t
      BY <1>1, <2>1, <3>1
    <3>2. CASE s # t
      BY <2>1, <2>2, <3>2 DEF PointsOK
    <3> QED
      BY <3>1, <3>2
  <2>4. PointsOrdered(w)
    <3> SUFFICES ASSUME NEW s \in RewindSlots, NEW o \in RewindSlots,
                        Valid(w, s), Valid(w, o), Len(w[s].prefix) <= Len(w[o].prefix)
                 PROVE  w[s].base <= w[o].base
      BY DEF PointsOrdered
    <3>1. CASE s = t /\ o = t
      BY <1>2, <2>1, <3>1
    <3>2. CASE s # t /\ o = t
      <4>1. Valid(r, s) /\ w[s] = r[s] /\ w[o] = p
        BY <2>1, <2>2, <3>2
      <4> QED
        BY <1>2, <4>1 DEF Behind
    <3>3. CASE s = t /\ o # t
      <4>1. Valid(r, o) /\ w[o] = r[o] /\ w[s] = p
        BY <2>1, <2>2, <3>3
      <4>2. Len(r[o].prefix) <= m.pos /\ m.pos <= Len(r[o].prefix)
        BY <1>2, <4>1 DEF Behind
      <4>3. Len(r[o].prefix) = m.pos
        BY <1>2, <4>1, <4>2, PointTypes
      <4> QED
        BY <1>2, <4>1, <4>3 DEF Behind
    <3>4. CASE s # t /\ o # t
      BY <2>1, <2>2, <3>4 DEF PointsOrdered
    <3> QED
      BY <3>1, <3>2, <3>3, <3>4
  <2> QED
    BY <2>1, <2>3, <2>4
<1>6. ASSUME NEW w, w = [r EXCEPT ![t] = NoPoint]
      PROVE  w \in PointTable /\ PointsOK(m, w) /\ PointsOrdered(w)
  <2>1. w \in PointTable /\ w[t] = NoPoint /\ \A s \in RewindSlots \ {t} : w[s] = r[s]
    BY <1>4, <1>6 DEF PointTable
  <2>2. ASSUME NEW s \in RewindSlots, Valid(w, s)
        PROVE  s # t /\ Valid(r, s) /\ w[s] = r[s]
    BY <1>4, <2>1, <2>2 DEF Valid
  <2> QED
    BY <2>1, <2>2 DEF PointsOK, PointsOrdered
<1> QED
  BY <1>3, <1>5, <1>6 DEF SavePointBroken

(***************************************************************************)
(* A rewind: the model is that of the point's prefix, and the points that  *)
(* are kept are good for it and not ahead of it.                           *)
(***************************************************************************)
LEMMA RewindPointsOK ==
  ASSUME NEW m \in Models, NEW r \in PointTable, NEW t \in RewindSlots, Valid(r, t),
         PointsOK(m, r), PointsOrdered(r)
  PROVE  LET w == RewindModel(m, r[t])
             u == InvalidateAbove(r, Len(r[t].prefix))
         IN  /\ w \in Models /\ w.pos = Len(r[t].prefix)
             /\ Exact(w, r[t].prefix) /\ Shaped(w.base, w.pos)
             /\ u \in PointTable /\ PointsOK(w, u) /\ PointsOrdered(u) /\ Behind(w, u)
<1> DEFINE w == RewindModel(m, r[t])
           n == Len(r[t].prefix)
           u == InvalidateAbove(r, n)
<1>1. r[t] \in PointRecords /\ r[t].prefix # Invalid /\ n \in Nat
  BY PointTypes
<1>2. w \in Models /\ w.pos = n /\ w.base = r[t].base /\ w.fixed = m.fixed
  BY <1>1, RewindOK
<1>3. Exact(w, r[t].prefix) /\ Shaped(w.base, w.pos)
  BY <1>2 DEF PointsOK, PointOK
<1>4. u \in PointTable
  BY DEF InvalidateAbove, PointTable, PointRecords
<1>5. ASSUME NEW s \in RewindSlots, Valid(u, s)
      PROVE  Valid(r, s) /\ u[s] = r[s] /\ Len(r[s].prefix) <= n
  <2>1. u[s] = IF Valid(r, s) /\ Len(r[s].prefix) > n
               THEN [r[s] EXCEPT !.prefix = Invalid] ELSE r[s]
    BY DEF InvalidateAbove
  <2>2. r[s] \in PointRecords
    BY PointTypes
  <2>3. ~ (Valid(r, s) /\ Len(r[s].prefix) > n)
    BY <1>5, <2>1, <2>2 DEF Valid, PointRecords
  <2>4. u[s] = r[s] /\ Valid(r, s)
    BY <1>5, <2>1, <2>3 DEF Valid
  <2>5. Len(r[s].prefix) \in Nat
    BY <2>4, PointTypes
  <2> QED
    BY <1>1, <2>3, <2>4, <2>5
<1>6. PointsOK(w, r)
  BY <1>2, PointsKeptSame
<1> HIDE DEF w, u
<1>7. PointsOK(w, u) /\ PointsOrdered(u)
  BY <1>5, <1>6 DEF PointsOK, PointsOrdered
<1>8. Behind(w, u)
  <2> SUFFICES ASSUME NEW s \in RewindSlots, Valid(u, s)
               PROVE  /\ Len(u[s].prefix) <= w.pos /\ u[s].base <= w.base
                      /\ Len(u[s].prefix) = w.pos => u[s].base = w.base
    BY DEF Behind
  <2>1. Valid(r, s) /\ u[s] = r[s] /\ Len(r[s].prefix) <= n
    BY <1>5
  <2>2. r[s].base <= r[t].base /\ (n <= Len(r[s].prefix) => r[t].base <= r[s].base)
    BY <2>1 DEF PointsOrdered
  <2>3. r[s].base \in Nat /\ r[t].base \in Nat /\ Len(r[s].prefix) \in Nat
    BY <2>1, PointTypes
  <2> QED
    BY <1>1, <1>2, <2>1, <2>2, <2>3
<1> QED
  BY <1>2, <1>3, <1>4, <1>7, <1>8 DEF w, u

-----------------------------------------------------------------------------
(***************************************************************************)
(* The invariant of turns.                                                 *)
(***************************************************************************)

Pcs == {"idle", "reuse", "prefill", "boundary", "decode", "finish"}

TurnRecords ==
  [pc : Pcs, prompt : Histories, boundary : Nat, already : Nat,
   source : {"None", "Gpu", "Ram", "Disk"}, out : Seq(Tokens)]

StoresInv == SInv(ram) /\ cold \subseteq TokenSeqs

CountInv == turns \in 0..MaxTurns /\ failures \in 0..MaxFailures

PointsInv == points \in PointTable /\ PointsOK(model, points) /\ PointsOrdered(points)

\* Where the position is at each step of a turn.
PcInv ==
  /\ ~ At("idle") => turn.prompt \in TokenSeqs
  /\ turn.pc \in {"reuse", "prefill", "boundary"} => turn.out = <<>>
  /\ At("reuse") => turn.already = 0
  /\ At("prefill") => model.pos < Len(turn.prompt)
  /\ At("boundary") => 1 <= model.pos /\ model.pos <= Len(turn.prompt)
  /\ At("decode") => model.pos = Len(turn.prompt) + Len(turn.out)
  /\ At("finish") => 1 <= model.pos /\ model.pos <= Len(turn.prompt) + Len(turn.out)

LiveInv ==
  Running => /\ turn.already < Len(turn.prompt)
             /\ Exact(model, HeldTokens)
             /\ Shaped(model.base, model.pos)
             /\ Behind(model, points)

TurnInv ==
  /\ StoresInv /\ CountInv
  /\ model \in Models /\ turn \in TurnRecords
  /\ PointsInv /\ PcInv /\ LiveInv

-----------------------------------------------------------------------------
\* The constants a turn reads, one fact each.
LEMMA TurnConstants ==
  /\ Stamp \in Stamps /\ Prompts \subseteq TokenSeqs /\ Boundaries \subseteq Nat
  /\ Interval \in Nat \ {0} /\ MaxNew \in Nat /\ MaxTurns \in Nat /\ MaxFailures \in Nat
BY TurnAssumption

\* A stored prefix or prompt is a non-empty sequence that fits the context.
LEMMA TokenSeqIsSeq ==
  ASSUME NEW p \in TokenSeqs
  PROVE  /\ p \in Histories /\ p \in Seq(Tokens)
         /\ Len(p) \in 1..MaxLen /\ Len(p) \in Nat /\ Len(p) >= 1
<1>1. p \in Histories
  BY DEF Histories
<1>2. PICK n \in 1..MaxLen : p \in [1..n -> Tokens]
  BY DEF TokenSeqs
<1> QED
  BY <1>1, <1>2, HistoryIsSeq, ModelConstants

\* The tokens of a turn, and those the model holds.
LEMMA HeldOK ==
  ASSUME TurnInv, ~ At("idle")
  PROVE  /\ History \in Seq(Tokens) /\ Len(History) = Len(turn.prompt) + Len(turn.out)
         /\ turn.out = <<>> => History = turn.prompt
         /\ \A i \in 0..Len(turn.prompt) : SubSeq(History, 1, i) = SubSeq(turn.prompt, 1, i)
<1>1. turn.prompt \in Seq(Tokens) /\ turn.out \in Seq(Tokens)
  BY TokenSeqIsSeq DEF TurnInv, PcInv, TurnRecords
<1> DEFINE P == turn.prompt
           O == turn.out
<1> HIDE DEF P, O
<1>2. P \in Seq(Tokens) /\ O \in Seq(Tokens)
  BY <1>1 DEF P, O
<1>3. /\ P \o O \in Seq(Tokens) /\ Len(P \o O) = Len(P) + Len(O)
      /\ O = <<>> => P \o O = P
      /\ \A i \in 0..Len(P) : SubSeq(P \o O, 1, i) = SubSeq(P, 1, i)
  <2>1. P \o O \in Seq(Tokens) /\ Len(P \o O) = Len(P) + Len(O)
    BY <1>2
  <2>2. O = <<>> => P \o O = P
    BY <1>2
  <2>3. \A i \in 0..Len(P) : SubSeq(P \o O, 1, i) = SubSeq(P, 1, i)
    BY <1>2
  <2> QED
    BY <2>1, <2>2, <2>3
<1> QED
  BY <1>3 DEF P, O, History

-----------------------------------------------------------------------------
(***************************************************************************)
(* The stores: each operation on the RAM tier keeps its own invariant.     *)
(***************************************************************************)
LEMMA KeepOK ==
  ASSUME StoresInv, NEW ids \in TokenSeqs, Keep(ids) \/ Pin(ids) \/ KeepNothing
  PROVE  StoresInv'
<1>1. cold' \subseteq TokenSeqs
  BY DEF StoresInv, Keep, Pin, KeepNothing, ToDisk
<1>2. CASE Keep(ids)
  BY <1>1, <1>2, InsertOK, TurnConstants, Zenon DEF StoresInv, Keep
<1>3. CASE Pin(ids)
  BY <1>1, <1>3, InsertPinnedOK, TurnConstants, Zenon DEF StoresInv, Pin
<1>4. CASE KeepNothing
  BY <1>1, <1>4, Zenon DEF StoresInv, KeepNothing
<1> QED
  BY <1>2, <1>3, <1>4

\* The locals of no turn are typed.
LEMMA IdleOK ==
  Idle \in TurnRecords /\ Idle.pc = "idle" /\ Idle.out = <<>> /\ Idle.already = 0
BY ModelConstants DEF Idle, TurnRecords, Pcs, Histories

\* A turn that is given up leaves no obligation but typed state and good points.
LEMMA GiveUp ==
  ASSUME TurnInv, turn' = Idle, failures' \in 0..MaxFailures, turns' = turns,
         StoresInv', model' \in Models, PointsInv'
  PROVE  TurnInv'
<1>1. turn' \in TurnRecords /\ turn'.pc = "idle"
  BY IdleOK
<1>2. PcInv'
  BY <1>1 DEF PcInv, At
<1>3. LiveInv'
  BY <1>1 DEF LiveInv, Running
<1>4. CountInv'
  BY DEF TurnInv, CountInv
<1> QED
  BY <1>1, <1>2, <1>3, <1>4 DEF TurnInv

\* One more failure stays within the bound.
LEMMA FaultOK ==
  ASSUME TurnInv, Fault
  PROVE  failures' \in 0..MaxFailures
BY TurnConstants DEF TurnInv, CountInv, Fault

\* Neither tier is touched.
LEMMA StoresKept ==
  ASSUME StoresInv, ram' = ram, cold' = cold
  PROVE  StoresInv'
BY Zenon DEF StoresInv

\* With every point invalidated none can be wrong.
LEMMA PointsGone ==
  ASSUME TurnInv, points' = InvalidateAll(points)
  PROVE  PointsInv' /\ Behind(model', points')
<1>1. points \in PointTable
  BY DEF TurnInv, PointsInv
<1>2. /\ InvalidateAll(points) \in PointTable
      /\ PointsOK(model', InvalidateAll(points)) /\ PointsOrdered(InvalidateAll(points))
      /\ Behind(model', InvalidateAll(points))
  BY <1>1, NoPointsOK
<1> QED
  BY <1>2, Zenon DEF PointsInv

\* A request is dequeued: the model and its points are left as they are.
LEMMA StartOK ==
  ASSUME TurnInv, NEW prompt \in Prompts, NEW b \in Boundaries, Start(prompt, b)
  PROVE  TurnInv'
<1>1. /\ turn' = [Idle EXCEPT !.pc = "reuse", !.prompt = prompt, !.boundary = b]
      /\ turns' = turns + 1 /\ turns < MaxTurns /\ failures' = failures
      /\ model' = model /\ points' = points /\ ram' = ram /\ cold' = cold
  BY DEF Start
<1>2. prompt \in TokenSeqs /\ prompt \in Histories /\ b \in Nat
  BY TurnConstants, TokenSeqIsSeq
<1>3. turn' \in TurnRecords /\ turn'.pc = "reuse" /\ turn'.prompt = prompt /\ turn'.out = <<>>
      /\ turn'.already = 0
  BY <1>1, <1>2, IdleOK DEF TurnRecords, Pcs
<1>4. StoresInv'
  BY <1>1, StoresKept DEF TurnInv
<1>5. CountInv'
  BY <1>1, TurnConstants DEF TurnInv, CountInv
<1>6. PointsInv'
  BY <1>1, Zenon DEF TurnInv, PointsInv
<1>7. PcInv' /\ LiveInv'
  BY <1>2, <1>3 DEF PcInv, LiveInv, Running, At
<1> QED
  BY <1>1, <1>3, <1>4, <1>5, <1>6, <1>7 DEF TurnInv

-----------------------------------------------------------------------------
(***************************************************************************)
(* Reuse.                                                                  *)
(***************************************************************************)
LEMMA PointMatches ==
  ASSUME TurnInv, At("reuse"), Match # {}
  PROVE  LET t == MatchingSlot(points, turn.prompt) IN
         /\ t \in RewindSlots /\ Valid(points, t)
         /\ Point = points[t] /\ Point \in PointRecords /\ Point.prefix # Invalid
         /\ Point.prefix \in Histories
         /\ Len(Point.prefix) \in Nat /\ Len(Point.prefix) < Len(turn.prompt)
         /\ Point.prefix = SubSeq(turn.prompt, 1, Len(Point.prefix))
<1> DEFINE t == MatchingSlot(points, turn.prompt)
<1>1. points \in PointTable
  BY DEF TurnInv, PointsInv
<1>2. \A s \in RewindSlots : Valid(points, s) => Len(points[s].prefix) \in Nat
  BY <1>1, PointTypes
<1>3. t \in Matching(points, turn.prompt)
  BY <1>2, MatchingSlotOK DEF Match
<1>4. t \in RewindSlots /\ Valid(points, t) /\ IsStrictPrefixOf(points[t].prefix, turn.prompt)
  BY <1>3 DEF Matching
<1>5. Point = points[t]
  BY DEF Point
<1>6. Point \in PointRecords /\ Point.prefix # Invalid /\ Point.prefix \in Histories
      /\ Len(Point.prefix) \in Nat
  BY <1>1, <1>4, <1>5, PointTypes
<1> QED
  BY <1>4, <1>5, <1>6 DEF IsStrictPrefixOf

\* A rewind to the matching point gives the state of its prefix.
LEMMA RewindStep ==
  ASSUME TurnInv, Rewind
  PROVE  TurnInv'
<1> DEFINE n == Len(Point.prefix)
<1>1. /\ At("reuse") /\ Match # {}
      /\ model' = RewindModel(model, Point) /\ points' = InvalidateAbove(points, n)
      /\ turn' = [turn EXCEPT !.pc = "prefill", !.already = n, !.source = "Gpu"]
      /\ ram' = ram /\ cold' = cold /\ turns' = turns /\ failures' = failures
  BY DEF Rewind
<1>2. PICK t \in RewindSlots :
        /\ Valid(points, t) /\ Point = points[t] /\ n \in Nat /\ n < Len(turn.prompt)
        /\ Point.prefix = SubSeq(turn.prompt, 1, n)
  BY <1>1, PointMatches
<1>3. /\ model \in Models /\ points \in PointTable /\ PointsOK(model, points)
      /\ PointsOrdered(points)
  BY DEF TurnInv, PointsInv
<1>4. /\ model' \in Models /\ model'.pos = n
      /\ Exact(model', Point.prefix) /\ Shaped(model'.base, model'.pos)
      /\ points' \in PointTable /\ PointsOK(model', points') /\ PointsOrdered(points')
      /\ Behind(model', points')
  BY <1>1, <1>2, <1>3, RewindPointsOK
<1>5. /\ turn' \in TurnRecords /\ turn'.pc = "prefill" /\ turn'.already = n
      /\ turn'.prompt = turn.prompt /\ turn'.out = turn.out
      /\ turn.prompt \in TokenSeqs /\ turn.out = <<>>
  BY <1>1, <1>2 DEF TurnInv, TurnRecords, Pcs, PcInv, At
<1> HIDE DEF n
<1>6. Exact(model', HeldTokens')
  <2>1. SubSeq(History, 1, n) = SubSeq(turn.prompt, 1, n)
    BY <1>1, <1>2, <1>5, HeldOK, TokenSeqIsSeq DEF At
  <2>2. HeldTokens' = SubSeq(History, 1, n)
    BY <1>4, <1>5 DEF HeldTokens, History
  <2> QED
    BY <1>2, <1>4, <2>1, <2>2, Zenon
<1>7. LiveInv'
  BY <1>2, <1>4, <1>5, <1>6 DEF LiveInv
<1>8. PcInv'
  BY <1>2, <1>4, <1>5 DEF PcInv, At
<1>9. StoresInv' /\ CountInv'
  BY <1>1, StoresKept DEF TurnInv, CountInv
<1> QED
  BY <1>4, <1>5, <1>7, <1>8, <1>9 DEF TurnInv, PointsInv

\* A rewind that fails may break the live state, but changes no row.
LEMMA RewindFailsStep ==
  ASSUME TurnInv, RewindFails
  PROVE  TurnInv'
<1>1. /\ At("reuse") /\ Match # {} /\ Fault /\ turn' = Idle
      /\ model' \in RewindBroken(model, Point) /\ points' = points
      /\ ram' = ram /\ cold' = cold /\ turns' = turns
  BY DEF RewindFails, Abandon
<1>2. model' \in Models /\ model'.fixed = model.fixed
  BY <1>1, PointMatches, RewindBrokenOK DEF TurnInv
<1>3. PointsOK(model', points)
  BY <1>2, PointsKeptSame DEF TurnInv, PointsInv
<1>4. PointsInv'
  BY <1>1, <1>3, Zenon DEF TurnInv, PointsInv
<1> QED
  BY <1>1, <1>2, <1>4, GiveUp, FaultOK, StoresKept DEF TurnInv

\* A reset that fails has already invalidated the points.
LEMMA ResetFailsStep ==
  ASSUME TurnInv, ResetFails
  PROVE  TurnInv'
<1>1. /\ Fault /\ turn' = Idle /\ points' = InvalidateAll(points)
      /\ model' = ResetBroken(model)
      /\ ram' = ram /\ cold' = cold /\ turns' = turns
  BY DEF ResetFails, Abandon
<1>2. model' \in Models
  BY <1>1, ResetOK DEF TurnInv
<1> QED
  BY <1>1, <1>2, GiveUp, FaultOK, StoresKept, PointsGone DEF TurnInv

\* A non-empty prefix of a prompt is a token sequence.
LEMMA PromptPrefix ==
  ASSUME NEW p \in TokenSeqs, NEW n \in 1..Len(p)
  PROVE  SubSeq(p, 1, n) \in TokenSeqs /\ Len(SubSeq(p, 1, n)) = n
<1>1. p \in Seq(Tokens) /\ Len(p) \in 1..MaxLen /\ Len(p) \in Nat
  BY TokenSeqIsSeq
<1>2. n \in 0..Len(p) /\ n <= MaxLen /\ n >= 1
  BY <1>1, ModelConstants
<1>3. SubSeq(p, 1, n) \in Seq(Tokens) /\ Len(SubSeq(p, 1, n)) = n
  BY <1>1, <1>2, Prefix
<1>4. SubSeq(p, 1, n) # <<>>
  BY <1>2, <1>3
<1> QED
  BY <1>2, <1>3, <1>4, SeqIsHistory

\* Whatever the tiers hold, a hit is shorter than the prompt.
LEMMA LookUpOK ==
  ASSUME TurnInv, At("reuse"), NEW found \in ColdHits \cup {0}, LookUp(found), cold' = cold
  PROVE  /\ StoresInv'
         /\ HitAt(found) \in Nat /\ HitAt(found) < Len(turn.prompt)
         /\ Tier(found) \in {"Ram", "Disk"}
<1> DEFINE best == RamBest(ram, Stamp, turn.prompt)
           touched == RamTouchBest(ram, Stamp, turn.prompt)
<1>1. /\ turn.prompt \in TokenSeqs /\ Len(turn.prompt) \in Nat /\ Len(turn.prompt) >= 1
      /\ SInv(ram) /\ cold \subseteq TokenSeqs
  BY TokenSeqIsSeq DEF TurnInv, PcInv, StoresInv, At
<1>2. best \in Nat /\ best < Len(turn.prompt)
  <2>1. CASE RamHits(ram, Stamp, turn.prompt) = {}
    BY <1>1, <2>1 DEF RamBest
  <2>2. CASE RamHits(ram, Stamp, turn.prompt) # {}
    <3>1. best \in RamHits(ram, Stamp, turn.prompt)
      BY <1>1, <2>2, BestIsLongest
    <3>2. best \in 1..(Len(turn.prompt) - 1)
      BY <3>1 DEF RamHits
    <3> QED
      BY <1>1, <3>2
  <2> QED
    BY <2>1, <2>2
<1>3. found \in Nat /\ found < Len(turn.prompt)
  <2>1. CASE found = 0
    BY <1>1, <2>1
  <2>2. CASE found \in ColdHits
    <3>1. PICK q \in cold : found = Len(q) /\ IsStrictPrefixOf(q, turn.prompt)
      BY <2>2 DEF ColdHits
    <3>2. Len(q) \in Nat
      BY <1>1, <3>1, TokenSeqIsSeq
    <3> QED
      BY <3>1, <3>2 DEF IsStrictPrefixOf
  <2> QED
    BY <2>1, <2>2
<1>4. SInv(touched)
  BY <1>1, FindBestOK, TurnConstants
<1> HIDE DEF best, touched
<1>5. CASE found > best
  <2>1. SubSeq(turn.prompt, 1, found) \in TokenSeqs
    <3>1. found \in 1..Len(turn.prompt)
      BY <1>1, <1>2, <1>3, <1>5
    <3> QED
      BY <1>1, <3>1, PromptPrefix
  <2>2. SInv(RamInsert(touched, Stamp, SubSeq(turn.prompt, 1, found)))
    BY <1>4, <2>1, InsertOK, TurnConstants
  <2>3. ram' = RamInsert(touched, Stamp, SubSeq(turn.prompt, 1, found))
    BY <1>5 DEF LookUp, best, touched
  <2>4. HitAt(found) = found
    BY <1>5 DEF HitAt, best
  <2>5. SInv(ram')
    BY <2>2, <2>3, Zenon
  <2> QED
    BY <1>1, <1>3, <2>4, <2>5 DEF StoresInv, Tier
<1>6. CASE ~ (found > best)
  <2>1. ram' = touched /\ HitAt(found) = best
    BY <1>6 DEF LookUp, HitAt, best, touched
  <2>2. SInv(ram')
    BY <1>4, <2>1, Zenon
  <2> QED
    BY <1>1, <1>2, <2>1, <2>2 DEF StoresInv, Tier
<1> QED
  BY <1>5, <1>6

\* What is common to the ways a lookup in the store ends.
LEMMA MissedOK ==
  ASSUME TurnInv, NEW found \in ColdHits \cup {0}, Missed(found)
  PROVE  /\ StoresInv' /\ PointsInv' /\ Behind(model', points')
         /\ At("reuse") /\ turns' = turns
         /\ HitAt(found) \in Nat /\ HitAt(found) < Len(turn.prompt)
         /\ Tier(found) \in {"Ram", "Disk"}
         /\ turn.prompt \in TokenSeqs /\ turn.out = <<>> /\ turn.already = 0
         /\ model \in Models
         /\ \A n \in 0..Len(turn.prompt) : SubSeq(History, 1, n) = SubSeq(turn.prompt, 1, n)
<1>1. /\ At("reuse") /\ points' = InvalidateAll(points) /\ LookUp(found) /\ cold' = cold
      /\ turns' = turns
  BY DEF Missed
<1>2. PointsInv' /\ Behind(model', points')
  BY <1>1, PointsGone
<1>3. \A n \in 0..Len(turn.prompt) : SubSeq(History, 1, n) = SubSeq(turn.prompt, 1, n)
  BY <1>1, HeldOK DEF At
<1> QED
  BY <1>1, <1>2, <1>3, LookUpOK DEF TurnInv, PcInv, At, TurnRecords

\* Nothing is found: the turn starts from the empty state.
LEMMA StartAfreshStep ==
  ASSUME TurnInv, NEW found \in ColdHits \cup {0}, StartAfresh(found)
  PROVE  TurnInv'
<1>1. /\ Missed(found) /\ model' = ResetModel(model)
      /\ turn' = [turn EXCEPT !.pc = "prefill"] /\ failures' = failures
  BY DEF StartAfresh, Go
<1>2. /\ StoresInv' /\ PointsInv' /\ Behind(model', points')
      /\ At("reuse") /\ turns' = turns
      /\ turn.prompt \in TokenSeqs /\ turn.out = <<>> /\ turn.already = 0
      /\ model \in Models
      /\ \A n \in 0..Len(turn.prompt) : SubSeq(History, 1, n) = SubSeq(turn.prompt, 1, n)
  BY <1>1, MissedOK
<1>3. /\ model' \in Models /\ model'.pos = 0
      /\ Exact(model', <<>>) /\ Shaped(model'.base, model'.pos)
  <2>1. /\ ResetModel(model) \in Models /\ ResetModel(model).pos = 0
        /\ Exact(ResetModel(model), <<>>) /\ Shaped(ResetModel(model).base, 0)
    BY <1>2, ResetOK
  <2> QED
    BY <1>1, <2>1, Zenon
<1>4. /\ turn' \in TurnRecords /\ turn'.pc = "prefill" /\ turn'.already = 0
      /\ turn'.prompt = turn.prompt /\ turn'.out = <<>>
  BY <1>1, <1>2 DEF TurnInv, TurnRecords, Pcs
<1>5. Len(turn.prompt) \in Nat /\ Len(turn.prompt) >= 1
  BY <1>2, TokenSeqIsSeq
<1>6. Exact(model', HeldTokens')
  <2>1. HeldTokens' = SubSeq(History, 1, 0)
    BY <1>2, <1>3, <1>4 DEF HeldTokens, History
  <2>2. SubSeq(History, 1, 0) = <<>>
    BY <1>2, HeldOK DEF At
  <2> QED
    BY <1>3, <2>1, <2>2, Zenon
<1>7. LiveInv'
  BY <1>2, <1>3, <1>4, <1>5, <1>6 DEF LiveInv
<1>8. PcInv'
  BY <1>2, <1>3, <1>4, <1>5 DEF PcInv, At
<1>9. CountInv'
  BY <1>1, <1>2 DEF TurnInv, CountInv
<1> QED
  BY <1>2, <1>3, <1>4, <1>7, <1>8, <1>9 DEF TurnInv

\* A hit in either tier gives the state of its prefix.
LEMMA RestoreStep ==
  ASSUME TurnInv, NEW found \in ColdHits \cup {0}, Restore(found)
  PROVE  TurnInv'
<1> DEFINE n == HitAt(found)
           p == SubSeq(turn.prompt, 1, n)
<1>1. /\ Missed(found) /\ n # 0 /\ failures' = failures
      /\ \E base \in BasesAt(n) : model' = RestoreModel(ResetModel(model), p, base)
      /\ turn' = [turn EXCEPT !.pc = "prefill", !.already = n, !.source = Tier(found)]
  BY DEF Restore
<1>2. /\ StoresInv' /\ PointsInv' /\ Behind(model', points')
      /\ At("reuse") /\ turns' = turns
      /\ n \in Nat /\ n < Len(turn.prompt) /\ Tier(found) \in {"Ram", "Disk"}
      /\ turn.prompt \in TokenSeqs /\ turn.out = <<>>
      /\ model \in Models
      /\ \A i \in 0..Len(turn.prompt) : SubSeq(History, 1, i) = SubSeq(turn.prompt, 1, i)
  BY <1>1, MissedOK
<1>3. p \in TokenSeqs /\ Len(p) = n /\ Len(turn.prompt) \in Nat /\ n \in 0..Len(turn.prompt)
  <2>1. n \in 1..Len(turn.prompt) /\ Len(turn.prompt) \in Nat
    BY <1>1, <1>2, TokenSeqIsSeq
  <2> QED
    BY <1>2, <2>1, PromptPrefix
<1> HIDE DEF n, p
<1>4. /\ model' \in Models /\ model'.pos = n
      /\ Exact(model', p) /\ Shaped(model'.base, model'.pos)
  <2>1. PICK base \in BasesAt(n) : model' = RestoreModel(ResetModel(model), p, base)
    BY <1>1
  <2>2. base \in BasesAt(Len(p)) /\ ResetModel(model) \in Models
    BY <1>2, <1>3, <2>1, ResetOK
  <2>3. LET r == RestoreModel(ResetModel(model), p, base) IN
        r \in Models /\ r.pos = Len(p) /\ Exact(r, p) /\ Shaped(r.base, r.pos)
    BY <1>3, <2>2, RestoreOK
  <2> QED
    BY <1>3, <2>1, <2>3, Zenon
<1>5. /\ turn' \in TurnRecords /\ turn'.pc = "prefill" /\ turn'.already = n
      /\ turn'.prompt = turn.prompt /\ turn'.out = <<>>
  BY <1>1, <1>2 DEF TurnInv, TurnRecords, Pcs
<1>6. Exact(model', HeldTokens')
  <2>1. HeldTokens' = SubSeq(History, 1, n)
    BY <1>2, <1>4, <1>5 DEF HeldTokens, History
  <2>2. SubSeq(History, 1, n) = p
    BY <1>2, <1>3 DEF p
  <2> QED
    BY <1>4, <2>1, <2>2, Zenon
<1>7. LiveInv'
  BY <1>2, <1>4, <1>5, <1>6 DEF LiveInv
<1>8. PcInv'
  BY <1>2, <1>3, <1>4, <1>5 DEF PcInv, At
<1>9. CountInv'
  BY <1>1, <1>2 DEF TurnInv, CountInv
<1> QED
  BY <1>2, <1>4, <1>5, <1>7, <1>8, <1>9 DEF TurnInv

\* A restore that fails leaves a broken model, and no point to rewind it to.
LEMMA RestoreFailsStep ==
  ASSUME TurnInv, NEW found \in ColdHits \cup {0}, RestoreFails(found)
  PROVE  TurnInv'
<1> DEFINE n == HitAt(found)
           p == SubSeq(turn.prompt, 1, n)
<1>1. /\ Missed(found) /\ n # 0 /\ Fault /\ turn' = Idle
      /\ \E base \in BasesAt(n) : model' \in RestoreBroken(ResetModel(model), p, base)
  BY DEF RestoreFails, Abandon
<1>2. /\ StoresInv' /\ PointsInv' /\ turns' = turns
      /\ n \in Nat /\ n < Len(turn.prompt) /\ turn.prompt \in TokenSeqs /\ model \in Models
  BY <1>1, MissedOK
<1>3. p \in TokenSeqs /\ Len(p) = n
  <2>1. n \in 1..Len(turn.prompt)
    BY <1>1, <1>2, TokenSeqIsSeq
  <2> QED
    BY <1>2, <2>1, PromptPrefix
<1> HIDE DEF n, p
<1>4. model' \in Models
  BY <1>1, <1>2, <1>3, ResetOK, RestoreBrokenOK
<1> QED
  BY <1>1, <1>2, <1>4, GiveUp, FaultOK

-----------------------------------------------------------------------------
(***************************************************************************)
(* Prefill and decode.                                                     *)
(***************************************************************************)
LEMMA RunningOK ==
  ASSUME TurnInv, Running
  PROVE  /\ ~ At("idle") /\ turn.prompt \in TokenSeqs /\ turn.prompt \in Seq(Tokens)
         /\ Len(turn.prompt) \in Nat /\ Len(turn.out) \in Nat /\ turn.out \in Seq(Tokens)
         /\ turn.already \in Nat /\ turn.already < Len(turn.prompt)
         /\ History \in Seq(Tokens) /\ Len(History) = Len(turn.prompt) + Len(turn.out)
         /\ model \in Models /\ points \in PointTable
         /\ model.pos \in 0..Len(History) /\ model.pos \in 0..MaxLen /\ model.pos \in Nat
         /\ HeldTokens \in Histories /\ Len(HeldTokens) = model.pos
         /\ Exact(model, HeldTokens) /\ Shaped(model.base, model.pos)
         /\ Behind(model, points) /\ PointsOK(model, points) /\ PointsOrdered(points)
<1>1. /\ ~ At("idle") /\ turn.prompt \in TokenSeqs /\ turn.out \in Seq(Tokens)
      /\ turn.already \in Nat
  BY DEF TurnInv, Running, PcInv, At, TurnRecords
<1>2. turn.prompt \in Seq(Tokens) /\ Len(turn.prompt) \in Nat /\ Len(turn.out) \in Nat
  BY <1>1, TokenSeqIsSeq
<1>3. History \in Seq(Tokens) /\ Len(History) = Len(turn.prompt) + Len(turn.out)
  BY <1>1, HeldOK
<1>4. model \in Models /\ model.pos \in 0..MaxLen /\ model.pos \in Nat
  BY ModelConstants DEF TurnInv, Models
<1>5. model.pos \in 0..Len(History)
  <2> DEFINE n == model.pos
             k == Len(turn.prompt)
             l == Len(turn.out)
  <2>1. n \in Nat /\ k \in Nat /\ l \in Nat /\ Len(History) = k + l
    BY <1>2, <1>3, <1>4
  <2>2. n < k \/ n <= k \/ n = k + l \/ n <= k + l
    BY DEF TurnInv, PcInv, Running, At
  <2> HIDE DEF n, k, l
  <2>3. n \in 0..(k + l)
    BY <2>1, <2>2
  <2> QED
    BY <2>1, <2>3 DEF n
<1>6. HeldTokens \in Seq(Tokens) /\ Len(HeldTokens) = model.pos
  BY <1>3, <1>5, Prefix DEF HeldTokens
<1>7. HeldTokens \in Histories
  BY <1>4, <1>6, SeqIsHistory, ModelConstants
<1> QED
  BY <1>1, <1>2, <1>3, <1>4, <1>5, <1>6, <1>7 DEF TurnInv, LiveInv, PointsInv

\* One more token forwarded from an exact state.
LEMMA Advances ==
  ASSUME TurnInv, Running, NEW t \in Tokens, model.pos < MaxLen,
         model' = Forward(model, t), points' = points
  PROVE  /\ model' \in Models /\ model'.pos = model.pos + 1
         /\ PointsInv' /\ Behind(model', points')
         /\ Exact(model', Append(HeldTokens, t)) /\ Shaped(model'.base, model'.pos)
<1> DEFINE f == Forward(model, t)
<1>1. /\ model \in Models /\ points \in PointTable /\ HeldTokens \in Histories
      /\ Exact(model, HeldTokens) /\ Shaped(model.base, model.pos)
      /\ Behind(model, points) /\ PointsOK(model, points) /\ PointsOrdered(points)
  BY RunningOK
<1>2. /\ f \in Models /\ f.pos = model.pos + 1 /\ f.base >= model.base
      /\ \A i \in Positions : i < model.pos /\ i < model.base => f.fixed[i] = model.fixed[i]
  BY <1>1, ForwardOK
<1>3. Exact(f, Append(HeldTokens, t)) /\ Shaped(f.base, f.pos)
  BY <1>1, ForwardExact
<1> HIDE DEF f
<1>4. PointsOK(f, points)
  BY <1>1, <1>2, PointsKept
<1>5. Behind(f, points)
  BY <1>1, <1>2, BehindAhead
<1>6. model' = f
  BY DEF f
<1>7. PointsInv' /\ Behind(model', points')
  BY <1>1, <1>4, <1>5, <1>6, Zenon DEF PointsInv
<1>8. Exact(model', Append(HeldTokens, t)) /\ Shaped(model'.base, model'.pos)
  BY <1>3, <1>6, Zenon
<1> QED
  BY <1>2, <1>6, <1>7, <1>8

\* A pass that fails breaks no row a point relies on.
LEMMA ForwardFails ==
  ASSUME TurnInv, Running, NEW t \in Tokens, model.pos < MaxLen,
         model' \in ForwardBroken(model, t) \cup {Forward(model, t)}, points' = points
  PROVE  model' \in Models /\ PointsInv'
<1>1. /\ model \in Models /\ points \in PointTable
      /\ Behind(model, points) /\ PointsOK(model, points) /\ PointsOrdered(points)
  BY RunningOK
<1>2. /\ model' \in Models
      /\ \A i \in Positions : i < model.pos /\ i < model.base =>
           model'.fixed[i] = model.fixed[i]
  BY <1>1, ForwardOK, ForwardBrokenOK
<1>3. PointsOK(model', points)
  BY <1>1, <1>2, PointsKept
<1> QED
  BY <1>1, <1>2, <1>3, Zenon DEF PointsInv

\* The next token of the prompt, and what the model holds after it.
LEMMA NextTokenOK ==
  ASSUME TurnInv, At("prefill")
  PROVE  /\ Running /\ NextToken \in Tokens /\ model.pos < MaxLen
         /\ model.pos < Len(turn.prompt) /\ turn.out = <<>> /\ History = turn.prompt
         /\ Append(HeldTokens, NextToken) = SubSeq(History, 1, model.pos + 1)
<1>1. Running /\ turn.out = <<>> /\ model.pos < Len(turn.prompt) /\ ~ At("idle")
  BY DEF TurnInv, PcInv, Running, At
<1>2. turn.prompt \in TokenSeqs /\ turn.prompt \in Seq(Tokens) /\ Len(turn.prompt) \in Nat
      /\ model.pos \in Nat
  BY <1>1, RunningOK
<1>3. History = turn.prompt
  BY <1>1, HeldOK
<1>4. Len(turn.prompt) <= MaxLen
  BY <1>2, TokenSeqIsSeq, ModelConstants
<1>5. NextToken \in Tokens
  BY <1>1, <1>2 DEF NextToken
<1> DEFINE P == turn.prompt
           n == model.pos
<1>6. P \in Seq(Tokens) /\ n \in Nat /\ n < Len(P)
  BY <1>1, <1>2
<1> HIDE DEF P, n
<1>7. Append(SubSeq(P, 1, n), P[n + 1]) = SubSeq(P, 1, n + 1)
  BY <1>6
<1> QED
  BY <1>1, <1>2, <1>3, <1>4, <1>5, <1>7, ModelConstants DEF P, n, HeldTokens, NextToken

\* One prompt token is forwarded.
LEMMA PrefillStep ==
  ASSUME TurnInv, Prefill
  PROVE  TurnInv'
<1>1. /\ At("prefill") /\ model' = Forward(model, NextToken)
      /\ turn' = [turn EXCEPT !.pc = IF CutAt(model.pos + 1) THEN "boundary" ELSE "prefill"]
      /\ points' = points /\ ram' = ram /\ cold' = cold
      /\ turns' = turns /\ failures' = failures
  BY DEF Prefill, Go
<1>2. /\ Running /\ NextToken \in Tokens /\ model.pos < MaxLen
      /\ model.pos < Len(turn.prompt) /\ turn.out = <<>>
      /\ Append(HeldTokens, NextToken) = SubSeq(History, 1, model.pos + 1)
  BY <1>1, NextTokenOK
<1>3. /\ model' \in Models /\ model'.pos = model.pos + 1
      /\ PointsInv' /\ Behind(model', points')
      /\ Exact(model', Append(HeldTokens, NextToken)) /\ Shaped(model'.base, model'.pos)
  BY <1>1, <1>2, Advances
<1>4. /\ turn.prompt \in TokenSeqs /\ turn.already < Len(turn.prompt)
      /\ Len(turn.prompt) \in Nat /\ model.pos \in Nat
  BY <1>2, RunningOK
<1>5. /\ turn' \in TurnRecords /\ turn'.prompt = turn.prompt /\ turn'.out = <<>>
      /\ turn'.already = turn.already
      /\ \/ turn'.pc = "prefill" /\ ~ CutAt(model.pos + 1)
         \/ turn'.pc = "boundary"
  BY <1>1, <1>2 DEF TurnInv, TurnRecords, Pcs
<1>6. Exact(model', HeldTokens')
  <2>1. HeldTokens' = SubSeq(History, 1, model.pos + 1)
    BY <1>2, <1>3, <1>5 DEF HeldTokens, History
  <2> QED
    BY <1>2, <1>3, <2>1, Zenon
<1>7. LiveInv'
  BY <1>3, <1>4, <1>5, <1>6 DEF LiveInv
<1>8. PcInv'
  <2>1. CASE turn'.pc = "prefill" /\ ~ CutAt(model.pos + 1)
    <3>1. model.pos + 1 # Len(turn.prompt)
      BY <2>1 DEF CutAt
    <3>2. model'.pos < Len(turn'.prompt)
      BY <1>2, <1>3, <1>4, <1>5, <3>1
    <3> QED
      BY <1>4, <1>5, <2>1, <3>2 DEF PcInv, At
  <2>2. CASE turn'.pc = "boundary"
    <3>1. 1 <= model'.pos /\ model'.pos <= Len(turn'.prompt)
      BY <1>2, <1>3, <1>4, <1>5
    <3> QED
      BY <1>4, <1>5, <2>2, <3>1 DEF PcInv, At
  <2> QED
    BY <1>5, <2>1, <2>2
<1>9. StoresInv' /\ CountInv'
  BY <1>1, StoresKept DEF TurnInv, CountInv
<1> QED
  BY <1>3, <1>5, <1>7, <1>8, <1>9 DEF TurnInv

\* A pass over the prompt fails.
LEMMA PrefillFailsStep ==
  ASSUME TurnInv, PrefillFails
  PROVE  TurnInv'
<1>1. /\ At("prefill") /\ Fault /\ turn' = Idle
      /\ model' \in ForwardBroken(model, NextToken) \cup {Forward(model, NextToken)}
      /\ points' = points /\ ram' = ram /\ cold' = cold /\ turns' = turns
  BY DEF PrefillFails, Abandon
<1>2. Running /\ NextToken \in Tokens /\ model.pos < MaxLen
  BY <1>1, NextTokenOK
<1>3. model' \in Models /\ PointsInv'
  BY <1>1, <1>2, ForwardFails
<1> QED
  BY <1>1, <1>3, GiveUp, FaultOK, StoresKept DEF TurnInv

\* At a cut, the tokens so far are a prefix of the prompt.
LEMMA BoundaryOK ==
  ASSUME TurnInv, At("boundary")
  PROVE  /\ Running /\ turn.out = <<>> /\ 1 <= model.pos /\ model.pos <= Len(turn.prompt)
         /\ SubSeq(turn.prompt, 1, model.pos) = HeldTokens
         /\ SubSeq(turn.prompt, 1, model.pos) \in TokenSeqs
<1>1. /\ Running /\ turn.out = <<>> /\ ~ At("idle")
      /\ 1 <= model.pos /\ model.pos <= Len(turn.prompt)
  BY DEF TurnInv, PcInv, Running, At
<1>2. turn.prompt \in TokenSeqs /\ Len(turn.prompt) \in Nat /\ model.pos \in Nat
  BY <1>1, RunningOK
<1>3. History = turn.prompt
  BY <1>1, HeldOK
<1>4. model.pos \in 1..Len(turn.prompt)
  BY <1>1, <1>2
<1> QED
  BY <1>1, <1>2, <1>3, <1>4, PromptPrefix DEF HeldTokens

\* What is common to the two kinds of cut: the turn goes on, with the same model.
LEMMA AfterBoundary ==
  ASSUME TurnInv, At("boundary"), Go(AfterCut), model' = model, turns' = turns,
         failures' \in 0..MaxFailures, StoresInv', PointsInv', Behind(model, points')
  PROVE  TurnInv'
<1>1. /\ Running /\ turn.out = <<>> /\ 1 <= model.pos /\ model.pos <= Len(turn.prompt)
  BY BoundaryOK
<1>2. /\ turn.prompt \in TokenSeqs /\ turn.already < Len(turn.prompt)
      /\ Len(turn.prompt) \in Nat /\ model.pos \in Nat
      /\ Exact(model, HeldTokens) /\ Shaped(model.base, model.pos)
  BY <1>1, RunningOK
<1>3. /\ turn' = [turn EXCEPT !.pc = AfterCut]
      /\ AfterCut = IF model.pos = Len(turn.prompt) THEN "decode" ELSE "prefill"
  BY DEF Go, AfterCut
<1>4. /\ turn' \in TurnRecords /\ turn'.prompt = turn.prompt /\ turn'.out = <<>>
      /\ turn'.already = turn.already /\ turn'.pc = AfterCut
  BY <1>1, <1>3 DEF TurnInv, TurnRecords, Pcs
<1>5. Exact(model', HeldTokens') /\ Shaped(model'.base, model'.pos) /\ Behind(model', points')
  <2>1. HeldTokens' = HeldTokens
    BY <1>1, <1>4 DEF HeldTokens, History
  <2> QED
    BY <1>2, <2>1, Zenon
<1>6. LiveInv'
  BY <1>2, <1>4, <1>5 DEF LiveInv
<1>7. PcInv'
  <2>1. CASE model.pos = Len(turn.prompt)
    <3>1. turn'.pc = "decode"
      BY <1>3, <1>4, <2>1
    <3>2. Len(turn'.out) = 0
      BY <1>4
    <3>3. model'.pos = Len(turn'.prompt) + Len(turn'.out)
      BY <1>2, <1>4, <2>1, <3>2
    <3> QED
      BY <1>2, <1>4, <3>1, <3>3 DEF PcInv, At
  <2>2. CASE model.pos # Len(turn.prompt)
    <3>1. turn'.pc = "prefill"
      BY <1>3, <1>4, <2>2
    <3>2. model'.pos < Len(turn'.prompt)
      BY <1>1, <1>2, <1>4, <2>2
    <3> QED
      BY <1>2, <1>4, <3>1, <3>2 DEF PcInv, At
  <2> QED
    BY <2>1, <2>2
<1> QED
  BY <1>4, <1>6, <1>7 DEF TurnInv, CountInv

\* A point saved, or lost, from the state the turn is in.
LEMMA PointSaved ==
  ASSUME TurnInv, Running, NEW slot \in RewindSlots,
         points' \in {SavePoint(points, slot, model, HeldTokens), SavePointBroken(points, slot)},
         model' = model
  PROVE  PointsInv' /\ Behind(model, points')
<1>1. /\ model \in Models /\ points \in PointTable /\ HeldTokens \in Histories
      /\ Len(HeldTokens) = model.pos
      /\ Exact(model, HeldTokens) /\ Shaped(model.base, model.pos)
      /\ Behind(model, points) /\ PointsOK(model, points) /\ PointsOrdered(points)
  BY RunningOK
<1>2. points' \in PointTable /\ PointsOK(model, points') /\ PointsOrdered(points')
  BY <1>1, SaveOK
<1>3. Behind(model, points')
  <2> SUFFICES ASSUME NEW s \in RewindSlots, Valid(points', s)
               PROVE  /\ Len(points'[s].prefix) <= model.pos /\ points'[s].base <= model.base
                      /\ Len(points'[s].prefix) = model.pos => points'[s].base = model.base
    BY DEF Behind
  <2>1. CASE s = slot
    <3>1. model.pos \in Nat /\ model.base \in Nat
      BY <1>1, ModelConstants DEF Models
    <3>2. CASE points' = SavePoint(points, slot, model, HeldTokens)
      <4>1. points'[s].prefix = HeldTokens /\ points'[s].base = model.base
        BY <1>1, <2>1, <3>2 DEF SavePoint, PointTable
      <4> QED
        BY <1>1, <3>1, <4>1
    <3>3. CASE points' = SavePointBroken(points, slot)
      BY <1>1, <2>1, <3>3 DEF SavePointBroken, PointTable, Valid, NoPoint
    <3> QED
      BY <3>2, <3>3
  <2>2. CASE s # slot
    <3>1. points'[s] = points[s]
      BY <1>1, <2>2 DEF SavePoint, SavePointBroken, PointTable
    <3> QED
      BY <1>1, <3>1 DEF Behind, Valid
  <2> QED
    BY <2>1, <2>2
<1> QED
  BY <1>2, <1>3, Zenon DEF PointsInv

\* A save counts at most one failure, and the point is saved or lost.
LEMMA SavesOK ==
  ASSUME TurnInv, NEW slot \in RewindSlots, NEW ids,
         Saved(slot, ids) \/ NotSaved(slot)
  PROVE  /\ failures' \in 0..MaxFailures
         /\ points' \in {SavePoint(points, slot, model, ids), SavePointBroken(points, slot)}
BY FaultOK DEF Saved, NotSaved, TurnInv, CountInv

\* The cut at the stable boundary.
LEMMA SaveBoundaryStep ==
  ASSUME TurnInv, SaveBoundary
  PROVE  TurnInv'
<1> DEFINE ids == SubSeq(turn.prompt, 1, model.pos)
           b == "StableBoundary"
<1>1. /\ At("boundary") /\ Go(AfterCut) /\ model' = model /\ turns' = turns
      /\ \/ Saved(b, ids) /\ (IF WouldKeepPinned THEN Pin(ids) ELSE KeepNothing)
         \/ NotSaved(b) /\ (IF WouldKeepPinned THEN Pin(ids) ELSE KeepNothing)
         \/ /\ WouldKeepPinned /\ Fault /\ KeepNothing
            /\ points' = SavePoint(points, b, model, ids)
  BY DEF SaveBoundary
<1>2. Running /\ ids = HeldTokens /\ ids \in TokenSeqs /\ b \in RewindSlots
  BY <1>1, BoundaryOK DEF RewindSlots
<1> HIDE DEF ids, b
<1>3. Pin(ids) \/ KeepNothing
  BY <1>1
<1>4. /\ failures' \in 0..MaxFailures
      /\ points' \in {SavePoint(points, b, model, ids), SavePointBroken(points, b)}
  BY <1>1, <1>2, SavesOK, FaultOK
<1>5. StoresInv'
  BY <1>2, <1>3, KeepOK DEF TurnInv
<1>6. PointsInv' /\ Behind(model, points')
  BY <1>1, <1>2, <1>4, PointSaved
<1> QED
  BY <1>1, <1>4, <1>5, <1>6, AfterBoundary

\* A cut on the capture grid, or at the prompt's end.
LEMMA SavePeriodicStep ==
  ASSUME TurnInv, SavePeriodic
  PROVE  TurnInv'
<1> DEFINE ids == SubSeq(turn.prompt, 1, model.pos)
<1>1. /\ At("boundary") /\ Go(AfterCut) /\ model' = model /\ turns' = turns
      /\ points' = points
      /\ Keep(ids) \/ KeepNothing
      /\ failures' = failures \/ Fault
  BY DEF SavePeriodic
<1>2. Running /\ ids \in TokenSeqs
  BY <1>1, BoundaryOK
<1> HIDE DEF ids
<1>3. failures' \in 0..MaxFailures
  BY <1>1, FaultOK DEF TurnInv, CountInv
<1>4. StoresInv'
  BY <1>1, <1>2, KeepOK DEF TurnInv
<1>5. Behind(model, points) /\ PointsInv
  BY <1>2, RunningOK DEF TurnInv
<1>6. PointsInv' /\ Behind(model, points')
  BY <1>1, <1>5, Zenon DEF PointsInv
<1> QED
  BY <1>1, <1>3, <1>4, <1>6, AfterBoundary

\* One more token in the text: what was held is still its beginning.
LEMMA TextGrows ==
  ASSUME TurnInv, At("decode"), NEW t \in Tokens, turn'.prompt = turn.prompt,
         turn'.out = Append(turn.out, t)
  PROVE  /\ Running /\ History' = Append(History, t)
         /\ model.pos = Len(turn.prompt) + Len(turn.out)
         /\ HeldTokens = History
         /\ Len(turn'.out) = Len(turn.out) + 1
         /\ turn'.out \in Seq(Tokens)
         /\ SubSeq(History', 1, model.pos) = HeldTokens
         /\ SubSeq(History', 1, model.pos + 1) = Append(HeldTokens, t)
<1>1. Running /\ model.pos = Len(turn.prompt) + Len(turn.out)
  BY DEF TurnInv, PcInv, Running, At
<1>2. /\ turn.prompt \in Seq(Tokens) /\ turn.out \in Seq(Tokens) /\ Len(turn.out) \in Nat
      /\ History \in Seq(Tokens) /\ Len(History) = model.pos /\ model.pos \in Nat
  BY <1>1, RunningOK
<1> DEFINE P == turn.prompt
           O == turn.out
<1>3. P \in Seq(Tokens) /\ O \in Seq(Tokens)
  BY <1>2
<1> HIDE DEF P, O
<1>4. /\ P \o Append(O, t) = Append(P \o O, t)
      /\ Append(O, t) \in Seq(Tokens) /\ Len(Append(O, t)) = Len(O) + 1
  BY <1>3
<1>5. History' = Append(History, t)
  BY <1>4 DEF History, P, O
<1>6. HeldTokens = History
  BY <1>2, Prefix DEF HeldTokens
<1>7. /\ SubSeq(Append(History, t), 1, Len(History) + 1) = Append(History, t)
      /\ \A i \in 0..Len(History) : SubSeq(Append(History, t), 1, i) = SubSeq(History, 1, i)
  BY <1>2, PrefixOfAppend
<1>8. SubSeq(History', 1, model.pos) = HeldTokens
  BY <1>2, <1>5, <1>7 DEF HeldTokens
<1> QED
  BY <1>1, <1>2, <1>4, <1>5, <1>6, <1>7, <1>8 DEF P, O

\* A sampled token is forwarded.
LEMMA SampleStep ==
  ASSUME TurnInv, NEW t \in Tokens, Sample(t)
  PROVE  TurnInv'
<1>1. /\ At("decode") /\ model.pos < MaxLen
      /\ turn' = [turn EXCEPT !.out = Append(turn.out, t)]
      /\ model' = Forward(model, t) /\ points' = points /\ ram' = ram /\ cold' = cold
      /\ turns' = turns /\ failures' = failures
  BY DEF Sample
<1>2. /\ turn'.pc = "decode" /\ turn'.prompt = turn.prompt /\ turn'.already = turn.already
      /\ turn'.out = Append(turn.out, t)
  BY <1>1 DEF TurnInv, TurnRecords, At
<1>3. /\ Running /\ model.pos = Len(turn.prompt) + Len(turn.out)
      /\ Len(turn'.out) = Len(turn.out) + 1 /\ turn'.out \in Seq(Tokens)
      /\ SubSeq(History', 1, model.pos + 1) = Append(HeldTokens, t)
  BY <1>1, <1>2, TextGrows
<1>4. turn' \in TurnRecords
  BY <1>1, <1>2, <1>3 DEF TurnInv, TurnRecords
<1>5. /\ model' \in Models /\ model'.pos = model.pos + 1
      /\ PointsInv' /\ Behind(model', points')
      /\ Exact(model', Append(HeldTokens, t)) /\ Shaped(model'.base, model'.pos)
  BY <1>1, <1>3, Advances
<1>6. /\ turn.prompt \in TokenSeqs /\ turn.already < Len(turn.prompt)
      /\ Len(turn.prompt) \in Nat /\ Len(turn.out) \in Nat
  BY <1>3, RunningOK
<1>7. Exact(model', HeldTokens')
  <2>1. HeldTokens' = Append(HeldTokens, t)
    BY <1>3, <1>5 DEF HeldTokens
  <2> QED
    BY <1>5, <2>1, Zenon
<1>8. LiveInv'
  BY <1>2, <1>5, <1>6, <1>7 DEF LiveInv
<1>9. PcInv'
  <2>1. model'.pos = Len(turn'.prompt) + Len(turn'.out)
    <3> DEFINE n == model.pos
               k == Len(turn.prompt)
               l == Len(turn.out)
    <3>1. /\ k \in Nat /\ l \in Nat /\ n = k + l /\ model'.pos = n + 1
          /\ Len(turn'.prompt) = k /\ Len(turn'.out) = l + 1
      BY <1>2, <1>3, <1>5, <1>6
    <3> HIDE DEF n, k, l
    <3> QED
      BY <3>1
  <2> QED
    BY <1>2, <1>6, <2>1 DEF PcInv, At
<1>10. StoresInv' /\ CountInv'
  BY <1>1, StoresKept DEF TurnInv, CountInv
<1> QED
  BY <1>4, <1>5, <1>8, <1>9, <1>10 DEF TurnInv

\* The text is complete: the model is left as it is.
LEMMA ToFinish ==
  ASSUME TurnInv, At("decode"), turn' \in TurnRecords, turn'.pc = "finish",
         turn'.prompt = turn.prompt, turn'.already = turn.already,
         Len(turn'.out) \in Nat, Len(turn.out) <= Len(turn'.out),
         SubSeq(History', 1, model.pos) = HeldTokens,
         UNCHANGED <<model, points, ram, cold, turns, failures>>
  PROVE  TurnInv'
<1>1. Running /\ model.pos = Len(turn.prompt) + Len(turn.out)
  BY DEF TurnInv, PcInv, Running, At
<1>2. /\ turn.prompt \in TokenSeqs /\ turn.already < Len(turn.prompt)
      /\ Len(turn.prompt) \in Nat /\ Len(turn.prompt) >= 1 /\ Len(turn.out) \in Nat
      /\ Exact(model, HeldTokens) /\ Shaped(model.base, model.pos) /\ Behind(model, points)
  BY <1>1, RunningOK, TokenSeqIsSeq
<1>3. Exact(model', HeldTokens') /\ Shaped(model'.base, model'.pos) /\ Behind(model', points')
  <2>1. HeldTokens' = HeldTokens
    BY DEF HeldTokens
  <2> QED
    BY <1>2, <2>1, Zenon
<1>4. LiveInv'
  BY <1>2, <1>3 DEF LiveInv
<1>5. PcInv'
  <2>1. 1 <= model'.pos /\ model'.pos <= Len(turn'.prompt) + Len(turn'.out)
    <3> DEFINE n == model.pos
               k == Len(turn.prompt)
               l == Len(turn.out)
               u == Len(turn'.out)
    <3>1. /\ k \in Nat /\ l \in Nat /\ u \in Nat /\ k >= 1 /\ l <= u
          /\ n = k + l /\ model'.pos = n /\ Len(turn'.prompt) = k
      BY <1>1, <1>2
    <3> HIDE DEF n, k, l, u
    <3>2. 1 <= model'.pos /\ model'.pos <= k + u
      BY <3>1
    <3> QED
      BY <3>1, <3>2 DEF u
  <2> QED
    BY <1>2, <2>1 DEF PcInv, At
<1>6. PointsInv'
  BY Zenon DEF TurnInv, PointsInv
<1>7. StoresInv' /\ CountInv' /\ model' \in Models
  BY StoresKept DEF TurnInv, CountInv
<1> QED
  BY <1>4, <1>5, <1>6, <1>7 DEF TurnInv

\* A token that completes a stop string is in the text, not in the model.
LEMMA SampleStopStep ==
  ASSUME TurnInv, NEW t \in Tokens, SampleStop(t)
  PROVE  TurnInv'
<1>1. /\ At("decode")
      /\ turn' = [turn EXCEPT !.pc = "finish", !.out = Append(turn.out, t)]
      /\ UNCHANGED <<model, points, ram, cold, turns, failures>>
  BY DEF SampleStop
<1>2. /\ turn'.pc = "finish" /\ turn'.prompt = turn.prompt /\ turn'.already = turn.already
      /\ turn'.out = Append(turn.out, t)
  BY <1>1 DEF TurnInv, TurnRecords
<1>3. /\ Running /\ Len(turn'.out) = Len(turn.out) + 1 /\ turn'.out \in Seq(Tokens)
      /\ SubSeq(History', 1, model.pos) = HeldTokens
  BY <1>1, <1>2, TextGrows
<1>4. Len(turn.out) \in Nat
  BY <1>3, RunningOK
<1>5. Len(turn'.out) \in Nat /\ Len(turn.out) <= Len(turn'.out)
  BY <1>3, <1>4
<1>6. turn' \in TurnRecords
  BY <1>1, <1>3 DEF TurnInv, TurnRecords, Pcs
<1> QED
  BY <1>1, <1>2, <1>3, <1>5, <1>6, ToFinish

\* EOS, or the limit on new tokens.
LEMMA StopStep ==
  ASSUME TurnInv, Stop
  PROVE  TurnInv'
<1>1. /\ At("decode") /\ turn' = [turn EXCEPT !.pc = "finish"]
      /\ UNCHANGED <<model, points, ram, cold, turns, failures>>
  BY DEF Stop, Go
<1>2. /\ turn' \in TurnRecords /\ turn'.pc = "finish" /\ turn'.prompt = turn.prompt
      /\ turn'.already = turn.already /\ turn'.out = turn.out
  BY <1>1 DEF TurnInv, TurnRecords, Pcs
<1>3. Len(turn.out) \in Nat
  BY <1>1, RunningOK DEF Running, At
<1>4. SubSeq(History', 1, model.pos) = HeldTokens
  BY <1>2 DEF History, HeldTokens
<1> QED
  BY <1>1, <1>2, <1>3, <1>4, ToFinish

\* A sampled token cannot be forwarded.
LEMMA DecodeFailsStep ==
  ASSUME TurnInv, NEW t \in Tokens, DecodeFails(t)
  PROVE  TurnInv'
<1>1. /\ At("decode") /\ turn' = Idle
      /\ points' = points /\ ram' = ram /\ cold' = cold /\ turns' = turns
      /\ \/ model.pos < MaxLen /\ Fault /\ model' \in ForwardBroken(model, t)
         \/ model' = model /\ failures' = failures
  BY DEF DecodeFails, Abandon
<1>2. Running
  BY <1>1 DEF Running, At
<1>3. failures' \in 0..MaxFailures
  BY <1>1, FaultOK DEF TurnInv, CountInv
<1>4. model' \in Models /\ PointsInv'
  <2>1. CASE model.pos < MaxLen /\ model' \in ForwardBroken(model, t)
    BY <1>1, <1>2, <2>1, ForwardFails
  <2>2. CASE model' = model
    BY <1>1, <2>2, Zenon DEF TurnInv, PointsInv
  <2> QED
    BY <1>1, <2>1, <2>2
<1> QED
  BY <1>1, <1>3, <1>4, GiveUp, StoresKept DEF TurnInv

\* The end of the turn: what is saved is what the model holds.
LEMMA FinishStep ==
  ASSUME TurnInv, Finish
  PROVE  TurnInv'
<1> DEFINE e == "EndOfTurn"
           pinned == turn.boundary = 0 /\ WouldKeepPinned
<1>1. /\ At("finish") /\ turn' = Idle /\ model' = model /\ turns' = turns
      /\ \/ Saved(e, HeldTokens) /\ (IF pinned THEN Pin(HeldTokens) ELSE KeepNothing)
         \/ NotSaved(e) /\ (IF pinned THEN Pin(HeldTokens) ELSE KeepNothing)
         \/ /\ pinned /\ Fault /\ KeepNothing
            /\ points' = SavePoint(points, e, model, HeldTokens)
  BY DEF Finish
<1>2. Running /\ e \in RewindSlots /\ 1 <= model.pos
  BY <1>1 DEF TurnInv, PcInv, Running, At, RewindSlots
<1>3. HeldTokens \in TokenSeqs
  <2>1. HeldTokens \in Histories /\ Len(HeldTokens) = model.pos /\ model.pos \in Nat
    BY <1>2, RunningOK
  <2>2. HeldTokens # <<>>
    BY <1>2, <2>1
  <2> QED
    BY <2>1, <2>2 DEF Histories
<1> HIDE DEF e, pinned
<1>4. Pin(HeldTokens) \/ KeepNothing
  BY <1>1
<1>5. /\ failures' \in 0..MaxFailures
      /\ points' \in {SavePoint(points, e, model, HeldTokens), SavePointBroken(points, e)}
  BY <1>1, <1>2, SavesOK, FaultOK
<1>6. StoresInv'
  BY <1>3, <1>4, KeepOK DEF TurnInv
<1>7. PointsInv'
  BY <1>1, <1>2, <1>5, PointSaved
<1>8. model' \in Models
  BY <1>1 DEF TurnInv
<1> QED
  BY <1>1, <1>5, <1>6, <1>7, <1>8, GiveUp

\* A panic: the worker resets the model, or tries to.
LEMMA PanicStep ==
  ASSUME TurnInv, Panic
  PROVE  TurnInv'
<1>1. /\ Fault /\ turn' = Idle /\ points' = InvalidateAll(points)
      /\ model' \in {ResetModel(model), ResetBroken(model)}
      /\ ram' = ram /\ cold' = cold /\ turns' = turns
  BY DEF Panic, Abandon
<1>2. model' \in Models
  BY <1>1, ResetOK DEF TurnInv
<1> QED
  BY <1>1, <1>2, GiveUp, FaultOK, StoresKept, PointsGone DEF TurnInv

\* What a process starts with.
LEMMA FreshOK ==
  ASSUME NEW budget \in Budgets
  PROVE  /\ NewModel \in Models /\ NoPoints \in PointTable
         /\ PointsOK(NewModel, NoPoints) /\ PointsOrdered(NoPoints)
         /\ SInv(NewRam(budget))
BY NewModelOK, NewPointsOK, NewRamOK

\* A new process starts with empty points and an empty RAM tier.
LEMMA RestartStep ==
  ASSUME TurnInv, Restart
  PROVE  TurnInv'
<1>1. /\ Fault /\ turn' = Idle /\ model' = NewModel /\ points' = NoPoints
      /\ ram' = NewRam(ram.budget) /\ cold' = cold /\ turns' = turns
  BY DEF Restart, Abandon
<1>2. ram.budget \in Budgets
  BY DEF TurnInv, StoresInv, SInv, RamRecords
<1>3. /\ NewModel \in Models /\ NoPoints \in PointTable
      /\ PointsOK(NewModel, NoPoints) /\ PointsOrdered(NoPoints)
      /\ SInv(NewRam(ram.budget))
  BY <1>2, FreshOK
<1>4. PointsInv'
  BY <1>1, <1>3, Zenon DEF PointsInv
<1>5. StoresInv'
  BY <1>1, <1>3, Zenon DEF TurnInv, StoresInv
<1> QED
  BY <1>1, <1>3, <1>4, <1>5, GiveUp, FaultOK

-----------------------------------------------------------------------------
\* The invariant holds at first.
LEMMA InitTurn == Init => TurnInv
<1> SUFFICES ASSUME Init PROVE TurnInv
  OBVIOUS
<1>1. /\ model = NewModel /\ points = NoPoints /\ cold = {} /\ turn = Idle
      /\ turns = 0 /\ failures = 0
  BY DEF Init
<1>2. PICK budget \in Budgets : ram = NewRam(budget)
  BY DEF Init, RamInit
<1>3. /\ NewModel \in Models /\ NoPoints \in PointTable
      /\ PointsOK(NewModel, NoPoints) /\ PointsOrdered(NoPoints)
      /\ SInv(NewRam(budget))
  BY FreshOK
<1>4. PointsInv
  BY <1>1, <1>3, Zenon DEF PointsInv
<1>5. SInv(ram)
  BY <1>2, <1>3, Zenon
<1>6. StoresInv /\ CountInv
  BY <1>1, <1>5, TurnConstants DEF StoresInv, CountInv
<1>7. turn \in TurnRecords /\ turn.pc = "idle"
  BY <1>1, IdleOK
<1>8. PcInv /\ LiveInv
  BY <1>7 DEF PcInv, LiveInv, Running, At
<1> QED
  BY <1>1, <1>3, <1>4, <1>6, <1>7, <1>8 DEF TurnInv

\* A step that changes nothing.
LEMMA StutterTurn ==
  ASSUME TurnInv, UNCHANGED vars
  PROVE  TurnInv'
BY Zenon DEF TurnInv, StoresInv, CountInv, PointsInv, PcInv, LiveInv, Running, At, HeldTokens,
  History, vars

\* Every step keeps the invariant.
LEMMA NextTurn == TurnInv /\ [Next]_vars => TurnInv'
<1> SUFFICES ASSUME TurnInv, [Next]_vars PROVE TurnInv'
  OBVIOUS
<1>1. CASE \E prompt \in Prompts, b \in Boundaries : Start(prompt, b)
  BY <1>1, StartOK
<1>2. CASE Reuse
  <2>1. CASE Rewind
    BY <2>1, RewindStep
  <2>2. CASE RewindFails
    BY <2>2, RewindFailsStep
  <2>3. CASE ResetFails
    BY <2>3, ResetFailsStep
  <2>4. ASSUME NEW found \in ColdHits \cup {0},
               StartAfresh(found) \/ Restore(found) \/ RestoreFails(found)
        PROVE  TurnInv'
    BY <2>4, StartAfreshStep, RestoreStep, RestoreFailsStep
  <2> QED
    BY <1>2, <2>1, <2>2, <2>3, <2>4 DEF Reuse
<1>3. CASE Generate
  <2>1. CASE Prefill \/ PrefillFails
    BY <2>1, PrefillStep, PrefillFailsStep
  <2>2. CASE SaveBoundary \/ SavePeriodic
    BY <2>2, SaveBoundaryStep, SavePeriodicStep
  <2>3. ASSUME NEW t \in Tokens, Sample(t) \/ SampleStop(t) \/ DecodeFails(t)
        PROVE  TurnInv'
    BY <2>3, SampleStep, SampleStopStep, DecodeFailsStep
  <2>4. CASE Stop \/ Finish
    BY <2>4, StopStep, FinishStep
  <2> QED
    BY <1>3, <2>1, <2>2, <2>3, <2>4 DEF Generate
<1>4. CASE Panic
  BY <1>4, PanicStep
<1>5. CASE Restart
  BY <1>5, RestartStep
<1>6. CASE UNCHANGED vars
  BY <1>6, StutterTurn
<1> QED
  BY <1>1, <1>2, <1>3, <1>4, <1>5, <1>6 DEF Next

\* The invariant holds throughout.
THEOREM TurnInvariant == Spec => []TurnInv
BY InitTurn, NextTurn, PTL DEF Spec

(***************************************************************************)
(* Every variable keeps its type, the position never passes the end of the *)
(* context, and the RAM tier stays a tier (run_turn, snapshot/turn.rs).    *)
(***************************************************************************)
THEOREM TurnTypeCorrect == Spec => []TurnTypeOK
<1>1. TurnInv => TurnTypeOK
  BY DEF TurnInv, TurnTypeOK, Models, PointsInv, PointTable, PointRecords, Points, StoresInv,
     SInv, CountInv, TurnRecords, Pcs
<1> QED
  BY <1>1, TurnInvariant, PTL

(***************************************************************************)
(* A running turn works on the exact state of its own tokens, whichever    *)
(* tier it resumed from and whatever failed before it: for every prompt,   *)
(* split of the layout, budget and number of failures.                     *)
(***************************************************************************)
THEOREM TurnCacheExact == Spec => []CacheIsExact
<1>1. TurnInv => CacheIsExact
  BY DEF TurnInv, LiveInv, CacheIsExact, HeldTokens
<1> QED
  BY <1>1, TurnInvariant, PTL

(***************************************************************************)
(* A matchable rewind point restores the state of its prefix over the rows *)
(* as they are at any moment (cache/rewind.rs:17-23).                      *)
(***************************************************************************)
THEOREM TurnPointsExact == Spec => []PointsAreExact
<1>1. TurnInv => PointsAreExact
  BY DEF TurnInv, PointsInv, PointsOK, PointOK, PointsAreExact
<1> QED
  BY <1>1, TurnInvariant, PTL

-----------------------------------------------------------------------------
(***************************************************************************)
(* The window base moves by whole windows only, broken calls included.     *)
(***************************************************************************)
OnGrid(b) == \E k \in Nat : b = Sink + k * Window

GridInv == OnGrid(model.base) /\ \A s \in RewindSlots : OnGrid(points[s].base)

LEMMA GridSteps ==
  /\ OnGrid(Sink)
  /\ \A b : OnGrid(b) => OnGrid(b + Window) /\ b \in Nat
  /\ \A b \in Nat : (b - Sink) % Window = 0 /\ b >= Sink <=> OnGrid(b)
<1>1. Sink \in Nat /\ Window \in Nat \ {0}
  BY ModelConstants
<1>2. OnGrid(Sink)
  <2>1. Sink = Sink + 0 * Window
    BY <1>1
  <2> QED
    BY <2>1 DEF OnGrid
<1>3. ASSUME NEW b, OnGrid(b)
      PROVE  OnGrid(b + Window) /\ b \in Nat
  <2>1. PICK k \in Nat : b = Sink + k * Window
    BY <1>3 DEF OnGrid
  <2>2. k * Window \in Nat /\ (k + 1) * Window = k * Window + Window
    BY <1>1
  <2>3. b + Window = Sink + (k + 1) * Window
    BY <1>1, <2>1, <2>2
  <2> QED
    BY <1>1, <2>1, <2>2, <2>3 DEF OnGrid
<1>4. ASSUME NEW b \in Nat
      PROVE  (b - Sink) % Window = 0 /\ b >= Sink <=> OnGrid(b)
  <2>1. ASSUME (b - Sink) % Window = 0, b >= Sink
        PROVE  OnGrid(b)
    <3> DEFINE k == (b - Sink) \div Window
    <3>1. k \in Nat /\ b - Sink = k * Window
      BY <1>1, <2>1
    <3> HIDE DEF k
    <3>2. b = Sink + k * Window
      BY <1>1, <3>1
    <3> QED
      BY <3>1, <3>2 DEF OnGrid
  <2>2. ASSUME NEW k \in Nat, b = Sink + k * Window
        PROVE  (b - Sink) % Window = 0 /\ b >= Sink
    <3>1. b - Sink = k * Window /\ k * Window \in Nat
      BY <1>1, <2>2
    <3>2. (k * Window) % Window = 0
      BY <1>1
    <3> QED
      BY <1>1, <2>2, <3>1, <3>2
  <2> QED
    BY <2>1, <2>2 DEF OnGrid
<1> QED
  BY <1>2, <1>3, <1>4

\* A forward pass, broken or not, moves the base by nothing or by one window.
LEMMA ForwardOnGrid ==
  ASSUME OnGrid(model.base), model \in Models, NEW t \in Tokens,
         NEW m \in ForwardBroken(model, t) \cup {Forward(model, t)}
  PROVE  OnGrid(m.base)
<1>1. Forward(model, t).base \in {model.base, model.base + Window}
  BY DEF Forward, AppendRow, Evict, Models
<1>2. m.base \in {model.base, Forward(model, t).base}
  BY DEF ForwardBroken, Scribbled, Forward, AppendRow, Evict, Models
<1> QED
  BY <1>1, <1>2, GridSteps

\* A restore, broken or not, takes the base of a captured state.
LEMMA RestoreOnGrid ==
  ASSUME NEW m \in Models, OnGrid(m.base), NEW p \in TokenSeqs, NEW b \in BasesAt(Len(p)),
         NEW r \in RestoreBroken(m, p, b) \cup {RestoreModel(m, p, b)}
  PROVE  OnGrid(r.base)
<1>1. OnGrid(b)
  BY GridSteps, ModelConstants DEF BasesAt
<1> DEFINE w == RestoreModel(m, p, b)
<1>2. w \in Models /\ w.base = b
  BY RestoreOK DEF RestoreModel
<1>3. r \in {[m EXCEPT !.gdn = Garbage], [w EXCEPT !.gdn = Garbage, !.pos = m.pos], w}
  BY DEF RestoreBroken
<1> HIDE DEF w
<1> QED
  BY <1>1, <1>2, <1>3 DEF Models

\* What a step may do to the two points: no base but the model's is new.
PointsFromGrid(r) ==
  \A s \in RewindSlots : r[s].base = Sink \/ r[s].base = model.base
                         \/ r[s].base = points[s].base

LEMMA SavedFromGrid ==
  ASSUME points \in PointTable
  PROVE  /\ \A slot \in RewindSlots : \A ids :
              PointsFromGrid(SavePoint(points, slot, model, ids))
         /\ \A slot \in RewindSlots : PointsFromGrid(SavePointBroken(points, slot))
         /\ PointsFromGrid(InvalidateAll(points))
         /\ \A n \in Nat : PointsFromGrid(InvalidateAbove(points, n))
         /\ PointsFromGrid(NoPoints)
         /\ PointsFromGrid(points)
<1>1. \A slot \in RewindSlots : \A ids :
        PointsFromGrid(SavePoint(points, slot, model, ids))
  BY DEF PointsFromGrid, SavePoint, PointTable
<1>2. \A slot \in RewindSlots : PointsFromGrid(SavePointBroken(points, slot))
  BY DEF PointsFromGrid, SavePointBroken, NoPoint, PointTable
<1>3. PointsFromGrid(InvalidateAll(points)) /\ PointsFromGrid(NoPoints) /\ PointsFromGrid(points)
  BY DEF PointsFromGrid, InvalidateAll, NoPoints, NoPoint, PointTable, PointRecords
<1>4. \A n \in Nat : PointsFromGrid(InvalidateAbove(points, n))
  BY DEF PointsFromGrid, InvalidateAbove, PointTable, PointRecords
<1> QED
  BY <1>1, <1>2, <1>3, <1>4

LEMMA GridStep ==
  ASSUME TurnInv, GridInv, [Next]_vars
  PROVE  GridInv'
<1>1. /\ model \in Models /\ points \in PointTable
      /\ OnGrid(model.base) /\ OnGrid(Sink)
      /\ \A s \in RewindSlots : OnGrid(points[s].base)
  BY GridSteps DEF TurnInv, PointsInv, GridInv
<1>2. SUFFICES OnGrid(model'.base) /\ PointsFromGrid(points')
  BY <1>1 DEF GridInv, PointsFromGrid
<1>3. CASE Reuse
  <2>1. CASE Rewind
    <3>1. Point.base \in {points[s].base : s \in RewindSlots} /\ model'.base = Point.base
      BY <1>1, <2>1, PointMatches DEF Rewind, RewindModel, Models
    <3>2. Len(Point.prefix) \in Nat
      BY <2>1, PointMatches DEF Rewind
    <3> QED
      BY <1>1, <2>1, <3>1, <3>2, SavedFromGrid DEF Rewind
  <2>2. CASE RewindFails
    <3>1. Point.base \in {points[s].base : s \in RewindSlots}
      BY <1>1, <2>2, PointMatches DEF RewindFails
    <3>2. model'.base \in {model.base, Point.base}
      BY <1>1, <2>2 DEF RewindFails, RewindBroken, RewindModel, Models
    <3> QED
      BY <1>1, <2>2, <3>1, <3>2, SavedFromGrid DEF RewindFails
  <2>3. CASE ResetFails
    BY <1>1, <2>3, SavedFromGrid DEF ResetFails, ResetBroken, Models
  <2>4. ASSUME NEW found \in ColdHits \cup {0},
               StartAfresh(found) \/ Restore(found) \/ RestoreFails(found)
        PROVE  OnGrid(model'.base) /\ PointsFromGrid(points')
    <3>1. PointsFromGrid(points')
      BY <1>1, <2>4, SavedFromGrid DEF StartAfresh, Restore, RestoreFails, Missed
    <3>2. OnGrid(ResetModel(model).base) /\ ResetModel(model) \in Models
      BY <1>1, ResetOK DEF ResetModel, Models
    <3>3. CASE StartAfresh(found)
      BY <3>1, <3>2, <3>3 DEF StartAfresh
    <3>4. CASE Restore(found) \/ RestoreFails(found)
      <4> DEFINE n == HitAt(found)
                 p == SubSeq(turn.prompt, 1, n)
      <4>1. p \in TokenSeqs /\ Len(p) = n
        BY <2>4, <3>4, PromptPrefix, MissedOK DEF Restore, RestoreFails
      <4>2. PICK b \in BasesAt(n) :
              model' \in RestoreBroken(ResetModel(model), p, b)
                         \cup {RestoreModel(ResetModel(model), p, b)}
        BY <3>4 DEF Restore, RestoreFails
      <4> QED
        BY <3>1, <3>2, <4>1, <4>2, RestoreOnGrid
    <3> QED
      BY <2>4, <3>3, <3>4
  <2> QED
    BY <1>3, <2>1, <2>2, <2>3, <2>4 DEF Reuse
<1>4. CASE Generate
  <2>1. CASE Prefill \/ PrefillFails
    <3>1. NextToken \in Tokens
      BY <2>1, NextTokenOK DEF Prefill, PrefillFails
    <3> QED
      BY <1>1, <2>1, <3>1, ForwardOnGrid, SavedFromGrid DEF Prefill, PrefillFails
  <2>2. ASSUME NEW t \in Tokens, Sample(t) \/ SampleStop(t) \/ DecodeFails(t)
        PROVE  OnGrid(model'.base) /\ PointsFromGrid(points')
    <3>1. points' = points
      BY <2>2 DEF Sample, SampleStop, DecodeFails
    <3>2. model' = model \/ model' \in ForwardBroken(model, t) \cup {Forward(model, t)}
      BY <2>2 DEF Sample, SampleStop, DecodeFails
    <3> QED
      BY <1>1, <3>1, <3>2, ForwardOnGrid, SavedFromGrid
  <2>3. CASE SaveBoundary \/ SavePeriodic \/ Stop \/ Finish
    <3>1. model' = model
      BY <2>3 DEF SaveBoundary, SavePeriodic, Stop, Finish
    <3>2. \/ points' = points
          \/ \E slot \in RewindSlots, ids \in {SubSeq(turn.prompt, 1, model.pos), HeldTokens} :
               points' \in {SavePoint(points, slot, model, ids), SavePointBroken(points, slot)}
      BY <2>3 DEF SaveBoundary, SavePeriodic, Stop, Finish, Saved, NotSaved, RewindSlots
    <3> QED
      BY <1>1, <3>1, <3>2, SavedFromGrid
  <2> QED
    BY <1>4, <2>1, <2>2, <2>3 DEF Generate
<1>5. CASE Panic
  BY <1>1, <1>5, SavedFromGrid DEF Panic, ResetModel, ResetBroken, Models
<1>6. CASE Restart
  BY <1>1, <1>6, SavedFromGrid DEF Restart, NewModel
<1>7. CASE UNCHANGED vars
  BY <1>1, <1>7, SavedFromGrid DEF vars
<1>8. ASSUME NEW prompt \in Prompts, NEW b \in Boundaries, Start(prompt, b)
      PROVE  OnGrid(model'.base) /\ PointsFromGrid(points')
  BY <1>1, <1>8, SavedFromGrid DEF Start
<1> QED
  BY <1>3, <1>4, <1>5, <1>6, <1>7, <1>8 DEF Next

(***************************************************************************)
(* What is captured for the store rebuilds, in an empty cache, the state it*)
(* was captured in: the window base included, since it is the one every    *)
(* sequence of that length has.                                            *)
(***************************************************************************)
LEMMA CaptureOK ==
  ASSUME TurnInv, GridInv
  PROVE  CapturesAreExact
<1> SUFFICES ASSUME turn.pc \in {"boundary", "finish"}
             PROVE  LET ids      == IF At("boundary") THEN SubSeq(turn.prompt, 1, model.pos)
                                    ELSE HeldTokens
                        restored == RestoreModel(NewModel, ids, model.base)
                    IN  /\ Len(ids) = model.pos
                        /\ model.base \in BasesAt(model.pos)
                        /\ restored.gdn = model.gdn
                        /\ \A i \in 0..(model.pos - 1) : Row(restored, i) = Row(model, i)
  BY DEF CapturesAreExact
<1>1. Running /\ ~ At("idle")
  BY DEF Running, At
<1>2. /\ model \in Models /\ HeldTokens \in Histories /\ Len(HeldTokens) = model.pos
      /\ Exact(model, HeldTokens) /\ Shaped(model.base, model.pos)
  BY <1>1, RunningOK
<1>3. At("boundary") => SubSeq(turn.prompt, 1, model.pos) = HeldTokens
  <2> SUFFICES ASSUME At("boundary")
               PROVE  SubSeq(turn.prompt, 1, model.pos) = HeldTokens
    OBVIOUS
  <2>1. turn.out = <<>>
    BY BoundaryOK
  <2> QED
    BY <1>1, <2>1, HeldOK DEF HeldTokens
<1>4. /\ model.pos \in 0..MaxLen /\ model.base \in Nat /\ HeldTokens \in Seq(Tokens)
      /\ model.pos \in Nat
  BY <1>2, ModelConstants, HistoryIsSeq DEF Models
<1>5. model.base \in BasesAt(model.pos)
  <2>1. (model.base - Sink) % Window = 0 /\ model.base >= Sink
    BY <1>4, GridSteps DEF GridInv
  <2>2. model.base <= Sink + MaxLen
    BY <1>2, <1>4, ModelConstants DEF Shaped
  <2>3. IF model.pos <= Sink THEN model.base = Sink
        ELSE model.base < model.pos /\ model.pos <= model.base + Window
    BY <1>2 DEF Shaped
  <2>4. model.base \in Sink..(Sink + MaxLen)
    BY <1>4, <2>1, <2>2, ModelConstants
  <2> QED
    BY <2>1, <2>3, <2>4 DEF BasesAt
<1> DEFINE r == RestoreModel(NewModel, HeldTokens, model.base)
<1>6. /\ r.gdn = HeldTokens /\ r.base = model.base
      /\ \A i \in 0..(model.pos - 1) : Row(r, i) = SubSeq(HeldTokens, 1, i + 1)
  <2>1. r.gdn = HeldTokens /\ r.base = model.base
    BY DEF RestoreModel
  <2>2. ASSUME NEW i \in 0..(model.pos - 1)
        PROVE  Row(r, i) = SubSeq(HeldTokens, 1, i + 1)
    <3>1. i \in Positions /\ i \in Nat /\ i < Len(HeldTokens)
      BY <1>2, <1>4, ModelConstants DEF Positions
    <3>2. CASE i < model.base
      BY <1>4, <2>1, <3>1, <3>2 DEF RestoreModel, Row
    <3>3. CASE ~ (i < model.base)
      <4>1. i - model.base \in WinSlots /\ model.base + (i - model.base) = i
        BY <1>2, <1>4, <2>2, <3>1, <3>3, ModelConstants, SMTT(30) DEF Shaped, WinSlots
      <4>2. Row(r, i) = r.win[i - model.base]
        BY <2>1, <3>3 DEF Row
      <4>3. r.win[i - model.base] = SubSeq(HeldTokens, 1, i + 1)
        BY <3>1, <4>1 DEF RestoreModel
      <4> QED
        BY <4>2, <4>3
    <3> QED
      BY <3>2, <3>3
  <2> QED
    BY <2>1, <2>2
<1>7. /\ r.gdn = model.gdn
      /\ \A i \in 0..(model.pos - 1) : Row(r, i) = Row(model, i)
  <2> HIDE DEF r
  <2> QED
    BY <1>2, <1>6 DEF Exact
<1> QED
  BY <1>2, <1>3, <1>5, <1>7

(***************************************************************************)
(* What is captured for the stores, on the grid, at the boundary or at the *)
(* end of a turn, is the whole state of the tokens it is stored under: put *)
(* into an empty cache it gives every row and the recurrent state again    *)
(* (snapshot/turn.rs).                                                     *)
(***************************************************************************)
THEOREM TurnCapturesExact == Spec => []CapturesAreExact
<1>1. Init => GridInv
  BY GridSteps DEF Init, GridInv, NewModel, NoPoints, NoPoint
<1> QED
  BY <1>1, GridStep, CaptureOK, TurnInvariant, PTL DEF Spec

-----------------------------------------------------------------------------
(***************************************************************************)
(* The stable boundary stays matchable: from the moment the position has   *)
(* passed it -- saved on the way, or rewound to -- some point is that of   *)
(* its prefix, because nothing in the turn drops or replaces it but a save *)
(* at the boundary itself.                                                 *)
(***************************************************************************)
BoundaryHeld ==
  \E s \in RewindSlots :
    Valid(points, s) /\ points[s].prefix = SubSeq(turn.prompt, 1, turn.boundary)

PastBoundary ==
  \/ turn.pc \in {"decode", "finish"}
  \/ At("prefill") /\ model.pos >= turn.boundary
  \/ At("boundary") /\ model.pos > turn.boundary

BoundaryInv ==
  /\ Running => turn.already <= model.pos
  /\ failures = 0 /\ PassedBoundary /\ PastBoundary => BoundaryHeld

\* A failure, or a turn that is over, leaves nothing to show.
LEMMA BoundaryIdle ==
  ASSUME TurnInv, turn' = Idle
  PROVE  BoundaryInv'
BY DEF BoundaryInv, Idle, Running, PastBoundary, At

LEMMA BoundaryTypes ==
  ASSUME TurnInv
  PROVE  /\ turn \in TurnRecords /\ turn.already \in Nat /\ turn.boundary \in Nat
         /\ failures \in Nat /\ points \in PointTable /\ model.pos \in Nat
BY ModelConstants DEF TurnInv, TurnRecords, CountInv, PointsInv, Models

\* A fault rules the promise out.
LEMMA BoundaryFault ==
  ASSUME TurnInv, Fault
  PROVE  failures' # 0
BY BoundaryTypes DEF Fault

\* The reuse step: the position is where the turn resumes.
LEMMA BoundaryRewind ==
  ASSUME TurnInv, Rewind
  PROVE  BoundaryInv'
<1> DEFINE s == MatchingSlot(points, turn.prompt)
           n == Len(Point.prefix)
<1>1. /\ s \in RewindSlots /\ Valid(points, s) /\ Point = points[s]
      /\ n \in Nat /\ n < Len(turn.prompt) /\ Point.prefix = SubSeq(turn.prompt, 1, n)
  BY PointMatches DEF Rewind
<1>2. points' = InvalidateAbove(points, n) /\ points \in PointTable
  BY BoundaryTypes DEF Rewind
<1>3. /\ turn'.already = n /\ turn'.prompt = turn.prompt /\ turn'.boundary = turn.boundary
      /\ turn'.pc = "prefill"
  BY BoundaryTypes DEF Rewind, TurnRecords
<1>4. model'.pos = n
  BY DEF Rewind, RewindModel, TurnInv, Models
<1> HIDE DEF s, n
<1>5. points'[s] = points[s]
  BY <1>1, <1>2 DEF InvalidateAbove, n
<1>6. Valid(points', s) /\ points'[s].prefix = SubSeq(turn.prompt, 1, n)
  BY <1>1, <1>5 DEF Valid
<1>7. ASSUME PassedBoundary', PastBoundary'
      PROVE  BoundaryHeld'
  <2>1. turn'.boundary \in Nat
    BY <1>3, BoundaryTypes
  <2>2. turn'.boundary = n
    BY <1>1, <1>3, <1>4, <1>7, <2>1 DEF PassedBoundary, PastBoundary, At
  <2> QED
    BY <1>1, <1>3, <1>6, <2>2 DEF BoundaryHeld
<1>8. turn'.already <= model'.pos
  BY <1>1, <1>3, <1>4
<1> QED
  BY <1>7, <1>8 DEF BoundaryInv

LEMMA BoundaryAfresh ==
  ASSUME TurnInv, NEW found \in ColdHits \cup {0}, StartAfresh(found) \/ Restore(found)
  PROVE  BoundaryInv'
<1>1. /\ HitAt(found) \in Nat /\ turn.already = 0 /\ Tier(found) # "Gpu"
      /\ turn.prompt \in TokenSeqs /\ HitAt(found) < Len(turn.prompt)
      /\ Len(turn.prompt) \in Nat
  BY MissedOK, TokenSeqIsSeq DEF StartAfresh, Restore
<1>2. /\ turn'.pc = "prefill" /\ turn'.boundary \in Nat
      /\ turn'.already \in Nat /\ model'.pos = turn'.already
      /\ turn'.already = 0 \/ turn'.source # "Gpu"
  <2>1. CASE StartAfresh(found)
    BY <1>1, <2>1, BoundaryTypes DEF StartAfresh, Go, ResetModel, TurnRecords, TurnInv, Models
  <2>2. CASE Restore(found)
    <3>1. HitAt(found) \in 1..Len(turn.prompt)
      BY <1>1, <2>2 DEF Restore
    <3>2. Len(SubSeq(turn.prompt, 1, HitAt(found))) = HitAt(found)
      BY <1>1, <3>1, PromptPrefix
    <3>3. model'.pos = HitAt(found)
      <4>1. PICK base \in BasesAt(HitAt(found)) :
              model' = RestoreModel(ResetModel(model), SubSeq(turn.prompt, 1, HitAt(found)), base)
        BY <2>2 DEF Restore
      <4>2. model'.pos = Len(SubSeq(turn.prompt, 1, HitAt(found)))
        BY <4>1 DEF RestoreModel
      <4> QED
        BY <3>2, <4>2
    <3>4. turn' = [turn EXCEPT !.pc = "prefill", !.already = HitAt(found),
                               !.source = Tier(found)]
      BY <2>2 DEF Restore
    <3> QED
      BY <1>1, <3>3, <3>4, BoundaryTypes DEF TurnRecords
  <2> QED
    BY <2>1, <2>2
<1>3. ~ (PassedBoundary' /\ PastBoundary')
  <2> SUFFICES ASSUME PassedBoundary', PastBoundary'
               PROVE  FALSE
    OBVIOUS
  <2>1. turn'.already < turn'.boundary
    BY <1>2 DEF PassedBoundary
  <2> QED
    BY <1>2, <2>1 DEF PastBoundary, At
<1> QED
  BY <1>2, <1>3 DEF BoundaryInv

\* Prefill stops at the boundary.
LEMMA BoundaryPrefill ==
  ASSUME TurnInv, BoundaryInv, Prefill
  PROVE  BoundaryInv'
<1>1. /\ turn.already \in Nat /\ turn.boundary \in Nat /\ model.pos \in Nat
      /\ turn.already <= model.pos
  BY BoundaryTypes DEF Prefill, BoundaryInv, Running, At
<1>2. model'.pos = model.pos + 1
  BY NextTokenOK, ForwardOK DEF Prefill, TurnInv
<1>3. /\ turn'.already = turn.already /\ turn'.prompt = turn.prompt
      /\ turn'.boundary = turn.boundary /\ turn'.source = turn.source
      /\ turn'.pc = IF CutAt(model.pos + 1) THEN "boundary" ELSE "prefill"
  BY BoundaryTypes DEF Prefill, Go, TurnRecords
<1>4. ASSUME failures' = 0, PassedBoundary', PastBoundary'
      PROVE  BoundaryHeld'
  <2>1. PassedBoundary /\ failures = 0
    BY <1>3, <1>4 DEF PassedBoundary, Prefill
  <2>2. model.pos >= turn.boundary
    <3> SUFFICES ASSUME model.pos < turn.boundary
                 PROVE  FALSE
      BY <1>1
    <3>1. model.pos + 1 = turn.boundary
      BY <1>1, <1>2, <1>3, <1>4 DEF PastBoundary, At
    <3>2. turn.already < turn.boundary
      BY <1>1
    <3>3. CutAt(model.pos + 1)
      BY <3>1, <3>2 DEF CutAt
    <3> QED
      BY <1>1, <1>2, <1>3, <1>4, <3>1, <3>3 DEF PastBoundary, At
  <2>3. BoundaryHeld
    BY <2>1, <2>2 DEF BoundaryInv, PastBoundary, Prefill
  <2> QED
    BY <1>3, <2>3 DEF BoundaryHeld, Prefill, Valid
<1>5. turn'.already <= model'.pos
  BY <1>1, <1>2, <1>3
<1> QED
  BY <1>4, <1>5 DEF BoundaryInv

\* The cut at the boundary saves it, or counts a failure.
LEMMA BoundarySaved ==
  ASSUME TurnInv, BoundaryInv, SaveBoundary
  PROVE  BoundaryInv'
<1>1. /\ Running /\ model.pos \in Nat /\ model.pos = turn.boundary
      /\ points \in PointTable /\ Len(SubSeq(turn.prompt, 1, model.pos)) = model.pos
      /\ SubSeq(turn.prompt, 1, model.pos) # Invalid
  <2>1. /\ Running /\ SubSeq(turn.prompt, 1, model.pos) = HeldTokens
        /\ SubSeq(turn.prompt, 1, model.pos) \in TokenSeqs
    BY BoundaryOK DEF SaveBoundary
  <2> QED
    BY <2>1, RunningOK, ModelConstants DEF SaveBoundary, Histories
<1>2. /\ turn'.prompt = turn.prompt /\ turn'.boundary = turn.boundary
      /\ turn'.already = turn.already
  BY BoundaryTypes DEF SaveBoundary, Go, TurnRecords
<1>3. turn'.already <= model'.pos
  BY <1>1, <1>2 DEF BoundaryInv, SaveBoundary
<1>4. ASSUME failures' = 0
      PROVE  BoundaryHeld'
  <2>1. ~ Fault
    BY <1>4, BoundaryFault
  <2>2. points' = SavePoint(points, "StableBoundary", model,
                            SubSeq(turn.prompt, 1, model.pos))
    BY <2>1 DEF SaveBoundary, Saved, NotSaved
  <2>3. points'["StableBoundary"].prefix = SubSeq(turn.prompt, 1, turn.boundary)
    BY <1>1, <2>2 DEF SavePoint, PointTable, RewindSlots
  <2> QED
    BY <1>1, <1>2, <2>3 DEF BoundaryHeld, Valid, RewindSlots
<1> QED
  BY <1>3, <1>4 DEF BoundaryInv

\* The other steps of a running turn leave the points alone.
LEMMA BoundaryKept ==
  ASSUME TurnInv, BoundaryInv, Running, points' = points, failures' = 0 => failures = 0,
         turn'.prompt = turn.prompt, turn'.boundary = turn.boundary,
         turn'.already = turn.already, turn'.source = turn.source,
         model'.pos \in Nat, model'.pos >= model.pos, PastBoundary' => PastBoundary
  PROVE  BoundaryInv'
<1>1. turn.already <= model.pos /\ turn.already \in Nat /\ model.pos \in Nat
  BY BoundaryTypes DEF BoundaryInv
<1>2. turn'.already <= model'.pos
  BY <1>1
<1>3. PassedBoundary' => PassedBoundary
  BY DEF PassedBoundary
<1>4. BoundaryHeld => BoundaryHeld'
  BY DEF BoundaryHeld, Valid
<1> QED
  BY <1>2, <1>3, <1>4 DEF BoundaryInv

\* A cut elsewhere on the grid keeps the promise.
LEMMA BoundaryPeriodic ==
  ASSUME TurnInv, BoundaryInv, SavePeriodic
  PROVE  BoundaryInv'
<1>1. /\ Running /\ 1 <= model.pos /\ model.pos <= Len(turn.prompt)
      /\ Len(turn.prompt) \in Nat /\ turn.boundary \in Nat /\ model.pos \in Nat
  BY BoundaryOK, RunningOK, BoundaryTypes DEF SavePeriodic
<1>2. /\ turn'.pc = AfterCut /\ turn'.prompt = turn.prompt /\ turn'.source = turn.source
      /\ turn'.boundary = turn.boundary /\ turn'.already = turn.already
  BY BoundaryTypes DEF SavePeriodic, Go, TurnRecords
<1>3. failures' = 0 => failures = 0
  BY BoundaryTypes DEF SavePeriodic, Fault
<1>4. points' = points /\ model' = model
  BY DEF SavePeriodic
<1>5. CASE model.pos > turn.boundary
  <2>1. PastBoundary
    BY <1>5 DEF PastBoundary, SavePeriodic
  <2> QED
    BY <1>1, <1>2, <1>3, <1>4, <2>1, BoundaryKept
<1>6. CASE ~ (model.pos > turn.boundary)
  <2>1. model.pos < turn.boundary
    BY <1>1, <1>6 DEF SavePeriodic
  <2>2. ~ (PassedBoundary' /\ PastBoundary')
    <3> SUFFICES ASSUME PassedBoundary', PastBoundary'
                 PROVE  FALSE
      OBVIOUS
    <3>1. turn.boundary < Len(turn.prompt)
      BY <1>1, <1>2 DEF PassedBoundary
    <3>2. turn'.pc = "prefill"
      BY <1>1, <1>2, <2>1, <3>1 DEF AfterCut
    <3> QED
      BY <1>2, <1>4, <2>1, <3>2, <1>1 DEF PastBoundary, At
  <2>3. turn'.already <= model'.pos
    BY <1>1, <1>2, <1>4 DEF BoundaryInv
  <2> QED
    BY <2>2, <2>3 DEF BoundaryInv
<1> QED
  BY <1>5, <1>6

\* Decoding: the prompt, and the boundary in it, is behind.
LEMMA BoundaryDecode ==
  ASSUME TurnInv, BoundaryInv, NEW t \in Tokens, Sample(t) \/ SampleStop(t) \/ Stop
  PROVE  BoundaryInv'
<1>1. At("decode") /\ Running /\ PastBoundary /\ points' = points /\ failures' = failures
  BY DEF Sample, SampleStop, Stop, At, Running, PastBoundary
<1>2. /\ turn'.prompt = turn.prompt /\ turn'.boundary = turn.boundary
      /\ turn'.already = turn.already /\ turn'.source = turn.source
  BY BoundaryTypes DEF Sample, SampleStop, Stop, Go, TurnRecords
<1>3. model'.pos \in Nat /\ model'.pos >= model.pos
  <2>1. CASE Sample(t)
    <3>1. model'.pos = model.pos + 1
      BY <2>1, ForwardOK DEF Sample, TurnInv
    <3> QED
      BY <3>1, BoundaryTypes
  <2>2. CASE SampleStop(t) \/ Stop
    BY <2>2, BoundaryTypes DEF SampleStop, Stop
  <2> QED
    BY <2>1, <2>2
<1> QED
  BY <1>1, <1>2, <1>3, BoundaryKept

LEMMA BoundaryStep ==
  ASSUME TurnInv, BoundaryInv, [Next]_vars
  PROVE  BoundaryInv'
<1>1. ASSUME turn' = Idle
      PROVE  BoundaryInv'
  BY <1>1, BoundaryIdle
<1>2. CASE Reuse
  <2>1. ASSUME NEW found \in ColdHits \cup {0},
               StartAfresh(found) \/ Restore(found) \/ RestoreFails(found)
        PROVE  BoundaryInv'
    BY <1>1, <2>1, BoundaryAfresh DEF RestoreFails, Abandon
  <2>2. CASE Rewind
    BY <2>2, BoundaryRewind
  <2>3. CASE RewindFails \/ ResetFails
    BY <1>1, <2>3 DEF RewindFails, ResetFails, Abandon
  <2> QED
    BY <1>2, <2>1, <2>2, <2>3 DEF Reuse
<1>3. CASE Generate
  <2>1. ASSUME NEW t \in Tokens, Sample(t) \/ SampleStop(t) \/ DecodeFails(t)
        PROVE  BoundaryInv'
    <3>1. DecodeFails(t) => turn' = Idle
      BY DEF DecodeFails, Abandon
    <3> QED
      BY <1>1, <2>1, <3>1, BoundaryDecode
  <2>2. CASE Prefill \/ SaveBoundary \/ SavePeriodic
    BY <2>2, BoundaryPrefill, BoundarySaved, BoundaryPeriodic
  <2>3. CASE PrefillFails \/ Finish
    BY <1>1, <2>3 DEF PrefillFails, Finish, Abandon
  <2>4. CASE Stop
    <3>1. /\ Running /\ PastBoundary /\ points' = points /\ failures' = failures
          /\ model' = model
      BY <2>4 DEF Stop, At, Running, PastBoundary
    <3>2. /\ turn'.prompt = turn.prompt /\ turn'.boundary = turn.boundary
          /\ turn'.already = turn.already /\ turn'.source = turn.source
      BY <2>4, BoundaryTypes DEF Stop, Go, TurnRecords
    <3> QED
      BY <3>1, <3>2, BoundaryKept, BoundaryTypes
  <2> QED
    BY <1>3, <2>1, <2>2, <2>3, <2>4 DEF Generate
<1>4. CASE Panic \/ Restart
  BY <1>1, <1>4 DEF Panic, Restart, Abandon
<1>5. ASSUME NEW prompt \in Prompts, NEW b \in Boundaries, Start(prompt, b)
      PROVE  BoundaryInv'
  BY <1>5 DEF Start, Idle, BoundaryInv, Running, PastBoundary, At
<1>6. CASE UNCHANGED vars
  BY <1>6 DEF vars, BoundaryInv, Running, PastBoundary, PassedBoundary, BoundaryHeld, At, Valid
<1> QED
  BY <1>2, <1>3, <1>4, <1>5, <1>6 DEF Next

\* One that goes on from the boundary by a token matches no longer point.
LEMMA BoundaryMatch ==
  ASSUME TurnInv, BoundaryInv
  PROVE  BoundaryStaysMatchable
<1> SUFFICES ASSUME At("finish"), failures = 0, PassedBoundary, NEW t \in Tokens
             PROVE  LET next == Append(SubSeq(turn.prompt, 1, turn.boundary), t) IN
                    /\ Matching(points, next) # {}
                    /\ Len(points[MatchingSlot(points, next)].prefix) = turn.boundary
  BY DEF BoundaryStaysMatchable
<1>1. BoundaryHeld
  BY DEF BoundaryInv, PastBoundary, At
<1>2. PICK s \in RewindSlots :
        Valid(points, s) /\ points[s].prefix = SubSeq(turn.prompt, 1, turn.boundary)
  BY <1>1 DEF BoundaryHeld
<1>3. /\ turn.prompt \in Seq(Tokens) /\ Len(turn.prompt) \in Nat
      /\ turn.boundary \in 0..Len(turn.prompt) /\ points \in PointTable
      /\ turn.boundary \in Nat
  <2>1. Running
    BY DEF Running, At
  <2> QED
    BY <2>1, RunningOK DEF PassedBoundary
<1> DEFINE p == SubSeq(turn.prompt, 1, turn.boundary)
           next == Append(p, t)
<1>4. p \in Seq(Tokens) /\ Len(p) = turn.boundary
  BY <1>3, Prefix
<1>5. Len(next) = turn.boundary + 1 /\ SubSeq(next, 1, turn.boundary) = p
  <2>1. SubSeq(p, 1, Len(p)) = p
    BY <1>4, Prefix
  <2> HIDE DEF p
  <2> QED
    BY <1>3, <1>4, <2>1, PrefixOfAppend
<1>6. s \in Matching(points, next)
  BY <1>2, <1>3, <1>4, <1>5 DEF Matching, IsStrictPrefixOf
<1>7. \A o \in RewindSlots : Valid(points, o) => Len(points[o].prefix) \in Nat
  BY <1>3, PointTypes
<1> DEFINE r == MatchingSlot(points, next)
<1>8. r \in Matching(points, next)
  BY <1>6, <1>7, MatchingSlotOK
<1>9. Len(points[r].prefix) >= Len(points[s].prefix)
  BY <1>6, <1>7, MatchingSlotOK DEF Matching
<1> HIDE DEF next, r
<1>10. Len(points[r].prefix) < turn.boundary + 1 /\ Len(points[r].prefix) \in Nat
  BY <1>5, <1>7, <1>8 DEF Matching, IsStrictPrefixOf
<1>11. Len(points[r].prefix) = turn.boundary
  BY <1>2, <1>3, <1>4, <1>9, <1>10
<1> QED
  BY <1>6, <1>11 DEF next, r

(***************************************************************************)
(* When a turn that went past its stable boundary ends with nothing having *)
(* failed, a request that goes on from the boundary is rewound to it.      *)
(***************************************************************************)
THEOREM TurnKeepsBoundary == Spec => []BoundaryStaysMatchable
<1>1. Init => BoundaryInv
  BY DEF Init, Idle, BoundaryInv, Running, PastBoundary, At
<1> QED
  BY <1>1, BoundaryStep, BoundaryMatch, TurnInvariant, PTL DEF Spec
=============================================================================
