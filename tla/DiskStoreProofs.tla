--------------------------- MODULE DiskStoreProofs ---------------------------
(***************************************************************************)
(* Proofs about the disk tier, for any prefixes, budgets, deaths and       *)
(* failures: an insertion brings the index under the budget, a lookup      *)
(* serves the longest readable prefix and nothing else, without deaths and *)
(* failures index.json and the directory are what the index says, and the  *)
(* directory is a store of exact prefixes that may forget.                 *)
(*                                                                         *)
(* The argument.  A readable file holds a prefix that has its name, and no *)
(* file has two entries, in memory or in index.json.  As long as nothing   *)
(* died or failed, the directory holds the files of the entries and, in    *)
(* the middle of an insertion, the one that is being written.              *)
(***************************************************************************)
EXTENDS DiskStore, SequenceTheorems, FiniteSetTheorems, WellFoundedInduction, TLAPS

-----------------------------------------------------------------------------
\* The least-number principle, for a set.
LEMMA Least ==
  ASSUME NEW T, T \subseteq Nat, T # {}
  PROVE  \E n \in T : \A m \in T : n <= m
<1>1. IsWellFoundedOn(OpToRel(<, Nat), Nat)
  BY NatLessThanWellFounded
<1>2. PICK n \in T : \A m \in T : <<m, n>> \notin OpToRel(<, Nat)
  BY <1>1, WFMin
<1>3. \A m \in T : ~ (m < n)
  BY <1>2 DEF OpToRel
<1> QED
  BY <1>3

\* Iterating a step n times: the values after each of them are a function.
Iterates(f, n, first, step) ==
  f[0] = first /\ \A i \in 1..n : f[i] = step[<<i, f[i - 1]>>]

LEMMA IterationExists ==
  ASSUME NEW S, NEW first \in S, NEW n \in Nat, NEW step \in [(1..n) \X S -> S]
  PROVE  \E f \in [0..n -> S] : Iterates(f, n, first, step)
<1> DEFINE T == {m \in 0..n : ~ \E f \in [0..m -> S] : Iterates(f, m, first, step)}
<1>1. 0 \notin T
  <2> DEFINE f == [i \in 0..0 |-> first]
  <2>1. f \in [0..0 -> S] /\ f[0] = first
    OBVIOUS
  <2> HIDE DEF f
  <2> QED
    BY <2>1 DEF Iterates
<1>2. ASSUME T # {} PROVE FALSE
  <2>1. PICK m \in T : \A k \in T : m <= k
    <3>1. T \subseteq Nat
      OBVIOUS
    <3> HIDE DEF T
    <3> QED
      BY <1>2, <3>1, Least
  <2>2. m \in 1..n
    <3>1. m \in 0..n
      OBVIOUS
    <3> HIDE DEF T
    <3> QED
      BY <1>1, <3>1
  <2>3. m - 1 \in 0..n /\ m - 1 \notin T
    <3> HIDE DEF T
    <3>1. m - 1 \in 0..n /\ ~ (m <= m - 1)
      BY <2>2
    <3> QED
      BY <2>1, <3>1
  <2>4. PICK f \in [0..(m - 1) -> S] : Iterates(f, m - 1, first, step)
    BY <2>3
  <2> DEFINE last == step[<<m, f[m - 1]>>]
             g == [i \in 0..m |-> IF i = m THEN last ELSE f[i]]
  <2>5. last \in S
    BY <2>2
  <2> HIDE DEF last
  <2>6. \A i \in 0..m : i # m => i \in 0..(m - 1)
    BY <2>2
  <2>7. g \in [0..m -> S]
    BY <2>5, <2>6
  <2>8. ASSUME NEW i \in 1..m
        PROVE  g[i] = step[<<i, g[i - 1]>>]
    <3>1. i - 1 \in 0..m /\ i - 1 # m /\ g[i - 1] = f[i - 1]
      BY <2>2
    <3>2. CASE i = m
      <4>1. g[i] = last
        BY <3>2
      <4> HIDE DEF g
      <4> QED
        BY <3>1, <3>2, <4>1 DEF last
    <3>3. CASE i # m
      <4>1. i \in 1..(m - 1) /\ g[i] = f[i]
        BY <2>2, <3>3
      <4> HIDE DEF g
      <4> QED
        BY <2>4, <3>1, <4>1 DEF Iterates
    <3> QED
      BY <3>2, <3>3
  <2>9. g[0] = first
    BY <2>2, <2>4 DEF Iterates
  <2> HIDE DEF g
  <2>10. Iterates(g, m, first, step)
    BY <2>8, <2>9 DEF Iterates
  <2> QED
    BY <2>7, <2>10
<1>3. n \in 0..n /\ n \notin T
  <2> HIDE DEF T
  <2> QED
    BY <1>2
<1> QED
  BY <1>3

-----------------------------------------------------------------------------
\* What is left of a list without the entries of a file: the others, each once.
Distinct(es) ==
  \A i, j \in 1..Len(es) : NameOf(es[i]) = NameOf(es[j]) => i = j

Kept(f, es, name) ==
  f = [n \in 0..Len(es) |->
         IF n = 0 THEN <<>>
         ELSE IF NameOf(es[n]) = name THEN f[n - 1] ELSE Append(f[n - 1], es[n])]

LEMMA KeptExists ==
  ASSUME NEW es \in Seq(Entries), NEW name
  PROVE  \E f \in [0..Len(es) -> Seq(Entries)] : Kept(f, es, name)
<1> DEFINE n == Len(es)
           S == Seq(Entries)
           step == [p \in (1..n) \X S |->
                      IF NameOf(es[p[1]]) = name THEN p[2] ELSE Append(p[2], es[p[1]])]
<1>1. n \in Nat /\ \A i \in 1..n : es[i] \in Entries
  OBVIOUS
<1>2. <<>> \in S /\ \A s \in S, e \in Entries : Append(s, e) \in S
  BY EmptySeq, AppendProperties
<1> HIDE DEF n, S
<1>3. step \in [(1..n) \X S -> S]
  <2>1. ASSUME NEW p \in (1..n) \X S
        PROVE  (IF NameOf(es[p[1]]) = name THEN p[2] ELSE Append(p[2], es[p[1]])) \in S
    <3>1. p[1] \in 1..n /\ p[2] \in S
      OBVIOUS
    <3>2. es[p[1]] \in Entries
      BY <1>1, <3>1
    <3> QED
      BY <1>2, <3>1, <3>2
  <2> QED
    BY <2>1
<1>4. \A i \in 1..n, s \in S :
        step[<<i, s>>] = IF NameOf(es[i]) = name THEN s ELSE Append(s, es[i])
  OBVIOUS
<1> HIDE DEF step
<1>5. PICK f \in [0..n -> S] : Iterates(f, n, <<>>, step)
  BY <1>1, <1>2, <1>3, IterationExists
<1>6. ASSUME NEW i \in 0..n
      PROVE  f[i] = IF i = 0 THEN <<>>
                    ELSE IF NameOf(es[i]) = name THEN f[i - 1] ELSE Append(f[i - 1], es[i])
  <2>1. i # 0 => i \in 1..n /\ i - 1 \in 0..n
    BY <1>1
  <2>2. i # 0 => f[i] = step[<<i, f[i - 1]>>] /\ f[i - 1] \in S
    BY <1>5, <2>1 DEF Iterates
  <2> QED
    BY <1>4, <1>5, <2>1, <2>2 DEF Iterates
<1>7. f = [i \in 0..n |-> f[i]]
  OBVIOUS
<1>8. [i \in 0..n |-> f[i]]
        = [i \in 0..n |->
             IF i = 0 THEN <<>>
             ELSE IF NameOf(es[i]) = name THEN f[i - 1] ELSE Append(f[i - 1], es[i])]
  BY <1>6, Zenon
<1> QED
  BY <1>7, <1>8, Zenon DEF Kept, n, S


LEMMA OthersAre ==
  ASSUME NEW es \in Seq(Entries), NEW name
  PROVE  /\ Others(es, name) \in Seq(Entries)
         /\ \A k \in 1..Len(Others(es, name)) :
              /\ NameOf(Others(es, name)[k]) # name
              /\ \E j \in 1..Len(es) : Others(es, name)[k] = es[j]
         /\ \A j \in 1..Len(es) : NameOf(es[j]) # name =>
              \E k \in 1..Len(Others(es, name)) : Others(es, name)[k] = es[j]
         /\ Distinct(es) => Distinct(Others(es, name))
<1> DEFINE n == Len(es)
           Good(s, m) ==
             /\ s \in Seq(Entries)
             /\ \A k \in 1..Len(s) : /\ NameOf(s[k]) # name
                                     /\ \E j \in 1..m : s[k] = es[j]
             /\ \A j \in 1..m : NameOf(es[j]) # name => \E k \in 1..Len(s) : s[k] = es[j]
             /\ Distinct(es) => Distinct(s)
           f == CHOOSE g : Kept(g, es, name)
<1>1. n \in Nat /\ \A i \in 1..n : es[i] \in Entries
  OBVIOUS
<1>2. Kept(f, es, name)
  BY KeptExists
<1>3. Others(es, name) = f[n]
  BY DEF Others, Kept
<1> HIDE DEF f
<1>4. \A i \in 0..n : f[i] = IF i = 0 THEN <<>>
                             ELSE IF NameOf(es[i]) = name THEN f[i - 1]
                             ELSE Append(f[i - 1], es[i])
  BY <1>2 DEF Kept
<1>5. Good(f[0], 0)
  <2>1. f[0] = <<>>
    BY <1>1, <1>4
  <2>2. <<>> \in Seq(Entries) /\ Len(<<>>) = 0
    BY EmptySeq
  <2>3. Distinct(<<>>)
    BY <2>2 DEF Distinct
  <2> QED
    BY <2>1, <2>2, <2>3
<1>6. ASSUME NEW i \in 1..n, Good(f[i - 1], i - 1)
      PROVE  Good(f[i], i)
  <2> DEFINE s == f[i - 1]
             e == es[i]
             a == Append(s, e)
  <2>1. /\ s \in Seq(Entries) /\ Len(s) \in Nat
        /\ \A k \in 1..Len(s) : NameOf(s[k]) # name /\ \E j \in 1..(i - 1) : s[k] = es[j]
        /\ \A j \in 1..(i - 1) : NameOf(es[j]) # name => \E k \in 1..Len(s) : s[k] = es[j]
        /\ Distinct(es) => Distinct(s)
    BY <1>6
  <2>2. /\ i \in 0..n /\ i # 0 /\ e \in Entries /\ i \in 1..i
        /\ \A j \in 1..(i - 1) : j \in 1..i /\ j \in 1..n /\ j # i
        /\ \A j \in 1..i : j \in 1..(i - 1) \/ j = i
    BY <1>1
  <2>3. f[i] = IF NameOf(e) = name THEN s ELSE a
    BY <1>4, <2>2
  <2>4. CASE NameOf(e) = name
    <3>1. f[i] = s
      BY <2>3, <2>4
    <3> HIDE DEF s
    <3> QED
      BY <2>1, <2>2, <2>4, <3>1
  <2>5. CASE NameOf(e) # name
    <3>1. f[i] = a
      BY <2>3, <2>5
    <3> HIDE DEF s, e
    <3>2. /\ a \in Seq(Entries) /\ Len(a) = Len(s) + 1 /\ a[Len(s) + 1] = e
          /\ \A k \in 1..Len(s) : a[k] = s[k]
      BY <2>1, <2>2, AppendProperties
    <3> HIDE DEF a
    <3>3. \A k \in 1..Len(a) : k \in 1..Len(s) \/ k = Len(s) + 1
      BY <2>1, <3>2
    <3>4. \A k \in 1..Len(s) : k \in 1..Len(a)
      BY <2>1, <3>2
    <3>5. Len(s) + 1 \in 1..Len(a)
      BY <2>1, <3>2
    <3>6. e = es[i]
      BY DEF e
    <3>7. ASSUME NEW k \in 1..Len(a)
          PROVE  NameOf(a[k]) # name /\ \E j \in 1..i : a[k] = es[j]
      <4>1. CASE k = Len(s) + 1
        BY <2>2, <2>5, <3>2, <3>6, <4>1, Zenon
      <4>2. CASE k \in 1..Len(s)
        BY <2>1, <2>2, <3>2, <4>2, Zenon
      <4> QED
        BY <3>3, <4>1, <4>2
    <3>8. ASSUME NEW j \in 1..i, NameOf(es[j]) # name
          PROVE  \E k \in 1..Len(a) : a[k] = es[j]
      <4>1. CASE j = i
        BY <3>2, <3>5, <3>6, <4>1, Zenon
      <4>2. CASE j \in 1..(i - 1)
        BY <2>1, <3>2, <3>4, <3>8, <4>2, Zenon
      <4> QED
        BY <2>2, <4>1, <4>2
    <3>9. ASSUME Distinct(es)
          PROVE  Distinct(a)
      <4>1. ASSUME NEW k \in 1..Len(s)
            PROVE  NameOf(s[k]) # NameOf(e)
        <5>1. PICK j \in 1..(i - 1) : s[k] = es[j]
          BY <2>1, <4>1
        <5> QED
          BY <2>2, <3>6, <3>9, <5>1 DEF Distinct
      <4>2. Distinct(s)
        BY <2>1, <3>9
      <4> SUFFICES ASSUME NEW k \in 1..Len(a), NEW l \in 1..Len(a), NameOf(a[k]) = NameOf(a[l])
                   PROVE  k = l
        BY DEF Distinct
      <4>3. CASE k \in 1..Len(s) /\ l \in 1..Len(s)
        BY <3>2, <4>2, <4>3, Zenon DEF Distinct
      <4>4. CASE k = Len(s) + 1 /\ l = Len(s) + 1
        BY <4>4
      <4>5. CASE k \in 1..Len(s) /\ l = Len(s) + 1
        BY <3>2, <4>1, <4>5, Zenon
      <4>6. CASE k = Len(s) + 1 /\ l \in 1..Len(s)
        BY <3>2, <4>1, <4>6, Zenon
      <4> QED
        BY <3>3, <4>3, <4>4, <4>5, <4>6
    <3> QED
      BY <3>1, <3>2, <3>7, <3>8, <3>9
  <2> QED
    BY <2>4, <2>5
<1> HIDE DEF Good
<1>7. Good(f[n], n)
  <2> DEFINE T == {m \in 0..n : ~ Good(f[m], m)}
  <2>1. ASSUME T # {} PROVE FALSE
    <3>1. PICK m \in T : \A k \in T : m <= k
      <4>1. T \subseteq Nat
        OBVIOUS
      <4> HIDE DEF T
      <4> QED
        BY <2>1, <4>1, Least
    <3>2. m \in 0..n /\ ~ Good(f[m], m)
      OBVIOUS
    <3> HIDE DEF T
    <3>3. m # 0
      BY <1>5, <3>2
    <3>4. m \in 1..n /\ m - 1 \in 0..n /\ ~ (m <= m - 1)
      BY <1>1, <3>2, <3>3
    <3>5. m - 1 \notin T
      BY <3>1, <3>4
    <3>6. Good(f[m - 1], m - 1)
      BY <3>4, <3>5 DEF T
    <3> QED
      BY <1>6, <3>2, <3>4, <3>6
  <2> QED
    BY <1>1, <2>1
<1> QED
  BY <1>3, <1>7, Zenon DEF Good, n

LEMMA MakeLatestIs ==
  ASSUME NEW es \in Seq(Entries), NEW e \in Entries
  PROVE  LET l == MakeLatest(es, e)
         IN  /\ l \in Seq(Entries) /\ Len(l) \in Nat \ {0} /\ l[Len(l)] = e
             /\ \A k \in 1..Len(l) :
                  l[k] = e \/ \E j \in 1..Len(es) : l[k] = es[j] /\ NameOf(es[j]) # NameOf(e)
             /\ NamesOf(l) = NamesOf(es) \cup {NameOf(e)}
             /\ Distinct(es) => Distinct(l)
<1> DEFINE o == Others(es, NameOf(e))
           l == MakeLatest(es, e)
<1>1. /\ o \in Seq(Entries) /\ Len(o) \in Nat
      /\ \A k \in 1..Len(o) : NameOf(o[k]) # NameOf(e) /\ \E j \in 1..Len(es) : o[k] = es[j]
      /\ \A j \in 1..Len(es) : NameOf(es[j]) # NameOf(e) => \E k \in 1..Len(o) : o[k] = es[j]
      /\ Distinct(es) => Distinct(o)
  <2>1. \A name : Others(es, name) \in Seq(Entries)
    BY OthersAre
  <2> QED
    BY <2>1, OthersAre
<1>2. l = Append(o, e)
  BY DEF MakeLatest
<1> HIDE DEF o, l
<1>3. /\ l \in Seq(Entries) /\ Len(l) = Len(o) + 1 /\ l[Len(o) + 1] = e
      /\ \A k \in 1..Len(o) : l[k] = o[k]
  BY <1>1, <1>2, AppendProperties
<1>4. /\ Len(l) \in Nat \ {0} /\ Len(o) + 1 \in 1..Len(l)
      /\ \A k \in 1..Len(l) : k \in 1..Len(o) \/ k = Len(o) + 1
      /\ \A k \in 1..Len(o) : k \in 1..Len(l)
  BY <1>1, <1>3
<1>5. ASSUME NEW k \in 1..Len(l)
      PROVE  l[k] = e \/ \E j \in 1..Len(es) : l[k] = es[j] /\ NameOf(es[j]) # NameOf(e)
  <2>1. CASE k = Len(o) + 1
    BY <1>3, <2>1
  <2>2. CASE k \in 1..Len(o)
    <3>1. l[k] = o[k] /\ NameOf(o[k]) # NameOf(e)
      BY <1>1, <1>3, <2>2
    <3>2. PICK j \in 1..Len(es) : o[k] = es[j]
      BY <1>1, <2>2
    <3> QED
      BY <3>1, <3>2
  <2> QED
    BY <1>4, <2>1, <2>2
<1>6. NamesOf(l) = NamesOf(es) \cup {NameOf(e)}
  <2>1. ASSUME NEW x \in NamesOf(l)
        PROVE  x \in NamesOf(es) \cup {NameOf(e)}
    <3>1. PICK k \in 1..Len(l) : x = NameOf(l[k])
      BY <2>1 DEF NamesOf
    <3> QED
      BY <1>5, <3>1, Zenon DEF NamesOf
  <2>2. NameOf(e) \in NamesOf(l)
    BY <1>3, <1>4, Zenon DEF NamesOf
  <2>3. ASSUME NEW x \in NamesOf(es), x # NameOf(e)
        PROVE  x \in NamesOf(l)
    <3>1. PICK j \in 1..Len(es) : x = NameOf(es[j])
      BY <2>3 DEF NamesOf
    <3>2. PICK k \in 1..Len(o) : o[k] = es[j]
      BY <1>1, <2>3, <3>1
    <3>3. k \in 1..Len(l) /\ l[k] = o[k]
      BY <1>3, <1>4, <3>2
    <3> QED
      BY <3>1, <3>2, <3>3, Zenon DEF NamesOf
  <2> QED
    BY <2>1, <2>2, <2>3
<1>7. ASSUME Distinct(es)
      PROVE  Distinct(l)
  <2>0. Distinct(o)
    BY <1>1, <1>7
  <2> SUFFICES ASSUME NEW k \in 1..Len(l), NEW m \in 1..Len(l), NameOf(l[k]) = NameOf(l[m])
               PROVE  k = m
    BY DEF Distinct
  <2>1. CASE k \in 1..Len(o) /\ m \in 1..Len(o)
    BY <1>3, <2>0, <2>1, Zenon DEF Distinct
  <2>2. CASE k = Len(o) + 1 /\ m = Len(o) + 1
    BY <2>2
  <2>3. CASE k \in 1..Len(o) /\ m = Len(o) + 1
    BY <1>1, <1>3, <2>3, Zenon
  <2>4. CASE k = Len(o) + 1 /\ m \in 1..Len(o)
    BY <1>1, <1>3, <2>4, Zenon
  <2> QED
    BY <1>4, <2>1, <2>2, <2>3, <2>4
<1>8. l[Len(l)] = e
  BY <1>3
<1> QED
  BY <1>3, <1>4, <1>5, <1>6, <1>7, <1>8 DEF l

-----------------------------------------------------------------------------
\* The bytes of no entry, and of one.
Used(f, es) ==
  f = [n \in 0..Len(es) |-> IF n = 0 THEN 0 ELSE f[n - 1] + Bytes[Len(es[n].ids)]]

LEMMA BytesOfNone == TotalBytes(<<>>) = 0
<1> DEFINE f == CHOOSE g : Used(g, <<>>)
           z == [n \in 0..0 |-> 0]
<1>1. Len(<<>>) = 0
  OBVIOUS
<1>2. z = [n \in 0..0 |-> IF n = 0 THEN 0 ELSE z[n - 1] + Bytes[Len(<<>>[n].ids)]]
  OBVIOUS
<1> HIDE DEF z
<1>3. Used(z, <<>>)
  BY <1>1, <1>2, Zenon DEF Used
<1>4. Used(f, <<>>)
  BY <1>3
<1>5. TotalBytes(<<>>) = f[0]
  BY <1>1 DEF TotalBytes, Used
<1> HIDE DEF f
<1>6. f[0] = 0
  BY <1>1, <1>4 DEF Used
<1> QED
  BY <1>5, <1>6

LEMMA BytesOfOne ==
  ASSUME NEW es, Len(es) = 1, Bytes[Len(es[1].ids)] \in Nat
  PROVE  TotalBytes(es) = Bytes[Len(es[1].ids)]
<1> DEFINE f == CHOOSE g : Used(g, es)
           b == Bytes[Len(es[1].ids)]
           z == [n \in 0..1 |-> IF n = 0 THEN 0 ELSE b]
<1>1. ASSUME NEW n \in 0..1
      PROVE  z[n] = IF n = 0 THEN 0 ELSE z[n - 1] + Bytes[Len(es[n].ids)]
  <2>1. CASE n = 0
    BY <2>1
  <2>2. CASE n = 1
    <3>1. z[1] = b /\ z[0] = 0 /\ n - 1 = 0 /\ Bytes[Len(es[n].ids)] = b
      BY <2>2
    <3> HIDE DEF z, b
    <3> QED
      BY <2>2, <3>1 DEF b
  <2> QED
    BY <2>1, <2>2
<1>2. z = [n \in 0..1 |-> z[n]]
  OBVIOUS
<1> HIDE DEF z
<1>3. [n \in 0..1 |-> z[n]]
        = [n \in 0..1 |-> IF n = 0 THEN 0 ELSE z[n - 1] + Bytes[Len(es[n].ids)]]
  BY <1>1, Zenon
<1>4. z = [n \in 0..1 |-> IF n = 0 THEN 0 ELSE z[n - 1] + Bytes[Len(es[n].ids)]]
  BY <1>2, <1>3, Zenon
<1>5. Used(z, es)
  BY <1>4, Zenon DEF Used
<1>6. Used(f, es)
  BY <1>5
<1>7. TotalBytes(es) = f[1]
  BY DEF TotalBytes, Used
<1> HIDE DEF f
<1>8. \A n \in 0..1 : f[n] = IF n = 0 THEN 0 ELSE f[n - 1] + Bytes[Len(es[n].ids)]
  BY <1>6 DEF Used
<1>9. f[0] = 0 /\ f[1] = f[0] + Bytes[Len(es[1].ids)]
  BY <1>8
<1> QED
  BY <1>7, <1>9

\* Eviction drops the oldest entries, until the rest fits: the last one is kept when
\* it fits by itself.
LEMMA EvictToIs ==
  ASSUME NEW es \in Seq(Entries), NEW most \in Nat
  PROVE  \E n \in 0..Len(es) :
           /\ EvictTo(es, most) = SubSeq(es, n + 1, Len(es))
           /\ TotalBytes(EvictTo(es, most)) <= most
           /\ Len(es) # 0 /\ Bytes[Len(es[Len(es)].ids)] \in 0..most => n < Len(es)
<1> DEFINE N == Len(es)
           fits == {n \in 0..N : TotalBytes(SubSeq(es, n + 1, N)) <= most}
           first == CHOOSE n \in fits : \A m \in fits : n <= m
<1>1. N \in Nat /\ \A i \in 1..N : es[i] \in Entries
  OBVIOUS
<1>2. N \in fits
  <2>1. SubSeq(es, N + 1, N) = <<>>
    BY <1>1, SubSeqEmpty
  <2>2. TotalBytes(SubSeq(es, N + 1, N)) = 0
    BY <2>1, BytesOfNone
  <2> HIDE DEF N
  <2> QED
    BY <1>1, <2>2
<1>3. first \in fits /\ \A m \in fits : first <= m
  <2>1. fits \subseteq Nat /\ fits # {}
    BY <1>1, <1>2
  <2> HIDE DEF fits
  <2>2. \E n \in fits : \A m \in fits : n <= m
    BY <2>1, Least
  <2> QED
    BY <2>2, Zenon
<1>4. EvictTo(es, most) = SubSeq(es, first + 1, N)
  BY DEF EvictTo
<1>5. ASSUME N # 0, Bytes[Len(es[N].ids)] \in 0..most
      PROVE  N - 1 \in fits
  <2> DEFINE t == SubSeq(es, (N - 1) + 1, N)
  <2>1. \A i \in ((N - 1) + 1)..N : es[i] \in Entries
    BY <1>1, <1>5
  <2>2. N \in Int /\ (N - 1) + 1 \in Int /\ (N - 1) + 1 <= N /\ 1 \in 1..(N - ((N - 1) + 1) + 1)
    BY <1>1
  <2>3. /\ Len(t) = N - ((N - 1) + 1) + 1
        /\ t[1] = es[((N - 1) + 1) + 1 - 1]
    BY <2>1, <2>2, SubSeqProperties
  <2>4. Len(t) = 1 /\ t[1] = es[N]
    BY <1>1, <2>3
  <2> HIDE DEF t, N
  <2>5. Bytes[Len(es[N].ids)] \in Nat /\ Bytes[Len(es[N].ids)] <= most
    BY <1>5
  <2>6. TotalBytes(t) = Bytes[Len(es[N].ids)]
    BY <2>4, <2>5, BytesOfOne
  <2>7. N - 1 \in 0..N /\ TotalBytes(t) <= most
    BY <1>1, <1>5, <2>5, <2>6
  <2> QED
    BY <2>7 DEF t
<1>6. first \in 0..N /\ TotalBytes(SubSeq(es, first + 1, N)) <= most
  <2> HIDE DEF first
  <2> QED
    BY <1>3
<1>7. N # 0 /\ Bytes[Len(es[N].ids)] \in 0..most => first < N
  <2> HIDE DEF first, fits, N
  <2>1. N # 0 /\ Bytes[Len(es[N].ids)] \in 0..most => first <= N - 1
    BY <1>3, <1>5
  <2> QED
    BY <1>1, <1>6, <2>1
<1> HIDE DEF first, fits
<1> QED
  BY <1>4, <1>6, <1>7, Zenon

\* What is left is the end of the list.
LEMMA EvictedIs ==
  ASSUME NEW es \in Seq(Entries), NEW most \in Nat
  PROVE  LET l == EvictTo(es, most)
         IN  /\ l \in Seq(Entries) /\ TotalBytes(l) <= most
             /\ \A k \in 1..Len(l) : \E j \in 1..Len(es) : l[k] = es[j]
             /\ NamesOf(l) \subseteq NamesOf(es)
             /\ Distinct(es) => Distinct(l)
             /\ Len(es) # 0 /\ Bytes[Len(es[Len(es)].ids)] \in 0..most =>
                  Len(l) # 0 /\ l[Len(l)] = es[Len(es)]
<1> DEFINE N == Len(es)
           l == EvictTo(es, most)
<1>1. N \in Nat /\ \A i \in 1..N : es[i] \in Entries
  OBVIOUS
<1>2. PICK n \in 0..N : /\ l = SubSeq(es, n + 1, N) /\ TotalBytes(l) <= most
                        /\ N # 0 /\ Bytes[Len(es[N].ids)] \in 0..most => n < N
  BY EvictToIs
<1> HIDE DEF N, l
<1>3. n + 1 \in Int /\ N \in Int /\ n \in Nat /\ \A i \in (n + 1)..N : es[i] \in Entries
  BY <1>1
<1>4. /\ l \in Seq(Entries) /\ Len(l) = (IF n + 1 <= N THEN N - (n + 1) + 1 ELSE 0)
      /\ \A i \in 1..(N - (n + 1) + 1) : l[i] = es[(n + 1) + i - 1]
  BY <1>2, <1>3, SubSeqProperties
<1>5. Len(l) = N - n
  BY <1>1, <1>3, <1>4
<1>6. ASSUME NEW i \in 1..Len(l)
      PROVE  n + i \in 1..N /\ l[i] = es[n + i]
  <2>1. i \in 1..(N - (n + 1) + 1) /\ (n + 1) + i - 1 = n + i /\ n + i \in 1..N
    BY <1>1, <1>3, <1>5
  <2> QED
    BY <1>4, <2>1
<1>7. ASSUME NEW k \in 1..Len(l)
      PROVE  \E j \in 1..N : l[k] = es[j]
  BY <1>6
<1>8. NamesOf(l) \subseteq NamesOf(es)
  <2> SUFFICES ASSUME NEW k \in 1..Len(l)
               PROVE  NameOf(l[k]) \in NamesOf(es)
    BY DEF NamesOf
  <2>1. PICK j \in 1..N : l[k] = es[j]
    BY <1>7
  <2> QED
    BY <2>1 DEF NamesOf, N
<1>9. ASSUME Distinct(es)
      PROVE  Distinct(l)
  <2> SUFFICES ASSUME NEW i \in 1..Len(l), NEW j \in 1..Len(l), NameOf(l[i]) = NameOf(l[j])
               PROVE  i = j
    BY DEF Distinct
  <2>1. n + i \in 1..N /\ n + j \in 1..N /\ l[i] = es[n + i] /\ l[j] = es[n + j]
    BY <1>6
  <2>2. NameOf(es[n + i]) = NameOf(es[n + j])
    BY <2>1
  <2>3. n + i = n + j
    BY <1>9, <2>1, <2>2, Zenon DEF Distinct, N
  <2> QED
    BY <1>3, <1>5, <2>3
<1>10. ASSUME N # 0, Bytes[Len(es[N].ids)] \in 0..most
       PROVE  Len(l) # 0 /\ l[Len(l)] = es[N]
  <2>1. n < N
    BY <1>2, <1>10
  <2>2. Len(l) # 0 /\ Len(l) \in 1..Len(l) /\ n + Len(l) = N
    BY <1>1, <1>3, <1>5, <2>1
  <2> QED
    BY <1>6, <2>2
<1> QED
  BY <1>2, <1>4, <1>7, <1>8, <1>9, <1>10 DEF N, l

-----------------------------------------------------------------------------
\* A captured prefix has a size and a file name, and is not an unreadable file.
LEMMA EntryIs ==
  ASSUME NEW e \in Entries
  PROVE  /\ e.ids \in Captured /\ e.stamp \in Stamps /\ e = [stamp |-> e.stamp, ids |-> e.ids]
         /\ Len(e.ids) \in Nat /\ Bytes[Len(e.ids)] \in Nat
         /\ NameOf(e) \in FileNames /\ NameOf(e) = <<e.stamp, Len(e.ids), Hash[e.ids]>>
         /\ e.ids # Absent /\ e.ids # Torn
<1>1. e.ids \in Captured /\ e.stamp \in Stamps /\ e = [stamp |-> e.stamp, ids |-> e.ids]
  BY DEF Entries
<1>2. PICK n \in 1..MaxLen : e.ids \in [1..n -> Tokens]
  BY <1>1, DiskAssumption DEF TokenSeqs
<1>3. Len(e.ids) = n /\ n \in Nat
  BY <1>2, SnapshotAssumption
<1>4. Bytes[n] \in 1..MaxBytes
  BY <1>2, SnapshotAssumption
<1>5. Len(e.ids) \in Nat /\ Bytes[Len(e.ids)] \in Nat
  BY <1>3, <1>4, SnapshotAssumption
<1>6. NameOf(e) \in FileNames /\ NameOf(e) = <<e.stamp, Len(e.ids), Hash[e.ids]>>
  BY DEF FileNames, NameOf, KeyOf
<1> QED
  BY <1>1, <1>5, <1>6, DiskAssumption

LEMMA RequestIs ==
  ASSUME NEW ids \in Requests
  PROVE  Len(ids) \in Nat
<1>1. PICK n \in 1..MaxLen : ids \in [1..n -> Tokens]
  BY DiskAssumption DEF TokenSeqs
<1> QED
  BY <1>1, SnapshotAssumption

\* There is a longest candidate, and it is one.
LEMMA LongestIs ==
  ASSUME NEW es \in Seq(Entries), NEW stamp, NEW ids \in Requests,
         Candidates(es, stamp, ids) # {}
  PROVE  LET C == Candidates(es, stamp, ids)
         IN  /\ Longest(C) \in C /\ Longest(C) \in Entries
             /\ \E i \in 1..Len(es) : Longest(C) = es[i]
             /\ Longest(C).stamp = stamp /\ Len(Longest(C).ids) < Len(ids)
             /\ Longest(C).ids = SubSeq(ids, 1, Len(Longest(C).ids))
             /\ \A d \in C : Len(d.ids) <= Len(Longest(C).ids)
<1> DEFINE C == Candidates(es, stamp, ids)
           T == {Len(ids) - Len(e.ids) : e \in C}
<1>1. ASSUME NEW e \in C
      PROVE  /\ e \in Entries /\ Len(e.ids) \in Nat /\ Len(ids) \in Nat
             /\ \E i \in 1..Len(es) : e = es[i]
             /\ e.stamp = stamp /\ Len(e.ids) < Len(ids)
             /\ e.ids = SubSeq(ids, 1, Len(e.ids))
  <2>1. e \in ToSet(es) /\ e.stamp = stamp /\ Len(e.ids) < Len(ids)
        /\ e.ids = SubSeq(ids, 1, Len(e.ids))
    BY DEF Candidates
  <2>2. DOMAIN es = 1..Len(es) /\ \A i \in 1..Len(es) : es[i] \in Entries
    OBVIOUS
  <2>3. PICK i \in 1..Len(es) : e = es[i]
    BY <2>1, <2>2 DEF ToSet
  <2> QED
    BY <2>1, <2>2, <2>3, EntryIs, RequestIs
<1> HIDE DEF C
<1>2. T \subseteq Nat /\ T # {}
  BY <1>1 DEF C
<1>3. PICK n \in T : \A m \in T : n <= m
  <2> HIDE DEF T
  <2> QED
    BY <1>2, Least
<1>4. PICK e \in C : n = Len(ids) - Len(e.ids)
  OBVIOUS
<1>5. ASSUME NEW d \in C
      PROVE  Len(d.ids) <= Len(e.ids)
  <2>1. n <= Len(ids) - Len(d.ids)
    BY <1>3
  <2>2. /\ Len(ids) \in Nat /\ Len(d.ids) \in Nat /\ Len(e.ids) \in Nat
    BY <1>1
  <2> QED
    BY <1>4, <2>1, <2>2
<1>6. Longest(C) \in C /\ \A d \in C : Len(d.ids) <= Len(Longest(C).ids)
  BY <1>5, Zenon DEF Longest
<1> QED
  BY <1>1, <1>6, Zenon DEF C

-----------------------------------------------------------------------------
\* What holds whatever died or failed: an index names each file once, and a file that
\* reads well holds a prefix that has its name.
Index(es) == es \in Seq(Entries) /\ Distinct(es)

FilesOK(fs) ==
  /\ DOMAIN fs = FileNames
  /\ \A k \in FileNames :
       fs[k] \in {Absent, Torn} \/ \E e \in Entries : NameOf(e) = k /\ fs[k] = e.ids

Looking(o) ==
  \E stamp \in Stamps, ids \in Requests : \E left :
    o = [pc |-> "finding", stamp |-> stamp, ids |-> ids, left |-> left]

OpOK(o, b) ==
  \/ o = Idle \/ o = Down \/ Looking(o)
  \/ \E pc \in {"writing", "indexing"}, e \in Entries :
       o = [pc |-> pc, entry |-> e] /\ Bytes[Len(e.ids)] <= b
  \/ \E pc \in {"save", "saving"} : \E next :
       o = [pc |-> pc, next |-> next] /\ (next = Idle \/ Looking(next))

DiskInv ==
  /\ Index(mem) /\ (saved = Torn \/ Index(saved))
  /\ FilesOK(files) /\ OpOK(op, budget)
  /\ budget \in Nat /\ crashes \in Nat /\ errors \in Nat

LEMMA DeleteKeeps ==
  ASSUME DiskInv, NEW names, Delete(names)
  PROVE  /\ FilesOK(files') /\ errors' \in Nat /\ errors' >= errors
         /\ errors' = errors =>
              files' = [k \in FileNames |-> IF k \in names THEN Absent ELSE files[k]]
<1>1. PICK kept \in SUBSET names :
        /\ files' = [k \in FileNames |-> IF k \in names \ kept THEN Absent ELSE files[k]]
        /\ IF kept = {} THEN UNCHANGED errors
           ELSE errors < MaxErrors /\ errors' = errors + 1
  BY DEF Delete
<1>2. FilesOK(files) /\ errors \in Nat
  BY DEF DiskInv
<1>3. FilesOK(files')
  BY <1>1, <1>2 DEF FilesOK
<1>4. errors' \in Nat /\ errors' >= errors /\ (errors' = errors => kept = {})
  BY <1>1, <1>2
<1>5. kept = {} => files' = [k \in FileNames |-> IF k \in names THEN Absent ELSE files[k]]
  BY <1>1
<1> QED
  BY <1>3, <1>4, <1>5

\* A file that is truncated, or written whole.
LEMMA OneFileChanges ==
  ASSUME FilesOK(files), NEW k \in FileNames, NEW v, files' = [files EXCEPT ![k] = v],
         v = Torn \/ \E e \in Entries : NameOf(e) = k /\ v = e.ids
  PROVE  /\ FilesOK(files') /\ files'[k] = v
         /\ \A j \in FileNames : j # k => files'[j] = files[j]
<1>1. DOMAIN files' = FileNames /\ files'[k] = v
      /\ \A j \in FileNames : j # k => files'[j] = files[j]
  BY DEF FilesOK
<1>2. ASSUME NEW j \in FileNames
      PROVE  files'[j] \in {Absent, Torn} \/ \E e \in Entries : NameOf(e) = j /\ files'[j] = e.ids
  <2>1. CASE j = k
    BY <1>1, <2>1
  <2>2. CASE j # k
    BY <1>1, <2>2 DEF FilesOK
  <2> QED
    BY <2>1, <2>2
<1> QED
  BY <1>1, <1>2 DEF FilesOK

\* The call in progress, by its step.
LEMMA OpIs ==
  ASSUME DiskInv
  PROVE  /\ op.pc \in {"idle", "down", "finding", "writing", "indexing", "save", "saving"}
         /\ op.pc = "idle" <=> op = Idle
         /\ op.pc = "down" <=> op = Down
         /\ op.pc = "finding" =>
              /\ Looking(op) /\ op.stamp \in Stamps /\ op.ids \in Requests
         /\ op.pc \in {"writing", "indexing"} =>
              /\ op = [pc |-> op.pc, entry |-> op.entry]
              /\ op.entry \in Entries /\ Bytes[Len(op.entry.ids)] <= budget
         /\ op.pc \in {"save", "saving"} =>
              /\ op = [pc |-> op.pc, next |-> op.next]
              /\ op.next = Idle \/ Looking(op.next)
              /\ op.next.pc \in {"idle", "finding"}
<1>1. CASE op = Idle \/ op = Down
  BY <1>1 DEF Idle, Down
<1>2. CASE Looking(op)
  <2>1. PICK stamp \in Stamps, ids \in Requests :
          \E left : op = [pc |-> "finding", stamp |-> stamp, ids |-> ids, left |-> left]
    BY <1>2 DEF Looking
  <2>2. op.pc = "finding" /\ op.stamp = stamp /\ op.ids = ids /\ op # Idle /\ op # Down
    BY <2>1 DEF Idle, Down
  <2> QED
    BY <1>2, <2>2
<1>3. ASSUME NEW pc \in {"writing", "indexing"}, NEW e \in Entries, op = [pc |-> pc, entry |-> e],
             Bytes[Len(e.ids)] <= budget
      PROVE  /\ op.pc = pc /\ op # Idle /\ op # Down /\ op.entry = e
  BY <1>3 DEF Idle, Down
<1>4. ASSUME NEW pc \in {"save", "saving"}, NEW next, op = [pc |-> pc, next |-> next],
             next = Idle \/ Looking(next)
      PROVE  /\ op.pc = pc /\ op # Idle /\ op # Down /\ op.next = next
             /\ next.pc \in {"idle", "finding"}
  BY <1>4 DEF Idle, Down, Looking
<1>5. CASE \E pc \in {"writing", "indexing"}, e \in Entries :
             op = [pc |-> pc, entry |-> e] /\ Bytes[Len(e.ids)] <= budget
  BY <1>3, <1>5
<1>6. CASE \E pc \in {"save", "saving"} : \E next :
             op = [pc |-> pc, next |-> next] /\ (next = Idle \/ Looking(next))
  BY <1>4, <1>6
<1> QED
  BY <1>1, <1>2, <1>5, <1>6 DEF DiskInv, OpOK

\* The directory holds what the index says; or that and the file being written.
Stored(es, fs) ==
  /\ \A i \in 1..Len(es) : fs[NameOf(es[i])] = es[i].ids
  /\ {k \in FileNames : fs[k] # Absent} = NamesOf(es)

StoredBut(es, fs, name) ==
  /\ \A i \in 1..Len(es) : NameOf(es[i]) # name => fs[NameOf(es[i])] = es[i].ids
  /\ {k \in FileNames : fs[k] # Absent} = NamesOf(es) \cup {name}

\* With no death and no failure so far.
WholeInv ==
  crashes = 0 /\ errors = 0 =>
    /\ op.pc = "down" => saved # Torn /\ Stored(saved, files)
    /\ op.pc \in {"idle", "finding"} => saved = mem /\ Stored(mem, files)
    /\ op.pc \in {"writing", "indexing"} =>
         saved = mem /\ StoredBut(mem, files, NameOf(op.entry))
    /\ op.pc = "indexing" => files[NameOf(op.entry)] = op.entry.ids
    /\ op.pc \in {"save", "saving"} => Stored(mem, files)

DiskOK == DiskInv /\ WholeInv

\* What a lookup still has to try is what the index still names for its request.
Ahead ==
  /\ op.pc = "finding" => op.left = Candidates(mem, op.stamp, op.ids)
  /\ op.pc \in {"save", "saving"} /\ op.next.pc = "finding" =>
       op.next.left = Candidates(mem, op.next.stamp, op.next.ids)

\* A step that lets something die or fail has only the weaker part to keep.
LEMMA FaultKeeps ==
  ASSUME DiskInv, DiskInv', crashes' # 0 \/ errors' # 0
  PROVE  DiskOK'
BY DEF DiskOK, WholeInv

LEMMA InitOK ==
  ASSUME Init
  PROVE  DiskOK
<1>1. Index(mem) /\ Index(saved) /\ mem = <<>> /\ saved = <<>>
  BY EmptySeq DEF Init, Index, Distinct
<1>2. DiskInv
  BY <1>1, DiskAssumption DEF Init, DiskInv, FilesOK, OpOK
<1>3. op.pc = "down"
  BY DEF Init, Down
<1>4. saved # Torn
  BY <1>1, DiskAssumption DEF Index
<1>5. NamesOf(saved) = {}
  BY <1>1 DEF NamesOf
<1>6. Stored(saved, files)
  BY <1>1, <1>5 DEF Init, Stored
<1> QED
  BY <1>2, <1>3, <1>4, <1>6 DEF DiskOK, WholeInv

LEMMA OpenStep ==
  ASSUME DiskOK, Open
  PROVE  DiskOK'
<1>1. DiskInv /\ WholeInv
  BY DEF DiskOK
<1>2. /\ op = Down /\ budget' \in Nat /\ op' = Idle
      /\ mem' = (IF saved = Torn THEN <<>> ELSE saved)
      /\ UNCHANGED <<files, saved, crashes, errors>>
  BY DiskAssumption DEF Open
<1>3. Index(mem')
  BY <1>1, <1>2, EmptySeq DEF DiskInv, Index, Distinct
<1>4. DiskInv'
  BY <1>1, <1>2, <1>3 DEF DiskInv, OpOK
<1>5. op.pc = "down" /\ op'.pc = "idle"
  BY <1>2 DEF Down, Idle
<1>6. WholeInv'
  BY <1>1, <1>2, <1>5 DEF WholeInv
<1> QED
  BY <1>4, <1>6 DEF DiskOK

LEMMA InsertStep ==
  ASSUME DiskOK, NEW stamp \in Stamps, NEW ids \in Captured, Insert(stamp, ids)
  PROVE  DiskOK'
<1> DEFINE e == [stamp |-> stamp, ids |-> ids]
<1>1. DiskInv /\ WholeInv /\ op = Idle /\ op.pc = "idle"
  BY DEF DiskOK, Insert, Idle
<1>2. e \in Entries /\ e.ids = ids /\ NameOf(e) = KeyOf(stamp, ids)
  BY DEF Entries, NameOf
<1>3. /\ files' = [files EXCEPT ![NameOf(e)] = Torn]
      /\ op' = [pc |-> "writing", entry |-> e] /\ Bytes[Len(e.ids)] <= budget
      /\ UNCHANGED <<mem, saved, budget, crashes, errors>>
  BY <1>2 DEF Insert
<1> HIDE DEF e
<1>4. NameOf(e) \in FileNames
  BY <1>2, EntryIs
<1>5. FilesOK(files)
  BY <1>1 DEF DiskInv
<1>6. /\ FilesOK(files') /\ files'[NameOf(e)] = Torn
      /\ \A j \in FileNames : j # NameOf(e) => files'[j] = files[j]
  BY <1>3, <1>4, <1>5, OneFileChanges
<1>7. OpOK(op', budget')
  BY <1>2, <1>3 DEF OpOK
<1>8. DiskInv'
  BY <1>1, <1>3, <1>6, <1>7 DEF DiskInv
<1>9. ASSUME Stored(mem, files)
      PROVE  StoredBut(mem, files', NameOf(e))
  <2>1. \A i \in 1..Len(mem) : NameOf(mem[i]) \in FileNames
    BY <1>1, EntryIs DEF DiskInv, Index
  <2>2. \A i \in 1..Len(mem) : NameOf(mem[i]) # NameOf(e) =>
          files'[NameOf(mem[i])] = mem[i].ids
    BY <1>6, <1>9, <2>1 DEF Stored
  <2>3. {k \in FileNames : files'[k] # Absent} = {k \in FileNames : files[k] # Absent} \cup {NameOf(e)}
    BY <1>4, <1>6, DiskAssumption
  <2>4. {k \in FileNames : files'[k] # Absent} = NamesOf(mem) \cup {NameOf(e)}
    BY <1>9, <2>3 DEF Stored
  <2> QED
    BY <2>2, <2>4 DEF StoredBut
<1>10. op'.pc = "writing" /\ op'.entry = e
  BY <1>3
<1>11. WholeInv'
  BY <1>1, <1>3, <1>9, <1>10 DEF WholeInv
<1> QED
  BY <1>8, <1>11 DEF DiskOK

LEMMA WriteFileStep ==
  ASSUME DiskOK, WriteFile
  PROVE  DiskOK'
<1> DEFINE e == op.entry
<1>1. DiskInv /\ WholeInv /\ op.pc = "writing"
  BY DEF DiskOK, WriteFile
<1>2. op = [pc |-> op.pc, entry |-> e] /\ e \in Entries /\ Bytes[Len(e.ids)] <= budget
  BY <1>1, OpIs
<1>3. /\ files' = [files EXCEPT ![NameOf(e)] = e.ids]
      /\ UNCHANGED <<mem, saved, budget, crashes, errors>>
  BY DEF WriteFile
<1>4. op' = [pc |-> "indexing", entry |-> e]
  BY <1>2 DEF WriteFile
<1>5. op'.pc = "indexing" /\ op'.entry = e
  BY <1>4
<1> HIDE DEF e
<1>6. NameOf(e) \in FileNames /\ e.ids # Absent
  BY <1>2, EntryIs
<1>7. FilesOK(files)
  BY <1>1 DEF DiskInv
<1>8. /\ FilesOK(files') /\ files'[NameOf(e)] = e.ids
      /\ \A j \in FileNames : j # NameOf(e) => files'[j] = files[j]
  BY <1>2, <1>3, <1>6, <1>7, OneFileChanges
<1>9. OpOK(op', budget')
  BY <1>2, <1>3, <1>4 DEF OpOK
<1>10. DiskInv'
  BY <1>1, <1>3, <1>8, <1>9 DEF DiskInv
<1>11. ASSUME StoredBut(mem, files, NameOf(e))
       PROVE  StoredBut(mem, files', NameOf(e))
  <2>1. \A i \in 1..Len(mem) : NameOf(mem[i]) \in FileNames
    BY <1>1, EntryIs DEF DiskInv, Index
  <2>2. \A i \in 1..Len(mem) : NameOf(mem[i]) # NameOf(e) =>
          files'[NameOf(mem[i])] = mem[i].ids
    BY <1>8, <1>11, <2>1 DEF StoredBut
  <2>3. {k \in FileNames : files'[k] # Absent} = {k \in FileNames : files[k] # Absent} \cup {NameOf(e)}
    BY <1>6, <1>8
  <2>4. {k \in FileNames : files'[k] # Absent} = NamesOf(mem) \cup {NameOf(e)}
    BY <1>11, <2>3 DEF StoredBut
  <2> QED
    BY <2>2, <2>4 DEF StoredBut
<1>12. WholeInv => (crashes = 0 /\ errors = 0 =>
                      saved = mem /\ StoredBut(mem, files, NameOf(e)))
  BY <1>1 DEF WholeInv, e
<1>13. WholeInv'
  BY <1>1, <1>3, <1>5, <1>8, <1>11, <1>12 DEF WholeInv
<1> QED
  BY <1>10, <1>13 DEF DiskOK

\* The steps that only fail.
LEMMA FailureStep ==
  ASSUME DiskOK, WriteFileFails \/ SaveFails
  PROVE  DiskOK'
<1>1. DiskInv
  BY DEF DiskOK
<1>2. /\ errors' = errors + 1
      /\ UNCHANGED <<mem, files, saved, budget, crashes>>
      /\ op' = Idle \/ (op.pc \in {"save", "saving"} /\ op' = op.next)
  BY DEF WriteFileFails, SaveFails, Fault
<1>3. op' = Idle \/ Looking(op')
  BY <1>1, <1>2, OpIs
<1>4. errors \in Nat /\ errors' \in Nat /\ errors' # 0
  BY <1>1, <1>2 DEF DiskInv
<1>5. OpOK(op', budget')
  BY <1>3 DEF OpOK
<1>6. DiskInv'
  BY <1>1, <1>2, <1>4, <1>5 DEF DiskInv
<1> QED
  BY <1>1, <1>4, <1>6, FaultKeeps

\* An insertion leaves an index that fits, with its own entry last.
LEMMA Inserted ==
  ASSUME DiskInv, op.pc = "indexing"
  PROVE  LET es == MakeLatest(mem, op.entry)
             l == EvictTo(es, budget)
         IN  /\ Index(es) /\ Index(l) /\ TotalBytes(l) <= budget
             /\ NamesOf(es) = NamesOf(mem) \cup {NameOf(op.entry)}
             /\ NamesOf(l) \subseteq NamesOf(es)
             /\ \A k \in 1..Len(l) :
                  \/ l[k] = op.entry
                  \/ \E j \in 1..Len(mem) : l[k] = mem[j] /\ NameOf(mem[j]) # NameOf(op.entry)
             /\ Len(l) \in Nat \ {0} /\ l[Len(l)] = op.entry
<1> DEFINE e == op.entry
           es == MakeLatest(mem, e)
           l == EvictTo(es, budget)
<1>1. /\ e \in Entries /\ Bytes[Len(e.ids)] <= budget /\ Bytes[Len(e.ids)] \in Nat
      /\ mem \in Seq(Entries) /\ Distinct(mem) /\ budget \in Nat
  BY OpIs, EntryIs DEF DiskInv, Index
<1> HIDE DEF e
<1>2. /\ es \in Seq(Entries) /\ Len(es) \in Nat \ {0} /\ es[Len(es)] = e
      /\ \A k \in 1..Len(es) :
           es[k] = e \/ \E j \in 1..Len(mem) : es[k] = mem[j] /\ NameOf(mem[j]) # NameOf(e)
      /\ NamesOf(es) = NamesOf(mem) \cup {NameOf(e)}
      /\ Distinct(es)
  BY <1>1, MakeLatestIs
<1> HIDE DEF es
<1>3. /\ l \in Seq(Entries) /\ TotalBytes(l) <= budget
      /\ \A k \in 1..Len(l) : \E j \in 1..Len(es) : l[k] = es[j]
      /\ NamesOf(l) \subseteq NamesOf(es)
      /\ Distinct(es) => Distinct(l)
      /\ Len(es) # 0 /\ Bytes[Len(es[Len(es)].ids)] \in 0..budget =>
           Len(l) # 0 /\ l[Len(l)] = es[Len(es)]
  BY <1>1, <1>2, EvictedIs
<1> HIDE DEF l
<1>4. Bytes[Len(es[Len(es)].ids)] \in 0..budget
  BY <1>1, <1>2
<1>5. Len(l) \in Nat \ {0} /\ l[Len(l)] = e
  BY <1>2, <1>3, <1>4
<1>6. ASSUME NEW k \in 1..Len(l)
      PROVE  l[k] = e \/ \E j \in 1..Len(mem) : l[k] = mem[j] /\ NameOf(mem[j]) # NameOf(e)
  <2>1. PICK j \in 1..Len(es) : l[k] = es[j]
    BY <1>3
  <2> QED
    BY <1>2, <2>1
<1>7. Index(es) /\ Index(l)
  BY <1>2, <1>3 DEF Index
<1> QED
  BY <1>2, <1>3, <1>5, <1>6, <1>7 DEF l, es, e

LEMMA IndexEntryStep ==
  ASSUME DiskOK, IndexEntry
  PROVE  DiskOK'
<1> DEFINE e == op.entry
           es == MakeLatest(mem, e)
           l == EvictTo(es, budget)
           gone == NamesOf(es) \ NamesOf(l)
<1>1. DiskInv /\ WholeInv /\ op.pc = "indexing"
  BY DEF DiskOK, IndexEntry
<1>2. /\ mem' = l /\ Delete(gone) /\ op' = [pc |-> "save", next |-> Idle]
      /\ UNCHANGED <<saved, budget, crashes>>
  BY DEF IndexEntry
<1>3. /\ Index(l) /\ NamesOf(es) = NamesOf(mem) \cup {NameOf(e)} /\ NamesOf(l) \subseteq NamesOf(es)
      /\ \A k \in 1..Len(l) :
           l[k] = e \/ \E j \in 1..Len(mem) : l[k] = mem[j] /\ NameOf(mem[j]) # NameOf(e)
  BY <1>1, Inserted
<1>4. e \in Entries
  BY <1>1, OpIs
<1>5. WholeInv => (crashes = 0 /\ errors = 0 =>
                     StoredBut(mem, files, NameOf(e)) /\ files[NameOf(e)] = e.ids)
  BY <1>1 DEF WholeInv
<1> HIDE DEF e, es, l
<1>6. /\ FilesOK(files') /\ errors' \in Nat /\ errors' >= errors
      /\ errors' = errors => files' = [k \in FileNames |-> IF k \in gone THEN Absent ELSE files[k]]
  BY <1>1, <1>2, DeleteKeeps
<1>7. OpOK(op', budget') /\ op'.pc = "save"
  BY <1>2 DEF OpOK
<1>8. DiskInv'
  BY <1>1, <1>2, <1>3, <1>6, <1>7 DEF DiskInv
<1>9. ASSUME StoredBut(mem, files, NameOf(e)), files[NameOf(e)] = e.ids, errors' = errors
      PROVE  Stored(l, files')
  <2>1. files' = [k \in FileNames |-> IF k \in gone THEN Absent ELSE files[k]]
    BY <1>6, <1>9
  <2>2. ASSUME NEW i \in 1..Len(l)
        PROVE  files'[NameOf(l[i])] = l[i].ids
    <3>1. l[i] \in Entries
      BY <1>3 DEF Index
    <3>2. NameOf(l[i]) \in FileNames /\ NameOf(l[i]) \in NamesOf(l)
      BY <3>1, EntryIs DEF NamesOf
    <3>3. files'[NameOf(l[i])] = files[NameOf(l[i])]
      BY <2>1, <3>2
    <3>4. files[NameOf(l[i])] = l[i].ids
      <4>1. CASE l[i] = e
        BY <1>9, <4>1
      <4>2. CASE l[i] # e
        <5>1. PICK j \in 1..Len(mem) : l[i] = mem[j] /\ NameOf(mem[j]) # NameOf(e)
          BY <1>3, <4>2
        <5>2. files[NameOf(mem[j])] = mem[j].ids
          BY <1>9, <5>1 DEF StoredBut
        <5> QED
          BY <5>1, <5>2
      <4> QED
        BY <4>1, <4>2
    <3> QED
      BY <3>3, <3>4
  <2>3. {k \in FileNames : files[k] # Absent} = NamesOf(es)
    BY <1>3, <1>9 DEF StoredBut
  <2>4. {k \in FileNames : files'[k] # Absent} = NamesOf(l)
    BY <1>3, <2>1, <2>3
  <2> QED
    BY <2>2, <2>4 DEF Stored
<1>10. crashes' = 0 /\ errors' = 0 => crashes = 0 /\ errors = 0 /\ errors' = errors
  BY <1>1, <1>2, <1>6 DEF DiskInv
<1>11. WholeInv'
  BY <1>1, <1>2, <1>5, <1>7, <1>9, <1>10 DEF WholeInv
<1> QED
  BY <1>8, <1>11 DEF DiskOK

LEMMA SaveStep ==
  ASSUME DiskOK, SaveBegin \/ SaveEnd
  PROVE  DiskOK'
<1>1. DiskInv /\ WholeInv /\ op.pc \in {"save", "saving"}
  BY DEF DiskOK, SaveBegin, SaveEnd
<1>2. /\ op = [pc |-> op.pc, next |-> op.next] /\ op.next.pc \in {"idle", "finding"}
      /\ op.next = Idle \/ Looking(op.next)
  BY <1>1, OpIs
<1>3. UNCHANGED <<mem, files, budget, crashes, errors>>
  BY DEF SaveBegin, SaveEnd
<1>4. WholeInv => (crashes = 0 /\ errors = 0 => Stored(mem, files))
  BY <1>1 DEF WholeInv
<1>5. CASE SaveBegin
  <2>1. op' = [pc |-> "saving", next |-> op.next] /\ saved' = Torn
    BY <1>2, <1>5 DEF SaveBegin
  <2>2. op'.pc = "saving" /\ OpOK(op', budget')
    BY <1>2, <2>1 DEF OpOK
  <2>3. DiskInv'
    BY <1>1, <1>3, <2>1, <2>2 DEF DiskInv
  <2>4. WholeInv'
    BY <1>1, <1>3, <1>4, <2>2 DEF WholeInv
  <2> QED
    BY <2>3, <2>4 DEF DiskOK
<1>6. CASE SaveEnd
  <2>1. op' = op.next /\ saved' = mem
    BY <1>6 DEF SaveEnd
  <2>2. op'.pc \in {"idle", "finding"} /\ OpOK(op', budget')
    BY <1>2, <2>1 DEF OpOK
  <2>3. DiskInv'
    BY <1>1, <1>3, <2>1, <2>2 DEF DiskInv
  <2>4. WholeInv'
    BY <1>1, <1>3, <1>4, <2>1, <2>2 DEF WholeInv
  <2> QED
    BY <2>3, <2>4 DEF DiskOK
<1> QED
  BY <1>5, <1>6

LEMMA FindStep ==
  ASSUME DiskOK,
         FindNothing \/ \E stamp \in Stamps, ids \in Requests : FindBest(stamp, ids)
  PROVE  DiskOK'
<1>1. DiskInv /\ WholeInv /\ op.pc \in {"idle", "finding"}
  BY DEF DiskOK, FindNothing, FindBest, Idle
<1>2. /\ op' = Idle \/ Looking(op')
      /\ UNCHANGED <<mem, files, saved, budget, crashes, errors>>
  BY DEF FindNothing, FindBest, Looking
<1>3. op'.pc \in {"idle", "finding"} /\ OpOK(op', budget')
  BY <1>2 DEF OpOK, Looking, Idle
<1>4. DiskInv'
  BY <1>1, <1>2, <1>3 DEF DiskInv
<1>5. WholeInv'
  BY <1>1, <1>2, <1>3 DEF WholeInv
<1> QED
  BY <1>4, <1>5 DEF DiskOK

\* The candidate a lookup tries.
LEMMA BestIs ==
  ASSUME DiskInv, Ahead, op.pc = "finding", op.left # {}
  PROVE  /\ op.ids \in Requests /\ Best \in op.left /\ Best \in Entries
         /\ \E i \in 1..Len(mem) : Best = mem[i]
         /\ Best.stamp = op.stamp
         /\ Len(Best.ids) < Len(op.ids) /\ Best.ids = SubSeq(op.ids, 1, Len(Best.ids))
         /\ \A d \in op.left : Len(d.ids) <= Len(Best.ids)
<1>1. op.ids \in Requests /\ mem \in Seq(Entries)
  BY OpIs DEF DiskInv, Index
<1>2. op.left = Candidates(mem, op.stamp, op.ids)
  BY DEF Ahead
<1> QED
  BY <1>1, <1>2, LongestIs DEF Best

LEMMA ServeStep ==
  ASSUME DiskOK, Ahead, Serve
  PROVE  DiskOK'
<1>1. DiskInv /\ WholeInv /\ op.pc = "finding" /\ op.left # {}
  BY DEF DiskOK, Serve
<1>2. /\ mem' = MakeLatest(mem, Best) /\ op' = [pc |-> "save", next |-> Idle]
      /\ UNCHANGED <<files, saved, budget, crashes, errors>>
  BY DEF Serve
<1>3. Best \in Entries /\ \E i \in 1..Len(mem) : Best = mem[i]
  BY <1>1, BestIs
<1>4. mem \in Seq(Entries) /\ Distinct(mem)
  BY <1>1 DEF DiskInv, Index
<1>5. /\ mem' \in Seq(Entries) /\ Distinct(mem')
      /\ \A k \in 1..Len(mem') :
           mem'[k] = Best \/ \E j \in 1..Len(mem) : mem'[k] = mem[j]
      /\ NamesOf(mem') = NamesOf(mem) \cup {NameOf(Best)}
  <2> DEFINE l == MakeLatest(mem, Best)
  <2>1. /\ l \in Seq(Entries) /\ NamesOf(l) = NamesOf(mem) \cup {NameOf(Best)}
        /\ Distinct(mem) => Distinct(l)
        /\ \A k \in 1..Len(l) :
             l[k] = Best \/ \E j \in 1..Len(mem) : l[k] = mem[j] /\ NameOf(mem[j]) # NameOf(Best)
    BY <1>3, <1>4, MakeLatestIs, Zenon
  <2>2. mem' = l
    BY <1>2
  <2> HIDE DEF l
  <2>3. \A k \in 1..Len(l) : l[k] = Best \/ \E j \in 1..Len(mem) : l[k] = mem[j]
    BY <2>1, Zenon
  <2> QED
    BY <1>4, <2>1, <2>2, <2>3, Zenon
<1>6. OpOK(op', budget') /\ op'.pc = "save"
  BY <1>2 DEF OpOK
<1>7. DiskInv'
  BY <1>1, <1>2, <1>5, <1>6 DEF DiskInv, Index
<1>8. ASSUME Stored(mem, files)
      PROVE  Stored(mem', files')
  <2>1. \A k \in 1..Len(mem') : \E j \in 1..Len(mem) : mem'[k] = mem[j]
    BY <1>3, <1>5, Zenon
  <2>2. \A k \in 1..Len(mem') : files'[NameOf(mem'[k])] = mem'[k].ids
    BY <1>2, <1>8, <2>1 DEF Stored
  <2>3. NameOf(Best) \in NamesOf(mem)
    BY <1>3 DEF NamesOf
  <2>4. NamesOf(mem') = NamesOf(mem)
    BY <1>5, <2>3
  <2> QED
    BY <1>2, <1>8, <2>2, <2>4 DEF Stored
<1>9. WholeInv'
  BY <1>1, <1>2, <1>6, <1>8 DEF WholeInv
<1> QED
  BY <1>7, <1>9 DEF DiskOK

\* With no death and no failure every entry's file is readable: none is dropped.
LEMMA DropBrokenStep ==
  ASSUME DiskOK, Ahead, DropBroken
  PROVE  DiskOK'
<1> DEFINE name == NameOf(Best)
           next == [op EXCEPT !.left = @ \ {Best}]
<1>1. DiskInv /\ WholeInv /\ op.pc = "finding" /\ op.left # {} /\ ~ Readable(name)
  BY DEF DiskOK, DropBroken
<1>2. /\ mem' = Others(mem, name) /\ Delete({name}) /\ op' = [pc |-> "save", next |-> next]
      /\ UNCHANGED <<saved, budget, crashes>>
  BY DEF DropBroken
<1>3. Looking(next) /\ Best \in Entries /\ \E i \in 1..Len(mem) : Best = mem[i]
  <2>1. Looking(op)
    BY <1>1, OpIs
  <2>2. PICK stamp \in Stamps, ids \in Requests :
          \E left : op = [pc |-> "finding", stamp |-> stamp, ids |-> ids, left |-> left]
    BY <2>1 DEF Looking
  <2>3. next = [pc |-> "finding", stamp |-> stamp, ids |-> ids, left |-> op.left \ {Best}]
    BY <2>2
  <2>4. Looking(next)
    BY <2>3 DEF Looking
  <2> QED
    BY <1>1, <2>4, BestIs
<1>4. mem \in Seq(Entries) /\ Distinct(mem)
  BY <1>1 DEF DiskInv, Index
<1>5. Stored(mem, files) => FALSE
  <2>1. Best.ids # Absent /\ Best.ids # Torn
    BY <1>3, EntryIs
  <2>2. Stored(mem, files) => files[name] = Best.ids
    BY <1>3 DEF Stored
  <2> QED
    BY <1>1, <2>1, <2>2 DEF Readable
<1> HIDE DEF name, next
<1>6. Index(mem')
  <2>1. Others(mem, name) \in Seq(Entries) /\ (Distinct(mem) => Distinct(Others(mem, name)))
    BY <1>4, OthersAre
  <2> QED
    BY <1>2, <1>4, <2>1 DEF Index
<1>7. FilesOK(files') /\ errors' \in Nat /\ errors' >= errors
  BY <1>1, <1>2, DeleteKeeps
<1>8. OpOK(op', budget')
  BY <1>2, <1>3 DEF OpOK
<1>9. DiskInv'
  BY <1>1, <1>2, <1>6, <1>7, <1>8 DEF DiskInv
<1>10. crashes # 0 \/ errors # 0
  BY <1>1, <1>5 DEF WholeInv
<1>11. crashes' # 0 \/ errors' # 0
  BY <1>1, <1>2, <1>7, <1>10 DEF DiskInv
<1> QED
  BY <1>1, <1>9, <1>11, FaultKeeps

\* Rotten files and deaths.
LEMMA RotStep ==
  ASSUME DiskOK, NEW name \in FileNames, Rot(name)
  PROVE  DiskOK'
<1>1. DiskInv
  BY DEF DiskOK
<1>2. /\ files' = [files EXCEPT ![name] = Torn] /\ errors' = errors + 1
      /\ UNCHANGED <<mem, saved, op, budget, crashes>>
  BY DEF Rot, Fault
<1>3. FilesOK(files) /\ errors \in Nat
  BY <1>1 DEF DiskInv
<1>4. FilesOK(files')
  BY <1>2, <1>3, OneFileChanges
<1>5. errors' \in Nat /\ errors' # 0
  BY <1>2, <1>3
<1>6. DiskInv'
  BY <1>1, <1>2, <1>4, <1>5 DEF DiskInv
<1> QED
  BY <1>1, <1>5, <1>6, FaultKeeps

LEMMA StopStep ==
  ASSUME DiskOK, Exit \/ Crash
  PROVE  DiskOK'
<1>1. DiskInv /\ WholeInv
  BY DEF DiskOK
<1>2. /\ op' = Down /\ mem' = <<>> /\ crashes \in Nat
      /\ UNCHANGED <<files, saved, budget, errors>>
  BY <1>1 DEF Exit, Crash, DiskInv
<1>3. Index(mem')
  BY <1>2, EmptySeq DEF Index, Distinct
<1>4. OpOK(op', budget') /\ op'.pc = "down"
  BY <1>2 DEF OpOK, Down
<1>5. CASE Crash
  <2>1. crashes' \in Nat /\ crashes' # 0
    BY <1>2, <1>5 DEF Crash
  <2>2. DiskInv'
    BY <1>1, <1>2, <1>3, <1>4, <2>1 DEF DiskInv
  <2> QED
    BY <1>1, <2>1, <2>2, FaultKeeps
<1>6. CASE Exit
  <2>1. op.pc = "idle" /\ crashes' = crashes
    BY <1>6 DEF Exit, Idle
  <2>2. DiskInv'
    BY <1>1, <1>2, <1>3, <1>4, <2>1 DEF DiskInv
  <2>3. saved = mem => saved # Torn
    BY <1>1, DiskAssumption DEF DiskInv, Index
  <2>4. WholeInv'
    BY <1>1, <1>2, <1>4, <2>1, <2>3 DEF WholeInv
  <2> QED
    BY <2>2, <2>4 DEF DiskOK
<1> QED
  BY <1>5, <1>6

LEMMA NextOK ==
  ASSUME DiskOK, Ahead, [Next]_vars
  PROVE  DiskOK'
<1>1. CASE UNCHANGED vars
  BY <1>1 DEF vars, DiskOK, DiskInv, WholeInv
<1>2. CASE Step
  BY <1>2, WriteFileStep, FailureStep, IndexEntryStep, SaveStep, FindStep, ServeStep,
     DropBrokenStep DEF Step
<1>3. CASE Next
  BY <1>2, <1>3, OpenStep, InsertStep, FindStep, RotStep, StopStep DEF Next
<1> QED
  BY <1>1, <1>3

\* Entries of one file have one stamp and one length, since the name holds both.
LEMMA NameHolds ==
  ASSUME NEW d \in Entries, NEW e \in Entries, NameOf(d) = NameOf(e)
  PROVE  d.stamp = e.stamp /\ Len(d.ids) = Len(e.ids) /\ Hash[d.ids] = Hash[e.ids]
<1>1. <<d.stamp, Len(d.ids), Hash[d.ids]>> = <<e.stamp, Len(e.ids), Hash[e.ids]>>
  BY EntryIs
<1> QED
  BY <1>1

\* Dropping a broken file takes it off the index and off the list: candidates of one
\* request have different lengths, so no other one has the file's name.
LEMMA OthersAhead ==
  ASSUME DiskInv, Ahead, DropBroken
  PROVE  Candidates(mem', op.stamp, op.ids) = op.left \ {Best}
<1> DEFINE C == Candidates(mem, op.stamp, op.ids)
<1>1. /\ mem \in Seq(Entries) /\ op.left = C /\ mem' = Others(mem, NameOf(Best))
      /\ Best \in C /\ Best \in Entries
  BY BestIs DEF DropBroken, Ahead, DiskInv, Index
<1>2. /\ mem' \in Seq(Entries)
      /\ \A k \in 1..Len(mem') :
           NameOf(mem'[k]) # NameOf(Best) /\ \E j \in 1..Len(mem) : mem'[k] = mem[j]
      /\ \A j \in 1..Len(mem) : NameOf(mem[j]) # NameOf(Best) =>
           \E k \in 1..Len(mem') : mem'[k] = mem[j]
  BY <1>1, OthersAre
<1>3. ASSUME NEW e
      PROVE  e \in ToSet(mem') <=> e \in ToSet(mem) /\ NameOf(e) # NameOf(Best)
  <2>1. DOMAIN mem = 1..Len(mem) /\ DOMAIN mem' = 1..Len(mem')
    BY <1>1, <1>2
  <2>2. e \in ToSet(mem') <=> \E k \in 1..Len(mem') : mem'[k] = e
    BY <2>1 DEF ToSet
  <2>3. e \in ToSet(mem) <=> \E j \in 1..Len(mem) : mem[j] = e
    BY <2>1 DEF ToSet
  <2>4. e \in ToSet(mem') => e \in ToSet(mem) /\ NameOf(e) # NameOf(Best)
    BY <1>2, <2>2, <2>3, Zenon
  <2>5. e \in ToSet(mem) /\ NameOf(e) # NameOf(Best) => e \in ToSet(mem')
    BY <1>2, <2>2, <2>3, Zenon
  <2> QED
    BY <2>4, <2>5
<1>4. ASSUME NEW e \in C, NameOf(e) = NameOf(Best)
      PROVE  e = Best
  <2>1. e \in Entries
    <3>1. DOMAIN mem = 1..Len(mem) /\ e \in ToSet(mem)
      BY <1>1 DEF Candidates
    <3> QED
      BY <1>1, <3>1 DEF ToSet
  <2>2. Len(e.ids) = Len(Best.ids)
    BY <1>1, <1>4, <2>1, NameHolds
  <2>3. /\ e.ids = SubSeq(op.ids, 1, Len(e.ids)) /\ e.stamp = op.stamp
        /\ Best.ids = SubSeq(op.ids, 1, Len(Best.ids)) /\ Best.stamp = op.stamp
    BY <1>1 DEF Candidates
  <2>4. e = [stamp |-> e.stamp, ids |-> e.ids] /\ Best = [stamp |-> Best.stamp, ids |-> Best.ids]
    BY <1>1, <2>1, EntryIs
  <2> QED
    BY <2>2, <2>3, <2>4
<1>5. ASSUME NEW e
      PROVE  e \in Candidates(mem', op.stamp, op.ids) <=> e \in C /\ NameOf(e) # NameOf(Best)
  BY <1>3 DEF Candidates
<1>6. ASSUME NEW e
      PROVE  e \in Candidates(mem', op.stamp, op.ids) <=> e \in C /\ e # Best
  BY <1>4, <1>5
<1> QED
  BY <1>1, <1>6

LEMMA AheadKept ==
  ASSUME DiskOK, Ahead, [Next]_vars
  PROVE  Ahead'
<1> SUFFICES ASSUME op'.pc = "finding" \/ (op'.pc \in {"save", "saving"} /\ op'.next.pc = "finding")
             PROVE  Ahead'
  BY DEF Ahead
<1>1. CASE UNCHANGED <<mem, op>>
  BY <1>1 DEF Ahead
<1>2. CASE \/ Open \/ FindNothing \/ Exit \/ Crash \/ WriteFileFails \/ IndexEntry \/ Serve
           \/ \E stamp \in Stamps, ids \in Captured : Insert(stamp, ids)
  BY <1>2 DEF Open, FindNothing, Exit, Crash, WriteFileFails, IndexEntry, Serve, Insert, Idle, Down
<1>3. ASSUME NEW stamp \in Stamps, NEW ids \in Requests, FindBest(stamp, ids)
      PROVE  Ahead'
  <2>1. /\ op' = [pc |-> "finding", stamp |-> stamp, ids |-> ids,
                  left |-> Candidates(mem, stamp, ids)]
        /\ mem' = mem
    BY <1>3 DEF FindBest
  <2>2. op'.pc = "finding" /\ op'.left = Candidates(mem, op'.stamp, op'.ids)
    BY <2>1
  <2> QED
    BY <2>1, <2>2 DEF Ahead
<1>4. CASE WriteFile
  <2>1. op' = [pc |-> "indexing", entry |-> op.entry]
    BY <1>4, OpIs DEF WriteFile, DiskOK
  <2> QED
    BY <2>1
<1>5. CASE SaveBegin \/ SaveEnd \/ SaveFails
  <2>1. /\ op = [pc |-> op.pc, next |-> op.next] /\ op.next.pc \in {"idle", "finding"}
        /\ op.pc \in {"save", "saving"} /\ mem' = mem
    BY <1>5, OpIs DEF SaveBegin, SaveEnd, SaveFails, DiskOK
  <2>2. op' = [pc |-> "saving", next |-> op.next] \/ op' = op.next
    BY <1>5, <2>1 DEF SaveBegin, SaveEnd, SaveFails
  <2> QED
    BY <2>1, <2>2 DEF Ahead
<1>6. CASE DropBroken
  <2> DEFINE next == [op EXCEPT !.left = @ \ {Best}]
  <2>1. op' = [pc |-> "save", next |-> next] /\ Looking(op)
    BY <1>6, OpIs DEF DropBroken, DiskOK
  <2>2. /\ next.pc = "finding" /\ next.left = op.left \ {Best}
        /\ next.stamp = op.stamp /\ next.ids = op.ids
    BY <2>1 DEF Looking
  <2>3. Candidates(mem', op.stamp, op.ids) = op.left \ {Best}
    BY <1>6, OthersAhead DEF DiskOK
  <2> HIDE DEF next
  <2>4. op'.pc = "save" /\ op'.next = next
    BY <2>1
  <2> QED
    BY <2>2, <2>3, <2>4 DEF Ahead
<1> QED
  BY <1>1, <1>2, <1>3, <1>4, <1>5, <1>6 DEF Next, Step, Rot, vars

-----------------------------------------------------------------------------
(***************************************************************************)
(* Whatever dies or fails, and in whatever order: an index names each file *)
(* once, and a file that can be read holds a captured prefix that has the  *)
(* file's name.  As long as nothing did, the directory holds the entries'  *)
(* files and at most the one that is being written (disk.rs:60-134).       *)
(***************************************************************************)
THEOREM DiskInvariant == Spec => [](DiskOK /\ Ahead)
<1>1. Init => Ahead
  BY DEF Init, Ahead, Down
<1> QED
  BY <1>1, InitOK, NextOK, AheadKept, PTL DEF Spec

LEMMA WholeWhenIdle == DiskOK => RestartLosesNothing
<1> SUFFICES ASSUME DiskOK, op = Idle, crashes = 0, errors = 0
             PROVE  /\ saved = mem
                    /\ \A i \in 1..Len(mem) : /\ Readable(NameOf(mem[i]))
                                              /\ files[NameOf(mem[i])] = mem[i].ids
                    /\ {k \in FileNames : files[k] # Absent} = NamesOf(mem)
  BY DEF RestartLosesNothing
<1>1. op.pc = "idle" /\ mem \in Seq(Entries)
  BY DEF Idle, DiskOK, DiskInv, Index
<1>2. saved = mem /\ Stored(mem, files)
  BY <1>1 DEF DiskOK, WholeInv
<1>3. ASSUME NEW i \in 1..Len(mem)
      PROVE  Readable(NameOf(mem[i])) /\ files[NameOf(mem[i])] = mem[i].ids
  <2>1. files[NameOf(mem[i])] = mem[i].ids
    BY <1>2 DEF Stored
  <2>2. mem[i].ids # Absent /\ mem[i].ids # Torn
    BY <1>1, EntryIs
  <2> QED
    BY <2>1, <2>2 DEF Readable
<1> QED
  BY <1>2, <1>3 DEF Stored

(***************************************************************************)
(* A restart between two calls loses nothing as long as no process died in *)
(* the middle of a call and no write or delete failed: index.json is the   *)
(* index, and the directory is the entries' readable files.                *)
(***************************************************************************)
THEOREM DiskRestartLosesNothing == Spec => []RestartLosesNothing
<1> QED
  BY DiskInvariant, WholeWhenIdle, PTL

\* An index that names each file once has as many files as entries.
LEMMA NamesCounted ==
  ASSUME NEW es, Index(es)
  PROVE  Cardinality(NamesOf(es)) = Len(es)
<1> DEFINE f == [i \in 1..Len(es) |-> NameOf(es[i])]
<1>1. Len(es) \in Nat
  BY DEF Index
<1>2. IsFiniteSet(1..Len(es)) /\ Cardinality(1..Len(es)) = Len(es)
  <2>1. /\ IsFiniteSet(1..Len(es))
        /\ Cardinality(1..Len(es)) = IF 1 > Len(es) THEN 0 ELSE Len(es) - 1 + 1
    BY <1>1, FS_Interval
  <2> QED
    BY <1>1, <2>1
<1>3. f \in Bijection(1..Len(es), NamesOf(es))
  <2>1. f \in [1..Len(es) -> NamesOf(es)]
    BY DEF NamesOf
  <2>2. \A i, j \in 1..Len(es) : f[i] = f[j] => i = j
    BY DEF Index, Distinct
  <2>3. \A name \in NamesOf(es) : \E i \in 1..Len(es) : f[i] = name
    BY DEF NamesOf
  <2> HIDE DEF f
  <2> QED
    BY <2>1, <2>2, <2>3 DEF Bijection, Injection, Surjection, IsInjective
<1> HIDE DEF f
<1>4. ExistsBijection(1..Len(es), NamesOf(es))
  BY <1>3 DEF ExistsBijection
<1> QED
  BY <1>2, <1>4, FS_Bijection

\* Only IndexEntry goes from the file that was written to the index to save.
LEMMA InsertionFits ==
  ASSUME DiskOK, Next, op.pc = "indexing", op'.pc = "save"
  PROVE  /\ TotalBytes(mem') <= budget
         /\ Cardinality(NamesOf(mem')) = Len(mem')
         /\ op.entry \in ToSet(mem')
<1>1. op # Idle /\ op # Down
  BY DEF Idle, Down
<1>2. \A name \in FileNames : ~ Rot(name)
  BY DEF Rot
<1>3. ~ Crash
  BY DEF Crash, Down
<1>4. IndexEntry
  BY <1>1, <1>2, <1>3 DEF Next, Step, Open, Insert, WriteFile, WriteFileFails, SaveBegin, SaveEnd,
     SaveFails, FindBest, FindNothing, Serve, DropBroken, Exit
<1> DEFINE l == EvictTo(MakeLatest(mem, op.entry), budget)
<1>5. mem' = l
  BY <1>4 DEF IndexEntry
<1>6. Index(l) /\ TotalBytes(l) <= budget /\ Len(l) \in Nat \ {0} /\ l[Len(l)] = op.entry
  BY Inserted, Zenon DEF DiskOK
<1> HIDE DEF l
<1>7. Cardinality(NamesOf(l)) = Len(l)
  BY <1>6, NamesCounted
<1>8. op.entry \in ToSet(l)
  <2>1. DOMAIN l = 1..Len(l) /\ Len(l) \in 1..Len(l)
    BY <1>6 DEF Index
  <2> QED
    BY <1>6, <2>1 DEF ToSet
<1>9. TotalBytes(mem') <= budget
  BY <1>5, <1>6
<1> QED
  BY <1>5, <1>6, <1>7, <1>8, <1>9

(***************************************************************************)
(* An insertion brings what the index accounts for under the budget, keeps *)
(* its own entry and names no file twice, for any directory that a smaller *)
(* budget, rotten files or a lost index.json left behind.                  *)
(***************************************************************************)
THEOREM DiskIndexWithinBudget == Spec => IndexWithinBudget
<1>1. DiskOK /\ [Next]_vars =>
        [op.pc = "indexing" /\ op'.pc = "save" =>
           /\ TotalBytes(mem') <= budget
           /\ Cardinality(NamesOf(mem')) = Len(mem')
           /\ op.entry \in ToSet(mem')]_vars
  BY InsertionFits
<1> QED
  BY <1>1, DiskInvariant, PTL DEF Spec, IndexWithinBudget

-----------------------------------------------------------------------------
\* What a lookup reads from the file of its best candidate.
LEMMA ServedIs ==
  ASSUME DiskInv, Ahead, Serve
  PROVE  /\ served' = [hit |-> TRUE, stamp |-> op.stamp, ids |-> op.ids, snap |-> files[NameOf(Best)]]
         /\ \E e \in Entries : NameOf(e) = NameOf(Best) /\ files[NameOf(Best)] = e.ids
<1>1. op.pc = "finding" /\ op.left # {} /\ Readable(NameOf(Best))
      /\ served' = [hit |-> TRUE, stamp |-> op.stamp, ids |-> op.ids, snap |-> files[NameOf(Best)]]
  BY DEF Serve
<1>2. Best \in Entries
  BY <1>1, BestIs
<1>3. NameOf(Best) \in FileNames
  BY <1>2, EntryIs
<1>4. files[NameOf(Best)] \notin {Absent, Torn}
  BY <1>1 DEF Readable
<1> QED
  BY <1>1, <1>3, <1>4 DEF DiskInv, FilesOK

\* Only Serve returns a hit.
LEMMA OnlyServeHits ==
  ASSUME Next, served' # served, served'.hit
  PROVE  Serve
<1>1. served' # Miss
  BY DEF Miss
<1>2. \A name \in FileNames : ~ Rot(name)
  BY DEF Rot
<1> QED
  BY <1>1, <1>2 DEF Next, Step, Open, Insert, WriteFile, WriteFileFails, IndexEntry, SaveBegin,
     SaveEnd, SaveFails, FindBest, FindNothing, DropBroken, Exit, Crash

LEMMA LongestServed ==
  ASSUME DiskInv, Ahead, Next, served' # served, served'.hit
  PROVE  \A e \in Candidates(mem, op.stamp, op.ids) :
           Len(e.ids) > Len(served'.snap) => ~ Readable(NameOf(e))
<1>1. Serve
  BY OnlyServeHits
<1>2. PICK d \in Entries : NameOf(d) = NameOf(Best) /\ files[NameOf(Best)] = d.ids
  BY <1>1, ServedIs
<1>3. served'.snap = d.ids
  BY <1>1, <1>2, ServedIs
<1>4. Best \in Entries /\ \A e \in Candidates(mem, op.stamp, op.ids) : Len(e.ids) <= Len(Best.ids)
  BY <1>1, BestIs DEF Serve, Ahead
<1>5. Len(d.ids) = Len(Best.ids)
  BY <1>2, <1>4, NameHolds
<1>6. ASSUME NEW e \in Candidates(mem, op.stamp, op.ids), Len(e.ids) > Len(served'.snap)
      PROVE  FALSE
  <2>1. e \in Entries
    <3>1. mem \in Seq(Entries) /\ e \in ToSet(mem)
      BY <1>6 DEF Candidates, DiskInv, Index
    <3> QED
      BY <3>1 DEF ToSet
  <2>2. Len(e.ids) \in Nat /\ Len(Best.ids) \in Nat
    BY <1>4, <2>1, EntryIs
  <2>3. Len(e.ids) <= Len(Best.ids) /\ Len(e.ids) > Len(Best.ids)
    BY <1>3, <1>4, <1>5, <1>6
  <2> QED
    BY <2>2, <2>3
<1> QED
  BY <1>6

(***************************************************************************)
(* A hit is the longest one the directory could serve, whatever files are  *)
(* torn, rotten or gone: no longer exact prefix that the index names has a *)
(* readable file.                                                          *)
(***************************************************************************)
THEOREM DiskServesLongest == Spec => ServesLongestReadable
<1>1. DiskOK /\ Ahead /\ [Next]_vars =>
        [served' # served /\ served'.hit =>
           \A e \in Candidates(mem, op.stamp, op.ids) :
             Len(e.ids) > Len(served'.snap) => ~ Readable(NameOf(e))]_vars
  BY LongestServed DEF DiskOK, vars
<1> QED
  BY <1>1, DiskInvariant, PTL DEF Spec, ServesLongestReadable

\* Only FindNothing and Serve end a lookup.
LEMMA LookupAnswers ==
  ASSUME DiskOK, Next, op.pc = "finding", op' \in {Idle, [pc |-> "save", next |-> Idle]}
  PROVE  FindNothing \/ Serve
<1>1. op # Idle /\ op # Down
  BY DEF Idle, Down
<1>2. op'.pc \in {"idle", "save"} /\ (op'.pc = "save" => op'.next = Idle)
  BY DEF Idle
<1>3. ~ DropBroken
  <2>1. SUFFICES ASSUME DropBroken
                 PROVE  FALSE
    OBVIOUS
  <2> DEFINE next == [op EXCEPT !.left = @ \ {Best}]
  <2>2. op' = [pc |-> "save", next |-> next] /\ Looking(op)
    BY <2>1, OpIs DEF DropBroken, DiskOK
  <2>3. next.pc = "finding"
    BY <2>2 DEF Looking
  <2> HIDE DEF next
  <2> QED
    BY <1>2, <2>2, <2>3 DEF Idle
<1>4. ~ Crash /\ \A name \in FileNames : ~ Rot(name)
  BY <1>2 DEF Crash, Rot, Down
<1> QED
  BY <1>1, <1>3, <1>4 DEF Next, Step, Open, Insert, WriteFile, WriteFileFails, IndexEntry, SaveBegin,
     SaveEnd, SaveFails, FindBest, Exit

LEMMA AnsweredForgets ==
  ASSUME DiskOK, Ahead, Next, op.pc = "finding", op' \in {Idle, [pc |-> "save", next |-> Idle]},
         NEW e \in Candidates(mem', op.stamp, op.ids)
  PROVE  served'.hit /\ Len(e.ids) <= Len(served'.snap)
<1>1. DiskInv /\ op.left = Candidates(mem, op.stamp, op.ids)
  BY DEF DiskOK, Ahead
<1>2. CASE FindNothing
  BY <1>1, <1>2 DEF FindNothing
<1>3. CASE Serve
  <2>1. PICK d \in Entries : NameOf(d) = NameOf(Best) /\ files[NameOf(Best)] = d.ids
    BY <1>1, <1>3, ServedIs
  <2>2. served'.hit /\ served'.snap = d.ids
    BY <1>1, <1>3, <2>1, ServedIs
  <2>3. Best \in Entries /\ \A c \in op.left : Len(c.ids) <= Len(Best.ids)
    BY <1>1, <1>3, BestIs DEF Serve
  <2>4. Len(d.ids) = Len(Best.ids) /\ Len(Best.ids) \in Nat
    BY <2>1, <2>3, NameHolds, EntryIs
  <2> DEFINE l == MakeLatest(mem, Best)
  <2>5. mem' = l /\ mem \in Seq(Entries)
    BY <1>1, <1>3 DEF Serve, DiskInv, Index
  <2>6. /\ l \in Seq(Entries)
        /\ \A k \in 1..Len(l) :
             l[k] = Best \/ \E j \in 1..Len(mem) : l[k] = mem[j] /\ NameOf(mem[j]) # NameOf(Best)
    BY <2>3, <2>5, MakeLatestIs, Zenon
  <2> HIDE DEF l
  <2>7. PICK k \in 1..Len(l) : e = l[k]
    BY <2>5, <2>6 DEF Candidates, ToSet
  <2>8. e = Best \/ e \in ToSet(mem)
    <3>1. e = Best \/ \E j \in 1..Len(mem) : e = mem[j]
      BY <2>6, <2>7, Zenon
    <3> QED
      BY <2>5, <3>1 DEF ToSet
  <2>9. e = Best \/ e \in op.left
    BY <1>1, <2>8 DEF Candidates
  <2> QED
    BY <2>2, <2>3, <2>4, <2>9
<1> QED
  BY <1>2, <1>3, LookupAnswers

(***************************************************************************)
(* A broken file is met once: when find_best answers, whatever files were  *)
(* torn, rotten or gone, and whether or not they could be deleted, the     *)
(* index names no exact prefix of the request that is longer than the      *)
(* answer, and none at all after a miss.                                   *)
(***************************************************************************)
THEOREM DiskForgetsBroken == Spec => BrokenAreForgotten
<1>1. DiskOK /\ Ahead /\ [Next]_vars =>
        [op.pc = "finding" /\ op' \in {Idle, [pc |-> "save", next |-> Idle]} =>
           \A e \in Candidates(mem', op.stamp, op.ids) :
             served'.hit /\ Len(e.ids) <= Len(served'.snap)]_vars
  BY AnsweredForgets DEF vars
<1> QED
  BY <1>1, DiskInvariant, PTL DEF Spec, BrokenAreForgotten

-----------------------------------------------------------------------------
\* The chain hash tells captured prefixes of one length apart: find_best compares
\* the request with the index's entry, and nothing compares the entry with its file.
NoCollisions ==
  \A p, q \in Captured : Len(p) = Len(q) /\ Hash[p] = Hash[q] => p = q

\* Files that are cut, lost or left alone are forgotten or stay.
LEMMA FilesLost ==
  ASSUME \A k \in FileNames : files'[k] = files[k] \/ files'[k] \in {Absent, Torn}
  PROVE  Holdings' \subseteq Holdings
<1>1. ASSUME NEW k \in FileNames, Readable(k)'
      PROVE  Readable(k) /\ <<k[1], files'[k]>> = <<k[1], files[k]>>
  BY <1>1 DEF Readable
<1> QED
  BY <1>1 DEF Holdings

LEMMA DeleteLoses ==
  ASSUME NEW names, Delete(names)
  PROVE  Holdings' \subseteq Holdings
<1>1. PICK left \in SUBSET names :
        files' = [k \in FileNames |-> IF k \in names \ left THEN Absent ELSE files[k]]
  BY DEF Delete
<1>2. \A k \in FileNames : files'[k] = files[k] \/ files'[k] \in {Absent, Torn}
  BY <1>1
<1> QED
  BY <1>2, FilesLost

LEMMA CutLoses ==
  ASSUME DiskInv, NEW k \in FileNames, files' = [files EXCEPT ![k] = Torn]
  PROVE  Holdings' \subseteq Holdings
<1>1. DOMAIN files = FileNames
  BY DEF DiskInv, FilesOK
<1>2. \A j \in FileNames : files'[j] = files[j] \/ files'[j] \in {Absent, Torn}
  BY <1>1
<1> QED
  BY <1>2, FilesLost

\* The file of an insertion is cut first, and written once.
Truncated == op.pc = "writing" => files[NameOf(op.entry)] = Torn

LEMMA TruncatedKept ==
  ASSUME DiskInv, Truncated, [Next]_vars
  PROVE  Truncated'
<1> SUFFICES ASSUME op'.pc = "writing"
             PROVE  files'[NameOf(op'.entry)] = Torn
  BY DEF Truncated
<1>1. DOMAIN files = FileNames
  BY DEF DiskInv, FilesOK
<1>2. ASSUME NEW stamp \in Stamps, NEW ids \in Captured, Insert(stamp, ids)
      PROVE  files'[NameOf(op'.entry)] = Torn
  <2> DEFINE e == [stamp |-> stamp, ids |-> ids]
  <2>1. e \in Entries /\ NameOf(e) = KeyOf(stamp, ids)
    BY DEF Entries, NameOf
  <2>2. op'.entry = e /\ files' = [files EXCEPT ![NameOf(e)] = Torn]
    BY <1>2, <2>1 DEF Insert
  <2> HIDE DEF e
  <2> QED
    BY <1>1, <2>1, <2>2, EntryIs
<1>3. ASSUME NEW name \in FileNames, Rot(name)
      PROVE  files'[NameOf(op'.entry)] = Torn
  <2>1. op' = op /\ files' = [files EXCEPT ![name] = Torn]
    BY <1>3 DEF Rot
  <2>2. op.entry \in Entries /\ files[NameOf(op.entry)] = Torn
    BY <2>1, OpIs DEF Truncated
  <2>3. NameOf(op.entry) \in FileNames
    BY <2>2, EntryIs
  <2>4. files'[NameOf(op.entry)] = Torn
    BY <1>1, <2>1, <2>2, <2>3
  <2> QED
    BY <2>1, <2>4
<1>4. CASE UNCHANGED vars
  BY <1>4 DEF vars, Truncated
<1>5. CASE Open \/ FindNothing \/ Exit \/ Crash \/ WriteFileFails
  BY <1>5 DEF Open, FindNothing, Exit, Crash, WriteFileFails, Idle, Down
<1>6. CASE \E stamp \in Stamps, ids \in Requests : FindBest(stamp, ids)
  BY <1>6 DEF FindBest
<1>7. CASE IndexEntry \/ Serve \/ DropBroken
  BY <1>7 DEF IndexEntry, Serve, DropBroken
<1>8. CASE WriteFile
  <2>1. op' = [pc |-> "indexing", entry |-> op.entry]
    BY <1>8, OpIs DEF WriteFile
  <2> QED
    BY <2>1
<1>9. CASE SaveBegin \/ SaveEnd \/ SaveFails
  <2>1. op = [pc |-> op.pc, next |-> op.next] /\ op.next.pc \in {"idle", "finding"}
    BY <1>9, OpIs DEF SaveBegin, SaveEnd, SaveFails
  <2>2. op' = [pc |-> "saving", next |-> op.next] \/ op' = op.next
    BY <1>9, <2>1 DEF SaveBegin, SaveEnd, SaveFails
  <2> QED
    BY <2>1, <2>2
<1> QED
  BY <1>2, <1>3, <1>4, <1>5, <1>6, <1>7, <1>8, <1>9 DEF Next, Step

-----------------------------------------------------------------------------
\* What each step is to the store of prefixes.  A file that is written is kept.
LEMMA WriteKeeps ==
  ASSUME DiskInv, Truncated, WriteFile
  PROVE  Tier!Next
<1> DEFINE e == op.entry
<1>1. e \in Entries /\ files[NameOf(e)] = Torn
  BY OpIs DEF WriteFile, Truncated
<1>2. files' = [files EXCEPT ![NameOf(e)] = e.ids] /\ served' = served
  BY DEF WriteFile
<1> HIDE DEF e
<1>3. /\ DOMAIN files = FileNames /\ NameOf(e) \in FileNames /\ NameOf(e)[1] = e.stamp
      /\ e.ids \notin {Absent, Torn} /\ e.ids \in Captured /\ e.stamp \in Stamps
  <2>1. NameOf(e) = <<e.stamp, Len(e.ids), Hash[e.ids]>>
    BY <1>1, EntryIs
  <2>2. NameOf(e)[1] = e.stamp
    BY <2>1
  <2> QED
    BY <1>1, <2>2, EntryIs DEF DiskInv, FilesOK
<1>4. /\ files'[NameOf(e)] = e.ids
      /\ \A k \in FileNames : k # NameOf(e) => files'[k] = files[k]
  BY <1>2, <1>3
<1>5. Holdings' = Holdings \cup {<<e.stamp, e.ids>>}
  <2>1. ASSUME NEW k \in FileNames
        PROVE  Readable(k)' <=> k = NameOf(e) \/ Readable(k)
    BY <1>1, <1>3, <1>4 DEF Readable
  <2>2. Holdings' = {<<k[1], files'[k]>> : k \in {j \in FileNames : Readable(j)'}}
    BY DEF Holdings
  <2>3. ~ Readable(NameOf(e))
    BY <1>1 DEF Readable
  <2>4. ASSUME NEW k \in FileNames, Readable(k)
        PROVE  <<k[1], files'[k]>> = <<k[1], files[k]>>
    BY <1>4, <2>3, <2>4
  <2>5. <<NameOf(e)[1], files'[NameOf(e)]>> = <<e.stamp, e.ids>>
    BY <1>3, <1>4
  <2> QED
    BY <1>3, <2>1, <2>2, <2>4, <2>5 DEF Holdings
<1>6. Tier!Keep(e.stamp, e.ids)
  BY <1>2, <1>5 DEF Tier!Keep
<1> QED
  BY <1>3, <1>6 DEF Tier!Next

\* A candidate's file holds the candidate's own prefix.
LEMMA ServeAnswers ==
  ASSUME NoCollisions, DiskInv, Ahead, Serve
  PROVE  Tier!Next
<1>1. PICK d \in Entries : NameOf(d) = NameOf(Best) /\ files[NameOf(Best)] = d.ids
  BY ServedIs
<1>2. served' = [hit |-> TRUE, stamp |-> op.stamp, ids |-> op.ids, snap |-> d.ids]
  BY <1>1, ServedIs
<1>3. /\ Best \in Entries /\ Best.stamp = op.stamp /\ Len(Best.ids) < Len(op.ids)
      /\ Best.ids = SubSeq(op.ids, 1, Len(Best.ids)) /\ op.ids \in Requests
  BY BestIs DEF Serve
<1>4. d.ids = Best.ids
  <2>1. Len(d.ids) = Len(Best.ids) /\ Hash[d.ids] = Hash[Best.ids]
    BY <1>1, <1>3, NameHolds
  <2>2. d.ids \in Captured /\ Best.ids \in Captured
    BY <1>3, EntryIs
  <2> QED
    BY <2>1, <2>2 DEF NoCollisions
<1>5. <<op.stamp, Best.ids>> \in Holdings
  <2>1. NameOf(Best) \in FileNames /\ NameOf(Best)[1] = op.stamp
    <3>1. NameOf(Best) = <<Best.stamp, Len(Best.ids), Hash[Best.ids]>>
          /\ NameOf(Best) \in FileNames
      BY <1>3, EntryIs
    <3>2. NameOf(Best)[1] = Best.stamp
      BY <3>1
    <3> QED
      BY <1>3, <3>1, <3>2
  <2>2. Readable(NameOf(Best)) /\ files[NameOf(Best)] = Best.ids
    BY <1>1, <1>4 DEF Serve
  <2>3. <<NameOf(Best)[1], files[NameOf(Best)]>> = <<op.stamp, Best.ids>>
    BY <2>1, <2>2
  <2> QED
    BY <2>1, <2>2, <2>3 DEF Holdings
<1>6. Holdings' = Holdings
  BY DEF Serve, Holdings, Readable
<1>7. Best.ids \in Captured /\ op.stamp \in Stamps
  BY <1>3, EntryIs
<1>8. served' = [hit |-> TRUE, stamp |-> op.stamp, ids |-> op.ids, snap |-> Best.ids]
  BY <1>2, <1>4
<1>9. Tier!Answer(op.stamp, op.ids)
  BY <1>3, <1>5, <1>6, <1>7, <1>8 DEF Tier!Answer
<1> QED
  BY <1>3, <1>7, <1>9 DEF Tier!Next

\* Every other step keeps what it does not lose.
LEMMA OthersLose ==
  ASSUME DiskInv, [Next]_vars, ~ WriteFile, ~ Serve
  PROVE  Tier!Next
<1>1. ASSUME files' = files
      PROVE  Holdings' \subseteq Holdings
  BY <1>1 DEF Holdings, Readable
<1>2. served' \in {served, Miss} /\ Holdings' \subseteq Holdings
  <2>1. ASSUME NEW stamp \in Stamps, NEW ids \in Captured, Insert(stamp, ids)
        PROVE  served' \in {served, Miss} /\ Holdings' \subseteq Holdings
    <3> DEFINE e == [stamp |-> stamp, ids |-> ids]
    <3>1. e \in Entries /\ NameOf(e) = KeyOf(stamp, ids)
      BY DEF Entries, NameOf
    <3>2. NameOf(e) \in FileNames
      BY <3>1, EntryIs
    <3>3. files' = [files EXCEPT ![NameOf(e)] = Torn] /\ served' = served
      BY <2>1, <3>1 DEF Insert
    <3> HIDE DEF e
    <3> QED
      BY <3>2, <3>3, CutLoses
  <2>2. ASSUME NEW name \in FileNames, Rot(name)
        PROVE  served' \in {served, Miss} /\ Holdings' \subseteq Holdings
    BY <2>2, CutLoses DEF Rot
  <2>3. CASE IndexEntry \/ DropBroken
    <3>1. served' = served /\ \E names : Delete(names)
      BY <2>3 DEF IndexEntry, DropBroken
    <3> QED
      BY <3>1, DeleteLoses
  <2>4. CASE \/ Open \/ WriteFileFails \/ SaveBegin \/ SaveEnd \/ SaveFails \/ FindNothing
             \/ Exit \/ Crash \/ \E stamp \in Stamps, ids \in Requests : FindBest(stamp, ids)
    <3>1. files' = files /\ served' \in {served, Miss}
      BY <2>4 DEF Open, WriteFileFails, SaveBegin, SaveEnd, SaveFails, FindNothing, Exit, Crash,
         FindBest
    <3> QED
      BY <1>1, <3>1
  <2>5. CASE UNCHANGED vars
    BY <1>1, <2>5 DEF vars
  <2> QED
    BY <2>1, <2>2, <2>3, <2>4, <2>5 DEF Next, Step
<1>3. Tier!Lose
  BY <1>2 DEF Tier!Lose, Tier!Miss, Miss
<1> QED
  BY <1>3 DEF Tier!Next

LEMMA StartsEmpty ==
  ASSUME Init
  PROVE  Tier!Init
<1>1. \A k \in FileNames : ~ Readable(k)
  BY DEF Init, Readable
<1>2. Holdings = {}
  BY <1>1 DEF Holdings
<1> QED
  BY <1>2 DEF Init, Tier!Init, Tier!Miss, Miss

(***************************************************************************)
(* The directory is a store of exact prefixes that may forget, whatever    *)
(* processes die, writes and deletes fail and files rot: what find_best    *)
(* returns was written whole under the request's stamp, is there, and is   *)
(* token for token a strict prefix of the request, if the chain hash tells *)
(* captured prefixes of one length apart.                                  *)
(***************************************************************************)
THEOREM DiskIsAPrefixStore ==
  ASSUME NoCollisions
  PROVE  Spec => IsAPrefixStore
<1>1. Init => Tier!Init /\ Truncated
  BY StartsEmpty DEF Init, Truncated, Down
<1>2. NoCollisions /\ DiskOK /\ Ahead /\ Truncated /\ [Next]_vars => Truncated' /\ [Tier!Next]_(Tier!vars)
  BY TruncatedKept, WriteKeeps, ServeAnswers, OthersLose DEF DiskOK
<1>3. DiskOK /\ Ahead /\ Truncated /\ [Next]_vars => Truncated' /\ [Tier!Next]_(Tier!vars)
  BY <1>2
<1> QED
  BY <1>1, <1>3, DiskInvariant, PTL DEF Spec, IsAPrefixStore, Tier!Spec
=============================================================================
