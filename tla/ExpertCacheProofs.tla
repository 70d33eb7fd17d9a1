-------------------------- MODULE ExpertCacheProofs --------------------------
(***************************************************************************)
(* Proofs about the expert cache, for any number of experts, slots and     *)
(* selected experts.  The argument of moe_decode_overlap.rs rests on one   *)
(* fact about the LRU: a reserved key is the most recent one, so with two  *)
(* slots or more the next reservation cannot recycle its slot.             *)
(***************************************************************************)
EXTENDS ExpertCache, FiniteSetTheorems, WellFoundedInduction, TLAPS

Image(l) == {l.slot[e] : e \in Resident(l)}

Injective(l) == \A d, e \in Resident(l) : l.slot[d] = l.slot[e] => d = e

Ordered(l) ==
  /\ \A e \in Experts : l.older[e] \subseteq Resident(l) \ {e}
  /\ \A d, e \in Resident(l) : d = e \/ d \in l.older[e] \/ e \in l.older[d]
  /\ \A d, e \in Resident(l) : d \in l.older[e] => l.older[d] \subseteq l.older[e]

Sound(l) == l \in LruRecords /\ Injective(l) /\ Ordered(l)
LruOK(l) == Sound(l) /\ Image(l) = 0..(l.free - 1)

Newest(l, e) == e \in Resident(l) /\ l.older[e] = Resident(l) \ {e}

-----------------------------------------------------------------------------
LEMMA PromoteOK ==
  ASSUME NEW l, Sound(l), NEW e \in Resident(l)
  PROVE  LET w == Promote(l, e)
         IN  /\ Sound(w) /\ Newest(w, e) /\ Resident(w) = Resident(l)
             /\ w.slot = l.slot /\ w.free = l.free
<1> DEFINE w == Promote(l, e)
<1>1. l \in LruRecords /\ Ordered(l) /\ Injective(l) /\ e \in Experts
        /\ Resident(l) \subseteq Experts
  BY DEF Sound, Resident
<1>2. /\ w.slot = l.slot /\ w.free = l.free
      /\ w.older = [x \in Experts |-> IF x = e THEN Resident(l) \ {e} ELSE l.older[x] \ {e}]
      /\ w \in LruRecords
  BY <1>1 DEF Promote, LruRecords
<1> HIDE DEF w
<1>3. Resident(w) = Resident(l)
  BY <1>2 DEF Resident, Hit
<1>4. Injective(w)
  BY <1>1, <1>2, <1>3 DEF Injective
<1>5. Newest(w, e)
  BY <1>1, <1>2, <1>3 DEF Newest
<1>6. Ordered(w)
  <2>1. \A x \in Experts : \A y : y \in w.older[x] <=>
           (x = e /\ y \in Resident(l) /\ y # e) \/ (x # e /\ y \in l.older[x] /\ y # e)
    BY <1>2
  <2>2. \A x \in Experts : w.older[x] \subseteq Resident(w) \ {x}
    <3> TAKE x \in Experts
    <3>1. l.older[x] \subseteq Resident(l) \ {x}
      BY <1>1 DEF Ordered
    <3> QED
      BY <3>1, <2>1, <1>3
  <2>3. \A x, y \in Resident(w) : x = y \/ x \in w.older[y] \/ y \in w.older[x]
    <3> TAKE x, y \in Resident(w)
    <3>1. x \in Resident(l) /\ y \in Resident(l) /\ x \in Experts /\ y \in Experts
      BY <1>1, <1>3
    <3>2. x = y \/ x \in l.older[y] \/ y \in l.older[x]
      BY <1>1, <3>1 DEF Ordered
    <3> QED
      BY <3>1, <3>2, <2>1
  <2>4. \A x, y \in Resident(w) : x \in w.older[y] => w.older[x] \subseteq w.older[y]
    <3> TAKE x, y \in Resident(w)
    <3>1. x \in Resident(l) /\ y \in Resident(l) /\ x \in Experts /\ y \in Experts
      BY <1>1, <1>3
    <3>2. /\ x \in l.older[y] => l.older[x] \subseteq l.older[y]
          /\ l.older[x] \subseteq Resident(l)
      BY <1>1, <3>1 DEF Ordered
    <3> QED
      BY <3>1, <3>2, <2>1
  <2> QED
    BY <2>2, <2>3, <2>4 DEF Ordered
<1> QED
  BY <1>2, <1>3, <1>4, <1>5, <1>6 DEF Sound, w

\* A key that is not resident may be given a slot that nobody holds.
LEMMA AssignOK ==
  ASSUME NEW l, Sound(l), NEW e \in Experts, e \notin Resident(l),
         NEW s \in Slots, s \notin Image(l)
  PROVE  LET w == Assign(l, e, s)
         IN  /\ Sound(w) /\ Newest(w, e)
             /\ Resident(w) = Resident(l) \cup {e}
             /\ w.slot = [l.slot EXCEPT ![e] = s] /\ w.free = l.free
             /\ Image(w) = Image(l) \cup {s}
<1> DEFINE m == [l EXCEPT !.slot = [@ EXCEPT ![e] = s]]
           w == Assign(l, e, s)
<1>1. l \in LruRecords /\ Ordered(l) /\ Injective(l) /\ Resident(l) \subseteq Experts
        /\ s # NoSlot
  BY ExpertAssumption DEF Sound, Resident, Slots, NoSlot
<1>2. /\ m.slot = [l.slot EXCEPT ![e] = s] /\ m.free = l.free /\ m.older = l.older
      /\ m \in LruRecords
  BY <1>1 DEF LruRecords
<1>3. Resident(m) = Resident(l) \cup {e}
  BY <1>1, <1>2 DEF Resident, Hit, LruRecords
<1> HIDE DEF m
<1>4. w = Promote(m, e)
  BY DEF Assign, m
<1>5. /\ w.slot = m.slot /\ w.free = m.free /\ w \in LruRecords
      /\ w.older = [x \in Experts |-> IF x = e THEN Resident(m) \ {e} ELSE m.older[x] \ {e}]
  BY <1>2, <1>3, <1>4 DEF Promote, LruRecords, Resident
<1> HIDE DEF w
<1>6. Resident(w) = Resident(l) \cup {e}
  BY <1>3, <1>5 DEF Resident, Hit
<1>7. \A x \in Experts : w.slot[x] = IF x = e THEN s ELSE l.slot[x]
  BY <1>1, <1>2, <1>5 DEF LruRecords
<1>8. Injective(w)
  BY <1>1, <1>6, <1>7 DEF Injective, Image
<1>9. Newest(w, e)
  BY <1>3, <1>5, <1>6 DEF Newest
<1>10. Image(w) = Image(l) \cup {s}
  BY <1>1, <1>6, <1>7 DEF Image
<1>11. Ordered(w)
  <2>1. \A x \in Experts : \A y : y \in w.older[x] <=>
           (x = e /\ y \in Resident(l)) \/ (x # e /\ y \in l.older[x] /\ y # e)
    BY <1>2, <1>3, <1>5
  <2>2. \A x \in Experts : w.older[x] \subseteq Resident(w) \ {x}
    <3> TAKE x \in Experts
    <3>1. l.older[x] \subseteq Resident(l) \ {x}
      BY <1>1 DEF Ordered
    <3> QED
      BY <3>1, <2>1, <1>6
  <2>3. \A x, y \in Resident(w) : x = y \/ x \in w.older[y] \/ y \in w.older[x]
    <3> TAKE x, y \in Resident(w)
    <3>1. x \in Resident(l) \cup {e} /\ y \in Resident(l) \cup {e} /\ x \in Experts /\ y \in Experts
      BY <1>1, <1>6
    <3>2. x \in Resident(l) /\ y \in Resident(l) => x = y \/ x \in l.older[y] \/ y \in l.older[x]
      BY <1>1 DEF Ordered
    <3> QED
      BY <3>1, <3>2, <2>1
  <2>4. \A x, y \in Resident(w) : x \in w.older[y] => w.older[x] \subseteq w.older[y]
    <3> TAKE x, y \in Resident(w)
    <3>1. x \in Resident(l) \cup {e} /\ y \in Resident(l) \cup {e} /\ x \in Experts /\ y \in Experts
      BY <1>1, <1>6
    <3>2. x \in Resident(l) /\ y \in Resident(l) /\ x \in l.older[y] => l.older[x] \subseteq l.older[y]
      BY <1>1 DEF Ordered
    <3>3. l.older[x] \subseteq Resident(l) /\ l.older[y] \subseteq Resident(l)
      BY <1>1, <3>1 DEF Ordered
    <3> QED
      BY <3>1, <3>2, <3>3, <2>1
  <2> QED
    BY <2>2, <2>3, <2>4 DEF Ordered
<1> QED
  BY <1>2, <1>5, <1>6, <1>8, <1>9, <1>10, <1>11 DEF Sound, w

\* A nonempty cache of finitely many slots has a least recently used key.
LEMMA LruExists ==
  ASSUME NEW l, LruOK(l), Resident(l) # {}
  PROVE  Lru(l) \in Resident(l) /\ l.older[Lru(l)] = {}
<1> DEFINE R == StrictSubsetOrdering(Resident(l))
           T == {l.older[m] : m \in Resident(l)}
           f == [m \in Resident(l) |-> l.slot[m]]
<1>1. l \in LruRecords /\ Ordered(l) /\ Injective(l) /\ Resident(l) \subseteq Experts
        /\ l.free \in Nat
  BY ExpertAssumption DEF LruOK, Sound, Resident, LruRecords
<1>2. IsFiniteSet(Resident(l))
  <2>1. f \in [Resident(l) -> 0..(l.free - 1)]
    BY DEF LruOK, Image
  <2>2. \A a, b \in Resident(l) : f[a] = f[b] => a = b
    BY <1>1 DEF Injective
  <2>3. IsFiniteSet(0..(l.free - 1))
    BY <1>1, FS_Interval
  <2> HIDE DEF f
  <2>4. f \in Injection(Resident(l), 0..(l.free - 1))
    BY <2>1, <2>2 DEF Injection, IsInjective
  <2> QED
    BY <2>3, <2>4, FS_Injection
<1>3. \A m \in Resident(l) : l.older[m] \subseteq Resident(l) /\ m \notin l.older[m]
  BY <1>1 DEF Ordered
<1>4. \A m \in Resident(l) : IsFiniteSet(l.older[m])
  BY <1>2, <1>3, FS_Subset
<1>5. T \subseteq FiniteSubsetsOf(Resident(l)) /\ T # {}
  BY <1>3, <1>4 DEF FiniteSubsetsOf
<1>6. PICK t \in T : \A u \in T : <<u, t>> \notin R
  <2> HIDE DEF T, R
  <2>1. IsWellFoundedOn(R, FiniteSubsetsOf(Resident(l)))
    BY FS_StrictSubsetOrderingWellFounded DEF R
  <2> QED
    BY <2>1, <1>5, WFMin
<1>7. PICK m \in Resident(l) : t = l.older[m]
  OBVIOUS
<1>8. ASSUME NEW x \in l.older[m]
      PROVE  FALSE
  <2>1. x \in Resident(l)
    BY <1>3
  <2>2. l.older[x] \subseteq l.older[m] /\ x \notin l.older[x] /\ l.older[m] \subseteq Resident(l)
    BY <2>1, <1>1, <1>3 DEF Ordered
  <2>3. <<l.older[x], l.older[m]>> \in R
    BY <2>2 DEF StrictSubsetOrdering
  <2> QED
    BY <2>1, <2>3, <1>6, <1>7
<1>9. \E e \in Resident(l) : l.older[e] = {}
  BY <1>8
<1> QED
  BY <1>9 DEF Lru

LEMMA PopLruOK ==
  ASSUME NEW l, LruOK(l), Resident(l) # {}
  PROVE  LET v == Lru(l)
             w == PopLru(l)
         IN  /\ Sound(w) /\ v \in Resident(l) /\ l.older[v] = {}
             /\ Resident(w) = Resident(l) \ {v}
             /\ w.slot = [l.slot EXCEPT ![v] = NoSlot] /\ w.free = l.free
             /\ Image(w) = Image(l) \ {l.slot[v]}
             /\ l.slot[v] \in Slots
<1> DEFINE v == Lru(l)
           w == PopLru(l)
<1>1. l \in LruRecords /\ Ordered(l) /\ Injective(l) /\ Resident(l) \subseteq Experts
  BY DEF LruOK, Sound, Resident
<1>2. v \in Resident(l) /\ l.older[v] = {} /\ v \in Experts
  BY <1>1, LruExists
<1>3. l.slot[v] \in Slots
  BY <1>1, <1>2 DEF Resident, Hit, LruRecords
<1> HIDE DEF v
<1>4. /\ w.slot = [l.slot EXCEPT ![v] = NoSlot] /\ w.free = l.free
      /\ w.older = [x \in Experts |-> l.older[x] \ {v}]
      /\ w \in LruRecords
  BY <1>1 DEF PopLru, LruRecords, v
<1> HIDE DEF w
<1>5. Resident(w) = Resident(l) \ {v}
  BY <1>1, <1>2, <1>4 DEF Resident, Hit, LruRecords
<1>6. \A x \in Experts : w.slot[x] = IF x = v THEN NoSlot ELSE l.slot[x]
  BY <1>1, <1>4 DEF LruRecords
<1>7. Injective(w)
  BY <1>1, <1>5, <1>6 DEF Injective
<1>8. Image(w) = Image(l) \ {l.slot[v]}
  BY <1>1, <1>2, <1>5, <1>6 DEF Image, Injective
<1>9. Ordered(w)
  <2>1. \A x \in Experts : \A y : y \in w.older[x] <=> y \in l.older[x] /\ y # v
    BY <1>4
  <2>2. \A x \in Experts : w.older[x] \subseteq Resident(w) \ {x}
    <3> TAKE x \in Experts
    <3>1. l.older[x] \subseteq Resident(l) \ {x}
      BY <1>1 DEF Ordered
    <3> QED
      BY <3>1, <2>1, <1>5
  <2>3. \A x, y \in Resident(w) : x = y \/ x \in w.older[y] \/ y \in w.older[x]
    <3> TAKE x, y \in Resident(w)
    <3>1. x \in Resident(l) /\ y \in Resident(l) /\ x # v /\ y # v /\ x \in Experts /\ y \in Experts
      BY <1>1, <1>5
    <3>2. x = y \/ x \in l.older[y] \/ y \in l.older[x]
      BY <1>1, <3>1 DEF Ordered
    <3> QED
      BY <3>1, <3>2, <2>1
  <2>4. \A x, y \in Resident(w) : x \in w.older[y] => w.older[x] \subseteq w.older[y]
    <3> TAKE x, y \in Resident(w)
    <3>1. x \in Resident(l) /\ y \in Resident(l) /\ x \in Experts /\ y \in Experts
      BY <1>1, <1>5
    <3>2. x \in l.older[y] => l.older[x] \subseteq l.older[y]
      BY <1>1, <3>1 DEF Ordered
    <3> QED
      BY <3>1, <3>2, <2>1
  <2> QED
    BY <2>2, <2>3, <2>4 DEF Ordered
<1> QED
  BY <1>2, <1>3, <1>4, <1>5, <1>7, <1>8, <1>9 DEF Sound, w, v

(***************************************************************************)
(* get_or_insert returns a slot for the key, makes it the most recent one, *)
(* keeps the slots distinct, and takes away the slot of no key that is     *)
(* more recent than some other.                                            *)
(***************************************************************************)
LEMMA GetOrInsertOK ==
  ASSUME NEW l, LruOK(l), NEW e \in Experts
  PROVE  LET w == GetOrInsert(l, e)
         IN  /\ LruOK(w) /\ Newest(w, e) /\ w.slot[e] \in Slots
             /\ \A x \in Resident(l) :
                  l.older[x] # {} \/ l.free < Capacity => w.slot[x] = l.slot[x]
             /\ Hit(l, e) => w.slot = l.slot
<1>1. l \in LruRecords /\ Sound(l) /\ Image(l) = 0..(l.free - 1) /\ Resident(l) \subseteq Experts
  BY DEF LruOK, Sound, Resident
<1>2. l.free \in 0..Capacity /\ Capacity \in Nat \ {0}
  BY <1>1, ExpertAssumption DEF LruRecords
<1>3. ASSUME NEW w, Sound(w), Newest(w, e)
      PROVE  w.slot[e] \in Slots
  BY <1>3 DEF Sound, Newest, Resident, Hit, LruRecords
<1>4. CASE Hit(l, e)
  <2>1. e \in Resident(l)
    BY <1>4 DEF Resident
  <2>2. GetOrInsert(l, e) = Promote(l, e)
    BY <1>4 DEF GetOrInsert
  <2>3. /\ Sound(Promote(l, e)) /\ Newest(Promote(l, e), e) /\ Promote(l, e).slot = l.slot
        /\ Resident(Promote(l, e)) = Resident(l) /\ Promote(l, e).free = l.free
    BY <1>1, <2>1, PromoteOK
  <2>4. Image(Promote(l, e)) = 0..(Promote(l, e).free - 1)
    BY <1>1, <2>3 DEF Image
  <2> QED
    BY <1>3, <2>2, <2>3, <2>4 DEF LruOK
<1>5. CASE ~ Hit(l, e) /\ l.free < Capacity
  <2> DEFINE m == [l EXCEPT !.free = @ + 1]
             w == Assign(m, e, l.free)
  <2>1. m.slot = l.slot /\ m.older = l.older /\ m.free = l.free + 1 /\ m \in LruRecords
    BY <1>1, <1>2, <1>5 DEF LruRecords
  <2> HIDE DEF m
  <2>2. Resident(m) = Resident(l)
    BY <2>1 DEF Resident, Hit
  <2>3. Sound(m)
    BY <1>1, <2>1, <2>2 DEF Sound, Injective, Ordered
  <2>4. Image(m) = 0..(l.free - 1)
    BY <1>1, <2>1, <2>2 DEF Image
  <2>5. e \notin Resident(m) /\ l.free \in Slots /\ l.free \notin Image(m)
    BY <1>2, <1>5, <2>2, <2>4 DEF Resident, Slots
  <2>6. /\ Sound(w) /\ Newest(w, e) /\ w.slot = [m.slot EXCEPT ![e] = l.free]
        /\ w.free = m.free /\ Image(w) = Image(m) \cup {l.free}
    BY <2>3, <2>5, AssignOK
  <2>7. GetOrInsert(l, e) = w
    BY <1>5 DEF GetOrInsert, Insert, m
  <2> HIDE DEF w
  <2>8. Image(w) = 0..(w.free - 1)
    BY <1>2, <2>1, <2>4, <2>6
  <2>9. \A x \in Resident(l) : w.slot[x] = l.slot[x]
    BY <1>1, <1>5, <2>1, <2>6 DEF Resident, LruRecords
  <2> QED
    BY <1>3, <1>5, <2>6, <2>7, <2>8, <2>9 DEF LruOK
<1>6. CASE ~ Hit(l, e) /\ ~ (l.free < Capacity)
  <2> DEFINE v == Lru(l)
             m == PopLru(l)
             w == Assign(m, e, l.slot[v])
  <2>1. Resident(l) # {}
    <3>1. 0 \in Image(l)
      BY <1>1, <1>2, <1>6
    <3> QED
      BY <3>1 DEF Image
  <2>2. /\ Sound(m) /\ v \in Resident(l) /\ l.older[v] = {} /\ Resident(m) = Resident(l) \ {v}
        /\ m.slot = [l.slot EXCEPT ![v] = NoSlot] /\ m.free = l.free
        /\ Image(m) = Image(l) \ {l.slot[v]} /\ l.slot[v] \in Slots
    BY <2>1, PopLruOK
  <2>3. GetOrInsert(l, e) = w
    BY <1>6 DEF GetOrInsert, Insert
  <2> HIDE DEF m, v
  <2>4. e \notin Resident(m) /\ l.slot[v] \notin Image(m)
    BY <1>6, <2>2 DEF Resident
  <2>5. /\ Sound(w) /\ Newest(w, e) /\ w.slot = [m.slot EXCEPT ![e] = l.slot[v]]
        /\ w.free = m.free /\ Image(w) = Image(m) \cup {l.slot[v]}
    BY <2>2, <2>4, AssignOK
  <2> HIDE DEF w
  <2>6. l.slot[v] \in Image(l)
    BY <2>2 DEF Image
  <2>7. Image(w) = 0..(w.free - 1)
    BY <1>1, <2>2, <2>5, <2>6
  <2>8. \A x \in Resident(l) :
           l.older[x] # {} \/ l.free < Capacity => w.slot[x] = l.slot[x]
    <3> TAKE x \in Resident(l)
    <3>1. l.slot \in [Experts -> Slots \cup {NoSlot}] /\ x \in Experts
      BY <1>1 DEF LruRecords
    <3>2. x # e
      BY <1>6 DEF Resident
    <3> QED
      BY <1>6, <2>2, <2>5, <3>1, <3>2
  <2> QED
    BY <1>3, <1>6, <2>3, <2>5, <2>7, <2>8 DEF LruOK
<1> QED
  BY <1>4, <1>5, <1>6

-----------------------------------------------------------------------------
(***************************************************************************)
(* The inductive invariant: the slots of a sound LRU, and where the loop   *)
(* is, which key it has a slot for and which key is the most recent.       *)
(***************************************************************************)
LoopInv ==
  /\ host \in HostRecords
  /\ host.pc # "idle" => host.route \in Routes /\ host.k \in 1..TopK
  /\ host.pc \in {"copy", "copying", "lookahead", "issue"} =>
       Expert \in Resident(lru) /\ lru.slot[Expert] = host.cur
  /\ host.pc \in {"copy", "copying", "lookahead"} => Newest(lru, Expert)
  /\ host.pc = "lookahead" => host.overlap
  /\ host.pc = "issue" /\ host.ahead # NoSlot =>
       /\ HasNext /\ host.overlap
       /\ host.ahead = lru.slot[Next1] /\ Newest(lru, Next1)
  /\ host.pc = "issue" /\ host.overlap /\ HasNext => host.ahead # NoSlot
  /\ host.pc \in {"load", "copy", "copying", "lookahead"} => host.ahead = NoSlot

CacheInv == LruOK(lru) /\ LoopInv

LEMMA CacheInit == Init => CacheInv
<1> SUFFICES ASSUME Init
             PROVE  CacheInv
  OBVIOUS
<1>1. lru \in LruRecords
  BY ExpertAssumption DEF Init, LruRecords
<1>2. Resident(lru) = {} /\ lru.free = 0
  BY DEF Init, Resident, Hit
<1>3. Sound(lru)
  <2>1. \A e \in Experts : lru.older[e] = {}
    BY DEF Init
  <2> QED
    BY <1>1, <1>2, <2>1 DEF Sound, Injective, Ordered
<1>4. Image(lru) = 0..(lru.free - 1)
  BY <1>2 DEF Image
<1>5. LoopInv
  BY ExpertAssumption DEF Init, LoopInv, HostRecords
<1> QED
  BY <1>3, <1>4, <1>5 DEF CacheInv, LruOK

\* With two slots or more, reserving one key leaves the newest one its slot.
LEMMA NewestKeepsSlot ==
  ASSUME NEW l, LruOK(l), NEW d, Newest(l, d), NEW e \in Experts, Capacity >= 2
  PROVE  GetOrInsert(l, e).slot[d] = l.slot[d]
<1>1. d \in Resident(l) /\ l.older[d] = Resident(l) \ {d}
  BY DEF Newest
<1>2. CASE l.free < Capacity
  BY <1>1, <1>2, GetOrInsertOK
<1>3. CASE ~ (l.free < Capacity)
  <2>1. l.free \in 0..Capacity /\ Capacity \in Nat
    BY ExpertAssumption DEF LruOK, Sound, LruRecords
  <2>2. 0 \in Image(l) /\ 1 \in Image(l)
    BY <1>3, <2>1 DEF LruOK
  <2>3. PICK a \in Resident(l) : l.slot[a] = 0
    BY <2>2 DEF Image
  <2>4. PICK b \in Resident(l) : l.slot[b] = 1
    BY <2>2 DEF Image
  <2>5. l.older[d] # {}
    BY <1>1, <2>3, <2>4
  <2> QED
    BY <1>1, <2>5, GetOrInsertOK
<1> QED
  BY <1>2, <1>3

LEMMA RouteExperts ==
  ASSUME host \in HostRecords, host.route \in Routes, host.k \in 1..TopK
  PROVE  /\ Expert \in Experts
         /\ HasNext => host.k + 1 \in 1..TopK /\ Next1 \in Experts /\ Next1 # Expert
BY ExpertAssumption DEF Routes, Expert, Next1, HasNext

\* Where the loop stands after a reservation of the next expert.
LEMMA ReserveStep ==
  ASSUME Capacity >= 2, CacheInv, host.pc = "lookahead", HasNext,
         lru' = GetOrInsert(lru, Next1),
         NEW miss \in BOOLEAN,
         host' = [host EXCEPT !.pc = "issue", !.ahead = AheadSlot, !.miss = miss]
  PROVE  CacheInv'
<1> DEFINE w == GetOrInsert(lru, Next1)
<1>1. /\ LruOK(lru) /\ host \in HostRecords /\ host.route \in Routes /\ host.k \in 1..TopK
      /\ Expert \in Resident(lru) /\ lru.slot[Expert] = host.cur /\ Newest(lru, Expert)
  BY DEF CacheInv, LoopInv
<1>2. Next1 \in Experts /\ Next1 # Expert /\ Expert \in Experts
  BY <1>1, RouteExperts
<1>3. LruOK(w) /\ Newest(w, Next1) /\ w.slot[Next1] \in Slots
  BY <1>1, <1>2, GetOrInsertOK
<1>4. w.slot[Expert] = lru.slot[Expert]
  BY <1>1, <1>2, NewestKeepsSlot
<1>5. lru' = w /\ AheadSlot = w.slot[Next1]
  BY DEF AheadSlot
<1> HIDE DEF w
<1>6. Expert \in Resident(w)
  BY <1>1, <1>2, <1>4 DEF Resident, Hit
<1>7. /\ host'.pc = "issue" /\ host'.route = host.route /\ host'.k = host.k
      /\ host'.cur = host.cur /\ host'.overlap = host.overlap
      /\ host'.ahead = w.slot[Next1] /\ host' \in HostRecords
  BY <1>1, <1>3, <1>5 DEF HostRecords
<1>8. Expert' = Expert /\ Next1' = Next1 /\ HasNext' = HasNext
  BY <1>7 DEF Expert, Next1, HasNext
<1>9. w.slot[Next1] # NoSlot
  BY <1>3, ExpertAssumption DEF Slots, NoSlot
<1> QED
  <2>1. LruOK(lru)'
    BY <1>3, <1>5
  <2>2. (Expert \in Resident(lru) /\ lru.slot[Expert] = host.cur)'
    BY <1>1, <1>4, <1>5, <1>6, <1>7, <1>8
  <2>3. host.overlap
    BY DEF CacheInv, LoopInv
  <2>4. (HasNext /\ host.overlap /\ host.ahead = lru.slot[Next1] /\ Newest(lru, Next1))'
    BY <1>3, <1>5, <1>7, <1>8, <2>3
  <2> QED
    BY <1>1, <1>7, <1>9, <2>1, <2>2, <2>4 DEF CacheInv, LoopInv

\* A step that leaves the LRU and the loop's slots alone, and only moves on.
LEMMA MoveStep ==
  ASSUME CacheInv, lru' = lru, host' = [host EXCEPT !.pc = "idle"]
  PROVE  CacheInv'
<1>1. LruOK(lru)'
  BY DEF CacheInv
<1>2. host' \in HostRecords /\ host'.pc = "idle"
  BY DEF CacheInv, LoopInv, HostRecords
<1> QED
  BY <1>1, <1>2 DEF CacheInv, LoopInv

LEMMA EnsureLoadedStep ==
  ASSUME CacheInv, EnsureLoaded
  PROVE  CacheInv'
<1> DEFINE w == GetOrInsert(lru, Expert)
<1>1. /\ LruOK(lru) /\ host \in HostRecords /\ host.route \in Routes /\ host.k \in 1..TopK
      /\ host.ahead = NoSlot
  BY DEF CacheInv, EnsureLoaded, LoopInv
<1>2. Expert \in Experts
  BY <1>1, RouteExperts
<1>3. LruOK(w) /\ Newest(w, Expert) /\ w.slot[Expert] \in Slots
  BY <1>1, <1>2, GetOrInsertOK
<1>4. lru' = w
  BY DEF EnsureLoaded
<1>5. /\ host'.pc \in {"copy", "lookahead", "issue"}
      /\ host'.pc = "lookahead" => host.overlap
      /\ host'.pc = "issue" => ~ host.overlap
      /\ host'.route = host.route /\ host'.k = host.k /\ host'.cur = w.slot[Expert]
      /\ host'.overlap = host.overlap /\ host'.ahead = NoSlot /\ host' \in HostRecords
  BY <1>1, <1>3 DEF EnsureLoaded, Ready, HostRecords
<1> HIDE DEF w
<1>6. Expert' = Expert
  BY <1>5 DEF Expert
<1>7. (Expert \in Resident(lru) /\ lru.slot[Expert] = host.cur /\ Newest(lru, Expert))'
  BY <1>3, <1>4, <1>5, <1>6 DEF Newest
<1> QED
  BY <1>1, <1>3, <1>4, <1>5, <1>7 DEF CacheInv, LoopInv

\* The copies of a miss and the lookahead past the last expert.
LEMMA LoopStep ==
  ASSUME CacheInv, CopyBegin \/ CopyEnd \/ LastExpert
  PROVE  CacheInv'
<1>1. /\ LruOK(lru) /\ host \in HostRecords /\ host.route \in Routes /\ host.k \in 1..TopK
      /\ Expert \in Resident(lru) /\ lru.slot[Expert] = host.cur
      /\ Newest(lru, Expert) /\ host.ahead = NoSlot
  BY DEF CacheInv, LoopInv, CopyBegin, CopyEnd, LastExpert
<1>2. /\ lru' = lru /\ host'.route = host.route /\ host'.k = host.k /\ host'.cur = host.cur
      /\ host'.overlap = host.overlap /\ host'.ahead = NoSlot /\ host' \in HostRecords
      /\ host'.pc \in {"copying", "lookahead", "issue"}
      /\ host'.pc = "lookahead" => host.overlap
      /\ host'.pc = "issue" => ~ host.overlap \/ ~ HasNext
  BY <1>1 DEF CopyBegin, CopyEnd, LastExpert, Ready, HostRecords
<1>3. Expert' = Expert /\ HasNext' = HasNext
  BY <1>2 DEF Expert, HasNext
<1>4. (Expert \in Resident(lru) /\ lru.slot[Expert] = host.cur /\ Newest(lru, Expert))'
  BY <1>1, <1>2, <1>3
<1> QED
  BY <1>1, <1>2, <1>3, <1>4 DEF CacheInv, LoopInv

LEMMA IssueStep ==
  ASSUME CacheInv, Issue
  PROVE  CacheInv'
<1>1. LruOK(lru) /\ host \in HostRecords /\ host.route \in Routes /\ host.k \in 1..TopK
  BY DEF CacheInv, LoopInv, Issue
<1>2. lru' = lru /\ LruOK(lru)'
  BY <1>1 DEF Issue
<1>3. /\ host'.overlap = host.overlap /\ host'.route = host.route /\ host'.ahead = NoSlot
      /\ host'.k = IF HasNext THEN host.k + 1 ELSE host.k
      /\ host'.cur = IF host.overlap THEN host.ahead ELSE NoSlot
      /\ host'.pc = IF ~ HasNext THEN "idle" ELSE IF host.overlap THEN "lookahead" ELSE "load"
  BY <1>1 DEF Issue, HostRecords
<1>4. host'.k \in 1..TopK
  BY <1>1, <1>3, RouteExperts
<1>5. host' \in HostRecords
  <2>1. host' = [host EXCEPT !.pc = host'.pc, !.k = host'.k, !.cur = host'.cur,
                             !.ahead = NoSlot, !.miss = FALSE]
    BY <1>1, <1>3 DEF Issue, HostRecords
  <2>2. /\ host'.pc \in {"idle", "lookahead", "load"} /\ host'.k \in 0..TopK
        /\ host'.cur \in Slots \cup {NoSlot}
    BY <1>1, <1>3, <1>4 DEF HostRecords
  <2> QED
    BY <1>1, <2>1, <2>2 DEF HostRecords
<1>6. CASE ~ (HasNext /\ host.overlap)
  BY <1>1, <1>2, <1>3, <1>4, <1>5, <1>6 DEF LoopInv, CacheInv
<1>7. CASE HasNext /\ host.overlap
  <2>1. host.ahead = lru.slot[Next1] /\ Newest(lru, Next1)
    BY <1>7 DEF CacheInv, LoopInv, Issue
  <2>2. Expert' = Next1
    BY <1>3, <1>7 DEF Expert, Next1
  <2>3. (Expert \in Resident(lru) /\ lru.slot[Expert] = host.cur /\ Newest(lru, Expert))'
    BY <1>2, <1>3, <1>7, <2>1, <2>2 DEF Newest
  <2> QED
    BY <1>1, <1>2, <1>3, <1>4, <1>5, <1>7, <2>3 DEF LoopInv, CacheInv
<1> QED
  BY <1>6, <1>7

LEMMA CacheStep ==
  ASSUME Capacity >= 2, CacheInv, [Next]_vars
  PROVE  CacheInv'
<1>1. ASSUME NEW route \in Routes, NEW overlap \in BOOLEAN, Route(route, overlap)
      PROVE  CacheInv'
  <2>1. lru' = lru /\ LruOK(lru)'
    BY <1>1 DEF Route, CacheInv
  <2>2. LoopInv'
    BY <1>1, ExpertAssumption DEF Route, LoopInv, HostRecords
  <2> QED
    BY <2>1, <2>2 DEF CacheInv
<1>2. CASE EnsureLoaded
  BY <1>2, EnsureLoadedStep
<1>3. CASE CopyBegin \/ CopyEnd \/ LastExpert
  BY <1>3, LoopStep
<1>4. CASE CopyFails \/ IssueFails
  BY <1>4, MoveStep DEF CopyFails, IssueFails, Abandon
<1>5. CASE ReserveHit
  BY <1>5, ReserveStep DEF ReserveHit
<1>6. CASE ReserveMiss
  BY <1>6, ReserveStep DEF ReserveMiss
<1>7. CASE ReserveFails
  <2>1. host \in HostRecords /\ host.route \in Routes /\ host.k \in 1..TopK /\ LruOK(lru)
    BY <1>7 DEF ReserveFails, CacheInv, LoopInv
  <2>2. Next1 \in Experts
    BY <1>7, <2>1, RouteExperts DEF ReserveFails
  <2>3. LruOK(lru)'
    BY <1>7, <2>1, <2>2, GetOrInsertOK DEF ReserveFails
  <2>4. host' \in HostRecords /\ host'.pc = "idle"
    BY <1>7, <2>1 DEF ReserveFails, Abandon, HostRecords
  <2> QED
    BY <2>3, <2>4 DEF CacheInv, LoopInv
<1>8. CASE Issue
  BY <1>8, IssueStep
<1>9. CASE ReadBegin \/ DefaultStep \/ WriteBegin \/ CopyStep \/ UNCHANGED vars
  <2>1. lru' = lru /\ host' = host
    BY <1>9 DEF ReadBegin, DefaultStep, WriteBegin, CopyStep, vars
  <2> QED
    BY <2>1 DEF CacheInv, LoopInv, Expert, Next1, HasNext
<1> QED
  BY <1>1, <1>2, <1>3, <1>4, <1>5, <1>6, <1>7, <1>8, <1>9 DEF Next, Host

-----------------------------------------------------------------------------
(***************************************************************************)
(* With two slots or more, the cache and the loop over it keep CacheInv    *)
(* (expert_lru.rs, moe_cache/overlap.rs, moe_decode_overlap.rs).           *)
(***************************************************************************)
THEOREM ExpertCacheInvariant ==
  ASSUME Capacity >= 2
  PROVE  Spec => []CacheInv
<1>1. Init => CacheInv
  BY CacheInit
<1>2. CacheInv /\ [Next]_vars => CacheInv'
  BY CacheStep
<1> QED
  BY <1>1, <1>2, PTL DEF Spec

\* No slot of the cache is ever handed to two experts (expert_lru.rs:67-85).
THEOREM ExpertSlotsDistinct ==
  ASSUME Capacity >= 2
  PROVE  Spec => []SlotsDistinct
<1>1. CacheInv => SlotsDistinct
  BY DEF CacheInv, LruOK, Sound, Injective, Image, SlotsDistinct
<1> QED
  BY <1>1, ExpertCacheInvariant, PTL

(***************************************************************************)
(* With two slots or more, a slot the loop was handed is still its expert's*)
(* when the kernels are issued, and the copy ahead goes to another slot    *)
(* (moe_cache/mod.rs:119-123).                                             *)
(***************************************************************************)
THEOREM ExpertSlotHeld ==
  ASSUME Capacity >= 2
  PROVE  Spec => []SlotHeldUntilIssued
<1>1. ASSUME CacheInv, host.pc = "issue"
      PROVE  /\ lru.slot[Expert] = host.cur
             /\ host.ahead # NoSlot => host.ahead # host.cur
  <2>1. /\ host \in HostRecords /\ host.route \in Routes /\ host.k \in 1..TopK
        /\ Expert \in Resident(lru) /\ lru.slot[Expert] = host.cur /\ Injective(lru)
    BY <1>1 DEF CacheInv, LoopInv, LruOK, Sound
  <2>2. ASSUME host.ahead # NoSlot
        PROVE  host.ahead # host.cur
    <3>1. HasNext /\ host.ahead = lru.slot[Next1] /\ Next1 \in Resident(lru)
      BY <1>1, <2>2 DEF CacheInv, LoopInv, Newest
    <3>2. Next1 # Expert
      BY <2>1, <3>1, RouteExperts
    <3> QED
      BY <2>1, <3>1, <3>2 DEF Injective
  <2> QED
    BY <2>1, <2>2
<1>2. CacheInv => SlotHeldUntilIssued
  BY <1>1 DEF SlotHeldUntilIssued
<1> QED
  BY <1>2, ExpertCacheInvariant, PTL

-----------------------------------------------------------------------------
(***************************************************************************)
(* The streams.  As long as nothing has failed, every read that is enqueued*)
(* either finds its expert in its slot already, and every copy to that slot*)
(* waits for it, or is behind a wait for the copy that brings the expert.  *)
(* Commands are named by their place in their queue; a wait for place n is *)
(* over when n commands of the other stream have finished.                 *)
(***************************************************************************)
IsWrite(j, s) == copyq[j].op = "write" /\ copyq[j].slot = s

\* The copy at place j of the copy stream does not start before the read at place i
\* of the default stream has finished; the wait at place w is for the copy at j.
Held(j, i)  == j > 1 /\ copyq[j - 1].op = "wait" /\ copyq[j - 1].after >= i
Fence1(w, j) == dflt[w].op = "wait" /\ dflt[w].after >= j

\* When the copy stream has drained, slot s holds expert e.
Arrives(e, s) ==
  \/ slots[s] = e /\ \A j \in 1..Len(copyq) : ~ IsWrite(j, s)
  \/ \E j \in 1..Len(copyq) :
       /\ IsWrite(j, s) /\ copyq[j].expert = e
       /\ \A m \in 1..Len(copyq) : IsWrite(m, s) => m <= j

ReadIsSafe(i) ==
  \/ /\ slots[dflt[i].slot] = dflt[i].expert
     /\ \A j \in 1..Len(copyq) : IsWrite(j, dflt[i].slot) => Held(j, i)
  \/ \E j \in 1..Len(copyq) :
       /\ IsWrite(j, dflt[i].slot) /\ copyq[j].expert = dflt[i].expert
       /\ \E w \in 1..(i - 1) : Fence1(w, j)
       /\ \A m \in 1..Len(copyq) : IsWrite(m, dflt[i].slot) /\ m > j => Held(m, i)

StreamTypes ==
  /\ dflt \in Seq(Commands) /\ copyq \in Seq(Commands)
  /\ slots \in [Slots -> Experts \cup {Garbage}]
  /\ computeDone \in Nat /\ copyDone \in Nat
  /\ \A i \in 1..Len(dflt) : dflt[i].op \in {"read", "wait"}
  /\ \A i \in 1..Len(dflt) : dflt[i].op = "read" => dflt[i].slot \in Slots
  /\ \A j \in 1..Len(copyq) : copyq[j].op \in {"write", "wait"}
  /\ \A j \in 1..Len(copyq) : copyq[j].op = "write" => copyq[j].slot \in Slots
  /\ copyq # <<>> => copyq[Len(copyq)].op = "write"

\* A command that has started is the first of its stream.
HeadsStarted == (reading => IsHead(dflt, "read")) /\ (writing => IsHead(copyq, "write"))

ReadsAreSafe == \A i \in 1..Len(dflt) : dflt[i].op = "read" => ReadIsSafe(i)

\* What a resident expert's slot will hold is what its key promises, but while it is
\* being loaded.
ResidentsArrive ==
  \A e \in Resident(lru) :
    Arrives(e, lru.slot[e]) \/ (host.pc \in {"copy", "copying"} /\ e = Expert)

\* No copy is forgotten: the default stream waits for it, or will.
CopiesAwaited ==
  \A j \in 1..Len(copyq) : copyq[j].op = "write" =>
    (\E w \in 1..Len(dflt) : Fence1(w, j)) \/ (host.miss /\ j <= copyDone)

\* Where the host is: a blocking load finds no copy under way, the event covers all the
\* reads of the pipelined loop, and a copy of the expert to be issued is waited for.
HostOrder ==
  /\ host.pc \in {"load", "copy", "copying"} \/ (host.pc = "issue" /\ ~ host.overlap) =>
       copyq = <<>>
  /\ host.pc = "copying" => dflt = <<>>
  /\ host.miss => host.pc = "issue" /\ host.overlap /\ host.ahead # NoSlot
  /\ host.overlap /\ host.pc # "idle" =>
       \A i \in 1..Len(dflt) : dflt[i].op = "read" => i <= computeDone
  /\ host.pc \in {"lookahead", "issue"} =>
       \A j \in 1..Len(copyq) : copyq[j].op = "write" /\ copyq[j].expert = Expert =>
         \E w \in 1..Len(dflt) : Fence1(w, j)

StreamsOK ==
  StreamTypes /\ HeadsStarted /\ ReadsAreSafe /\ ResidentsArrive /\ CopiesAwaited /\ HostOrder

StreamInv == failures \in Nat /\ (failures = 0 => StreamsOK)

LEMMA StreamInit == Init => StreamInv
<1> SUFFICES ASSUME Init
             PROVE  StreamInv
  OBVIOUS
<1>1. Resident(lru) = {}
  BY DEF Init, Resident, Hit
<1>2. StreamTypes /\ HeadsStarted
  BY DEF Init, StreamTypes, HeadsStarted
<1>3. dflt = <<>> /\ copyq = <<>> /\ host.pc = "idle" /\ host.miss = FALSE /\ failures = 0
  BY DEF Init
<1>4. Len(dflt) = 0 /\ Len(copyq) = 0
  BY <1>3
<1>5. ReadsAreSafe /\ ResidentsArrive /\ CopiesAwaited
  BY <1>1, <1>4 DEF ReadsAreSafe, ResidentsArrive, CopiesAwaited
<1>6. HostOrder
  BY <1>3, <1>4 DEF HostOrder
<1> QED
  BY <1>2, <1>3, <1>5, <1>6 DEF StreamInv, StreamsOK

\* One command of the default stream finishes: the others move up by a place, and the
\* waits of the copy stream count one fewer.
LEMMA DefaultStepShape ==
  ASSUME StreamTypes, DefaultStep
  PROVE  /\ Len(dflt) > 0 /\ Len(dflt') = Len(dflt) - 1 /\ dflt' \in Seq(Commands)
         /\ \A i \in 1..Len(dflt') : dflt'[i] = dflt[i + 1]
         /\ Len(copyq') = Len(copyq) /\ copyq' \in Seq(Commands)
         /\ \A j \in 1..Len(copyq) :
              /\ copyq'[j].op = copyq[j].op /\ copyq'[j].slot = copyq[j].slot
              /\ copyq'[j].expert = copyq[j].expert /\ copyq'[j].after = Less(copyq[j].after)
         /\ dflt[1].op = "wait" => dflt[1].after = 0
<1>1. dflt # <<>> /\ (Head(dflt).op = "wait" => Head(dflt).after = 0)
  BY DEF DefaultStep, DefaultFinish, IsHead
<1>2. dflt \in Seq(Commands) /\ copyq \in Seq(Commands)
  BY DEF StreamTypes
<1>3. Len(dflt') = Len(dflt) - 1 /\ dflt' \in Seq(Commands)
      /\ \A i \in 1..Len(dflt') : dflt'[i] = dflt[i + 1]
  BY <1>1, <1>2 DEF DefaultStep
<1>4. copyq' = [j \in 1..Len(copyq) |-> [copyq[j] EXCEPT !.after = Less(@)]]
  BY DEF DefaultStep, Advance
<1>5. \A j \in 1..Len(copyq) : copyq[j] \in Commands
  BY <1>2
<1>6. \A j \in 1..Len(copyq) :
        /\ copyq'[j] \in Commands
        /\ copyq'[j].op = copyq[j].op /\ copyq'[j].slot = copyq[j].slot
        /\ copyq'[j].expert = copyq[j].expert /\ copyq'[j].after = Less(copyq[j].after)
  BY <1>4, <1>5 DEF Commands, Less
<1>7. Len(copyq) \in Nat
  BY <1>2
<1>8. copyq' \in Seq(Commands) /\ Len(copyq') = Len(copyq)
  BY <1>4, <1>6, <1>7
<1> QED
  BY <1>1, <1>2, <1>3, <1>6, <1>8

LEMMA ResidentSlot ==
  ASSUME NEW l, LruOK(l), NEW e \in Resident(l)
  PROVE  l.slot[e] \in Slots
BY DEF LruOK, Sound, LruRecords, Resident, Hit

\* A request gives its expert a slot and moves no other.
LEMMA OthersStay ==
  ASSUME NEW l, LruOK(l), NEW e \in Experts
  PROVE  LET w == GetOrInsert(l, e)
         IN  \A x \in Resident(w) : x # e => x \in Resident(l) /\ w.slot[x] = l.slot[x]
<1> DEFINE w == GetOrInsert(l, e)
<1>1. l \in LruRecords
  BY DEF LruOK, Sound
<1>2. CASE Hit(l, e)
  BY <1>1, <1>2 DEF GetOrInsert, Promote, Resident, Hit, LruRecords
<1>3. CASE ~ Hit(l, e) /\ l.free < Capacity
  BY <1>1, <1>3 DEF GetOrInsert, Insert, Assign, Promote, Resident, Hit, LruRecords
<1>4. CASE ~ Hit(l, e) /\ ~ (l.free < Capacity)
  <2>1. w.slot = [[l.slot EXCEPT ![Lru(l)] = NoSlot] EXCEPT ![e] = l.slot[Lru(l)]]
    BY <1>1, <1>4 DEF GetOrInsert, Insert, Assign, Promote, PopLru, LruRecords
  <2> QED
    BY <1>1, <2>1 DEF Resident, Hit, LruRecords
<1> QED
  BY <1>2, <1>3, <1>4

\* What a step of a stream does not touch.
LEMMA HostUntouched ==
  ASSUME UNCHANGED <<lru, host>>
  PROVE  Expert' = Expert /\ Resident(lru)' = Resident(lru)
BY DEF Expert, Resident, Hit

LEMMA DefaultStepSafe ==
  ASSUME StreamsOK, DefaultStep
  PROVE  StreamsOK'
<1>1. /\ Len(dflt) \in Nat /\ Len(dflt) > 0 /\ Len(dflt') = Len(dflt) - 1 /\ dflt' \in Seq(Commands)
      /\ \A i \in 1..Len(dflt') : dflt'[i] = dflt[i + 1]
      /\ Len(copyq) \in Nat /\ Len(copyq') = Len(copyq) /\ copyq' \in Seq(Commands)
      /\ \A j \in 1..Len(copyq) :
           /\ copyq'[j].op = copyq[j].op /\ copyq'[j].slot = copyq[j].slot
           /\ copyq'[j].expert = copyq[j].expert
           /\ copyq'[j].after \in Nat /\ copyq[j].after \in Nat
           /\ copyq'[j].after >= copyq[j].after - 1
      /\ dflt[1].op = "wait" => dflt[1].after = 0
  <2>1. StreamTypes
    BY DEF StreamsOK
  <2>2. dflt \in Seq(Commands) /\ copyq \in Seq(Commands)
    BY <2>1 DEF StreamTypes
  <2>3. \A c \in Commands : c.after \in Nat
    BY DEF Commands
  <2>4. \A j \in 1..Len(copyq) : copyq[j] \in Commands
    BY <2>2
  <2>5. \A j \in 1..Len(copyq) : copyq[j].after \in Nat
    BY <2>3, <2>4
  <2> HIDE DEF Commands
  <2>6. /\ Len(dflt) > 0 /\ Len(dflt') = Len(dflt) - 1 /\ dflt' \in Seq(Commands)
        /\ \A i \in 1..Len(dflt') : dflt'[i] = dflt[i + 1]
        /\ Len(copyq') = Len(copyq) /\ copyq' \in Seq(Commands)
        /\ dflt[1].op = "wait" => dflt[1].after = 0
    BY <2>1, DefaultStepShape
  <2>7. \A j \in 1..Len(copyq) :
          /\ copyq'[j].op = copyq[j].op /\ copyq'[j].slot = copyq[j].slot
          /\ copyq'[j].expert = copyq[j].expert /\ copyq'[j].after = Less(copyq[j].after)
    BY <2>1, DefaultStepShape
  <2>8. \A n \in Nat : Less(n) \in Nat /\ Less(n) >= n - 1
    BY DEF Less
  <2>9. /\ Len(dflt) \in Nat /\ Len(copyq) \in Nat
    BY <2>2
  <2>10. ASSUME NEW j \in 1..Len(copyq)
         PROVE  /\ copyq'[j].after \in Nat /\ copyq[j].after \in Nat
                /\ copyq'[j].after >= copyq[j].after - 1
    BY <2>5, <2>7, <2>8
  <2> QED
    BY <2>6, <2>7, <2>9, <2>10
<1>2. /\ UNCHANGED <<lru, host, slots, writing, copyDone, failures>>
      /\ computeDone' = Less(computeDone) /\ computeDone \in Nat
  BY DEF DefaultStep, StreamsOK, StreamTypes
<1>2a. reading' = FALSE
  BY DEF DefaultStep
<1>3. /\ \A s : \A j \in 1..Len(copyq) : IsWrite(j, s)' <=> IsWrite(j, s)
      /\ \A j \in 1..Len(copyq), i \in 1..Len(dflt') : Held(j, i + 1) => Held(j, i)'
      /\ \A j \in 1..Len(copyq), w \in 1..Len(dflt) : Fence1(w, j) => w > 1 /\ Fence1(w - 1, j)'
  <2>1. \A s : \A j \in 1..Len(copyq) : IsWrite(j, s)' <=> IsWrite(j, s)
    BY <1>1 DEF IsWrite
  <2>2. \A j \in 1..Len(copyq), i \in 1..Len(dflt') : Held(j, i + 1) => Held(j, i)'
    <3> SUFFICES ASSUME NEW j \in 1..Len(copyq), NEW i \in 1..Len(dflt'), Held(j, i + 1)
                 PROVE  Held(j, i)'
      OBVIOUS
    <3>1. j - 1 \in 1..Len(copyq) /\ copyq[j - 1].op = "wait" /\ copyq[j - 1].after >= i + 1
      BY <1>1 DEF Held
    <3>2. copyq'[j - 1].op = "wait" /\ copyq'[j - 1].after >= i
      BY <1>1, <3>1
    <3> QED
      BY <1>1, <3>1, <3>2 DEF Held
  <2>3. ASSUME NEW j \in 1..Len(copyq), NEW w \in 1..Len(dflt), Fence1(w, j)
        PROVE  w > 1 /\ Fence1(w - 1, j)'
    <3>1. w # 1
      BY <1>1, <2>3 DEF Fence1
    <3>2. w - 1 \in 1..Len(dflt') /\ dflt'[w - 1] = dflt[w]
      BY <1>1, <3>1
    <3> QED
      BY <2>3, <3>1, <3>2 DEF Fence1
  <2> QED
    BY <2>1, <2>2, <2>3
<1>4. StreamTypes'
  <2>1. \A i \in 1..Len(dflt') : /\ dflt'[i].op \in {"read", "wait"}
                                 /\ dflt'[i].op = "read" => dflt'[i].slot \in Slots
    <3>1. \A i \in 1..Len(dflt) : /\ dflt[i].op \in {"read", "wait"}
                                  /\ dflt[i].op = "read" => dflt[i].slot \in Slots
      BY DEF StreamsOK, StreamTypes
    <3>2. \A i \in 1..Len(dflt') : i + 1 \in 1..Len(dflt)
      BY <1>1
    <3> QED
      BY <1>1, <3>1, <3>2
  <2>2. \A j \in 1..Len(copyq') : copyq'[j].op \in {"write", "wait"}
    BY <1>1 DEF StreamsOK, StreamTypes
  <2>3. copyq' # <<>> => copyq'[Len(copyq')].op = "write"
    BY <1>1 DEF StreamsOK, StreamTypes
  <2>4. \A j \in 1..Len(copyq') : copyq'[j].op = "write" => copyq'[j].slot \in Slots
    BY <1>1 DEF StreamsOK, StreamTypes
  <2>5. computeDone' \in Nat
    BY <1>2 DEF Less
  <2>6. slots \in [Slots -> Experts \cup {Garbage}] /\ copyDone \in Nat
    BY DEF StreamsOK, StreamTypes
  <2> QED
    BY <1>1, <1>2, <2>1, <2>2, <2>3, <2>4, <2>5, <2>6 DEF StreamTypes
<1>4a. HeadsStarted'
  <2>1. writing => IsHead(copyq, "write")'
    BY <1>1 DEF StreamsOK, HeadsStarted, IsHead
  <2> QED
    BY <1>2, <1>2a, <2>1 DEF HeadsStarted
<1>5. ReadsAreSafe'
  <2> SUFFICES ASSUME NEW i \in 1..Len(dflt'), dflt'[i].op = "read"
               PROVE  ReadIsSafe(i)'
    BY DEF ReadsAreSafe
  <2>1. i + 1 \in 1..Len(dflt) /\ dflt'[i] = dflt[i + 1]
    BY <1>1
  <2>2. ReadIsSafe(i + 1)
    BY <2>1 DEF StreamsOK, ReadsAreSafe
  <2>3. CASE /\ slots[dflt[i + 1].slot] = dflt[i + 1].expert
             /\ \A j \in 1..Len(copyq) : IsWrite(j, dflt[i + 1].slot) => Held(j, i + 1)
    BY <1>1, <1>2, <1>3, <2>1, <2>3 DEF ReadIsSafe
  <2>4. ASSUME NEW j \in 1..Len(copyq), IsWrite(j, dflt[i + 1].slot),
               copyq[j].expert = dflt[i + 1].expert,
               NEW w \in 1..i, Fence1(w, j),
               \A m \in 1..Len(copyq) : IsWrite(m, dflt[i + 1].slot) /\ m > j => Held(m, i + 1)
        PROVE  ReadIsSafe(i)'
    <3>1. w - 1 \in 1..(i - 1) /\ Fence1(w - 1, j)'
      BY <1>1, <1>3, <2>4
    <3>2. IsWrite(j, dflt[i].slot)' /\ copyq'[j].expert = dflt'[i].expert
      BY <1>1, <1>3, <2>1, <2>4 DEF IsWrite
    <3>3. \A m \in 1..Len(copyq') : IsWrite(m, dflt[i].slot)' /\ m > j => Held(m, i)'
      BY <1>1, <1>3, <2>1, <2>4, ZenonT(30) DEF IsWrite
    <3> QED
      BY <1>1, <3>1, <3>2, <3>3 DEF ReadIsSafe
  <2>5. (i + 1) - 1 = i
    BY <2>1
  <2>6. \/ /\ slots[dflt[i + 1].slot] = dflt[i + 1].expert
           /\ \A j \in 1..Len(copyq) : IsWrite(j, dflt[i + 1].slot) => Held(j, i + 1)
        \/ \E j \in 1..Len(copyq) :
             /\ IsWrite(j, dflt[i + 1].slot) /\ copyq[j].expert = dflt[i + 1].expert
             /\ \E w \in 1..i : Fence1(w, j)
             /\ \A m \in 1..Len(copyq) : IsWrite(m, dflt[i + 1].slot) /\ m > j => Held(m, i + 1)
    BY <2>2, <2>5 DEF ReadIsSafe
  <2> QED
    BY <2>3, <2>4, <2>6
<1>6. ResidentsArrive'
  <2> SUFFICES ASSUME NEW e \in Resident(lru), Arrives(e, lru.slot[e])
               PROVE  Arrives(e, lru.slot[e])'
    BY <1>2, HostUntouched DEF StreamsOK, ResidentsArrive
  <2> QED
    BY <1>1, <1>2, <1>3 DEF Arrives, IsWrite
<1>7. CopiesAwaited'
  <2> SUFFICES ASSUME NEW j \in 1..Len(copyq), copyq[j].op = "write",
                      NEW w \in 1..Len(dflt), Fence1(w, j)
               PROVE  \E v \in 1..Len(dflt') : Fence1(v, j)'
    BY <1>1, <1>2 DEF StreamsOK, CopiesAwaited
  <2> QED
    BY <1>1, <1>3
<1>8. HostOrder'
  <2>0. HostOrder
    BY DEF StreamsOK
  <2>1. host.pc \in {"load", "copy", "copying"} \/ (host.pc = "issue" /\ ~ host.overlap) =>
          copyq' = <<>>
    <3>1. copyq = <<>> => copyq' = <<>>
      <4>1. Len(copyq') = Len(copyq) /\ copyq' \in Seq(Commands)
        BY <1>1
      <4> QED
        BY <4>1
    <3> QED
      BY <2>0, <3>1 DEF HostOrder
  <2>2. host.pc # "copying"
    BY <1>1, <2>0 DEF HostOrder
  <2>3. ASSUME host.overlap, host.pc # "idle", NEW i \in 1..Len(dflt'), dflt'[i].op = "read"
        PROVE  i <= computeDone'
    <3>1. Len(dflt) \in Nat /\ Len(dflt') = Len(dflt) - 1
      BY <1>1
    <3>2. i + 1 \in 1..Len(dflt)
      BY <2>3, <3>1
    <3>3. dflt'[i] = dflt[i + 1]
      BY <1>1, <2>3
    <3>4. i + 1 <= computeDone
      BY <2>0, <2>3, <3>2, <3>3 DEF HostOrder
    <3> QED
      BY <1>2, <2>3, <3>4 DEF Less
  <2>4. ASSUME host.pc \in {"lookahead", "issue"}, NEW j \in 1..Len(copyq),
               copyq[j].op = "write", copyq[j].expert = Expert
        PROVE  \E w \in 1..Len(dflt') : Fence1(w, j)'
    <3>1. \E w \in 1..Len(dflt) : Fence1(w, j)
      BY <2>0, <2>4 DEF HostOrder
    <3> QED
      BY <1>1, <1>3, <3>1
  <2>5. Expert' = Expert /\ host' = host
    BY <1>2, HostUntouched
  <2>6. host.miss => host.pc = "issue" /\ host.overlap /\ host.ahead # NoSlot
    BY <2>0 DEF HostOrder
  <2> QED
    BY <1>1, <2>1, <2>2, <2>3, <2>4, <2>5, <2>6 DEF HostOrder
<1> QED
  BY <1>4, <1>4a, <1>5, <1>6, <1>7, <1>8 DEF StreamsOK

\* The same for a command of the copy stream; a copy leaves its expert in its slot.
LEMMA CopyStepShape ==
  ASSUME StreamTypes, HeadsStarted, CopyStep
  PROVE  /\ Len(copyq) \in Nat /\ Len(copyq) > 0 /\ Len(copyq') = Len(copyq) - 1
         /\ copyq' \in Seq(Commands)
         /\ \A j \in 1..Len(copyq') : copyq'[j] = copyq[j + 1]
         /\ Len(dflt) \in Nat /\ Len(dflt') = Len(dflt) /\ dflt' \in Seq(Commands)
         /\ \A i \in 1..Len(dflt) :
              /\ dflt'[i].op = dflt[i].op /\ dflt'[i].slot = dflt[i].slot
              /\ dflt'[i].expert = dflt[i].expert
              /\ dflt'[i].after \in Nat /\ dflt[i].after \in Nat
              /\ dflt'[i].after >= dflt[i].after - 1
         /\ copyq[1] \in Commands
         /\ copyq[1].op = "wait" => copyq[1].after = 0 /\ slots' = slots
         /\ copyq[1].op = "write" => slots' = [slots EXCEPT ![copyq[1].slot] = copyq[1].expert]
<1>1. copyq # <<>> /\ (Head(copyq).op = "wait" => Head(copyq).after = 0)
  BY DEF CopyStep, CopyFinish, IsHead
<1>2. dflt \in Seq(Commands) /\ copyq \in Seq(Commands)
  BY DEF StreamTypes
<1>3. /\ Len(copyq) \in Nat /\ Len(copyq) > 0 /\ Len(copyq') = Len(copyq) - 1
      /\ copyq' \in Seq(Commands)
      /\ \A j \in 1..Len(copyq') : copyq'[j] = copyq[j + 1]
      /\ copyq[1] \in Commands
  BY <1>1, <1>2 DEF CopyStep
<1>4. dflt' = [i \in 1..Len(dflt) |-> [dflt[i] EXCEPT !.after = Less(@)]]
  BY DEF CopyStep, Advance
<1>5. \A i \in 1..Len(dflt) : dflt[i] \in Commands
  BY <1>2
<1>6. \A i \in 1..Len(dflt) :
        /\ dflt'[i] \in Commands
        /\ dflt'[i].op = dflt[i].op /\ dflt'[i].slot = dflt[i].slot
        /\ dflt'[i].expert = dflt[i].expert
        /\ dflt'[i].after \in Nat /\ dflt[i].after \in Nat
        /\ dflt'[i].after >= dflt[i].after - 1
  BY <1>4, <1>5 DEF Commands, Less
<1>7. Len(dflt) \in Nat
  BY <1>2
<1>8. dflt' \in Seq(Commands) /\ Len(dflt') = Len(dflt)
  BY <1>4, <1>6, <1>7
<1>9. Head(copyq) = copyq[1]
  BY <1>1, <1>2
<1>10. copyq[1].op = "wait" => copyq[1].after = 0 /\ slots' = slots
  BY <1>1, <1>9 DEF CopyStep, HeadsStarted, IsHead
<1>11. copyq[1].op = "write" => slots' = [slots EXCEPT ![copyq[1].slot] = copyq[1].expert]
  BY <1>1, <1>9 DEF CopyStep, CopyFinish, IsHead
<1> QED
  BY <1>1, <1>3, <1>6, <1>7, <1>8, <1>10, <1>11

LEMMA CopyStepSafe ==
  ASSUME StreamsOK, CopyStep, LruOK(lru)
  PROVE  StreamsOK'
<1>1. /\ Len(copyq) \in Nat /\ Len(copyq) > 0 /\ Len(copyq') = Len(copyq) - 1
      /\ copyq' \in Seq(Commands)
      /\ \A j \in 1..Len(copyq') : copyq'[j] = copyq[j + 1]
      /\ Len(dflt) \in Nat /\ Len(dflt') = Len(dflt) /\ dflt' \in Seq(Commands)
      /\ \A i \in 1..Len(dflt) :
           /\ dflt'[i].op = dflt[i].op /\ dflt'[i].slot = dflt[i].slot
           /\ dflt'[i].expert = dflt[i].expert
           /\ dflt'[i].after \in Nat /\ dflt[i].after \in Nat
           /\ dflt'[i].after >= dflt[i].after - 1
      /\ copyq[1].op = "wait" => copyq[1].after = 0 /\ slots' = slots
      /\ copyq[1].op = "write" => slots' = [slots EXCEPT ![copyq[1].slot] = copyq[1].expert]
  BY CopyStepShape DEF StreamsOK
<1>2. /\ UNCHANGED <<lru, host, reading, computeDone, failures>> /\ ~ writing'
      /\ copyDone' = Less(copyDone) /\ copyDone \in Nat
  BY DEF CopyStep, StreamsOK, StreamTypes
<1>3. /\ slots \in [Slots -> Experts \cup {Garbage}]
      /\ copyq[1].op \in {"write", "wait"}
      /\ copyq[1].op = "write" => copyq[1].slot \in Slots /\ copyq[1].expert \in Experts \cup {Garbage}
  <2>1. copyq[1] \in Commands
    BY CopyStepShape DEF StreamsOK
  <2>2. copyq[1].expert \in Experts \cup {Garbage}
    BY <2>1 DEF Commands
  <2> QED
    BY <1>1, <2>2 DEF StreamsOK, StreamTypes
<1>4. /\ \A s : \A j \in 1..Len(copyq') : IsWrite(j, s)' <=> IsWrite(j + 1, s)
      /\ \A i \in 1..Len(dflt) : \A j \in 1..Len(copyq) : Held(j, i) => j > 2 /\ Held(j - 1, i)'
      /\ \A w \in 1..Len(dflt) : \A j \in 1..Len(copyq) : Fence1(w, j) => Fence1(w, j - 1)'
  <2>1. \A s : \A j \in 1..Len(copyq') : IsWrite(j, s)' <=> IsWrite(j + 1, s)
    BY <1>1 DEF IsWrite
  <2>2. ASSUME NEW i \in 1..Len(dflt), NEW j \in 1..Len(copyq), Held(j, i)
        PROVE  j > 2 /\ Held(j - 1, i)'
    <3>1. j > 1 /\ copyq[j - 1].op = "wait" /\ copyq[j - 1].after >= i
      BY <2>2 DEF Held
    <3>2. j # 2
      BY <1>1, <2>2, <3>1
    <3>3. j > 2 /\ j - 2 \in 1..Len(copyq') /\ (j - 2) + 1 = j - 1 /\ (j - 1) - 1 = j - 2
      BY <1>1, <3>1, <3>2
    <3>4. copyq'[(j - 1) - 1] = copyq[j - 1]
      BY <1>1, <3>3
    <3> QED
      BY <3>1, <3>3, <3>4 DEF Held
  <2>3. \A w \in 1..Len(dflt) : \A j \in 1..Len(copyq) : Fence1(w, j) => Fence1(w, j - 1)'
    BY <1>1 DEF Fence1
  <2> QED
    BY <2>1, <2>2, <2>3
<1>5. StreamTypes'
  <2>1. \A i \in 1..Len(dflt') : /\ dflt'[i].op \in {"read", "wait"}
                                 /\ dflt'[i].op = "read" => dflt'[i].slot \in Slots
    BY <1>1 DEF StreamsOK, StreamTypes
  <2>2. \A j \in 1..Len(copyq') : j + 1 \in 1..Len(copyq)
    BY <1>1
  <2>3. /\ \A j \in 1..Len(copyq') : copyq'[j].op \in {"write", "wait"}
        /\ \A j \in 1..Len(copyq') : copyq'[j].op = "write" => copyq'[j].slot \in Slots
    BY <1>1, <2>2 DEF StreamsOK, StreamTypes
  <2>4. copyq' # <<>> => copyq'[Len(copyq')].op = "write"
    BY <1>1 DEF StreamsOK, StreamTypes
  <2>5. copyDone' \in Nat
    BY <1>2 DEF Less
  <2>6. slots' \in [Slots -> Experts \cup {Garbage}]
    BY <1>1, <1>3
  <2>7. computeDone \in Nat
    BY DEF StreamsOK, StreamTypes
  <2> QED
    BY <1>1, <1>2, <2>1, <2>3, <2>4, <2>5, <2>6, <2>7 DEF StreamTypes
<1>5a. HeadsStarted'
  <2>1. reading => IsHead(dflt, "read")'
    BY <1>1 DEF StreamsOK, HeadsStarted, IsHead
  <2> QED
    BY <1>2, <2>1 DEF HeadsStarted
<1>6. ASSUME NEW s \in Slots, ~ IsWrite(1, s)
      PROVE  slots'[s] = slots[s]
  BY <1>1, <1>3, <1>6 DEF IsWrite
<1>7. ASSUME NEW s, IsWrite(1, s)
      PROVE  s \in Slots /\ slots'[s] = copyq[1].expert
  BY <1>1, <1>3, <1>7 DEF IsWrite
<1>8. ReadsAreSafe'
  <2> SUFFICES ASSUME NEW i \in 1..Len(dflt), dflt[i].op = "read",
                      NEW s, s = dflt[i].slot, NEW e, e = dflt[i].expert
               PROVE  ReadIsSafe(i)'
    BY <1>1 DEF ReadsAreSafe
  <2>1. ReadIsSafe(i) /\ s \in Slots
    BY DEF StreamsOK, StreamTypes, ReadsAreSafe
  <2>2. dflt'[i].slot = s /\ dflt'[i].expert = e
    BY <1>1
  <2>3. CASE /\ slots[s] = e
             /\ \A j \in 1..Len(copyq) : IsWrite(j, s) => Held(j, i)
    <3>1. 1 \in 1..Len(copyq) /\ ~ (1 > 2)
      BY <1>1
    <3>1a. ~ IsWrite(1, s)
      BY <1>4, <2>3, <3>1
    <3>2. slots'[s] = e
      BY <1>6, <2>1, <2>3, <3>1a
    <3>3. ASSUME NEW j \in 1..Len(copyq'), IsWrite(j, s)'
          PROVE  Held(j, i)'
      <4>1. j + 1 \in 1..Len(copyq) /\ (j + 1) - 1 = j
        BY <1>1
      <4>2. IsWrite(j + 1, s)
        BY <1>4, <3>3
      <4> QED
        BY <1>4, <2>3, <4>1, <4>2
    <3> QED
      BY <2>2, <3>2, <3>3 DEF ReadIsSafe
  <2>4. ASSUME NEW j \in 1..Len(copyq), IsWrite(j, s), copyq[j].expert = e,
               NEW w \in 1..(i - 1), Fence1(w, j),
               \A m \in 1..Len(copyq) : IsWrite(m, s) /\ m > j => Held(m, i)
        PROVE  ReadIsSafe(i)'
    <3>1. ASSUME NEW m \in 1..Len(copyq'), IsWrite(m, s)', m > j - 1
          PROVE  Held(m, i)'
      <4>1. m + 1 \in 1..Len(copyq) /\ (m + 1) - 1 = m /\ m + 1 > j
        BY <1>1, <3>1
      <4>2. IsWrite(m + 1, s)
        BY <1>4, <3>1
      <4> QED
        BY <1>4, <2>4, <4>1, <4>2
    <3>2. CASE j = 1
      <4>1. slots'[s] = e
        BY <1>7, <2>4, <3>2
      <4>2. \A m \in 1..Len(copyq') : m > j - 1
        BY <3>2
      <4> QED
        BY <2>2, <3>1, <4>1, <4>2 DEF ReadIsSafe
    <3>3. CASE j # 1
      <4>1. j - 1 \in 1..Len(copyq') /\ (j - 1) + 1 = j /\ copyq'[j - 1] = copyq[j]
        BY <1>1, <3>3
      <4>2. IsWrite(j - 1, s)' /\ copyq'[j - 1].expert = e
        BY <1>4, <2>4, <4>1
      <4>3. w \in 1..Len(dflt) /\ Fence1(w, j - 1)'
        BY <1>1, <1>4, <2>4
      <4> QED
        BY <2>2, <2>4, <3>1, <4>1, <4>2, <4>3 DEF ReadIsSafe
    <3> QED
      BY <3>2, <3>3
  <2> QED
    BY <2>1, <2>3, <2>4 DEF ReadIsSafe
<1>9. ResidentsArrive'
  <2> SUFFICES ASSUME NEW e \in Resident(lru), NEW s, s = lru.slot[e], Arrives(e, s)
               PROVE  Arrives(e, s)'
    BY <1>2, HostUntouched DEF StreamsOK, ResidentsArrive
  <2>1. s \in Slots
    BY ResidentSlot
  <2>2. CASE slots[s] = e /\ \A j \in 1..Len(copyq) : ~ IsWrite(j, s)
    <3>1. slots'[s] = e
      BY <1>1, <1>6, <2>1, <2>2
    <3>2. \A j \in 1..Len(copyq') : j + 1 \in 1..Len(copyq)
      BY <1>1
    <3>3. \A j \in 1..Len(copyq') : ~ IsWrite(j, s)'
      BY <1>4, <2>2, <3>2
    <3> QED
      BY <2>1, <3>1, <3>3 DEF Arrives
  <2>3. ASSUME NEW j \in 1..Len(copyq), IsWrite(j, s), copyq[j].expert = e,
               \A m \in 1..Len(copyq) : IsWrite(m, s) => m <= j
        PROVE  Arrives(e, s)'
    <3>1. ASSUME NEW m \in 1..Len(copyq'), IsWrite(m, s)'
          PROVE  m + 1 <= j
      BY <1>1, <1>4, <2>3, <3>1
    <3>2. CASE j = 1
      <4>1. slots'[s] = e
        BY <1>7, <2>3, <3>2
      <4>2. \A m \in 1..Len(copyq') : ~ IsWrite(m, s)'
        BY <3>1, <3>2
      <4> QED
        BY <2>1, <4>1, <4>2 DEF Arrives
    <3>3. CASE j # 1
      <4>1. j - 1 \in 1..Len(copyq') /\ (j - 1) + 1 = j /\ copyq'[j - 1] = copyq[j]
        BY <1>1, <3>3
      <4>2. IsWrite(j - 1, s)' /\ copyq'[j - 1].expert = e
        BY <1>4, <2>3, <4>1
      <4>3. \A m \in 1..Len(copyq') : IsWrite(m, s)' => m <= j - 1
        BY <3>1
      <4> QED
        BY <2>1, <4>1, <4>2, <4>3 DEF Arrives
    <3> QED
      BY <3>2, <3>3
  <2> QED
    BY <2>2, <2>3 DEF Arrives
<1>10. CopiesAwaited'
  <2> SUFFICES ASSUME NEW j \in 1..Len(copyq'), copyq'[j].op = "write"
               PROVE  (\E w \in 1..Len(dflt) : Fence1(w, j)') \/ (host.miss /\ j <= copyDone')
    BY <1>1, <1>2 DEF CopiesAwaited
  <2>1. j + 1 \in 1..Len(copyq) /\ copyq[j + 1].op = "write" /\ (j + 1) - 1 = j
    BY <1>1
  <2>2. (\E w \in 1..Len(dflt) : Fence1(w, j + 1)) \/ (host.miss /\ j + 1 <= copyDone)
    BY <2>1 DEF StreamsOK, CopiesAwaited
  <2>3. j + 1 <= copyDone => j <= copyDone'
    BY <1>2 DEF Less
  <2> QED
    BY <1>4, <2>1, <2>2, <2>3
<1>11. HostOrder'
  <2>1. ~ (host.pc \in {"load", "copy", "copying"} \/ (host.pc = "issue" /\ ~ host.overlap))
    BY <1>1 DEF StreamsOK, HostOrder
  <2>2. ASSUME host.pc \in {"lookahead", "issue"}, NEW j \in 1..Len(copyq'),
               copyq'[j].op = "write", copyq'[j].expert = Expert
        PROVE  \E w \in 1..Len(dflt) : Fence1(w, j)'
    <3>1. j + 1 \in 1..Len(copyq) /\ copyq[j + 1] = copyq'[j] /\ (j + 1) - 1 = j
      BY <1>1
    <3>2. \E w \in 1..Len(dflt) : Fence1(w, j + 1)
      BY <2>2, <3>1 DEF StreamsOK, HostOrder
    <3> QED
      BY <1>4, <3>1, <3>2
  <2>3. Expert' = Expert /\ host' = host
    BY <1>2, HostUntouched
  <2>4. host.miss => host.pc = "issue" /\ host.overlap /\ host.ahead # NoSlot
    BY DEF StreamsOK, HostOrder
  <2>5. host.overlap /\ host.pc # "idle" =>
          \A i \in 1..Len(dflt) : dflt'[i].op = "read" => i <= computeDone
    BY <1>1 DEF StreamsOK, HostOrder
  <2> QED
    BY <1>1, <1>2, <2>1, <2>2, <2>3, <2>4, <2>5 DEF HostOrder
<1> QED
  BY <1>5, <1>5a, <1>8, <1>9, <1>10, <1>11 DEF StreamsOK

\* A kernel starts.
LEMMA ReadBeginSafe ==
  ASSUME StreamsOK, ReadBegin
  PROVE  StreamsOK'
<1>1. UNCHANGED <<lru, host, slots, dflt, copyq, writing, computeDone, copyDone, failures>>
      /\ IsHead(dflt, "read")
  BY DEF ReadBegin
<1>2. HeadsStarted'
  BY <1>1 DEF StreamsOK, HeadsStarted, IsHead
<1>3. Expert' = Expert /\ Resident(lru)' = Resident(lru)
  BY <1>1, HostUntouched
<1>4. StreamTypes' /\ CopiesAwaited' /\ HostOrder'
  BY <1>1, <1>3 DEF StreamsOK, StreamTypes, CopiesAwaited, HostOrder, Fence1
<1>5. ReadsAreSafe' /\ ResidentsArrive'
  BY <1>1, <1>3
     DEF StreamsOK, ReadsAreSafe, ResidentsArrive, ReadIsSafe, Arrives, IsWrite, Held, Fence1
<1> QED
  BY <1>2, <1>4, <1>5 DEF StreamsOK

\* A copy starts: its slot is garbage from now on, and no read is left that needs it.
LEMMA WriteBeginSafe ==
  ASSUME StreamsOK, WriteBegin
  PROVE  StreamsOK'
<1>1. /\ UNCHANGED <<lru, host, dflt, copyq, reading, computeDone, copyDone, failures>>
      /\ IsHead(copyq, "write") /\ slots' = [slots EXCEPT ![Head(copyq).slot] = Garbage]
  BY DEF WriteBegin
<1>2. HeadsStarted'
  BY <1>1 DEF StreamsOK, HeadsStarted, IsHead
<1>3. Expert' = Expert /\ Resident(lru)' = Resident(lru)
  BY <1>1, HostUntouched
<1>4. /\ slots \in [Slots -> Experts \cup {Garbage}] /\ copyq \in Seq(Commands)
      /\ copyq # <<>> /\ Head(copyq).op = "write"
  BY <1>1 DEF StreamsOK, StreamTypes, IsHead
<1>5. Head(copyq) = copyq[1] /\ 1 \in 1..Len(copyq) /\ Len(copyq) \in Nat
  BY <1>4
<1>6. ASSUME NEW s, ~ IsWrite(1, s)
      PROVE  slots'[s] = slots[s]
  BY <1>1, <1>4, <1>5, <1>6 DEF IsWrite
<1>7. StreamTypes' /\ CopiesAwaited' /\ HostOrder'
  BY <1>1, <1>3, <1>4 DEF StreamsOK, StreamTypes, CopiesAwaited, HostOrder, Fence1
<1>8. ReadsAreSafe'
  <2> SUFFICES ASSUME NEW i \in 1..Len(dflt), dflt[i].op = "read",
                      NEW s, s = dflt[i].slot
               PROVE  ReadIsSafe(i)'
    BY <1>1 DEF ReadsAreSafe
  <2>1. ReadIsSafe(i)
    BY DEF StreamsOK, ReadsAreSafe
  <2>2. CASE slots[s] = dflt[i].expert /\ \A j \in 1..Len(copyq) : IsWrite(j, s) => Held(j, i)
    <3>1. ~ IsWrite(1, s)
      BY <1>5, <2>2 DEF Held
    <3>2. slots'[s] = slots[s]
      BY <1>6, <3>1
    <3> QED
      BY <1>1, <2>2, <3>2 DEF ReadIsSafe, IsWrite, Held
  <2>3. CASE ~ (slots[s] = dflt[i].expert
                /\ \A j \in 1..Len(copyq) : IsWrite(j, s) => Held(j, i))
    BY <1>1, <2>1, <2>3, SMTT(30) DEF ReadIsSafe, IsWrite, Held, Fence1
  <2> QED
    BY <2>2, <2>3
<1>9. ResidentsArrive'
  <2> SUFFICES ASSUME NEW e \in Resident(lru), NEW s, s = lru.slot[e], Arrives(e, s)
               PROVE  Arrives(e, s)'
    BY <1>1, <1>3 DEF StreamsOK, ResidentsArrive
  <2>1. CASE slots[s] = e /\ \A j \in 1..Len(copyq) : ~ IsWrite(j, s)
    <3>1. slots'[s] = slots[s]
      BY <1>5, <1>6, <2>1
    <3> QED
      BY <1>1, <2>1, <3>1 DEF Arrives, IsWrite
  <2>2. CASE ~ (slots[s] = e /\ \A j \in 1..Len(copyq) : ~ IsWrite(j, s))
    BY <1>1, <2>2 DEF Arrives, IsWrite
  <2> QED
    BY <2>1, <2>2
<1> QED
  BY <1>2, <1>7, <1>8, <1>9 DEF StreamsOK

\* Nothing is being copied while no command is queued and no copy is ahead.
LEMMA CopiesDrained ==
  ASSUME StreamsOK, dflt = <<>>, ~ host.miss
  PROVE  copyq = <<>>
<1>1. copyq \in Seq(Commands) /\ (copyq # <<>> => copyq[Len(copyq)].op = "write")
  BY DEF StreamsOK, StreamTypes
<1>2. \A w : w \notin 1..Len(dflt)
  OBVIOUS
<1>3. \A j \in 1..Len(copyq) : copyq[j].op # "write"
  BY <1>2 DEF StreamsOK, CopiesAwaited
<1>4. copyq # <<>> => Len(copyq) \in 1..Len(copyq)
  BY <1>1
<1> QED
  BY <1>1, <1>3, <1>4

LEMMA RouteSafe ==
  ASSUME StreamsOK, NEW route \in Routes, NEW overlap \in BOOLEAN, Route(route, overlap)
  PROVE  StreamsOK'
<1>1. /\ UNCHANGED <<lru, slots, dflt, copyq, reading, writing, computeDone, copyDone, failures>>
      /\ host.pc = "idle" /\ host'.pc = "load" /\ ~ host'.miss /\ dflt = <<>>
  BY DEF Route, gpu
<1>2. ~ host.miss
  BY <1>1 DEF StreamsOK, HostOrder
<1>3. copyq = <<>>
  BY <1>1, <1>2, CopiesDrained
<1>4. StreamTypes' /\ HeadsStarted'
  BY <1>1 DEF StreamsOK, StreamTypes, HeadsStarted, IsHead
<1>5. ReadsAreSafe' /\ CopiesAwaited' /\ HostOrder'
  BY <1>1, <1>3 DEF ReadsAreSafe, CopiesAwaited, HostOrder
<1>6. Resident(lru)' = Resident(lru)
  BY <1>1 DEF Resident, Hit
<1>7. ResidentsArrive'
  BY <1>1, <1>6 DEF StreamsOK, ResidentsArrive, Arrives, IsWrite
<1> QED
  BY <1>4, <1>5, <1>7 DEF StreamsOK

LEMMA EnsureLoadedSafe ==
  ASSUME StreamsOK, CacheInv, EnsureLoaded
  PROVE  StreamsOK'
<1> DEFINE w == GetOrInsert(lru, Expert)
<1>1. /\ UNCHANGED <<slots, dflt, copyq, reading, writing, computeDone, copyDone, failures>>
      /\ host.pc = "load" /\ lru' = w
      /\ host' = [host EXCEPT !.pc  = IF Hit(lru, Expert) THEN Ready ELSE "copy",
                              !.cur = GetOrInsert(lru, Expert).slot[Expert]]
  BY DEF EnsureLoaded, gpu
<1>2. /\ host \in HostRecords /\ host.route \in Routes /\ host.k \in 1..TopK /\ LruOK(lru)
  BY <1>1 DEF CacheInv, LoopInv
<1>3. /\ host'.overlap = host.overlap /\ host'.route = host.route /\ host'.k = host.k
      /\ host'.ahead = host.ahead /\ host'.miss = host.miss
      /\ host'.pc = IF Hit(lru, Expert) THEN Ready ELSE "copy"
      /\ Expert' = Expert
  BY <1>1, <1>2 DEF HostRecords, Expert
<1>4. copyq = <<>> /\ ~ host.miss
  BY <1>1 DEF StreamsOK, HostOrder
<1>5. StreamTypes' /\ HeadsStarted'
  BY <1>1 DEF StreamsOK, StreamTypes, HeadsStarted, IsHead
<1>6. ReadsAreSafe' /\ CopiesAwaited'
  BY <1>1, <1>4
     DEF StreamsOK, ReadsAreSafe, CopiesAwaited, ReadIsSafe, IsWrite, Held, Fence1
<1>7. HostOrder'
  <2>1. host.overlap => \A i \in 1..Len(dflt) : dflt[i].op = "read" => i <= computeDone
    BY <1>1 DEF StreamsOK, HostOrder
  <2>2. host'.pc # "copying"
    BY <1>3 DEF Ready
  <2> QED
    BY <1>1, <1>3, <1>4, <2>1, <2>2 DEF HostOrder
<1>8. Expert \in Experts
  BY <1>2, RouteExperts
<1>9. ResidentsArrive'
  <2> SUFFICES ASSUME NEW e \in Resident(w)
               PROVE  Arrives(e, w.slot[e]) \/ (host'.pc = "copy" /\ e = Expert)
    BY <1>1, <1>3 DEF ResidentsArrive, Arrives, IsWrite
  <2>1. ASSUME NEW x \in Resident(lru)
        PROVE  Arrives(x, lru.slot[x])
    BY <1>1 DEF StreamsOK, ResidentsArrive
  <2>2. CASE e # Expert
    <3>1. e \in Resident(lru) /\ w.slot[e] = lru.slot[e]
      BY <1>2, <1>8, <2>2, OthersStay
    <3> QED
      BY <2>1, <3>1
  <2>3. CASE e = Expert /\ Hit(lru, Expert)
    <3>1. w.slot = lru.slot
      BY <1>2, <1>8, <2>3, GetOrInsertOK
    <3>2. Expert \in Resident(lru)
      BY <1>8, <2>3 DEF Resident
    <3> QED
      BY <2>1, <2>3, <3>1, <3>2
  <2>4. CASE e = Expert /\ ~ Hit(lru, Expert)
    BY <1>3, <2>4
  <2> QED
    BY <2>2, <2>3, <2>4
<1> QED
  BY <1>5, <1>6, <1>7, <1>9 DEF StreamsOK

\* A blocking load runs alone on the GPU, and touches no other expert's slot.
LEMMA CopySafe ==
  ASSUME StreamsOK, CacheInv, CopyBegin \/ CopyEnd
  PROVE  StreamsOK'
<1>1. /\ UNCHANGED <<lru, dflt, copyq, reading, writing, computeDone, copyDone, failures>>
      /\ \E b \in Experts \cup {Garbage} :
           slots' = [slots EXCEPT ![host.cur] = b] /\ (CopyEnd => b = Expert)
      /\ host.pc \in {"copy", "copying"} /\ dflt = <<>> /\ copyq = <<>> /\ ~ host.miss
      /\ CopyEnd \/ host'.pc = "copying"
  <2>1. CASE CopyBegin
    BY <2>1 DEF CopyBegin, CopyEnd, gpu, StreamsOK, HostOrder, CacheInv, LoopInv, HostRecords
  <2>2. CASE CopyEnd
    <3>1. Expert \in Experts
      BY <2>2, RouteExperts DEF CopyEnd, CacheInv, LoopInv
    <3> QED
      BY <2>2, <3>1 DEF CopyEnd, gpu, StreamsOK, HostOrder
  <2> QED
    BY <2>1, <2>2
<1>2. /\ host \in HostRecords /\ host.route \in Routes /\ host.k \in 1..TopK
      /\ LruOK(lru) /\ Expert \in Resident(lru) /\ host.cur = lru.slot[Expert]
  BY <1>1 DEF CacheInv, LoopInv
<1>3. host.cur \in Slots
  BY <1>2, ResidentSlot
<1>4. /\ host'.overlap = host.overlap /\ host'.route = host.route /\ host'.k = host.k
      /\ host'.ahead = host.ahead /\ host'.miss = host.miss /\ Expert' = Expert
  BY <1>2 DEF CopyBegin, CopyEnd, HostRecords, Expert
<1>5. StreamTypes' /\ HeadsStarted'
  BY <1>1 DEF StreamsOK, StreamTypes, HeadsStarted, IsHead
<1>6. ReadsAreSafe' /\ CopiesAwaited' /\ HostOrder'
  BY <1>1, <1>4 DEF ReadsAreSafe, CopiesAwaited, HostOrder
<1>7. slots \in [Slots -> Experts \cup {Garbage}]
  BY DEF StreamsOK, StreamTypes
<1>8. ResidentsArrive'
  <2> SUFFICES ASSUME NEW e \in Resident(lru)
               PROVE  Arrives(e, lru.slot[e])' \/ (host'.pc = "copying" /\ e = Expert)
    BY <1>1, <1>4 DEF ResidentsArrive, Resident, Hit
  <2>1. CASE e = Expert
    BY <1>1, <1>2, <1>3, <1>7, <2>1 DEF Arrives
  <2>2. CASE e # Expert
    <3>1. slots[lru.slot[e]] = e
      BY <1>1, <2>2 DEF StreamsOK, ResidentsArrive, Arrives
    <3>2. lru.slot[e] # host.cur
      BY <1>2, <2>2 DEF LruOK, Sound, Injective
    <3>3. slots'[lru.slot[e]] = e
      BY <1>1, <1>7, <3>1, <3>2
    <3> QED
      BY <1>1, <3>3 DEF Arrives
  <2> QED
    BY <2>1, <2>2
<1> QED
  BY <1>5, <1>6, <1>8 DEF StreamsOK

\* The look-ahead finds nothing to copy.
LEMMA AheadHitSafe ==
  ASSUME StreamsOK, CacheInv, LastExpert \/ ReserveHit
  PROVE  StreamsOK'
<1>1. /\ UNCHANGED <<slots, dflt, copyq, reading, writing, computeDone, copyDone, failures>>
      /\ host.pc = "lookahead"
  BY DEF LastExpert, ReserveHit, gpu
<1>2. /\ host \in HostRecords /\ host.route \in Routes /\ host.k \in 1..TopK /\ LruOK(lru)
      /\ host.overlap
  BY <1>1 DEF CacheInv, LoopInv
<1>3. /\ host'.overlap = host.overlap /\ host'.route = host.route /\ host'.k = host.k
      /\ host'.pc = "issue" /\ host'.miss = FALSE /\ Expert' = Expert
  BY <1>1, <1>2 DEF LastExpert, ReserveHit, HostRecords, Expert
<1>4. lru'.slot = lru.slot
  <2>1. CASE LastExpert
    BY <2>1 DEF LastExpert
  <2>2. CASE ReserveHit
    BY <1>2, <2>2, RouteExperts, GetOrInsertOK DEF ReserveHit
  <2> QED
    BY <2>1, <2>2
<1>5. ~ host.miss
  BY <1>1 DEF StreamsOK, HostOrder
<1>6. StreamTypes' /\ HeadsStarted'
  BY <1>1 DEF StreamsOK, StreamTypes, HeadsStarted, IsHead
<1>7. ReadsAreSafe' /\ CopiesAwaited'
  BY <1>1, <1>5
     DEF StreamsOK, ReadsAreSafe, CopiesAwaited, ReadIsSafe, IsWrite, Held, Fence1
<1>8. HostOrder'
  BY <1>1, <1>2, <1>3 DEF StreamsOK, HostOrder, Fence1
<1>9. ResidentsArrive'
  BY <1>1, <1>4 DEF StreamsOK, ResidentsArrive, Arrives, IsWrite, Resident, Hit
<1> QED
  BY <1>6, <1>7, <1>8, <1>9 DEF StreamsOK

\* The copy ahead is queued behind a wait for every read enqueued so far.
LEMMA ReserveMissSafe ==
  ASSUME StreamsOK, CacheInv, ReserveMiss
  PROVE  StreamsOK'
<1> DEFINE w == GetOrInsert(lru, Next1)
<1>0. PICK n : n = Len(copyq)
  OBVIOUS
<1>1. /\ UNCHANGED <<slots, dflt, reading, writing, computeDone, failures>>
      /\ host.pc = "lookahead" /\ HasNext /\ lru' = w
      /\ copyq' = copyq \o <<Wait(computeDone), Write(AheadSlot, Next1)>>
      /\ copyDone' = Len(copyq')
  BY DEF ReserveMiss, CopyAhead
<1>2. /\ host \in HostRecords /\ host.route \in Routes /\ host.k \in 1..TopK /\ LruOK(lru)
      /\ host.overlap
  BY <1>1 DEF CacheInv, LoopInv
<1>3. /\ host'.overlap = host.overlap /\ host'.route = host.route /\ host'.k = host.k
      /\ host'.pc = "issue" /\ host'.miss = TRUE /\ host'.ahead = AheadSlot /\ Expert' = Expert
  BY <1>2 DEF ReserveMiss, HostRecords, Expert
<1>4. Next1 \in Experts /\ Next1 # Expert
  BY <1>1, <1>2, RouteExperts
<1>5. LruOK(w) /\ AheadSlot = w.slot[Next1] /\ AheadSlot \in Slots
  BY <1>2, <1>4, GetOrInsertOK DEF AheadSlot
<1>6. copyq \in Seq(Commands) /\ n = Len(copyq) /\ n \in Nat /\ computeDone \in Nat
  BY <1>0 DEF StreamsOK, StreamTypes
<1>7. Wait(computeDone) \in Commands /\ Write(AheadSlot, Next1) \in Commands
  BY <1>4, <1>5, <1>6 DEF Commands, Wait, Write
<1>8. /\ copyq' \in Seq(Commands) /\ Len(copyq') = n + 2
      /\ \A j \in 1..n : copyq'[j] = copyq[j]
      /\ copyq'[n + 1] = Wait(computeDone) /\ copyq'[n + 2] = Write(AheadSlot, Next1)
  BY <1>1, <1>6, <1>7
<1>9. /\ \A s : \A j \in 1..n : IsWrite(j, s)' <=> IsWrite(j, s)
      /\ \A s : ~ IsWrite(n + 1, s)' /\ (IsWrite(n + 2, s)' <=> s = AheadSlot)
      /\ copyq'[n + 2].expert = Next1
      /\ \A i : \A j \in 1..n : Held(j, i) => Held(j, i)'
      /\ \A i : i <= computeDone => Held(n + 2, i)'
  <2>1. \A i : \A j \in 1..n : Held(j, i) => Held(j, i)'
    <3> SUFFICES ASSUME NEW i, NEW j \in 1..n, Held(j, i)
                 PROVE  Held(j, i)'
      OBVIOUS
    <3>1. j - 1 \in 1..n
      BY <1>6 DEF Held
    <3> QED
      BY <1>8, <3>1 DEF Held
  <2>2. \A i : i <= computeDone => Held(n + 2, i)'
    <3>1. (n + 2) - 1 = n + 1 /\ n + 2 > 1
      BY <1>6
    <3> QED
      BY <1>8, <3>1 DEF Held, Wait
  <2>3. /\ \A s : \A j \in 1..n : IsWrite(j, s)' <=> IsWrite(j, s)
        /\ \A s : ~ IsWrite(n + 1, s)' /\ (IsWrite(n + 2, s)' <=> s = AheadSlot)
        /\ copyq'[n + 2].expert = Next1
    BY <1>8 DEF IsWrite, Wait, Write
  <2> QED
    BY <2>1, <2>2, <2>3
<1>10. \A j \in 1..Len(copyq') : j \in 1..n \/ j = n + 1 \/ j = n + 2
  BY <1>6, <1>8
<1>11. ~ host.miss
  BY <1>1 DEF StreamsOK, HostOrder
<1>12. StreamTypes'
  <2>1. \A j \in 1..Len(copyq') : /\ copyq'[j].op \in {"write", "wait"}
                                  /\ copyq'[j].op = "write" => copyq'[j].slot \in Slots
    <3>1. \A j \in 1..n : /\ copyq[j].op \in {"write", "wait"}
                          /\ copyq[j].op = "write" => copyq[j].slot \in Slots
      BY <1>0 DEF StreamsOK, StreamTypes
    <3> QED
      BY <1>5, <1>8, <1>10, <3>1 DEF Wait, Write
  <2>2. copyq'[Len(copyq')].op = "write" /\ copyDone' \in Nat
    BY <1>1, <1>6, <1>8 DEF Write
  <2> QED
    BY <1>1, <1>8, <2>1, <2>2 DEF StreamsOK, StreamTypes
<1>13. HeadsStarted'
  <2>1. IsHead(copyq, "write") => IsHead(copyq, "write")'
    <3>1. copyq # <<>> => 1 \in 1..n /\ Head(copyq) = copyq[1]
      BY <1>0, <1>6
    <3>2. copyq' # <<>> /\ Head(copyq') = copyq'[1]
      BY <1>6, <1>8
    <3> QED
      BY <1>8, <3>1, <3>2 DEF IsHead
  <2> QED
    BY <1>1, <2>1 DEF StreamsOK, HeadsStarted, IsHead
<1>14. ReadsAreSafe'
  <2> SUFFICES ASSUME NEW i \in 1..Len(dflt), dflt[i].op = "read",
                      NEW s, s = dflt[i].slot
               PROVE  ReadIsSafe(i)'
    BY <1>1 DEF ReadsAreSafe
  <2>1. ReadIsSafe(i)
    BY DEF StreamsOK, ReadsAreSafe
  <2>2. Held(n + 2, i)'
    BY <1>1, <1>2, <1>9 DEF StreamsOK, HostOrder
  <2>3. CASE slots[s] = dflt[i].expert /\ \A j \in 1..Len(copyq) : IsWrite(j, s) => Held(j, i)
    <3>1. \A j \in 1..Len(copyq') : IsWrite(j, s)' => Held(j, i)'
      BY <1>0, <1>9, <1>10, <2>2, <2>3
    <3> QED
      BY <1>1, <2>3, <3>1 DEF ReadIsSafe
  <2>4. ASSUME NEW j \in 1..n, IsWrite(j, s), copyq[j].expert = dflt[i].expert,
               NEW v \in 1..(i - 1), Fence1(v, j),
               \A m \in 1..n : IsWrite(m, s) /\ m > j => Held(m, i)
        PROVE  ReadIsSafe(i)'
    <3>1. j \in 1..Len(copyq') /\ IsWrite(j, s)' /\ copyq'[j].expert = dflt[i].expert
      BY <1>6, <1>8, <1>9, <2>4
    <3>2. Fence1(v, j)'
      BY <1>1, <2>4 DEF Fence1
    <3>3. \A m \in 1..Len(copyq') : IsWrite(m, s)' /\ m > j => Held(m, i)'
      BY <1>9, <1>10, <2>2, <2>4
    <3> QED
      BY <1>1, <2>4, <3>1, <3>2, <3>3 DEF ReadIsSafe
  <2> QED
    BY <1>0, <2>1, <2>3, <2>4 DEF ReadIsSafe
<1>15. ResidentsArrive'
  <2> SUFFICES ASSUME NEW e \in Resident(w), NEW s, s = w.slot[e]
               PROVE  Arrives(e, s)'
    BY <1>1 DEF ResidentsArrive
  <2>1. CASE e = Next1
    <3>1. n + 2 \in 1..Len(copyq') /\ \A m \in 1..Len(copyq') : m <= n + 2
      BY <1>6, <1>8
    <3> QED
      BY <1>5, <1>9, <2>1, <3>1 DEF Arrives
  <2>2. CASE e # Next1
    <3>1. e \in Resident(lru) /\ s = lru.slot[e]
      BY <1>2, <1>4, <2>2, OthersStay
    <3>2. Next1 \in Resident(w) /\ Injective(w)
      BY <1>2, <1>4, <1>5, GetOrInsertOK DEF LruOK, Sound, Newest
    <3>3. s # AheadSlot
      BY <1>5, <2>2, <3>2 DEF Injective
    <3>4. Arrives(e, s)
      BY <1>1, <3>1 DEF StreamsOK, ResidentsArrive
    <3>5. \A m \in 1..Len(copyq') : IsWrite(m, s)' => m \in 1..n /\ IsWrite(m, s)
      BY <1>9, <1>10, <3>3
    <3>6. CASE slots[s] = e /\ \A j \in 1..n : ~ IsWrite(j, s)
      BY <1>1, <3>5, <3>6 DEF Arrives
    <3>7. ASSUME NEW j \in 1..n, IsWrite(j, s), copyq[j].expert = e,
                 \A m \in 1..n : IsWrite(m, s) => m <= j
          PROVE  Arrives(e, s)'
      <4>1. j \in 1..Len(copyq') /\ IsWrite(j, s)' /\ copyq'[j].expert = e
        BY <1>6, <1>8, <1>9, <3>7
      <4> QED
        BY <3>5, <3>7, <4>1 DEF Arrives
    <3> QED
      BY <1>0, <3>4, <3>6, <3>7 DEF Arrives
  <2> QED
    BY <2>1, <2>2
<1>16. CopiesAwaited'
  <2>1. ASSUME NEW j \in 1..n, copyq[j].op = "write"
        PROVE  \E v \in 1..Len(dflt) : Fence1(v, j)
    BY <1>0, <1>11, <2>1 DEF StreamsOK, CopiesAwaited
  <2>2. \A j \in 1..Len(copyq') : j <= copyDone'
    BY <1>1, <1>6, <1>8
  <2> QED
    BY <1>3, <2>2 DEF CopiesAwaited
<1>17. HostOrder'
  <2>1. ASSUME NEW j \in 1..Len(copyq'), copyq'[j].op = "write", copyq'[j].expert = Expert
        PROVE  \E v \in 1..Len(dflt) : Fence1(v, j)
    <3>1. j \in 1..n /\ copyq[j].op = "write" /\ copyq[j].expert = Expert
      BY <1>4, <1>8, <1>9, <1>10, <2>1 DEF Wait
    <3> QED
      BY <1>0, <1>1, <3>1 DEF StreamsOK, HostOrder
  <2>2. host'.ahead # NoSlot
    BY <1>3, <1>5, ExpertAssumption DEF Slots, NoSlot
  <2>3. \A i \in 1..Len(dflt) : dflt[i].op = "read" => i <= computeDone
    BY <1>1, <1>2 DEF StreamsOK, HostOrder
  <2> QED
    BY <1>1, <1>2, <1>3, <2>1, <2>2, <2>3 DEF HostOrder, Fence1
<1> QED
  BY <1>12, <1>13, <1>14, <1>15, <1>16, <1>17 DEF StreamsOK

\* The kernels are enqueued, and behind them the wait for the copy ahead.
LEMMA IssueSafe ==
  ASSUME StreamsOK, CacheInv, Issue
  PROVE  StreamsOK'
<1>0. PICK n : n = Len(dflt)
  OBVIOUS
<1>1. /\ UNCHANGED <<lru, slots, copyq, reading, writing, copyDone, failures>>
      /\ host.pc = "issue"
      /\ dflt' = Append(dflt, Read(host.cur, Expert)) \o Fence(copyDone)
      /\ computeDone' = IF host.overlap THEN n + 1 ELSE computeDone
  BY <1>0 DEF Issue
<1>2. /\ host \in HostRecords /\ host.route \in Routes /\ host.k \in 1..TopK /\ LruOK(lru)
      /\ Expert \in Resident(lru) /\ lru.slot[Expert] = host.cur
  BY <1>1 DEF CacheInv, LoopInv
<1>3. /\ host'.overlap = host.overlap /\ host'.miss = FALSE
      /\ host'.pc \in {"idle", "lookahead", "load"}
      /\ host'.pc = "lookahead" => host.overlap
      /\ host'.pc = "load" => ~ host.overlap
  BY <1>2 DEF Issue, HostRecords
<1>4. host.cur \in Slots /\ Expert \in Experts
  BY <1>2, ResidentSlot DEF Resident
<1>5. dflt \in Seq(Commands) /\ n = Len(dflt) /\ n \in Nat /\ computeDone \in Nat /\ copyDone \in Nat
  BY <1>0 DEF StreamsOK, StreamTypes
<1>6. Wait(copyDone) \in Commands /\ Read(host.cur, Expert) \in Commands
  BY <1>4, <1>5 DEF Commands, Wait, Read
<1>7. /\ dflt' \in Seq(Commands) /\ Len(dflt') = IF host.miss THEN n + 2 ELSE n + 1
      /\ \A i \in 1..n : dflt'[i] = dflt[i]
      /\ dflt'[n + 1] = Read(host.cur, Expert)
      /\ host.miss => dflt'[n + 2] = Wait(copyDone)
  <2>1. CASE host.miss
    <3>1. dflt' = Append(dflt, Read(host.cur, Expert)) \o <<Wait(copyDone)>>
      BY <1>1, <2>1 DEF Fence
    <3> HIDE DEF Read, Wait, Commands
    <3> QED
      BY <1>5, <1>6, <2>1, <3>1
  <2>2. CASE ~ host.miss
    <3>1. dflt' = Append(dflt, Read(host.cur, Expert)) \o <<>>
      BY <1>1, <2>2 DEF Fence
    <3> QED
      BY <1>5, <1>6, <2>2, <3>1
  <2> QED
    BY <2>1, <2>2
<1>8. /\ 1..n \subseteq 1..Len(dflt') /\ n + 1 \in 1..Len(dflt')
      /\ \A i \in 1..Len(dflt') : i \in 1..n \/ i = n + 1 \/ (host.miss /\ i = n + 2)
  BY <1>5, <1>7
<1>9. /\ dflt'[n + 1].op = "read" /\ dflt'[n + 1].slot = host.cur /\ dflt'[n + 1].expert = Expert
      /\ host.miss => dflt'[n + 2].op = "wait" /\ dflt'[n + 2].after = copyDone
  BY <1>7 DEF Read, Wait
<1>10. \A j : \A v \in 1..n : Fence1(v, j) => Fence1(v, j)'
  BY <1>7 DEF Fence1
<1>11. StreamTypes'
  <2>1. \A i \in 1..n : /\ dflt[i].op \in {"read", "wait"}
                        /\ dflt[i].op = "read" => dflt[i].slot \in Slots
    BY <1>0 DEF StreamsOK, StreamTypes
  <2>2. \A i \in 1..Len(dflt') : /\ dflt'[i].op \in {"read", "wait"}
                                 /\ dflt'[i].op = "read" => dflt'[i].slot \in Slots
    BY <1>4, <1>7, <1>8, <1>9, <2>1
  <2>3. computeDone' \in Nat
    BY <1>1, <1>5
  <2> QED
    BY <1>1, <1>7, <2>2, <2>3 DEF StreamsOK, StreamTypes
<1>12. HeadsStarted'
  <2>1. IsHead(dflt, "read") => IsHead(dflt, "read")'
    <3>1. dflt # <<>> => 1 \in 1..n /\ Head(dflt) = dflt[1]
      BY <1>5
    <3>2. dflt' # <<>> /\ Head(dflt') = dflt'[1]
      BY <1>5, <1>7
    <3> QED
      BY <1>7, <3>1, <3>2 DEF IsHead
  <2> QED
    BY <1>1, <2>1 DEF StreamsOK, HeadsStarted, IsHead
<1>13. ReadsAreSafe'
  <2>1. ASSUME NEW i \in 1..n, dflt[i].op = "read"
        PROVE  ReadIsSafe(i)'
    <3>1. ReadIsSafe(i)
      BY <1>0, <2>1 DEF StreamsOK, ReadsAreSafe
    <3>2. dflt'[i] = dflt[i] /\ \A v \in 1..(i - 1) : v \in 1..n
      BY <1>5, <1>7
    <3>3. \A j : (\E v \in 1..(i - 1) : Fence1(v, j)) => \E v \in 1..(i - 1) : Fence1(v, j)'
      BY <1>10, <3>2
    <3>5. CASE /\ slots[dflt[i].slot] = dflt[i].expert
               /\ \A j \in 1..Len(copyq) : IsWrite(j, dflt[i].slot) => Held(j, i)
      BY <1>1, <3>2, <3>5 DEF ReadIsSafe, IsWrite, Held
    <3>6. ASSUME NEW j \in 1..Len(copyq), IsWrite(j, dflt[i].slot),
                 copyq[j].expert = dflt[i].expert, \E v \in 1..(i - 1) : Fence1(v, j),
                 \A m \in 1..Len(copyq) : IsWrite(m, dflt[i].slot) /\ m > j => Held(m, i)
          PROVE  ReadIsSafe(i)'
      <4>1. \E v \in 1..(i - 1) : Fence1(v, j)'
        BY <3>3, <3>6
      <4>2. \A m \in 1..Len(copyq) : IsWrite(m, dflt[i].slot)' /\ m > j => Held(m, i)'
        BY <1>1, <3>2, <3>6 DEF IsWrite, Held
      <4> QED
        BY <1>1, <3>2, <3>6, <4>1, <4>2 DEF ReadIsSafe, IsWrite
    <3> QED
      BY <3>1, <3>5, <3>6 DEF ReadIsSafe
  <2>2. ReadIsSafe(n + 1)'
    <3>1. Arrives(Expert, host.cur)
      BY <1>1, <1>2 DEF StreamsOK, ResidentsArrive
    <3>2. CASE slots[host.cur] = Expert /\ \A j \in 1..Len(copyq) : ~ IsWrite(j, host.cur)
      BY <1>1, <1>9, <3>2 DEF ReadIsSafe, IsWrite
    <3>3. ASSUME NEW j \in 1..Len(copyq), IsWrite(j, host.cur), copyq[j].expert = Expert,
                 \A m \in 1..Len(copyq) : IsWrite(m, host.cur) => m <= j
          PROVE  ReadIsSafe(n + 1)'
      <4>1. PICK v \in 1..n : Fence1(v, j)
        BY <1>0, <1>1, <3>3 DEF StreamsOK, HostOrder, IsWrite
      <4>2. v \in 1..((n + 1) - 1) /\ Fence1(v, j)'
        BY <1>5, <1>10, <4>1
      <4>3. \A m \in 1..Len(copyq) : ~ (IsWrite(m, host.cur) /\ m > j)
        BY <3>3
      <4> QED
        BY <1>1, <1>9, <3>3, <4>2, <4>3 DEF ReadIsSafe, IsWrite
    <3> QED
      BY <3>1, <3>2, <3>3 DEF Arrives
  <2> QED
    BY <1>7, <1>8, <1>9, <2>1, <2>2 DEF ReadsAreSafe
<1>14. ResidentsArrive'
  BY <1>1 DEF StreamsOK, ResidentsArrive, Arrives, IsWrite, Resident, Hit
<1>15. \A j \in 1..Len(copyq) : copyq[j].op = "write" => \E v \in 1..Len(dflt') : Fence1(v, j)'
  <2> SUFFICES ASSUME NEW j \in 1..Len(copyq), copyq[j].op = "write"
               PROVE  \E v \in 1..Len(dflt') : Fence1(v, j)'
    OBVIOUS
  <2>1. (\E v \in 1..n : Fence1(v, j)) \/ (host.miss /\ j <= copyDone)
    BY <1>0 DEF StreamsOK, CopiesAwaited
  <2>2. CASE \E v \in 1..n : Fence1(v, j)
    BY <1>8, <1>10, <2>2
  <2>3. CASE host.miss /\ j <= copyDone
    <3>1. n + 2 \in 1..Len(dflt')
      BY <1>5, <1>7, <2>3
    <3>2. Fence1(n + 2, j)'
      BY <1>5, <1>9, <2>3 DEF Fence1
    <3> QED
      BY <3>1, <3>2
  <2> QED
    BY <2>1, <2>2, <2>3
<1>16. CopiesAwaited'
  BY <1>1, <1>15 DEF CopiesAwaited
<1>17. HostOrder'
  <2>1. host'.pc = "load" => copyq = <<>>
    BY <1>1, <1>3 DEF StreamsOK, HostOrder
  <2>2. host.overlap => \A i \in 1..Len(dflt') : dflt'[i].op = "read" => i <= computeDone'
    BY <1>1, <1>5, <1>8, <1>9, SMTT(30)
  <2> QED
    BY <1>1, <1>3, <1>15, <2>1, <2>2 DEF HostOrder
<1> QED
  BY <1>11, <1>12, <1>13, <1>14, <1>16, <1>17 DEF StreamsOK

-----------------------------------------------------------------------------
LEMMA StreamStep ==
  ASSUME CacheInv, StreamInv, [Next]_vars
  PROVE  StreamInv'
<1>1. ASSUME NEW route \in Routes, NEW overlap \in BOOLEAN, Route(route, overlap)
      PROVE  StreamInv'
  BY <1>1, RouteSafe DEF StreamInv, Route
<1>2. CASE EnsureLoaded
  BY <1>2, EnsureLoadedSafe DEF StreamInv, EnsureLoaded
<1>3. CASE CopyBegin \/ CopyEnd
  BY <1>3, CopySafe DEF StreamInv, CopyBegin, CopyEnd
<1>4. CASE CopyFails \/ ReserveFails \/ IssueFails
  <2>1. failures \in Nat /\ failures' = failures + 1
    BY <1>4 DEF StreamInv, CopyFails, ReserveFails, IssueFails, Abandon
  <2> QED
    BY <2>1 DEF StreamInv
<1>5. CASE LastExpert \/ ReserveHit
  BY <1>5, AheadHitSafe DEF StreamInv, LastExpert, ReserveHit
<1>6. CASE ReserveMiss
  BY <1>6, ReserveMissSafe DEF StreamInv, ReserveMiss
<1>7. CASE Issue
  BY <1>7, IssueSafe DEF StreamInv, Issue
<1>8. CASE ReadBegin
  BY <1>8, ReadBeginSafe DEF StreamInv, ReadBegin
<1>9. CASE DefaultStep
  BY <1>9, DefaultStepSafe DEF StreamInv, DefaultStep
<1>10. CASE WriteBegin
  BY <1>10, WriteBeginSafe DEF StreamInv, WriteBegin
<1>11. CASE CopyStep
  BY <1>11, CopyStepSafe DEF StreamInv, CopyStep, CacheInv
<1>12. CASE UNCHANGED vars
  <2>1. Expert' = Expert /\ Resident(lru)' = Resident(lru)
    BY <1>12, HostUntouched DEF vars
  <2>2. StreamsOK => StreamsOK'
    BY <1>12, <2>1
       DEF vars, gpu, StreamsOK, StreamTypes, HeadsStarted, IsHead, ReadsAreSafe,
           ResidentsArrive, CopiesAwaited, HostOrder, ReadIsSafe, Arrives, IsWrite, Held, Fence1
  <2> QED
    BY <1>12, <2>2 DEF StreamInv, vars
<1> QED
  BY <1>1, <1>2, <1>3, <1>4, <1>5, <1>6, <1>7, <1>8, <1>9, <1>10, <1>11, <1>12
     DEF Next, Host

(***************************************************************************)
(* With two slots or more, and as long as no copy or launch fails, every   *)
(* kernel reads its own expert's weights from start to finish, in whatever *)
(* order the host and the two streams run (moe_decode_overlap.rs,          *)
(* moe_cache/overlap.rs).                                                  *)
(***************************************************************************)
THEOREM ExpertReadsRight ==
  ASSUME Capacity >= 2
  PROVE  Spec => []ServesRightExpert
<1>1. Init => StreamInv
  BY StreamInit
<1>2. CacheInv /\ StreamInv /\ [Next]_vars => StreamInv'
  BY StreamStep
<1>3. StreamInv => ServesRightExpert
  <2> SUFFICES ASSUME StreamsOK, reading
               PROVE  slots[Head(dflt).slot] = Head(dflt).expert
    BY DEF StreamInv, ServesRightExpert, EveryReadIsRight
  <2>1. dflt \in Seq(Commands) /\ dflt # <<>> /\ Head(dflt).op = "read"
    BY DEF StreamsOK, StreamTypes, HeadsStarted, IsHead
  <2>2. 1 \in 1..Len(dflt) /\ Head(dflt) = dflt[1]
    BY <2>1
  <2>3. ReadIsSafe(1)
    BY <2>1, <2>2 DEF StreamsOK, ReadsAreSafe
  <2>4. \A w : w \notin 1..(1 - 1)
    OBVIOUS
  <2> QED
    BY <2>2, <2>3, <2>4 DEF ReadIsSafe
<1> QED
  BY <1>1, <1>2, <1>3, ExpertCacheInvariant, PTL DEF Spec
=============================================================================
