------------------------------ MODULE RamStore ------------------------------
(***************************************************************************)
(* The host-RAM tier of the snapshot store (rocml/src/snapshot/ram.rs): a  *)
(* byte-budgeted LRU map of conversation-state snapshots with at most one  *)
(* pinned entry.  The worker thread is its only caller, so every method is *)
(* one atomic step.                                                        *)
(*                                                                         *)
(* The store is a record and its methods are operators on that record, so  *)
(* that the modules which compose the tiers call the same definitions.     *)
(*                                                                         *)
(* Abstractions.  `tick` and every `last_used` are replaced by the order   *)
(* they induce: older[k] is the set of entries last used before k.         *)
(***************************************************************************)
EXTENDS Snapshots

CONSTANTS
  Budgets,    \* values of --snapshot-ram-mb to start with
  NoKey       \* no pinned entry

VARIABLE ram

ASSUME RamAssumption == Budgets \subseteq Nat /\ NoKey \notin Keys

Live(s)     == {k \in Keys : s.data[k] # NoData}
Unpinned(s) == Live(s) \ {s.pinned}

\* The bytes a set of entries occupies, as the number of byte cells in it.
BytesOf(K) == Cardinality({c \in K \X (1..MaxBytes) : c[2] <= Bytes[c[1][2]]})

NewRam(budget) ==
  [budget |-> budget, used |-> 0, pinned |-> NoKey,
   data |-> [k \in Keys |-> NoData], older |-> [k \in Keys |-> {}]]

(***************************************************************************)
(* RamStore::remove, for a set of keys: drops the entries, returns their   *)
(* bytes, and clears the pin when it named one of them.                    *)
(***************************************************************************)
Without(s, K) ==
  [s EXCEPT !.data   = [k \in Keys |-> IF k \in K THEN NoData ELSE s.data[k]],
            !.used   = s.used - BytesOf(K \cap Live(s)),
            !.older  = [k \in Keys |-> IF k \in K THEN {} ELSE s.older[k] \ K],
            !.pinned = IF s.pinned \in K THEN NoKey ELSE s.pinned]

\* Mutant of Touch: the clock is not advanced, so nothing becomes older.
TouchStale(s, k) == s

\* `next_tick`, stored in k's `last_used`: every other entry is now older.
Touch(s, k) ==
  [s EXCEPT !.older = [j \in Keys |->
                         IF j = k THEN Live(s) \ {k} ELSE s.older[j] \ {k}]]

PinnedBytes(s) == BytesOf({s.pinned} \cap Live(s))

FitsBesidePinned(s, b) == s.budget > 0 /\ b + PinnedBytes(s) <= s.budget
CanPin(s, b)           == s.budget > 0 /\ b <= s.budget

\* Mutants of Victims: the pin is not exempt; one refusal clears the tier.
VictimsDespitePin(s, b) ==
  {k \in Live(s) : s.used - BytesOf(s.older[k]) + b > s.budget}
VictimsAll(s, b) == {k \in Unpinned(s) : s.used + b > s.budget}

(***************************************************************************)
(* The `while used + bytes > budget { evict_one() }` loop: entry k goes    *)
(* exactly when b bytes do not fit once every older unpinned entry has     *)
(* gone.                                                                   *)
(***************************************************************************)
Victims(s, b) ==
  {k \in Unpinned(s) :
     s.used - BytesOf(s.older[k] \cap Unpinned(s)) + b > s.budget}

Store(s, k, p) ==
  Touch([s EXCEPT !.data = [@ EXCEPT ![k] = p],
                  !.used = @ + Bytes[Len(p)]], k)

\* RamStore::insert_inner past its early returns.
MakeRoomAndStore(s, k, p) == Store(Without(s, Victims(s, Bytes[Len(p)])), k, p)

\* Mutant of RamInsert: the same-key entry is left in place.
RamInsertOver(s, stamp, p) ==
  IF FitsBesidePinned(s, Bytes[Len(p)]) THEN MakeRoomAndStore(s, KeyOf(stamp, p), p) ELSE s

(***************************************************************************)
(* RamStore::insert and RamStore::insert_pinned.  The same-key entry is    *)
(* removed first, whether or not the new one is then stored.               *)
(***************************************************************************)
RamInsert(s, stamp, p) ==
  LET k     == KeyOf(stamp, p)
      fresh == Without(s, {k})
  IN  CASE ~ CanPin(s, Bytes[Len(p)])               -> s
        [] /\ CanPin(s, Bytes[Len(p)])
           /\ ~ FitsBesidePinned(fresh, Bytes[Len(p)]) -> fresh
        [] OTHER                                    -> MakeRoomAndStore(fresh, k, p)

RamInsertPinned(s, stamp, p) ==
  LET k     == KeyOf(stamp, p)
      fresh == [Without(s, {k}) EXCEPT !.pinned = NoKey]
  IN  IF CanPin(s, Bytes[Len(p)])
        THEN [MakeRoomAndStore(fresh, k, p) EXCEPT !.pinned = k]
        ELSE s

(***************************************************************************)
(* RamStore::find_best: the positions an exact strict prefix of `ids` is   *)
(* held at, found by hash and confirmed token by token; the longest wins.  *)
(***************************************************************************)
HoldsByHash(s, stamp, p) == KeyOf(stamp, p) \in Live(s) \* mutant of Holds

Holds(s, stamp, p) ==
  /\ KeyOf(stamp, p) \in Live(s)
  /\ s.data[KeyOf(stamp, p)] = p

RamHits(s, stamp, ids) ==
  {n \in 1..(Len(ids) - 1) : Holds(s, stamp, SubSeq(ids, 1, n))}

\* 0 stands for a miss.
RamBest(s, stamp, ids) ==
  IF RamHits(s, stamp, ids) = {} THEN 0
  ELSE CHOOSE n \in RamHits(s, stamp, ids) :
         \A m \in RamHits(s, stamp, ids) : m <= n

RamTouchBest(s, stamp, ids) ==
  IF RamBest(s, stamp, ids) = 0 THEN s
  ELSE Touch(s, KeyOf(stamp, SubSeq(ids, 1, RamBest(s, stamp, ids))))

-----------------------------------------------------------------------------

RamInit == \E budget \in Budgets : ram = NewRam(budget)

Insert(stamp, p)       == ram' = RamInsert(ram, stamp, p)
InsertPinned(stamp, p) == ram' = RamInsertPinned(ram, stamp, p)
FindBest(stamp, ids)   == ram' = RamTouchBest(ram, stamp, ids)

RamNext ==
  \E stamp \in Stamps, p \in TokenSeqs :
    \/ Insert(stamp, p)
    \/ InsertPinned(stamp, p)
    \/ FindBest(stamp, p)

RamSpec == RamInit /\ [][RamNext]_ram

-----------------------------------------------------------------------------
\* Every field has the type its Rust declaration gives it.
RamRecords ==
  [budget : Budgets, used : Nat, pinned : Keys \cup {NoKey},
   data : [Keys -> TokenSeqs \cup {NoData}], older : [Keys -> SUBSET Keys]]

RamTypeOK == ram \in RamRecords

(***************************************************************************)
(* The running counter `used_bytes` equals what the live entries occupy and*)
(* never exceeds `budget_bytes`: no insertion, replacement or eviction     *)
(* miscounts, and the eviction loop never stops above the budget.          *)
(***************************************************************************)
Accounted(s) == s.used = BytesOf(Live(s)) /\ s.used <= s.budget

ExactWithinBudget == Accounted(ram)

(***************************************************************************)
(* "Always names a live entry" (the comment on `pinned`): a pin that       *)
(* outlived its entry would make `fits_beside_pinned` refuse or admit the  *)
(* wrong entries for ever.                                                 *)
(***************************************************************************)
PinOK(s) == s.pinned # NoKey => s.pinned \in Live(s)

(***************************************************************************)
(* Entries are kept under the key of their own prefix, and `last_used`     *)
(* orders the live entries strictly and totally, so that what eviction     *)
(* takes next is never a matter of hash-map iteration order.               *)
(***************************************************************************)
WellKeyed(s) ==
  \A k \in Live(s) : k[2] = Len(s.data[k]) /\ k[3] = Hash[s.data[k]]

RecencyOK(s) ==
  /\ \A k \in Keys : s.older[k] \subseteq Live(s) \ {k}
  /\ \A k \in Keys \ Live(s) : s.older[k] = {}
  /\ \A j, k \in Live(s) : j = k \/ j \in s.older[k] \/ k \in s.older[j]
  /\ \A j, k \in Live(s) : j \in s.older[k] => s.older[j] \subseteq s.older[k]

IndexConsistent == PinOK(ram) /\ WellKeyed(ram) /\ RecencyOK(ram)

(***************************************************************************)
(* The lookup contract, for every request at every moment: whatever        *)
(* find_best returns was stored for that stamp and is, token for token, a  *)
(* strict prefix of the request, and no longer such entry is held -- also  *)
(* when two prefixes collide in the chain hash.                            *)
(***************************************************************************)
Stored(stamp, ids, n) ==
  \E k \in Live(ram) : /\ k[1] = stamp
                       /\ ram.data[k] = SubSeq(ids, 1, n)

LookupIsLongestExactPrefix ==
  \A stamp \in Stamps, ids \in TokenSeqs :
    LET n == RamBest(ram, stamp, ids) IN
      /\ n # 0 => n < Len(ids) /\ Stored(stamp, ids, n)
                  /\ ram.data[KeyOf(stamp, SubSeq(ids, 1, n))] = SubSeq(ids, 1, n)
      /\ \A m \in (n + 1)..(Len(ids) - 1) : ~ Stored(stamp, ids, m)

(***************************************************************************)
(* The pin protects: whatever is inserted or read, the pinned entry stays  *)
(* stored until an entry is inserted under its own key or another entry is *)
(* pinned in its place.                                                    *)
(***************************************************************************)
PinProtects ==
  [][ram.pinned # NoKey =>
       \/ ram.pinned' = ram.pinned /\ ram.data'[ram.pinned] = ram.data[ram.pinned]
       \/ ram.pinned' # NoKey
       \/ \E stamp \in Stamps, p \in TokenSeqs :
            ram.pinned = KeyOf(stamp, p) /\ Insert(stamp, p)]_ram

\* What a step drops, and what it stores or makes the most recent.
Dropped   == Live(ram) \ Live(ram)'
Refreshed == {k \in Live(ram)' : \/ k \notin Live(ram)
                                 \/ ~ (ram.older'[k] \subseteq ram.older[k])}

(***************************************************************************)
(* Eviction is frugal and oldest-first.  A step that drops entries either  *)
(* stored nothing and dropped one (the same-key entry of an insertion that *)
(* was then refused), or it stored an entry, and then everything it dropped*)
(* is older than every unpinned entry it kept, and the new entry would not *)
(* have fitted with the most recent of the dropped ones kept.              *)
(***************************************************************************)
EvictsOldestFirst ==
  [][\/ Refreshed = {} /\ Cardinality(Dropped) <= 1
     \/ \A new \in Refreshed, d \in Dropped :
          /\ \A k \in Unpinned(ram)' \ {new} : d \in ram.older[k]
          /\ (\A e \in Dropped \ {d} : e \in ram.older[d]) =>
               ram.used' + BytesOf({d}) > ram.budget]_ram
=============================================================================
