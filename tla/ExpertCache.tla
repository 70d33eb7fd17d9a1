----------------------------- MODULE ExpertCache -----------------------------
(***************************************************************************)
(* The VRAM cache of routed-expert weights and the decode loop that copies *)
(* one expert ahead (qwen35/forward/{expert_lru,moe_cache,moe_decode_      *)
(* overlap}.rs).  Three agents share the slots: the host thread, which only*)
(* enqueues; the default GPU stream, which runs the kernels that read a    *)
(* slot; and the non-blocking copy stream, which writes one.               *)
(*                                                                         *)
(* Abstractions.  An expert is a (layer, expert) key; the three regions of *)
(* a slot are one cell, which holds an expert's bytes or Garbage.  Commands*)
(* of a stream run in order.  An event is the number of commands of its    *)
(* stream still to finish before it fires; a wait enqueued on a stream     *)
(* keeps the number the event had when the wait was enqueued, which is     *)
(* what hipStreamWaitEvent does.  A blocking copy runs on the default      *)
(* stream, so it starts when that stream has drained.                      *)
(***************************************************************************)
EXTENDS Integers, Sequences, FiniteSets

CONSTANTS
  Experts,      \* (layer, expert) keys
  Capacity,     \* --moe-cache-slots
  TopK,         \* experts selected per token
  MaxFailures,  \* bound: copies or launches that return an error
  Garbage       \* a slot whose bytes are no expert's

VARIABLES
  lru,          \* ExpertLru: slot of each key, recency, slots handed out
  host,         \* where routed_experts_overlap or the inline loop is
  slots,        \* what each slot holds
  dflt,         \* the default stream: commands not yet finished
  copyq,        \* the copy stream
  reading,      \* the head of dflt is a kernel that has started
  writing,      \* the head of copyq is a copy that has started
  computeDone,  \* the event recorded after the last expert's reads
  copyDone,     \* the event recorded after the last copy
  failures

gpu  == <<dflt, copyq, reading, writing, computeDone, copyDone>>
vars == <<lru, host, slots, gpu, failures>>

Slots  == 0..(Capacity - 1)
NoSlot == -1

ASSUME ExpertAssumption ==
  /\ Capacity \in Nat \ {0}
  /\ TopK \in Nat \ {0}
  /\ MaxFailures \in Nat
  /\ Garbage \notin Experts

-----------------------------------------------------------------------------
\* ExpertLru.  older[e] are the resident keys used less recently than e.
Hit(l, e)   == l.slot[e] # NoSlot
Resident(l) == {e \in Experts : Hit(l, e)}
Lru(l)      == CHOOSE e \in Resident(l) : l.older[e] = {}

Promote(l, e) ==
  [l EXCEPT !.older = [x \in Experts |-> IF x = e THEN Resident(l) \ {e}
                                         ELSE l.older[x] \ {e}]]

PopLru(l) ==
  [l EXCEPT !.slot  = [@ EXCEPT ![Lru(l)] = NoSlot],
            !.older = [x \in Experts |-> l.older[x] \ {Lru(l)}]]

Assign(l, e, s) == Promote([l EXCEPT !.slot = [@ EXCEPT ![e] = s]], e)

Insert(l, e) ==
  IF l.free < Capacity THEN Assign([l EXCEPT !.free = @ + 1], e, l.free)
  ELSE Assign(PopLru(l), e, l.slot[Lru(l)])

\* Mutants of GetOrInsert: the evicted entry's slot is not the one handed on; a
\* hit is not promoted.
GetOrInsertSlotZero(l, e) ==
  IF Hit(l, e) THEN Promote(l, e)
  ELSE IF l.free < Capacity THEN Insert(l, e) ELSE Assign(PopLru(l), e, 0)
GetOrInsertNoPromote(l, e) == IF Hit(l, e) THEN l ELSE Insert(l, e)

\* ExpertLru::get_or_insert; the slot it returns is the result's slot[e].
GetOrInsert(l, e) == IF Hit(l, e) THEN Promote(l, e) ELSE Insert(l, e)

-----------------------------------------------------------------------------
\* Commands of a stream.
Read(s, e)  == [op |-> "read",  slot |-> s,      expert |-> e,       after |-> 0]
Write(s, e) == [op |-> "write", slot |-> s,      expert |-> e,       after |-> 0]
Wait(n)     == [op |-> "wait",  slot |-> NoSlot, expert |-> Garbage, after |-> n]

\* One command of the other stream has finished.
Less(n)      == IF n > 0 THEN n - 1 ELSE 0
Advance(q)   == [i \in 1..Len(q) |-> [q[i] EXCEPT !.after = Less(@)]]
IsHead(q, o) == q # <<>> /\ Head(q).op = o

Routes == {r \in [1..TopK -> Experts] : \A i, j \in 1..TopK : r[i] = r[j] => i = j}

Init ==
  /\ lru = [slot |-> [e \in Experts |-> NoSlot], older |-> [e \in Experts |-> {}], free |-> 0]
  /\ host = [pc |-> "idle", overlap |-> FALSE, route |-> <<>>, k |-> 0,
             cur |-> NoSlot, ahead |-> NoSlot, miss |-> FALSE]
  /\ slots = [s \in Slots |-> Garbage]
  /\ dflt = <<>> /\ copyq = <<>> /\ reading = FALSE /\ writing = FALSE
  /\ computeDone = 0 /\ copyDone = 0
  /\ failures = 0

Expert == host.route[host.k]
Ready  == IF host.overlap THEN "lookahead" ELSE "issue"

(***************************************************************************)
(* The router's choice reaches the host by a blocking copy, so the default *)
(* stream has drained.  Decode with the overlap flag takes the pipelined   *)
(* loop; prefill and captures take the inline one on the same cache.       *)
(***************************************************************************)
Route(route, overlap) ==
  /\ host.pc = "idle" /\ dflt = <<>>
  /\ host' = [pc |-> "load", overlap |-> overlap, route |-> route, k |-> 1,
              cur |-> NoSlot, ahead |-> NoSlot, miss |-> FALSE]
  /\ UNCHANGED <<lru, slots, gpu, failures>>

\* ExpertCache::ensure_loaded, up to the first copy of a miss.
EnsureLoaded ==
  /\ host.pc = "load"
  /\ lru' = GetOrInsert(lru, Expert)
  /\ host' = [host EXCEPT !.pc  = IF Hit(lru, Expert) THEN Ready ELSE "copy",
                          !.cur = GetOrInsert(lru, Expert).slot[Expert]]
  /\ UNCHANGED <<slots, gpu, failures>>

\* The blocking copies of a miss: they start on a drained default stream.
CopyBegin ==
  /\ host.pc = "copy" /\ dflt = <<>>
  /\ slots' = [slots EXCEPT ![host.cur] = Garbage]
  /\ host' = [host EXCEPT !.pc = "copying"]
  /\ UNCHANGED <<lru, gpu, failures>>

CopyEnd ==
  /\ host.pc = "copying"
  /\ slots' = [slots EXCEPT ![host.cur] = Expert]
  /\ host' = [host EXCEPT !.pc = Ready]
  /\ UNCHANGED <<lru, gpu, failures>>

\* An error of a step of the loop: `?` abandons the forward pass there.
Abandon ==
  /\ failures < MaxFailures
  /\ failures' = failures + 1
  /\ host' = [host EXCEPT !.pc = "idle"]

CopyFails ==
  /\ host.pc \in {"copy", "copying"}
  /\ Abandon
  /\ UNCHANGED <<lru, slots, gpu>>

-----------------------------------------------------------------------------
\* The next expert to prefetch, while there is one.
Next1     == host.route[host.k + 1]
HasNext   == host.k < TopK
AheadSlot == GetOrInsert(lru, Next1).slot[Next1]

LastExpert ==
  /\ host.pc = "lookahead" /\ ~ HasNext
  /\ host' = [host EXCEPT !.pc = "issue", !.ahead = NoSlot, !.miss = FALSE]
  /\ UNCHANGED <<lru, slots, gpu, failures>>

\* `reserve` finds the next expert resident: nothing to copy.
ReserveHit ==
  /\ host.pc = "lookahead" /\ HasNext /\ Hit(lru, Next1)
  /\ lru' = GetOrInsert(lru, Next1)
  /\ host' = [host EXCEPT !.pc = "issue", !.ahead = AheadSlot, !.miss = FALSE]
  /\ UNCHANGED <<slots, gpu, failures>>

\* Mutant of CopyAhead: the copy does not wait for the reads issued so far.
CopyAheadUnordered(s, e) == copyq \o <<Wait(0), Write(s, e)>>

\* start_copy_async: the copy stream waits for last_compute_done, then copies.
CopyAhead(s, e) == copyq \o <<Wait(computeDone), Write(s, e)>>

ReserveMiss ==
  /\ host.pc = "lookahead" /\ HasNext /\ ~ Hit(lru, Next1)
  /\ lru' = GetOrInsert(lru, Next1)
  /\ copyq' = CopyAhead(AheadSlot, Next1)
  /\ copyDone' = Len(copyq')
  /\ host' = [host EXCEPT !.pc = "issue", !.ahead = AheadSlot, !.miss = TRUE]
  /\ UNCHANGED <<slots, dflt, reading, writing, computeDone, failures>>

\* start_copy_async fails: at the wait, before its copies, after some of them, or
\* after all of them, where copy_done is to be recorded.
ReserveFails ==
  /\ host.pc = "lookahead" /\ HasNext /\ ~ Hit(lru, Next1)
  /\ lru' = GetOrInsert(lru, Next1)
  /\ copyq' \in {copyq, Append(copyq, Wait(computeDone)),
                 CopyAhead(AheadSlot, Garbage), CopyAhead(AheadSlot, Next1)}
  /\ Abandon
  /\ UNCHANGED <<slots, dflt, reading, writing, computeDone, copyDone>>

(***************************************************************************)
(* The expert's kernels, mark_compute_done, and the wait that makes the    *)
(* next expert's kernels follow its copy.                                  *)
(***************************************************************************)
Fence(n) == IF host.miss THEN <<Wait(n)>> ELSE <<>>

Issue ==
  /\ host.pc = "issue"
  /\ dflt' = Append(dflt, Read(host.cur, Expert)) \o Fence(copyDone)
  /\ computeDone' = IF host.overlap THEN Len(dflt) + 1 ELSE computeDone
  /\ host' = [host EXCEPT !.pc  = IF ~ HasNext THEN "idle"
                                  ELSE IF host.overlap THEN "lookahead" ELSE "load",
                          !.k   = IF HasNext THEN @ + 1 ELSE @,
                          !.cur = IF host.overlap THEN host.ahead ELSE NoSlot,
                          !.ahead = NoSlot, !.miss = FALSE]
  /\ UNCHANGED <<lru, slots, copyq, reading, writing, copyDone, failures>>

\* A launch fails, with none or some of the expert's kernels enqueued, or the wait
\* for the next expert's copy does.
IssueFails ==
  /\ host.pc = "issue"
  /\ \/ dflt' \in {dflt, Append(dflt, Read(host.cur, Expert))} /\ UNCHANGED computeDone
     \/ host.miss /\ dflt' = Append(dflt, Read(host.cur, Expert)) /\ computeDone' = Len(dflt')
  /\ Abandon
  /\ UNCHANGED <<lru, slots, copyq, reading, writing, copyDone>>

-----------------------------------------------------------------------------
\* The default stream: a kernel reads its slot from start to finish.
ReadBegin ==
  /\ IsHead(dflt, "read") /\ ~ reading
  /\ reading' = TRUE
  /\ UNCHANGED <<lru, host, slots, dflt, copyq, writing, computeDone, copyDone, failures>>

DefaultFinish ==
  \/ IsHead(dflt, "read") /\ reading
  \/ IsHead(dflt, "wait") /\ Head(dflt).after = 0

DefaultStep ==
  /\ DefaultFinish
  /\ dflt' = Tail(dflt) /\ reading' = FALSE
  /\ copyq' = Advance(copyq) /\ computeDone' = Less(computeDone)
  /\ UNCHANGED <<lru, host, slots, writing, copyDone, failures>>

\* The copy stream: a slot is garbage while it is being written.
WriteBegin ==
  /\ IsHead(copyq, "write") /\ ~ writing
  /\ writing' = TRUE
  /\ slots' = [slots EXCEPT ![Head(copyq).slot] = Garbage]
  /\ UNCHANGED <<lru, host, dflt, copyq, reading, computeDone, copyDone, failures>>

CopyFinish ==
  \/ IsHead(copyq, "write") /\ writing
  \/ IsHead(copyq, "wait") /\ Head(copyq).after = 0

CopyStep ==
  /\ CopyFinish
  /\ copyq' = Tail(copyq) /\ writing' = FALSE
  /\ slots' = IF writing THEN [slots EXCEPT ![Head(copyq).slot] = Head(copyq).expert]
              ELSE slots
  /\ dflt' = Advance(dflt) /\ copyDone' = Less(copyDone)
  /\ UNCHANGED <<lru, host, reading, computeDone, failures>>

Host ==
  \/ \E route \in Routes, overlap \in BOOLEAN : Route(route, overlap)
  \/ EnsureLoaded \/ CopyBegin \/ CopyEnd \/ CopyFails
  \/ LastExpert \/ ReserveHit \/ ReserveMiss \/ ReserveFails
  \/ Issue \/ IssueFails

Next == Host \/ ReadBegin \/ DefaultStep \/ WriteBegin \/ CopyStep

Spec == Init /\ [][Next]_vars

-----------------------------------------------------------------------------
Commands == [op : {"read", "write", "wait"}, slot : Slots \cup {NoSlot},
             expert : Experts \cup {Garbage}, after : Nat]

LruRecords == [slot : [Experts -> Slots \cup {NoSlot}],
               older : [Experts -> SUBSET Experts], free : 0..Capacity]

HostRecords == [pc : {"idle", "load", "copy", "copying", "lookahead", "issue"},
                overlap : BOOLEAN, route : Routes \cup {<<>>}, k : 0..TopK,
                cur : Slots \cup {NoSlot}, ahead : Slots \cup {NoSlot}, miss : BOOLEAN]

(***************************************************************************)
(* No slot is handed to two experts, and the slots in use are exactly those*)
(* handed out so far: the `lru` crate's own silent eviction never runs.    *)
(***************************************************************************)
SlotsDistinct ==
  /\ \A d, e \in Resident(lru) : lru.slot[d] = lru.slot[e] => d = e
  /\ {lru.slot[e] : e \in Resident(lru)} = 0..(lru.free - 1)

(***************************************************************************)
(* The pointers ensure_loaded and reserve returned still name the expert's *)
(* slot when its kernels are issued: no call in between has recycled it    *)
(* (moe_cache/mod.rs:119-123, the contract the callers must keep).         *)
(***************************************************************************)
SlotHeldUntilIssued ==
  host.pc = "issue" =>
    /\ lru.slot[Expert] = host.cur
    /\ host.ahead # NoSlot => host.ahead # host.cur

(***************************************************************************)
(* A kernel only ever multiplies by the weights of the expert it is for,   *)
(* from its first to its last instruction: no copy overwrites a slot that  *)
(* is still to be read, and no read overtakes its own copy.                *)
(***************************************************************************)
EveryReadIsRight == reading => slots[Head(dflt).slot] = Head(dflt).expert

\* The same for as long as no copy or launch has failed.
ServesRightExpert == failures = 0 => EveryReadIsRight
=============================================================================
