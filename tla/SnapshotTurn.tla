---------------------------- MODULE SnapshotTurn ----------------------------
(***************************************************************************)
(* One model, its GPU rewind points, and the two store tiers, driven turn  *)
(* after turn by run_turn (rocml/src/snapshot/turn.rs) and generate_core   *)
(* (rocml/src/generate/resumed.rs).  The turns of several conversations    *)
(* interleave as their requests are dequeued; any GPU call may fail, which *)
(* either abandons the turn (`?`) or skips a save, and the process may     *)
(* panic (the worker then resets the model) or restart.                    *)
(*                                                                         *)
(* The RAM tier is RamStore's.  The disk tier is what DiskStore promises:  *)
(* a lookup misses or finds an exact strict prefix that was once inserted, *)
(* in this process or an earlier one.                                      *)
(***************************************************************************)
EXTENDS HybridModel, RamStore

CONSTANTS
  Stamp,        \* this process's model and KV stamp
  Prompts,      \* full_prompt_ids of the requests
  Boundaries,   \* values of stable_boundary; 0 stands for None
  Interval,     \* PREFILL_CAPTURE_INTERVAL
  MaxNew,       \* max_new_tokens
  HasDisk,      \* --snapshot-dir is given
  MaxTurns,     \* bound: turns
  MaxFailures   \* bound: failed calls, panics and restarts

VARIABLES
  model,     \* the live cache
  points,    \* the GPU rewind points
  cold,      \* prefixes inserted in the disk tier
  turn,      \* run_turn's and generate_core's locals
  turns, failures

vars == <<model, points, ram, cold, turn, turns, failures>>

ASSUME TurnAssumption ==
  /\ Stamp \in Stamps
  /\ Prompts \subseteq TokenSeqs
  /\ Boundaries \subseteq Nat
  /\ Interval \in Nat \ {0} /\ MaxNew \in Nat
  /\ HasDisk \in BOOLEAN
  /\ MaxTurns \in Nat /\ MaxFailures \in Nat

Idle == [pc |-> "idle", prompt |-> <<>>, boundary |-> 0, already |-> 0, source |-> "None",
         out |-> <<>>]

Init ==
  /\ model = NewModel /\ points = NoPoints /\ RamInit /\ cold = {}
  /\ turn = Idle /\ turns = 0 /\ failures = 0

At(pc)   == turn.pc = pc
Go(pc)   == turn' = [turn EXCEPT !.pc = pc]
Fault    == failures < MaxFailures /\ failures' = failures + 1
Abandon  == Fault /\ turn' = Idle

\* The tokens the turn has asked the model to hold.
History == turn.prompt \o turn.out

\* A request is dequeued.
Start(prompt, b) ==
  /\ At("idle") /\ turns < MaxTurns
  /\ turns' = turns + 1
  /\ turn' = [Idle EXCEPT !.pc = "reuse", !.prompt = prompt, !.boundary = b]
  /\ UNCHANGED <<model, points, ram, cold, failures>>

-----------------------------------------------------------------------------
\* rewind_to_prefix finds a slot: the GPU tier.
Match == Matching(points, turn.prompt)
Point == points[MatchingSlot(points, turn.prompt)]

Rewind ==
  /\ At("reuse") /\ Match # {}
  /\ model' = RewindModel(model, Point)
  /\ points' = InvalidateAbove(points, Len(Point.prefix))
  /\ turn' = [turn EXCEPT !.pc = "prefill", !.already = Len(Point.prefix),
                         !.source = "Gpu"]
  /\ UNCHANGED <<ram, cold, turns, failures>>

RewindFails ==
  /\ At("reuse") /\ Match # {} /\ Abandon
  /\ model' \in RewindBroken(model, Point)
  /\ UNCHANGED <<points, ram, cold, turns>>

(***************************************************************************)
(* No slot matches: Model::reset, then SnapshotStore::lookup_with_tier.    *)
(* The disk tier may offer `found` tokens; it wins when that is more than  *)
(* the RAM tier has, and is then promoted into it.                         *)
(***************************************************************************)
ColdHits == {Len(p) : p \in {q \in cold : IsStrictPrefixOf(q, turn.prompt)}}

LookUp(found) ==
  IF found > RamBest(ram, Stamp, turn.prompt)
  THEN ram' = RamInsert(RamTouchBest(ram, Stamp, turn.prompt), Stamp,
                        SubSeq(turn.prompt, 1, found))
  ELSE ram' = RamTouchBest(ram, Stamp, turn.prompt)

HitAt(found) ==
  IF found > RamBest(ram, Stamp, turn.prompt) THEN found ELSE RamBest(ram, Stamp, turn.prompt)

Tier(found) == IF found > RamBest(ram, Stamp, turn.prompt) THEN "Disk" ELSE "Ram"

Missed(found) ==
  /\ At("reuse") /\ Match = {}
  /\ points' = InvalidateAll(points)
  /\ LookUp(found)
  /\ UNCHANGED <<cold, turns>>

StartAfresh(found) ==
  /\ Missed(found) /\ HitAt(found) = 0
  /\ model' = ResetModel(model)
  /\ Go("prefill") /\ UNCHANGED failures

Restore(found) ==
  /\ Missed(found) /\ HitAt(found) # 0
  /\ \E base \in BasesAt(HitAt(found)) :
       model' = RestoreModel(ResetModel(model), SubSeq(turn.prompt, 1, HitAt(found)), base)
  /\ turn' = [turn EXCEPT !.pc = "prefill", !.already = HitAt(found),
                         !.source = Tier(found)]
  /\ UNCHANGED failures

RestoreFails(found) ==
  /\ Missed(found) /\ HitAt(found) # 0 /\ Abandon
  /\ \E base \in BasesAt(HitAt(found)) :
       model' \in RestoreBroken(ResetModel(model), SubSeq(turn.prompt, 1, HitAt(found)), base)

\* Model::reset fails after `pos` and the points are cleared; no lookup is made.
ResetFails ==
  /\ At("reuse") /\ Match = {} /\ Abandon
  /\ points' = InvalidateAll(points)
  /\ model' = ResetBroken(model)
  /\ UNCHANGED <<ram, cold, turns>>

-----------------------------------------------------------------------------
(***************************************************************************)
(* generate_core's prefill.  prefill_boundary is called where the suffix is*)
(* cut: at the 4096-token grid, at a stable boundary strictly inside the   *)
(* suffix, and at the prompt's end.                                        *)
(***************************************************************************)
CutAt(n) ==
  \/ n = Len(turn.prompt) \/ n % Interval = 0
  \/ n = turn.boundary /\ turn.already < n

NextToken == turn.prompt[model.pos + 1]

Prefill ==
  /\ At("prefill")
  /\ model' = Forward(model, NextToken)
  /\ Go(IF CutAt(model.pos + 1) THEN "boundary" ELSE "prefill")
  /\ UNCHANGED <<points, ram, cold, turns, failures>>

\* forward_chunk moves `pos` before it computes the logits.
PrefillFails ==
  /\ At("prefill") /\ Abandon
  /\ model' \in ForwardBroken(model, NextToken) \cup {Forward(model, NextToken)}
  /\ UNCHANGED <<points, ram, cold, turns>>

\* would_keep, would_keep_pinned.
WouldKeep       == HasDisk \/ FitsBesidePinned(ram, Bytes[model.pos])
WouldKeepPinned == HasDisk \/ CanPin(ram, Bytes[model.pos])

\* SnapshotStore::insert and insert_pinned; a capture that fails inserts nothing.
ToDisk(ids) == cold' = IF HasDisk THEN cold \cup {ids} ELSE cold

Keep(ids) == ToDisk(ids) /\ ram' = RamInsert(ram, Stamp, ids)
Pin(ids)  == ToDisk(ids) /\ ram' = RamInsertPinned(ram, Stamp, ids)
KeepNothing == UNCHANGED <<ram, cold>>

\* A save into a GPU slot works, or fails and leaves it invalid.
Saved(slot, ids) == points' = SavePoint(points, slot, model, ids) /\ UNCHANGED failures
NotSaved(slot)   == points' = SavePointBroken(points, slot) /\ Fault

AfterCut == IF model.pos = Len(turn.prompt) THEN "decode" ELSE "prefill"

\* prefill_boundary at the stable boundary.
SaveBoundary ==
  /\ At("boundary") /\ model.pos = turn.boundary
  /\ LET ids == SubSeq(turn.prompt, 1, model.pos) IN
       \/ /\ Saved("StableBoundary", ids)
          /\ IF WouldKeepPinned THEN Pin(ids) ELSE KeepNothing
       \/ /\ NotSaved("StableBoundary")
          /\ IF WouldKeepPinned THEN Pin(ids) ELSE KeepNothing
       \/ /\ WouldKeepPinned /\ Fault /\ KeepNothing
          /\ points' = SavePoint(points, "StableBoundary", model, ids)
  /\ Go(AfterCut)
  /\ UNCHANGED <<model, turns>>

\* prefill_boundary on the grid: a capture for the store only.
SavePeriodic ==
  /\ At("boundary") /\ model.pos # turn.boundary
  /\ IF model.pos < Len(turn.prompt) /\ WouldKeep
       THEN \/ Keep(SubSeq(turn.prompt, 1, model.pos)) /\ UNCHANGED failures
            \/ KeepNothing /\ Fault
       ELSE KeepNothing /\ UNCHANGED failures
  /\ Go(AfterCut)
  /\ UNCHANGED <<model, points, turns>>

-----------------------------------------------------------------------------
\* Mutant of Sample: the context limit is not checked.
SampleUnchecked(t) ==
  /\ At("decode") /\ Len(turn.out) < MaxNew
  /\ turn' = [turn EXCEPT !.out = Append(@, t)]
  /\ model' = Forward(model, t)
  /\ UNCHANGED <<points, ram, cold, turns, failures>>

\* The decode loop: a token is sampled and, unless it ends the text, forwarded.
Sample(t) ==
  /\ At("decode") /\ Len(turn.out) < MaxNew /\ model.pos < MaxLen
  /\ turn' = [turn EXCEPT !.out = Append(@, t)]
  /\ model' = Forward(model, t)
  /\ UNCHANGED <<points, ram, cold, turns, failures>>

\* A stop string completes with t, which is pushed and never forwarded.
SampleStop(t) ==
  /\ At("decode") /\ Len(turn.out) < MaxNew
  /\ turn' = [turn EXCEPT !.pc = "finish", !.out = Append(@, t)]
  /\ UNCHANGED <<model, points, ram, cold, turns, failures>>

\* EOS, which is not pushed, or max_new_tokens.
Stop ==
  /\ At("decode") /\ Go("finish")
  /\ UNCHANGED <<model, points, ram, cold, turns, failures>>

\* forward_token fails, or has no room left (ContextOverflow).
DecodeFails(t) ==
  /\ At("decode") /\ Len(turn.out) < MaxNew
  /\ IF model.pos < MaxLen THEN Abandon /\ model' \in ForwardBroken(model, t)
     ELSE turn' = Idle /\ UNCHANGED <<model, failures>>
  /\ UNCHANGED <<points, ram, cold, turns>>

\* full_tokens.truncate(hybrid.position()).
HeldTokens == SubSeq(History, 1, model.pos)

\* The end of the turn.
Finish ==
  /\ At("finish")
  /\ LET pinned == turn.boundary = 0 /\ WouldKeepPinned IN
       \/ /\ Saved("EndOfTurn", HeldTokens)
          /\ IF pinned THEN Pin(HeldTokens) ELSE KeepNothing
       \/ /\ NotSaved("EndOfTurn")
          /\ IF pinned THEN Pin(HeldTokens) ELSE KeepNothing
       \/ /\ pinned /\ Fault /\ KeepNothing
          /\ points' = SavePoint(points, "EndOfTurn", model, HeldTokens)
  /\ turn' = Idle
  /\ UNCHANGED <<model, turns>>

-----------------------------------------------------------------------------
\* A panic anywhere in a turn: worker_loop catches it and resets the model,
\* ignoring that reset's own result.
Panic ==
  /\ ~ At("idle") /\ Abandon
  /\ model' \in {ResetModel(model), ResetBroken(model)}
  /\ points' = InvalidateAll(points)
  /\ UNCHANGED <<ram, cold, turns>>

\* A new process: only the disk tier is left.
Restart ==
  /\ Abandon
  /\ model' = NewModel /\ points' = NoPoints /\ ram' = NewRam(ram.budget)
  /\ UNCHANGED <<cold, turns>>

Reuse ==
  \/ Rewind \/ RewindFails \/ ResetFails
  \/ \E found \in ColdHits \cup {0} :
       StartAfresh(found) \/ Restore(found) \/ RestoreFails(found)

Generate ==
  \/ Prefill \/ PrefillFails \/ SaveBoundary \/ SavePeriodic
  \/ \E t \in Tokens : Sample(t) \/ SampleStop(t) \/ DecodeFails(t)
  \/ Stop \/ Finish

Next ==
  \/ \E prompt \in Prompts, b \in Boundaries : Start(prompt, b)
  \/ Reuse \/ Generate \/ Panic \/ Restart

Spec == Init /\ [][Next]_vars

-----------------------------------------------------------------------------
Points == [prefix : Histories \cup {Invalid}, gdn : Contents, base : Nat,
           win : [WinSlots -> Contents]]

\* Every variable has its type, and the live position and boundary fit the turn.
TurnTypeOK ==
  /\ model \in [pos : 0..MaxLen, base : Nat, gdn : Contents,
                fixed : [Positions -> Contents], win : [WinSlots -> Contents]]
  /\ points \in [RewindSlots -> Points]
  /\ ram \in RamRecords
  /\ cold \subseteq TokenSeqs
  /\ turn.pc \in {"idle", "reuse", "prefill", "boundary", "decode", "finish"}
  /\ turns \in 0..MaxTurns /\ failures \in 0..MaxFailures

(***************************************************************************)
(* While a turn runs past its reuse step, the live cache is exactly the    *)
(* state the tokens so far leave behind, whichever tier it was resumed     *)
(* from and whatever failed in the turns before; and it was resumed with   *)
(* at least one prompt token left to forward (rewind.rs:126-129).          *)
(***************************************************************************)
Running == turn.pc \in {"prefill", "boundary", "decode", "finish"}

CacheIsExact ==
  Running => /\ turn.already < Len(turn.prompt)
             /\ Exact(model, SubSeq(History, 1, model.pos))

(***************************************************************************)
(* The validity invariant of cache/rewind.rs:17-23: a matchable rewind     *)
(* point, restored over the rows as they are now, gives exactly the state  *)
(* of its prefix -- no later forward, rewind, restore, failure or panic    *)
(* has left it stale.                                                      *)
(***************************************************************************)
PointsAreExact ==
  \A s \in RewindSlots :
    Valid(points, s) => Exact(RewindModel(model, points[s]), points[s].prefix)

(***************************************************************************)
(* What is captured for the store is a complete state, tagged with the     *)
(* tokens it is the result of: the window base is the one every sequence   *)
(* has at that position, and a restore into an empty cache rebuilds the GDN*)
(* state and every row.  (The tiers keep the tokens only; this is why.)    *)
(***************************************************************************)
CapturesAreExact ==
  turn.pc \in {"boundary", "finish"} =>
    LET ids      == IF At("boundary") THEN SubSeq(turn.prompt, 1, model.pos) ELSE HeldTokens
        restored == RestoreModel(NewModel, ids, model.base)
    IN  /\ Len(ids) = model.pos
        /\ model.base \in BasesAt(model.pos)
        /\ restored.gdn = model.gdn
        /\ \A i \in 0..(model.pos - 1) : Row(restored, i) = Row(model, i)

(***************************************************************************)
(* What the StableBoundary slot is for: when a turn whose boundary lies    *)
(* inside its prompt ends, nothing having failed, any request that goes on *)
(* from that boundary can be rewound to it, the longest point that matches *)
(* -- whether the turn had got there by prefill or by a rewind to that     *)
(* very point.  (A turn resumed there from the store saves nothing, so for *)
(* it this does not hold.)                                                 *)
(***************************************************************************)
PassedBoundary ==
  /\ turn.boundary \in 1..(Len(turn.prompt) - 1)
  /\ \/ turn.already < turn.boundary
     \/ turn.already = turn.boundary /\ turn.source = "Gpu"

BoundaryStaysMatchable ==
  At("finish") /\ failures = 0 /\ PassedBoundary =>
    \A t \in Tokens :
      LET next == Append(SubSeq(turn.prompt, 1, turn.boundary), t) IN
        /\ Matching(points, next) # {}
        /\ Len(points[MatchingSlot(points, next)].prefix) = turn.boundary
=============================================================================
