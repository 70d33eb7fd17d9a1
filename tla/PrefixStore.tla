----------------------------- MODULE PrefixStore -----------------------------
(***************************************************************************)
(* What a tier of the snapshot store promises to a turn (the comments of   *)
(* find_best in snapshot/{mod,ram,disk}.rs): it keeps snapshots of         *)
(* prefixes and may lose any of them at any time; what it answers was      *)
(* kept, and is an exact strict prefix of the request under its own stamp. *)
(***************************************************************************)
EXTENDS Integers, Sequences

CONSTANTS Stamps, Captured, Requests

VARIABLES
  kept,    \* pairs of a stamp and a prefix
  answer   \* what the last lookup returned

vars == <<kept, answer>>

Miss == [hit |-> FALSE]

Init == kept = {} /\ answer = Miss

Keep(stamp, prefix) ==
  /\ kept' = kept \cup {<<stamp, prefix>>}
  /\ UNCHANGED answer

\* Evicted, deleted, broken; or the process that asked is gone.
Lose ==
  /\ kept' \subseteq kept
  /\ answer' \in {answer, Miss}

Answer(stamp, ids) ==
  /\ UNCHANGED kept
  /\ \E prefix \in Captured :
       /\ <<stamp, prefix>> \in kept
       /\ Len(prefix) < Len(ids) /\ prefix = SubSeq(ids, 1, Len(prefix))
       /\ answer' = [hit |-> TRUE, stamp |-> stamp, ids |-> ids, snap |-> prefix]

Next ==
  \/ Lose
  \/ \E stamp \in Stamps, prefix \in Captured : Keep(stamp, prefix)
  \/ \E stamp \in Stamps, ids \in Requests : Answer(stamp, ids)

Spec == Init /\ [][Next]_vars
=============================================================================
