--------------------------- MODULE MCSnapshotTurn ---------------------------
(***************************************************************************)
(* SnapshotTurn with a conversation (prompts <<a,b>> and, one reply later, *)
(* <<a,b,b,a>>), an edited history (<<a,a,b>>), a window of two rows that  *)
(* is evicted and refilled within one turn, and a sink of one.             *)
(***************************************************************************)
EXTENDS SnapshotTurn

CONSTANTS a, b

MCHash    == [p \in TokenSeqs |-> p[Len(p)]]
MCBytes   == [n \in 1..MaxLen |-> n]
MCPrompts == {<<a, b>>, <<a, b, b, a>>, <<a, a, b>>}
=============================================================================
