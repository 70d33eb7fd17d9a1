----------------------------- MODULE MCDiskStore -----------------------------
(***************************************************************************)
(* DiskStore with one conversation that grows by a token at a time, a      *)
(* second one that leaves it after its first token, and room for the files *)
(* of two or three of the prefixes they capture.                           *)
(***************************************************************************)
EXTENDS DiskStore

CONSTANTS a, b

MCHash     == [p \in TokenSeqs |-> p]
MCBytes    == [n \in 1..MaxLen |-> n]
MCCaptured == {<<a>>, <<a, b>>, <<a, a>>}
MCRequests == {<<a, b, a>>, <<a, a, a>>, <<a, b>>}
=============================================================================
