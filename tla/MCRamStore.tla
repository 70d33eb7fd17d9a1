----------------------------- MODULE MCRamStore -----------------------------
(***************************************************************************)
(* A small instance of RamStore: sequences of two tokens, a chain hash that*)
(* only sees the last token (so prefixes collide), snapshots that grow with*)
(* their position, and budgets from "off" to "three small entries".        *)
(***************************************************************************)
EXTENDS RamStore

MCHash  == [p \in TokenSeqs |-> p[Len(p)]]
MCBytes == [n \in 1..MaxLen |-> n]
=============================================================================
