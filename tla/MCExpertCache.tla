---------------------------- MODULE MCExpertCache ----------------------------
(***************************************************************************)
(* ExpertCache with four experts, three of them selected per token, so that a *)
(* cache of two slots evicts on almost every step and the host runs up to  *)
(* two copies ahead of the streams.                                        *)
(***************************************************************************)
EXTENDS ExpertCache
=============================================================================
