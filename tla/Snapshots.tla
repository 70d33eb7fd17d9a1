------------------------------ MODULE Snapshots ------------------------------
(***************************************************************************)
(* What the two tiers of the snapshot store agree on (rocml/src/snapshot/  *)
(* {types,hash}.rs): a snapshot is the token prefix it was captured after, *)
(* it is kept under a key made of its stamps, its position and the chain   *)
(* hash of its tokens, and its size depends on its position only           *)
(* (`snapshot_byte_size`).  The chain hash is an arbitrary function of the *)
(* prefix, so two prefixes of one length may share a key.                  *)
(***************************************************************************)
EXTENDS Integers, Sequences, FiniteSets

CONSTANTS
  Stamps,     \* (model stamp, KV config stamp) pairs
  Tokens,     \* token ids
  MaxLen,     \* longest sequence the model holds (its ctx)
  Hashes,     \* values of ChainHash::of
  Hash,       \* the chain hash of a prefix
  Bytes,      \* size of a snapshot captured at a position
  MaxBytes,   \* the largest such size
  NoData      \* no entry under a key

TokenSeqs == UNION {[1..n -> Tokens] : n \in 1..MaxLen}
Keys     == Stamps \X (1..MaxLen) \X Hashes

ASSUME SnapshotAssumption ==
  /\ MaxLen \in Nat /\ MaxBytes \in Nat
  /\ Hash \in [TokenSeqs -> Hashes]
  /\ Bytes \in [1..MaxLen -> 1..MaxBytes]
  /\ NoData \notin TokenSeqs

KeyOf(stamp, p) == <<stamp, Len(p), Hash[p]>>
=============================================================================
