------------------------------ MODULE DiskStore ------------------------------
(***************************************************************************)
(* The optional disk tier (rocml/src/snapshot/disk.rs, --snapshot-dir): one*)
(* file per snapshot and one index.json.  Only the worker thread calls it, *)
(* but it outlives the process, so what matters is the order of its writes:*)
(* a snapshot file is written first, the index in memory changes next, and *)
(* index.json is rewritten last, with no rename and no fsync in between.   *)
(* A process may die between any two of these steps; a write or a delete   *)
(* may fail, which the code logs or ignores; a file may rot.               *)
(*                                                                         *)
(* Abstractions.  The entries are kept least recently used first, which is *)
(* the order of `last_used`.  A file is absent, unreadable (short, bad     *)
(* magic, bad checksum) or a snapshot, which is the prefix it was captured *)
(* after: the sink and window lengths that decide the size of its buffers  *)
(* are those of every process.  A file's name is its key.                  *)
(***************************************************************************)
EXTENDS Snapshots, SequencesExt

CONSTANTS
  Captured,    \* prefixes that turns capture
  Requests,    \* prompts that turns look up
  DiskBudgets, \* values of --snapshot-disk-mb
  MaxCrashes,  \* bound: process deaths
  MaxErrors,   \* bound: failed writes and deletes, rotten files
  Absent, Torn

VARIABLES
  mem,      \* DiskIndex.entries of the running process
  files,    \* the snapshot files
  saved,    \* index.json: a sequence of entries, or Torn
  op,       \* the call in progress
  served,   \* what the last find_best returned
  budget,   \* --snapshot-disk-mb
  crashes, errors

vars == <<mem, files, saved, op, served, budget, crashes, errors>>

Entries   == [stamp : Stamps, ids : Captured]

ASSUME DiskAssumption ==
  /\ Captured \subseteq TokenSeqs /\ Requests \subseteq TokenSeqs
  /\ DiskBudgets \subseteq Nat
  /\ MaxCrashes \in Nat /\ MaxErrors \in Nat
  /\ Absent # Torn /\ {Absent, Torn} \cap Captured = {} /\ Torn \notin Seq(Entries)

NameOf(e) == KeyOf(e.stamp, e.ids)
FileNames == {NameOf(e) : e \in Entries}
Miss      == [hit |-> FALSE]
Idle      == [pc |-> "idle"]
Down      == [pc |-> "down"]

\* used_bytes of the first n entries, and of them all.
TotalBytes(es) ==
  LET used[n \in 0..Len(es)] == IF n = 0 THEN 0 ELSE used[n - 1] + Bytes[Len(es[n].ids)]
  IN  used[Len(es)]

-----------------------------------------------------------------------------
\* Entries other than those of a file (retain), and its new entry as the latest.
Others(es, name) ==
  LET kept[n \in 0..Len(es)] ==
        IF n = 0 THEN <<>>
        ELSE IF NameOf(es[n]) = name THEN kept[n - 1] ELSE Append(kept[n - 1], es[n])
  IN  kept[Len(es)]
MakeLatest(es, e)  == Append(Others(es, NameOf(e)), e)

\* Mutant of EvictTo: stops one entry early.
EvictToAlmost(es, most) ==
  LET fits == {n \in 0..Len(es) : TotalBytes(SubSeq(es, n + 2, Len(es))) <= most}
  IN  SubSeq(es, (CHOOSE n \in fits : \A m \in fits : n <= m) + 1, Len(es))

\* evict_to_budget: the shortest run of oldest entries whose loss suffices.
EvictTo(es, most) ==
  LET fits == {n \in 0..Len(es) : TotalBytes(SubSeq(es, n + 1, Len(es))) <= most}
  IN  SubSeq(es, (CHOOSE n \in fits : \A m \in fits : n <= m) + 1, Len(es))

NamesOf(es) == {NameOf(es[i]) : i \in 1..Len(es)}

\* Deleting files; a delete that fails leaves the file (`let _ = remove_file`).
Delete(names) ==
  \E kept \in SUBSET names :
    /\ files' = [k \in FileNames |-> IF k \in names \ kept THEN Absent ELSE files[k]]
    /\ IF kept = {} THEN UNCHANGED errors
       ELSE errors < MaxErrors /\ errors' = errors + 1

Fault == errors < MaxErrors /\ errors' = errors + 1

Init ==
  /\ mem = <<>> /\ files = [k \in FileNames |-> Absent] /\ saved = <<>>
  /\ op = Down /\ served = Miss
  /\ budget \in DiskBudgets
  /\ crashes = 0 /\ errors = 0

\* DiskStore::open: the directory is not scanned, only index.json is read, and
\* nothing is evicted yet if the budget is a smaller one than before.
Open ==
  /\ op = Down
  /\ budget' \in DiskBudgets
  /\ mem' = IF saved = Torn THEN <<>> ELSE saved
  /\ op' = Idle
  /\ UNCHANGED <<files, saved, served, crashes, errors>>

-----------------------------------------------------------------------------
\* DiskStore::insert, up to the moment the file is truncated for writing.
Insert(stamp, ids) ==
  /\ op = Idle
  /\ Bytes[Len(ids)] <= budget
  /\ files' = [files EXCEPT ![KeyOf(stamp, ids)] = Torn]
  /\ op' = [pc |-> "writing", entry |-> [stamp |-> stamp, ids |-> ids]]
  /\ UNCHANGED <<mem, saved, served, budget, crashes, errors>>

WriteFile ==
  /\ op.pc = "writing"
  /\ files' = [files EXCEPT ![NameOf(op.entry)] = op.entry.ids]
  /\ op' = [op EXCEPT !.pc = "indexing"]
  /\ UNCHANGED <<mem, saved, served, budget, crashes, errors>>

\* The write fails part-way: insert returns without touching the index.
WriteFileFails ==
  /\ op.pc = "writing" /\ Fault
  /\ op' = Idle
  /\ UNCHANGED <<mem, files, saved, served, budget, crashes>>

\* Mutant of IndexEntry: evicted entries leave their files behind.
IndexEntryKeepsFiles ==
  /\ op.pc = "indexing"
  /\ mem' = EvictTo(MakeLatest(mem, op.entry), budget)
  /\ op' = [pc |-> "save", next |-> Idle]
  /\ UNCHANGED <<files, saved, served, budget, crashes, errors>>

IndexEntry ==
  /\ op.pc = "indexing"
  /\ LET es == MakeLatest(mem, op.entry) IN
       /\ mem' = EvictTo(es, budget)
       /\ Delete(NamesOf(es) \ NamesOf(mem'))
  /\ op' = [pc |-> "save", next |-> Idle]
  /\ UNCHANGED <<saved, served, budget, crashes>>

-----------------------------------------------------------------------------
\* save_index: truncate, then write.  Either may fail; the error is logged.
SaveBegin ==
  /\ op.pc = "save"
  /\ saved' = Torn
  /\ op' = [op EXCEPT !.pc = "saving"]
  /\ UNCHANGED <<mem, files, served, budget, crashes, errors>>

SaveEnd ==
  /\ op.pc = "saving"
  /\ saved' = mem
  /\ op' = op.next
  /\ UNCHANGED <<mem, files, served, budget, crashes, errors>>

SaveFails ==
  /\ op.pc \in {"save", "saving"} /\ Fault
  /\ op' = op.next
  /\ UNCHANGED <<mem, files, saved, served, budget, crashes>>

-----------------------------------------------------------------------------
\* Mutant of Candidates: entries are matched by position only.
CandidatesByPosition(es, stamp, ids) ==
  {e \in ToSet(es) : e.stamp = stamp /\ Len(e.ids) < Len(ids)}

Candidates(es, stamp, ids) ==
  {e \in ToSet(es) : /\ e.stamp = stamp /\ Len(e.ids) < Len(ids)
                     /\ e.ids = SubSeq(ids, 1, Len(e.ids))}

\* Mutant of Longest: the candidates are tried shortest first.
Shortest(C) == CHOOSE e \in C : \A d \in C : Len(e.ids) <= Len(d.ids)

Longest(C) == CHOOSE e \in C : \A d \in C : Len(d.ids) <= Len(e.ids)

\* DiskStore::find_best: the exact-prefix entries of the stamp are listed once,
\* and the list (`left`, of what is still to be tried) is walked longest first.
FindBest(stamp, ids) ==
  /\ op = Idle
  /\ op' = [pc |-> "finding", stamp |-> stamp, ids |-> ids, left |-> Candidates(mem, stamp, ids)]
  /\ UNCHANGED <<mem, files, saved, served, budget, crashes, errors>>

Readable(name) == files[name] \notin {Absent, Torn}

Best == Longest(op.left)

FindNothing ==
  /\ op.pc = "finding" /\ op.left = {}
  /\ served' = Miss /\ op' = Idle
  /\ UNCHANGED <<mem, files, saved, budget, crashes, errors>>

Serve ==
  /\ op.pc = "finding" /\ op.left # {} /\ Readable(NameOf(Best))
  /\ served' = [hit |-> TRUE, stamp |-> op.stamp, ids |-> op.ids, snap |-> files[NameOf(Best)]]
  /\ mem' = MakeLatest(mem, Best)
  /\ op' = [pc |-> "save", next |-> Idle]
  /\ UNCHANGED <<files, saved, budget, crashes, errors>>

\* Mutant of DropBroken: the entry of the unreadable file stays in the index.
DropBrokenFileOnly ==
  /\ op.pc = "finding" /\ op.left # {} /\ ~ Readable(NameOf(Best))
  /\ mem' = mem /\ Delete({NameOf(Best)})
  /\ op' = [pc |-> "save", next |-> [op EXCEPT !.left = @ \ {Best}]]
  /\ UNCHANGED <<saved, served, budget, crashes>>

\* A file that fails validation is deleted, and the next candidate is tried.
DropBroken ==
  /\ op.pc = "finding" /\ op.left # {} /\ ~ Readable(NameOf(Best))
  /\ mem' = Others(mem, NameOf(Best)) /\ Delete({NameOf(Best)})
  /\ op' = [pc |-> "save", next |-> [op EXCEPT !.left = @ \ {Best}]]
  /\ UNCHANGED <<saved, served, budget, crashes>>

-----------------------------------------------------------------------------
\* A bit flip or a truncation from outside.
Rot(name) ==
  /\ Readable(name) /\ Fault
  /\ files' = [files EXCEPT ![name] = Torn]
  /\ UNCHANGED <<mem, saved, op, served, budget, crashes>>

\* The server is stopped between two calls, or dies at any point.
Exit ==
  /\ op = Idle
  /\ op' = Down /\ mem' = <<>> /\ served' = Miss
  /\ UNCHANGED <<files, saved, budget, crashes, errors>>

Crash ==
  /\ op.pc \notin {"idle", "down"} /\ crashes < MaxCrashes
  /\ crashes' = crashes + 1
  /\ op' = Down /\ mem' = <<>> /\ served' = Miss
  /\ UNCHANGED <<files, saved, budget, errors>>

Step ==
  \/ WriteFile \/ WriteFileFails \/ IndexEntry
  \/ SaveBegin \/ SaveEnd \/ SaveFails
  \/ FindNothing \/ Serve \/ DropBroken

Next ==
  \/ Open
  \/ \E stamp \in Stamps, ids \in Captured : Insert(stamp, ids)
  \/ \E stamp \in Stamps, ids \in Requests : FindBest(stamp, ids)
  \/ Step
  \/ \E name \in FileNames : Rot(name)
  \/ Exit \/ Crash

Spec == Init /\ [][Next]_vars

-----------------------------------------------------------------------------
(***************************************************************************)
(* An insertion brings what the index accounts for under the budget,       *)
(* however much of it there was: after a restart with a smaller budget,    *)
(* files that rot or a lost index.json too.  It keeps its own entry, and   *)
(* never names a file twice (disk.rs:2-4).                                 *)
(***************************************************************************)
IndexWithinBudget ==
  [][op.pc = "indexing" /\ op'.pc = "save" =>
       /\ TotalBytes(mem') <= budget
       /\ Cardinality(NamesOf(mem')) = Len(mem')
       /\ op.entry \in ToSet(mem')]_vars

(***************************************************************************)
(* The directory is a store of exact prefixes that may forget: what        *)
(* find_best returns was written whole for the request's own stamp, is     *)
(* there, and is token for token a strict prefix of the request.  No torn, *)
(* rotten, overwritten or stale file is ever served, whatever died or      *)
(* failed before (disk.rs:7-12).  The hash must be free of collisions: a   *)
(* file is not compared with the entry that names it.                      *)
(***************************************************************************)
Holdings == {<<name[1], files[name]>> : name \in {k \in FileNames : Readable(k)}}

Tier == INSTANCE PrefixStore WITH
  kept <- Holdings, answer <- served

IsAPrefixStore == Tier!Spec

(***************************************************************************)
(* A hit is the longest one the directory could serve: no longer exact     *)
(* prefix that the index names has a readable file.                        *)
(***************************************************************************)
ServesLongestReadable ==
  [][served' # served /\ served'.hit =>
       \A e \in Candidates(mem, op.stamp, op.ids) :
         Len(e.ids) > Len(served'.snap) => ~ Readable(NameOf(e))]_vars

(***************************************************************************)
(* Between two calls, with no failed write or delete and no death in the   *)
(* middle of a call, a restart would lose nothing: index.json is the index,*)
(* every entry's file is readable and holds its prefix, and no file is     *)
(* forgotten: index.json accounts for all that the directory holds.        *)
(***************************************************************************)
RestartLosesNothing ==
  op = Idle /\ crashes = 0 /\ errors = 0 =>
    /\ saved = mem
    /\ \A i \in 1..Len(mem) : /\ Readable(NameOf(mem[i]))
                              /\ files[NameOf(mem[i])] = mem[i].ids
    /\ {k \in FileNames : files[k] # Absent} = NamesOf(mem)

(***************************************************************************)
(* A broken file is met once.  When find_best answers, after however many  *)
(* files it could not read, the index names no exact prefix of the request *)
(* that is longer than the answer, and none at all after a miss: the next  *)
(* lookup does not come across any of them again (disk.rs:270-276).        *)
(***************************************************************************)
BrokenAreForgotten ==
  [][op.pc = "finding" /\ op' \in {Idle, [pc |-> "save", next |-> Idle]} =>
       \A e \in Candidates(mem', op.stamp, op.ids) :
         served'.hit /\ Len(e.ids) <= Len(served'.snap)]_vars
=============================================================================
