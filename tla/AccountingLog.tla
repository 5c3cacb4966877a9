------------------------------ MODULE AccountingLog ------------------------------
(***************************************************************************)
(* The files of the accounting log (src/src/accounting.rs): the active log, *)
(* its rotation to numbered files, their compression on a thread of its own *)
(* behind a gate that bars rotation, and the start-up that cleans up after  *)
(* a process that died at any of these steps.  How records get to the       *)
(* writer is the subject of Connections.                                    *)
(*                                                                          *)
(* A file is named by its index, 0 for the active log, and by whether it is *)
(* compressed; it holds the numbers of its records, and a compressed one    *)
(* may be partial.  A write, a rename, a removal is one step, and the       *)
(* process may die between any two.                                         *)
(***************************************************************************)
EXTENDS Integers, Sequences, SequencesExt, FiniteSets

CONSTANTS MaxKeep,        \* max_keep
          CompressAfter,  \* compress_after
          RotateSize,     \* rotate_size, in records
          MaxRecords,     \* bound on the records written
          MaxFaults,      \* bound on the crashes, or I/O errors, of a behaviour
          None

ASSUME KeepAssumption == MaxKeep \in Nat \ {0} /\ RotateSize \in Nat \ {0} /\ CompressAfter \in Nat

\* What a file holds: the numbers of its records, and whether it was completed.
Files == [records: Seq(Nat), whole: BOOLEAN]

ASSUME NoneAssumption == None \notin Files

VARIABLES trouble,   \* what goes wrong in this behaviour: crashes, failing rotations
                     \* or failing compressions
          faults,    \* how often it has
          up,        \* the process runs
          disk,      \* the files
          writer,    \* where the writer thread is in write_record
          todo,      \* the files a rotation has yet to remove or rename
          gate,      \* compress_in_flight
          batch,     \* the files the compression thread has yet to do
          step,      \* where it is in compress_file
          written    \* (history) the number of the last record written

vars == <<trouble, faults, up, disk, writer, todo, gate, batch, step, written>>

Kinds == {"raw", "zst"}
Names == (0..MaxKeep + 1) \X Kinds
Active == <<0, "raw">>
Index(name) == name[1]
Shifted(name) == <<Index(name) + 1, name[2]>>
Output(name) == <<Index(name), "zst">>

File(records) == [records |-> records, whole |-> TRUE]
Exists(name) == disk[name] # None

\* rotated_files.
Rotated == {name \in Names : Exists(name) /\ Index(name) > 0}

\* Mutant: room is made at the wrong end.
PrunedNewest(keepUpto) ==
    {name \in Rotated : /\ \A other \in Rotated : Index(name) <= Index(other)
                        /\ \E other \in Rotated : Index(other) > keepUpto}
\* The files prune(keep_upto) removes.
Pruned(keepUpto) == {name \in Rotated : Index(name) > keepUpto}

Without(names) == [name \in Names |-> IF name \in names THEN None ELSE disk[name]]

\* Mutant: the boundary is off by one.
CandidatesLate == {name \in Rotated : name[2] = "raw" /\ Index(name) > CompressAfter + 1}

\* compression_candidates: raw, and past the boundary.
Candidates == {name \in Rotated : name[2] = "raw" /\ Index(name) > CompressAfter}

-----------------------------------------------------------------------------
(* The writer thread. *)

\* Mutant: the gate is not looked at.
MustRotateAnyway == Len(disk'[Active].records) >= RotateSize

\* The active file is full and no compression bars its rotation.
MustRotate == Len(disk'[Active].records) >= RotateSize /\ ~gate

\* write_record appends the line, flushes it and decides about a rotation.
WriteRecord ==
    /\ up /\ writer = "idle" /\ written < MaxRecords
    /\ written' = written + 1
    /\ disk' = [disk EXCEPT ![Active].records = Append(@, written + 1)]
    /\ IF MustRotate
       THEN writer' = "prune" /\ todo' = Pruned(MaxKeep - 1)
       ELSE UNCHANGED <<writer, todo>>
    /\ UNCHANGED <<trouble, faults, up, gate, batch, step>>

\* rotate first removes what would be shifted past max_keep,
Prune(name) ==
    /\ up /\ writer = "prune" /\ name \in todo
    /\ disk' = Without({name}) /\ todo' = todo \ {name}
    /\ UNCHANGED <<trouble, faults, up, writer, gate, batch, step, written>>

\* lists what is left,
ListFiles ==
    /\ up /\ writer = "prune" /\ todo = {}
    /\ writer' = "shift" /\ todo' = Rotated
    /\ UNCHANGED <<trouble, faults, up, disk, gate, batch, step, written>>

RenamesTo(from, to) == [disk EXCEPT ![from] = None, ![to] = disk[from]]

\* renames each file to the next index, the highest first,
Shift(name) ==
    /\ up /\ writer = "shift" /\ name \in todo
    /\ \A other \in todo : Index(other) <= Index(name)
    /\ disk' = RenamesTo(name, Shifted(name)) /\ todo' = todo \ {name}
    /\ UNCHANGED <<trouble, faults, up, writer, gate, batch, step, written>>

\* then the active file to .1,
RenameActive ==
    /\ up /\ writer = "shift" /\ todo = {}
    /\ disk' = RenamesTo(Active, <<1, "raw">>) /\ writer' = "open"
    /\ UNCHANGED <<trouble, faults, up, todo, gate, batch, step, written>>

\* A batch of compressions closes the gate before its thread starts.
SpawnCompression(candidates) ==
    /\ gate' = (candidates # {}) /\ batch' = candidates /\ step' = "next"

\* and opens a new one; the writer then looks for files to compress.
Reopen ==
    /\ up /\ writer = "open"
    /\ disk' = [disk EXCEPT ![Active] = File(<<>>)] /\ writer' = "idle"
    /\ SpawnCompression(Candidates)
    /\ UNCHANGED <<trouble, faults, up, todo, written>>

\* A rename or a removal fails: write_record returns the error, with the files as
\* they are; the file stays full, and the next record starts the rotation again.
RotationFails ==
    /\ up /\ trouble = "rotation" /\ faults < MaxFaults /\ writer \in {"prune", "shift"}
    /\ faults' = faults + 1 /\ writer' = "idle" /\ todo' = {}
    /\ UNCHANGED <<trouble, up, disk, gate, batch, step, written>>

-----------------------------------------------------------------------------
(* The compression thread. *)

\* The file the thread is at: the batch is in the order of the indices.
Compressing(raw) ==
    /\ up /\ gate /\ raw \in batch
    /\ \A other \in batch : Index(raw) <= Index(other)

\* compress_file: the output is created, or a partial one overwritten,
Create(raw) ==
    /\ Compressing(raw) /\ step = "next" /\ Exists(raw)
    /\ disk' = [disk EXCEPT ![Output(raw)] = [records |-> <<>>, whole |-> FALSE]]
    /\ step' = "copy"
    /\ UNCHANGED <<trouble, faults, up, writer, todo, gate, batch, written>>

\* completed,
Copy(raw) ==
    /\ Compressing(raw) /\ step = "copy" /\ Exists(raw)
    /\ disk' = [disk EXCEPT ![Output(raw)] = disk[raw]]
    /\ step' = "remove"
    /\ UNCHANGED <<trouble, faults, up, writer, todo, gate, batch, written>>

\* and only then the raw file removed.
RemoveRaw(raw) ==
    /\ Compressing(raw) /\ step = "remove"
    /\ disk' = Without({raw}) /\ batch' = batch \ {raw} /\ step' = "next"
    /\ UNCHANGED <<trouble, faults, up, writer, todo, gate, written>>

\* A failure at any point leaves what is on disk and goes on with the next file.
CompressFails(raw) ==
    /\ Compressing(raw) /\ trouble = "compression" /\ faults < MaxFaults
    /\ faults' = faults + 1 /\ batch' = batch \ {raw} /\ step' = "next"
    /\ UNCHANGED <<trouble, up, disk, writer, todo, gate, written>>

\* The end of the batch opens the gate.
ReleaseGate ==
    /\ up /\ gate /\ batch = {}
    /\ gate' = FALSE
    /\ UNCHANGED <<trouble, faults, up, disk, writer, todo, batch, step, written>>

-----------------------------------------------------------------------------
(* The process. *)

Crash ==
    /\ up /\ trouble = "crash" /\ faults < MaxFaults
    /\ faults' = faults + 1 /\ up' = FALSE
    /\ writer' = "idle" /\ todo' = {} /\ gate' = FALSE /\ batch' = {} /\ step' = "next"
    /\ UNCHANGED <<trouble, disk, written>>

\* Mutant: the active file is created anew at start.
StartUpTruncating ==
    /\ ~up
    /\ up' = TRUE
    /\ disk' = [Without(Pruned(MaxKeep)) EXCEPT ![Active] = File(<<>>)]
    /\ SpawnCompression(Candidates \ Pruned(MaxKeep))
    /\ UNCHANGED <<trouble, faults, writer, todo, written>>

\* init: the active file opened or created, the leftovers pruned, and those past
\* the boundary compressed, with the gate closed before the first record.
StartUp ==
    /\ ~up
    /\ up' = TRUE
    /\ LET kept == Without(Pruned(MaxKeep)) IN
       disk' = IF Exists(Active) THEN kept ELSE [kept EXCEPT ![Active] = File(<<>>)]
    /\ SpawnCompression(Candidates \ Pruned(MaxKeep))
    /\ UNCHANGED <<trouble, faults, writer, todo, written>>

-----------------------------------------------------------------------------
Init ==
    /\ trouble \in {"crash", "rotation", "compression"} /\ faults = 0 /\ up = FALSE
    /\ disk = [name \in Names |-> None]
    /\ writer = "idle" /\ todo = {} /\ gate = FALSE /\ batch = {} /\ step = "next" /\ written = 0

Rotate == ListFiles \/ RenameActive \/ Reopen \/ \E name \in Names : Prune(name) \/ Shift(name)

Compress == ReleaseGate \/ \E raw \in Names : Create(raw) \/ Copy(raw) \/ RemoveRaw(raw)

Next == \/ WriteRecord \/ Rotate \/ Compress \/ RotationFails \/ Crash \/ StartUp
        \/ \E raw \in Names : CompressFails(raw)

Spec == Init /\ [][Next]_vars

\* The two threads run; nothing is assumed of records, crashes and start-ups.
FairSpec == Spec /\ WF_vars(Rotate) /\ WF_vars(Compress)

-----------------------------------------------------------------------------
(* Properties. *)

\* "the shared gate bars rotation for its whole duration": the writer is never
\* part way through the renames of a rotation while the compression thread, which
\* works on files by their names, has files to do (compress_in_flight).
RotationIsAlone == writer # "idle" => ~gate

\* What index i tells a reader: the raw file, or else the archive.
At(i) == IF Exists(<<i, "raw">>) THEN disk[<<i, "raw">>].records
         ELSE IF i > 0 /\ Exists(<<i, "zst">>) THEN disk[<<i, "zst">>].records ELSE <<>>

\* The log read from its highest index down to the active file.
Log == FlattenSeq([k \in 1..MaxKeep + 2 |-> At(MaxKeep + 2 - k)])

\* The log is the records written, in their order, less the oldest: no crash,
\* failed rename, compression or rotation loses, repeats or reorders a record in
\* the middle, or loses the newest.  The oldest go only to make room: once one is
\* gone, max_keep files are kept, but for the gap each interrupted rotation may
\* leave in the numbering.
LogIsASuffix ==
    /\ writer \in {"idle", "open"} =>
          /\ Log = [k \in 1..Len(Log) |-> written - Len(Log) + k]
          /\ written > 0 => Log # <<>>
    /\ Len(Log) < written /\ writer = "idle" /\ up =>
          Cardinality({Index(name) : name \in Rotated}) >= MaxKeep - faults

\* The records some file holds, whatever its name.
Readable == UNION {ToSet(disk[name].records) : name \in {n \in Names : Exists(n)}}

Retained == INSTANCE RetainedLog WITH last <- written, kept <- Readable

\* At every single step, in the middle of rotations and compressions, crashes and
\* failures included, the files hold the newest records and give up only the
\* oldest: the log implements RetainedLog (rotate, compress_file, prune).
ImplementsRetainedLog == Retained!RetainedSpec

\* "the next startup scan overwrites any partial output": with crashes alone, every
\* file past compress_after gets compressed while the process runs.  (What an I/O
\* error leaves behind waits for the next rotation.)
CompressionCatchesUp ==
    LET left == \E i \in CompressAfter + 1..MaxKeep : Exists(<<i, "raw">>)
    IN  (up /\ trouble = "crash" /\ left) ~> (~up \/ ~left)

\* Rotation is never barred for good, whatever fails in the batch.
GateOpens == gate ~> ~gate

\* Compression ends: every file gets its turn, and the gate opens after the batch
\* whether its files could be compressed or not (spawn_compression).
CompressionEnds == CompressionCatchesUp /\ GateOpens

-----------------------------------------------------------------------------
\* Inductive: a rotation begins only with the gate open, and a process that died
\* left neither a rotation nor a closed gate.
GateInv == RotationIsAlone /\ (~up => writer = "idle" /\ ~gate)
=============================================================================
