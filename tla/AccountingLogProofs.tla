--------------------------- MODULE AccountingLogProofs ---------------------------
(* Proofs about AccountingLog and the abstract log it implements, for any number of *)
(* files kept, any rotation size and any number of crashes and failures.            *)
EXTENDS AccountingLog, WellFoundedInduction, TLAPS

\* No step of the writer, of the compression thread or of the process lets a
\* rotation and a batch of compressions overlap: only Reopen and StartUp close the
\* gate, with the rotation over, and only WriteRecord begins a rotation.
LEMMA GateStep ==
    ASSUME GateInv, [Next]_vars
    PROVE  GateInv'
<1>. USE DEF GateInv, RotationIsAlone
<1>1. CASE WriteRecord
  BY <1>1 DEF WriteRecord, MustRotate
<1>2. CASE Rotate
  <2>1. ASSUME NEW name \in Names, Prune(name) \/ Shift(name)
        PROVE  GateInv'
    BY <2>1 DEF Prune, Shift
  <2>2. CASE ListFiles \/ RenameActive
    BY <2>2 DEF ListFiles, RenameActive
  <2>3. CASE Reopen
    BY <2>3 DEF Reopen
  <2>. QED BY <1>2, <2>1, <2>2, <2>3 DEF Rotate
<1>3. CASE Compress
  <2>1. ASSUME NEW raw \in Names, Create(raw) \/ Copy(raw) \/ RemoveRaw(raw)
        PROVE  GateInv'
    BY <2>1 DEF Create, Copy, RemoveRaw
  <2>2. CASE ReleaseGate
    BY <2>2 DEF ReleaseGate
  <2>. QED BY <1>3, <2>1, <2>2 DEF Compress
<1>4. CASE RotationFails \/ Crash \/ \E raw \in Names : CompressFails(raw)
  BY <1>4 DEF RotationFails, CompressFails, Crash
<1>5. CASE StartUp
  BY <1>5 DEF StartUp
<1>6. CASE UNCHANGED vars
  BY <1>6 DEF vars
<1>. QED BY <1>1, <1>2, <1>3, <1>4, <1>5, <1>6 DEF Next

\* The writer never renames files beside the compression thread (write_record,
\* spawn_compression and its gate).
THEOREM GateBarsRotation == Spec => []RotationIsAlone
<1>1. Init => GateInv
  BY DEF Init, GateInv, RotationIsAlone
<1>2. GateInv /\ [Next]_vars => GateInv'
  BY GateStep
<1>3. GateInv => RotationIsAlone
  BY DEF GateInv
<1>. QED BY <1>1, <1>2, <1>3, PTL DEF Spec

-----------------------------------------------------------------------------
(* That the log implements RetainedLog.  The files are taken in the order of their *)
(* indices; during a rotation, which moves them one by one, a file that has been   *)
(* moved still counts at the place it came from.                                   *)

\* The records a file holds.
Holds(f) == IF f = None THEN {} ELSE ToSet(f.records)
Recs(name) == Holds(disk[name])

\* The place of a file in the order of the log.
Place(name) ==
    IF writer = "shift" /\ name \in Rotated \ todo THEN Index(name) - 1 ELSE Index(name)

Newer(A, B) == \A x \in A, y \in B : x > y

\* A file before another holds newer records, or the same: a raw file and its
\* archive which a rotation moved apart before it was cut short.
InOrder(a, b) ==
    Place(a) < Place(b) => Newer(Recs(a), Recs(b)) \/ (Place(a) # 0 /\ Recs(a) = Recs(b))

\* A raw file and the archive beside it: the archive is empty, or complete.
Beside(a, b) ==
    a # b /\ Place(a) = Place(b) => Recs(a) = {} \/ Recs(b) = {} \/ Recs(a) = Recs(b)

OrderInv == \A a, b \in Names : InOrder(a, b) /\ Beside(a, b)

LogType ==
    /\ disk \in [Names -> Files \cup {None}]
    /\ written \in Nat
    /\ writer \in {"idle", "prune", "shift", "open"}
    /\ todo \subseteq Names /\ batch \subseteq Names
    /\ \A name \in Names : Recs(name) \subseteq 1..written

\* Where the files are at each stage of a rotation.
PlaceInv ==
    /\ ~Exists(<<0, "zst">>)
    /\ \A name \in Names : Index(name) = MaxKeep + 1 => ~Exists(name)
    /\ up /\ writer # "open" => Exists(Active)
    /\ writer = "open" => ~Exists(Active)
    /\ writer \in {"prune", "shift"} => Recs(Active) # {}
    /\ writer = "prune" => /\ \A name \in todo : Index(name) = MaxKeep
                           /\ \A name \in Rotated : Index(name) = MaxKeep => name \in todo
    /\ writer = "shift" =>
          /\ \A name \in todo : name \in Rotated /\ Index(name) < MaxKeep
          /\ \A moved \in Rotated \ todo :
                /\ Index(moved) >= 2
                /\ \A name \in todo : Index(moved) > Index(name) /\ moved # Shifted(name)

\* The compression thread works on rotated raw files, and removes only one whose
\* archive holds the same.
BatchInv ==
    /\ \A raw \in batch : raw[2] = "raw" /\ Index(raw) > 0
    /\ \A raw \in Names :
          step = "remove" /\ Compressing(raw) /\ Exists(raw) => Recs(Output(raw)) = Recs(raw)

\* What was rotated had records.
RawInv == \A name \in Rotated : name[2] = "raw" => Recs(name) # {}

LogInv == LogType /\ GateInv /\ PlaceInv /\ BatchInv /\ RawInv /\ OrderInv

LEMMA Smallest ==
    ASSUME NEW S \in SUBSET Nat, S # {}
    PROVE  \E n \in S : \A m \in S : n <= m
<1>1. PICK n \in S : \A m \in S : ~(<<m, n>> \in OpToRel(<, Nat))
  BY NatLessThanWellFounded, WFMin
<1>2. \A m \in S : ~(m < n)
  BY <1>1 DEF OpToRel
<1>. QED BY <1>2

LEMMA NameFacts ==
    /\ Active \in Names /\ Index(Active) = 0
    /\ <<0, "zst">> \in Names /\ <<1, "raw">> \in Names
    /\ Active # <<0, "zst">> /\ Active # <<1, "raw">> /\ Index(<<1, "raw">>) = 1
    /\ \A name \in Names :
          /\ Index(name) \in 0..MaxKeep + 1
          /\ Index(name) = 0 => name = Active \/ name = <<0, "zst">>
          /\ Output(name) \in Names /\ Index(Output(name)) = Index(name)
          /\ Index(name) <= MaxKeep =>
                Shifted(name) \in Names /\ Index(Shifted(name)) = Index(name) + 1
BY KeepAssumption DEF Active, Index, Names, Kinds, Output, Shifted

\* Beside a raw file there is at most its archive.
LEMMA ArchiveIsBeside ==
    ASSUME NEW raw \in Names, raw[2] = "raw"
    PROVE  /\ Output(raw) # raw
           /\ \A name \in Names : Index(name) = Index(raw) /\ name # raw => name = Output(raw)
BY DEF Names, Kinds, Index, Output

LEMMA ShiftedApart ==
    ASSUME NEW a \in Names, NEW b \in Names, a # b
    PROVE  Shifted(a) # Shifted(b)
BY DEF Names, Kinds, Index, Shifted

LEMMA HoldsFacts ==
    /\ Holds(None) = {}
    /\ File(<<>>) \in Files /\ Holds(File(<<>>)) = {}
    /\ [records |-> <<>>, whole |-> FALSE] \in Files
    /\ Holds([records |-> <<>>, whole |-> FALSE]) = {}
<1>1. File(<<>>) \in Files /\ [records |-> <<>>, whole |-> FALSE] \in Files
  BY DEF File, Files
<1>2. ToSet(<<>>) = {}
  BY DEF ToSet
<1>. QED BY <1>1, <1>2, NoneAssumption DEF Holds, File

LEMMA HoldsAppended ==
    ASSUME NEW f \in Files, NEW n \in Nat
    PROVE  /\ [f EXCEPT !.records = Append(@, n)] \in Files
           /\ Holds([f EXCEPT !.records = Append(@, n)]) = Holds(f) \cup {n}
<1>. DEFINE s == f.records
            g == [f EXCEPT !.records = Append(@, n)]
<1>1. s \in Seq(Nat) /\ g.records = Append(s, n) /\ Append(s, n) \in Seq(Nat) /\ g \in Files
  <2>1. s \in Seq(Nat) /\ f = [records |-> s, whole |-> f.whole] /\ f.whole \in BOOLEAN
    BY DEF Files
  <2>2. Append(s, n) \in Seq(Nat)
    BY <2>1
  <2>3. g = [records |-> Append(s, n), whole |-> f.whole]
    <3>1. \A r : [f EXCEPT !.records = r] = [records |-> r, whole |-> f.whole]
      BY DEF Files
    <3>2. g = [f EXCEPT !.records = Append(s, n)]
      OBVIOUS
    <3>. QED BY <3>1, <3>2
  <2>. QED BY <2>1, <2>2, <2>3 DEF Files
<1>2. ToSet(Append(s, n)) = ToSet(s) \cup {n}
  <2>1. /\ DOMAIN s = 1..Len(s) /\ Len(s) \in Nat
        /\ DOMAIN Append(s, n) = 1..Len(s) + 1
        /\ \A i \in 1..Len(s) : Append(s, n)[i] = s[i]
        /\ Append(s, n)[Len(s) + 1] = n
    BY <1>1
  <2>2. \A i \in 1..Len(s) + 1 : i \in 1..Len(s) \/ i = Len(s) + 1
    BY <2>1
  <2>3. \A i \in 1..Len(s) : i \in 1..Len(s) + 1
    BY <2>1
  <2>4. Len(s) + 1 \in 1..Len(s) + 1
    BY <2>1
  <2>. HIDE DEF s
  <2>. QED BY <2>1, <2>2, <2>3, <2>4 DEF ToSet
<1>3. f # None /\ g # None
  BY <1>1, NoneAssumption
<1>. QED BY <1>1, <1>2, <1>3 DEF Holds

\* A record can be read when some file holds it.
LEMMA ReadableFacts ==
    /\ Readable = UNION {Recs(name) : name \in Names}
    /\ Readable' = UNION {Recs(name)' : name \in Names}
BY DEF Readable, Recs, Holds, Exists

\* What a step that neither moves a file nor changes what it holds, but for emptying
\* some, leaves in order.
LEMMA OrderKept ==
    ASSUME OrderInv,
           \A name \in Names : Recs(name)' = {} \/ (Recs(name)' = Recs(name) /\ Place(name)' = Place(name))
    PROVE  OrderInv'
<1>. SUFFICES ASSUME NEW a \in Names, NEW b \in Names
              PROVE  InOrder(a, b)' /\ Beside(a, b)'
  BY DEF OrderInv
<1>1. InOrder(a, b) /\ Beside(a, b)
  BY DEF OrderInv
<1>2. CASE Recs(a)' = {} \/ Recs(b)' = {}
  BY <1>2 DEF InOrder, Beside, Newer
<1>3. CASE Recs(a)' # {} /\ Recs(b)' # {}
  <2>1. /\ Recs(a)' = Recs(a) /\ Place(a)' = Place(a)
        /\ Recs(b)' = Recs(b) /\ Place(b)' = Place(b)
    BY <1>3
  <2>. QED BY <1>1, <2>1 DEF InOrder, Beside, Newer
<1>. QED BY <1>2, <1>3

LEMMA RawKept ==
    ASSUME RawInv, \A name \in Names : Index(name) > 0 /\ name[2] = "raw" /\ Exists(name)' =>
                       Exists(name) /\ Recs(name)' = Recs(name)
    PROVE  RawInv'
BY DEF RawInv, Rotated

\* A step of the log is a step of RetainedLog, or changes nothing that it shows.
Refines == [Retained!RetainedNext]_<<written, Readable>>

LEMMA SameReadable ==
    ASSUME written' = written,
           \A name \in Names : \E other \in Names : Recs(name)' \subseteq Recs(other),
           \A name \in Names : \E other \in Names : Recs(name) \subseteq Recs(other)'
    PROVE  Refines
<1>1. Readable' = Readable
  BY ReadableFacts
<1>. QED BY <1>1 DEF Refines

\* Nothing of the log changes but the flags of the process and the compression thread.
LEMMA LogUnmoved ==
    ASSUME LogInv, GateInv', UNCHANGED <<disk, writer, todo, written>>,
           up' => up, batch' \subseteq batch, BatchInv'
    PROVE  LogInv' /\ Refines
<1>1. \A name \in Names : Recs(name)' = Recs(name) /\ Place(name)' = Place(name)
  BY DEF Recs, Place, Rotated, Exists
<1>2. LogType'
  BY <1>1 DEF LogInv, LogType
<1>3. PlaceInv'
  BY <1>1 DEF LogInv, PlaceInv, Exists, Rotated, Recs
<1>4. OrderInv'
  BY <1>1, OrderKept DEF LogInv
<1>5. RawInv' /\ Refines
  BY <1>1, RawKept, SameReadable DEF LogInv, Exists
<1>. QED BY <1>2, <1>3, <1>4, <1>5 DEF LogInv

LEMMA WriteStep ==
    ASSUME LogInv, GateInv', WriteRecord
    PROVE  LogInv' /\ Refines
<1>. DEFINE f == [disk[Active] EXCEPT !.records = Append(@, written + 1)]
<1>1. /\ disk[Active] \in Files /\ written \in Nat /\ written + 1 \in Nat
      /\ writer = "idle" /\ written' = written + 1
      /\ UNCHANGED <<up, gate, batch, step>>
  BY NameFacts DEF LogInv, LogType, PlaceInv, WriteRecord, Exists
<1>2. disk' = [disk EXCEPT ![Active] = f]
  BY DEF WriteRecord
<1>3. f \in Files /\ Holds(f) = Recs(Active) \cup {written + 1}
  BY <1>1, HoldsAppended DEF Recs
<1>. HIDE DEF f
<1>4. /\ disk' \in [Names -> Files \cup {None}]
      /\ Recs(Active)' = Recs(Active) \cup {written + 1} /\ Exists(Active)' /\ Exists(Active)
      /\ \A name \in Names : name # Active =>
            disk'[name] = disk[name] /\ Recs(name)' = Recs(name) /\ Exists(name)' = Exists(name)
  BY <1>1, <1>2, <1>3, NameFacts, NoneAssumption DEF LogInv, LogType, Recs, Exists
<1>5. Rotated' = Rotated
  BY <1>4, NameFacts DEF Rotated
<1>6. \/ writer' = "idle" /\ todo' = todo
      \/ writer' = "prune" /\ todo' = {name \in Rotated : Index(name) > MaxKeep - 1}
  BY <1>1 DEF WriteRecord, Pruned
<1>7. \A name \in Names : Place(name) = Index(name) /\ Place(name)' = Index(name)
  BY <1>1, <1>6 DEF Place
<1>8. LogType'
  <2>1. todo' \subseteq Names
    BY <1>6 DEF LogInv, LogType, Rotated
  <2>2. ASSUME NEW name \in Names
        PROVE  Recs(name)' \subseteq 1..written + 1
    <3>1. Recs(name) \subseteq 1..written
      BY DEF LogInv, LogType
    <3>. QED BY <1>1, <1>4, <3>1
  <2>. QED BY <1>1, <1>4, <1>6, <2>1, <2>2 DEF LogInv, LogType
<1>9. PlaceInv'
  <2>1. ~Exists(<<0, "zst">>)'
    BY <1>4, NameFacts DEF LogInv, PlaceInv, Active
  <2>2. \A name \in Names : Index(name) = MaxKeep + 1 => ~Exists(name)'
    BY <1>4, NameFacts, KeepAssumption DEF LogInv, PlaceInv
  <2>3. \A name \in Rotated : Index(name) > MaxKeep - 1 <=> Index(name) = MaxKeep
    BY NameFacts, KeepAssumption DEF LogInv, PlaceInv, Rotated
  <2>. QED BY <1>4, <1>5, <1>6, <2>1, <2>2, <2>3 DEF PlaceInv
<1>10. BatchInv'
  <2>1. ASSUME NEW raw \in Names, raw \in batch
        PROVE  raw # Active /\ Output(raw) # Active /\ Output(raw) \in Names
    BY <2>1, NameFacts DEF LogInv, BatchInv
  <2>2. \A raw \in Names : Compressing(raw)' <=> Compressing(raw)
    BY <1>1 DEF Compressing
  <2>3. \A raw \in Names : Compressing(raw) => raw \in batch
    BY DEF Compressing
  <2>. QED BY <1>1, <1>4, <2>1, <2>2, <2>3 DEF LogInv, BatchInv
<1>11. OrderInv'
  <2>. SUFFICES ASSUME NEW a \in Names, NEW b \in Names
                PROVE  InOrder(a, b)' /\ Beside(a, b)'
    BY DEF OrderInv
  <2>1. InOrder(a, b) /\ Beside(a, b) /\ Recs(a) \subseteq 1..written /\ Recs(b) \subseteq 1..written
    BY DEF LogInv, LogType, OrderInv
  <2>2. Index(a) \in Nat /\ Index(b) \in Nat
    BY NameFacts
  <2>3. CASE a # Active /\ b # Active
    BY <1>4, <1>7, <2>1, <2>3 DEF InOrder, Beside, Newer
  <2>4. CASE a = Active /\ b # Active
    <3>1. Index(a) = 0 /\ (Index(b) = 0 => Recs(b) = {})
      BY <2>4, NameFacts DEF LogInv, PlaceInv, Recs, Holds, Exists
    <3>2. Newer(Recs(a), Recs(b)) => Newer(Recs(a)', Recs(b))
      BY <1>1, <1>4, <2>1, <2>4 DEF Newer
    <3>. QED BY <1>4, <1>7, <2>1, <2>2, <2>4, <3>1, <3>2 DEF InOrder, Beside, Newer
  <2>5. CASE b = Active
    <3>1. Index(b) = 0 /\ (Index(a) = 0 /\ a # b => Recs(a)' = {})
      BY <1>4, <2>5, NameFacts DEF LogInv, PlaceInv, Recs, Holds, Exists
    <3>. QED BY <1>7, <2>2, <3>1 DEF InOrder, Beside
  <2>. QED BY <2>3, <2>4, <2>5
<1>12. Refines
  <2>1. Readable' = Readable \cup {written + 1}
    BY <1>4, NameFacts, ReadableFacts
  <2>. QED BY <1>1, <2>1 DEF Refines, Retained!RetainedNext, Retained!Record
<1>13. RawInv'
  <2>1. \A name \in Names : Index(name) > 0 => name # Active
    BY NameFacts
  <2>2. \A name \in Names : Index(name) > 0 /\ name[2] = "raw" /\ Exists(name)' =>
                          Exists(name) /\ Recs(name)' = Recs(name)
    BY <1>4, <2>1
  <2>. QED BY <2>2, RawKept DEF LogInv
<1>. QED BY <1>8, <1>9, <1>10, <1>11, <1>12, <1>13 DEF LogInv

\* A rotation gives up the oldest file, and with it its records only.
LEMMA PruneStep ==
    ASSUME LogInv, GateInv', NEW gone \in Names, Prune(gone)
    PROVE  LogInv' /\ Refines
<1>1. /\ up /\ writer = "prune" /\ gone \in todo /\ Index(gone) = MaxKeep /\ gone # Active
      /\ disk' = Without({gone}) /\ todo' = todo \ {gone}
      /\ UNCHANGED <<up, writer, gate, batch, step, written>>
  BY NameFacts, KeepAssumption DEF Prune, LogInv, PlaceInv
<1>2. /\ disk' \in [Names -> Files \cup {None}]
      /\ Recs(gone)' = {} /\ ~Exists(gone)'
      /\ \A name \in Names : name # gone =>
            disk'[name] = disk[name] /\ Recs(name)' = Recs(name) /\ Exists(name)' = Exists(name)
  BY <1>1, HoldsFacts DEF Without, LogInv, LogType, Recs, Exists
<1>3. \A name \in Names : Place(name) = Index(name) /\ Place(name)' = Index(name)
  BY <1>1 DEF Place
<1>4. LogType'
  BY <1>1, <1>2 DEF LogInv, LogType
<1>5. Rotated' = Rotated \ {gone}
  BY <1>2 DEF Rotated
<1>6. PlaceInv'
  <2>1. ~Exists(<<0, "zst">>)' /\ Exists(Active)' /\ Recs(Active)' # {}
    BY <1>1, <1>2, NameFacts DEF LogInv, PlaceInv
  <2>2. \A name \in Names : Index(name) = MaxKeep + 1 => ~Exists(name)'
    BY <1>2 DEF LogInv, PlaceInv
  <2>. QED BY <1>1, <1>5, <2>1, <2>2 DEF LogInv, PlaceInv
<1>7. BatchInv'
  BY <1>1 DEF LogInv, GateInv, RotationIsAlone, BatchInv, Compressing
<1>8. OrderInv'
  BY <1>2, <1>3, OrderKept DEF LogInv
<1>9. Refines
  <2>1. /\ Readable' \subseteq Readable /\ Readable' # {} /\ Readable' \subseteq Nat
        /\ \A r \in Readable \ Readable' : r \in Recs(gone)
    <3>1. Recs(Active)' = Recs(Active) /\ Recs(Active) # {}
      BY <1>1, <1>2, NameFacts DEF LogInv, PlaceInv
    <3>2. \A name \in Names : Recs(name)' \subseteq Recs(name) /\ Recs(name) \subseteq Nat
      BY <1>2 DEF LogInv, LogType
    <3>. QED BY <1>2, <3>1, <3>2, NameFacts, ReadableFacts
  <2>2. PICK oldest \in Readable' : \A r \in Readable' : oldest <= r
    BY <2>1, Smallest
  <2>3. ASSUME NEW r \in Readable \ Readable', NEW s \in Readable'
        PROVE  r < s
    <3>1. PICK name \in Names : s \in Recs(name)'
      BY ReadableFacts
    <3>2. name # gone /\ s \in Recs(name) /\ r \in Recs(gone) /\ r \notin Recs(name)
      BY <1>2, <2>1, <3>1, ReadableFacts
    <3>3. Index(name) <= MaxKeep
      <4>1. Exists(name)
        BY <3>2 DEF Recs, Holds, Exists
      <4>. QED BY <4>1, NameFacts, KeepAssumption DEF LogInv, PlaceInv
    <3>4. InOrder(name, gone) /\ Beside(name, gone) /\ Recs(name) # Recs(gone)
      BY <3>2 DEF LogInv, OrderInv
    <3>5. Index(name) \in Nat /\ (Index(name) < Index(gone) \/ Index(name) = Index(gone))
      BY <1>1, <3>3, NameFacts, KeepAssumption
    <3>6. Newer(Recs(name), Recs(gone))
      BY <1>3, <3>2, <3>4, <3>5 DEF InOrder, Beside
    <3>7. r \in Nat /\ s \in Nat
      BY <3>2 DEF LogInv, LogType
    <3>. QED BY <3>2, <3>6, <3>7 DEF Newer
  <2>4. Readable' = {r \in Readable : r >= oldest}
    <3>1. ASSUME NEW r \in Readable
          PROVE  r \in Readable' <=> r >= oldest
      <4>1. r \in Nat /\ oldest \in Nat
        <5>1. \A name \in Names : Recs(name) \subseteq Nat
          BY DEF LogInv, LogType
        <5>. QED BY <2>1, <5>1, ReadableFacts
      <4>2. r \notin Readable' => r < oldest
        BY <2>3
      <4>. QED BY <2>2, <4>1, <4>2
    <3>. QED BY <2>1, <3>1
  <2>. QED BY <1>1, <2>1, <2>4 DEF Refines, Retained!RetainedNext, Retained!GiveUp
<1>10. RawInv'
  BY <1>2, RawKept DEF LogInv
<1>. QED BY <1>4, <1>6, <1>7, <1>8, <1>9, <1>10 DEF LogInv

LEMMA ListStep ==
    ASSUME LogInv, GateInv', ListFiles
    PROVE  LogInv' /\ Refines
<1>1. /\ up /\ writer = "prune" /\ todo = {} /\ writer' = "shift" /\ todo' = Rotated
      /\ UNCHANGED <<up, disk, gate, batch, step, written>>
  BY DEF ListFiles
<1>2. \A name \in Names : Recs(name)' = Recs(name) /\ Place(name)' = Place(name)
  BY <1>1 DEF Recs, Place, Rotated, Exists
<1>3. LogType'
  BY <1>1, <1>2 DEF LogInv, LogType, Rotated
<1>4. PlaceInv'
  <2>1. \A name \in Rotated : Index(name) < MaxKeep
    BY <1>1, NameFacts, KeepAssumption DEF LogInv, PlaceInv, Rotated
  <2>. QED BY <1>1, <1>2, <2>1, NameFacts DEF LogInv, PlaceInv, Rotated, Exists
<1>5. BatchInv'
  BY <1>1 DEF LogInv, GateInv, RotationIsAlone, BatchInv, Compressing
<1>6. RawInv' /\ OrderInv' /\ Refines
  BY <1>1, <1>2, RawKept, OrderKept, SameReadable DEF LogInv, Exists
<1>. QED BY <1>3, <1>4, <1>5, <1>6 DEF LogInv

\* A file is moved to a free name, one place further on.
LEMMA ShiftStep ==
    ASSUME LogInv, GateInv', NEW from \in Names, Shift(from)
    PROVE  LogInv' /\ Refines
<1>. DEFINE to == Shifted(from)
<1>1. /\ up /\ writer = "shift" /\ from \in todo /\ \A other \in todo : Index(other) <= Index(from)
      /\ disk' = [disk EXCEPT ![from] = None, ![to] = disk[from]] /\ todo' = todo \ {from}
      /\ UNCHANGED <<up, writer, gate, batch, step, written>>
  BY DEF Shift, RenamesTo
<1>2. /\ from \in Rotated /\ Index(from) \in 1..MaxKeep - 1 /\ Exists(from)
      /\ to \in Names /\ Index(to) = Index(from) + 1 /\ to # from
      /\ to # Active /\ from # Active
  BY <1>1, NameFacts, KeepAssumption DEF LogInv, PlaceInv, Rotated
<1>3. ~Exists(to) /\ to \notin todo /\ to \notin Rotated
  <2>1. to \notin todo
    BY <1>1, <1>2
  <2>2. to \notin Rotated
    BY <1>1, <2>1 DEF LogInv, PlaceInv
  <2>. QED BY <1>2, <2>1, <2>2 DEF Rotated
<1>. HIDE DEF to
<1>4. /\ disk' \in [Names -> Files \cup {None}]
      /\ Recs(to)' = Recs(from) /\ Exists(to)' /\ Recs(from)' = {} /\ ~Exists(from)'
      /\ \A name \in Names : name # from /\ name # to =>
            disk'[name] = disk[name] /\ Recs(name)' = Recs(name) /\ Exists(name)' = Exists(name)
  BY <1>1, <1>2, HoldsFacts DEF LogInv, LogType, Recs, Exists
<1>5. Rotated' = (Rotated \ {from}) \cup {to}
  BY <1>2, <1>3, <1>4, NameFacts DEF Rotated
<1>6. Rotated' \ todo' = (Rotated \ todo) \cup {to}
  BY <1>1, <1>2, <1>3, <1>5
<1>7. /\ Place(to)' = Place(from)
      /\ \A name \in Names : name # from /\ name # to => Place(name)' = Place(name)
  <2>1. Place(from) = Index(from) /\ Place(to)' = Index(to) - 1
    BY <1>1, <1>6 DEF Place
  <2>2. \A name \in Names : name # from /\ name # to => Place(name)' = Place(name)
    BY <1>1, <1>6 DEF Place
  <2>. QED BY <1>2, <2>1, <2>2
<1>8. LogType'
  <2>1. ASSUME NEW name \in Names
        PROVE  Recs(name)' \subseteq 1..written
    BY <1>4 DEF LogInv, LogType
  <2>. QED BY <1>1, <1>4, <2>1 DEF LogInv, LogType
<1>9. PlaceInv'
  <2>1. ~Exists(<<0, "zst">>)' /\ Exists(Active)' /\ Recs(Active)' # {}
    <3>1. <<0, "zst">> # to /\ <<0, "zst">> # from
      BY <1>2, NameFacts DEF Index
    <3>2. ~Exists(<<0, "zst">>) /\ Exists(Active) /\ Recs(Active) # {}
      BY <1>1 DEF LogInv, PlaceInv
    <3>. QED BY <1>2, <1>4, <3>1, <3>2, NameFacts
  <2>2. \A name \in Names : Index(name) = MaxKeep + 1 => ~Exists(name)'
    BY <1>2, <1>4, KeepAssumption DEF LogInv, PlaceInv
  <2>3. \A name \in todo' : name \in Rotated' /\ Index(name) < MaxKeep
    BY <1>1, <1>5 DEF LogInv, PlaceInv
  <2>4. ASSUME NEW moved \in Rotated' \ todo'
        PROVE  /\ Index(moved) >= 2
               /\ \A name \in todo' : Index(moved) > Index(name) /\ moved # Shifted(name)
    <3>1. CASE moved = to
      <4>1. \A name \in todo' : name \in Names /\ name # from /\ Index(name) <= Index(from)
        BY <1>1 DEF LogInv, LogType
      <4>2. \A name \in todo' : Index(name) \in Nat /\ Shifted(name) # to
        BY <4>1, ShiftedApart, NameFacts DEF to
      <4>. QED BY <1>2, <3>1, <4>1, <4>2
    <3>2. CASE moved \in Rotated \ todo
      BY <1>1, <3>2 DEF LogInv, PlaceInv
    <3>. QED BY <1>6, <3>1, <3>2
  <2>. QED BY <1>1, <2>1, <2>2, <2>3, <2>4 DEF PlaceInv
<1>10. BatchInv'
  BY <1>1 DEF LogInv, GateInv, RotationIsAlone, BatchInv, Compressing
<1>11. OrderInv'
  <2>. SUFFICES ASSUME NEW a \in Names, NEW b \in Names
                PROVE  InOrder(a, b)' /\ Beside(a, b)'
    BY DEF OrderInv
  <2>1. CASE Recs(a)' = {} \/ Recs(b)' = {}
    BY <2>1 DEF InOrder, Beside, Newer
  <2>2. CASE Recs(a)' # {} /\ Recs(b)' # {}
    <3>1. PICK c \in Names : Recs(a)' = Recs(c) /\ Place(a)' = Place(c) /\ (c = from <=> a = to)
                             /\ (c # from => c = a)
      BY <1>2, <1>4, <1>7, <2>2
    <3>2. PICK d \in Names : Recs(b)' = Recs(d) /\ Place(b)' = Place(d) /\ (d = from <=> b = to)
                             /\ (d # from => d = b)
      BY <1>2, <1>4, <1>7, <2>2
    <3>3. InOrder(c, d) /\ Beside(c, d)
      BY DEF LogInv, OrderInv
    <3>. QED BY <3>1, <3>2, <3>3 DEF InOrder, Beside, Newer
  <2>. QED BY <2>1, <2>2
<1>12. Refines
  <2>1. \A name \in Names : \E other \in Names : Recs(name)' \subseteq Recs(other)
    BY <1>4
  <2>2. \A name \in Names : \E other \in Names : Recs(name) \subseteq Recs(other)'
    <3>1. ASSUME NEW name \in Names
          PROVE  \E other \in Names : Recs(name) \subseteq Recs(other)'
      <4>1. CASE name = from
        BY <1>2, <1>4, <4>1
      <4>2. CASE name = to
        BY <1>3, <4>2 DEF Recs, Holds, Exists
      <4>3. CASE name # from /\ name # to
        BY <1>4, <4>3
      <4>. QED BY <4>1, <4>2, <4>3
    <3>. QED BY <3>1
  <2>. QED BY <1>1, <2>1, <2>2, SameReadable
<1>13. RawInv'
  <2>1. to[2] = from[2] /\ (from[2] = "raw" => Recs(to)' # {})
    BY <1>2, <1>4 DEF LogInv, RawInv, to, Shifted
  <2>2. \A name \in Rotated' : name # to => name \in Rotated /\ Recs(name)' = Recs(name)
    BY <1>4, <1>5 DEF Rotated
  <2>. QED BY <2>1, <2>2 DEF LogInv, RawInv
<1>. QED BY <1>8, <1>9, <1>10, <1>11, <1>12, <1>13 DEF LogInv

LEMMA RenameActiveStep ==
    ASSUME LogInv, GateInv', RenameActive
    PROVE  LogInv' /\ Refines
<1>. DEFINE to == <<1, "raw">>
<1>1. /\ up /\ writer = "shift" /\ todo = {} /\ writer' = "open"
      /\ disk' = [disk EXCEPT ![Active] = None, ![to] = disk[Active]]
      /\ UNCHANGED <<up, todo, gate, batch, step, written>>
  BY DEF RenameActive, RenamesTo
<1>2. /\ to \in Names /\ Active \in Names /\ to # Active /\ Index(to) = 1 /\ Exists(Active)
      /\ \A name \in Rotated : Index(name) >= 2
  BY <1>1, NameFacts DEF LogInv, PlaceInv
<1>. HIDE DEF to
<1>3. ~Exists(to)
  BY <1>2 DEF Rotated
<1>4. /\ disk' \in [Names -> Files \cup {None}]
      /\ Recs(to)' = Recs(Active) /\ Exists(to)' /\ Recs(Active)' = {} /\ ~Exists(Active)'
      /\ \A name \in Names : name # Active /\ name # to =>
            disk'[name] = disk[name] /\ Recs(name)' = Recs(name) /\ Exists(name)' = Exists(name)
  BY <1>1, <1>2, HoldsFacts DEF LogInv, LogType, Recs, Exists
<1>5. LogType'
  <2>1. ASSUME NEW name \in Names
        PROVE  Recs(name)' \subseteq 1..written
    BY <1>2, <1>4 DEF LogInv, LogType
  <2>. QED BY <1>1, <1>4, <2>1 DEF LogInv, LogType
<1>6. PlaceInv'
  <2>1. ~Exists(<<0, "zst">>)'
    <3>1. <<0, "zst">> # to /\ <<0, "zst">> # Active
      BY <1>2, NameFacts DEF Index
    <3>2. ~Exists(<<0, "zst">>)
      BY DEF LogInv, PlaceInv
    <3>. QED BY <1>4, <3>1, <3>2, NameFacts
  <2>2. \A name \in Names : Index(name) = MaxKeep + 1 => ~Exists(name)'
    BY <1>2, <1>4, KeepAssumption DEF LogInv, PlaceInv
  <2>. QED BY <1>1, <1>4, <2>1, <2>2 DEF PlaceInv
<1>7. BatchInv'
  BY <1>1 DEF LogInv, GateInv, RotationIsAlone, BatchInv, Compressing
<1>8. OrderInv'
  <2>. SUFFICES ASSUME NEW a \in Names, NEW b \in Names
                PROVE  InOrder(a, b)' /\ Beside(a, b)'
    BY DEF OrderInv
  <2>1. Place(a)' = Index(a) /\ Place(b)' = Index(b) /\ Place(Active) = 0
    BY <1>1, NameFacts DEF Place, Rotated
  <2>2. CASE Recs(a)' = {} \/ Recs(b)' = {}
    BY <2>2 DEF InOrder, Beside, Newer
  <2>3. CASE Recs(a)' # {} /\ Recs(b)' # {}
    <3>1. ASSUME NEW n \in Names, Recs(n)' # {}, n # to
          PROVE  Recs(n)' = Recs(n) /\ Place(n) = Index(n) - 1 /\ Index(n) >= 2
      <4>1. n # Active /\ Recs(n)' = Recs(n)
        BY <1>4, <3>1
      <4>2. Exists(n)
        BY <3>1, <4>1 DEF Recs, Holds, Exists
      <4>3. Index(n) \in Nat /\ Index(n) # 0
        BY <4>1, <4>2, NameFacts DEF LogInv, PlaceInv
      <4>4. n \in Rotated \ todo
        BY <1>1, <4>2, <4>3 DEF Rotated
      <4>. QED BY <1>1, <1>2, <4>1, <4>4 DEF Place
    <3>2. CASE a # to /\ b # to
      <4>1. InOrder(a, b) /\ Beside(a, b)
        BY DEF LogInv, OrderInv
      <4>2. /\ Recs(a)' = Recs(a) /\ Place(a) = Index(a) - 1 /\ Index(a) >= 2
            /\ Recs(b)' = Recs(b) /\ Place(b) = Index(b) - 1 /\ Index(b) >= 2
            /\ Index(a) \in Nat /\ Index(b) \in Nat
        BY <2>3, <3>1, <3>2, NameFacts
      <4>. QED BY <2>1, <4>1, <4>2 DEF InOrder, Beside, Newer
    <3>3. CASE a = to /\ b # to
      <4>1. InOrder(Active, b)
        BY NameFacts DEF LogInv, OrderInv
      <4>2. /\ Recs(a)' = Recs(Active) /\ Index(a) = 1
            /\ Recs(b)' = Recs(b) /\ Place(b) = Index(b) - 1 /\ Index(b) >= 2 /\ Index(b) \in Nat
        BY <1>2, <1>4, <2>3, <3>1, <3>3, NameFacts
      <4>3. Newer(Recs(Active), Recs(b))
        BY <2>1, <4>1, <4>2 DEF InOrder
      <4>. QED BY <2>1, <4>2, <4>3 DEF InOrder, Beside, Newer
    <3>4. CASE b = to
      <4>1. Index(b) = 1 /\ (a # to => Index(a) >= 2 /\ Index(a) \in Nat)
        BY <1>2, <2>3, <3>1, <3>4, NameFacts
      <4>. QED BY <2>1, <3>4, <4>1 DEF InOrder, Beside
    <3>. QED BY <3>2, <3>3, <3>4
  <2>. QED BY <2>2, <2>3
<1>9. Refines
  <2>1. \A name \in Names : \E other \in Names : Recs(name)' \subseteq Recs(other)
    BY <1>2, <1>4
  <2>2. Recs(to) = {}
    BY <1>3 DEF Recs, Holds, Exists
  <2>3. \A name \in Names : \E other \in Names : Recs(name) \subseteq Recs(other)'
    BY <1>2, <1>4, <2>2
  <2>. QED BY <1>1, <2>1, <2>3, SameReadable
<1>10. RawInv'
  <2>1. Recs(to)' # {}
    BY <1>1, <1>4 DEF LogInv, PlaceInv
  <2>2. \A name \in Rotated' : name # to => name \in Rotated /\ Recs(name)' = Recs(name)
    BY <1>4, NameFacts DEF Rotated
  <2>. QED BY <2>1, <2>2 DEF LogInv, RawInv
<1>. QED BY <1>5, <1>6, <1>7, <1>8, <1>9, <1>10 DEF LogInv

\* A rotation cut short leaves the files where they are: a raw file and its archive
\* may be at two places from then on, both with the same records.
LEMMA CutShort ==
    ASSUME LogInv, GateInv', UNCHANGED <<disk, written>>, writer' = "idle", todo' = {},
           up' => up /\ writer # "open", batch' \subseteq batch, BatchInv'
    PROVE  LogInv' /\ Refines
<1>1. \A name \in Names : Recs(name)' = Recs(name) /\ Place(name)' = Index(name) /\ Index(name) \in Nat
  BY NameFacts DEF Recs, Place
<1>2. LogType' /\ PlaceInv'
  BY <1>1 DEF LogInv, LogType, PlaceInv, Exists
<1>3. OrderInv'
  <2>. SUFFICES ASSUME NEW a \in Names, NEW b \in Names, Recs(a) # {}, Recs(b) # {}
                PROVE  InOrder(a, b)' /\ Beside(a, b)'
    BY <1>1 DEF OrderInv, InOrder, Beside, Newer
  <2>1. InOrder(a, b) /\ Beside(a, b)
    BY DEF LogInv, OrderInv
  <2>2. CASE writer # "shift"
    BY <1>1, <2>1, <2>2 DEF InOrder, Beside, Place, Newer
  <2>3. CASE writer = "shift"
    <3>1. ASSUME NEW n \in Names, Recs(n) # {}
          PROVE  \/ n = Active /\ Index(n) = 0 /\ Place(n) = 0
                 \/ n \in todo /\ n \in Rotated /\ Index(n) > 0 /\ Place(n) = Index(n)
                 \/ n \in Rotated \ todo /\ Index(n) >= 2 /\ Place(n) = Index(n) - 1
      <4>1. Exists(n)
        BY <3>1 DEF Recs, Holds, Exists
      <4>2. Index(n) = 0 => n = Active
        BY <4>1, NameFacts DEF LogInv, PlaceInv
      <4>3. Index(n) > 0 => n \in Rotated
        BY <4>1 DEF Rotated
      <4>4. Index(n) \in Nat /\ (n \in Rotated => Index(n) > 0)
        BY NameFacts, KeepAssumption DEF Rotated
      <4>5. todo \subseteq Rotated /\ \A moved \in Rotated \ todo : Index(moved) >= 2
        BY <2>3 DEF LogInv, PlaceInv
      <4>6. Place(n) = IF n \in Rotated \ todo THEN Index(n) - 1 ELSE Index(n)
        BY <2>3 DEF Place
      <4>. QED BY <4>2, <4>3, <4>4, <4>5, <4>6
    <3>2. \A moved \in Rotated \ todo, name \in todo : Index(moved) > Index(name)
      BY <2>3 DEF LogInv, PlaceInv
    <3>3. Index(a) < Index(b) => Place(a) <= Place(b) /\ (Index(a) = 0 => Place(a) < Place(b) /\ Place(a) = 0)
      BY <1>1, <3>1, <3>2
    <3>4. Index(a) = Index(b) => Place(a) = Place(b)
      BY <1>1, <3>1, <3>2
    <3>5. Place(a) \in Nat /\ Place(b) \in Nat
      BY <1>1, <3>1
    <3>6. InOrder(a, b)'
      <4>. SUFFICES ASSUME Index(a) < Index(b)
                    PROVE  Newer(Recs(a), Recs(b)) \/ (Index(a) # 0 /\ Recs(a) = Recs(b))
        BY <1>1 DEF InOrder, Newer
      <4>1. CASE Place(a) < Place(b)
        BY <2>1, <3>3, <4>1 DEF InOrder
      <4>2. CASE Place(a) = Place(b)
        <5>1. a # b /\ Index(a) # 0
          BY <1>1, <3>3, <4>2
        <5>. QED BY <2>1, <4>2, <5>1 DEF Beside
      <4>. QED BY <3>3, <3>5, <4>1, <4>2
    <3>7. Beside(a, b)'
      BY <1>1, <2>1, <3>4 DEF Beside
    <3>. QED BY <3>6, <3>7
  <2>. QED BY <2>2, <2>3
<1>4. RawInv' /\ Refines
  BY <1>1, RawKept, SameReadable DEF LogInv, Exists
<1>. QED BY <1>2, <1>3, <1>4 DEF LogInv

LEMMA ReopenStep ==
    ASSUME LogInv, GateInv', Reopen
    PROVE  LogInv' /\ Refines
<1>1. /\ up /\ writer = "open" /\ writer' = "idle" /\ ~Exists(Active)
      /\ disk' = [disk EXCEPT ![Active] = File(<<>>)]
      /\ batch' = Candidates /\ step' = "next"
      /\ UNCHANGED <<up, todo, written>>
  BY DEF Reopen, SpawnCompression, LogInv, PlaceInv
<1>2. /\ disk' \in [Names -> Files \cup {None}]
      /\ Recs(Active)' = {} /\ Recs(Active) = {} /\ Exists(Active)'
      /\ \A name \in Names : Recs(name)' = Recs(name)
      /\ \A name \in Names : name # Active => Exists(name)' = Exists(name)
  BY <1>1, NameFacts, HoldsFacts, NoneAssumption DEF LogInv, LogType, Recs, Exists
<1>3. \A name \in Names : Place(name)' = Place(name)
  BY <1>1 DEF Place
<1>4. LogType'
  BY <1>1, <1>2 DEF LogInv, LogType, Candidates, Rotated
<1>5. PlaceInv'
  <2>1. ~Exists(<<0, "zst">>)'
    BY <1>2, NameFacts DEF LogInv, PlaceInv
  <2>2. \A name \in Names : Index(name) = MaxKeep + 1 => ~Exists(name)'
    BY <1>2, NameFacts, KeepAssumption DEF LogInv, PlaceInv
  <2>. QED BY <1>1, <1>2, <2>1, <2>2 DEF PlaceInv
<1>6. BatchInv'
  BY <1>1 DEF BatchInv, Candidates, Rotated
<1>7. RawInv'
  <2>1. \A name \in Names : Index(name) > 0 => name # Active
    BY NameFacts
  <2>2. \A name \in Names : Index(name) > 0 /\ name[2] = "raw" /\ Exists(name)' =>
                          Exists(name) /\ Recs(name)' = Recs(name)
    BY <1>2, <2>1
  <2>. QED BY <2>2, RawKept DEF LogInv
<1>8. OrderInv'
  BY <1>2, <1>3, OrderKept DEF LogInv
<1>9. Refines
  BY <1>1, <1>2, SameReadable
<1>. QED BY <1>4, <1>5, <1>6, <1>7, <1>8, <1>9 DEF LogInv

\* A start finds nothing past max_keep to prune, and creates the active file if the
\* process died before it did.
LEMMA StartStep ==
    ASSUME LogInv, GateInv', StartUp
    PROVE  LogInv' /\ Refines
<1>1. /\ ~up /\ up' /\ writer = "idle" /\ writer' = "idle"
      /\ batch' \subseteq Candidates /\ step' = "next"
      /\ UNCHANGED <<todo, written>>
  BY DEF StartUp, SpawnCompression, LogInv, GateInv
<1>2. Pruned(MaxKeep) = {}
  BY NameFacts, KeepAssumption DEF LogInv, PlaceInv, Pruned, Rotated
<1>3. Without(Pruned(MaxKeep)) = disk
  BY <1>2 DEF Without, LogInv, LogType
<1>4. disk' = IF Exists(Active) THEN disk ELSE [disk EXCEPT ![Active] = File(<<>>)]
  BY <1>3 DEF StartUp
<1>5. /\ disk' \in [Names -> Files \cup {None}]
      /\ Exists(Active)'
      /\ \A name \in Names : Recs(name)' = Recs(name)
      /\ \A name \in Names : name # Active => Exists(name)' = Exists(name)
  <2>1. CASE Exists(Active)
    BY <1>4, <2>1 DEF LogInv, LogType, Recs, Exists
  <2>2. CASE ~Exists(Active)
    BY <1>4, <2>2, NameFacts, HoldsFacts, NoneAssumption DEF LogInv, LogType, Recs, Exists
  <2>. QED BY <2>1, <2>2
<1>6. \A name \in Names : Place(name)' = Place(name)
  BY <1>1 DEF Place
<1>7. LogType'
  BY <1>1, <1>5 DEF LogInv, LogType, Candidates, Rotated
<1>8. PlaceInv'
  <2>1. ~Exists(<<0, "zst">>)'
    BY <1>5, NameFacts DEF LogInv, PlaceInv
  <2>2. \A name \in Names : Index(name) = MaxKeep + 1 => ~Exists(name)'
    BY <1>5, NameFacts, KeepAssumption DEF LogInv, PlaceInv
  <2>. QED BY <1>1, <1>5, <2>1, <2>2 DEF PlaceInv
<1>9. BatchInv'
  BY <1>1 DEF BatchInv, Candidates, Rotated
<1>10. RawInv'
  <2>1. \A name \in Names : Index(name) > 0 => name # Active
    BY NameFacts
  <2>2. \A name \in Names : Index(name) > 0 /\ name[2] = "raw" /\ Exists(name)' =>
                          Exists(name) /\ Recs(name)' = Recs(name)
    BY <1>5, <2>1
  <2>. QED BY <2>2, RawKept DEF LogInv
<1>11. OrderInv'
  BY <1>5, <1>6, OrderKept DEF LogInv
<1>12. Refines
  BY <1>1, <1>5, SameReadable
<1>. QED BY <1>7, <1>8, <1>9, <1>10, <1>11, <1>12 DEF LogInv

\* The output is emptied while the raw file is there, filled from it, and the raw
\* file removed once both are the same.
LEMMA CompressStep ==
    ASSUME LogInv, GateInv', NEW raw \in Names, Create(raw) \/ Copy(raw) \/ RemoveRaw(raw)
    PROVE  LogInv' /\ Refines
<1>. DEFINE out == Output(raw)
<1>1. /\ up /\ gate /\ raw \in batch /\ Compressing(raw) /\ writer = "idle"
      /\ UNCHANGED <<up, writer, todo, gate, written>> /\ batch' \subseteq batch
  BY DEF Create, Copy, RemoveRaw, Compressing, LogInv, GateInv, RotationIsAlone
<1>2. /\ raw[2] = "raw" /\ Index(raw) > 0 /\ raw # Active
      /\ out \in Names /\ Index(out) = Index(raw) /\ out # raw /\ out # Active /\ out # <<0, "zst">>
      /\ raw # <<0, "zst">>
  <2>1. raw[2] = "raw" /\ Index(raw) > 0
    BY <1>1 DEF LogInv, BatchInv
  <2>2. out \in Names /\ Index(out) = Index(raw) /\ out # raw
    BY <2>1, NameFacts, ArchiveIsBeside
  <2>. HIDE DEF out
  <2>3. Index(Active) = 0 /\ Index(<<0, "zst">>) = 0
    BY NameFacts DEF Index
  <2>. QED BY <2>1, <2>2, <2>3
<1>3. \A name \in Names : Place(name) = Index(name) /\ Place(name)' = Index(name) /\ Index(name) \in Nat
  BY <1>1, NameFacts DEF Place
<1>4. Beside(out, raw)
  BY <1>2 DEF LogInv, OrderInv
<1>. HIDE DEF out
<1>5. ASSUME disk' \in [Names -> Files \cup {None}],
             \A name \in Names : name # raw /\ name # out => disk'[name] = disk[name],
             Exists(out)' => Exists(raw) \/ Exists(out),
             Recs(out)' = {} \/ Recs(out)' = Recs(raw) \/ Recs(out)' = Recs(out),
             Exists(raw)' => Exists(raw) /\ Recs(raw)' = Recs(raw),
             Recs(raw) \subseteq Recs(raw)' \/ Recs(raw) \subseteq Recs(out)',
             Recs(out) \subseteq Recs(raw)' \/ Recs(out) \subseteq Recs(out)',
             BatchInv'
      PROVE  LogInv' /\ Refines
  <2>1. \A name \in Names : name # raw /\ name # out =>
            Recs(name)' = Recs(name) /\ Exists(name)' = Exists(name)
    BY <1>5 DEF Recs, Exists
  <2>0. Recs(raw)' = {} \/ Recs(raw)' = Recs(raw)
    <3>1. ~Exists(raw)' => Recs(raw)' = {}
      BY DEF Recs, Holds, Exists
    <3>. QED BY <1>5, <3>1
  <2>2. LogType'
    <3>1. ASSUME NEW name \in Names
          PROVE  Recs(name)' \subseteq 1..written
      <4>1. Recs(raw) \subseteq 1..written /\ Recs(out) \subseteq 1..written /\ Recs(name) \subseteq 1..written
        BY <1>2 DEF LogInv, LogType
      <4>. QED BY <1>5, <2>0, <2>1, <4>1
    <3>. QED BY <1>1, <1>5, <3>1 DEF LogInv, LogType
  <2>3. PlaceInv'
    <3>1. Exists(Active)' /\ ~Exists(<<0, "zst">>)'
      BY <1>1, <1>2, <2>1, NameFacts DEF LogInv, PlaceInv
    <3>2. \A name \in Names : Index(name) = MaxKeep + 1 => ~Exists(name)'
      BY <1>2, <1>5, <2>1 DEF LogInv, PlaceInv
    <3>. QED BY <1>1, <3>1, <3>2 DEF PlaceInv
  <2>4. OrderInv'
    <3>. SUFFICES ASSUME NEW a \in Names, NEW b \in Names, Recs(a)' # {}, Recs(b)' # {}
                  PROVE  InOrder(a, b)' /\ Beside(a, b)'
      BY DEF OrderInv, InOrder, Beside, Newer
    <3>1. ASSUME NEW n \in Names, Recs(n)' # {}
          PROVE  \E m \in Names : /\ Recs(n)' = Recs(m) /\ Place(n)' = Place(m)
                                  /\ m = n \/ (m = raw /\ n = out)
      <4>1. CASE n # out
        BY <1>3, <2>0, <2>1, <3>1, <4>1
      <4>2. CASE n = out /\ Recs(n)' = Recs(raw)
        BY <1>2, <1>3, <4>2
      <4>3. CASE n = out /\ Recs(n)' = Recs(out)
        BY <1>2, <1>3, <4>3
      <4>. QED BY <1>5, <3>1, <4>1, <4>2, <4>3
    <3>2. PICK c \in Names : /\ Recs(a)' = Recs(c) /\ Place(a)' = Place(c)
                             /\ c = a \/ (c = raw /\ a = out)
      BY <3>1
    <3>3. PICK d \in Names : /\ Recs(b)' = Recs(d) /\ Place(b)' = Place(d)
                             /\ d = b \/ (d = raw /\ b = out)
      BY <3>1
    <3>4. InOrder(c, d) /\ Beside(c, d)
      BY DEF LogInv, OrderInv
    <3>. QED BY <3>2, <3>3, <3>4 DEF InOrder, Beside, Newer
  <2>5. Refines
    <3>1. \A name \in Names : \E other \in Names : Recs(name)' \subseteq Recs(other)
      BY <1>2, <1>5, <2>0, <2>1
    <3>2. \A name \in Names : \E other \in Names : Recs(name) \subseteq Recs(other)'
      BY <1>2, <1>5, <2>1
    <3>. QED BY <1>1, <3>1, <3>2, SameReadable
  <2>6. RawInv'
    <3>1. out[2] # "raw"
      BY DEF out, Output
    <3>. QED BY <1>5, <2>1, <3>1, RawKept DEF LogInv
  <2>. QED BY <1>5, <2>2, <2>3, <2>4, <2>5, <2>6 DEF LogInv
<1>6. disk \in [Names -> Files \cup {None}]
  BY DEF LogInv, LogType
<1>7. CASE Create(raw)
  <2>1. /\ disk' = [disk EXCEPT ![out] = [records |-> <<>>, whole |-> FALSE]] /\ Exists(raw)
        /\ step' = "copy" /\ batch' = batch
    BY <1>7 DEF Create, out
  <2>2. /\ disk' \in [Names -> Files \cup {None}] /\ disk'[raw] = disk[raw]
        /\ \A name \in Names : name # raw /\ name # out => disk'[name] = disk[name]
        /\ Recs(out)' = {} /\ Recs(raw)' = Recs(raw) /\ Exists(raw)
    BY <1>2, <1>6, <2>1, HoldsFacts DEF Recs
  <2>3. Recs(raw) # {}
    BY <1>2, <2>1 DEF LogInv, RawInv, Rotated
  <2>4. Recs(out) \subseteq Recs(raw)
    BY <1>2, <1>3, <1>4, <2>3 DEF Beside
  <2>5. BatchInv'
    BY <2>1 DEF LogInv, BatchInv
  <2>. QED BY <1>5, <2>2, <2>4, <2>5
<1>8. CASE Copy(raw)
  <2>1. /\ disk' = [disk EXCEPT ![out] = disk[raw]] /\ Exists(raw)
        /\ step' = "remove" /\ batch' = batch
    BY <1>8 DEF Copy, out
  <2>2. /\ disk' \in [Names -> Files \cup {None}] /\ disk'[raw] = disk[raw]
        /\ \A name \in Names : name # raw /\ name # out => disk'[name] = disk[name]
        /\ Recs(out)' = Recs(raw) /\ Recs(raw)' = Recs(raw) /\ Exists(raw)
    BY <1>2, <1>6, <2>1 DEF Recs
  <2>3. Recs(raw) # {}
    BY <1>2, <2>1 DEF LogInv, RawInv, Rotated
  <2>4. Recs(out) \subseteq Recs(raw)
    BY <1>2, <1>3, <1>4, <2>3 DEF Beside
  <2>5. BatchInv'
    <3>1. ASSUME NEW other \in Names, Compressing(other)'
          PROVE  other = raw
      <4>1. other \in batch /\ Index(other) = Index(raw)
        BY <1>1, <1>3, <2>1, <3>1 DEF Compressing
      <4>. QED BY <1>2, <4>1, ArchiveIsBeside DEF LogInv, BatchInv, Output
    <3>. QED BY <2>1, <2>2, <3>1 DEF LogInv, BatchInv, out
  <2>. QED BY <1>5, <2>2, <2>4, <2>5
<1>9. CASE RemoveRaw(raw)
  <2>1. disk' = Without({raw}) /\ step = "remove" /\ step' = "next"
    BY <1>9 DEF RemoveRaw
  <2>2. /\ disk' \in [Names -> Files \cup {None}] /\ disk'[out] = disk[out]
        /\ \A name \in Names : name # raw /\ name # out => disk'[name] = disk[name]
        /\ Recs(raw)' = {} /\ Recs(out)' = Recs(out) /\ ~Exists(raw)' /\ Exists(out)' = Exists(out)
    BY <1>2, <1>6, <2>1, HoldsFacts DEF Without, Recs, Exists
  <2>3. Recs(raw) \subseteq Recs(out)
    <3>1. CASE Exists(raw)
      BY <1>1, <2>1, <3>1 DEF LogInv, BatchInv, out
    <3>2. CASE ~Exists(raw)
      BY <3>2 DEF Recs, Holds, Exists
    <3>. QED BY <3>1, <3>2
  <2>4. BatchInv'
    BY <1>1, <2>1 DEF LogInv, BatchInv
  <2>. QED BY <1>5, <2>2, <2>3, <2>4
<1>. QED BY <1>7, <1>8, <1>9

\* Every step keeps the invariant, and is one of RetainedLog.
LEMMA LogStep ==
    ASSUME LogInv, [Next]_vars
    PROVE  LogInv' /\ Refines
<1>1. GateInv'
  BY GateStep DEF LogInv
<1>2. CASE WriteRecord
  BY <1>1, <1>2, WriteStep
<1>3. CASE Rotate
  <2>1. ASSUME NEW name \in Names, Prune(name) \/ Shift(name)
        PROVE  LogInv' /\ Refines
    BY <1>1, <2>1, PruneStep, ShiftStep
  <2>. QED BY <1>1, <1>3, <2>1, ListStep, RenameActiveStep, ReopenStep DEF Rotate
<1>4. CASE Compress
  <2>1. ASSUME NEW raw \in Names, Create(raw) \/ Copy(raw) \/ RemoveRaw(raw)
        PROVE  LogInv' /\ Refines
    BY <1>1, <2>1, CompressStep
  <2>2. CASE ReleaseGate
    <3>1. /\ UNCHANGED <<disk, writer, todo, written, up, batch, step>> /\ ~gate'
      BY <2>2 DEF ReleaseGate
    <3>2. BatchInv'
      BY <3>1 DEF LogInv, BatchInv, Compressing
    <3>. QED BY <1>1, <3>1, <3>2, LogUnmoved
  <2>. QED BY <1>4, <2>1, <2>2 DEF Compress
<1>5. ASSUME NEW raw \in Names, CompressFails(raw)
      PROVE  LogInv' /\ Refines
  <2>1. /\ UNCHANGED <<disk, writer, todo, written, up>> /\ batch' \subseteq batch /\ step' = "next"
    BY <1>5 DEF CompressFails
  <2>2. BatchInv'
    BY <2>1 DEF LogInv, BatchInv
  <2>. QED BY <1>1, <2>1, <2>2, LogUnmoved
<1>6. CASE RotationFails
  <2>1. /\ UNCHANGED <<disk, written, up, gate, batch, step>> /\ writer' = "idle" /\ todo' = {}
        /\ up /\ writer # "open" /\ writer # "idle"
    BY <1>6 DEF RotationFails
  <2>2. BatchInv'
    BY <2>1 DEF LogInv, GateInv, RotationIsAlone, BatchInv, Compressing
  <2>. QED BY <1>1, <2>1, <2>2, CutShort
<1>7. CASE Crash
  <2>1. /\ UNCHANGED <<disk, written>> /\ writer' = "idle" /\ todo' = {} /\ ~up' /\ batch' = {}
    BY <1>7 DEF Crash
  <2>2. BatchInv'
    BY <2>1 DEF BatchInv, Compressing
  <2>. QED BY <1>1, <2>1, <2>2, CutShort
<1>8. CASE StartUp
  BY <1>1, <1>8, StartStep
<1>9. CASE UNCHANGED vars
  <2>1. BatchInv' /\ UNCHANGED <<disk, writer, todo, written, up, batch>>
    BY <1>9 DEF LogInv, BatchInv, Compressing, Exists, Recs, vars
  <2>. QED BY <1>1, <2>1, LogUnmoved
<1>. QED BY <1>2, <1>3, <1>4, <1>5, <1>6, <1>7, <1>8, <1>9 DEF Next

LEMMA LogStarts ==
    ASSUME Init
    PROVE  LogInv /\ Retained!RetainedInit
<1>1. \A name \in Names : disk[name] = None /\ Recs(name) = {} /\ ~Exists(name)
  BY HoldsFacts DEF Init, Recs, Exists
<1>2. Rotated = {}
  BY <1>1 DEF Rotated
<1>3. LogType
  BY <1>1 DEF Init, LogType
<1>4. GateInv /\ BatchInv
  BY DEF Init, GateInv, RotationIsAlone, BatchInv
<1>5. PlaceInv
  BY <1>1, <1>2, NameFacts DEF Init, PlaceInv
<1>6. RawInv /\ OrderInv
  BY <1>1, <1>2 DEF RawInv, OrderInv, InOrder, Beside, Newer
<1>7. Retained!RetainedInit
  BY <1>1, ReadableFacts DEF Init, Retained!RetainedInit
<1>. QED BY <1>3, <1>4, <1>5, <1>6, <1>7 DEF LogInv

\* Through rotations, compressions, crashes, restarts and I/O errors, at whatever
\* step they come, the files only gain the record written and only give up the
\* oldest records (rotate, prune, compress_file, init).
THEOREM LogImplementsRetainedLog == Spec => ImplementsRetainedLog
<1>1. Init => LogInv /\ Retained!RetainedInit
  BY LogStarts
<1>2. LogInv /\ [Next]_vars => LogInv' /\ [Retained!RetainedNext]_<<written, Readable>>
  BY LogStep DEF Refines
<1>. QED BY <1>1, <1>2, PTL DEF Spec, ImplementsRetainedLog, Retained!RetainedSpec

\* A log that gives up records only in this way never has a gap and never loses its
\* newest record, however many it gives up at once (what prune and rotate rely on).
THEOREM NoGaps == Retained!RetainedSpec => []Retained!NewestKept
<1>1. Retained!RetainedInit => Retained!NewestKept
  BY DEF Retained!RetainedInit, Retained!NewestKept
<1>2. ASSUME Retained!NewestKept, [Retained!RetainedNext]_<<written, Readable>>
      PROVE  Retained!NewestKept'
  <2>1. CASE Retained!Record
    BY <1>2, <2>1 DEF Retained!NewestKept, Retained!Record
  <2>2. CASE Retained!GiveUp
    <3>1. PICK oldest \in Readable : Readable' = {r \in Readable : r >= oldest}
      BY <2>2 DEF Retained!GiveUp
    <3>2. written' = written /\ oldest \in 1..written
      BY <1>2, <2>2, <3>1 DEF Retained!NewestKept, Retained!GiveUp
    <3>3. Readable' \subseteq Readable /\ written \in Readable'
      <4>1. written \in Readable /\ written >= oldest
        BY <1>2, <3>2 DEF Retained!NewestKept
      <4>. QED BY <3>1, <4>1
    <3>4. ASSUME NEW r \in Readable', NEW s \in r..written
          PROVE  s \in Readable'
      <4>1. r \in Readable /\ r >= oldest /\ r \in 1..written
        BY <1>2, <3>1 DEF Retained!NewestKept
      <4>2. s \in Readable
        BY <1>2, <4>1 DEF Retained!NewestKept
      <4>. QED BY <3>1, <3>2, <4>1, <4>2
    <3>. QED BY <1>2, <3>2, <3>3, <3>4 DEF Retained!NewestKept
  <2>3. CASE UNCHANGED <<written, Readable>>
    BY <1>2, <2>3 DEF Retained!NewestKept
  <2>. QED BY <1>2, <2>1, <2>2, <2>3 DEF Retained!RetainedNext
<1>. QED BY <1>1, <1>2, PTL DEF Retained!RetainedSpec

\* So what can be read is at any time the newest records, without a gap.
THEOREM NoRecordIsMissing == Spec => []Retained!NewestKept
BY LogImplementsRetainedLog, NoGaps, PTL DEF ImplementsRetainedLog
=============================================================================
