------------------------------- MODULE RetainedLog -------------------------------
(***************************************************************************)
(* What the accounting log promises its reader: records are added one by    *)
(* one, and only the oldest are ever given up, never the newest.            *)
(***************************************************************************)
EXTENDS Integers

VARIABLES last,    \* the number of the newest record
          kept     \* the records that can be read

\* A record is added.
Record == last' = last + 1 /\ kept' = kept \cup {last + 1}

\* Records are given up from the oldest on.
GiveUp == /\ \E oldest \in kept : kept' = {r \in kept : r >= oldest}
          /\ UNCHANGED last

RetainedInit == last = 0 /\ kept = {}
RetainedNext == Record \/ GiveUp
RetainedSpec == RetainedInit /\ [][RetainedNext]_<<last, kept>>

\* What can be read is the newest records, without a gap.
NewestKept ==
    /\ last \in Nat /\ kept \subseteq 1..last
    /\ last > 0 => last \in kept
    /\ \A r \in kept : r..last \subseteq kept
=============================================================================
