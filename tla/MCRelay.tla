------------------------------ MODULE MCRelay ------------------------------
(* Instance of Relay for TLC. *)
EXTENDS Relay

\* A chunk from each side.
Chunks == [d \in Dirs |-> 1]
=============================================================================
