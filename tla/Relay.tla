------------------------------- MODULE Relay -------------------------------
(***************************************************************************)
(* The bidirectional relay every data-plane backend hands its stream pairs *)
(* to: two pipe tasks, one per direction, and the monitor that ends them.  *)
(* "up" reads the client and writes the upstream, "down" the reverse.      *)
(*                                                                         *)
(* A chunk is what one read returns.  A writer may be a TLS session: it    *)
(* then accepts up to QueueLimit chunks that stay in user space until the  *)
(* next write, flush or shutdown; a plain socket has QueueLimit = 0.  A    *)
(* stuck destination takes nothing more off the wire.                      *)
(*                                                                         *)
(* One tick is the period of the monitor.  Aborting a task is a request:   *)
(* the task ends at its next suspension point (Die).                       *)
(***************************************************************************)
EXTENDS Integers, FiniteSets

CONSTANTS MaxChunks, QueueLimit, IdleTimeouts, DrainLimit, Faulty

Dirs == {"up", "down"}

ASSUME RelayAssumption ==
    /\ MaxChunks \in [Dirs -> Nat]   \* chunks each source sends at most
    /\ QueueLimit \in Nat
    /\ IdleTimeouts \subseteq Nat     \* of the listener, in ticks; 0 disables it
    /\ DrainLimit \in Nat            \* in ticks
    /\ Faulty \subseteq Dirs         \* directions whose source may reset, or stop reading

VARIABLES
    sent, src, delivered, out,  \* the two streams, as in Tunnel
    pc,         \* where the pipe of each direction is
    read,       \* chunks the pipe has read, and counted
    queued,     \* chunks accepted by the writer and still in user space
    unflushed,  \* the pipe has written since it started
    stuck,      \* the destination of the direction takes no more data
    monitor,    \* the monitor: "look", "decide", "sleep" or "done"
    seen,       \* the directions the monitor has seen finished
    idle,       \* ticks since the last mark of the IdleTracker
    doomed,     \* directions whose task has been asked to abort
    maxIdle,    \* the idle timeout the listener had when the relay started
    silent      \* history: ticks since the direction last completed a chunk

streamVars == <<sent, src, delivered, out>>
pipeVars == <<pc, read, queued, unflushed>>
monitorVars == <<monitor, seen, doomed, maxIdle>>
vars == <<streamVars, pipeVars, stuck, monitorVars, idle, silent>>

Other(d) == IF d = "up" THEN "down" ELSE "up"

\* Ticks are counted up to the first value above both limits.
Horizon == (IF maxIdle > DrainLimit THEN maxIdle ELSE DrainLimit) + 1
Later(n) == IF n < Horizon THEN n + 1 ELSE n

Init ==
    /\ sent = [d \in Dirs |-> 0]
    /\ src = [d \in Dirs |-> "open"]
    /\ delivered = [d \in Dirs |-> 0]
    /\ out = [d \in Dirs |-> "open"]
    /\ pc = [d \in Dirs |-> "read"]
    /\ read = [d \in Dirs |-> 0]
    /\ queued = [d \in Dirs |-> 0]
    /\ unflushed = [d \in Dirs |-> FALSE]
    /\ stuck = [d \in Dirs |-> FALSE]
    /\ monitor = "look"
    /\ seen = {}
    /\ idle = 0
    /\ doomed = {}
    /\ maxIdle \in IdleTimeouts
    /\ silent = [d \in Dirs |-> 0]

-----------------------------------------------------------------------------
(* The peers. *)

PeerVarsUnchanged == UNCHANGED <<delivered, out, pipeVars, monitorVars, idle, silent>>

PeerSends(d) ==
    /\ src[d] = "open"
    /\ sent[d] < MaxChunks[d]
    /\ sent' = [sent EXCEPT ![d] = @ + 1]
    /\ UNCHANGED <<src, stuck>>
    /\ PeerVarsUnchanged

PeerFinishes(d) ==
    /\ src[d] = "open"
    /\ src' = [src EXCEPT ![d] = "fin"]
    /\ UNCHANGED <<sent, stuck>>
    /\ PeerVarsUnchanged

PeerResets(d) ==
    /\ d \in Faulty /\ src[d] # "reset"
    /\ src' = [src EXCEPT ![d] = "reset"]
    /\ UNCHANGED <<sent, stuck>>
    /\ PeerVarsUnchanged

PeerStopsReading(d) ==
    /\ Other(d) \in Faulty /\ ~stuck[d]
    /\ stuck' = [stuck EXCEPT ![d] = TRUE]
    /\ UNCHANGED <<sent, src>>
    /\ PeerVarsUnchanged

-----------------------------------------------------------------------------
(* The pipes. *)

\* The destination of d is the source of the other direction.
Refused(d) == src[Other(d)] = "reset"

Goto(d, label) == pc' = [pc EXCEPT ![d] = label]

\* A task that was asked to abort does not wake from its await again.
CanRead(d) == pc[d] = "read" \/ (pc[d] = "park" /\ d \notin doomed)

\* The read finds data, the end of the stream, or an error.  It is polled
\* once at "read" and awaited at "park".
ReadData(d) ==
    /\ CanRead(d)
    /\ read[d] < sent[d]
    /\ read' = [read EXCEPT ![d] = @ + 1]
    /\ Goto(d, "write")
    /\ UNCHANGED <<streamVars, queued, unflushed, stuck, monitorVars, idle, silent>>

ReadEnd(d) ==
    /\ CanRead(d)
    /\ \/ src[d] = "fin" /\ read[d] = sent[d]
       \/ src[d] = "reset"
    /\ Goto(d, "shutdown")
    /\ UNCHANGED <<streamVars, read, queued, unflushed, stuck, monitorVars, idle, silent>>

\* Mutant: the pipe parks without flushing what its writes left queued.
ReadPendingUnflushed(d) ==
    /\ pc[d] = "read"
    /\ src[d] = "open" /\ read[d] = sent[d]
    /\ Goto(d, "park")
    /\ UNCHANGED <<streamVars, read, queued, unflushed, stuck, monitorVars, idle, silent>>

\* Nothing to read: flush before parking if anything was written.
ReadPending(d) ==
    /\ pc[d] = "read"
    /\ src[d] = "open" /\ read[d] = sent[d]
    /\ Goto(d, IF unflushed[d] THEN "flush" ELSE "park")
    /\ UNCHANGED <<streamVars, read, queued, unflushed, stuck, monitorVars, idle, silent>>

Flush(d) ==
    /\ pc[d] = "flush"
    /\ ~stuck[d] /\ ~Refused(d)
    /\ delivered' = [delivered EXCEPT ![d] = @ + queued[d]]
    /\ queued' = [queued EXCEPT ![d] = 0]
    /\ Goto(d, "park")
    /\ UNCHANGED <<sent, src, out, read, unflushed, stuck, monitorVars, idle, silent>>

\* write_all accepts the chunk, and the writer keeps k chunks queued.
WriteAll(d) ==
    /\ pc[d] = "write"
    /\ ~Refused(d)
    /\ \E k \in 0 .. queued[d] + 1 :
        /\ k <= QueueLimit
        /\ stuck[d] => k = queued[d] + 1
        /\ queued' = [queued EXCEPT ![d] = k]
        /\ delivered' = [delivered EXCEPT ![d] = @ + queued[d] + 1 - k]
    /\ unflushed' = [unflushed EXCEPT ![d] = TRUE]
    /\ Goto(d, "mark")
    /\ UNCHANGED <<sent, src, out, read, stuck, monitorVars, idle, silent>>

\* A write or a flush fails: the destination has reset the connection.
WriteFails(d) ==
    /\ pc[d] \in {"write", "flush"}
    /\ Refused(d)
    /\ Goto(d, "shutdown")
    /\ UNCHANGED <<streamVars, read, queued, unflushed, stuck, monitorVars, idle, silent>>

\* Mutant: only the download direction marks the connection active.
MarkDownload(d) ==
    /\ pc[d] = "mark"
    /\ idle' = IF d = "down" THEN 0 ELSE idle
    /\ silent' = [silent EXCEPT ![d] = 0]
    /\ Goto(d, "read")
    /\ UNCHANGED <<streamVars, read, queued, unflushed, stuck, monitorVars>>

Mark(d) ==
    /\ pc[d] = "mark"
    /\ idle' = 0
    /\ silent' = [silent EXCEPT ![d] = 0]
    /\ Goto(d, "read")
    /\ UNCHANGED <<streamVars, read, queued, unflushed, stuck, monitorVars>>

\* Mutant: the shutdown drops what is still queued.
ShutdownUnflushed(d) ==
    /\ pc[d] = "shutdown"
    /\ ~Refused(d)
    /\ stuck[d] => QueueLimit = 0
    /\ out' = [out EXCEPT ![d] = "fin"]
    /\ Goto(d, "done")
    /\ UNCHANGED <<sent, src, delivered, read, queued, unflushed, stuck, monitorVars, idle, silent>>

\* The end of the pipe: shutdown flushes and half-closes the writer.  On a TLS
\* writer it has to reach the wire, so a stuck destination holds it up.
Shutdown(d) ==
    /\ pc[d] = "shutdown"
    /\ ~Refused(d)
    /\ stuck[d] => QueueLimit = 0
    /\ delivered' = [delivered EXCEPT ![d] = @ + queued[d]]
    /\ queued' = [queued EXCEPT ![d] = 0]
    /\ out' = [out EXCEPT ![d] = "fin"]
    /\ Goto(d, "done")
    /\ UNCHANGED <<sent, src, read, unflushed, stuck, monitorVars, idle, silent>>

\* The error of a failing shutdown is ignored.
ShutdownFails(d) ==
    /\ pc[d] = "shutdown"
    /\ Refused(d)
    /\ out' = [out EXCEPT ![d] = "broken"]
    /\ Goto(d, "done")
    /\ UNCHANGED <<sent, src, delivered, read, queued, unflushed, stuck, monitorVars, idle, silent>>

\* An aborted task ends; its halves of the two streams are dropped.
Die(d) ==
    /\ d \in doomed
    /\ pc[d] \notin {"done", "aborted"}
    /\ out' = [out EXCEPT ![d] = "cut"]
    /\ Goto(d, "aborted")
    /\ UNCHANGED <<sent, src, delivered, read, queued, unflushed, stuck, monitorVars, idle, silent>>

PipeStep(d) ==
    \/ ReadData(d) \/ ReadEnd(d) \/ ReadPending(d)
    \/ Flush(d) \/ WriteAll(d) \/ WriteFails(d) \/ Mark(d)
    \/ Shutdown(d) \/ ShutdownFails(d) \/ Die(d)

-----------------------------------------------------------------------------
(* The monitor. *)

Finished == {d \in Dirs : pc[d] = "done"}

\* is_finished of both tasks, read before the idle tracker is.
MonitorLooks ==
    /\ monitor = "look"
    /\ seen' = Finished
    /\ monitor' = "decide"
    /\ UNCHANGED <<streamVars, pipeVars, stuck, doomed, maxIdle, idle, silent>>

TimedOut == maxIdle # 0 /\ idle > maxIdle

HalfClosedStall == seen # {} /\ idle > DrainLimit

\* Mutant: a half-closed connection is bounded by the listener timeout only.
OverUnbounded == seen = Dirs \/ TimedOut

Over == seen = Dirs \/ TimedOut \/ HalfClosedStall

MonitorDecides ==
    /\ monitor = "decide"
    /\ IF Over
       THEN monitor' = "done" /\ doomed' = doomed \cup (Dirs \ seen)
       ELSE monitor' = "sleep" /\ UNCHANGED doomed
    /\ UNCHANGED <<streamVars, pipeVars, stuck, seen, maxIdle, idle, silent>>

\* A period of the monitor passes.
Tick ==
    /\ monitor = "sleep"
    /\ monitor' = "look"
    /\ idle' = Later(idle)
    /\ silent' = [d \in Dirs |-> Later(silent[d])]
    /\ UNCHANGED <<streamVars, pipeVars, stuck, seen, doomed, maxIdle>>

\* The runtime revision ends: its controller cancels the connection's tasks.
Cancel ==
    /\ monitor # "done"
    /\ monitor' = "done"
    /\ doomed' = Dirs
    /\ UNCHANGED <<streamVars, pipeVars, stuck, seen, maxIdle, idle, silent>>

MonitorStep == MonitorLooks \/ MonitorDecides \/ Tick

Ended == monitor = "done" /\ \A d \in Dirs : pc[d] \in {"done", "aborted"}

\* The connection is over; nothing of it runs any more.
Terminated == Ended /\ UNCHANGED vars

Next ==
    \/ \E d \in Dirs :
        \/ PeerSends(d) \/ PeerFinishes(d) \/ PeerResets(d) \/ PeerStopsReading(d)
        \/ PipeStep(d)
    \/ MonitorStep
    \/ Cancel
    \/ Terminated

Spec ==
    /\ Init /\ [][Next]_vars
    /\ \A d \in Dirs : WF_vars(PipeStep(d))
    /\ WF_vars(MonitorStep)

-----------------------------------------------------------------------------
(* Properties. *)

\* The pipes, the monitor and the counts of chunks keep their types.
TypeOK ==
    /\ sent \in [Dirs -> Nat]
    /\ src \in [Dirs -> {"open", "fin", "reset"}]
    /\ delivered \in [Dirs -> Nat]
    /\ out \in [Dirs -> {"open", "fin", "broken", "cut"}]
    /\ pc \in [Dirs -> {"read", "flush", "park", "write", "mark", "shutdown", "done", "aborted"}]
    /\ read \in [Dirs -> Nat]
    /\ queued \in [Dirs -> Nat]
    /\ unflushed \in [Dirs -> BOOLEAN]
    /\ stuck \in [Dirs -> BOOLEAN]
    /\ monitor \in {"look", "decide", "sleep", "done"}
    /\ seen \in SUBSET Dirs
    /\ idle \in Nat
    /\ doomed \in SUBSET Dirs
    /\ maxIdle \in IdleTimeouts
    /\ silent \in [Dirs -> Nat]

\* A pipe waits for its source only when nothing it has written is still in
\* user space: the flush before parking is never missed (pipe, relay.rs).
FlushedBeforeParking == \A d \in Dirs : pc[d] = "park" => queued[d] = 0

\* The monitor ends a direction only after the direction has completed no
\* chunk for longer than the listener's idle timeout, or, once the other
\* direction is finished, for longer than the drain limit: the end of one
\* direction does not discard what the other is carrying.
NeverCutWhileDelivering ==
    [][MonitorDecides =>
        \A d \in doomed' \ doomed :
            \/ maxIdle # 0 /\ silent[d] > maxIdle
            \/ pc[Other(d)] = "done" /\ silent[d] > DrainLimit]_vars

Streams == INSTANCE Tunnel WITH Dirs <- Dirs, sent <- sent, src <- src, delivered <- delivered, out <- out

\* The relay behaves as two independent streams (Tunnel): each delivers a
\* prefix of what its source sent, and ends cleanly only when that is all of
\* it or the source was reset.
ImplementsTunnel == Streams!TunnelSpec

\* What a source sends reaches a destination that keeps reading, without any
\* stream having to end first: a keep-alive response is not left in the
\* writer.  The only ways out are the end of the direction or of the relay.
DeliveredWithoutEof ==
    \A d \in Dirs : \A n \in 1 .. MaxChunks[d] :
        (sent[d] >= n) ~> (delivered[d] >= n \/ stuck[d] \/ pc[d] = "done" \/ monitor = "done")

\* A half-closed connection does not outlive its drain window for ever, even
\* with the listener's idle timeout disabled, and its tasks end with it.
DrainBounded ==
    \A d \in Dirs : (pc[d] = "done") ~> Ended

-----------------------------------------------------------------------------
(* Inductive invariants. *)

Running(d) == pc[d] \notin {"done", "aborted"}

\* The chunk a pipe has read and not yet handed to its writer.
Held(d) == IF pc[d] = "write" THEN 1 ELSE 0

\* Nothing read is lost while the pipe runs, except after a failed write; a
\* pipe gets to its shutdown by the end of its source or by a refusal.
FlowInv ==
    \A d \in Dirs :
        /\ read[d] <= sent[d]
        /\ out[d] = "open" <=> Running(d)
        /\ pc[d] \in {"read", "flush", "park", "write", "mark"} =>
               delivered[d] + queued[d] + Held(d) = read[d]
        /\ pc[d] = "shutdown" /\ ~Refused(d) =>
               /\ delivered[d] + queued[d] = read[d]
               /\ src[d] # "open"
               /\ src[d] = "fin" => read[d] = sent[d]

QueueInv ==
    \A d \in Dirs :
        /\ pc[d] = "park" => queued[d] = 0
        /\ ~unflushed[d] => queued[d] = 0

\* The tracker is at least as fresh as each direction, and what the monitor
\* has seen finished stays finished.
IdleInv ==
    /\ \A d \in Dirs : idle <= silent[d]
    /\ seen \subseteq Finished
=============================================================================
