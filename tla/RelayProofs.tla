---------------------------- MODULE RelayProofs ----------------------------
(* Proofs about Relay, for any number of chunks, queue limit and timeouts. *)
EXTENDS Relay, TLAPS

\* A tick keeps a counter of ticks a natural number and keeps its order.
LEMMA LaterMonotone ==
    ASSUME TypeOK
    PROVE  /\ Horizon \in Nat
           /\ \A n \in Nat : Later(n) \in Nat
           /\ \A m, n \in Nat : m <= n => Later(m) <= Later(n)
BY RelayAssumption DEF Horizon, Later, TypeOK

\* Every variable keeps its type.
LEMMA TypeStep ==
    ASSUME TypeOK, [Next]_vars
    PROVE  TypeOK'
<1>. USE DEF TypeOK, streamVars, pipeVars, monitorVars
<1>1. ASSUME NEW d \in Dirs, PeerSends(d) \/ PeerFinishes(d) \/ PeerResets(d) \/ PeerStopsReading(d)
      PROVE  TypeOK'
  <2>1. CASE PeerSends(d)
    BY <2>1 DEF PeerSends, PeerVarsUnchanged
  <2>2. CASE PeerFinishes(d) \/ PeerResets(d)
    BY <2>2 DEF PeerFinishes, PeerResets, PeerVarsUnchanged
  <2>3. CASE PeerStopsReading(d)
    BY <2>3 DEF PeerStopsReading, PeerVarsUnchanged
  <2>. QED BY <1>1, <2>1, <2>2, <2>3
<1>2. ASSUME NEW d \in Dirs, ReadData(d) \/ ReadEnd(d) \/ ReadPending(d)
      PROVE  TypeOK'
  BY <1>2 DEF ReadData, ReadEnd, ReadPending, Goto
<1>3. ASSUME NEW d \in Dirs, Flush(d) \/ WriteFails(d) \/ Mark(d)
      PROVE  TypeOK'
  BY <1>3 DEF Flush, WriteFails, Mark, Goto
<1>4. ASSUME NEW d \in Dirs, WriteAll(d)
      PROVE  TypeOK'
  <2>1. PICK k \in 0 .. queued[d] + 1 :
            /\ queued' = [queued EXCEPT ![d] = k]
            /\ delivered' = [delivered EXCEPT ![d] = @ + queued[d] + 1 - k]
    BY ZenonT(60), <1>4 DEF WriteAll
  <2>2. delivered[d] + queued[d] + 1 - k \in Nat
    BY DEF TypeOK
  <2>. QED BY <1>4, <2>1, <2>2 DEF WriteAll, Goto
<1>5. ASSUME NEW d \in Dirs, Shutdown(d) \/ ShutdownFails(d) \/ Die(d)
      PROVE  TypeOK'
  BY <1>5 DEF Shutdown, ShutdownFails, Die, Goto
<1>6. ASSUME MonitorStep \/ Cancel \/ Terminated \/ UNCHANGED vars
      PROVE  TypeOK'
  BY <1>6, LaterMonotone
     DEF MonitorStep, MonitorLooks, MonitorDecides, Tick, Cancel, Terminated, Finished, vars
<1>. QED BY <1>1, <1>2, <1>3, <1>4, <1>5, <1>6 DEF Next, PipeStep

\* The queue of a pipe is empty whenever the pipe is parked.
LEMMA QueueStep ==
    ASSUME TypeOK, QueueInv, [Next]_vars
    PROVE  QueueInv'
<1>. USE DEF QueueInv, TypeOK, streamVars, pipeVars, monitorVars
<1>1. ASSUME NEW d \in Dirs, PeerSends(d) \/ PeerFinishes(d) \/ PeerResets(d) \/ PeerStopsReading(d)
      PROVE  QueueInv'
  BY <1>1 DEF PeerSends, PeerFinishes, PeerResets, PeerStopsReading, PeerVarsUnchanged
<1>2. ASSUME NEW d \in Dirs, ReadData(d) \/ ReadEnd(d) \/ ReadPending(d)
      PROVE  QueueInv'
  BY <1>2 DEF ReadData, ReadEnd, ReadPending, Goto
<1>3. ASSUME NEW d \in Dirs, Flush(d) \/ WriteFails(d) \/ Mark(d) \/ WriteAll(d)
      PROVE  QueueInv'
  BY <1>3 DEF Flush, WriteFails, Mark, WriteAll, Goto
<1>4. ASSUME NEW d \in Dirs, Shutdown(d) \/ ShutdownFails(d) \/ Die(d)
      PROVE  QueueInv'
  BY <1>4 DEF Shutdown, ShutdownFails, Die, Goto
<1>5. ASSUME MonitorStep \/ Cancel \/ Terminated \/ UNCHANGED vars
      PROVE  QueueInv'
  BY <1>5 DEF MonitorStep, MonitorLooks, MonitorDecides, Tick, Cancel, Terminated, vars
<1>. QED BY <1>1, <1>2, <1>3, <1>4, <1>5 DEF Next, PipeStep

\* The tracker never falls behind a direction, and a finished pipe stays
\* finished.
LEMMA IdleStep ==
    ASSUME TypeOK, IdleInv, [Next]_vars
    PROVE  IdleInv'
<1>. USE DEF IdleInv, TypeOK, Finished, streamVars, pipeVars, monitorVars
<1>1. ASSUME NEW d \in Dirs, PeerSends(d) \/ PeerFinishes(d) \/ PeerResets(d) \/ PeerStopsReading(d)
      PROVE  IdleInv'
  BY <1>1 DEF PeerSends, PeerFinishes, PeerResets, PeerStopsReading, PeerVarsUnchanged
<1>2. ASSUME NEW d \in Dirs, ReadData(d) \/ ReadEnd(d) \/ ReadPending(d)
      PROVE  IdleInv'
  BY <1>2 DEF ReadData, ReadEnd, ReadPending, CanRead, Goto
<1>3. ASSUME NEW d \in Dirs, Flush(d) \/ WriteFails(d) \/ Mark(d) \/ WriteAll(d)
      PROVE  IdleInv'
  BY <1>3 DEF Flush, WriteFails, Mark, WriteAll, Goto
<1>4. ASSUME NEW d \in Dirs, Shutdown(d) \/ ShutdownFails(d) \/ Die(d)
      PROVE  IdleInv'
  BY <1>4 DEF Shutdown, ShutdownFails, Die, Goto
<1>5. ASSUME MonitorStep \/ Cancel \/ Terminated \/ UNCHANGED vars
      PROVE  IdleInv'
  BY SMTT(60), <1>5, LaterMonotone
     DEF MonitorStep, MonitorLooks, MonitorDecides, Tick, Cancel, Terminated, vars
<1>. QED BY <1>1, <1>2, <1>3, <1>4, <1>5 DEF Next, PipeStep

\* What a pipe has read is delivered, queued or held until its shutdown.
LEMMA FlowStep ==
    ASSUME TypeOK, FlowInv, [Next]_vars
    PROVE  FlowInv'
<1>. USE DEF FlowInv, Running, Held, Refused, Other, Dirs
<1>1. ASSUME NEW d \in Dirs, PeerSends(d)
      PROVE  FlowInv'
  BY <1>1 DEF TypeOK, PeerSends, PeerVarsUnchanged, pipeVars
<1>2. ASSUME NEW d \in Dirs, PeerFinishes(d)
      PROVE  FlowInv'
  BY <1>2 DEF TypeOK, PeerFinishes, PeerVarsUnchanged, pipeVars
<1>3. ASSUME NEW d \in Dirs, PeerResets(d)
      PROVE  FlowInv'
  BY <1>3 DEF TypeOK, PeerResets, PeerVarsUnchanged, pipeVars
<1>4. ASSUME NEW d \in Dirs, ReadData(d)
      PROVE  FlowInv'
  BY <1>4 DEF TypeOK, ReadData, CanRead, Goto, streamVars
<1>5. ASSUME NEW d \in Dirs, ReadEnd(d)
      PROVE  FlowInv'
  BY <1>5 DEF TypeOK, ReadEnd, CanRead, Goto, streamVars
<1>6. ASSUME NEW d \in Dirs, ReadPending(d)
      PROVE  FlowInv'
  BY <1>6 DEF TypeOK, ReadPending, Goto, streamVars
<1>7. ASSUME NEW d \in Dirs, Flush(d)
      PROVE  FlowInv'
  BY <1>7 DEF TypeOK, Flush, Goto
<1>8. ASSUME NEW d \in Dirs, WriteAll(d)
      PROVE  FlowInv'
  <2>1. PICK k \in 0 .. queued[d] + 1 :
            /\ queued' = [queued EXCEPT ![d] = k]
            /\ delivered' = [delivered EXCEPT ![d] = @ + queued[d] + 1 - k]
    BY ZenonT(60), <1>8 DEF WriteAll
  <2>. QED BY <1>8, <2>1 DEF TypeOK, WriteAll, Goto
<1>9. ASSUME NEW d \in Dirs, WriteFails(d)
      PROVE  FlowInv'
  BY <1>9 DEF TypeOK, WriteFails, Goto, streamVars
<1>10. ASSUME NEW d \in Dirs, Mark(d)
       PROVE  FlowInv'
  BY <1>10 DEF TypeOK, Mark, Goto, streamVars
<1>11. ASSUME NEW d \in Dirs, Shutdown(d) \/ ShutdownFails(d) \/ Die(d)
       PROVE  FlowInv'
  BY <1>11 DEF TypeOK, Shutdown, ShutdownFails, Die, Goto
<1>12. CASE UNCHANGED <<streamVars, pipeVars>>
  BY <1>12 DEF streamVars, pipeVars
<1>13. ASSUME NEW d \in Dirs, PeerStopsReading(d)
       PROVE  UNCHANGED <<streamVars, pipeVars>>
  BY <1>13 DEF PeerStopsReading, PeerVarsUnchanged, streamVars, pipeVars
<1>14. ASSUME MonitorStep \/ Cancel \/ Terminated \/ UNCHANGED vars
       PROVE  UNCHANGED <<streamVars, pipeVars>>
  BY <1>14 DEF MonitorStep, MonitorLooks, MonitorDecides, Tick, Cancel, Terminated, vars
<1>. QED
  BY SMTT(60), <1>1, <1>2, <1>3, <1>4, <1>5, <1>6, <1>7, <1>8, <1>9, <1>10, <1>11, <1>12, <1>13, <1>14
     DEF Next, PipeStep

\* Each step of the relay is a step of the two streams, or leaves them alone.
LEMMA TunnelStep ==
    ASSUME TypeOK, FlowInv, [Next]_vars
    PROVE  [Streams!TunnelNext]_(Streams!tunnelVars)
<1>. USE DEF Streams!tunnelVars, Streams!TunnelNext
<1>1. ASSUME NEW d \in Dirs, PeerSends(d)
      PROVE  Streams!Send(d)
  BY <1>1 DEF PeerSends, PeerVarsUnchanged, Streams!Send
<1>2. ASSUME NEW d \in Dirs, PeerFinishes(d)
      PROVE  Streams!Finish(d)
  BY <1>2 DEF PeerFinishes, PeerVarsUnchanged, Streams!Finish
<1>3. ASSUME NEW d \in Dirs, PeerResets(d)
      PROVE  Streams!Reset(d)
  BY <1>3 DEF PeerResets, PeerVarsUnchanged, Streams!Reset
<1>4. ASSUME NEW d \in Dirs, Flush(d)
      PROVE  Streams!Deliver(d)
  <2>1. out[d] = "open" /\ delivered[d] + queued[d] \in delivered[d] .. sent[d]
    BY <1>4 DEF Flush, FlowInv, TypeOK, Running, Held
  <2>. QED BY ZenonT(60), <1>4, <2>1 DEF Flush, Streams!Deliver
<1>5. ASSUME NEW d \in Dirs, WriteAll(d)
      PROVE  Streams!Deliver(d)
  <2>1. PICK k \in 0 .. queued[d] + 1 :
            delivered' = [delivered EXCEPT ![d] = delivered[d] + queued[d] + 1 - k]
    BY ZenonT(60), <1>5 DEF WriteAll
  <2>2. out[d] = "open" /\ delivered[d] + queued[d] + 1 - k \in delivered[d] .. sent[d]
    BY <1>5 DEF WriteAll, FlowInv, TypeOK, Running, Held
  <2>. QED BY ZenonT(60), <1>5, <2>1, <2>2 DEF WriteAll, Streams!Deliver
<1>6. ASSUME NEW d \in Dirs, Shutdown(d)
      PROVE  Streams!Close(d)
  <2>1. out[d] = "open" /\ src[d] \in {"fin", "reset"}
    BY <1>6 DEF Shutdown, FlowInv, TypeOK, Running
  <2>2. delivered[d] + queued[d] \in delivered[d] .. sent[d]
    BY <1>6 DEF Shutdown, FlowInv, TypeOK
  <2>3. src[d] = "fin" => delivered[d] + queued[d] = sent[d]
    BY <1>6 DEF Shutdown, FlowInv
  <2>. QED BY ZenonT(60), <1>6, <2>1, <2>2, <2>3 DEF Shutdown, Streams!Close
<1>7. ASSUME NEW d \in Dirs, ShutdownFails(d)
      PROVE  Streams!Break(d)
  <2>1. Other(d) \in Dirs \ {d} /\ src[Other(d)] = "reset"
    BY SMTT(60), <1>7 DEF ShutdownFails, Refused, Other, Dirs
  <2>. QED BY <1>7, <2>1 DEF ShutdownFails, FlowInv, Running, Streams!Break
<1>8. ASSUME NEW d \in Dirs, Die(d)
      PROVE  Streams!Abandon(d)
  BY SMTT(60), <1>8 DEF Die, FlowInv, Running, Streams!Abandon
<1>9. ASSUME NEW d \in Dirs,
             \/ PeerStopsReading(d) \/ ReadData(d) \/ ReadEnd(d) \/ ReadPending(d)
             \/ WriteFails(d) \/ Mark(d)
      PROVE  UNCHANGED streamVars
  BY <1>9 DEF PeerStopsReading, ReadData, ReadEnd, ReadPending, WriteFails, Mark,
              PeerVarsUnchanged, streamVars
<1>10. ASSUME MonitorStep \/ Cancel \/ Terminated \/ UNCHANGED vars
       PROVE  UNCHANGED streamVars
  BY <1>10 DEF MonitorStep, MonitorLooks, MonitorDecides, Tick, Cancel, Terminated, vars
<1>. QED
  BY <1>1, <1>2, <1>3, <1>4, <1>5, <1>6, <1>7, <1>8, <1>9, <1>10
     DEF Next, PipeStep, streamVars

\* The inductive invariants hold initially.
LEMMA InitialState ==
    Init => TypeOK /\ QueueInv /\ IdleInv /\ FlowInv /\ Streams!TunnelInit
<1>. SUFFICES ASSUME Init
     PROVE  TypeOK /\ QueueInv /\ IdleInv /\ FlowInv /\ Streams!TunnelInit
  OBVIOUS
<1>1. TypeOK
  BY DEF Init, TypeOK
<1>2. QueueInv /\ IdleInv
  BY DEF Init, QueueInv, IdleInv, Finished
<1>3. FlowInv
  BY DEF Init, FlowInv, Running, Held, Refused
<1>4. Streams!TunnelInit
  BY DEF Init, Streams!TunnelInit
<1>. QED BY <1>1, <1>2, <1>3, <1>4

\* The variables of the relay keep their types, whatever the limits are.
THEOREM RelayTypes == Spec => []TypeOK
<1>. QED BY InitialState, TypeStep, PTL DEF Spec

\* A pipe never parks on unflushed data, for any queue limit of the writer.
THEOREM NothingParkedUnflushed == Spec => []FlushedBeforeParking
<1>1. QueueInv => FlushedBeforeParking
  BY DEF QueueInv, FlushedBeforeParking
<1>. QED BY <1>1, InitialState, TypeStep, QueueStep, PTL DEF Spec

\* The monitor never ends a direction that has completed a chunk within the
\* limit that applies to it, for any timeout and drain limit.
THEOREM DrainIsRespected == Spec => NeverCutWhileDelivering
<1>1. ASSUME TypeOK, IdleInv, MonitorDecides
      PROVE  \A d \in doomed' \ doomed :
                 \/ maxIdle # 0 /\ silent[d] > maxIdle
                 \/ pc[Other(d)] = "done" /\ silent[d] > DrainLimit
  <2>1. SUFFICES ASSUME NEW d \in doomed' \ doomed
        PROVE  \/ maxIdle # 0 /\ silent[d] > maxIdle
               \/ pc[Other(d)] = "done" /\ silent[d] > DrainLimit
    OBVIOUS
  <2>2. Over /\ d \in Dirs \ seen
    BY <1>1 DEF MonitorDecides
  <2>3. seen # {} => pc[Other(d)] = "done"
    <3>1. ASSUME NEW x \in seen PROVE x = Other(d) /\ pc[x] = "done"
      <4>1. x \in Dirs /\ pc[x] = "done"
        BY <1>1 DEF IdleInv, Finished
      <4>2. x # d
        BY <2>2
      <4>. QED BY <2>2, <4>1, <4>2 DEF Other, Dirs
    <3>. QED BY <3>1
  <2>4. idle \in Nat /\ silent[d] \in Nat /\ idle <= silent[d]
    BY <1>1, <2>2 DEF TypeOK, IdleInv
  <2>5. maxIdle \in Nat /\ DrainLimit \in Nat
    BY <1>1, RelayAssumption DEF TypeOK
  <2>6. seen # Dirs
    BY <2>2
  <2>. QED BY <2>2, <2>3, <2>4, <2>5, <2>6 DEF Over, TimedOut, HalfClosedStall
<1>. QED BY <1>1, InitialState, TypeStep, IdleStep, PTL DEF Spec, NeverCutWhileDelivering

\* The relay implements two independent streams: nothing is reordered, made
\* up or silently dropped before a clean close.
THEOREM RelayIsATunnel == Spec => ImplementsTunnel
<1>. QED
  BY InitialState, TypeStep, FlowStep, TunnelStep, PTL
     DEF Spec, ImplementsTunnel, Streams!TunnelSpec
=============================================================================
