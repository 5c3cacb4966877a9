------------------------------- MODULE Tunnel -------------------------------
(***************************************************************************)
(* What a relayed connection promises its two peers: two independent       *)
(* streams.  Each stream delivers a prefix of what its source sent, in     *)
(* order, and ends in one of three ways: "fin" after everything sent was   *)
(* delivered (or after the source reset the connection), "broken" when the *)
(* destination refuses data, "cut" when the proxy drops the connection.    *)
(* A chunk is a count: the streams carry chunks 1, 2, 3, ...               *)
(***************************************************************************)
EXTENDS Naturals

CONSTANT Dirs

VARIABLES
    sent,       \* chunks the source of the direction has sent
    src,        \* the source: "open", "fin" (it half-closed) or "reset"
    delivered,  \* chunks put on the wire towards the destination
    out         \* how the stream towards the destination ended, or "open"

tunnelVars == <<sent, src, delivered, out>>

TunnelInit ==
    /\ sent = [d \in Dirs |-> 0]
    /\ src = [d \in Dirs |-> "open"]
    /\ delivered = [d \in Dirs |-> 0]
    /\ out = [d \in Dirs |-> "open"]

\* The source sends a chunk, half-closes, or resets the connection.
Send(d) ==
    /\ src[d] = "open"
    /\ sent' = [sent EXCEPT ![d] = @ + 1]
    /\ UNCHANGED <<src, delivered, out>>

Finish(d) ==
    /\ src[d] = "open"
    /\ src' = [src EXCEPT ![d] = "fin"]
    /\ UNCHANGED <<sent, delivered, out>>

Reset(d) ==
    /\ src' = [src EXCEPT ![d] = "reset"]
    /\ UNCHANGED <<sent, delivered, out>>

Deliver(d) ==
    /\ out[d] = "open"
    /\ \E n \in delivered[d] .. sent[d] : delivered' = [delivered EXCEPT ![d] = n]
    /\ UNCHANGED <<sent, src, out>>

\* A clean end of the stream: everything the source sent has been delivered,
\* unless the source reset the connection.
Close(d) ==
    /\ out[d] = "open"
    /\ out' = [out EXCEPT ![d] = "fin"]
    /\ \/ src[d] = "fin" /\ delivered' = [delivered EXCEPT ![d] = sent[d]]
       \/ /\ src[d] = "reset"
          /\ \E n \in delivered[d] .. sent[d] : delivered' = [delivered EXCEPT ![d] = n]
    /\ UNCHANGED <<sent, src>>

\* The stream ends without a clean close.  "broken" is the destination's
\* doing: its side of the connection was reset.
Abandon(d) ==
    /\ out[d] = "open"
    /\ out' = [out EXCEPT ![d] = "cut"]
    /\ UNCHANGED <<sent, src, delivered>>

Break(d) ==
    /\ out[d] = "open"
    /\ \E e \in Dirs \ {d} : src[e] = "reset"
    /\ out' = [out EXCEPT ![d] = "broken"]
    /\ UNCHANGED <<sent, src, delivered>>

TunnelNext ==
    \E d \in Dirs :
        Send(d) \/ Finish(d) \/ Reset(d) \/ Deliver(d) \/ Close(d) \/ Abandon(d) \/ Break(d)

TunnelSpec == TunnelInit /\ [][TunnelNext]_tunnelVars
=============================================================================
