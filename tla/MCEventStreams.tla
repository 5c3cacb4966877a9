----------------------------- MODULE MCEventStreams -----------------------------
(* The environments of EventStreams: each topic under a reload, and the sessions *)
(* beside the listener's topic.                                                  *)
EXTENDS EventStreams

CONSTANTS c1, c2, s1

Environments ==
    {[topic |-> "live", capacity |-> 2, conns |-> {c1}, events |-> {"reload", "name", "leave"}],
     [topic |-> "global", capacity |-> 1, conns |-> {c1, c2}, events |-> {}],
     [topic |-> "global", capacity |-> 1, conns |-> {c1}, events |-> {"reload"}],
     [topic |-> "live", capacity |-> 1, conns |-> {c1}, events |-> {"session", "leave"}]}
=============================================================================
