-------------------------- MODULE ForwardingProofs --------------------------
(***************************************************************************)
(* Proofs about Connections, continued: what must stay in the proxy, the   *)
(* reserved names and the identifiers of what it sent itself, is never     *)
(* sent on.                                                                *)
(***************************************************************************)
EXTENDS ConnectionsProofs

-----------------------------------------------------------------------------
(* Reserved names. *)

\* A reserved name has left the default listener's handler before it can choose
\* an upstream.
ReservedInv ==
    \A c \in Conns :
        conn[c].stage # "idle" /\ kind[conn[c].listener] = "default" =>
            /\ conn[c].stage = "dispatch" =>
                  conn[c].route = "acme" \/ conn[c].hello.name # conn[c].config.control
            /\ conn[c].stage \in Upstream =>
                  /\ conn[c].route # "acme"
                  /\ conn[c].hello # None => conn[c].hello.name # conn[c].config.control

LEMMA ReservedStep == Base /\ ReservedInv /\ [Next]_vars => ReservedInv'
<1> SUFFICES ASSUME Base, ReservedInv, [Next]_vars PROVE ReservedInv'
  OBVIOUS
<1> DEFINE
      Ok(t) == t.stage # "idle" /\ kind[t.listener] = "default" =>
                  /\ t.stage = "dispatch" => t.route = "acme" \/ t.hello.name # t.config.control
                  /\ t.stage \in Upstream => /\ t.route # "acme"
                                             /\ t.hello # None => t.hello.name # t.config.control
<1>1. ASSUME NEW c \in Conns, HandlerStep(c) PROVE ReservedInv'
  <2>1. /\ \A d \in Conns : d # c => conn'[d] = conn[d]
        /\ conn'[c].listener = conn[c].listener /\ conn'[c].config = conn[c].config
        /\ scenario' = scenario
    BY <1>1, HandlerFrame DEF Base
  <2>2. Ok(conn[c])
    BY DEF ReservedInv
  <2>3. /\ conn[c].stage = "head" => conn[c].route = "reverse"
        /\ conn[c].route \in Relayed \ {"forward"} => conn[c].hello # None
        /\ conn[c].stage = "mint" => conn[c].route \in Http
        /\ conn[c].stage = "dispatch" => conn[c].hello # None
    BY DEF Base, TaskInv, Equipped
  <2>4. Ok(conn'[c])
    <3>1. CASE BeginEffect(c)
      BY <2>1, <3>1 DEF BeginEffect, Entered, Upstream
    <3>2. CASE \E h \in Hellos, stage \in {"serve", "closing", "dispatch"}, route \in TlsRoutes :
                 HelloRead(c, h, stage, route) /\ ReadEffect(c, h, stage, route)
      BY <2>1, <3>2 DEF HelloRead, ReadEffect, Upstream
    <3>3. CASE \E h \in Hellos, stage \in {"select", "closing"}, route \in HttpRoutes :
                 HeadRead(c, h, stage, route) /\ ReadEffect(c, h, stage, route)
      <4>1. PICK h \in Hellos, stage \in {"select", "closing"}, route \in HttpRoutes :
                 HeadRead(c, h, stage, route) /\ ReadEffect(c, h, stage, route)
        BY <3>3
      <4>2. CASE conn[c].stage = "head"
        BY <2>1, <2>2, <2>3, <4>1, <4>2 DEF HeadRead, ReadEffect, Upstream, Relayed, HttpRoutes
      <4>3. CASE kind[conn[c].listener] = "http"
        BY <2>1, <4>3
      <4> QED BY <4>1, <4>2, <4>3 DEF HeadRead
    <3>4. CASE DispatchEffect(c)
      BY <2>1, <2>2, <3>4 DEF DispatchEffect, Entered, Upstream
    <3>5. CASE MintEffect(c)
      <4>1. conn[c].hello \in Hellos
        BY <2>3, <3>5 DEF MintEffect, Base, TypeInv, Task, Http, Relayed
      <4>2. conn'[c].hello.name = conn[c].hello.name
        BY <3>5, <4>1 DEF MintEffect, Hellos
      <4>3. conn[c].hello # None
        BY <2>3, <3>5 DEF MintEffect, Http, Relayed
      <4> QED BY <2>1, <2>2, <3>5, <4>2, <4>3 DEF MintEffect, Upstream, AfterMint, AfterTls
    <3>6. CASE Advances(c)
      BY <2>1, <2>2, <3>6 DEF Advances, Entered, Upstream, AfterConnect, AfterMint, AfterTls
    <3>7. CASE Finishes(c)
      BY <3>7 DEF Finishes, Entered, Upstream
    <3> QED BY <1>1, <3>1, <3>2, <3>3, <3>4, <3>5, <3>6, <3>7, HandlerEffect, Zenon DEF Base
  <2>5. kind' = kind
    BY <2>1 DEF kind
  <2> QED BY <2>1, <2>4, <2>5 DEF ReservedInv
<1>2. ASSUME WorldStep PROVE ReservedInv'
  <2>1. kind' = kind
    BY <1>2, Zenon DEF kind, WorldStep, ListenerNext, RuntimeNext, Accept, RequestRestart, Restart,
             Rebind, AcceptFails, Stop, Flush, Flushed, Bind, HotApply, Revise, Write, Challenge,
             Forget, vars
  <2>2. CASE \E l \in Listeners, c \in Conns : conn' = [conn EXCEPT ![c] = Spawned(l)]
    <3>1. PICK l \in Listeners, c \in Conns : conn' = [conn EXCEPT ![c] = Spawned(l)]
      BY <2>2, Zenon
    <3>2. conn'[c].stage = "spawned" /\ \A d \in Conns : d # c => conn'[d] = conn[d]
      BY <3>1, SpawnedTyped DEF Base, TypeInv
    <3> QED BY <2>1, <3>2 DEF ReservedInv, Upstream
  <2>3. CASE \A c \in Conns : SameTask(c)
    BY <2>1, <2>3 DEF ReservedInv, SameTask
  <2> QED BY <1>2, <2>2, <2>3, WorldOfConns DEF Base
<1> QED BY <1>1, <1>2, Steps

-----------------------------------------------------------------------------
(* Loop identifiers.  One that is not the proxy's own hello is sent once, by *)
(* its origin, and known from before that until somebody meets it.           *)

Sender == {"relay", "closing", "ended"}
OwnSender == Sender \cup {"observe", "write"}

\* The connection holds an identifier of another one.
Foreign(c) == conn[c].hello # None /\ conn[c].hello.id[1] # c /\ conn[c].hello.id[2] # "own"

\* What is on its way has left its origin, and is known.
Travels(h) ==
    IF h.id[2] = "own" THEN conn[h.id[1]].stage \in OwnSender
    ELSE h.id \in seen /\ conn[h.id[1]].stage \in Sender

SentInv == \A h \in sent : Travels(h)

\* What a handler holds: an identifier of its own, or one that left its origin
\* and is no longer on its way.
Held(c) ==
    /\ conn[c].hello # None /\ conn[c].hello.id[2] = "own" =>
          conn[c].hello.id[1] # c /\ conn[conn[c].hello.id[1]].stage \in OwnSender
    /\ Foreign(c) => conn[conn[c].hello.id[1]].stage \in Sender
    /\ Foreign(c) /\ conn[c].stage = "dispatch" => \A h \in sent : h.id # conn[c].hello.id
    /\ conn[c].hello # None /\ conn[c].hello.id = <<c, "token">> =>
          conn[c].stage \in {"upstream", "observe", "write"} \cup Sender

HeldInv == \A c \in Conns : Held(c)

\* Nobody holds what somebody else holds.
UniqueInv ==
    /\ \A g, h \in sent : g.id = h.id /\ g.id[2] # "own" => g = h
    /\ \A c, d \in Conns :
          Foreign(c) /\ Foreign(d) /\ conn[c].stage = "dispatch" /\ conn[d].stage = "dispatch"
              /\ conn[c].hello.id = conn[d].hello.id => c = d

\* The handlers that count on their identifier being known: one that is about to
\* look it up, and one that is about to send it.
Minted(c) == conn[c].route \in Http /\ conn[c].stage \in {"upstream", "observe", "write"}
Needs(c) ==
    \/ Foreign(c) /\ conn[c].stage = "dispatch"
    \/ /\ conn[c].route = "passthrough" /\ conn[c].stage \in {"connect", "write"}
       /\ conn[c].hello.id[2] # "own"
    \/ Minted(c)

Known(c) ==
    /\ Needs(c) => conn[c].hello.id \in seen
    /\ Minted(c) => conn[c].hello.id = <<c, "token">>

KnownInv == \A c \in Conns : Known(c)

Cut(c) == Foreign(c) => conn[c].stage \notin Upstream

LoopInv == SentInv /\ HeldInv /\ UniqueInv /\ KnownInv /\ LoopsAreCut

LEMMA Ids == \A h \in Hellos : /\ h.id[1] \in Conns /\ h.id[2] \in {"client", "own", "token"}
                               /\ h.id = <<h.id[1], h.id[2]>>
BY DEF Hellos, Identifiers

LEMMA LoopIds ==
    ASSUME TypeInv
    PROVE  /\ \A h \in sent : h.id[1] \in Conns /\ h.id = <<h.id[1], h.id[2]>>
           /\ \A d \in Conns : conn[d].hello # None =>
                 /\ conn[d].hello \in Hellos /\ conn[d].hello.id[1] \in Conns
                 /\ conn[d].hello.id = <<conn[d].hello.id[1], conn[d].hello.id[2]>>
<1>1. \A d \in Conns : conn[d].hello \in Hellos \cup {None}
  BY DEF TypeInv, Task
<1>2. sent \subseteq Hellos
  BY DEF TypeInv
<1> QED BY <1>1, <1>2, Ids

LEMMA CutIsLoops == LoopsAreCut <=> \A c \in Conns : Cut(c)
BY DEF LoopsAreCut, Cut, Foreign

\* Who has sent has sent: no step takes a handler back.
GoesOn ==
    \A o \in Conns : /\ conn[o].stage \in Sender => conn'[o].stage \in Sender
                     /\ conn[o].stage \in OwnSender => conn'[o].stage \in OwnSender

LEMMA HandlerGoesOn ==
    ASSUME Base, NEW c \in Conns, HandlerStep(c)
    PROVE  GoesOn
<1>1. \A d \in Conns : d # c => conn'[d] = conn[d]
  BY HandlerFrame DEF Base
<1>2. \/ conn[c].stage \notin OwnSender
      \/ conn'[c].stage \in Sender
      \/ conn[c].stage = "observe" /\ conn'[c].stage = "write"
  <2>1. CASE BeginEffect(c) \/ DispatchEffect(c) \/ MintEffect(c)
    BY <2>1 DEF BeginEffect, DispatchEffect, MintEffect, Sender, OwnSender
  <2>2. CASE \E h, stage, route : HelloRead(c, h, stage, route) \/ HeadRead(c, h, stage, route)
    BY <2>2 DEF HelloRead, HeadRead, Sender, OwnSender
  <2>3. CASE Advances(c)
    BY <2>3 DEF Advances, Entered, AfterTls, Sender, OwnSender
  <2>4. CASE Finishes(c)
    BY <2>4 DEF Finishes, Entered, Sender
  <2> QED BY <2>1, <2>2, <2>3, <2>4, HandlerEffect DEF Base
<1>3. /\ conn[c].stage \in Sender => conn'[c].stage \in Sender
      /\ conn[c].stage \in OwnSender => conn'[c].stage \in OwnSender
  BY <1>2 DEF Sender, OwnSender
<1> QED BY <1>1, <1>3 DEF GoesOn

\* Who needs an identifier holds one of its own and has not sent it, or is about
\* to look up somebody else's.
LEMMA NeedsShape ==
    ASSUME Base, LoopInv, NEW d \in Conns, Needs(d)
    PROVE  /\ conn[d].hello # None /\ conn[d].hello.id[2] # "own"
           /\ \/ conn[d].hello.id[1] = d /\ conn[d].stage \notin Sender
              \/ conn[d].hello.id[1] # d /\ Foreign(d) /\ conn[d].stage = "dispatch"
<1>1. CASE Foreign(d) /\ conn[d].stage = "dispatch"
  BY <1>1 DEF Foreign
<1>2. CASE /\ conn[d].route = "passthrough" /\ conn[d].stage \in {"connect", "write"}
           /\ conn[d].hello.id[2] # "own"
  <2>1. conn[d].hello # None
    BY <1>2 DEF Base, TaskInv, Equipped, Relayed
  <2>2. ~Foreign(d)
    BY <1>2, CutIsLoops DEF LoopInv, Cut, Upstream
  <2> QED BY <1>2, <2>1, <2>2 DEF Foreign, Sender
<1>3. CASE Minted(d)
  <2>1. conn[d].hello # None
    BY <1>3 DEF Base, TaskInv, Equipped, Relayed, Minted, Http
  <2>2. conn[d].hello.id = <<d, "token">>
    BY <1>3 DEF LoopInv, KnownInv, Known
  <2> QED BY <1>3, <2>1, <2>2 DEF Minted, Sender
<1> QED BY <1>1, <1>2, <1>3 DEF Needs

\* What a step has to leave alone for what is on its way, and for the handlers,
\* to stay as described.
LEMMA TravelsKept ==
    ASSUME Base, GoesOn, NEW h \in sent, Travels(h), h.id[2] # "own" => h.id \in seen'
    PROVE  Travels(h)'
<1>1. h.id[1] \in Conns
  BY LoopIds DEF Base
<1> QED BY <1>1 DEF Travels, GoesOn

LEMMA HeldKept ==
    ASSUME Base, GoesOn, NEW d \in Conns, Held(d), Cut(d),
           conn'[d].hello = conn[d].hello,
           conn'[d].stage = "dispatch" => conn[d].stage = "dispatch",
           Foreign(d) /\ conn'[d].stage = "dispatch" => \A h \in sent' : h.id # conn[d].hello.id,
           conn[d].stage \in {"upstream", "observe", "write"} => conn'[d].stage \in {"upstream", "observe", "write"} \cup Sender,
           conn'[d].stage \in Upstream => conn[d].stage \in Upstream \/ ~Foreign(d)
    PROVE  Held(d)' /\ Cut(d)'
<1>1. conn[d].hello # None => conn[d].hello.id[1] \in Conns
  BY LoopIds DEF Base
<1>2. Foreign(d)' <=> Foreign(d)
  BY DEF Foreign
<1>3. Cut(d)'
  BY <1>2 DEF Cut
<1>4. conn[d].hello # None /\ conn[d].hello.id[2] = "own" =>
          conn[d].hello.id[1] # d /\ conn'[conn[d].hello.id[1]].stage \in OwnSender
  BY <1>1, Zenon DEF Held, GoesOn
<1>5. Foreign(d) => conn'[conn[d].hello.id[1]].stage \in Sender
  BY <1>1, Zenon DEF Held, GoesOn, Foreign
<1>6. conn[d].stage \in {"upstream", "observe", "write"} \cup Sender =>
          conn'[d].stage \in {"upstream", "observe", "write"} \cup Sender
  BY DEF GoesOn
<1>7. conn[d].hello # None /\ conn[d].hello.id = <<d, "token">> =>
          conn'[d].stage \in {"upstream", "observe", "write"} \cup Sender
  BY <1>6 DEF Held
<1> QED BY <1>2, <1>3, <1>4, <1>5, <1>7, Zenon DEF Held

LEMMA KnownKept ==
    ASSUME NEW d \in Conns, Known(d), SameTask(d), Needs(d) => conn[d].hello.id \in seen'
    PROVE  Known(d)'
<1>1. (Needs(d)' <=> Needs(d)) /\ (Minted(d)' <=> Minted(d))
  BY DEF Needs, Minted, Foreign, SameTask
<1> QED BY <1>1 DEF Known, SameTask

\* A step of one handler, seen by the others.
LEMMA OthersKept ==
    ASSUME Base, LoopInv, GoesOn, NEW d \in Conns, SameTask(d),
           Needs(d) => conn[d].hello.id \in seen',
           Foreign(d) /\ conn[d].stage = "dispatch" => \A h \in sent' : h.id # conn[d].hello.id
    PROVE  Held(d)' /\ Known(d)' /\ Cut(d)'
<1>1. Held(d) /\ Known(d) /\ Cut(d)
  BY CutIsLoops DEF LoopInv, HeldInv, KnownInv
<1>2. Known(d)'
  BY <1>1, KnownKept
<1>3. conn'[d].hello = conn[d].hello /\ conn'[d].stage = conn[d].stage
  BY DEF SameTask
<1>4. Held(d)' /\ Cut(d)'
  BY <1>1, <1>3, HeldKept
<1> QED BY <1>2, <1>4

\* Nobody new is about to look up what is not its own.
LEMMA UniqueKept ==
    ASSUME LoopInv,
           \A g, h \in sent' : g.id = h.id /\ g.id[2] # "own" => g = h,
           \A d \in Conns : conn'[d].hello = conn[d].hello \/ conn'[d].stage # "dispatch",
           \A d \in Conns : conn'[d].stage = "dispatch" => conn[d].stage = "dispatch"
    PROVE  UniqueInv'
<1>1. \A d \in Conns : Foreign(d)' /\ conn'[d].stage = "dispatch" =>
          Foreign(d) /\ conn[d].stage = "dispatch" /\ conn'[d].hello = conn[d].hello
  BY DEF Foreign
<1> QED BY <1>1 DEF LoopInv, UniqueInv

-----------------------------------------------------------------------------
(* The loop identifiers, step by step. *)

\* An identifier that is on its way is needed by nobody.
LEMMA TravellingIsFree ==
    ASSUME Base, LoopInv, NEW h \in sent, h.id[2] # "own"
    PROVE  /\ \A g \in sent : g # h => g.id # h.id
           /\ \A d \in Conns : Needs(d) => conn[d].hello.id # h.id
<1>1. \A g \in sent : g # h => g.id # h.id
  BY DEF LoopInv, UniqueInv
<1>2. conn[h.id[1]].stage \in Sender
  BY DEF LoopInv, SentInv, Travels
<1>3. ASSUME NEW d \in Conns, Needs(d), conn[d].hello.id = h.id PROVE FALSE
  <2>1. CASE conn[d].hello.id[1] = d /\ conn[d].stage \notin Sender
    BY <1>2, <1>3, <2>1
  <2>2. CASE Foreign(d) /\ conn[d].stage = "dispatch"
    BY <1>3, <2>2 DEF LoopInv, HeldInv, Held
  <2> QED BY <1>3, <2>1, <2>2, NeedsShape
<1> QED BY <1>1, <1>3

\* The identifier a handler c has not sent, or looks up, is needed by nobody else.
LEMMA LookedUpIsFree ==
    ASSUME Base, LoopInv, NEW c \in Conns, conn[c].stage \notin Sender,
           NEW x, x = <<c, "client">> \/ (conn[c].stage = "dispatch" /\ conn[c].hello # None /\ x = conn[c].hello.id)
    PROVE  /\ \A h \in sent : h.id[2] # "own" => h.id # x
           /\ \A d \in Conns : d # c /\ Needs(d) => conn[d].hello.id # x
<1>1. x[1] # c /\ x[2] # "own" => Foreign(c) /\ conn[c].stage = "dispatch" /\ x = conn[c].hello.id
  BY DEF Foreign
<1>2. ASSUME NEW h \in sent, h.id[2] # "own", h.id = x PROVE FALSE
  <2>1. conn[x[1]].stage \in Sender
    BY <1>2 DEF LoopInv, SentInv, Travels
  <2>2. Foreign(c) /\ conn[c].stage = "dispatch" /\ x = conn[c].hello.id
    BY <1>1, <1>2, <2>1
  <2> QED BY <1>2, <2>2, Zenon DEF LoopInv, HeldInv, Held
<1>3. ASSUME NEW d \in Conns, d # c, Needs(d), conn[d].hello.id = x PROVE FALSE
  <2>1. CASE conn[d].hello.id[1] = d /\ conn[d].stage \notin Sender
    <3>1. Foreign(c) /\ x = conn[c].hello.id
      BY <1>1, <1>3, <2>1, NeedsShape
    <3> QED BY <1>3, <2>1, <3>1, Zenon DEF LoopInv, HeldInv, Held
  <2>2. CASE Foreign(d) /\ conn[d].stage = "dispatch"
    <3>1. conn[x[1]].stage \in Sender /\ x[2] # "own"
      BY <1>3, <2>2, Zenon DEF LoopInv, HeldInv, Held, Foreign
    <3>2. Foreign(c) /\ conn[c].stage = "dispatch" /\ x = conn[c].hello.id
      BY <1>1, <3>1
    <3> QED BY <1>3, <2>2, <3>2 DEF LoopInv, UniqueInv
  <2> QED BY <1>3, <2>1, <2>2, NeedsShape
<1> QED BY <1>2, <1>3

\* The parts of LoopInv', put together.
LEMMA LoopParts ==
    ASSUME SentInv', UniqueInv', \A d \in Conns : Held(d)' /\ Known(d)' /\ Cut(d)'
    PROVE  LoopInv'
<1>1. LoopsAreCut'
  BY DEF LoopsAreCut, Cut, Foreign
<1> QED BY <1>1 DEF LoopInv, HeldInv, KnownInv

LEMMA LoopDispatch ==
    ASSUME Base, LoopInv, GoesOn, NEW c \in Conns, Dispatch(c), DispatchEffect(c),
           \A d \in Conns : d # c => conn'[d] = conn[d]
    PROVE  LoopInv'
<1> DEFINE x == conn[c].hello.id
<1>1. /\ conn[c].stage = "dispatch" /\ conn[c].hello # None
      /\ conn'[c].hello = conn[c].hello /\ conn'[c].route = conn[c].route
      /\ conn'[c].stage \in {"answer", "closing", "select", "handshake"}
      /\ conn'[c].stage \in {"select", "handshake"} => x \notin seen
  BY DEF DispatchEffect, Entered, Base, TaskInv, Equipped
<1>2. sent' = sent /\ seen \ {x} \subseteq seen'
  BY DEF Dispatch, Consumed
<1>3. /\ \A h \in sent : h.id[2] # "own" => h.id # x
      /\ \A d \in Conns : d # c /\ Needs(d) => conn[d].hello.id # x
  BY <1>1, LookedUpIsFree DEF Sender
<1>4. SentInv'
  <2>1. ASSUME NEW h \in sent PROVE Travels(h)'
    <3>1. Travels(h)
      BY DEF LoopInv, SentInv
    <3>2. h.id[2] # "own" => h.id \in seen'
      BY <1>2, <1>3, <3>1 DEF Travels
    <3> QED BY <3>1, <3>2, TravelsKept
  <2> QED BY <1>2, <2>1 DEF SentInv
<1>5. UniqueInv'
  <2>1. \A g, h \in sent' : g.id = h.id /\ g.id[2] # "own" => g = h
    BY <1>2 DEF LoopInv, UniqueInv
  <2> QED BY <1>1, <2>1, UniqueKept
<1>6. ASSUME NEW d \in Conns, d # c PROVE Held(d)' /\ Known(d)' /\ Cut(d)'
  <2>1. SameTask(d)
    BY <1>6 DEF SameTask
  <2>2. Held(d) /\ Known(d)
    BY DEF LoopInv, HeldInv, KnownInv
  <2>3. Needs(d) => conn[d].hello.id \in seen'
    BY <1>2, <1>3, <1>6, <2>2 DEF Known
  <2>4. Foreign(d) /\ conn[d].stage = "dispatch" => \A h \in sent' : h.id # conn[d].hello.id
    BY <1>2, <2>2, Zenon DEF Held
  <2> QED BY <2>1, <2>3, <2>4, OthersKept
<1>7. Held(c)' /\ Known(c)' /\ Cut(c)'
  <2>1. Held(c) /\ Known(c) /\ Cut(c)
    BY CutIsLoops DEF LoopInv, HeldInv, KnownInv
  <2>2. conn'[c].stage \in Upstream => ~Foreign(c)
    <3>1. Foreign(c) => x \in seen
      BY <1>1, <2>1 DEF Known, Needs
    <3> QED BY <1>1, <3>1 DEF Upstream
  <2>3. Held(c)' /\ Cut(c)'
    BY <1>1, <2>1, <2>2, HeldKept, Zenon
  <2>4. Known(c)'
    BY <1>1 DEF Known, Needs, Minted
  <2> QED BY <2>3, <2>4
<1> QED BY <1>4, <1>5, <1>6, <1>7, LoopParts

LEMMA LoopReadHello ==
    ASSUME Base, LoopInv, GoesOn, NEW c \in Conns, NEW h \in Hellos,
           NEW stage \in {"serve", "closing", "dispatch"}, NEW route,
           HelloRead(c, h, stage, route), ReadEffect(c, h, stage, route), seen' = seen,
           \A d \in Conns : d # c => conn'[d] = conn[d]
    PROVE  LoopInv'
<1>1. /\ conn[c].stage = "read" /\ sent' = sent \ {h}
      /\ h.id = <<c, "client">> \/ (h \in sent /\ h.id[2] \in {"client", "own"})
      /\ conn'[c].stage = stage /\ conn'[c].hello = h
  BY DEF HelloRead, ReadEffect
<1>2. h # None /\ h.id[1] \in Conns
  BY Ids, NoneAssumption
<1>3. h.id # <<c, "client">> =>
        /\ h \in sent /\ Travels(h) /\ h.id[1] # c /\ Travels(h)'
  <2>1. ASSUME h \in sent PROVE Travels(h) /\ Travels(h)'
    BY <2>1, TravelsKept DEF LoopInv, SentInv, Travels
  <2>2. ASSUME h \in sent PROVE h.id[1] # c
    BY <1>1, <2>1, <2>2 DEF Travels, Sender, OwnSender
  <2> QED BY <1>1, <2>1, <2>2
<1>4. SentInv'
  <2>1. ASSUME NEW g \in sent PROVE Travels(g)'
    BY TravelsKept DEF LoopInv, SentInv, Travels
  <2> QED BY <1>1, <2>1 DEF SentInv
<1>5. (Foreign(c)' /\ conn'[c].stage = "dispatch" /\ h.id = conn'[c].hello.id) =>
         /\ \A g \in sent : g # h => g.id # h.id
         /\ \A d \in Conns : Needs(d) => conn[d].hello.id # h.id
  <2>1. Foreign(c)' => h.id # <<c, "client">> /\ h.id[2] # "own"
    BY <1>1 DEF Foreign
  <2> QED BY <1>3, <2>1, TravellingIsFree
<1>6. UniqueInv'
  <2>1. \A g, k \in sent' : g.id = k.id /\ g.id[2] # "own" => g = k
    BY <1>1 DEF LoopInv, UniqueInv
  <2>2. ASSUME NEW a \in Conns, NEW b \in Conns, Foreign(a)', Foreign(b)',
               conn'[a].stage = "dispatch", conn'[b].stage = "dispatch", conn'[a].hello.id = conn'[b].hello.id
        PROVE  a = b
    <3>1. \A d \in Conns : d # c /\ Foreign(d)' /\ conn'[d].stage = "dispatch" =>
              Foreign(d) /\ conn[d].stage = "dispatch" /\ conn'[d].hello = conn[d].hello /\ Needs(d)
      BY Zenon DEF Foreign, Needs
    <3>2. CASE a # c /\ b # c
      BY <2>2, <3>1, <3>2, Zenon DEF LoopInv, UniqueInv
    <3>3. CASE a = c /\ b # c
      BY <1>1, <1>5, <2>2, <3>1, <3>3, Zenon
    <3>4. CASE a # c /\ b = c
      BY <1>1, <1>5, <2>2, <3>1, <3>4
    <3> QED BY <3>2, <3>3, <3>4
  <2> QED BY <2>1, <2>2 DEF UniqueInv
<1>7. ASSUME NEW d \in Conns, d # c PROVE Held(d)' /\ Known(d)' /\ Cut(d)'
  <2>1. SameTask(d)
    BY <1>7 DEF SameTask
  <2>2. Held(d) /\ Known(d)
    BY DEF LoopInv, HeldInv, KnownInv
  <2>3. Needs(d) => conn[d].hello.id \in seen'
    BY <2>2 DEF Known
  <2>4. Foreign(d) /\ conn[d].stage = "dispatch" => \A g \in sent' : g.id # conn[d].hello.id
    BY <1>1, <2>2, Zenon DEF Held
  <2> QED BY <2>1, <2>3, <2>4, OthersKept
<1>8. Held(c)' /\ Known(c)' /\ Cut(c)'
  <2>1. h.id # <<c, "token">>
    BY <1>1
  <2>2. h.id[2] = "own" => h.id[1] # c /\ conn'[h.id[1]].stage \in OwnSender
    BY <1>1, <1>3 DEF Travels
  <2>3. h.id[1] # c /\ h.id[2] # "own" => conn'[h.id[1]].stage \in Sender /\ h.id \in seen'
    BY <1>3 DEF Travels
  <2>4. Foreign(c)' <=> h.id[1] # c /\ h.id[2] # "own"
    BY <1>1, <1>2 DEF Foreign
  <2>5. Held(c)'
    BY <1>1, <1>5, <2>1, <2>2, <2>3, <2>4, Zenon DEF Held
  <2>6. Known(c)'
    BY <1>1, <2>3, <2>4 DEF Known, Needs, Minted
  <2>7. Cut(c)'
    BY <1>1 DEF Cut, Upstream
  <2> QED BY <2>5, <2>6, <2>7
<1> QED BY <1>4, <1>6, <1>7, <1>8, LoopParts

LEMMA LoopReadHead ==
    ASSUME Base, LoopInv, GoesOn, NEW c \in Conns, NEW h \in Hellos,
           NEW stage \in {"select", "closing"}, NEW route,
           HeadRead(c, h, stage, route), ReadEffect(c, h, stage, route),
           \A d \in Conns : d # c => conn'[d] = conn[d]
    PROVE  LoopInv'
<1>1. /\ conn[c].stage \in {"read", "head"} /\ sent' = sent \ {h} /\ seen \ {h.id} \subseteq seen'
      /\ h.id = <<c, "client">> \/ (h \in sent /\ h.id[2] = "token")
      /\ conn'[c].stage = stage /\ conn'[c].hello = h
      /\ stage = "select" => h.id \notin seen
  BY DEF HeadRead, ReadEffect
<1>2. h.id[1] \in Conns
  BY Ids
<1>3. h.id # <<c, "client">> =>
        h \in sent /\ h.id[2] = "token" /\ h.id[1] # c /\ h.id \in seen /\ conn'[h.id[1]].stage \in Sender
  <2>1. ASSUME h \in sent, h.id[2] = "token"
        PROVE  h.id \in seen /\ conn[h.id[1]].stage \in Sender /\ conn'[h.id[1]].stage \in Sender
    BY <1>2, <2>1 DEF LoopInv, SentInv, Travels, GoesOn
  <2>2. conn[c].stage \notin Sender
    BY <1>1 DEF Sender
  <2> QED BY <1>1, <2>1, <2>2
<1>4. /\ \A g \in sent : g # h /\ g.id[2] # "own" => g.id # h.id
      /\ \A d \in Conns : d # c /\ Needs(d) => conn[d].hello.id # h.id
  <2>1. CASE h.id = <<c, "client">>
    <3>1. conn[c].stage \notin Sender
      BY <1>1 DEF Sender
    <3> QED BY <2>1, <3>1, LookedUpIsFree, Zenon
  <2>2. CASE h \in sent /\ h.id[2] = "token"
    BY <2>2, TravellingIsFree
  <2> QED BY <1>1, <2>1, <2>2, Zenon
<1>5. SentInv'
  <2>1. ASSUME NEW g \in sent, g # h PROVE Travels(g)'
    <3>1. Travels(g)
      BY DEF LoopInv, SentInv
    <3>2. g.id[2] # "own" => g.id \in seen'
      BY <1>1, <1>4, <2>1, <3>1 DEF Travels
    <3> QED BY <3>1, <3>2, TravelsKept
  <2> QED BY <1>1, <2>1 DEF SentInv
<1>6. UniqueInv'
  <2>1. \A g, k \in sent' : g.id = k.id /\ g.id[2] # "own" => g = k
    BY <1>1 DEF LoopInv, UniqueInv
  <2> QED BY <1>1, <2>1, UniqueKept
<1>7. ASSUME NEW d \in Conns, d # c PROVE Held(d)' /\ Known(d)' /\ Cut(d)'
  <2>1. SameTask(d)
    BY <1>7 DEF SameTask
  <2>2. Held(d) /\ Known(d)
    BY DEF LoopInv, HeldInv, KnownInv
  <2>3. Needs(d) => conn[d].hello.id \in seen'
    BY <1>1, <1>4, <1>7, <2>2, Zenon DEF Known
  <2>4. Foreign(d) /\ conn[d].stage = "dispatch" => \A g \in sent' : g.id # conn[d].hello.id
    BY <1>1, <2>2, Zenon DEF Held
  <2> QED BY <2>1, <2>3, <2>4, OthersKept
<1>8. Held(c)' /\ Known(c)' /\ Cut(c)'
  <2>1. h.id[2] # "own" /\ (h.id[1] = c => h.id = <<c, "client">>)
    BY <1>1, <1>3
  <2>2. Foreign(c)' => h.id # <<c, "client">> /\ h.id[1] # c
    BY <1>1 DEF Foreign
  <2>3. Held(c)'
    <3>1. h.id # <<c, "token">>
      BY <2>1
    <3>2. Foreign(c)' => conn'[h.id[1]].stage \in Sender
      BY <1>3, <2>2
    <3>3. conn'[c].stage # "dispatch"
      BY <1>1
    <3> QED BY <1>1, <2>1, <3>1, <3>2, <3>3 DEF Held
  <2>4. Known(c)'
    BY <1>1 DEF Known, Needs, Minted
  <2>5. Cut(c)'
    BY <1>1, <1>3, <2>2 DEF Cut, Upstream
  <2> QED BY <2>3, <2>4, <2>5
<1> QED BY <1>5, <1>6, <1>7, <1>8, LoopParts

\* The handlers stay where they are; one of what is on its way is lost.
LEMMA LoopForget ==
    ASSUME Base, LoopInv, NEW h \in sent, sent' = sent \ {h}, seen' = seen \ {h.id}, conn' = conn
    PROVE  LoopInv'
<1>1. GoesOn
  BY DEF GoesOn
<1>2. ASSUME NEW g \in sent, g # h PROVE Travels(g)'
  <2>1. Travels(g)
    BY DEF LoopInv, SentInv
  <2>2. g.id[2] # "own" => g.id \in seen'
    BY <1>2, <2>1, TravellingIsFree DEF Travels
  <2> QED BY <1>1, <2>1, <2>2, TravelsKept
<1>3. UniqueInv'
  <2>1. \A g, k \in sent' : g.id = k.id /\ g.id[2] # "own" => g = k
    BY DEF LoopInv, UniqueInv
  <2> QED BY <2>1, UniqueKept
<1>4. ASSUME NEW d \in Conns PROVE Held(d)' /\ Known(d)' /\ Cut(d)'
  <2>1. SameTask(d)
    BY DEF SameTask
  <2>2. Held(d) /\ Known(d)
    BY DEF LoopInv, HeldInv, KnownInv
  <2>3. Needs(d) => conn[d].hello.id \in seen'
    <3>1. Needs(d) => conn[d].hello.id # h.id
      <4>1. CASE h.id[2] = "own"
        BY <4>1, NeedsShape
      <4>2. CASE h.id[2] # "own"
        BY <4>2, TravellingIsFree
      <4> QED BY <4>1, <4>2
    <3> QED BY <2>2, <3>1 DEF Known
  <2>4. Foreign(d) /\ conn[d].stage = "dispatch" => \A g \in sent' : g.id # conn[d].hello.id
    BY <2>2, Zenon DEF Held
  <2> QED BY <1>1, <2>1, <2>3, <2>4, OthersKept
<1>5. SentInv'
  BY <1>2 DEF SentInv
<1> QED BY <1>3, <1>4, <1>5, LoopParts

\* A handler that mints a token, or only goes on, or sends; the others need
\* nothing of what it changes.
LEMMA LoopOwnStep ==
    ASSUME Base, LoopInv, GoesOn, NEW c \in Conns, seen \subseteq seen',
           \A d \in Conns : d # c => conn'[d] = conn[d],
           conn'[c].stage # "dispatch",
           \A h \in sent' : h \in sent \/ (h.id[2] = "own" /\ Travels(h)')
                               \/ (h.id[1] = c /\ conn[c].stage \notin Sender /\ Travels(h)'),
           \A g, h \in sent' \ sent : g = h,
           Held(c)' /\ Known(c)' /\ Cut(c)'
    PROVE  LoopInv'
<1>1. SentInv'
  <2>1. ASSUME NEW h \in sent PROVE Travels(h)'
    BY TravelsKept, Zenon DEF LoopInv, SentInv, Travels
  <2> QED BY <2>1, Zenon DEF SentInv
<1>2. UniqueInv'
  <2>1. ASSUME NEW g \in sent, NEW h \in sent', h \notin sent, g.id = h.id, g.id[2] # "own" PROVE FALSE
    <3>1. h.id[1] = c /\ conn[c].stage \notin Sender
      BY <2>1
    <3>2. conn[g.id[1]].stage \in Sender
      BY <2>1 DEF LoopInv, SentInv, Travels
    <3> QED BY <2>1, <3>1, <3>2
  <2>2. ASSUME NEW g \in sent', NEW h \in sent', g.id = h.id, g.id[2] # "own" PROVE g = h
    <3>1. CASE g \in sent /\ h \in sent
      BY <2>2, <3>1 DEF LoopInv, UniqueInv
    <3>2. CASE g \notin sent /\ h \notin sent
      BY <2>2, <3>2
    <3> QED BY <2>1, <2>2, <3>1, <3>2
  <2>3. \A d \in Conns : conn'[d].stage = "dispatch" => conn'[d].hello = conn[d].hello /\ conn[d].stage = "dispatch"
    OBVIOUS
  <2> QED BY <2>2, <2>3, UniqueKept
<1>3. ASSUME NEW d \in Conns, d # c PROVE Held(d)' /\ Known(d)' /\ Cut(d)'
  <2>1. SameTask(d)
    BY <1>3, Zenon DEF SameTask
  <2>2. Held(d) /\ Known(d)
    BY DEF LoopInv, HeldInv, KnownInv
  <2>3. Needs(d) => conn[d].hello.id \in seen'
    BY <2>2, Zenon DEF Known
  <2>4. ASSUME Foreign(d), conn[d].stage = "dispatch", NEW h \in sent', h.id = conn[d].hello.id PROVE FALSE
    <3>1. h \notin sent
      BY <2>2, <2>4, Zenon DEF Held
    <3>2. h.id[1] = c /\ conn[c].stage \notin Sender
      BY <2>4, <3>1 DEF Foreign
    <3>3. conn[conn[d].hello.id[1]].stage \in Sender
      BY <2>2, <2>4, Zenon DEF Held
    <3> QED BY <2>4, <3>2, <3>3
  <2> QED BY <2>1, <2>3, <2>4, OthersKept, Zenon
<1> QED BY <1>1, <1>2, <1>3, LoopParts

\* The identifier stays the same, the handler goes on.
LEMMA LoopGoesOn ==
    ASSUME Base, LoopInv, GoesOn, NEW c \in Conns, seen \subseteq seen', sent' = sent,
           \A d \in Conns : d # c => conn'[d] = conn[d],
           conn'[c].hello = conn[c].hello, conn'[c].stage # "dispatch",
           conn[c].stage \in {"upstream", "observe", "write"} => conn'[c].stage \in {"upstream", "observe", "write"} \cup Sender,
           conn'[c].stage \in Upstream => conn[c].stage \in Upstream \/ ~Foreign(c),
           Known(c)'
    PROVE  LoopInv'
<1>1. Held(c) /\ Cut(c)
  BY CutIsLoops DEF LoopInv, HeldInv
<1>2. Held(c)' /\ Cut(c)'
  BY <1>1, HeldKept, Zenon
<1> QED BY <1>2, LoopOwnStep, Zenon

LEMMA LoopBeginOrFinish ==
    ASSUME Base, LoopInv, GoesOn, NEW c \in Conns, seen' = seen, sent' = sent,
           \A d \in Conns : d # c => conn'[d] = conn[d],
           BeginEffect(c) \/ Finishes(c)
    PROVE  LoopInv'
<1>1. CASE BeginEffect(c)
  <2>1. /\ conn[c].stage = "spawned" /\ conn[c].hello = None /\ conn'[c].hello = conn[c].hello
        /\ \/ conn'[c].stage = "select"
           \/ conn'[c].stage = "read"
    BY <1>1, Zenon DEF BeginEffect, Entered, Base, TaskInv, Equipped
  <2>2. ~Foreign(c) /\ ~Foreign(c)'
    BY <2>1 DEF Foreign
  <2>3. Known(c)'
    BY <2>1, <2>2, Zenon DEF Known, Needs, Minted
  <2> QED BY <2>1, <2>2, <2>3, LoopGoesOn, Zenon
<1>2. CASE Finishes(c)
  <2>1. conn'[c].stage \in {"closing", "ended"} /\ conn'[c].hello = conn[c].hello
    BY <1>2, Zenon DEF Finishes, Entered
  <2>2. Known(c)'
    BY <2>1, Zenon DEF Known, Needs, Minted
  <2>3. conn'[c].stage \in Sender /\ conn'[c].stage \notin Upstream
    BY <2>1 DEF Sender, Upstream
  <2> QED BY <2>1, <2>2, <2>3, LoopGoesOn
<1> QED BY <1>1, <1>2

LEMMA LoopMint ==
    ASSUME Base, LoopInv, GoesOn, NEW c \in Conns, MintToken(c), MintEffect(c),
           \A d \in Conns : d # c => conn'[d] = conn[d]
    PROVE  LoopInv'
<1>1. conn[c].route \in Http /\ conn[c].hello \in Hellos
  BY DEF MintEffect, Base, TaskInv, Equipped, TypeInv, Task, Http, Relayed
<1>2. /\ conn'[c].hello.id = <<c, "token">> /\ conn'[c].route = conn[c].route
      /\ conn'[c].stage \in {"upstream", "write"}
  BY <1>1 DEF MintEffect, Hellos, AfterMint, AfterTls
<1>3. sent' = sent /\ seen \subseteq seen' /\ <<c, "token">> \in seen'
  BY DEF MintToken
<1>4. Held(c)'
  BY <1>2 DEF Held, Foreign
<1>5. Known(c)'
  BY <1>2, <1>3 DEF Known
<1>6. Cut(c)'
  BY <1>2 DEF Cut, Foreign
<1> QED BY <1>2, <1>3, <1>4, <1>5, <1>6, LoopOwnStep

LEMMA LoopAdvances ==
    ASSUME Base, LoopInv, GoesOn, NEW c \in Conns, Advances(c),
           \A d \in Conns : d # c => conn'[d] = conn[d],
           \/ Select(c) \/ Handshake(c) \/ Connect(c) \/ WriteOwnHello(c) \/ ObserveOwnHello(c)
           \/ WriteHello(c)
    PROVE  LoopInv'
<1>1. /\ conn'[c].hello = conn[c].hello /\ conn'[c].route = conn[c].route
      /\ conn'[c].stage # "dispatch" /\ conn[c].stage \in Upstream
      /\ conn[c].stage \in {"upstream", "observe", "write"} =>
            conn'[c].stage \in {"upstream", "observe", "write"} \cup Sender
  BY DEF Advances, Entered, AfterConnect, AfterMint, AfterTls, Upstream, Sender
<1>2. Held(c) /\ Known(c) /\ Cut(c)
  BY CutIsLoops DEF LoopInv, HeldInv, KnownInv
<1>3. Held(c)' /\ Cut(c)'
  BY <1>1, <1>2, HeldKept, Zenon
<1>4. CASE Select(c)
  <2>1. /\ conn'[c].stage = (IF conn[c].route = "terminate" THEN "handshake" ELSE "connect")
        /\ seen \subseteq seen' /\ sent' = sent
        /\ conn[c].route = "passthrough" => conn[c].hello.id \in seen'
    BY <1>4, Zenon DEF Select, Advances, Entered
  <2>2. Known(c)'
    BY <1>1, <2>1, Zenon DEF Known, Needs, Minted
  <2> QED BY <1>1, <2>1, <2>2, LoopGoesOn, Zenon
<1>5. CASE Handshake(c)
  <2>1. /\ conn[c].route \in {"terminate", "reverse"} /\ conn'[c].stage \in {"head", "connect"}
        /\ seen' = seen /\ sent' = sent
    BY <1>5, Zenon DEF Handshake, Advances, Entered, Base, TaskInv, Equipped
  <2>2. Known(c)'
    BY <1>1, <2>1, Zenon DEF Known, Needs, Minted
  <2> QED BY <1>1, <2>1, <2>2, LoopGoesOn, Zenon
<1>6. CASE Connect(c)
  <2>1. /\ conn[c].stage = "connect" /\ seen' = seen /\ sent' = sent
        /\ conn[c].route \in Http => conn'[c].stage = "mint"
    BY <1>6 DEF Connect, Advances, Entered, AfterConnect, Http
  <2>2. Known(c)'
    BY <1>1, <1>2, <2>1, Zenon DEF Known, Needs, Minted
  <2> QED BY <1>1, <2>1, <2>2, LoopGoesOn, Zenon
<1>7. CASE WriteOwnHello(c)
  <2>1. conn[c].stage = "upstream" /\ conn'[c].stage = "observe" /\ seen' = seen
    BY <1>7, Zenon DEF WriteOwnHello, Advances, Entered
  <2>2. PICK h : sent' = sent \cup {h} /\ h.id = <<c, "own">>
    <3>1. PICK n : sent' = sent \cup {[name |-> n, acme |-> FALSE, id |-> <<c, "own">>]}
      BY <1>7, Zenon DEF WriteOwnHello
    <3>2. [name |-> n, acme |-> FALSE, id |-> <<c, "own">>].id = <<c, "own">>
      OBVIOUS
    <3> QED BY <3>1, <3>2, Zenon
  <2>3. Known(c)'
    BY <1>1, <1>2, <2>1, Zenon DEF Known, Needs, Minted
  <2>4. h.id[2] = "own" /\ Travels(h)'
    BY <2>1, <2>2 DEF Travels, OwnSender
  <2> QED BY <1>1, <1>3, <2>1, <2>2, <2>3, <2>4, LoopOwnStep, Zenon
<1>8. CASE ObserveOwnHello(c)
  <2>1. /\ conn[c].stage = "observe" /\ seen \subseteq seen' /\ sent' = sent
        /\ conn'[c].stage = IF conn[c].route \in Http THEN "write" ELSE "relay"
    BY <1>8, Zenon DEF ObserveOwnHello, Advances, Entered, AfterTls
  <2>2. Known(c)'
    <3>1. CASE conn[c].route \in Http
      BY <1>1, <1>2, <2>1, <3>1, Zenon DEF Known, Needs, Minted, Http
    <3>2. CASE conn[c].route \notin Http
      BY <1>1, <2>1, <3>2, Zenon DEF Known, Needs, Minted
    <3> QED BY <3>1, <3>2, Zenon
  <2> QED BY <1>1, <2>1, <2>2, LoopGoesOn, Zenon
<1>9. CASE WriteHello(c)
  <2>1. /\ conn[c].stage = "write" /\ conn'[c].stage = "relay" /\ seen' = seen
        /\ sent' = sent \cup {conn[c].hello} /\ conn[c].stage \notin Sender
        /\ conn[c].route \in Http \cup {"passthrough"} /\ conn[c].hello # None
    BY <1>9, Zenon DEF WriteHello, Advances, Entered, Sender, Base, TaskInv, Equipped, Http, Relayed
  <2>2. Known(c)'
    BY <2>1 DEF Known, Needs, Minted
  <2>3. \/ conn[c].hello.id[2] = "own" /\ Travels(conn[c].hello)'
        \/ conn[c].hello.id[1] = c /\ conn[c].stage \notin Sender /\ Travels(conn[c].hello)'
    <3>1. CASE conn[c].hello.id[2] = "own"
      <4>1. conn'[conn[c].hello.id[1]].stage \in OwnSender
        BY <1>1, <1>3, <2>1, <3>1, Zenon DEF Held
      <4> QED BY <1>1, <3>1, <4>1, Zenon DEF Travels
    <3>2. CASE conn[c].hello.id[2] # "own"
      <4>1. conn[c].hello.id[1] = c
        BY <1>1, <1>2, <2>1, <3>2, Zenon DEF Cut, Foreign
      <4>2. conn[c].hello.id \in seen'
        BY <1>2, <2>1, <3>2, Zenon DEF Known, Needs, Minted
      <4>3. conn'[c].stage \in Sender
        BY <2>1 DEF Sender
      <4> QED BY <1>1, <2>1, <3>2, <4>1, <4>2, <4>3, Zenon DEF Travels
    <3> QED BY <3>1, <3>2, Zenon
  <2> QED BY <1>1, <1>3, <2>1, <2>2, <2>3, LoopOwnStep, Zenon
<1> QED BY <1>4, <1>5, <1>6, <1>7, <1>8, <1>9

LEMMA LoopStep == Base /\ LoopInv /\ [Next]_vars => LoopInv'
<1> SUFFICES ASSUME Base, LoopInv, [Next]_vars PROVE LoopInv'
  OBVIOUS
<1>1. ASSUME NEW c \in Conns, HandlerStep(c) PROVE LoopInv'
  <2>1. GoesOn /\ \A d \in Conns : d # c => conn'[d] = conn[d]
    BY <1>1, HandlerGoesOn, HandlerFrame, Zenon DEF Base
  <2>2. CASE (Begin(c) /\ BeginEffect(c)) \/ ((Serve(c) \/ ConnectRefused(c) \/ Leaves(c) \/ Close(c)
                 \/ Cancel(c)) /\ Finishes(c))
    <3>1. seen' = seen /\ sent' = sent
      BY <2>2 DEF Begin, Serve, ConnectRefused, Leaves, Close, Cancel
    <3> QED BY <2>1, <2>2, <3>1, LoopBeginOrFinish
  <2>3. CASE ReadHello(c) /\ \E h \in Hellos, stage \in {"serve", "closing", "dispatch"}, route \in TlsRoutes :
               HelloRead(c, h, stage, route) /\ ReadEffect(c, h, stage, route)
    <3>1. seen' = seen
      BY <2>3, Zenon DEF ReadHello
    <3>2. PICK h \in Hellos, stage \in {"serve", "closing", "dispatch"}, route \in TlsRoutes :
               HelloRead(c, h, stage, route) /\ ReadEffect(c, h, stage, route)
      BY <2>3
    <3> QED BY <2>1, <3>1, <3>2, LoopReadHello
  <2>4. CASE ReadHead(c) /\ \E h \in Hellos, stage \in {"select", "closing"}, route \in HttpRoutes :
               HeadRead(c, h, stage, route) /\ ReadEffect(c, h, stage, route)
    BY <2>1, <2>4, LoopReadHead
  <2>5. CASE Dispatch(c) /\ DispatchEffect(c)
    BY <2>1, <2>5, LoopDispatch
  <2>6. CASE MintToken(c) /\ MintEffect(c)
    BY <2>1, <2>6, LoopMint
  <2>7. CASE (Select(c) \/ Handshake(c) \/ Connect(c) \/ WriteOwnHello(c) \/ ObserveOwnHello(c)
                 \/ WriteHello(c)) /\ Advances(c)
    BY <2>1, <2>7, LoopAdvances
  <2> QED BY <1>1, <2>2, <2>3, <2>4, <2>5, <2>6, <2>7, HandlerEffect, Zenon DEF Base
<1>2. ASSUME \A d \in Conns : SameTask(d), seen' = seen, sent' = sent PROVE LoopInv'
  <2>1. GoesOn
    BY <1>2 DEF GoesOn, SameTask
  <2>2. SentInv'
    <3>1. ASSUME NEW h \in sent PROVE Travels(h)'
      BY <1>2, <2>1, TravelsKept DEF LoopInv, SentInv, Travels
    <3> QED BY <1>2, <3>1 DEF SentInv
  <2>3. UniqueInv'
    <3>1. \A d \in Conns : conn'[d].hello = conn[d].hello /\ conn'[d].stage = conn[d].stage
      BY <1>2 DEF SameTask
    <3>2. \A g, h \in sent' : g.id = h.id /\ g.id[2] # "own" => g = h
      BY <1>2 DEF LoopInv, UniqueInv
    <3> QED BY <3>1, <3>2, UniqueKept
  <2>4. ASSUME NEW d \in Conns PROVE Held(d)' /\ Known(d)' /\ Cut(d)'
    <3>1. Held(d) /\ Known(d)
      BY DEF LoopInv, HeldInv, KnownInv
    <3>2. Needs(d) => conn[d].hello.id \in seen'
      BY <1>2, <3>1 DEF Known
    <3>3. Foreign(d) /\ conn[d].stage = "dispatch" => \A h \in sent' : h.id # conn[d].hello.id
      BY <1>2, <3>1, Zenon DEF Held
    <3> QED BY <1>2, <2>1, <3>2, <3>3, OthersKept
  <2> QED BY <2>2, <2>3, <2>4, LoopParts
<1>3. ASSUME NEW l \in Listeners, NEW c \in Conns, conn[c].stage = "idle",
             conn' = [conn EXCEPT ![c] = Spawned(l)], UNCHANGED <<seen, sent>>
      PROVE  LoopInv'
  <2>1. /\ conn'[c].stage = "spawned" /\ conn'[c].hello = None
        /\ \A d \in Conns : d # c => conn'[d] = conn[d]
    BY <1>3, SpawnedTyped, Zenon DEF Base, TypeInv
  <2>2. conn[c].hello = None
    BY <1>3 DEF Base, TaskInv, Equipped
  <2>3. GoesOn
    BY <1>3, <2>1 DEF GoesOn, Sender, OwnSender
  <2>4. Known(c)' /\ ~Foreign(c)
    BY <2>1, <2>2 DEF Known, Needs, Minted, Foreign
  <2> QED BY <1>3, <2>1, <2>2, <2>3, <2>4, LoopGoesOn
<1>4. ASSUME WorldStep PROVE LoopInv'
  <2>1. CASE \E h \in sent : Forget(h)
    <3>1. PICK h \in sent : Forget(h)
      BY <2>1
    <3>2. sent' = sent \ {h} /\ seen' = seen \ {h.id} /\ conn' = conn
      BY <3>1 DEF Forget, Consumed
    <3> QED BY <3>2, LoopForget
  <2>2. CASE ~\E h \in sent : Forget(h)
    <3>1. UNCHANGED <<seen, sent>>
      BY <1>4, <2>2, Zenon DEF WorldStep, ListenerNext, RuntimeNext, Accept, RequestRestart, Restart,
             Rebind, AcceptFails, Stop, Flush, Flushed, Bind, HotApply, Revise, Write, Challenge, vars
    <3> QED BY <1>2, <1>3, <1>4, <3>1, WorldOfConns DEF Base
  <2> QED BY <2>1, <2>2
<1> QED BY <1>1, <1>4, Steps

\* What must stay in the proxy is never sent on, for any number of connections and
\* however their steps, the challenges, reloads and lost packets interleave: the
\* names it answers itself (classify, dispatch_non_control) and the hellos and
\* tokens it sent itself (is_looped, mint_request_token).
THEOREM NothingIsForwarded == Spec => []NeverForwarded
<1>1. Init => Base /\ ReservedInv /\ LoopInv
  <2> SUFFICES ASSUME Init PROVE Base /\ ReservedInv /\ LoopInv
    OBVIOUS
  <2>1. Base
    BY TypesInit DEF Base
  <2>2. /\ \A c \in Conns : conn[c].stage = "idle" /\ conn[c].hello = None
        /\ sent = {}
    BY Zenon DEF Init, Idle
  <2>3. ReservedInv
    BY <2>2 DEF ReservedInv
  <2>4. \A c \in Conns : ~Foreign(c) /\ Held(c) /\ Known(c)
    BY <2>2, Zenon DEF Foreign, Held, Known, Needs, Minted
  <2>5. LoopInv
    BY <2>2, <2>4 DEF LoopInv, SentInv, HeldInv, UniqueInv, KnownInv, LoopsAreCut
  <2> QED BY <2>1, <2>3, <2>5
<1>2. Base /\ ReservedInv /\ LoopInv /\ [Next]_vars => (Base /\ ReservedInv /\ LoopInv)'
  BY BaseStep, ReservedStep, LoopStep
<1>3. Base /\ ReservedInv /\ LoopInv => NeverForwarded
  <2> SUFFICES ASSUME Base, ReservedInv, LoopInv PROVE NeverForwarded
    OBVIOUS
  <2>1. ReservedStaysHere
    BY DEF ReservedInv, ReservedStaysHere, Live, Guarded
  <2> QED BY <2>1 DEF LoopInv, NeverForwarded
<1> QED BY <1>1, <1>2, <1>3, PTL DEF Spec
=============================================================================
