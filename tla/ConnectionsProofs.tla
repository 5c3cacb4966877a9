------------------------- MODULE ConnectionsProofs -------------------------
(***************************************************************************)
(* Proofs about Connections, for any number of connections, listeners,     *)
(* rounds and configurations: the types, what a step does to a task, and   *)
(* that what the guards register is exact.                                 *)
(***************************************************************************)
EXTENDS Connections, FiniteSetTheorems, TLAPS

Task == [stage: Stages, listener: Listeners \cup {None}, round: Nat, revision: Nat,
         config: Configs \cup {None}, hello: Hellos \cup {None}, route: Routes \cup {None},
         cancelled: BOOLEAN, reached: BOOLEAN, due: BOOLEAN]

Listening == [state: {"accepting", "rebinding", "down"}, round: 1..MaxRounds, requests: Nat]

Running == [phase: {"running", "stopping", "flushing", "stopped", "binding"},
            exit: BOOLEAN, revision: Nat]

\* The variables the theorems are about have their types.
TypeInv ==
    /\ scenario \in Scenarios /\ live \in Configs
    /\ conn \in [Conns -> Task]
    /\ tracker \in [Conns -> Entries \cup {None}]
    /\ count \in [Listeners -> [1..MaxRounds -> Int]]
    /\ listener \in [Listeners -> Listening]
    /\ runtime \in Running
    /\ seen \subseteq Identifiers /\ sent \subseteq Hellos

\* A restart or a reload still has a round to go to.
RoundInv ==
    /\ \A l \in Listeners :
          /\ listener[l].state = "accepting" => listener[l].requests + listener[l].round <= MaxRounds
          /\ listener[l].state = "rebinding" => listener[l].requests + listener[l].round < MaxRounds
          /\ runtime.phase # "running" =>
                listener[l].state = "down" /\ (~runtime.exit => listener[l].round < MaxRounds)
    /\ runtime.phase = "binding" => ~runtime.exit

\* What a handler has by the time it is at a stage.
Equipped(t) ==
    /\ t.stage \in {"idle", "spawned"} => t.hello = None /\ t.route = None
    /\ t.stage = "dispatch" => t.hello # None
    /\ t.stage \in Upstream => t.route \in Relayed
    /\ t.route \in Relayed \ {"forward"} => t.hello # None
    /\ t.stage \in {"mint", "write"} => t.route # "forward"
    /\ t.stage = "mint" => t.route \in Http
    /\ t.stage = "write" => t.route \in Http \cup {"passthrough"}
    /\ t.stage = "head" => t.route = "reverse"
    /\ t.stage = "handshake" => t.route \in {"terminate", "reverse"}

TaskInv ==
    \A c \in Conns :
        /\ conn[c].stage # "idle" =>
              /\ conn[c].listener \in Listeners /\ conn[c].round \in 1..MaxRounds
              /\ conn[c].config \in Configs /\ conn[c].revision <= runtime.revision
        /\ Equipped(conn[c])

-----------------------------------------------------------------------------
(* Types. *)

\* The steps of the handler c.
HandlerStep(c) == Hastens(c) \/ Serve(c) \/ Leaves(c) \/ Cancel(c)

LEMMA MustRecordIsBoolean == \A c : MustRecord(c) \in BOOLEAN
BY DEF MustRecord

LEMMA RoutesTyped ==
    ASSUME TypeInv, NEW c \in Conns, NEW h \in Hellos,
           conn[c].listener \in Listeners, conn[c].config \in Configs
    PROVE  LET l == conn[c].listener
               g == conn[c].config IN
           /\ kind[l] \in Tls =>
                 /\ g.routes[kind[l]][h.name] \in {"passthrough", "terminate", "reverse", "reject", "denied"}
                 /\ Decide(l, h, g) \in {"passthrough", "terminate", "reverse", "reject", "denied",
                                         "acme", "control"}
                 /\ Decide(l, h, g) \in {"acme", "control"} \/ h.name # g.control
           /\ g.routes["http"][h.name] \in {"proxy", "redirect", "denied"}
<1>1. h.name \in Names
  BY DEF Hellos
<1>2. kind[conn[c].listener] \in Tls =>
        conn[c].config.routes[kind[conn[c].listener]][h.name] \in {"passthrough", "terminate", "reverse", "reject", "denied"}
  BY <1>1, ConfigsAssumption, Zenon
<1>3. conn[c].config.routes["http"][h.name] \in {"proxy", "redirect", "denied"}
  BY <1>1, ConfigsAssumption
<1> QED BY <1>2, <1>3, Zenon DEF Decide, Classify

LEMMA TypesOfRoutes ==
    /\ \A r \in {"passthrough", "terminate", "reverse", "reject", "denied", "acme", "control"} :
          TypeOf(r) \in {"tls_terminate", "tls_passthrough"}
    /\ \A k \in {"http", "forward"} : Fallback(k) \in {"http_passthrough", "port_forward"}
BY DEF TypeOf, Fallback, Tls

LEMMA ArrivingTyped ==
    ASSUME TypeInv, NEW c \in Conns, NEW tags, NEW h \in Arriving(c, tags)
    PROVE  /\ h \in Hellos
           /\ h.id = <<c, "client">> \/ (h \in sent /\ h.id[2] \in tags)
BY DEF TypeInv, Arriving

TlsRoutes == {"passthrough", "terminate", "reverse", "reject", "denied", "acme", "control"}

\* The name and the type of the route in the tracker.
Described(c, name, type) ==
    [tracker EXCEPT ![c] = [tracker[c] EXCEPT !.sni = name, !.type = type]]

\* What ReadHello does, for some hello.
HelloRead(c, h, stage, route) ==
    /\ conn[c].stage = "read" /\ kind[conn[c].listener] \in Tls
    /\ h.id = <<c, "client">> \/ (h \in sent /\ h.id[2] \in {"client", "own"})
    /\ conn' = [conn EXCEPT ![c].stage = stage, ![c].hello = h, ![c].route = route]
    /\ kind[conn[c].listener] = "default" /\ stage = "dispatch" =>
          route = "acme" \/ h.name # conn[c].config.control
    /\ \/ tracker' = tracker
       \/ /\ tracker[c] # None
          /\ \E name \in {h.name, tracker[c].sni}, type \in {"tls_terminate", "tls_passthrough"} :
                tracker' = Described(c, name, type)
    /\ sent' = sent \ {h}

LEMMA ReadHelloStep ==
    ASSUME TypeInv, TaskInv, NEW c \in Conns, ReadHello(c)
    PROVE  \E h \in Hellos, stage \in {"serve", "closing", "dispatch"}, route \in TlsRoutes :
               HelloRead(c, h, stage, route)
<1> DEFINE l == conn[c].listener
           Route(h) == IF kind[l] = "default" THEN Decide(l, h, conn[c].config)
                       ELSE conn[c].config.routes[kind[l]][h.name]
           Stage(h) == IF Route(h) = "control" THEN "serve"
                       ELSE IF kind[l] = "tls" /\ Route(h) = "denied" THEN "closing"
                       ELSE "dispatch"
<1>1. PICK h \in Arriving(c, {"client", "own"}) :
          /\ conn' = [conn EXCEPT ![c].stage = Stage(h), ![c].hello = h, ![c].route = Route(h)]
          /\ tracker' = [tracker EXCEPT ![c] =
                 IF @ = None \/ Stage(h) = "closing" THEN @
                 ELSE [@ EXCEPT !.sni = IF kind[l] = "default" THEN h.name ELSE tracker[c].sni,
                                !.type = TypeOf(Route(h))]]
          /\ sent' = sent \ {h}
  BY Zenon DEF ReadHello
<1>2. /\ h \in Hellos
      /\ h.id = <<c, "client">> \/ (h \in sent /\ h.id[2] \in {"client", "own"})
  BY ArrivingTyped
<1>3. conn[c].stage = "read" /\ l \in Listeners /\ conn[c].config \in Configs /\ kind[l] \in Tls
  BY Zenon DEF ReadHello, TaskInv
<1>4. /\ Route(h) \in TlsRoutes
      /\ kind[l] = "default" => Route(h) \in {"acme", "control"} \/ h.name # conn[c].config.control
  BY <1>2, <1>3, RoutesTyped, Zenon DEF TlsRoutes
<1>5. TypeOf(Route(h)) \in {"tls_terminate", "tls_passthrough"}
  BY <1>4, TypesOfRoutes, Zenon DEF TlsRoutes
<1> HIDE DEF Route
<1>6. Stage(h) \in {"serve", "closing", "dispatch"} /\ (Stage(h) = "dispatch" => Route(h) # "control")
  OBVIOUS
<1> HIDE DEF Stage
<1>7. \/ tracker' = tracker
      \/ /\ tracker[c] # None
         /\ tracker' = Described(c, IF kind[l] = "default" THEN h.name ELSE tracker[c].sni, TypeOf(Route(h)))
  <2>1. CASE tracker[c] = None \/ Stage(h) = "closing"
    BY <1>1, <2>1 DEF TypeInv
  <2>2. CASE tracker[c] # None /\ Stage(h) # "closing"
    BY <1>1, <2>2, Zenon DEF Described
  <2> QED BY <2>1, <2>2
<1>8. HelloRead(c, h, Stage(h), Route(h))
  BY <1>1, <1>2, <1>3, <1>4, <1>5, <1>6, <1>7 DEF HelloRead
<1> QED BY <1>2, <1>4, <1>6, <1>8

\* What ReadHead does, for some request.
HeadRead(c, h, stage, route) ==
    /\ conn[c].stage = "head" \/ (conn[c].stage = "read" /\ kind[conn[c].listener] = "http")
    /\ h.id = <<c, "client">> \/ (h \in sent /\ h.id[2] = "token")
    /\ conn' = [conn EXCEPT ![c].stage = stage, ![c].hello = h, ![c].route = route]
    /\ stage = "select" =>
          /\ route \in Http /\ h.id \notin seen
          /\ conn[c].stage = "head" => route = "reverse" /\ h.name = conn[c].hello.name
    /\ seen' = seen \/ seen' = seen \ {h.id}
    /\ tracker' = tracker \/ tracker' = Noted(c, "sni", h.name)
    /\ sent' = sent \ {h}

HttpRoutes == {"reverse", "proxy", "redirect", "denied"}

LEMMA ReadHeadStep ==
    ASSUME TypeInv, TaskInv, NEW c \in Conns, ReadHead(c)
    PROVE  \E h \in Hellos, stage \in {"select", "closing"}, route \in HttpRoutes :
               HeadRead(c, h, stage, route)
<1> DEFINE Route(h) == IF conn[c].stage = "head" THEN "reverse" ELSE conn[c].config.routes["http"][h.name]
           Admitted(h) == h.id \notin seen /\ (conn[c].stage = "head" => h.name = conn[c].hello.name)
           Stage(h) == IF Route(h) \in Relayed /\ Admitted(h) THEN "select" ELSE "closing"
<1>1. PICK h \in Arriving(c, {"token"}) :
          /\ conn' = [conn EXCEPT ![c].stage = Stage(h), ![c].hello = h, ![c].route = Route(h)]
          /\ seen' = IF Route(h) \in Relayed THEN seen \ {h.id} ELSE seen
          /\ tracker' = IF Route(h) \in Relayed /\ Admitted(h) THEN Noted(c, "sni", h.name) ELSE tracker
          /\ sent' = sent \ {h}
  BY Zenon DEF ReadHead, Looped, Consumed
<1>2. h \in Hellos /\ (h.id = <<c, "client">> \/ (h \in sent /\ h.id[2] = "token"))
  BY ArrivingTyped
<1>3. /\ conn[c].stage = "head" \/ (conn[c].stage = "read" /\ kind[conn[c].listener] = "http")
      /\ conn[c].listener \in Listeners /\ conn[c].config \in Configs
  BY Zenon DEF ReadHead, TaskInv
<1>4. /\ Route(h) \in HttpRoutes
      /\ conn[c].stage = "head" => Route(h) = "reverse"
  BY <1>2, <1>3, RoutesTyped, Zenon DEF HttpRoutes
<1> HIDE DEF Route
<1>5. /\ Stage(h) \in {"select", "closing"}
      /\ Stage(h) = "select" => Route(h) \in Http /\ Admitted(h)
  BY <1>4 DEF Http, Relayed, HttpRoutes
<1> HIDE DEF Stage
<1>6. HeadRead(c, h, Stage(h), Route(h))
  BY <1>1, <1>2, <1>3, <1>4, <1>5 DEF HeadRead
<1> QED BY <1>2, <1>4, <1>5, <1>6

LEMMA NotedTyped ==
    ASSUME TypeInv, NEW c \in Conns
    PROVE  /\ \A n \in Names : Noted(c, "sni", n) \in [Conns -> Entries \cup {None}]
           /\ Noted(c, "target", TRUE) \in [Conns -> Entries \cup {None}]
           /\ Noted(c, "status", "ok") \in [Conns -> Entries \cup {None}]
<1>1. \A e \in Entries, n \in Names :
          /\ [e EXCEPT !["sni"] = n] \in Entries /\ [e EXCEPT !["target"] = TRUE] \in Entries
          /\ [e EXCEPT !["status"] = "ok"] \in Entries
  BY Zenon DEF Entries
<1>2. \A e \in Entries : /\ [e EXCEPT !["target"] = TRUE] \in Entries
                         /\ [e EXCEPT !["status"] = "ok"] \in Entries
  BY Zenon DEF Entries
<1> QED BY <1>1, <1>2, Zenon DEF TypeInv, Noted

LEMMA TypesInit == Init => TypeInv /\ RoundInv /\ TaskInv
<1> SUFFICES ASSUME Init PROVE TypeInv /\ RoundInv /\ TaskInv
  OBVIOUS
<1>1. live \in Configs
  BY ConfigsAssumption DEF Init
<1>2. conn \in [Conns -> Task]
  BY DEF Init, Task, Idle, Stages
<1>3. listener \in [Listeners -> Listening] /\ runtime \in Running
  BY ListenersAssumption DEF Init, Listening, Running
<1>4. TypeInv
  BY <1>1, <1>2, <1>3 DEF Init, TypeInv
<1>5. RoundInv
  BY ListenersAssumption DEF Init, RoundInv
<1>6. TaskInv
  BY NoneAssumption DEF Init, TaskInv, Equipped, Idle, Upstream, Routes
<1> QED BY <1>4, <1>5, <1>6

\* The updates of a task that the handlers make.
LEMMA TaskGoes ==
    ASSUME NEW t \in Task, NEW s \in Stages
    PROVE  [t EXCEPT !.stage = s] \in Task
BY DEF Task

LEMMA TaskDrops ==
    ASSUME NEW t \in Task, NEW s \in Stages, NEW b \in BOOLEAN
    PROVE  /\ [t EXCEPT !.stage = s, !.due = b] \in Task
           /\ [t EXCEPT !.stage = s, !.reached = b] \in Task
BY Zenon DEF Task

SpawnAt(t, l, n, v, g) == [t EXCEPT !.stage = "spawned", !.listener = l, !.round = n,
                                    !.revision = v, !.config = g]

LEMMA TaskSpawns ==
    ASSUME NEW t \in Task, NEW l \in Listeners, NEW n \in Nat, NEW v \in Nat, NEW g \in Configs
    PROVE  /\ SpawnAt(t, l, n, v, g) \in Task
           /\ SpawnAt(t, l, n, v, g).stage = "spawned" /\ SpawnAt(t, l, n, v, g).listener = l
           /\ SpawnAt(t, l, n, v, g).round = n /\ SpawnAt(t, l, n, v, g).revision = v
           /\ SpawnAt(t, l, n, v, g).config = g
           /\ SpawnAt(t, l, n, v, g).hello = t.hello /\ SpawnAt(t, l, n, v, g).route = t.route
BY Zenon DEF Task, Stages, SpawnAt

LEMMA TaskForwards ==
    ASSUME NEW t \in Task
    PROVE  [t EXCEPT !.stage = "select", !.route = "forward"] \in Task
BY Zenon DEF Task, Stages, Guarded, Routes, Relayed

LEMMA TaskReads ==
    ASSUME NEW t \in Task, NEW s \in Stages, NEW h \in Hellos, NEW r \in Routes
    PROVE  [t EXCEPT !.stage = s, !.hello = h, !.route = r] \in Task
BY Zenon DEF Task

LEMMA TaskMints ==
    ASSUME NEW t \in Task, NEW s \in Stages, NEW h \in Hellos
    PROVE  [t EXCEPT !.stage = s, !.hello = h] \in Task
BY Zenon DEF Task

\* The active counts stay numbers.
LEMMA CountTyped ==
    ASSUME TypeInv, TaskInv, NEW c \in Conns, conn[c].stage # "idle", NEW n \in Int
    PROVE  Counted(c, n) \in [Listeners -> [1..MaxRounds -> Int]]
<1>1. conn[c].listener \in Listeners /\ conn[c].round \in 1..MaxRounds
  BY DEF TaskInv
<1>2. PICK l \in Listeners, r \in 1..MaxRounds : conn[c].listener = l /\ conn[c].round = r
  BY <1>1
<1>3. count[l] \in [1..MaxRounds -> Int] /\ count[l][r] \in Int
  BY Zenon DEF TypeInv
<1>4. [count[l] EXCEPT ![r] = @ + n] \in [1..MaxRounds -> Int]
  BY <1>3
<1> QED BY <1>2, <1>4 DEF TypeInv, Counted

\* What DropGuard does to the types.
LEMMA DropTyped ==
    ASSUME TypeInv, TaskInv, NEW c \in Conns, conn[c].stage # "idle", DropGuard(c)
    PROVE  /\ conn' \in [Conns -> Task]
           /\ tracker' \in [Conns -> Entries \cup {None}]
           /\ count' \in [Listeners -> [1..MaxRounds -> Int]]
           /\ \A d \in Conns : conn'[d] = [conn[d] EXCEPT !.stage = conn'[d].stage, !.due = conn'[d].due]
<1>1. conn' = [conn EXCEPT ![c].stage = "ended", ![c].due = MustRecord(c)]
  BY DEF DropGuard
<1>2. conn' \in [Conns -> Task]
  <2>1. [conn[c] EXCEPT !.stage = "ended", !.due = MustRecord(c)] \in Task
    BY TaskDrops, MustRecordIsBoolean, Zenon DEF TypeInv, Stages
  <2> QED BY <1>1, <2>1 DEF TypeInv
<1>3. tracker' \in [Conns -> Entries \cup {None}]
  BY DEF DropGuard, TypeInv
<1>4. count' \in [Listeners -> [1..MaxRounds -> Int]]
  BY CountTyped DEF DropGuard
<1>5. \A d \in Conns : conn'[d] = [conn[d] EXCEPT !.stage = conn'[d].stage, !.due = conn'[d].due]
  BY <1>1, Zenon DEF TypeInv, Task
<1> QED BY <1>2, <1>3, <1>4, <1>5, Zenon

LEMMA GoesTyped ==
    ASSUME TypeInv, NEW c \in Conns, NEW stage \in Stages, Goes(c, stage)
    PROVE  conn' \in [Conns -> Task]
<1>1. [conn[c] EXCEPT !.stage = stage] \in Task
  BY TaskGoes DEF TypeInv
<1> QED BY <1>1 DEF TypeInv, Goes

\* A step of a handler keeps the types.
LEMMA HandlerTypes ==
    ASSUME TypeInv, TaskInv, NEW c \in Conns, HandlerStep(c)
    PROVE  TypeInv'
<1> USE DEF TypeInv
<1>1. CASE Begin(c)
  <2>1. conn' \in [Conns -> Task]
    <3>1. CASE kind[conn[c].listener] = "forward"
      <4>1. [conn[c] EXCEPT !.stage = "select", !.route = "forward"] \in Task
        BY TaskForwards, Zenon
      <4> QED BY <1>1, <3>1, <4>1 DEF Begin
    <3>2. CASE kind[conn[c].listener] # "forward"
      <4>1. [conn[c] EXCEPT !.stage = "read"] \in Task
        BY TaskGoes, Zenon DEF Stages, Guarded
      <4>2. [conn[c] EXCEPT !.stage = "read", !.route = @] = [conn[c] EXCEPT !.stage = "read"]
        BY Zenon DEF Task
      <4> QED BY <1>1, <3>2, <4>1, <4>2 DEF Begin
    <3> QED BY <3>1, <3>2
  <2>2. conn[c].listener \in Listeners /\ conn[c].round \in 1..MaxRounds
    BY <1>1 DEF Begin, TaskInv
  <2>3. kind[conn[c].listener] \in Tls \cup {"http", "forward"}
    BY <2>2, ConfigsAssumption DEF kind
  <2>4. tracker' \in [Conns -> Entries \cup {None}]
    <3>1. tracker' = [tracker EXCEPT ![c] = IF kind[conn[c].listener] \in Tls THEN Entry(conn[c].listener)
                       ELSE [Entry(conn[c].listener) EXCEPT !.type = Fallback(kind[conn[c].listener])]]
      BY <1>1 DEF Begin
    <3>2. Entry(conn[c].listener) \in Entries
      BY <2>2 DEF Entry, Entries
    <3>3. kind[conn[c].listener] \notin Tls =>
             [Entry(conn[c].listener) EXCEPT !.type = Fallback(kind[conn[c].listener])] \in Entries
      BY <2>2, <2>3, TypesOfRoutes, Zenon DEF Entry, Entries
    <3> QED BY <3>1, <3>2, <3>3
  <2>5. count' \in [Listeners -> [1..MaxRounds -> Int]]
    BY <1>1, CountTyped DEF Begin
  <2> QED BY <1>1, <2>1, <2>4, <2>5 DEF Begin
<1>2. CASE ReadHello(c)
  <2>1. PICK h \in Hellos, stage \in {"serve", "closing", "dispatch"}, route \in TlsRoutes :
            HelloRead(c, h, stage, route)
    BY <1>2, ReadHelloStep
  <2>2. conn' \in [Conns -> Task]
    <3>1. [conn[c] EXCEPT !.stage = stage, !.hello = h, !.route = route] \in Task
      BY TaskReads, Zenon DEF Stages, Guarded, TlsRoutes, Routes, Relayed
    <3> QED BY <2>1, <3>1 DEF HelloRead
  <2>3. tracker' \in [Conns -> Entries \cup {None}]
    <3>1. CASE tracker[c] # None
      <4>1. \A type \in {"tls_terminate", "tls_passthrough"}, name \in {h.name, tracker[c].sni} :
                [tracker[c] EXCEPT !.sni = name, !.type = type] \in Entries
        BY <3>1, Zenon DEF Entries, Hellos
      <4> QED BY <2>1, <4>1 DEF HelloRead, Described
    <3>2. CASE tracker[c] = None
      BY <2>1, <3>2 DEF HelloRead
    <3> QED BY <3>1, <3>2
  <2> QED BY <1>2, <2>1, <2>2, <2>3, Zenon DEF ReadHello, HelloRead
<1>3. CASE Dispatch(c)
  <2>1. conn[c].hello \in Hellos /\ conn[c].hello.name \in Names
    BY <1>3 DEF Dispatch, TaskInv, Equipped, Task, Hellos
  <2>2. conn' \in [Conns -> Task]
    <3>1. \E stage \in Stages : Goes(c, stage)
      BY <1>3 DEF Dispatch, Stages, Guarded
    <3> QED BY <3>1, GoesTyped
  <2>3. tracker' \in [Conns -> Entries \cup {None}]
    BY <1>3, <2>1, NotedTyped, Zenon DEF Dispatch
  <2>4. seen' \subseteq Identifiers
    BY <1>3 DEF Dispatch, Consumed
  <2> QED BY <1>3, <2>2, <2>3, <2>4 DEF Dispatch
<1>4. CASE ReadHead(c)
  <2>1. PICK h \in Hellos, stage \in {"select", "closing"}, route \in HttpRoutes :
            HeadRead(c, h, stage, route)
    BY <1>4, ReadHeadStep
  <2>2. conn' \in [Conns -> Task]
    <3>1. [conn[c] EXCEPT !.stage = stage, !.hello = h, !.route = route] \in Task
      BY TaskReads, Zenon DEF Stages, Guarded, HttpRoutes, Routes, Relayed
    <3> QED BY <2>1, <3>1 DEF HeadRead
  <2>3. tracker' \in [Conns -> Entries \cup {None}]
    <3>1. Noted(c, "sni", h.name) \in [Conns -> Entries \cup {None}]
      BY NotedTyped, Zenon DEF Hellos
    <3> QED BY <2>1, <3>1 DEF HeadRead
  <2> QED BY <1>4, <2>1, <2>2, <2>3, Zenon DEF ReadHead, HeadRead
<1>5. CASE Select(c)
  <2>1. conn[c].route = "passthrough" => conn[c].hello.id \in Identifiers
    BY <1>5 DEF TaskInv, Equipped, Relayed, Task, Hellos
  <2>2. conn' \in [Conns -> Task]
    BY <1>5, GoesTyped DEF Select, Stages, Guarded
  <2>3. tracker' \in [Conns -> Entries \cup {None}]
    BY <1>5, NotedTyped, Zenon DEF Select
  <2> QED BY <1>5, <2>1, <2>2, <2>3, Zenon DEF Select
<1>6. CASE Serve(c) \/ Connect(c)
  <2>1. conn' \in [Conns -> Task]
    <3>1. \E stage \in Stages : conn' = [conn EXCEPT ![c].stage = stage, ![c].reached = TRUE]
      BY <1>6, Zenon DEF Serve, Connect, Stages, Guarded, AfterConnect, AfterMint, AfterTls
    <3>2. \A stage \in Stages : [conn[c] EXCEPT !.stage = stage, !.reached = TRUE] \in Task
      BY TaskDrops, Zenon
    <3> QED BY <3>1, <3>2, Zenon
  <2>2. tracker' \in [Conns -> Entries \cup {None}]
    BY <1>6, NotedTyped, Zenon DEF Serve, Connect
  <2> QED BY <1>6, <2>1, <2>2 DEF Serve, Connect
<1>7. CASE Handshake(c) \/ ConnectRefused(c) \/ Leaves(c)
  <2>1. conn' \in [Conns -> Task]
    BY <1>7, GoesTyped DEF Handshake, ConnectRefused, Leaves, Stages, Guarded
  <2> QED BY <1>7, <2>1 DEF Handshake, ConnectRefused, Leaves
<1>8. CASE MintToken(c)
  <2>1. conn[c].hello \in Hellos
    BY <1>8 DEF MintToken, TaskInv, Equipped, Http, Relayed, Task
  <2>2. <<c, "token">> \in Identifiers
    BY DEF Identifiers
  <2>3. [conn[c].hello EXCEPT !.id = <<c, "token">>] \in Hellos
    BY <2>1, <2>2 DEF Hellos
  <2>4. conn' = [conn EXCEPT ![c] = [conn[c] EXCEPT !.stage = AfterMint(c),
                    !.hello = [conn[c].hello EXCEPT !.id = <<c, "token">>]]]
    BY <1>8, Zenon DEF MintToken, Task
  <2>5. conn' \in [Conns -> Task]
    <3>1. [conn[c] EXCEPT !.stage = AfterMint(c), !.hello = [conn[c].hello EXCEPT !.id = <<c, "token">>]] \in Task
      <4>1. AfterMint(c) \in Stages
        BY DEF Stages, Guarded, AfterMint, AfterTls
      <4> QED BY <2>3, <4>1, TaskMints, Zenon
    <3> QED BY <2>4, <3>1
  <2> QED BY <1>8, <2>2, <2>5 DEF MintToken
<1>9. CASE WriteOwnHello(c)
  <2>1. conn' \in [Conns -> Task]
    BY <1>9, GoesTyped DEF WriteOwnHello, Stages, Guarded
  <2>2. PICK n \in IF conn[c].hello = None THEN Names ELSE {conn[c].hello.name} :
            sent' = sent \cup {[name |-> n, acme |-> FALSE, id |-> <<c, "own">>]}
    BY <1>9 DEF WriteOwnHello
  <2>3. n \in Names
    BY <2>2 DEF Task, Hellos
  <2>4. sent' \subseteq Hellos
    <3>1. <<c, "own">> \in Identifiers
      BY DEF Identifiers
    <3>2. [name |-> n, acme |-> FALSE, id |-> <<c, "own">>] \in Hellos
      BY <2>3, <3>1 DEF Hellos
    <3> QED BY <2>2, <3>2, Zenon
  <2> QED BY <1>9, <2>1, <2>4 DEF WriteOwnHello
<1>10. CASE ObserveOwnHello(c)
  <2>1. conn' \in [Conns -> Task]
    BY <1>10, GoesTyped DEF ObserveOwnHello, Stages, Guarded, AfterTls
  <2> QED BY <1>10, <2>1 DEF ObserveOwnHello, Identifiers
<1>11. CASE WriteHello(c)
  <2>1. conn' \in [Conns -> Task]
    BY <1>11, GoesTyped DEF WriteHello, Stages, Guarded
  <2>2. conn[c].hello \in Hellos
    BY <1>11 DEF WriteHello, TaskInv, Equipped, Http, Relayed, Task
  <2> QED BY <1>11, <2>1, <2>2 DEF WriteHello
<1>12. CASE Close(c) \/ Cancel(c)
  <2>1. CASE DropGuard(c)
    BY <1>12, <2>1, DropTyped, Zenon DEF Close, Cancel, Live, Guarded
  <2>2. CASE ~DropGuard(c)
    <3>1. conn' \in [Conns -> Task]
      BY <1>12, <2>2, GoesTyped DEF Close, Cancel, Stages
    <3> QED BY <1>12, <2>2, <3>1 DEF Close, Cancel
  <2> QED BY <2>1, <2>2
<1> QED BY <1>1, <1>2, <1>3, <1>4, <1>5, <1>6, <1>7, <1>8, <1>9, <1>10, <1>11, <1>12, Zenon
        DEF HandlerStep, Hastens

\* The same task, signalled or not.
SameTask(c) ==
    /\ conn'[c].stage = conn[c].stage /\ conn'[c].listener = conn[c].listener
    /\ conn'[c].round = conn[c].round /\ conn'[c].revision = conn[c].revision
    /\ conn'[c].config = conn[c].config /\ conn'[c].hello = conn[c].hello
    /\ conn'[c].route = conn[c].route

LEMMA SignalTyped ==
    ASSUME TypeInv, NEW rounds, conn' = Signalled(rounds)
    PROVE  conn' \in [Conns -> Task] /\ \A c \in Conns : SameTask(c)
<1>1. \A t \in Task : /\ [t EXCEPT !.cancelled = TRUE] \in Task
                      /\ [t EXCEPT !.cancelled = TRUE].stage = t.stage
                      /\ [t EXCEPT !.cancelled = TRUE].listener = t.listener
                      /\ [t EXCEPT !.cancelled = TRUE].round = t.round
                      /\ [t EXCEPT !.cancelled = TRUE].revision = t.revision
                      /\ [t EXCEPT !.cancelled = TRUE].config = t.config
                      /\ [t EXCEPT !.cancelled = TRUE].hello = t.hello
                      /\ [t EXCEPT !.cancelled = TRUE].route = t.route
  BY Zenon DEF Task
<1>2. \A c \in Conns : conn'[c] = conn[c] \/ conn'[c] = [conn[c] EXCEPT !.cancelled = TRUE]
  BY DEF Signalled
<1>3. conn' = [c \in Conns |-> conn'[c]]
  BY DEF Signalled
<1>4. \A c \in Conns : conn'[c] \in Task /\ SameTask(c)
  <2> TAKE c \in Conns
  <2>1. conn[c] \in Task
    BY DEF TypeInv
  <2>2. CASE conn'[c] = conn[c]
    BY <2>1, <2>2 DEF SameTask
  <2>3. CASE conn'[c] = [conn[c] EXCEPT !.cancelled = TRUE]
    BY <2>1, <2>3, <1>1 DEF SameTask
  <2> QED BY <1>2, <2>2, <2>3
<1> QED BY <1>3, <1>4

\* The task of an accepted connection.
Spawned(l) == SpawnAt(Idle, l, listener[l].round, runtime.revision, live)

LEMMA SpawnedTyped ==
    ASSUME TypeInv, NEW l \in Listeners
    PROVE  /\ Spawned(l) \in Task
           /\ Spawned(l).stage = "spawned" /\ Spawned(l).listener = l
           /\ Spawned(l).round \in 1..MaxRounds /\ Spawned(l).revision = runtime.revision
           /\ Spawned(l).config \in Configs /\ Spawned(l).hello = None /\ Spawned(l).route = None
<1>1. listener[l].round \in 1..MaxRounds /\ runtime.revision \in Nat /\ live \in Configs
  BY DEF TypeInv, Listening, Running
<1>2. Idle \in Task /\ Idle.hello = None /\ Idle.route = None
  BY DEF Idle, Task, Stages
<1>3. listener[l].round \in Nat
  BY <1>1
<1>4. \A n \in Nat, v \in Nat, g \in Configs :
          /\ SpawnAt(Idle, l, n, v, g) \in Task
          /\ SpawnAt(Idle, l, n, v, g).stage = "spawned" /\ SpawnAt(Idle, l, n, v, g).listener = l
          /\ SpawnAt(Idle, l, n, v, g).round = n /\ SpawnAt(Idle, l, n, v, g).revision = v
          /\ SpawnAt(Idle, l, n, v, g).config = g
          /\ SpawnAt(Idle, l, n, v, g).hello = None /\ SpawnAt(Idle, l, n, v, g).route = None
  BY <1>2, TaskSpawns
<1> QED BY <1>1, <1>3, <1>4 DEF Spawned

\* The updates of a listener.
LEMMA ListeningUpdates ==
    ASSUME NEW t \in Listening
    PROVE  /\ \A n \in Nat : /\ [t EXCEPT !.requests = n] \in Listening
                             /\ [t EXCEPT !.state = "rebinding", !.requests = n] \in Listening
           /\ \A n \in 1..MaxRounds : [t EXCEPT !.state = "accepting", !.round = n] \in Listening
           /\ [t EXCEPT !.state = "down", !.requests = 0] \in Listening
BY Zenon DEF Listening

LEMMA RunningUpdates ==
    ASSUME NEW t \in Running
    PROVE  LET u == [t EXCEPT !.phase = "binding", !.revision = t.revision + 1] IN
           u \in Running /\ u.phase = "binding"
<1>1. t.revision + 1 \in Nat
  BY DEF Running
<1> QED BY <1>1, Zenon DEF Running

\* The steps of the listeners, the runtime and the environment.
WorldStep ==
    \/ ListenerNext \/ RuntimeNext \/ Write
    \/ \E n \in Names : Challenge(n)
    \/ \E h \in sent : Forget(h)
    \/ UNCHANGED vars

LEMMA Steps == [Next]_vars <=> (\E c \in Conns : HandlerStep(c)) \/ WorldStep
BY DEF Next, ConnNext, HandlerStep, WorldStep

\* To the connections: a new one, or none but by a signal.
LEMMA WorldOfConns ==
    ASSUME TypeInv, WorldStep
    PROVE  /\ conn' \in [Conns -> Task]
           /\ \/ \E l \in Listeners, c \in Conns :
                    /\ runtime.phase = "running" /\ conn[c].stage = "idle"
                    /\ conn' = [conn EXCEPT ![c] = Spawned(l)]
                    /\ UNCHANGED <<scenario, live, runtime, listener, tracker, count, seen, sent>>
              \/ \A c \in Conns : SameTask(c)
<1>1. CASE \E l \in Listeners, c \in Conns : Accept(l, c)
  <2>1. PICK l \in Listeners, c \in Conns : Accept(l, c)
    BY <1>1
  <2>2. conn' = [conn EXCEPT ![c] = Spawned(l)]
    BY <2>1 DEF Accept, Spawned, SpawnAt
  <2>3. conn' \in [Conns -> Task]
    BY <2>2, SpawnedTyped DEF TypeInv
  <2> QED BY <2>1, <2>2, <2>3, Zenon DEF Accept
<1>2. CASE \/ \E l \in Listeners : Restart(l) \/ AcceptFails(l)
           \/ \E exit \in BOOLEAN : Stop(exit)
  <2>1. \E rounds : conn' = Signalled(rounds)
    BY <1>2, Zenon DEF Restart, AcceptFails, Stop
  <2> QED BY <2>1, SignalTyped
<1>3. CASE conn' = conn
  BY <1>3 DEF TypeInv, SameTask
<1>4. \/ \E l \in Listeners, c \in Conns : Accept(l, c)
      \/ \E l \in Listeners : Restart(l) \/ AcceptFails(l)
      \/ \E exit \in BOOLEAN : Stop(exit)
      \/ conn' = conn
  BY Zenon DEF WorldStep, ListenerNext, RuntimeNext, RequestRestart, Rebind, Flush, Flushed, Bind,
         HotApply, Revise, Write, Challenge, Forget, vars
<1> QED BY <1>1, <1>2, <1>3, <1>4

\* What the rest of the world does keeps the types, and the rounds in bounds.
LEMMA WorldTypes ==
    ASSUME TypeInv, RoundInv, WorldStep
    PROVE  TypeInv' /\ RoundInv'
<1> USE DEF TypeInv
<1>1. conn' \in [Conns -> Task]
  BY WorldOfConns
<1>2. \A l \in Listeners : /\ listener[l].state \in {"accepting", "rebinding", "down"}
                           /\ listener[l].round \in 1..MaxRounds /\ listener[l].requests \in Nat
  BY DEF Listening
<1>3. MaxRounds \in Nat
  BY ListenersAssumption
<1>4. /\ runtime.phase \in {"running", "stopping", "flushing", "stopped", "binding"}
      /\ runtime.exit \in BOOLEAN /\ runtime.revision \in Nat
  BY DEF Running
<1>5. CASE \E l \in Listeners, c \in Conns : Accept(l, c)
  BY <1>1, <1>5 DEF Accept, RoundInv
<1>6. CASE \E l \in Listeners : RequestRestart(l)
  <2>1. PICK l \in Listeners : RequestRestart(l)
    BY <1>6
  <2>2. listener' = [listener EXCEPT ![l] = [listener[l] EXCEPT !.requests = listener[l].requests + 1]]
    BY <2>1 DEF RequestRestart
  <2>3. listener' \in [Listeners -> Listening]
    <3>1. [listener[l] EXCEPT !.requests = listener[l].requests + 1] \in Listening
      <4>1. listener[l] \in Listening /\ listener[l].requests + 1 \in Nat
        BY <1>2
      <4> QED BY <4>1, ListeningUpdates, Zenon
    <3> QED BY <2>2, <3>1
  <2>4. RoundInv'
    BY <2>1, <2>2, <1>2, <1>3 DEF RoundInv, RequestRestart, Listening
  <2> QED BY <1>1, <2>1, <2>3, <2>4 DEF RequestRestart
<1>7. CASE \E l \in Listeners : Restart(l)
  <2>1. PICK l \in Listeners : Restart(l)
    BY <1>7
  <2>2. listener' = [listener EXCEPT ![l] = [listener[l] EXCEPT !.state = "rebinding", !.requests = listener[l].requests - 1]]
    BY <2>1, Zenon DEF Restart
  <2>3. listener' \in [Listeners -> Listening]
    BY <2>1, <2>2, <1>2 DEF Listening, Restart
  <2>4. RoundInv'
    BY <2>1, <2>2, <1>2, <1>3 DEF RoundInv, Restart, Listening
  <2> QED BY <1>1, <2>1, <2>3, <2>4, Zenon DEF Restart
<1>8. CASE \E l \in Listeners : Rebind(l) \/ AcceptFails(l)
  <2>1. PICK l \in Listeners : Rebind(l) \/ AcceptFails(l)
    BY <1>8
  <2>2. \/ /\ listener[l].state = "rebinding"
           /\ listener' = [listener EXCEPT ![l] = [listener[l] EXCEPT !.state = "accepting", !.round = listener[l].round + 1]]
        \/ listener' = [listener EXCEPT ![l] = [listener[l] EXCEPT !.state = "down", !.requests = 0]]
    BY <2>1, Zenon DEF Rebind, AcceptFails
  <2>3. listener[l].state = "rebinding" => listener[l].round + 1 \in 1..MaxRounds
    BY <1>2, <1>3 DEF RoundInv
  <2>4. listener' \in [Listeners -> Listening]
    <3>1. [listener[l] EXCEPT !.state = "down", !.requests = 0] \in Listening
      BY <1>2, ListeningUpdates, Zenon
    <3>2. listener[l].state = "rebinding" =>
            [listener[l] EXCEPT !.state = "accepting", !.round = listener[l].round + 1] \in Listening
      BY <1>2, <2>3, ListeningUpdates, Zenon
    <3> QED BY <2>2, <3>1, <3>2
  <2>5. UNCHANGED <<scenario, live, runtime, tracker, count, seen, sent>> /\ listener[l].state # "down"
    BY <2>1 DEF Rebind, AcceptFails
  <2>6. RoundInv'
    <3>1. \A k \in Listeners : k # l => listener'[k] = listener[k]
      BY <2>2
    <3>2. \/ listener'[l].state = "down"
          \/ /\ listener[l].state = "rebinding" /\ listener'[l].state = "accepting"
             /\ listener'[l].round = listener[l].round + 1 /\ listener'[l].requests = listener[l].requests
      BY <2>2, Zenon DEF Listening
    <3>3. runtime.phase = "running"
      BY <2>5 DEF RoundInv
    <3>4. \A k \in Listeners :
             /\ listener'[k].state = "accepting" => listener'[k].requests + listener'[k].round <= MaxRounds
             /\ listener'[k].state = "rebinding" => listener'[k].requests + listener'[k].round < MaxRounds
      <4> TAKE k \in Listeners
      <4>1. CASE k # l
        BY <3>1, <4>1 DEF RoundInv
      <4>2. CASE k = l
        <5>1. listener[l].state = "rebinding" => listener[l].requests + listener[l].round < MaxRounds
          BY DEF RoundInv
        <5>2. \A q, r \in Nat : q + r < MaxRounds => q + (r + 1) <= MaxRounds
          BY <1>3
        <5>3. listener[l].requests \in Nat /\ listener[l].round \in Nat
          BY <1>2
        <5>4. CASE listener'[l].state = "down"
          BY <4>2, <5>4
        <5>5. CASE /\ listener[l].state = "rebinding" /\ listener'[l].state = "accepting"
                   /\ listener'[l].round = listener[l].round + 1 /\ listener'[l].requests = listener[l].requests
          BY <4>2, <5>1, <5>2, <5>3, <5>5
        <5> QED BY <3>2, <5>4, <5>5
      <4> QED BY <4>1, <4>2
    <3> QED BY <2>5, <3>3, <3>4 DEF RoundInv
  <2> QED BY <1>1, <2>4, <2>5, <2>6
<1>9. CASE \E exit \in BOOLEAN : Stop(exit)
  <2>1. PICK exit \in BOOLEAN : Stop(exit)
    BY <1>9
  <2>2. listener' \in [Listeners -> Listening]
    <3>1. \A l \in Listeners : [listener[l] EXCEPT !.state = "down", !.requests = 0] \in Listening
      BY <1>2, ListeningUpdates, Zenon
    <3> QED BY <2>1, <3>1, Zenon DEF Stop
  <2>3. runtime' \in Running
    BY <2>1, Zenon DEF Stop, Running
  <2>4. RoundInv'
    <3>1. runtime'.phase = "stopping" /\ runtime'.exit = exit
      BY <2>1, Zenon DEF Stop, Running
    <3>2. \A l \in Listeners : listener'[l].state = "down" /\ listener'[l].round = listener[l].round
      BY <2>1, Zenon DEF Stop, Listening
    <3>3. ~exit => \A l \in Listeners : listener[l].round < MaxRounds
      BY <2>1, Zenon DEF Stop
    <3> QED BY <3>1, <3>2, <3>3 DEF RoundInv
  <2> QED BY <1>1, <2>1, <2>2, <2>3, <2>4, Zenon DEF Stop
<1>10. CASE Flush \/ Flushed
  <2>1. runtime' \in Running /\ runtime.phase # "running" /\ runtime'.exit = runtime.exit
            /\ runtime'.phase \in {"flushing", "stopped"}
    BY <1>10 DEF Flush, Flushed, Running
  <2>2. UNCHANGED <<scenario, live, listener, tracker, count, seen, sent>>
    BY <1>10 DEF Flush, Flushed
  <2> QED BY <1>1, <2>1, <2>2 DEF RoundInv
<1>11. CASE Bind
  <2>1. \A l \in Listeners : listener[l].round + 1 \in 1..MaxRounds
    BY <1>2, <1>3, <1>11 DEF Bind, RoundInv
  <2>2. listener' \in [Listeners -> Listening]
    BY <1>11, <2>1 DEF Bind, Listening
  <2>3. runtime' \in Running /\ runtime'.phase = "running"
    BY <1>11 DEF Bind, Running
  <2>4. RoundInv'
    BY <1>11, <2>1, <2>3, <1>2 DEF Bind, RoundInv
  <2> QED BY <1>1, <1>11, <2>2, <2>3, <2>4 DEF Bind
<1>12. CASE \E config \in Configs : HotApply(config) \/ Revise(config)
  <2>1. PICK config \in Configs : HotApply(config) \/ Revise(config)
    BY <1>12
  <2>2. CASE HotApply(config)
    BY <1>1, <2>2 DEF HotApply, RoundInv
  <2>3. CASE Revise(config)
    <3>1. /\ runtime' \in Running /\ runtime.phase = "stopped" /\ ~runtime.exit
          /\ runtime'.phase # "running" /\ (runtime'.phase = "binding" => ~runtime'.exit)
      <4>1. CASE runtime' = [runtime EXCEPT !.exit = TRUE]
        BY <2>3, <4>1, Zenon DEF Revise, Running
      <4>2. CASE runtime' = [runtime EXCEPT !.phase = "binding", !.revision = @ + 1]
        <5>1. runtime.phase = "stopped" /\ ~runtime.exit
          BY <2>3 DEF Revise
        <5>2. runtime' \in Running /\ runtime'.phase = "binding"
          BY <4>2, <1>4, RunningUpdates, Zenon
        <5>3. runtime'.exit = runtime.exit
          BY <4>2 DEF Running
        <5> QED BY <5>1, <5>2, <5>3
      <4> QED BY <2>3, <4>1, <4>2 DEF Revise
    <3>2. tracker' \in [Conns -> Entries \cup {None}]
      BY <2>3 DEF Revise
    <3>3. UNCHANGED <<scenario, listener, count, seen, sent>> /\ live' = config
      BY <2>3 DEF Revise
    <3> QED BY <1>1, <3>1, <3>2, <3>3 DEF RoundInv
  <2> QED BY <2>1, <2>2, <2>3
<1>13. CASE Write \/ (\E n \in Names : Challenge(n)) \/ UNCHANGED vars
  <2>1. UNCHANGED <<scenario, live, runtime, listener, tracker, count, seen, sent>>
    BY <1>13 DEF Write, Challenge, vars
  <2> QED BY <1>1, <2>1 DEF RoundInv
<1>14. CASE \E h \in sent : Forget(h)
  <2>1. UNCHANGED <<scenario, live, runtime, listener, tracker, count>> /\ seen' \subseteq seen /\ sent' \subseteq sent
    BY <1>14 DEF Forget, Consumed
  <2> QED BY <1>1, <2>1 DEF RoundInv
<1> QED BY <1>5, <1>6, <1>7, <1>8, <1>9, <1>10, <1>11, <1>12, <1>13, <1>14, Zenon
        DEF WorldStep, ListenerNext, RuntimeNext

-----------------------------------------------------------------------------
(* What a step of a handler does to its task. *)

Entered(c, stage) ==
    /\ conn'[c].stage = stage
    /\ conn'[c].hello = conn[c].hello /\ conn'[c].route = conn[c].route

BeginEffect(c) ==
    /\ conn[c].stage = "spawned"
    /\ IF kind[conn[c].listener] = "forward"
       THEN conn'[c].stage = "select" /\ conn'[c].hello = conn[c].hello /\ conn'[c].route = "forward"
       ELSE Entered(c, "read")

ReadEffect(c, h, stage, route) ==
    conn'[c].stage = stage /\ conn'[c].hello = h /\ conn'[c].route = route

DispatchEffect(c) ==
    /\ conn[c].stage = "dispatch"
    /\ \/ Entered(c, "answer") /\ conn[c].route = "acme"
       \/ Entered(c, "closing")
       \/ /\ conn[c].hello.id \notin seen
          /\ \/ Entered(c, "select") /\ conn[c].route \in {"passthrough", "terminate"}
             \/ Entered(c, "handshake") /\ conn[c].route = "reverse"

MintEffect(c) ==
    /\ conn[c].stage = "mint"
    /\ conn'[c].stage = AfterMint(c) /\ conn'[c].route = conn[c].route
    /\ conn'[c].hello = [conn[c].hello EXCEPT !.id = <<c, "token">>]

\* The steps that only go on to the next stage.
Advances(c) ==
    \/ conn[c].stage = "select" /\ Entered(c, IF conn[c].route = "terminate" THEN "handshake" ELSE "connect")
    \/ conn[c].stage = "handshake" /\ Entered(c, IF conn[c].route = "reverse" THEN "head" ELSE "connect")
    \/ conn[c].stage = "connect" /\ Entered(c, AfterConnect(c))
    \/ conn[c].stage = "upstream" /\ Entered(c, "observe")
    \/ conn[c].stage = "observe" /\ Entered(c, AfterTls(c))
    \/ conn[c].stage = "write" /\ Entered(c, "relay")

Finishes(c) ==
    \/ Entered(c, "closing") /\ conn[c].stage \in Guarded
    \/ Entered(c, "ended") /\ conn[c].stage \notin {"idle", "ended"}

LEMMA GoesEffect ==
    ASSUME TypeInv, NEW c \in Conns, NEW stage, Goes(c, stage)
    PROVE  Entered(c, stage)
BY DEF TypeInv, Task, Goes, Entered

LEMMA HandlerEffect ==
    ASSUME TypeInv, TaskInv, NEW c \in Conns, HandlerStep(c)
    PROVE  \/ Begin(c) /\ BeginEffect(c)
           \/ ReadHello(c) /\ \E h \in Hellos, stage \in {"serve", "closing", "dispatch"}, route \in TlsRoutes :
                 HelloRead(c, h, stage, route) /\ ReadEffect(c, h, stage, route)
           \/ ReadHead(c) /\ \E h \in Hellos, stage \in {"select", "closing"}, route \in HttpRoutes :
                 HeadRead(c, h, stage, route) /\ ReadEffect(c, h, stage, route)
           \/ Dispatch(c) /\ DispatchEffect(c)
           \/ MintToken(c) /\ MintEffect(c)
           \/ (Select(c) \/ Handshake(c) \/ Connect(c) \/ WriteOwnHello(c) \/ ObserveOwnHello(c)
                 \/ WriteHello(c)) /\ Advances(c)
           \/ (Serve(c) \/ ConnectRefused(c) \/ Leaves(c) \/ Close(c) \/ Cancel(c)) /\ Finishes(c)
<1>1. conn[c] \in Task /\ conn \in [Conns -> Task]
  BY DEF TypeInv
<1>2. CASE Begin(c)
  <2>1. BeginEffect(c)
    BY <1>1, <1>2 DEF Begin, BeginEffect, Entered, Task
  <2> QED BY <1>2, <2>1
<1>3. CASE ReadHello(c)
  <2>1. PICK h \in Hellos, stage \in {"serve", "closing", "dispatch"}, route \in TlsRoutes :
            HelloRead(c, h, stage, route)
    BY <1>3, ReadHelloStep
  <2>2. ReadEffect(c, h, stage, route)
    BY <1>1, <2>1 DEF HelloRead, ReadEffect, Task
  <2> QED BY <1>3, <2>1, <2>2
<1>4. CASE ReadHead(c)
  <2>1. PICK h \in Hellos, stage \in {"select", "closing"}, route \in HttpRoutes :
            HeadRead(c, h, stage, route)
    BY <1>4, ReadHeadStep
  <2>2. ReadEffect(c, h, stage, route)
    BY <1>1, <2>1 DEF HeadRead, ReadEffect, Task
  <2> QED BY <1>4, <2>1, <2>2
<1>5. CASE Dispatch(c)
  <2>1. DispatchEffect(c)
    BY <1>5, GoesEffect DEF Dispatch, DispatchEffect, Looped
  <2> QED BY <1>5, <2>1
<1>6. CASE MintToken(c)
  <2>1. MintEffect(c)
    BY <1>1, <1>6 DEF MintToken, MintEffect, Task
  <2> QED BY <1>6, <2>1
<1>7. CASE Connect(c) \/ Serve(c)
  <2>1. CASE Connect(c)
    BY <1>1, <2>1 DEF Connect, Advances, Entered, Task
  <2>2. CASE Serve(c)
    <3>1. Entered(c, "closing")
      BY <1>1, <2>2 DEF Serve, Entered, Task
    <3> QED BY <2>2, <3>1 DEF Serve, Finishes, Guarded
  <2> QED BY <1>7, <2>1, <2>2
<1>8. CASE Select(c) \/ Handshake(c) \/ WriteOwnHello(c) \/ ObserveOwnHello(c) \/ WriteHello(c)
  <2>1. Advances(c)
    BY <1>8, GoesEffect, Zenon DEF Select, Handshake, WriteOwnHello, ObserveOwnHello, WriteHello, Advances
  <2> QED BY <1>8, <2>1
<1>9. CASE ConnectRefused(c) \/ Leaves(c) \/ Close(c) \/ Cancel(c)
  <2>1. CASE ConnectRefused(c) \/ Leaves(c)
    <3>1. Entered(c, "closing") /\ conn[c].stage \in Guarded
      BY <2>1, GoesEffect, Zenon DEF ConnectRefused, Leaves, Live, Guarded
    <3> QED BY <2>1, <3>1, Zenon DEF Finishes
  <2>2. CASE DropGuard(c) /\ (Close(c) \/ Cancel(c))
    <3>1. Entered(c, "ended")
      BY <1>1, <2>2 DEF DropGuard, Entered, Task
    <3>2. conn[c].stage \notin {"idle", "ended"}
      BY <2>2, Zenon DEF Close, Cancel, Live, Guarded
    <3> QED BY <2>2, <3>1, <3>2, Zenon DEF Finishes
  <2>3. CASE ~Live(c) /\ Cancel(c)
    <3>1. Entered(c, "ended")
      BY <2>3, GoesEffect, Zenon DEF Cancel
    <3> QED BY <2>3, <3>1, Zenon DEF Finishes, Cancel, Live
  <2> QED BY <1>9, <2>1, <2>2, <2>3, Zenon DEF Close, Cancel
<1> QED BY <1>2, <1>3, <1>4, <1>5, <1>6, <1>7, <1>8, <1>9, Zenon DEF HandlerStep, Hastens

\* A handler leaves the other tasks, and where it came from, alone.
LEMMA HandlerFrame ==
    ASSUME TypeInv, TaskInv, NEW c \in Conns, HandlerStep(c)
    PROVE  /\ \A d \in Conns : d # c => conn'[d] = conn[d]
           /\ conn'[c].listener = conn[c].listener /\ conn'[c].round = conn[c].round
           /\ conn'[c].revision = conn[c].revision /\ conn'[c].config = conn[c].config
           /\ UNCHANGED <<scenario, live, runtime, listener>>
<1>1. conn[c] \in Task /\ conn \in [Conns -> Task]
  BY DEF TypeInv
<1>2. CASE Begin(c) \/ Serve(c) \/ Connect(c) \/ MintToken(c)
  BY <1>1, <1>2 DEF Begin, Serve, Connect, MintToken, Task
<1>3. CASE ReadHello(c)
  <2>1. PICK h, stage, route : HelloRead(c, h, stage, route)
    BY <1>3, ReadHelloStep
  <2> QED BY <1>1, <1>3, <2>1, Zenon DEF HelloRead, ReadHello, Task
<1>4. CASE ReadHead(c)
  <2>1. PICK h, stage, route : HeadRead(c, h, stage, route)
    BY <1>4, ReadHeadStep
  <2> QED BY <1>1, <1>4, <2>1, Zenon DEF HeadRead, ReadHead, Task
<1>5. CASE Dispatch(c) \/ Select(c) \/ Handshake(c) \/ ConnectRefused(c) \/ WriteOwnHello(c)
             \/ ObserveOwnHello(c) \/ WriteHello(c) \/ Leaves(c)
  <2>1. \E stage : Goes(c, stage)
    BY <1>5, Zenon DEF Dispatch, Select, Handshake, ConnectRefused, WriteOwnHello, ObserveOwnHello,
                WriteHello, Leaves
  <2>2. UNCHANGED <<scenario, live, runtime, listener>>
    BY <1>5, Zenon DEF Dispatch, Select, Handshake, ConnectRefused, WriteOwnHello, ObserveOwnHello,
                WriteHello, Leaves
  <2> QED BY <1>1, <2>1, <2>2 DEF Goes, Task
<1>6. CASE Close(c) \/ Cancel(c)
  <2>1. CASE DropGuard(c)
    BY <1>1, <1>6, <2>1 DEF Close, Cancel, DropGuard, Task
  <2>2. CASE Goes(c, "ended")
    BY <1>1, <1>6, <2>2 DEF Close, Cancel, Goes, Task
  <2> QED BY <1>6, <2>1, <2>2, Zenon DEF Close, Cancel
<1> QED BY <1>2, <1>3, <1>4, <1>5, <1>6, Zenon DEF HandlerStep, Hastens

LEMMA HandlerTasks ==
    ASSUME TypeInv, TaskInv, NEW c \in Conns, HandlerStep(c)
    PROVE  TaskInv'
<1>1. /\ \A d \in Conns : d # c => conn'[d] = conn[d]
      /\ conn'[c].listener = conn[c].listener /\ conn'[c].round = conn[c].round
      /\ conn'[c].revision = conn[c].revision /\ conn'[c].config = conn[c].config
      /\ UNCHANGED <<scenario, live, runtime, listener>>
  BY HandlerFrame
<1> DEFINE
      Had(t) == t.stage # "idle" =>
                  /\ t.listener \in Listeners /\ t.round \in 1..MaxRounds
                  /\ t.config \in Configs /\ t.revision <= runtime.revision
<1>2. Equipped(conn[c]) /\ conn[c].stage # "idle"
  <2>1. Equipped(conn[c])
    BY Zenon DEF TaskInv
  <2>2. conn[c].stage # "idle"
    BY HandlerEffect, Zenon DEF BeginEffect, HelloRead, HeadRead, DispatchEffect, MintEffect, Advances,
                         Finishes, Guarded
  <2> QED BY <2>1, <2>2, Zenon
<1>3. Equipped(conn'[c])
  <2>1. CASE BeginEffect(c)
    BY <1>2, <2>1, Zenon DEF Equipped, BeginEffect, Entered, Upstream, Relayed
  <2>2. CASE \E h \in Hellos, stage \in {"serve", "closing", "dispatch"}, route \in TlsRoutes :
               ReadEffect(c, h, stage, route)
    BY <2>2, NoneAssumption DEF Equipped, ReadEffect, Upstream
  <2>3. CASE \E h \in Hellos, stage \in {"select", "closing"}, route \in HttpRoutes :
               HeadRead(c, h, stage, route) /\ ReadEffect(c, h, stage, route)
    BY <2>3, NoneAssumption DEF Equipped, ReadEffect, HeadRead, Upstream, Http, Relayed
  <2>4. CASE DispatchEffect(c)
    BY <1>2, <2>4, Zenon DEF Equipped, DispatchEffect, Entered, Upstream, Relayed
  <2>5. CASE MintEffect(c)
    <3>1. conn[c].hello \in Hellos /\ [conn[c].hello EXCEPT !.id = <<c, "token">>] \in Hellos
      <4>1. conn[c].hello \in Hellos
        BY <1>2, <2>5 DEF Equipped, MintEffect, TypeInv, Task, Http, Relayed
      <4> QED BY <4>1 DEF Hellos, Identifiers
    <3>2. conn'[c].hello # None
      BY <2>5, <3>1, NoneAssumption DEF MintEffect
    <3> QED BY <1>2, <2>5, <3>2 DEF Equipped, MintEffect, AfterMint, AfterTls, Upstream, Http, Relayed
  <2>6. CASE Advances(c)
    BY <1>2, <2>6 DEF Equipped, Advances, Entered, AfterConnect, AfterMint, AfterTls, Upstream, Http, Relayed
  <2>7. CASE Finishes(c)
    BY <1>2, <2>7, Zenon DEF Equipped, Finishes, Entered, Upstream
  <2> QED BY <2>1, <2>2, <2>3, <2>4, <2>5, <2>6, <2>7, HandlerEffect, Zenon
<1>4. Had(conn[c]) /\ Had(conn'[c])
  BY <1>1, <1>2, Zenon DEF TaskInv
<1>5. \A d \in Conns : Had(conn[d]) /\ Equipped(conn[d])
  BY Zenon DEF TaskInv
<1> HIDE DEF Had
<1>6. \A d \in Conns : Had(conn'[d]) /\ Equipped(conn'[d])
  BY <1>1, <1>3, <1>4, <1>5, Zenon
<1>7. runtime' = runtime
  BY <1>1, Zenon
<1> QED BY <1>6, <1>7, Zenon DEF TaskInv, Had

LEMMA WorldTasks ==
    ASSUME TypeInv, TaskInv, WorldStep
    PROVE  TaskInv'
<1>1. CASE \A c \in Conns : SameTask(c)
  <2>1. runtime.revision \in Nat /\ runtime'.revision \in Nat /\ runtime'.revision >= runtime.revision
    <3>1. runtime.revision \in Nat
      BY DEF TypeInv, Running
    <3>2. runtime'.revision = runtime.revision \/ runtime'.revision = runtime.revision + 1
      BY Zenon DEF TypeInv, Running, WorldStep, ListenerNext, RuntimeNext, Accept, RequestRestart, Restart,
             Rebind, AcceptFails, Stop, Flush, Flushed, Bind, HotApply, Revise, Write, Challenge,
             Forget, vars
    <3> QED BY <3>1, <3>2
  <2>2. \A c \in Conns : conn[c].revision \in Nat
    BY DEF TypeInv, Task
  <2>3. \A c \in Conns : conn[c].revision <= runtime.revision => conn[c].revision <= runtime'.revision
    BY <2>1, <2>2
  <2>4. \A c \in Conns : Equipped(conn'[c])
    <3> TAKE c \in Conns
    <3>1. /\ conn'[c].stage = conn[c].stage /\ conn'[c].hello = conn[c].hello
          /\ conn'[c].route = conn[c].route
      BY <1>1 DEF SameTask
    <3>2. Equipped(conn[c])
      BY DEF TaskInv
    <3> QED BY <3>1, <3>2 DEF Equipped
  <2>5. \A c \in Conns : conn'[c].stage # "idle" =>
              /\ conn'[c].listener \in Listeners /\ conn'[c].round \in 1..MaxRounds
              /\ conn'[c].config \in Configs /\ conn'[c].revision <= runtime'.revision
    BY <1>1, <2>3 DEF SameTask, TaskInv
  <2> QED BY <2>4, <2>5 DEF TaskInv
<1>2. CASE \E l \in Listeners, c \in Conns :
             /\ conn' = [conn EXCEPT ![c] = Spawned(l)]
             /\ UNCHANGED runtime
  <2>1. PICK l \in Listeners, c \in Conns : conn' = [conn EXCEPT ![c] = Spawned(l)]
    BY <1>2, Zenon
  <2>2. conn'[c] = Spawned(l) /\ \A d \in Conns : d # c => conn'[d] = conn[d]
    BY <2>1 DEF TypeInv
  <2>3. runtime' = runtime /\ runtime.revision \in Nat
    BY <1>2 DEF TypeInv, Running
  <2>4. ~(None \in Relayed)
    BY NoneAssumption DEF Routes
  <2>5. /\ conn'[c].stage = "spawned" /\ conn'[c].listener \in Listeners /\ conn'[c].round \in 1..MaxRounds
        /\ conn'[c].config \in Configs /\ conn'[c].revision <= runtime'.revision
        /\ conn'[c].hello = None /\ conn'[c].route = None
    BY <2>2, <2>3, SpawnedTyped
  <2>6. Equipped(conn'[c])
    BY <2>4, <2>5 DEF Equipped, Upstream
  <2> QED BY <2>2, <2>3, <2>5, <2>6 DEF TaskInv
<1> QED BY <1>1, <1>2, WorldOfConns

-----------------------------------------------------------------------------
(* Counts and the tracker. *)

Base == TypeInv /\ RoundInv /\ TaskInv

LEMMA BaseStep == Base /\ [Next]_vars => Base'
<1> SUFFICES ASSUME Base, [Next]_vars PROVE Base'
  OBVIOUS
<1>1. CASE \E c \in Conns : HandlerStep(c)
  <2>1. PICK c \in Conns : HandlerStep(c)
    BY <1>1
  <2>2. TypeInv'
    BY <2>1, HandlerTypes DEF Base
  <2>3. TaskInv'
    BY <2>1, HandlerTasks DEF Base
  <2>4. RoundInv'
    <3>1. UNCHANGED <<runtime, listener>>
      BY <2>1, HandlerFrame DEF Base
    <3> QED BY <3>1 DEF Base, RoundInv
  <2> QED BY <2>2, <2>3, <2>4 DEF Base
<1>2. CASE WorldStep
  BY <1>2, WorldTypes, WorldTasks DEF Base
<1> QED BY <1>1, <1>2, Steps

\* The guards of a round.
Guards(l, r) == {c \in Conns : Live(c) /\ conn[c].listener = l /\ conn[c].round = r}

LEMMA CountsExactIsGuards ==
    CountsExact <=> \A l \in Listeners, r \in 1..MaxRounds : count[l][r] = Cardinality(Guards(l, r))
BY DEF CountsExact, Guards

LEMMA GuardsFinite == \A l, r : IsFiniteSet(Guards(l, r))
<1> SUFFICES ASSUME NEW l, NEW r PROVE IsFiniteSet(Guards(l, r))
  OBVIOUS
<1>1. Guards(l, r) \subseteq Conns
  BY DEF Guards
<1> QED BY <1>1, ListenersAssumption, FS_Subset

\* The active count after a guard came or went.
LEMMA CountedAt ==
    ASSUME Base, NEW c \in Conns, conn[c].stage # "idle", NEW n \in Int, count' = Counted(c, n)
    PROVE  \A l \in Listeners, r \in 1..MaxRounds :
               count'[l][r] = IF l = conn[c].listener /\ r = conn[c].round THEN count[l][r] + n
                              ELSE count[l][r]
<1>1. conn[c].listener \in Listeners /\ conn[c].round \in 1..MaxRounds
  BY DEF Base, TaskInv
<1>2. PICK k \in Listeners, m \in 1..MaxRounds : conn[c].listener = k /\ conn[c].round = m
  BY <1>1
<1>3. count' = [count EXCEPT ![k] = [count[k] EXCEPT ![m] = count[k][m] + n]]
  BY <1>2 DEF Counted
<1>4. count \in [Listeners -> [1..MaxRounds -> Int]]
  BY DEF Base, TypeInv
<1>5. \A l \in Listeners : count[l] \in [1..MaxRounds -> Int]
  BY <1>4
<1>6. \A l \in Listeners : count'[l] = IF l = k THEN [count[k] EXCEPT ![m] = count[k][m] + n] ELSE count[l]
  BY <1>3, <1>4
<1>7. \A r \in 1..MaxRounds :
          [count[k] EXCEPT ![m] = count[k][m] + n][r] = IF r = m THEN count[k][m] + n ELSE count[k][r]
  BY <1>5, Zenon
<1> QED BY <1>2, <1>6, <1>7, Zenon

\* Only the first poll makes a guard, only its drop ends one.
LEMMA GuardComesAndGoes ==
    ASSUME TypeInv, TaskInv, NEW c \in Conns, HandlerStep(c)
    PROVE  \/ Begin(c) \/ (DropGuard(c) /\ Live(c))
           \/ count' = count /\ (conn'[c].stage \in Guarded <=> conn[c].stage \in Guarded)
<1>1. CASE ReadHello(c)
  <2>1. PICK h \in Hellos, stage \in {"serve", "closing", "dispatch"}, route \in TlsRoutes :
            HelloRead(c, h, stage, route)
    BY <1>1, ReadHelloStep
  <2>2. conn'[c].stage = stage
    BY <2>1 DEF HelloRead, TypeInv, Task
  <2> QED BY <1>1, <2>1, <2>2, Zenon DEF ReadHello, HelloRead, Guarded
<1>2. CASE ReadHead(c)
  <2>1. PICK h \in Hellos, stage \in {"select", "closing"}, route \in HttpRoutes :
            HeadRead(c, h, stage, route)
    BY <1>2, ReadHeadStep
  <2>2. conn'[c].stage = stage
    BY <2>1 DEF HeadRead, TypeInv, Task
  <2> QED BY <1>2, <2>1, <2>2, Zenon DEF ReadHead, HeadRead, Guarded
<1>3. CASE Dispatch(c) /\ DispatchEffect(c)
  BY <1>3, Zenon DEF Dispatch, DispatchEffect, Entered, Guarded
<1>4. CASE MintToken(c) /\ MintEffect(c)
  BY <1>4 DEF MintToken, MintEffect, AfterMint, AfterTls, Guarded
<1>5. CASE (Select(c) \/ Handshake(c) \/ Connect(c) \/ WriteOwnHello(c) \/ ObserveOwnHello(c)
              \/ WriteHello(c)) /\ Advances(c)
  <2>1. count' = count
    BY <1>5, Zenon DEF Select, Handshake, Connect, WriteOwnHello, ObserveOwnHello, WriteHello
  <2> QED BY <1>5, <2>1 DEF Advances, Entered, AfterConnect, AfterMint, AfterTls, Guarded
<1>6. CASE Serve(c) \/ ConnectRefused(c) \/ Leaves(c)
  <2>1. count' = count /\ conn'[c].stage = "closing" /\ conn[c].stage \in Guarded
    BY <1>6 DEF Serve, ConnectRefused, Leaves, Goes, Live, Guarded, TypeInv, Task
  <2> QED BY <2>1 DEF Guarded
<1>7. CASE Close(c)
  BY <1>7 DEF Close, Live, Guarded
<1>8. CASE Cancel(c)
  <2>1. CASE ~Live(c)
    <3>1. count' = count /\ conn'[c].stage = "ended"
      BY <1>8, <2>1 DEF Cancel, Goes, TypeInv, Task
    <3> QED BY <2>1, <3>1 DEF Live, Guarded
  <2> QED BY <1>8, <2>1 DEF Cancel
<1> QED BY <1>1, <1>2, <1>3, <1>4, <1>5, <1>6, <1>7, <1>8, HandlerEffect, Zenon

\* A guard that comes is counted in, one that goes is counted out, and nothing
\* else changes a count.
LEMMA CountsStep == Base /\ CountsExact /\ [Next]_vars => CountsExact'
<1> SUFFICES ASSUME Base, CountsExact, [Next]_vars PROVE CountsExact'
  OBVIOUS
<1>1. ASSUME count' = count, \A c \in Conns : conn'[c].stage \in Guarded <=> conn[c].stage \in Guarded,
             \A c \in Conns : conn[c].stage \in Guarded =>
                conn'[c].listener = conn[c].listener /\ conn'[c].round = conn[c].round
      PROVE  CountsExact'
  <2>1. \A l \in Listeners, r \in 1..MaxRounds :
            {c \in Conns : Live(c) /\ conn[c].listener = l /\ conn[c].round = r}'
              = {c \in Conns : Live(c) /\ conn[c].listener = l /\ conn[c].round = r}
    BY <1>1 DEF Live
  <2> QED BY <1>1, <2>1, Zenon DEF CountsExact
<1>2. ASSUME NEW c \in Conns, HandlerStep(c) PROVE CountsExact'
  <2>1. /\ \A d \in Conns : d # c => conn'[d] = conn[d]
        /\ conn'[c].listener = conn[c].listener /\ conn'[c].round = conn[c].round
    BY <1>2, HandlerFrame DEF Base
  <2>2. \A l \in Listeners, r \in 1..MaxRounds : Cardinality(Guards(l, r)) \in Nat
    BY GuardsFinite, FS_CardinalityType
  <2>3. CASE Begin(c)
    <3>1. conn[c].stage = "spawned" /\ conn'[c].stage \in Guarded /\ count' = Counted(c, 1)
      BY <1>2, <2>3, HandlerEffect, Zenon DEF Base, Begin, Guarded, TypeInv, Task
    <3>2. \A l \in Listeners, r \in 1..MaxRounds :
              Guards(l, r)' = IF l = conn[c].listener /\ r = conn[c].round THEN Guards(l, r) \cup {c}
                              ELSE Guards(l, r)
      BY <2>1, <3>1 DEF Guards, Live
    <3>3. \A l \in Listeners, r \in 1..MaxRounds : c \notin Guards(l, r)
      BY <3>1 DEF Guards, Live, Guarded
    <3>4. \A l \in Listeners, r \in 1..MaxRounds :
              Cardinality(Guards(l, r) \cup {c}) = Cardinality(Guards(l, r)) + 1
      BY <3>3, GuardsFinite, FS_AddElement, Zenon
    <3>5. \A l \in Listeners, r \in 1..MaxRounds : count'[l][r] = Cardinality(Guards(l, r)')
      <4>1. \A l \in Listeners, r \in 1..MaxRounds :
                count'[l][r] = IF l = conn[c].listener /\ r = conn[c].round THEN count[l][r] + 1
                               ELSE count[l][r]
        BY <3>1, CountedAt
      <4>2. \A l \in Listeners, r \in 1..MaxRounds : count[l][r] = Cardinality(Guards(l, r))
        BY CountsExactIsGuards
      <4> QED BY <3>2, <3>4, <4>1, <4>2
    <3> QED BY <3>5 DEF CountsExact, Guards
  <2>4. CASE DropGuard(c) /\ Live(c)
    <3>1. conn'[c].stage = "ended" /\ count' = Counted(c, -1)
      BY <2>4 DEF DropGuard, Base, TypeInv, Task
    <3>2. \A l \in Listeners, r \in 1..MaxRounds :
              Guards(l, r)' = IF l = conn[c].listener /\ r = conn[c].round THEN Guards(l, r) \ {c}
                              ELSE Guards(l, r)
      BY <2>1, <3>1 DEF Guards, Live, Guarded
    <3>3. c \in Guards(conn[c].listener, conn[c].round)
      BY <2>4 DEF Guards
    <3>4. Cardinality(Guards(conn[c].listener, conn[c].round) \ {c})
            = Cardinality(Guards(conn[c].listener, conn[c].round)) - 1
      BY <3>3, GuardsFinite, FS_RemoveElement, Zenon
    <3>5. \A l \in Listeners, r \in 1..MaxRounds : count'[l][r] = Cardinality(Guards(l, r)')
      <4>1. conn[c].stage # "idle"
        BY <2>4 DEF Live, Guarded
      <4>2. \A l \in Listeners, r \in 1..MaxRounds :
                count'[l][r] = IF l = conn[c].listener /\ r = conn[c].round THEN count[l][r] + (-1)
                               ELSE count[l][r]
        BY <3>1, <4>1, CountedAt
      <4>3. \A l \in Listeners, r \in 1..MaxRounds : count[l][r] = Cardinality(Guards(l, r))
        BY CountsExactIsGuards
      <4> TAKE l \in Listeners, r \in 1..MaxRounds
      <4>4. CASE l = conn[c].listener /\ r = conn[c].round
        <5>1. Cardinality(Guards(l, r)') = Cardinality(Guards(l, r)) - 1
          BY <3>2, <3>4, <4>4
        <5>2. count'[l][r] = count[l][r] + (-1)
          BY <4>2, <4>4
        <5>3. count[l][r] = Cardinality(Guards(l, r)) /\ Cardinality(Guards(l, r)) \in Nat
          BY <2>2, <4>3
        <5> QED BY <5>1, <5>2, <5>3
      <4>5. CASE ~(l = conn[c].listener /\ r = conn[c].round)
        BY <3>2, <4>2, <4>3, <4>5
      <4> QED BY <4>4, <4>5
    <3> QED BY <3>5 DEF CountsExact, Guards
  <2>5. CASE count' = count /\ (conn'[c].stage \in Guarded <=> conn[c].stage \in Guarded)
    BY <1>1, <2>1, <2>5, Zenon
  <2>6. \/ Begin(c) \/ (DropGuard(c) /\ Live(c))
        \/ count' = count /\ (conn'[c].stage \in Guarded <=> conn[c].stage \in Guarded)
    BY <1>2, GuardComesAndGoes DEF Base
  <2> QED BY <2>3, <2>4, <2>5, <2>6
<1>3. ASSUME WorldStep PROVE CountsExact'
  <2>1. count' = count
    BY <1>3, Zenon DEF WorldStep, ListenerNext, RuntimeNext, Accept, RequestRestart, Restart,
             Rebind, AcceptFails, Stop, Flush, Flushed, Bind, HotApply, Revise, Write, Challenge,
             Forget, vars
  <2>2. CASE \A c \in Conns : SameTask(c)
    BY <1>1, <2>1, <2>2, Zenon DEF SameTask
  <2>3. CASE \E l \in Listeners, c \in Conns : conn[c].stage = "idle" /\ conn' = [conn EXCEPT ![c] = Spawned(l)]
    <3>1. PICK l \in Listeners, c \in Conns : conn[c].stage = "idle" /\ conn' = [conn EXCEPT ![c] = Spawned(l)]
      BY <2>3, Zenon
    <3>2. /\ conn'[c].stage \notin Guarded /\ conn[c].stage \notin Guarded
          /\ \A d \in Conns : d # c => conn'[d] = conn[d]
      BY <3>1, SpawnedTyped, Zenon DEF Base, TypeInv, Guarded
    <3> QED BY <1>1, <2>1, <3>2
  <2> QED BY <1>3, <2>2, <2>3, WorldOfConns DEF Base
<1> QED BY <1>2, <1>3, Steps

\* The row of a connection after a step that does not make or drop its guard.
RowKept(c) ==
    /\ tracker[c] = None => tracker'[c] = None
    /\ tracker[c] # None => tracker'[c] # None /\ tracker'[c].listener = tracker[c].listener

LEMMA NotedKeeps ==
    ASSUME TypeInv, NEW c \in Conns,
           \/ \E n \in Names : tracker' = Noted(c, "sni", n)
           \/ tracker' = Noted(c, "target", TRUE)
           \/ tracker' = Noted(c, "status", "ok")
    PROVE  RowKept(c) /\ \A d \in Conns : d # c => tracker'[d] = tracker[d]
<1>1. \A e \in Entries : \A n \in Names :
          /\ [e EXCEPT !["sni"] = n] \in Entries /\ [e EXCEPT !["sni"] = n].listener = e.listener
  BY DEF Entries
<1>2. \A e \in Entries :
          /\ [e EXCEPT !["target"] = TRUE] \in Entries /\ [e EXCEPT !["target"] = TRUE].listener = e.listener
          /\ [e EXCEPT !["status"] = "ok"] \in Entries /\ [e EXCEPT !["status"] = "ok"].listener = e.listener
  BY Zenon DEF Entries
<1>3. tracker \in [Conns -> Entries \cup {None}]
  BY DEF TypeInv
<1>4. PICK f, v : tracker' = [tracker EXCEPT ![c] = IF @ = None THEN @ ELSE [@ EXCEPT ![f] = v]]
  BY DEF Noted
<1>5. /\ tracker[c] = None => tracker'[c] = None
      /\ \A d \in Conns : d # c => tracker'[d] = tracker[d]
  BY <1>3, <1>4
<1>6. CASE tracker[c] # None
  <2>1. tracker[c] \in Entries
    BY <1>3, <1>6
  <2>2. CASE \E n \in Names : tracker' = Noted(c, "sni", n)
    <3>1. PICK n \in Names : tracker' = Noted(c, "sni", n)
      BY <2>2
    <3>2. tracker'[c] = [tracker[c] EXCEPT !["sni"] = n]
      BY <1>3, <1>6, <3>1 DEF Noted
    <3>3. tracker'[c] \in Entries /\ tracker'[c].listener = tracker[c].listener
      BY <1>1, <2>1, <3>2
    <3> QED BY <1>5, <1>6, <3>3, NoneAssumption DEF RowKept
  <2>3. CASE tracker' = Noted(c, "target", TRUE)
    <3>1. tracker'[c] = [tracker[c] EXCEPT !["target"] = TRUE]
      BY <1>3, <1>6, <2>3 DEF Noted
    <3>2. tracker'[c] \in Entries /\ tracker'[c].listener = tracker[c].listener
      BY <1>2, <2>1, <3>1, Zenon
    <3> QED BY <1>5, <1>6, <3>2, NoneAssumption DEF RowKept
  <2>4. CASE tracker' = Noted(c, "status", "ok")
    <3>1. tracker'[c] = [tracker[c] EXCEPT !["status"] = "ok"]
      BY <1>3, <1>6, <2>4 DEF Noted
    <3>2. tracker'[c] \in Entries /\ tracker'[c].listener = tracker[c].listener
      BY <1>2, <2>1, <3>1, Zenon
    <3> QED BY <1>5, <1>6, <3>2, NoneAssumption DEF RowKept
  <2> QED BY <2>2, <2>3, <2>4, Zenon
<1> QED BY <1>5, <1>6 DEF RowKept

LEMMA RowOfHandler ==
    ASSUME TypeInv, TaskInv, NEW c \in Conns, HandlerStep(c)
    PROVE  /\ \A d \in Conns : d # c => tracker'[d] = tracker[d]
           /\ \/ Begin(c) /\ tracker'[c] # None /\ tracker'[c].listener = conn[c].listener
              \/ DropGuard(c) /\ tracker'[c] = None
              \/ /\ RowKept(c)
                 /\ ~Live(c) => conn'[c].stage \notin Guarded
                 /\ Live(c) => conn'[c].stage \in Guarded
<1>1. tracker \in [Conns -> Entries \cup {None}]
  BY DEF TypeInv
<1>2. CASE Begin(c)
  <2>1. conn[c].listener \in Listeners
    BY <1>2 DEF Begin, TaskInv
  <2>2. kind[conn[c].listener] \in Tls \cup {"http", "forward"}
    BY <2>1, ConfigsAssumption DEF kind, TypeInv
  <2>3. Entry(conn[c].listener) \in Entries /\ Entry(conn[c].listener).listener = conn[c].listener
    BY <2>1 DEF Entry, Entries
  <2>4. \A e \in Entries, type \in {"http_passthrough", "port_forward"} :
            [e EXCEPT !.type = type] \in Entries /\ [e EXCEPT !.type = type].listener = e.listener
    BY DEF Entries
  <2>5. \E e \in Entries : e.listener = conn[c].listener /\ tracker' = [tracker EXCEPT ![c] = e]
    <3>1. CASE kind[conn[c].listener] \in Tls
      BY <1>2, <2>3, <3>1, Zenon DEF Begin
    <3>2. CASE kind[conn[c].listener] \notin Tls
      <4>1. Fallback(kind[conn[c].listener]) \in {"http_passthrough", "port_forward"}
        BY <2>2, <3>2, TypesOfRoutes
      <4>2. tracker' = [tracker EXCEPT ![c] = [Entry(conn[c].listener) EXCEPT !.type = Fallback(kind[conn[c].listener])]]
        BY <1>2, <3>2 DEF Begin
      <4> QED BY <2>3, <2>4, <4>1, <4>2, Zenon
    <3> QED BY <3>1, <3>2
  <2> QED BY <1>1, <1>2, <2>5, NoneAssumption, Zenon
<1>3. CASE DropGuard(c)
  BY <1>1, <1>3 DEF DropGuard
<1>4. CASE ~Begin(c) /\ ~DropGuard(c)
  <2>1. conn'[c].stage \in Guarded <=> conn[c].stage \in Guarded
    BY <1>4, GuardComesAndGoes
  <2>2. RowKept(c) /\ \A d \in Conns : d # c => tracker'[d] = tracker[d]
    <3>1. CASE tracker' = tracker
      BY <3>1 DEF RowKept
    <3>2. CASE \/ \E n \in Names : tracker' = Noted(c, "sni", n)
               \/ tracker' = Noted(c, "target", TRUE)
               \/ tracker' = Noted(c, "status", "ok")
      BY <3>2, NotedKeeps, Zenon
    <3>3. CASE ReadHello(c)
      <4>1. PICK h \in Hellos, stage \in {"serve", "closing", "dispatch"}, route \in TlsRoutes :
                HelloRead(c, h, stage, route)
        BY <3>3, ReadHelloStep
      <4>2. CASE tracker[c] # None /\ tracker' # tracker
        <5>1. PICK name \in {h.name, tracker[c].sni}, type \in {"tls_terminate", "tls_passthrough"} :
                  tracker' = Described(c, name, type)
          BY <4>1, <4>2 DEF HelloRead
        <5>2. tracker[c] \in Entries /\ name \in Names \cup {None}
          BY <1>1, <4>2 DEF Hellos, Entries
        <5>3. /\ [tracker[c] EXCEPT !.sni = name, !.type = type] \in Entries
              /\ [tracker[c] EXCEPT !.sni = name, !.type = type].listener = tracker[c].listener
          BY <5>2, Zenon DEF Entries
        <5> QED BY <1>1, <4>2, <5>1, <5>3, NoneAssumption DEF Described, RowKept
      <4> QED BY <3>1, <4>1, <4>2 DEF HelloRead
    <3>4. CASE ReadHead(c)
      <4>1. PICK h \in Hellos, stage \in {"select", "closing"}, route \in HttpRoutes :
                HeadRead(c, h, stage, route)
        BY <3>4, ReadHeadStep
      <4>2. h.name \in Names
        BY DEF Hellos
      <4> QED BY <3>1, <3>2, <4>1, <4>2, Zenon DEF HeadRead
    <3>5. CASE Dispatch(c)
      <4>1. conn[c].hello.name \in Names
        BY <3>5 DEF Dispatch, TaskInv, Equipped, TypeInv, Task, Hellos
      <4> QED BY <3>1, <3>2, <3>5, <4>1, Zenon DEF Dispatch
    <3>6. CASE Select(c) \/ Connect(c) \/ Serve(c)
      BY <3>2, <3>6, Zenon DEF Select, Connect, Serve
    <3>7. CASE \/ Handshake(c) \/ ConnectRefused(c) \/ MintToken(c) \/ WriteOwnHello(c)
               \/ ObserveOwnHello(c) \/ WriteHello(c) \/ Leaves(c) \/ Close(c) \/ Cancel(c)
      <4>1. tracker' = tracker
        BY <1>4, <3>7 DEF Handshake, ConnectRefused, MintToken, WriteOwnHello, ObserveOwnHello,
                          WriteHello, Leaves, Close, Cancel
      <4> QED BY <3>1, <4>1
    <3> QED BY <1>4, <3>3, <3>4, <3>5, <3>6, <3>7, Zenon DEF HandlerStep, Hastens
  <2> QED BY <2>1, <2>2 DEF Live
<1> QED BY <1>2, <1>3, <1>4, Zenon

\* A row appears with the guard and goes with it.  A reload clears the rows of
\* the revisions before it, whose guards may still be alive.
LEMMA TrackerStep == Base /\ TrackerExact /\ [Next]_vars => TrackerExact'
<1> SUFFICES ASSUME Base, TrackerExact, [Next]_vars PROVE TrackerExact'
  OBVIOUS
<1>1. ASSUME NEW c \in Conns, HandlerStep(c) PROVE TrackerExact'
  <2>1. /\ \A d \in Conns : d # c => conn'[d] = conn[d]
        /\ conn'[c].listener = conn[c].listener /\ conn'[c].revision = conn[c].revision
        /\ runtime' = runtime
    BY <1>1, HandlerFrame DEF Base
  <2>2. \A d \in Conns : d # c => tracker'[d] = tracker[d]
    BY <1>1, RowOfHandler, Zenon DEF Base
  <2>3. CASE Begin(c) /\ tracker'[c] # None /\ tracker'[c].listener = conn[c].listener
    <3>1. conn'[c].stage \in Guarded
      BY <2>3 DEF Begin, Base, TypeInv, Task, Guarded
    <3> QED BY <2>1, <2>2, <2>3, <3>1 DEF TrackerExact, Live
  <2>4. CASE DropGuard(c) /\ tracker'[c] = None
    <3>1. conn'[c].stage \notin Guarded
      BY <2>4 DEF DropGuard, Base, TypeInv, Task, Guarded
    <3> QED BY <2>1, <2>2, <2>4, <3>1, Zenon DEF TrackerExact, Live
  <2>5. CASE RowKept(c) /\ (Live(c) <=> conn'[c].stage \in Guarded)
    BY <2>1, <2>2, <2>5, Zenon DEF TrackerExact, Live, RowKept
  <2> QED BY <1>1, <2>3, <2>4, <2>5, RowOfHandler, Zenon DEF Base
<1>2. ASSUME WorldStep PROVE TrackerExact'
  <2>1. CASE \E l \in Listeners, c \in Conns :
               /\ conn[c].stage = "idle" /\ conn' = [conn EXCEPT ![c] = Spawned(l)]
               /\ UNCHANGED <<runtime, tracker>>
    <3>1. PICK l \in Listeners, c \in Conns :
               conn[c].stage = "idle" /\ conn' = [conn EXCEPT ![c] = Spawned(l)]
      BY <2>1, Zenon
    <3>2. /\ conn'[c].stage \notin Guarded /\ conn[c].stage \notin Guarded
          /\ \A d \in Conns : d # c => conn'[d] = conn[d]
      BY <3>1, SpawnedTyped, Zenon DEF Base, TypeInv, Guarded
    <3> QED BY <2>1, <3>2, Zenon DEF TrackerExact, Live
  <2>2. CASE /\ \A c \in Conns : SameTask(c)
             /\ tracker' = tracker /\ runtime'.revision = runtime.revision
    BY <2>2 DEF SameTask, TrackerExact, Live
  <2>3. CASE /\ \A c \in Conns : SameTask(c)
             /\ tracker' = [c \in Conns |-> None] /\ runtime'.revision = runtime.revision + 1
    <3>1. \A c \in Conns : Live(c) => conn[c].revision # runtime.revision + 1
      <4>1. runtime.revision \in Nat /\ \A c \in Conns : conn[c].revision \in Nat
        BY DEF Base, TypeInv, Running, Task
      <4>2. \A c \in Conns : Live(c) => conn[c].revision <= runtime.revision
        BY Zenon DEF Base, TaskInv, Live, Guarded
      <4> QED BY <4>1, <4>2
    <3> QED BY <2>3, <3>1 DEF SameTask, TrackerExact, Live
  <2>4. \/ tracker' = tracker /\ runtime'.revision = runtime.revision
        \/ tracker' = [c \in Conns |-> None] /\ runtime'.revision = runtime.revision + 1
    BY <1>2, Zenon DEF Base, TypeInv, Running, WorldStep, ListenerNext, RuntimeNext, Accept, RequestRestart, Restart,
             Rebind, AcceptFails, Stop, Flush, Flushed, Bind, HotApply, Revise, Write, Challenge,
             Forget, vars
  <2> QED BY <1>2, <2>1, <2>2, <2>3, <2>4, WorldOfConns DEF Base
<1> QED BY <1>1, <1>2, Steps

\* What a guard registers is there as long as the guard and no longer: the counts
\* of every round and the rows of the tracker are exact, for any number of
\* connections, listeners, rounds and reloads (ConnGuard::start and its Drop in
\* dataplane/lifecycle.rs, the clearing of ACTIVE by a new revision).
THEOREM GuardsAreExact == Spec => []GuardsExact
<1>1. Init => Base /\ CountsExact /\ TrackerExact
  <2> SUFFICES ASSUME Init PROVE Base /\ CountsExact /\ TrackerExact
    OBVIOUS
  <2>1. \A c \in Conns : conn[c].stage = "idle" /\ tracker[c] = None
    BY Zenon DEF Init, Idle
  <2>2. \A l, r : Guards(l, r) = {}
    BY <2>1 DEF Guards, Live, Guarded
  <2>3. CountsExact
    BY <2>2, FS_EmptySet, CountsExactIsGuards, Zenon DEF Init
  <2>4. TrackerExact
    BY <2>1 DEF TrackerExact, Live, Guarded
  <2> QED BY <2>3, <2>4, TypesInit DEF Base
<1>2. Base /\ CountsExact /\ TrackerExact /\ [Next]_vars => (Base /\ CountsExact /\ TrackerExact)'
  BY BaseStep, CountsStep, TrackerStep
<1>3. Base /\ CountsExact /\ TrackerExact => GuardsExact
  BY DEF GuardsExact
<1> QED BY <1>1, <1>2, <1>3, PTL DEF Spec

=============================================================================
