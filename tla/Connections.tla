------------------------------ MODULE Connections ------------------------------
(***************************************************************************)
(* The life of a connection, from the accept loop to its accounting record *)
(* (CDR), and what listener restarts, configuration reloads and the end of  *)
(* the process do to it.                                                    *)
(*                                                                          *)
(* A listener runs in ROUNDS (src/src/runtime.rs, run_restartable): one     *)
(* round is one accept loop with its own ListenerStats and a Controller     *)
(* child that owns the connection tasks.  Dropping the round signals every  *)
(* one of its tasks; a signalled task goes on until its next await and is   *)
(* dropped there, at a moment of its own.  The handler's ConnGuard          *)
(* (dataplane/lifecycle.rs) owns the tracker entry, the active count and    *)
(* the CDR.                                                                 *)
(*                                                                          *)
(* The handlers are followed from await to await.  What they wait for       *)
(* (bytes, names, certificates, backends) is left to the environment; the   *)
(* choice of a backend is BackendGroups, the HTTP exchange HttpExchange and *)
(* the copying of bytes Relay.                                              *)
(***************************************************************************)
EXTENDS Integers, Sequences, FiniteSets

CONSTANTS Conns,       \* the connections of a behaviour, in no order
          Listeners,   \* the listeners of the configuration
          Default,     \* the mandatory listener
          Names,       \* server names / hosts
          Configs,     \* the configurations: control name, routes, accounting
          Scenarios,   \* the environments: the kinds of the listeners, where a
                       \* connection may arrive, the first configurations, the
                       \* names clients ask for, the events
          MaxRounds,   \* bound on the rounds of one listener
          MaxQueue,    \* QUEUE_CAPACITY of the accounting channel
          None

ASSUME ListenersAssumption ==
    /\ Default \in Listeners /\ None \notin Names \cup Listeners
    /\ MaxRounds \in Nat \ {0} /\ MaxQueue \in Nat /\ IsFiniteSet(Conns)

VARIABLES scenario,    \* the environment of this behaviour, fixed
          live,        \* the configuration new connections snapshot
          runtime,     \* phase of run_revision, number of the revision
          listener,    \* state, round and pending restarts of a listener
          conn,        \* the handler tasks
          tracker,     \* active_tracker::ACTIVE
          count,       \* ListenerStats::active of every round
          accounting,  \* SENDER, the writer thread and its channel
          log,         \* the records written
          challenges,  \* names with a registered TLS-ALPN challenge
          seen,        \* hello_cache: identifiers recently sent upstream
          sent         \* identifiers on their way, which may come back

vars == <<scenario, live, runtime, listener, conn, tracker, count, accounting, log,
          challenges, seen, sent>>

kind == scenario.kind
Happens(event) == event \in scenario.events

-----------------------------------------------------------------------------
(* Connections, tracker entries and records. *)

Tls == {"default", "tls"}
Relayed == {"passthrough", "terminate", "reverse", "proxy", "forward"}
Routes == Relayed \cup {"control", "acme", "reject", "denied", "redirect"}

\* The routes a table of each kind of listener can lead to.
ASSUME ConfigsAssumption ==
    /\ \A config \in Configs, name \in Names :
          /\ \A k \in Tls : config.routes[k][name] \in
                              {"passthrough", "terminate", "reverse", "reject", "denied"}
          /\ config.routes["http"][name] \in {"proxy", "redirect", "denied"}
    /\ \A s \in Scenarios : /\ s.kind \in [Listeners -> Tls \cup {"http", "forward"}]
                             /\ s.configs \subseteq Configs

\* What a client, or a hop of this proxy before it, presents: the server name,
\* whether it offers acme-tls/1, and the loop identifier, which is the hello's
\* random or the token of X-Tlsproxy-Rid.
Identifiers == Conns \X {"client", "own", "token"}
Hellos == [name: Names, acme: BOOLEAN, id: Identifiers]

\* Where a handler awaits.  "spawned" has not been polled: no guard exists.
Guarded == {"read", "dispatch", "serve", "answer", "select", "handshake", "head",
            "connect", "upstream", "observe", "mint", "write", "relay", "closing"}
Stages == Guarded \cup {"idle", "spawned", "ended"}

Entries == [listener: Listeners, sni: Names \cup {None}, target: BOOLEAN, status: {"failed", "ok"},
            type: {"tls_terminate", "tls_passthrough", "http_passthrough", "port_forward", None}]
ASSUME NoneAssumption == None \notin Entries \cup Hellos \cup Routes

Entry(l) == [listener |-> l, sni |-> None, target |-> FALSE, status |-> "failed",
             type |-> None]

Record(c, e, fallback) ==
    [conn |-> c, sni |-> e.sni, target |-> e.target, status |-> e.status,
     type |-> IF e.type = None THEN fallback ELSE e.type]

Idle == [stage |-> "idle", listener |-> None, round |-> 0, revision |-> 0,
         config |-> None, hello |-> None, route |-> None, cancelled |-> FALSE,
         reached |-> FALSE, due |-> FALSE]

Live(c) == conn[c].stage \in Guarded

\* set_sni, set_target, set_status and set_listener_type change nothing when
\* the entry is gone.
Noted(c, f, v) ==
    [tracker EXCEPT ![c] = IF @ = None THEN @ ELSE [@ EXCEPT ![f] = v]]

Goes(c, stage) == conn' = [conn EXCEPT ![c].stage = stage]

-----------------------------------------------------------------------------
(* Accounting: submit and the queue. *)

\* Mutant: the queue gives up one record early.
SubmitShort(r) ==
    IF accounting.on /\ accounting.writer /\ Len(accounting.queue) < MaxQueue - 1
    THEN accounting' = [accounting EXCEPT !.queue = Append(@, r)]
    ELSE UNCHANGED accounting

\* try_send: the record is dropped when the queue is full or the writer gone.
Submit(r) ==
    IF accounting.on /\ accounting.writer /\ Len(accounting.queue) < MaxQueue
    THEN accounting' = [accounting EXCEPT !.queue = Append(@, r)]
    ELSE UNCHANGED accounting

Fallback(k) == CASE k \in Tls -> "tls_passthrough"
                 [] k = "http" -> "http_passthrough"
                 [] k = "forward" -> "port_forward"

\* ListenerStats of the connection's own round.
Counted(c, n) == [count EXCEPT ![conn[c].listener][conn[c].round] = @ + n]

\* (History) the end of the connection must be recorded: its revision is running
\* with accounting, and the queue has room.
MustRecord(c) ==
    /\ runtime.phase = "running" /\ conn[c].revision = runtime.revision
    /\ conn[c].config.accounting /\ Len(accounting.queue) < MaxQueue

\* Mutant: the count goes down only with a row in the tracker.
DropGuardCounted(c) ==
    /\ conn' = [conn EXCEPT ![c].stage = "ended", ![c].due = MustRecord(c)]
    /\ tracker' = [tracker EXCEPT ![c] = None]
    /\ count' = IF tracker[c] = None THEN count ELSE Counted(c, -1)
    /\ IF tracker[c] # None
       THEN Submit(Record(c, tracker[c], Fallback(kind[conn[c].listener])))
       ELSE UNCHANGED accounting

\* Drop of the guard: the record is made of what the tracker still holds; the
\* count of the guard's own round goes down in any case.
DropGuard(c) ==
    /\ conn' = [conn EXCEPT ![c].stage = "ended", ![c].due = MustRecord(c)]
    /\ tracker' = [tracker EXCEPT ![c] = None]
    /\ count' = Counted(c, -1)
    /\ IF tracker[c] # None
       THEN Submit(Record(c, tracker[c], Fallback(kind[conn[c].listener])))
       ELSE UNCHANGED accounting

-----------------------------------------------------------------------------
(* Routing. *)

\* classify: an active challenge first, then the reserved control name, then the
\* listener's table.
Classify(h, config, allowed) ==
    IF h.acme /\ h.name \in challenges THEN "acme"
    ELSE IF h.name = config.control THEN "control"
    ELSE IF allowed THEN "ordinary" ELSE "denied"

Decide(l, h, config) ==
    LET action == config.routes[kind[l]][h.name]
        class == Classify(h, config, action # "denied") IN
    IF class = "ordinary" THEN action ELSE class

TypeOf(route) ==
    CASE route \in {"control", "acme", "terminate", "reverse"} -> "tls_terminate"
      [] route \in {"passthrough", "reject", "denied"} -> "tls_passthrough"

\* is_looped: a hit consumes the entry.
Looped(id) == id \in seen
Consumed(id) == seen \ {id}

-----------------------------------------------------------------------------
(* The handlers. *)

\* The accept loop: a task is spawned with the configuration of this moment.
Accept(l, c) ==
    /\ runtime.phase = "running" /\ listener[l].state = "accepting"
    /\ conn[c].stage = "idle" /\ l \in scenario.arrives[c]
    /\ conn' = [conn EXCEPT ![c] = [Idle EXCEPT
                    !.stage = "spawned", !.listener = l, !.round = listener[l].round,
                    !.revision = runtime.revision, !.config = live]]
    /\ UNCHANGED <<scenario, live, runtime, listener, tracker, count, accounting, log,
                   challenges, seen, sent>>

\* First poll: ConnGuard::start, and the listener type where it is known.
Begin(c) ==
    LET l == conn[c].listener IN
    /\ conn[c].stage = "spawned"
    /\ conn' = [conn EXCEPT ![c].stage = IF kind[l] = "forward" THEN "select" ELSE "read",
                            ![c].route = IF kind[l] = "forward" THEN "forward" ELSE @]
    /\ tracker' = [tracker EXCEPT ![c] = IF kind[l] \in Tls THEN Entry(l)
                       ELSE [Entry(l) EXCEPT !.type = Fallback(kind[l])]]
    /\ count' = Counted(c, 1)
    /\ UNCHANGED <<scenario, live, runtime, listener, accounting, log, challenges, seen, sent>>

\* What can arrive: a client's own hello, or one of this proxy that comes back.
Arriving(c, tags) ==
    {h \in Hellos : /\ h.id = <<c, "client">> /\ h.name \in scenario.names
                      /\ (h.acme => Happens("acme"))}
      \cup {h \in sent : h.id[2] \in tags /\ Happens("loop")}

\* The ClientHello is read (5 s).  The default listener notes the name at once;
\* an additional listener leaves it to the handler of the route.
ReadHello(c) ==
    LET l == conn[c].listener IN
    /\ conn[c].stage = "read" /\ kind[l] \in Tls
    /\ \E h \in Arriving(c, {"client", "own"}) :
         LET route == IF kind[l] = "default" THEN Decide(l, h, conn[c].config)
                      ELSE conn[c].config.routes[kind[l]][h.name]
             next == IF route = "control" THEN "serve"
                     ELSE IF kind[l] = "tls" /\ route = "denied" THEN "closing"
                     ELSE "dispatch" IN
         /\ conn' = [conn EXCEPT ![c].stage = next, ![c].hello = h, ![c].route = route]
         /\ tracker' = [tracker EXCEPT ![c] =
                IF @ = None \/ next = "closing" THEN @
                ELSE [@ EXCEPT !.sni = IF kind[l] = "default" THEN h.name ELSE tracker[c].sni,
                               !.type = TypeOf(route)]]
         /\ sent' = sent \ {h}
    /\ UNCHANGED <<scenario, live, runtime, listener, count, accounting, log, challenges, seen>>

\* dispatch_non_control.  The challenge is looked up again: it may be gone.
Dispatch(c) ==
    LET h == conn[c].hello
        ordinary == conn[c].route \notin {"acme", "denied"} IN
    /\ conn[c].stage = "dispatch"
    /\ seen' = IF ordinary THEN Consumed(h.id) ELSE seen
    /\ Goes(c, CASE conn[c].route = "acme" /\ h.name \in challenges -> "answer"
                 [] ordinary /\ ~Looped(h.id) /\ conn[c].route = "passthrough" -> "select"
                 [] ordinary /\ ~Looped(h.id) /\ conn[c].route = "terminate" -> "select"
                 [] ordinary /\ ~Looped(h.id) /\ conn[c].route = "reverse" -> "handshake"
                 [] OTHER -> "closing")
    /\ tracker' = IF ordinary /\ ~Looped(h.id) /\ conn[c].route \in {"passthrough", "terminate"}
                  THEN Noted(c, "sni", h.name) ELSE tracker
    /\ UNCHANGED <<scenario, live, runtime, listener, count, accounting, log, challenges, sent>>

\* The control service, or the challenge certificate, is served.
Serve(c) ==
    /\ conn[c].stage \in {"serve", "answer"}
    /\ conn' = [conn EXCEPT ![c].stage = "closing", ![c].reached = TRUE]
    /\ tracker' = Noted(c, "status", "ok")
    /\ UNCHANGED <<scenario, live, runtime, listener, count, accounting, log, challenges,
                   seen, sent>>

\* The request head is read (10 s), on the wire or under the terminated TLS, and
\* admitted: its token was not sent by this proxy, its host is the server name.
ReadHead(c) ==
    LET l == conn[c].listener
        tls == conn[c].stage = "head" IN
    /\ tls \/ (conn[c].stage = "read" /\ kind[l] = "http")
    /\ \E h \in Arriving(c, {"token"}) :
         LET route == IF tls THEN "reverse" ELSE conn[c].config.routes["http"][h.name]
             admitted == ~Looped(h.id) /\ (tls => h.name = conn[c].hello.name) IN
         /\ conn' = [conn EXCEPT
                ![c].stage = IF route \in Relayed /\ admitted THEN "select" ELSE "closing",
                ![c].hello = h, ![c].route = route]
         /\ seen' = IF route \in Relayed THEN Consumed(h.id) ELSE seen
         /\ tracker' = IF route \in Relayed /\ admitted THEN Noted(c, "sni", h.name)
                       ELSE tracker
         /\ sent' = sent \ {h}
    /\ UNCHANGED <<scenario, live, runtime, listener, count, accounting, log, challenges>>

\* Mutant: the hello is not registered before it can be sent.
SelectLate(c) ==
    /\ conn[c].stage = "select"
    /\ tracker' = Noted(c, "target", TRUE)
    /\ Goes(c, IF conn[c].route = "terminate" THEN "handshake" ELSE "connect")
    /\ UNCHANGED <<scenario, live, runtime, listener, count, accounting, log, challenges,
                   seen, sent>>

\* A backend is chosen and noted.  A hello to be forwarded is remembered BEFORE
\* the connection upstream is opened.
Select(c) ==
    /\ conn[c].stage = "select"
    /\ tracker' = Noted(c, "target", TRUE)
    /\ seen' = IF conn[c].route = "passthrough" THEN seen \cup {conn[c].hello.id} ELSE seen
    /\ Goes(c, IF conn[c].route = "terminate" THEN "handshake" ELSE "connect")
    /\ UNCHANGED <<scenario, live, runtime, listener, count, accounting, log, challenges, sent>>

\* The client's TLS handshake (5 s), with the certificate of the name.
Handshake(c) ==
    /\ conn[c].stage = "handshake"
    /\ Goes(c, IF conn[c].route = "reverse" THEN "head" ELSE "connect")
    /\ UNCHANGED <<scenario, live, runtime, listener, tracker, count, accounting, log,
                   challenges, seen, sent>>

\* reject_obvious_self_connect: an address of this proxy is refused, except by
\* passthrough and by a route that terminates TLS and forwards plain bytes.
RefusesSelf(c) ==
    conn[c].route \in {"forward", "proxy", "reverse"}
      \/ (conn[c].route = "terminate" /\ conn[c].config.upstreamTls)

\* After the TCP connection: the token of a request, TLS upstream, the hello or
\* the rewritten head.
Http == {"proxy", "reverse"}
AfterTls(c) == IF conn[c].route \in Http THEN "write" ELSE "relay"
AfterMint(c) == IF conn[c].config.upstreamTls THEN "upstream" ELSE AfterTls(c)
AfterConnect(c) == CASE conn[c].route = "passthrough" -> "write"
                     [] conn[c].route \in Http -> "mint"
                     [] OTHER -> AfterMint(c)

Connect(c) ==
    /\ conn[c].stage = "connect"
    /\ conn' = [conn EXCEPT ![c].stage = AfterConnect(c), ![c].reached = TRUE]
    /\ tracker' = Noted(c, "status", "ok")
    /\ UNCHANGED <<scenario, live, runtime, listener, count, accounting, log, challenges,
                   seen, sent>>

ConnectRefused(c) ==
    /\ conn[c].stage = "connect" /\ RefusesSelf(c)
    /\ Goes(c, "closing")
    /\ UNCHANGED <<scenario, live, runtime, listener, tracker, count, accounting, log,
                   challenges, seen, sent>>

\* mint_request_token registers the token before the head that carries it is
\* written.
MintToken(c) ==
    /\ conn[c].stage = "mint"
    /\ conn' = [conn EXCEPT ![c].stage = AfterMint(c), ![c].hello.id = <<c, "token">>]
    /\ seen' = seen \cup {<<c, "token">>}
    /\ UNCHANGED <<scenario, live, runtime, listener, tracker, count, accounting, log,
                   challenges, sent>>

\* The proxy's own hello: ClientHelloTrackingStream writes it, then remembers it.
WriteOwnHello(c) ==
    /\ conn[c].stage = "upstream"
    /\ Goes(c, "observe")
    /\ \E n \in IF conn[c].hello = None THEN Names ELSE {conn[c].hello.name} :
           sent' = sent \cup {[name |-> n, acme |-> FALSE, id |-> <<c, "own">>]}
    /\ UNCHANGED <<scenario, live, runtime, listener, tracker, count, accounting, log,
                   challenges, seen>>

ObserveOwnHello(c) ==
    /\ conn[c].stage = "observe"
    /\ Goes(c, AfterTls(c))
    /\ seen' = seen \cup {<<c, "own">>}
    /\ UNCHANGED <<scenario, live, runtime, listener, tracker, count, accounting, log,
                   challenges, sent>>

\* The hello, or the head, goes upstream.
WriteHello(c) ==
    /\ conn[c].stage = "write"
    /\ Goes(c, "relay")
    /\ sent' = sent \cup {conn[c].hello}
    /\ UNCHANGED <<scenario, live, runtime, listener, tracker, count, accounting, log,
                   challenges, seen>>

\* An error or a time-out of whatever the handler waits for, or the end of the
\* relay.
Leaves(c) ==
    /\ Live(c) /\ conn[c].stage \notin {"dispatch", "closing"}
    /\ Goes(c, "closing")
    /\ UNCHANGED <<scenario, live, runtime, listener, tracker, count, accounting, log,
                   challenges, seen, sent>>

Close(c) ==
    /\ conn[c].stage = "closing"
    /\ DropGuard(c)
    /\ UNCHANGED <<scenario, live, runtime, listener, log, challenges, seen, sent>>

\* Mutant: a relaying task does not listen for the signal.
CancelUnlessRelaying(c) ==
    /\ conn[c].cancelled /\ conn[c].stage # "relay" /\ (Live(c) \/ conn[c].stage = "spawned")
    /\ IF Live(c) THEN DropGuard(c)
       ELSE Goes(c, "ended") /\ UNCHANGED <<tracker, count, accounting>>
    /\ UNCHANGED <<scenario, live, runtime, listener, log, challenges, seen, sent>>

\* The signalled task reaches an await and is dropped, its guard with it; a
\* task never polled has none.
Cancel(c) ==
    /\ conn[c].cancelled /\ (Live(c) \/ conn[c].stage = "spawned")
    /\ IF Live(c) THEN DropGuard(c)
       ELSE Goes(c, "ended") /\ UNCHANGED <<tracker, count, accounting>>
    /\ UNCHANGED <<scenario, live, runtime, listener, log, challenges, seen, sent>>

-----------------------------------------------------------------------------
(* The environment of the handlers. *)

\* A renewal registers its challenge, its guard removes it (or it expires).
Challenge(n) ==
    /\ Happens("acme")
    /\ challenges' = IF n \in challenges THEN challenges \ {n} ELSE challenges \cup {n}
    /\ UNCHANGED <<scenario, live, runtime, listener, conn, tracker, count, accounting, log,
                   seen, sent>>

\* TTL of hello_cache: it outlives the time an identifier may take to return.
Forget(h) ==
    /\ h \in sent /\ Happens("loop")
    /\ sent' = sent \ {h} /\ seen' = Consumed(h.id)
    /\ UNCHANGED <<scenario, live, runtime, listener, conn, tracker, count, accounting, log,
                   challenges>>

-----------------------------------------------------------------------------
(* Listeners and revisions. *)

\* The tasks of a set of rounds are signalled.
Signalled(rounds) ==
    [c \in Conns |-> IF <<conn[c].listener, conn[c].round>> \in rounds
                        /\ conn[c].stage \notin {"idle", "ended"}
                     THEN [conn[c] EXCEPT !.cancelled = TRUE] ELSE conn[c]]

AllRounds == {<<l, listener[l].round>> : l \in Listeners}

\* A hot apply: later connections see it.
HotApply(config) ==
    /\ Happens("hot")
    /\ runtime.phase = "running" /\ config # live /\ config.accounting = live.accounting
    /\ live' = config
    /\ UNCHANGED <<scenario, runtime, listener, conn, tracker, count, accounting, log,
                   challenges, seen, sent>>

\* request_listener_restart, 250 ms after the request was answered.
RequestRestart(l) ==
    /\ Happens("restart")
    /\ runtime.phase = "running" /\ listener[l].state # "down"
    /\ listener[l].requests + listener[l].round < MaxRounds
    /\ listener[l].state = "rebinding" => listener[l].requests + listener[l].round + 1 < MaxRounds
    /\ listener' = [listener EXCEPT ![l].requests = @ + 1]
    /\ UNCHANGED <<scenario, live, runtime, conn, tracker, count, accounting, log,
                   challenges, seen, sent>>

\* run_restartable: the round is dropped.
Restart(l) ==
    /\ listener[l].state = "accepting" /\ listener[l].requests > 0
    /\ listener' = [listener EXCEPT ![l].state = "rebinding", ![l].requests = @ - 1]
    /\ conn' = Signalled({<<l, listener[l].round>>})
    /\ UNCHANGED <<scenario, live, runtime, tracker, count, accounting, log, challenges,
                   seen, sent>>

\* The port is bound again (20 attempts), or the listener stays down.
Rebind(l) ==
    /\ listener[l].state = "rebinding"
    /\ \/ listener' = [listener EXCEPT ![l].state = "accepting", ![l].round = @ + 1]
       \/ listener' = [listener EXCEPT ![l].state = "down", ![l].requests = 0]
    /\ UNCHANGED <<scenario, live, runtime, conn, tracker, count, accounting, log,
                   challenges, seen, sent>>

\* accept() fails: the default listener's loop returns the error and its task
\* ends; the loops of the others go on.
AcceptFails(l) ==
    /\ Happens("fault")
    /\ listener[l].state = "accepting" /\ kind[l] = "default"
    /\ listener' = [listener EXCEPT ![l].state = "down", ![l].requests = 0]
    /\ conn' = Signalled({<<l, listener[l].round>>})
    /\ UNCHANGED <<scenario, live, runtime, tracker, count, accounting, log, challenges,
                   seen, sent>>

\* Ctrl-C or a reload: the root controller is cancelled.
Stop(exit) ==
    /\ runtime.phase = "running" /\ Happens(IF exit THEN "exit" ELSE "reload")
    /\ ~exit => \A l \in Listeners : listener[l].round < MaxRounds
    /\ runtime' = [runtime EXCEPT !.phase = "stopping", !.exit = exit]
    /\ listener' = [l \in Listeners |-> [listener[l] EXCEPT !.state = "down", !.requests = 0]]
    /\ conn' = Signalled(AllRounds)
    /\ UNCHANGED <<scenario, live, tracker, count, accounting, log, challenges, seen, sent>>

Owed == {c \in Conns : \E i \in 1..Len(accounting.queue) : accounting.queue[i].conn = c}

\* Mutant: shutdown does not wait for the writer.
FlushUnawaited ==
    /\ runtime.phase = "stopping"
    /\ runtime' = [runtime EXCEPT !.phase = "stopped"]
    /\ IF accounting.on /\ accounting.writer
       THEN /\ Len(accounting.queue) < MaxQueue
            /\ accounting' = [accounting EXCEPT !.queue = Append(@, [conn |-> None]),
                                                !.owed = Owed]
       ELSE UNCHANGED accounting
    /\ UNCHANGED <<scenario, live, listener, conn, tracker, count, log, challenges, seen, sent>>

\* accounting::shutdown sends the flush marker, awaiting room ...
Flush ==
    /\ runtime.phase = "stopping"
    /\ IF accounting.on /\ accounting.writer
       THEN /\ Len(accounting.queue) < MaxQueue
            /\ accounting' = [accounting EXCEPT !.queue = Append(@, [conn |-> None]),
                                                !.owed = Owed]
            /\ runtime' = [runtime EXCEPT !.phase = "flushing"]
       ELSE /\ UNCHANGED accounting
            /\ runtime' = [runtime EXCEPT !.phase = "stopped"]
    /\ UNCHANGED <<scenario, live, listener, conn, tracker, count, log, challenges, seen, sent>>

\* Mutant: the writer does not stop at the flush marker.
WriteEndless ==
    /\ accounting.writer /\ accounting.queue # <<>>
    /\ accounting' = [accounting EXCEPT !.queue = Tail(@)]
    /\ log' = IF Head(accounting.queue).conn = None THEN log
              ELSE Append(log, Head(accounting.queue))
    /\ UNCHANGED <<scenario, live, runtime, listener, conn, tracker, count, challenges, seen, sent>>

\* ... the writer thread takes what precedes it and ends ...
Write ==
    /\ accounting.writer /\ accounting.queue # <<>>
    /\ IF Head(accounting.queue).conn = None
       THEN /\ accounting' = [accounting EXCEPT !.writer = FALSE, !.queue = <<>>]
            /\ UNCHANGED log
       ELSE /\ accounting' = [accounting EXCEPT !.queue = Tail(@)]
            /\ log' = Append(log, Head(accounting.queue))
    /\ UNCHANGED <<scenario, live, runtime, listener, conn, tracker, count, challenges, seen, sent>>

\* ... and shutdown returns.
Flushed ==
    /\ runtime.phase = "flushing" /\ ~accounting.writer
    /\ runtime' = [runtime EXCEPT !.phase = "stopped"]
    /\ UNCHANGED <<scenario, live, listener, conn, tracker, count, accounting, log,
                   challenges, seen, sent>>

\* The next revision: accounting::init (an error when it was ever on), then the
\* tracker is cleared while signalled tasks may still hold their guards.
Revise(config) ==
    /\ runtime.phase = "stopped" /\ ~runtime.exit
    /\ live' = config
    /\ IF config.accounting /\ accounting.on
       THEN /\ runtime' = [runtime EXCEPT !.exit = TRUE]
            /\ UNCHANGED <<accounting, tracker>>
       ELSE /\ runtime' = [runtime EXCEPT !.phase = "binding", !.revision = @ + 1]
            /\ accounting' = [accounting EXCEPT !.on = @ \/ config.accounting,
                                                !.writer = @ \/ config.accounting]
            /\ tracker' = [c \in Conns |-> None]
    /\ UNCHANGED <<scenario, listener, conn, count, log, challenges, seen, sent>>

\* Every listener is bound, then the accept loops are spawned.
Bind ==
    /\ runtime.phase = "binding"
    /\ runtime' = [runtime EXCEPT !.phase = "running"]
    /\ listener' = [l \in Listeners |->
           [state |-> "accepting", round |-> listener[l].round + 1, requests |-> 0]]
    /\ UNCHANGED <<scenario, live, conn, tracker, count, accounting, log, challenges, seen, sent>>

-----------------------------------------------------------------------------
Init ==
    /\ scenario \in Scenarios /\ live \in scenario.configs
    /\ runtime = [phase |-> "running", exit |-> FALSE, revision |-> 1]
    /\ listener = [l \in Listeners |-> [state |-> "accepting", round |-> 1, requests |-> 0]]
    /\ conn = [c \in Conns |-> Idle]
    /\ tracker = [c \in Conns |-> None]
    /\ count = [l \in Listeners |-> [r \in 1..MaxRounds |-> 0]]
    /\ accounting = [on |-> live.accounting, writer |-> live.accounting, queue |-> <<>>,
                     owed |-> {}]
    /\ log = <<>>
    /\ challenges = {} /\ seen = {} /\ sent = {}

\* The steps of a handler that a time-out or its own code bounds.
Hastens(c) ==
    \/ Begin(c) \/ ReadHello(c) \/ Dispatch(c) \/ ReadHead(c) \/ Select(c) \/ Handshake(c)
    \/ Connect(c) \/ ConnectRefused(c) \/ WriteOwnHello(c) \/ ObserveOwnHello(c)
    \/ MintToken(c) \/ WriteHello(c)
    \/ Close(c) \/ (conn[c].stage \notin {"relay", "serve", "answer"} /\ Leaves(c))

ConnNext == \E c \in Conns : Hastens(c) \/ Serve(c) \/ Leaves(c) \/ Cancel(c)

ListenerNext ==
    \E l \in Listeners :
        \/ \E c \in Conns : Accept(l, c)
        \/ RequestRestart(l) \/ Restart(l) \/ Rebind(l) \/ AcceptFails(l)

RuntimeNext ==
    \/ \E exit \in BOOLEAN : Stop(exit)
    \/ Flush \/ Flushed \/ Bind
    \/ \E config \in Configs : HotApply(config) \/ Revise(config)

Next ==
    \/ ConnNext \/ ListenerNext \/ RuntimeNext \/ Write
    \/ \E n \in Names : Challenge(n)
    \/ \E h \in sent : Forget(h)

Spec == Init /\ [][Next]_vars

\* tokio polls a runnable task again, every wait of a handler short of the
\* relay and the served requests has a time-out, the writer is a thread of its
\* own, and the runtime task and a rebinding listener only sleep.
FairSpec ==
    /\ Spec
    /\ \A c \in Conns : WF_vars(Hastens(c)) /\ WF_vars(Cancel(c))
    /\ \A l \in Listeners : WF_vars(Restart(l)) /\ WF_vars(Rebind(l))
    /\ WF_vars(Write) /\ WF_vars(Flush) /\ WF_vars(Flushed) /\ WF_vars(Bind)
    /\ WF_vars(\E config \in Configs : Revise(config))

-----------------------------------------------------------------------------
(* Properties. *)

\* The active count of every round is the number of guards alive in it, through
\* restarts and reloads ("counts ... never leak", lifecycle.rs): the count of a
\* finished round comes down to zero although the tracker was cleared.
CountsExact ==
    \A l \in Listeners, r \in 1..MaxRounds :
        count[l][r] = Cardinality({c \in Conns : /\ Live(c) /\ conn[c].listener = l
                                                 /\ conn[c].round = r})

\* The tracker holds an entry for every guard of the running revision, and for
\* no connection whose guard is gone: a late drop of an older revision's guard
\* neither removes nor leaves a row.
TrackerExact ==
    \A c \in Conns :
        /\ tracker[c] # None => Live(c) /\ tracker[c].listener = conn[c].listener
        /\ (Live(c) /\ conn[c].revision = runtime.revision) => tracker[c] # None

\* What a guard registers is there as long as the guard, and no longer (ConnGuard).
GuardsExact == CountsExact /\ TrackerExact

Recorded(c) ==
    Cardinality({i \in 1..Len(log) : log[i].conn = c})
      + Cardinality({i \in 1..Len(accounting.queue) : accounting.queue[i].conn = c})

\* A connection has at most one record, none before it ends, and exactly one
\* when it ended while its revision ran, cancelled by a restart or not, as long
\* as the queue had room.
RecordedOnce ==
    \A c \in Conns :
        /\ Recorded(c) <= 1
        /\ Recorded(c) = 1 => conn[c].stage = "ended"
        /\ conn[c].due => Recorded(c) = 1

\* A record says "ok" exactly when the upstream was connected (or the control
\* plane or a challenge answered), names a target only if one was chosen, and
\* carries the type of the route the connection took.
RecordsFaithful ==
    \A i \in 1..Len(log) :
        LET r == log[i]
            c == conn[r.conn] IN
        /\ (r.status = "ok") = c.reached
        /\ c.reached /\ c.route \in Relayed => r.target
        /\ c.route \in {"control", "acme", "terminate", "reverse"} => r.type = "tls_terminate"
        /\ c.reached /\ c.route \in Relayed \ {"forward"} => r.sni # None

\* The accounting log has one record per connection, and it is true (Drop of
\* ConnGuard, accounting::submit).
RecordsExact == RecordedOnce /\ RecordsFaithful

Upstream == {"select", "handshake", "head", "connect", "upstream", "observe", "mint",
             "write", "relay"}

\* A hello for the reserved control name or for an active challenge on the
\* default listener never becomes an upstream connection, whatever its table
\* says and whenever the challenge goes away.
ReservedStaysHere ==
    \A c \in Conns :
        (/\ Live(c) /\ conn[c].hello # None /\ kind[conn[c].listener] = "default"
         /\ conn[c].route = "acme" \/ conn[c].hello.name = conn[c].config.control)
        => conn[c].stage \notin Upstream

\* A forwarded hello or a minted token that comes back is never sent on.  (The
\* proxy's own hello is remembered only after it was written; see the README.)
LoopsAreCut ==
    \A c \in Conns :
        (conn[c].hello # None /\ conn[c].hello.id[1] # c /\ conn[c].hello.id[2] # "own")
        => conn[c].stage \notin Upstream

\* What must stay in the proxy is never sent on: the names it answers itself, and
\* what it sent itself (classify, is_looped).
NeverForwarded == ReservedStaysHere /\ LoopsAreCut

\* When accounting::shutdown has returned, every record queued before it was
\* called is in the log.
DrainIsComplete ==
    (runtime.phase \in {"stopped", "binding"} /\ accounting.on) =>
        accounting.owed \subseteq {log[i].conn : i \in 1..Len(log)}

\* A signalled connection ends, whatever it waits for.
SignalledEnds ==
    \A c \in Conns : conn[c].cancelled ~> conn[c].stage = "ended"

\* A stop runs to its end: the process exits or accepts connections again, and
\* so does a restarted listener, unless its port stays taken.
StopCompletes ==
    /\ (runtime.phase = "stopping" /\ ~runtime.exit)
          ~> (runtime.phase = "running" \/ runtime.exit)
    /\ \A l \in Listeners : listener[l].state = "rebinding" ~> listener[l].state # "rebinding"

\* No connection keeps its slot without either serving or relaying: every wait
\* before that is bounded.
SlotsAreReleased ==
    \A c \in Conns : conn[c].stage = "read"
        ~> conn[c].stage \in {"relay", "serve", "answer", "ended"}

\* A handler gets to its relay, its served requests or its end, and once signalled
\* to its end (controller.rs, the time-outs of the handlers).
HandlersEnd == SignalledEnds /\ SlotsAreReleased
=============================================================================
