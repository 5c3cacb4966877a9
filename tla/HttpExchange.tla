--------------------------- MODULE HttpExchange ---------------------------
(***************************************************************************)
(* One HTTP connection through the reverse proxy (dataplane/http/mod.rs,   *)
(* runtime.rs, conn_stream.rs): the head is read in whatever pieces it     *)
(* arrives, routed, checked, perhaps answered here; else it is rewritten   *)
(* and forwarded, with the body up to its last byte, and the response is   *)
(* relayed, or, after a 101, everything in both directions.                *)
(*                                                                         *)
(* Everything the client will ever send is its wire: one token per line    *)
(* and line end of the head, then the bytes of the body and of whatever    *)
(* follows it.  `taken` of them have been read from the socket; bytes read *)
(* past the head are pushed back in front of the socket.                   *)
(***************************************************************************)
EXTENDS HttpBody, HttpRouting

CONSTANTS Exchanges,    \* the connections considered, see MCHttpExchange
          Actions,      \* action name -> HttpRouteAction
          MaxHead,      \* limit on a request head
          MaxResponse   \* MAX_RESPONSE_HEAD

ASSUME ConfigurationIsValid ==
    \A c \in Exchanges : ValidListener(c.listener, Actions) /\ (c.tls <=> c.listener.kind = "tls")

VARIABLES conn,       \* the connection: a member of Exchanges
          pc,         \* where http::run is
          taken,      \* bytes read from the client's socket
          pushback,   \* ConnStream::pushback
          plan,       \* what was decided: action, path route, target, strip
          sent,       \* header lines written to the upstream, <<>> before
          flushed,    \* they left the proxy
          up,         \* body bytes written to the upstream
          fin,        \* the upstream was sent an end of stream
          reader,     \* the framing-bounded reader
          got,        \* bytes of the response read from the upstream
          down,       \* bytes of it written to the client
          seen,       \* the client has what was written to it
          page,       \* the answer the proxy made up itself
          count       \* bytes reported as uploaded and downloaded

vars == <<conn, pc, taken, pushback, plan, sent, flushed, up, fin, reader, got, down, seen, page, count>>
inVars == <<conn, taken, pushback>>
upVars == <<sent, flushed, up, fin, reader>>
downVars == <<got, down, seen>>

NoPlan == [action |-> "none", path |-> 0, target |-> <<>>, strip |-> FALSE]

HeadWire(c) == FlattenSeq([i \in 1 .. Len(c.lines) + 1 |-> <<"line">> \o c.eol]) \o c.eol
Wire(c) == HeadWire(c) \o c.body

\* The bytes a read can return.  A client that waits for a 101 holds back the
\* last conn.late bytes until it has seen it.
Available ==
    IF pushback # <<>> THEN pushback
    ELSE SubSeq(Wire(conn), taken + 1, Len(Wire(conn)) - IF seen THEN 0 ELSE conn.late)

\* The client closed its side and everything it sent was read.
AtEof == pushback = <<>> /\ conn.closes /\ taken = Len(Wire(conn))

Answer(what) == page' = what /\ pc' = "closed"
Close == Answer("none")
Stay == UNCHANGED <<plan, count>> /\ UNCHANGED inVars /\ UNCHANGED upVars /\ UNCHANGED downVars

-----------------------------------------------------------------------------
(* The head.                                                               *)

\* One read of read_http_head: at most up to the limit.
ReadHead ==
    /\ pc = "head"
    /\ \E k \in 1 .. Min({Len(Available), MaxHead - taken}) :
         LET buffered == SubSeq(Wire(conn), 1, taken + k) IN
         /\ taken' = taken + k
         /\ IF FindHeadEnd(buffered) > 0
            THEN IF ParseHead(conn.lines) THEN pc' = "route" /\ UNCHANGED page ELSE Close
            ELSE IF taken' >= MaxHead THEN Close ELSE UNCHANGED <<pc, page>>
    /\ UNCHANGED <<conn, pushback, plan, count>> /\ UNCHANGED upVars /\ UNCHANGED downVars

\* The client goes, or is too slow.
HeadFails == pc = "head" /\ Close /\ Stay

HeadLen == FindHeadEnd(SubSeq(Wire(conn), 1, taken))

\* What admit reports as uploaded.
Admitted == HeadLen

\* The listener's choice, by the server name of a TLS connection and by the
\* Host header otherwise, and admit: no loop, and the Host is the server name.
Route ==
    /\ pc = "route"
    /\ LET action == SelectRoute(conn.listener, IF conn.tls THEN conn.sni ELSE conn.host) IN
       IF action = "denied" THEN Close /\ UNCHANGED <<plan, count>>
       ELSE IF Actions[action].redirect THEN Answer("308") /\ UNCHANGED <<plan, count>>
       ELSE IF \/ "own" \in LoopTokens(conn.lines)
               \/ conn.tls /\ TrimEnd(conn.sni, ".") # TrimEnd(conn.host, ".")
            THEN Close /\ UNCHANGED <<plan, count>>
       ELSE /\ plan' = [plan EXCEPT !.action = action, !.target = conn.target]
            /\ count' = [count EXCEPT !.up = Admitted]
            /\ pc' = "path" /\ UNCHANGED page
    /\ UNCHANGED inVars /\ UNCHANGED upVars /\ UNCHANGED downVars

\* Credentials a protected path route accepts.
Authorized(route) == ~route.auth \/ Authorization(conn.lines) = {"good"}

\* Path routing: credentials first, then files served here or a backend pool.
RoutePath ==
    /\ pc = "path"
    /\ LET action == Actions[plan.action]
           path == SelectPath(action.paths, conn.target)
           route == action.paths[path]
       IN  IF path = 0
           THEN IF action.paths # <<>> /\ ~action.pool THEN Answer("404") /\ UNCHANGED plan
                ELSE pc' = "frame" /\ UNCHANGED <<plan, page>>
           ELSE IF ~Authorized(route) THEN Answer("401") /\ UNCHANGED plan
           ELSE IF route.static THEN Answer("static") /\ plan' = [plan EXCEPT !.path = path]
           ELSE /\ plan' = [plan EXCEPT !.path = path, !.strip = route.auth,
                                        !.target = IF route.strip THEN StripPathPrefix(@, route.prefix) ELSE @]
                /\ pc' = "frame" /\ UNCHANGED page
    /\ UNCHANGED count /\ UNCHANGED inVars /\ UNCHANGED upVars /\ UNCHANGED downVars

\* A body that is not delimited beyond doubt is refused.
Frame ==
    /\ pc = "frame"
    /\ IF BodyFraming(conn.lines).kind = "rejected" THEN Answer("400") ELSE pc' = "select" /\ UNCHANGED page
    /\ Stay

\* No backend, no connection, or no PROXY header: 502.
SelectBackend ==
    /\ pc = "select"
    /\ \/ Answer("502")
       \/ Close                                     \* reject_obvious_self_connect
       \/ pc' = "forward" /\ UNCHANGED page
    /\ Stay

-----------------------------------------------------------------------------
(* The exchange.                                                           *)

Serving == IF plan.path = 0 THEN Actions[plan.action] ELSE Actions[plan.action].paths[plan.path]
Upgrade == UpgradeRequested(conn.lines)

\* Mutant: no flush: a TLS session keeps the head queued.
ForwardQueued ==
    /\ pc = "forward"
    /\ pushback' = SubSeq(Wire(conn), HeadLen + 1, taken) \o pushback
    /\ sent' = RewriteForProxy(conn.lines, Serving.newHost, plan.strip, "fresh")
    /\ flushed' = ~Serving.tls
    /\ pc' = IF Upgrade THEN "response" ELSE "relay"
    /\ reader' = IF Upgrade THEN reader ELSE NewReader(BodyFraming(conn.lines))
    /\ UNCHANGED <<conn, taken, plan, up, fin, page, count>> /\ UNCHANGED downVars

\* Bytes past the head go back to the stream, the rewritten head is written
\* and flushed.
Forward ==
    /\ pc = "forward"
    /\ pushback' = SubSeq(Wire(conn), HeadLen + 1, taken) \o pushback
    /\ sent' = RewriteForProxy(conn.lines, Serving.newHost, plan.strip, "fresh")
    /\ flushed' = TRUE
    /\ pc' = IF Upgrade THEN "response" ELSE "relay"
    /\ reader' = IF Upgrade THEN reader ELSE NewReader(BodyFraming(conn.lines))
    /\ UNCHANGED <<conn, taken, plan, up, fin, page, count>> /\ UNCHANGED downVars

\* The upstream's handshake, or the write, fails.
ForwardFails == pc = "forward" /\ Close /\ Stay

\* What the upstream has still to say.  It says nothing to a request that has
\* not left the proxy, and may drop a request whose sender closed its side.
Pending == IF ~flushed \/ fin THEN 0 ELSE conn.response.total - got

\* One read of read_response_head.
ReadResponse ==
    /\ pc = "response"
    /\ \E k \in 1 .. Pending :
         /\ got' = got + k
         /\ IF got' >= conn.response.head THEN pc' = "reply" /\ UNCHANGED page
            ELSE IF got' > MaxResponse THEN Answer("502") ELSE UNCHANGED <<pc, page>>
    /\ UNCHANGED <<down, seen, plan, count>> /\ UNCHANGED inVars /\ UNCHANGED upVars

\* The upstream closes, or stays silent for 30 seconds.
ResponseFails == pc = "response" /\ Pending = 0 /\ Answer("502") /\ Stay

\* Mutant: the head of the response stays queued in the client's TLS session.
ReplyQueued ==
    /\ pc = "reply"
    /\ down' = got /\ seen' = ~conn.tls
    /\ count' = [count EXCEPT !.down = @ + got]
    /\ pc' = IF conn.response.status = "101" THEN "tunnel" ELSE "relay"
    /\ reader' = IF pc' = "tunnel" THEN Reader("raw", 0) ELSE NewReader(BodyFraming(conn.lines))
    /\ UNCHANGED <<plan, sent, flushed, up, fin, got, page>> /\ UNCHANGED inVars

\* The response to an upgrade is counted, written and flushed; a 101 opens the
\* tunnel, anything else gets the framed relay.
Reply ==
    /\ pc = "reply"
    /\ down' = got /\ seen' = TRUE
    /\ count' = [count EXCEPT !.down = @ + got]
    /\ pc' = IF conn.response.status = "101" THEN "tunnel" ELSE "relay"
    /\ reader' = IF pc' = "tunnel" THEN Reader("raw", 0) ELSE NewReader(BodyFraming(conn.lines))
    /\ UNCHANGED <<plan, sent, flushed, up, fin, got, page>> /\ UNCHANGED inVars

Relaying == pc \in {"relay", "tunnel"}

\* Mutant: what was pushed back comes after what is on the socket.
TakeSocketFirst(k) ==
    IF taken < Len(Wire(conn)) THEN taken' = taken + k /\ UNCHANGED pushback
    ELSE pushback' = SubSeq(pushback, k + 1, Len(pushback)) /\ UNCHANGED taken

\* ConnStream::poll_read: pushed back bytes first.
Take(k) ==
    IF pushback # <<>> THEN pushback' = SubSeq(pushback, k + 1, Len(pushback)) /\ UNCHANGED taken
    ELSE taken' = taken + k /\ UNCHANGED pushback

\* One read of the request's body, written to the upstream.
Upload ==
    /\ Relaying
    /\ \E k \in 1 .. Min({Len(Available), Wants(reader)}) :
         LET bytes == SubSeq(Available, 1, k) IN
         /\ Take(k)
         /\ reader' = Advance(reader, bytes)
         /\ IF reader' = Failed THEN UNCHANGED <<up, count>>
            ELSE up' = up \o bytes /\ count' = [count EXCEPT !.up = @ + k]
    /\ UNCHANGED <<conn, pc, plan, sent, flushed, fin, page>> /\ UNCHANGED downVars

\* The upload is over; only a tunnel passes the end of stream on
\* (KeepWriteOpen).
UploadEnds ==
    /\ Relaying
    /\ \/ reader.kind \in {"done", "failed"}
       \/ AtEof /\ reader.kind \in {"length", "raw"}
    /\ reader' = Reader("ended", 0)
    /\ fin' = (pc = "tunnel")
    /\ UNCHANGED <<pc, plan, sent, flushed, up, page, count>> /\ UNCHANGED inVars /\ UNCHANGED downVars

\* The client closed inside a chunked body.
UploadBreaks ==
    /\ Relaying
    /\ AtEof /\ reader.kind \in {"size", "data", "end", "cr", "trailers"}
    /\ reader' = Failed
    /\ UNCHANGED <<pc, plan, sent, flushed, up, fin, page, count>> /\ UNCHANGED inVars /\ UNCHANGED downVars

\* One read of the response, written to the client.
Download ==
    /\ Relaying
    /\ \E k \in 1 .. Pending :
         got' = got + k /\ down' = down + k /\ count' = [count EXCEPT !.down = @ + k]
    /\ UNCHANGED <<pc, plan, page, seen>> /\ UNCHANGED inVars /\ UNCHANGED upVars

\* The relay is over when both directions are, or one is and the other is
\* silent (Relay models when exactly).
RelayEnds ==
    /\ Relaying
    /\ Pending = 0
    /\ reader.kind = "ended" \/ Available = <<>>
    /\ Close /\ Stay

-----------------------------------------------------------------------------
Init ==
    /\ conn \in Exchanges
    /\ pc = "head" /\ taken = 0 /\ pushback = <<>> /\ plan = NoPlan
    /\ sent = <<>> /\ flushed = FALSE /\ up = <<>> /\ fin = FALSE /\ reader = Done
    /\ got = 0 /\ down = 0 /\ seen = FALSE /\ page = "none" /\ count = [up |-> 0, down |-> 0]

Next ==
    \/ ReadHead \/ HeadFails \/ Route \/ RoutePath \/ Frame \/ SelectBackend
    \/ Forward \/ ForwardFails \/ ReadResponse \/ ResponseFails \/ Reply
    \/ Upload \/ UploadEnds \/ UploadBreaks \/ Download \/ RelayEnds

Spec == Init /\ [][Next]_vars

\* The two directions of the relay are polled as long as they can move.
FairSpec == Spec /\ WF_vars(Upload \/ UploadEnds) /\ WF_vars(Download) /\ WF_vars(Reply)

-----------------------------------------------------------------------------
(* Properties.                                                             *)

Framing == BodyFraming(conn.lines)
Switched == Upgrade /\ conn.response.status = "101"

\* The upstream gets the body of the first request and no byte of what
\* follows it: the framing-bounded readers stop at the message's end as the
\* grammar of the whole stream has it, however the bytes arrive.  Only an
\* upgrade the upstream accepted lifts the bound.
MessageBoundary ==
    LET end == BodyEnd(Framing, conn.body) IN
    /\ IsPrefix(up, conn.body)
    /\ up # <<>> /\ ~Switched /\ end >= 0 => Len(up) <= end
    /\ reader.kind = "done" /\ Relaying => Len(up) = end

\* No byte the client sent is lost, repeated or reordered between the socket,
\* the bytes read past the head and pushed back, and the upstream; and each is
\* counted once: the head when it is admitted, the bytes read past it only when
\* they are relayed, the response's head with its response.
Lossless ==
    /\ Relaying /\ reader.kind \notin {"failed", "ended"} =>
          up \o pushback \o SubSeq(Wire(conn), taken + 1, Len(Wire(conn))) = conn.body
    /\ Relaying => count.up = Len(HeadWire(conn)) + Len(up) /\ count.down = down

\* The rewritten head delimits the body as the client's head did, and has one
\* Host and one Connection header, unless the client's Connection header lists
\* these very headers for removal.
RewriteKeepsFraming ==
    sent # <<>> /\ HopByHop(conn.lines) \cap {"host", "content-length", "transfer-encoding"} = {} =>
        /\ BodyFraming(sent) = Framing
        /\ Len(Headers(sent, "host")) = 1
        /\ Len(Headers(sent, "connection")) = 1

\* The client gets one answer: the proxy's own page, or the upstream's bytes.  The
\* page of a request that was forwarded is a 502, and only if the upstream sent no
\* proper response head: the request it answers is never left queued in the proxy.
OneAnswer ==
    /\ page # "none" => down = 0 /\ (page # "502" => sent = <<>>)
    /\ page = "502" /\ sent # <<>> =>
          conn.response.head > conn.response.total \/ conn.response.head > MaxResponse

\* A request is served by the first of the most specific routes for its Host,
\* the server name of a TLS connection included.
RoutedByHost ==
    plan.action # "none" =>
        LET routes == conn.listener.routes IN
        \/ \E i \in DOMAIN routes : plan.action = routes[i].action /\ MostSpecific(routes, conn.host, i)
        \/ /\ plan.action = conn.listener.default
           /\ \A i \in DOMAIN routes : Rank(routes[i].matcher, conn.host) = <<0, 0>>

\* Path routes that cover the request, by whole segments.
Covering ==
    LET paths == Actions[plan.action].paths IN {i \in DOMAIN paths : Covers(paths[i].prefix, conn.target)}

\* A request goes where the path route with most segments says, and to the
\* host's own backends only if no path route covers it.
RoutedByPath ==
    sent # <<>> \/ page = "static" =>
        /\ plan.path = 0 <=> Covering = {}
        /\ plan.path # 0 =>
             /\ plan.path \in Covering
             /\ \A i \in Covering : Len(Split(TrimEnd(Actions[plan.action].paths[i].prefix, "/"), "/"))
                                    <= Len(Split(TrimEnd(Actions[plan.action].paths[plan.path].prefix, "/"), "/"))

\* Nothing is forwarded or served from a protected path without its
\* credentials, and these do not reach the upstream.
Protected ==
    (sent # <<>> \/ page = "static") /\ plan.path # 0 /\ Actions[plan.action].paths[plan.path].auth =>
        /\ Authorization(conn.lines) = {"good"}
        /\ Headers(sent, "authorization") = <<>>

\* A request goes where the most specific of the configured routes says, and under
\* its conditions (select_http_action, select_path, authorized).
RoutedAsConfigured == RoutedByHost /\ RoutedByPath /\ Protected

\* A complete body, or everything after a 101, reaches the upstream: the reply
\* a client waits for is never left queued in the proxy.
RequestDelivered ==
    Relaying ~> \/ up = IF Switched THEN conn.body ELSE SubSeq(conn.body, 1, BodyEnd(Framing, conn.body))
                \/ ~Switched /\ BodyEnd(Framing, conn.body) < 0

\* The end of a request does not cut off its answer, also for upstreams that
\* drop a request whose sender closes its side (KeepWriteOpen).
AnswerDelivered == pc = "relay" ~> down = conn.response.total

\* Both halves of an exchange complete, neither ending or starving the other.
ExchangeCompletes == RequestDelivered /\ AnswerDelivered
=============================================================================
