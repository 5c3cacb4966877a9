-------------------------- MODULE MCHttpExchange --------------------------
(***************************************************************************)
(* Connections for HttpExchange, in four families: what is routed where,   *)
(* how heads are rewritten, where bodies end, and upgrades.                *)
(***************************************************************************)
EXTENDS HttpExchange

AB == <<"a", ".", "b">>
Host == Line("host", {"client"})
Auth(what) == Line("authorization", {what})
CRLF == <<"CR", "LF">>

Path(prefix, auth, static, strip) ==
    [prefix |-> prefix, auth |-> auth, static |-> static, strip |-> strip, newHost |-> FALSE, tls |-> FALSE]
Action(paths, pool, newHost, tls, redirect) ==
    [paths |-> paths, pool |-> pool, newHost |-> newHost, tls |-> tls, redirect |-> redirect]

MCActions ==
    "site" :> Action(<<Path(<<"/", "a">>, TRUE, FALSE, TRUE), Path(<<"/">>, FALSE, FALSE, FALSE),
                       Path(<<"/", "a", "/", "b", "/">>, TRUE, TRUE, FALSE)>>, FALSE, FALSE, FALSE, FALSE)
    @@ "files" :> Action(<<Path(<<"/", "a">>, FALSE, TRUE, FALSE)>>, FALSE, FALSE, FALSE, FALSE)
    @@ "plain" :> Action(<<>>, TRUE, TRUE, FALSE, FALSE)
    @@ "secure" :> Action(<<>>, TRUE, FALSE, TRUE, FALSE)
    @@ "moved" :> Action(<<>>, TRUE, FALSE, FALSE, TRUE)

To(exact, suffix, patterns, action) ==
    [matcher |-> [exact |-> exact, suffix |-> suffix, patterns |-> patterns], action |-> action]
Listener(kind, routes, policy, hosts, default) ==
    [kind |-> kind, routes |-> routes, unknown |-> [policy |-> policy, hosts |-> hosts], default |-> default]
Only(kind, action) == Listener(kind, <<>>, "deny", {}, action)

Connection(listener, lines, body, response) ==
    [listener |-> listener, host |-> AB, sni |-> AB, tls |-> FALSE, target |-> <<"/">>, lines |-> lines,
     eol |-> CRLF, body |-> body, late |-> 0, closes |-> FALSE, response |-> response]
Response(status, head, total) == [status |-> status, head |-> head, total |-> total]
Fine == Response("200", 1, 1)

Hosts == {AB, <<"b">>, <<"c", ".", "a", ".", "b">>, <<"a", "b">>, <<"a", ".", "b", ".">>}
Listeners(kind) ==
    {Listener(kind, <<To({}, {}, {AB, <<"a", "b">>}, "files"), To({}, {<<".", "b">>}, {}, "plain"),
                      To({}, {AB}, {}, "files"), To({AB}, {}, {}, "site"), To({AB}, {}, {}, "secure")>>,
              policy, {<<"a", "b">>}, "plain") : policy \in {"allow", "deny"}}
    \cup {Listener(kind, <<To({<<"b", ".">>}, {<<"b">>}, {}, "files"), To({}, {AB}, {}, "plain")>>,
                   "deny", {AB}, "site")}
Targets == {<<"/">>, <<"/", "a">>, <<"/", "a", "b">>, <<"/", "a", "/", "b">>, <<"/", "a", "/", "b", "/", "c">>,
            <<"/", "a", "?">>}

Routing ==
    UNION {{[Connection(l, <<Host>> \o auth, <<>>, Fine) EXCEPT !.host = h, !.tls = (kind = "tls"), !.target = t] :
                l \in Listeners(kind), h \in Hosts, t \in Targets,
                auth \in {<<>>, <<Auth("good")>>, <<Auth("good"), Auth("bad")>>}} : kind \in {"http", "tls"}}
    \cup {Connection(Only("redirect", "moved"), <<Host>>, <<>>, Fine)}

HeaderLines ==
    {ContentLength(1), ContentLength(-1), Line("transfer-encoding", {"chunked"}),
     Line("transfer-encoding", {"gzip", "chunked"}), Line("connection", {"close", "te"}),
     Line("connection", {"x-hop"}), Line("x-hop", {"y"}), Line("forwarded", {"z"}), Folded(Line("x-any", {"y"})),
     Line("upgrade", {"ws"}), Line("malformed", {}), Host, Line("x-tlsproxy-rid", {"own"})}
Heads ==
    {Connection(Only("http", "plain"), <<Host>> \o more, <<"x", "x">>, Fine) : more \in SeqOf(HeaderLines, 3)}
    \cup {Connection(Only("http", "secure"), more, <<"x">>, Fine) : more \in SeqOf(HeaderLines, 2)}
    \cup {Connection(Only("http", "plain"), <<Host>> \o [i \in 1 .. 5 |-> Line("x-hop", {"y"})], <<>>, Fine)}

ChunkedBodies ==
    {<<"1", "CR", "LF", "x", "CR", "LF", "0", "CR", "LF", "CR", "LF", "x">>,
     <<"2", ";", "LF", "LF", "0", "LF", "0", "LF", "t", "LF", "LF", "x", "LF">>,
     <<"1", "LF", "x", "x", "0", "LF", "LF">>,
     <<"0", "LF", "CR", "t", "LF", "CR", "LF", "LF">>,
     <<"0", "1", ";", "CR", "LF">>, <<"t", "LF", "LF">>, <<"0", "LF", "t", "t", "t", "t", "t", "LF", "LF">>,
     <<"1", "LF", "x", "CR", "CR", "LF">>, <<"0", "LF", "t", "LF">>}
Bodies ==
    {[Connection(Only("http", "plain"), <<Host, Line("transfer-encoding", {"chunked"})>>, body, Fine)
        EXCEPT !.closes = closes, !.eol = eol] :
        body \in ChunkedBodies, closes \in BOOLEAN, eol \in {CRLF, <<"LF">>}}
    \cup {[Connection(Only("http", "plain"), <<Host, ContentLength(n)>>, <<"x", "LF", "x">>, Response("200", 1, 3))
        EXCEPT !.closes = closes] : n \in {0, 2, 3, 4}, closes \in BOOLEAN}

Upgrades ==
    {[Connection(Only(kind, "secure"), <<Host, Line("connection", {"upgrade"}), Line("upgrade", {"ws"}), ContentLength(n)>>,
                 <<"x", "LF", "x">>, response)
        EXCEPT !.tls = (kind = "tls"), !.late = late, !.closes = closes] :
        n \in {0, 1}, kind \in {"http", "tls"}, late \in {0, 2}, closes \in BOOLEAN,
        response \in {Response("101", 2, 3), Response("200", 2, 2), Response("200", 4, 5), Response("101", 2, 1)}}

MCExchanges == Routing \cup Heads \cup Bodies \cup Upgrades
=============================================================================
