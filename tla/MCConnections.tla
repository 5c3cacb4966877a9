----------------------------- MODULE MCConnections -----------------------------
(* Connections on two listeners: the mandatory one and one of another kind.  *)
EXTENDS Connections, TLC

CONSTANTS d, x, site, admin, c1, c2

\* The table of the default listener also has a route for the control name.
Tables(action, other) ==
    [default |-> (site :> action @@ admin :> "passthrough"),
     tls |-> (site :> other @@ admin :> "denied"),
     http |-> (site :> "proxy" @@ admin :> "redirect")]

Passing == [control |-> admin, routes |-> Tables("passthrough", "reject"),
            upstreamTls |-> FALSE, accounting |-> TRUE]
Terminating == [control |-> admin, routes |-> Tables("terminate", "passthrough"),
                upstreamTls |-> TRUE, accounting |-> TRUE]
Reversing == [control |-> admin, routes |-> Tables("reverse", "terminate"),
              upstreamTls |-> FALSE, accounting |-> FALSE]

ThreeConfigs == {Passing, Terminating, Reversing}

Environment(k, l1, l2, configs, names, events) ==
    [kind |-> (d :> "default" @@ x :> k), arrives |-> (c1 :> l1 @@ c2 :> l2),
     configs |-> configs, names |-> names, events |-> events]

Environments ==
    {Environment("tls", {d}, {}, {Passing}, {site, admin}, {"acme"}),
     Environment("tls", {d}, {x}, {Terminating}, {site}, {"restart"}),
     Environment("forward", {x}, {x}, {Passing}, {site}, {"restart"}),
     Environment("http", {d, x}, {}, {Passing}, {site, admin}, {"restart", "fault"}),
     Environment("forward", {d}, {x}, {Passing}, {site}, {"reload"}),
     Environment("tls", {d, x}, {}, {Reversing, Terminating}, {site}, {"exit"}),
     Environment("http", {d, x}, {}, {Passing}, {site, admin}, {"hot"})}
    \cup {Environment(k, {d, x}, {d, x}, ThreeConfigs, {site}, {"loop"}) : k \in {"tls", "http"}}
=============================================================================
