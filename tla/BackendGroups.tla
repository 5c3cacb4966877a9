--------------------------- MODULE BackendGroups ---------------------------
(***************************************************************************)
(* Backend groups: the registry every listener selects its upstream from.  *)
(* Requests create groups on demand, configuration passes create or adopt  *)
(* the ones routes name, the health loop evicts, resolves and probes them. *)
(*                                                                         *)
(* A group is shared (an Arc): a task keeps using the one it holds after   *)
(* the registry has dropped or replaced it.  Ids stand for these objects,  *)
(* and one that nobody holds any more is free again.  The registry and     *)
(* each group are behind locks of their own; what a task read under one is *)
(* used after it is released.                                              *)
(*                                                                         *)
(* LISTENER_BACKENDS, which the code only writes, and the samples saved    *)
(* after each round are left out; the DNS cache is part of Resolves.       *)
(***************************************************************************)
EXTENDS Integers, FiniteSets

CONSTANTS Keys, Endpoints, EndpointsOf, IPv4, Scenarios, Requests, MaxGroups, RuntimeMax, None

Ids == 1 .. MaxGroups

States == {"up", "down", "unknown", "absent"}
Group == [key: Keys, owner: {"configured", "runtime"}, idle: BOOLEAN,
          endpoints: [Endpoints -> States]]

ASSUME BackendAssumption ==
    /\ IsFiniteSet(Keys)
    /\ EndpointsOf \in [Keys -> SUBSET Endpoints]  \* what a target may resolve to
    /\ IPv4 \subseteq Endpoints
    /\ \A s \in Scenarios :
        /\ s.configs \subseteq [routes: SUBSET Keys, forward: SUBSET Keys]
        /\ s.configs # {}
        /\ s.pools \subseteq SUBSET Keys     \* backend pools of routes, or a host of the client's:
        /\ {} \notin s.pools                \* an empty pool is refused, or taken for the host
        /\ s.flaky \subseteq Endpoints       \* endpoints that go up and down
        /\ s.env \subseteq {"idle", "dns", "reload", "hot"}
    /\ MaxGroups \in Nat                 \* bound: groups alive at a time
    /\ RuntimeMax \in Nat
    /\ None \notin Ids \cup Keys \cup Endpoints /\ None \notin Group

VARIABLES
    groups,   \* GROUPS: the group registered for a key
    group,    \* the groups alive
    bindings, \* keys of HEALTH_BINDINGS
    forward,  \* keys of FORWARD_LISTENERS
    serving,  \* the listeners of the revision accept
    pass,     \* the configuration pass
    req,      \* selections in progress
    health,   \* the health loop
    scenario, \* what may happen: bounds the environment
    healthy,  \* endpoints that answer a probe
    resolved, \* what a target resolves to
    watch     \* history: the keys that kept a state since a selection began

configVars == <<bindings, forward, serving, pass>>
worldVars == <<scenario, healthy, resolved>>
vars == <<groups, group, configVars, req, health, worldVars, watch>>

NoPass == [stage |-> "idle", left |-> {}, new |-> None, config |-> None]
NoRequest == [stage |-> "idle", pool |-> {}, left |-> {}, new |-> None,
              held |-> [k \in Keys |-> None], preferred |-> {}, fallback |-> {}, chosen |-> None]
NoWatch == [present |-> {}, viable |-> {}, dead |-> {}]
NoRound == [stage |-> "idle", doomed |-> {}, fresh |-> {}, jobs |-> {}]

-----------------------------------------------------------------------------
(* Groups. *)

Present(g) == {e \in Endpoints : g.endpoints[e] # "absent"}
In(g, state) == {e \in Endpoints : g.endpoints[e] = state}

\* group_is_viable, for a group that has endpoints.
Viable(g) == In(g, "up") \cup In(g, "unknown") # {}

\* reconcile_endpoints: endpoints that stay keep their state.
Reconciled(g, R) ==
    [g EXCEPT !.endpoints = [e \in Endpoints |->
        IF e \notin R THEN "absent" ELSE IF @[e] = "absent" THEN "unknown" ELSE @[e]]]

MonitorGroup(k, owner) ==
    Reconciled([key |-> k, owner |-> owner, idle |-> FALSE,
                endpoints |-> [e \in Endpoints |-> "absent"]], resolved[k])

\* choose_endpoint: what is up, else what was never probed, else anything, of
\* these the IPv4 ones first.
Candidates(g) ==
    LET fallback == IF In(g, "unknown") # {} THEN In(g, "unknown") ELSE Present(g)
    IN IF In(g, "up") # {} THEN In(g, "up")
       ELSE IF fallback \cap IPv4 # {} THEN fallback \cap IPv4 ELSE fallback

Registered == {k \in Keys : groups[k] # None}
At(k) == group[groups[k]]
RuntimeKeys == {k \in Registered : At(k).owner = "runtime"}

\* The groups somebody holds.
Held ==
    {groups[k] : k \in Keys} \cup {pass.new} \cup {j.group : j \in health.jobs}
        \cup {req[r].new : r \in Requests}
        \cup UNION {{req[r].held[k] : k \in Keys} : r \in Requests}

\* The groups after a step: those still held, as updated.
Keep(updated) ==
    LET held == Held' IN group' = [i \in Ids |-> IF i \in held THEN updated[i] ELSE None]

\* A place for a new group: the first one free.
Free == {i \in Ids : group[i] = None /\ \A j \in 1 .. i - 1 : group[j] # None}

-----------------------------------------------------------------------------
(* Configuration passes.  A hot apply registers the forward listeners,     *)
(* then binds every key it names; a new revision binds first, and registers*)
(* when the health loop is already running.  Passes exclude each other     *)
(* (config_write, and the order of run_revision).                          *)

\* configure_health_checks: the keys a configuration binds, those of its routes'
\* backends and those of its forward listeners.
BoundKeys(c) == c.routes \cup c.forward

Init ==
    /\ groups = [k \in Keys |-> None]
    /\ group = [i \in Ids |-> None]
    /\ bindings = {}
    /\ forward = {}
    /\ serving = FALSE
    /\ scenario \in Scenarios
    /\ \E c \in scenario.configs :
        pass = [NoPass EXCEPT !.stage = "bind", !.left = BoundKeys(c), !.config = c]
    /\ req = [r \in Requests |-> NoRequest]
    /\ health = NoRound
    /\ healthy = {}
    /\ resolved = EndpointsOf
    /\ watch = [r \in Requests |-> NoWatch]

ApplyHot(c) ==
    /\ "hot" \in scenario.env
    /\ serving /\ pass.stage = "idle"
    /\ pass' = [NoPass EXCEPT !.stage = "register", !.left = c.forward, !.config = c]
    /\ UNCHANGED <<groups, group, bindings, forward, serving, req, health, worldVars>>

\* The binding a bind pushes once it has its group.
Bound(k) == IF pass.stage = "bind" THEN bindings \cup {k} ELSE bindings

\* ensure_group finds the key: the group is adopted under the registry's lock.
PassFinds(k) ==
    /\ pass.new = None
    /\ k \in pass.left
    /\ groups[k] # None
    /\ group' = [group EXCEPT ![groups[k]].owner = "configured"]
    /\ pass' = [pass EXCEPT !.left = @ \ {k}]
    /\ bindings' = Bound(k)
    /\ UNCHANGED <<groups, forward, serving, req, health, worldVars>>

\* It does not: a group is made, which waits for DNS, and then inserted,
\* whatever the registry holds by then.
PassCreates(k) ==
    /\ pass.new = None
    /\ k \in pass.left
    /\ groups[k] = None
    /\ \E i \in Free :
        /\ group' = [group EXCEPT ![i] = MonitorGroup(k, "configured")]
        /\ pass' = [pass EXCEPT !.new = i]
    /\ UNCHANGED <<groups, bindings, forward, serving, req, health, worldVars>>

PassInserts ==
    /\ pass.new # None
    /\ LET k == group[pass.new].key IN
        /\ groups' = [groups EXCEPT ![k] = pass.new]
        /\ pass' = [pass EXCEPT !.new = None, !.left = @ \ {k}]
        /\ bindings' = Bound(k)
    /\ UNCHANGED <<forward, serving, req, health, worldVars>>
    /\ Keep(group)

\* FORWARD_LISTENERS.insert: only a configuration with such a listener does.
Inserted == IF pass.config.forward = {} THEN forward ELSE pass.config.forward

RegisterEnds ==
    /\ pass.stage = "register"
    /\ pass.left = {} /\ pass.new = None
    /\ forward' = Inserted
    /\ IF serving
       THEN /\ pass' = [pass EXCEPT !.stage = "bind",
                                    !.left = BoundKeys(pass.config)]
            /\ bindings' = {}
       ELSE pass' = NoPass /\ UNCHANGED bindings
    /\ serving' = TRUE
    /\ UNCHANGED <<groups, group, req, health, worldVars>>

\* Mutant: groups no longer referenced stay configured.
Unreleased(i) == group[i]

\* release_unreferenced_groups.
Released(i) ==
    IF i \in {groups[k] : k \in Registered \ bindings}
    THEN [group[i] EXCEPT !.owner = "runtime"]
    ELSE group[i]

BindEnds ==
    /\ pass.stage = "bind"
    /\ pass.left = {} /\ pass.new = None
    /\ forward' = Inserted
    /\ group' = [i \in Ids |-> Released(i)]
    /\ pass' = IF serving THEN NoPass
               ELSE [pass EXCEPT !.stage = "register", !.left = pass.config.forward]
    /\ health' = [health EXCEPT !.fresh = @ \cup {k \in Registered \ bindings : At(k).owner = "configured"}]
    /\ UNCHANGED <<groups, bindings, serving, req, worldVars>>

\* The revision ends and the next one starts: every task is cancelled, every
\* table cleared.
Reload(c) ==
    /\ "reload" \in scenario.env
    /\ serving
    /\ groups' = [k \in Keys |-> None]
    /\ group' = [i \in Ids |-> None]
    /\ bindings' = {} /\ forward' = {} /\ serving' = FALSE
    /\ pass' = [NoPass EXCEPT !.stage = "bind", !.left = BoundKeys(c), !.config = c]
    /\ req' = [r \in Requests |-> NoRequest]
    /\ health' = NoRound
    /\ UNCHANGED worldVars

PassStep ==
    \/ PassInserts \/ RegisterEnds \/ BindEnds
    \/ \E k \in Keys : PassFinds(k) \/ PassCreates(k)

-----------------------------------------------------------------------------
(* Selections.  A route's pool is looked up key by key with ensure_group;  *)
(* a forward listener takes the registered groups of its keys at once.     *)

RequestVarsUnchanged == UNCHANGED <<configVars, health, worldVars>>

RouteBegins(r, pool) ==
    /\ serving
    /\ req[r].stage = "idle"
    /\ req' = [req EXCEPT ![r] = [NoRequest EXCEPT !.stage = "visit", !.pool = pool, !.left = pool]]
    /\ UNCHANGED <<groups, group>>
    /\ RequestVarsUnchanged

\* A member is read: without endpoints it is dropped, otherwise it is preferred
\* or, all of its endpoints being down, a fallback.
Read(q, k, i) ==
    [q EXCEPT !.left = @ \ {k}, !.new = None, !.held[k] = i,
              !.preferred = IF Viable(group[i]) THEN @ \cup {k} ELSE @,
              !.fallback = IF Present(group[i]) # {} /\ ~Viable(group[i]) THEN @ \cup {k} ELSE @]

\* ensure_group finds the key; the group is touched, and read.
RequestFinds(r, k) ==
    /\ req[r].stage = "visit" /\ req[r].new = None
    /\ k \in req[r].left /\ req[r].held[k] = None
    /\ groups[k] # None
    /\ req' = [req EXCEPT ![r] = Read(req[r], k, groups[k])]
    /\ group' = [group EXCEPT ![groups[k]].idle = FALSE]
    /\ UNCHANGED groups
    /\ RequestVarsUnchanged

RequestCreates(r, k) ==
    /\ req[r].stage = "visit" /\ req[r].new = None
    /\ k \in req[r].left /\ req[r].held[k] = None
    /\ groups[k] = None
    /\ \E i \in Free :
        /\ group' = [group EXCEPT ![i] = MonitorGroup(k, "runtime")]
        /\ req' = [req EXCEPT ![r].new = i]
    /\ UNCHANGED groups
    /\ RequestVarsUnchanged

RequestInserts(r) ==
    /\ req[r].new # None
    /\ LET k == group[req[r].new].key IN
        /\ groups' = [groups EXCEPT ![k] = req[r].new]
        /\ req' = [req EXCEPT ![r] = Read(req[r], k, req[r].new)]
        /\ health' = [health EXCEPT !.fresh = @ \cup {k}]
    /\ UNCHANGED <<configVars, worldVars>>
    /\ Keep(group)

\* choose_online never creates a group, nor touches one: it collects the
\* groups under the registry's lock, and reads them one by one afterwards.
ForwardBegins(r) ==
    /\ serving
    /\ req[r].stage = "idle"
    /\ forward # {}
    /\ req' = [req EXCEPT ![r] = [NoRequest EXCEPT
                 !.stage = "visit", !.pool = forward, !.left = forward \cap Registered,
                 !.held = [k \in Keys |-> IF k \in forward THEN groups[k] ELSE None]]]
    /\ UNCHANGED <<groups, group>>
    /\ RequestVarsUnchanged

ForwardReads(r, k) ==
    /\ req[r].stage = "visit"
    /\ k \in req[r].left
    /\ req[r].held[k] # None
    /\ req' = [req EXCEPT ![r] = Read(req[r], k, req[r].held[k])]
    /\ UNCHANGED <<groups, group>>
    /\ RequestVarsUnchanged

\* Mutant: the preference among the members is lost.
AvailableAny(q) == q.preferred \cup q.fallback

Available(q) == IF q.preferred # {} THEN q.preferred ELSE q.fallback

\* Round robin or the client's hash picks a member, and the member an endpoint
\* in the state it has by now.
RequestChooses(r) ==
    /\ req[r].stage = "visit" /\ req[r].left = {}
    /\ \/ /\ Available(req[r]) = {}
          /\ req' = [req EXCEPT ![r].stage = "failed"]
       \/ \E k \in Available(req[r]) :
            LET candidates == Candidates(group[req[r].held[k]]) IN
            \/ candidates = {} /\ req' = [req EXCEPT ![r].stage = "failed"]
            \/ candidates # {} /\ req' = [req EXCEPT ![r].stage = "chosen", ![r].chosen = k]
    /\ UNCHANGED <<groups, group>>
    /\ RequestVarsUnchanged

RequestEnds(r) ==
    /\ req[r].stage \in {"chosen", "failed"}
    /\ req' = [req EXCEPT ![r] = NoRequest]
    /\ UNCHANGED groups
    /\ RequestVarsUnchanged
    /\ Keep(group)

-----------------------------------------------------------------------------
(* The health loop: evict what is idle, evict what is too much, resolve    *)
(* and probe the rest, sleep.                                              *)

HealthVarsUnchanged == UNCHANGED <<configVars, req, worldVars>>

\* It is started between the two halves of a new revision's configuration.
Running == serving \/ pass.stage = "register"

Expired == {k \in RuntimeKeys : At(k).idle}

HealthScans ==
    /\ Running
    /\ health.stage = "idle"
    /\ health' = [NoRound EXCEPT !.stage = "expire", !.doomed = Expired]
    /\ UNCHANGED <<groups, group>>
    /\ HealthVarsUnchanged

\* retain removes by key what was to go when it was looked at.
Retain == groups' = [k \in Keys |-> IF k \in health.doomed THEN None ELSE groups[k]]

\* Mutant: one group more than the maximum is tolerated.
ExcessOne(n) == IF n > RuntimeMax + 1 THEN n - RuntimeMax ELSE 0

\* How many of n runtime groups are too many.
Excess(n) == IF n > RuntimeMax THEN n - RuntimeMax ELSE 0

\* The idle groups go.  Of those left too many, the least recently used are to
\* go next; which these are is left open.
HealthExpires ==
    /\ health.stage = "expire"
    /\ Retain
    /\ \E D \in SUBSET (RuntimeKeys \ health.doomed) :
        /\ Cardinality(D) = Excess(Cardinality(RuntimeKeys \ health.doomed))
        /\ health' = [health EXCEPT !.stage = "evict", !.doomed = D, !.fresh = {}]
    /\ HealthVarsUnchanged
    /\ Keep(group)

Job(i, e) == [group |-> i, endpoint |-> e]

\* They go; the others are resolved and a probe of each endpoint is started.
HealthEvicts ==
    LET listed == {groups[k] : k \in Registered \ health.doomed}
        updated == [i \in Ids |-> IF i \in listed THEN Reconciled(group[i], resolved[group[i].key])
                                                  ELSE group[i]]
    IN /\ health.stage = "evict"
       /\ Retain
       /\ health' = [NoRound EXCEPT !.stage = "probe",
                       !.jobs = UNION {{Job(i, e) : e \in Present(updated[i])} : i \in listed}]
       /\ HealthVarsUnchanged
       /\ Keep(updated)

\* set_endpoint_state: an endpoint resolved away meanwhile is not found.
Marked(g, E, state) ==
    [g EXCEPT !.endpoints = [e \in Endpoints |->
        IF e \in E /\ @[e] # "absent" THEN state ELSE @[e]]]

\* A probe's result: the endpoint answered well, or not.
HealthHears(j) ==
    /\ health.stage = "probe"
    /\ j \in health.jobs
    /\ health' = [health EXCEPT !.jobs = @ \ {j}]
    /\ UNCHANGED groups
    /\ HealthVarsUnchanged
    /\ Keep([group EXCEPT ![j.group] =
                Marked(@, {j.endpoint}, IF j.endpoint \in healthy THEN "up" ELSE "down")])

\* Mutant: a probe without an answer leaves the state as it was.
MissedKept(i) == group[i]

\* A group after the deadline: its endpoints not heard of are down.
Missed(i) ==
    IF group[i] = None THEN None
    ELSE Marked(group[i], {j.endpoint : j \in {x \in health.jobs : x.group = i}}, "down")

\* The round ends when all have answered, or at its deadline.  A healthy
\* endpoint answers in time.
HealthEnds ==
    /\ health.stage = "probe"
    /\ \A j \in health.jobs : j.endpoint \notin healthy
    /\ health' = NoRound
    /\ UNCHANGED groups
    /\ HealthVarsUnchanged
    /\ Keep([i \in Ids |-> Missed(i)])

HealthStep ==
    \/ HealthScans \/ HealthExpires \/ HealthEvicts \/ HealthEnds
    \/ \E j \in health.jobs : HealthHears(j)

-----------------------------------------------------------------------------
(* The world. *)

WorldVarsUnchanged == UNCHANGED <<groups, configVars, req, health>>

\* A runtime group has not been used for RUNTIME_TTL_MS.
GroupIdles(k) ==
    /\ "idle" \in scenario.env
    /\ k \in RuntimeKeys /\ ~At(k).idle
    /\ group' = [group EXCEPT ![groups[k]].idle = TRUE]
    /\ UNCHANGED worldVars
    /\ WorldVarsUnchanged

EndpointFlips(e) ==
    /\ e \in scenario.flaky
    /\ healthy' = IF e \in healthy THEN healthy \ {e} ELSE healthy \cup {e}
    /\ UNCHANGED <<group, scenario, resolved>>
    /\ WorldVarsUnchanged

Resolves(k) ==
    /\ "dns" \in scenario.env
    /\ \E R \in SUBSET EndpointsOf[k] : resolved' = [resolved EXCEPT ![k] = R]
    /\ UNCHANGED <<group, scenario, healthy>>
    /\ WorldVarsUnchanged

-----------------------------------------------------------------------------
\* The group a selection has for a key, or would find now.
Sees(r, k) == IF req[r].held[k] # None THEN req[r].held[k] ELSE groups[k]

\* The keys whose group has endpoints now, is viable, has all of them down.
Now(r) ==
    LET present == {k \in Keys : Sees(r, k) # None /\ Present(group[Sees(r, k)]) # {}}
        viable == {k \in present : Viable(group[Sees(r, k)])}
    IN [present |-> present, viable |-> viable, dead |-> present \ viable]

Both(w, v) == [present |-> w.present \cap v.present, viable |-> w.viable \cap v.viable,
               dead |-> w.dead \cap v.dead]

Watch == watch' = [r \in Requests |->
    IF req'[r].stage = "idle" THEN NoWatch
    ELSE IF req[r].stage = "idle" THEN Now(r)'
    ELSE IF req[r].stage # "visit" THEN watch[r]
    ELSE Both(watch[r], Now(r)')]

Step ==
    \/ \E c \in scenario.configs : ApplyHot(c) \/ Reload(c)
    \/ PassStep
    \/ \E r \in Requests :
        \/ ForwardBegins(r) \/ RequestInserts(r) \/ RequestChooses(r) \/ RequestEnds(r)
        \/ \E pool \in scenario.pools : RouteBegins(r, pool)
        \/ \E k \in Keys : RequestFinds(r, k) \/ RequestCreates(r, k) \/ ForwardReads(r, k)
    \/ HealthStep
    \/ \E k \in Keys : GroupIdles(k) \/ Resolves(k)
    \/ \E e \in Endpoints : EndpointFlips(e)

Next == Step /\ Watch

Spec == Init /\ [][Next]_vars

\* The pass and the health loop are tasks that run; requests are not assumed to.
FairSpec ==
    /\ Spec
    /\ WF_vars(PassStep /\ Watch)
    /\ WF_vars(HealthStep /\ Watch)

-----------------------------------------------------------------------------
(* Properties. *)

\* A group that no route and no forward listener of the configuration names is
\* not held for ever: once a pass is over only bound keys have configured
\* groups ("editing a route would leave its old backends probed forever",
\* release_unreferenced_groups).
OnlyBoundAreConfigured ==
    pass.stage = "idle" => Registered \ RuntimeKeys \subseteq bindings

\* A member that was down during the whole selection is not chosen when another
\* member was not: states read at different times do not mix into a wrong
\* preference (select_http_backend, select_routed_pool, choose_online).
DownIsLastResort ==
    \A r \in Requests :
        req[r].stage = "chosen" /\ req[r].chosen \in watch[r].dead
            => watch[r].viable \cap req[r].pool = {}

\* "Health checks are a filter, not an availability gate": a selection whose
\* members were all registered with endpoints throughout finds one, however
\* many are down and whatever is evicted or replaced meanwhile.
FilterNotGate ==
    \A r \in Requests : req[r].stage = "failed" => ~(req[r].pool \subseteq watch[r].present)

\* A selection takes a live member if there is one, and any before none.
SelectionSound == DownIsLastResort /\ FilterNotGate

\* The registry does not outgrow RUNTIME_GROUP_MAX: when a round starts to probe
\* it has at most that many runtime groups and those that came during the
\* eviction.
RuntimeBounded ==
    [][HealthEvicts => Cardinality(RuntimeKeys' \ health.fresh) <= RuntimeMax]_vars

\* Health is eventually consistent: the state of an endpoint that stays up, or
\* stays down, in a group that stays registered comes to say so and stays.
HealthConverges ==
    \A k \in Keys : \A e \in EndpointsOf[k] : \A up \in BOOLEAN :
        /\ <>[](groups[k] # None /\ e \in resolved[k] /\ (e \in healthy) = up)
        /\ <>[][groups'[k] = groups[k]]_groups
        => <>[](groups[k] # None /\ At(k).endpoints[e] = IF up THEN "up" ELSE "down")
=============================================================================
