--------------------------- MODULE BackendGroupsProofs ---------------------------
(***************************************************************************)
(* Proofs about BackendGroups, for any keys, endpoints, requests and bounds. *)
(*                                                                           *)
(* Alive says that what somebody holds has not been freed and that a group   *)
(* is registered under its own key, Fresh what is known of a group between   *)
(* its creation and its insertion.  On these rest OnlyBoundAreConfigured     *)
(* (PassInv), SelectionSound (SelectionInv) and RuntimeBounded (EvictInv).   *)
(***************************************************************************)
EXTENDS BackendGroups, FiniteSetTheorems, TLAPS

Maybe(S) == S \cup {None}

Request == [stage: {"idle", "visit", "chosen", "failed"}, pool: SUBSET Keys, left: SUBSET Keys,
            new: Maybe(Ids), held: [Keys -> Maybe(Ids)],
            preferred: SUBSET Keys, fallback: SUBSET Keys, chosen: Maybe(Keys)]

Configs == [routes: SUBSET Keys, forward: SUBSET Keys]
Pass == [stage: {"idle", "bind", "register"}, left: SUBSET Keys, new: Maybe(Ids), config: Maybe(Configs)]

Round == [stage: {"idle", "expire", "evict", "probe"}, doomed: SUBSET Keys, fresh: SUBSET Keys,
          jobs: SUBSET [group: Ids, endpoint: Endpoints]]

TypeInv ==
    /\ groups \in [Keys -> Maybe(Ids)]
    /\ group \in [Ids -> Maybe(Group)]
    /\ bindings \subseteq Keys /\ forward \subseteq Keys
    /\ pass \in Pass /\ (pass.stage # "idle" => pass.config \in Configs)
    /\ req \in [Requests -> Request]
    /\ health \in Round
    /\ scenario \in Scenarios
    /\ resolved \in [Keys -> SUBSET Endpoints]

\* Nothing that is held is freed, and a group is registered under its own key.
Alive ==
    /\ \A i \in Ids : i \in Held => group[i] # None
    /\ \A k \in Keys : groups[k] # None => At(k).key = k

\* A group made and not yet inserted is known to its maker only, who still has its
\* key to do.
Fresh ==
    /\ pass.new # None => /\ group[pass.new].key \in pass.left
                          /\ group[pass.new].owner = "configured"
    /\ \A r \in Requests : req[r].new # None =>
          /\ group[req[r].new].key \in req[r].left
          /\ group[req[r].new].owner = "runtime"
          /\ req[r].stage = "visit"
          /\ pass.new # req[r].new
          /\ \A k \in Keys : groups[k] # req[r].new
          /\ \A s \in Requests : s # r => req[s].new # req[r].new

\* What a pass has bound, and what is configured between its two halves.
PassInv ==
    /\ pass.stage = "idle" => pass.left = {} /\ pass.new = None
    /\ pass.stage = "bind" => BoundKeys(pass.config) \ pass.left \subseteq bindings
    /\ pass.stage = "register" /\ ~serving => pass.left \subseteq bindings
    /\ pass.stage = "idle" \/ (pass.stage = "register" /\ ~serving) =>
          Registered \ RuntimeKeys \subseteq bindings

\* What a selection has read so far, and what was so all the time since it began.
Selecting(r) ==
    LET q == req[r] w == watch[r] IN
    /\ q.pool # {} /\ q.left \subseteq q.pool
    /\ q.preferred \cup q.fallback \subseteq q.pool \ q.left
    /\ \A k \in q.preferred \cup q.fallback : q.held[k] # None
    /\ q.preferred \cap w.dead = {}
    /\ q.pool \cap w.viable \subseteq q.left \cup q.preferred
    /\ q.pool \cap w.present \subseteq q.left \cup q.preferred \cup q.fallback

Sound(r) ==
    /\ req[r].stage = "visit" => Selecting(r)
    /\ req[r].stage = "chosen" /\ req[r].chosen \in watch[r].dead
          => watch[r].viable \cap req[r].pool = {}
    /\ req[r].stage = "failed" => ~(req[r].pool \subseteq watch[r].present)

SelectionInv == \A r \in Requests : Sound(r)

\* Between the two evictions of a round, the runtime groups that stay are within
\* the maximum, but for those that came meanwhile.
EvictInv ==
    health.stage = "evict" =>
        Cardinality(RuntimeKeys \ (health.doomed \cup health.fresh)) <= RuntimeMax

-----------------------------------------------------------------------------
(* Groups. *)

LEMMA Typed ==
    /\ None \notin Ids /\ None \notin Keys /\ None \notin Group /\ IsFiniteSet(Keys)
    /\ \A s \in Scenarios : s.configs \subseteq Configs /\ s.pools \subseteq SUBSET Keys /\ {} \notin s.pools
BY BackendAssumption DEF Configs

\* What can be done to a group: its owner, its use and its states change, its key
\* never does.
LEMMA ReconciledGroup ==
    ASSUME NEW g \in Group, NEW R \in SUBSET Endpoints
    PROVE  /\ Reconciled(g, R) \in Group
           /\ Reconciled(g, R).key = g.key /\ Reconciled(g, R).owner = g.owner
<1>. DEFINE f == [e \in Endpoints |-> IF e \notin R THEN "absent"
                     ELSE IF g.endpoints[e] = "absent" THEN "unknown" ELSE g.endpoints[e]]
<1>1. f \in [Endpoints -> States]
  BY DEF Group, States
<1>2. Reconciled(g, R) = [g EXCEPT !.endpoints = f]
  BY DEF Reconciled
<1>. HIDE DEF f
<1>. QED BY <1>1, <1>2 DEF Group

LEMMA MarkedGroup ==
    ASSUME NEW g \in Group, NEW E, NEW state \in States
    PROVE  /\ Marked(g, E, state) \in Group
           /\ Marked(g, E, state).key = g.key /\ Marked(g, E, state).owner = g.owner
<1>. DEFINE f == [e \in Endpoints |-> IF e \in E /\ g.endpoints[e] # "absent" THEN state ELSE g.endpoints[e]]
<1>1. f \in [Endpoints -> States]
  BY DEF Group
<1>2. Marked(g, E, state) = [g EXCEPT !.endpoints = f]
  BY DEF Marked
<1>. HIDE DEF f
<1>. QED BY <1>1, <1>2 DEF Group

LEMMA Monitored ==
    ASSUME TypeInv, NEW k \in Keys, NEW owner \in {"configured", "runtime"}
    PROVE  /\ MonitorGroup(k, owner) \in Group /\ MonitorGroup(k, owner) # None
           /\ MonitorGroup(k, owner).key = k /\ MonitorGroup(k, owner).owner = owner
<1>. DEFINE g == [key |-> k, owner |-> owner, idle |-> FALSE, endpoints |-> [e \in Endpoints |-> "absent"]]
<1>1. g \in Group /\ g.key = k /\ g.owner = owner
  BY DEF Group, States
<1>2. resolved[k] \in SUBSET Endpoints
  BY DEF TypeInv
<1>3. MonitorGroup(k, owner) = Reconciled(g, resolved[k])
  BY DEF MonitorGroup
<1>. HIDE DEF g
<1>4. /\ Reconciled(g, resolved[k]) \in Group
      /\ Reconciled(g, resolved[k]).key = k /\ Reconciled(g, resolved[k]).owner = owner
  BY <1>1, <1>2, ReconciledGroup
<1>. QED BY <1>3, <1>4, Typed

LEMMA WhoHolds ==
    \A i : i \in Held <=> \/ \E k \in Keys : groups[k] = i
                          \/ pass.new = i
                          \/ \E j \in health.jobs : j.group = i
                          \/ \E r \in Requests : req[r].new = i
                          \/ \E r \in Requests : \E k \in Keys : req[r].held[k] = i
BY DEF Held

LEMMA WhoHoldsNext ==
    \A i : i \in Held' <=> \/ \E k \in Keys : groups'[k] = i
                           \/ pass'.new = i
                           \/ \E j \in health'.jobs : j.group = i
                           \/ \E r \in Requests : req'[r].new = i
                           \/ \E r \in Requests : \E k \in Keys : req'[r].held[k] = i
BY DEF Held

LEMMA HoldsIt ==
    /\ \A k \in Keys : groups[k] \in Held
    /\ pass.new \in Held
    /\ \A j \in health.jobs : j.group \in Held
    /\ \A r \in Requests : req[r].new \in Held /\ \A k \in Keys : req[r].held[k] \in Held
BY DEF Held

\* A place that is free is held by nobody.
LEMMA FreeIsNew ==
    ASSUME TypeInv, Alive, NEW i \in Free
    PROVE  i \in Ids /\ group[i] = None /\ i \notin Held /\ i # None
BY Typed DEF Free, Alive

LEMMA RegisteredIsAlive ==
    ASSUME TypeInv, Alive, NEW k \in Keys, groups[k] # None
    PROVE  groups[k] \in Ids /\ groups[k] \in Held /\ At(k) \in Group /\ At(k).key = k
BY WhoHolds, Typed DEF TypeInv, Alive, At, Maybe

\* A group that lives on, with its key and its owner.
Same(i) == group'[i] \in Group /\ group'[i].key = group[i].key /\ group'[i].owner = group[i].owner

LEMMA KeptByKeep ==
    ASSUME NEW updated, Keep(updated)
    PROVE  /\ DOMAIN group' = Ids /\ group' = [i \in Ids |-> group'[i]]
           /\ \A i \in Ids : group'[i] = IF i \in Held' THEN updated[i] ELSE None
BY DEF Keep

LEMMA KeepTypes ==
    ASSUME NEW updated, Keep(updated), \A i \in Ids : updated[i] \in Maybe(Group)
    PROVE  group' \in [Ids -> Maybe(Group)]
BY DEF Keep, Maybe

-----------------------------------------------------------------------------
(* Steps that change no group but for its states.  The registry may lose       *)
(* groups, tasks may let go of them.                                           *)

Neutral ==
    /\ \A i \in Ids : i \in Held' => i \in Held /\ Same(i)
    /\ \A k \in Keys : groups'[k] = None \/ groups'[k] = groups[k]
    /\ pass'.new = None \/ (pass'.new = pass.new /\ pass'.left = pass.left)
    /\ \A r \in Requests : \/ req'[r].new = None
                           \/ /\ req'[r].new = req[r].new /\ req'[r].left = req[r].left
                              /\ req'[r].stage = req[r].stage

Configured == Registered \ RuntimeKeys

LEMMA NeutralStep ==
    ASSUME TypeInv, TypeInv', Alive, Fresh, Neutral
    PROVE  Alive' /\ Fresh' /\ Configured' \subseteq Configured /\ RuntimeKeys' \subseteq RuntimeKeys
<1>1. \A i \in Ids : i \in Held' => group'[i] # None
  BY Typed DEF Neutral, Same
<1>2. ASSUME NEW k \in Keys, groups'[k] # None
      PROVE  /\ groups'[k] = groups[k] /\ groups[k] # None /\ groups[k] \in Ids /\ groups[k] \in Held'
             /\ Same(groups[k]) /\ At(k).key = k
  <2>1. groups'[k] = groups[k] /\ groups'[k] \in Held'
    BY <1>2, WhoHoldsNext DEF Neutral
  <2>2. groups[k] \in Ids /\ At(k).key = k
    BY <1>2, <2>1, RegisteredIsAlive
  <2>. QED BY <1>2, <2>1, <2>2 DEF Neutral
<1>3. \A k \in Keys : groups'[k] # None => At(k)'.key = k
  BY <1>2 DEF Same, At
<1>4. /\ \A k \in Keys : k \in Registered' => k \in Registered
      /\ \A k \in Keys : k \in Registered' => At(k)'.owner = At(k).owner
  BY <1>2 DEF Registered, At, Same
<1>5. ASSUME pass'.new # None
      PROVE  /\ group[pass.new].key \in pass.left /\ group'[pass'.new].key \in pass'.left
             /\ group'[pass'.new].owner = "configured" /\ pass'.new = pass.new
  <2>1. pass'.new = pass.new /\ pass'.left = pass.left /\ pass'.new \in Held'
    BY <1>5, WhoHoldsNext DEF Neutral
  <2>2. pass.new \in Ids
    BY <1>5, <2>1 DEF TypeInv, Pass, Maybe
  <2>3. Same(pass.new)
    BY <2>1, <2>2 DEF Neutral
  <2>. QED BY <1>5, <2>1, <2>3 DEF Fresh, Same
<1>6. ASSUME NEW r \in Requests, req'[r].new # None
      PROVE  /\ group'[req'[r].new].key \in req'[r].left
             /\ group'[req'[r].new].owner = "runtime"
             /\ req'[r].stage = "visit"
             /\ pass'.new # req'[r].new
             /\ \A k \in Keys : groups'[k] # req'[r].new
             /\ \A s \in Requests : s # r => req'[s].new # req'[r].new
  <2>1. /\ req'[r].new = req[r].new /\ req'[r].left = req[r].left /\ req'[r].stage = req[r].stage
        /\ req'[r].new \in Held'
    BY <1>6, WhoHoldsNext DEF Neutral
  <2>2. req[r].new \in Ids
    BY <1>6, <2>1 DEF TypeInv, Request, Maybe
  <2>3. Same(req[r].new)
    BY <2>1, <2>2 DEF Neutral
  <2>4. pass'.new # req'[r].new /\ \A s \in Requests : s # r => req'[s].new # req'[r].new
    BY <1>6, <2>1 DEF Fresh, Neutral
  <2>5. \A k \in Keys : groups'[k] # req'[r].new
    BY <1>6, <2>1 DEF Fresh, Neutral
  <2>. QED BY <1>6, <2>1, <2>3, <2>4, <2>5 DEF Fresh, Same
<1>7. Alive'
  BY <1>1, <1>3 DEF Alive
<1>8. Fresh'
  BY <1>5, <1>6 DEF Fresh
<1>9. Configured' \subseteq Configured /\ RuntimeKeys' \subseteq RuntimeKeys
  BY <1>4 DEF Configured, RuntimeKeys, Registered
<1>. QED BY <1>7, <1>8, <1>9

-----------------------------------------------------------------------------
(* Selections. *)

\* The lists of a selection that has read the group i of key k.
PreferredWith(q, k, i) == IF Viable(group[i]) THEN q.preferred \cup {k} ELSE q.preferred
FallbackWith(q, k, i) ==
    IF Present(group[i]) # {} /\ ~Viable(group[i]) THEN q.fallback \cup {k} ELSE q.fallback
HeldWith(q, k, i) == [q.held EXCEPT ![k] = i]

LEMMA ReadFields ==
    ASSUME NEW q \in Request, NEW k \in Keys, NEW i \in Ids
    PROVE  /\ Read(q, k, i) \in Request
           /\ Read(q, k, i).stage = q.stage /\ Read(q, k, i).pool = q.pool
           /\ Read(q, k, i).left = q.left \ {k} /\ Read(q, k, i).new = None
           /\ Read(q, k, i).held = HeldWith(q, k, i)
           /\ Read(q, k, i).preferred = PreferredWith(q, k, i)
           /\ Read(q, k, i).fallback = FallbackWith(q, k, i)
<1>. DEFINE p == PreferredWith(q, k, i)
            f == FallbackWith(q, k, i)
            h == HeldWith(q, k, i)
<1>1. p \in SUBSET Keys /\ f \in SUBSET Keys /\ h \in [Keys -> Maybe(Ids)]
      /\ q.left \ {k} \in SUBSET Keys /\ None \in Maybe(Ids)
  BY DEF Request, Maybe, PreferredWith, FallbackWith, HeldWith
<1>2. Read(q, k, i) = [q EXCEPT !.left = q.left \ {k}, !.new = None, !.held = h, !.preferred = p, !.fallback = f]
  BY DEF Read, PreferredWith, FallbackWith, HeldWith
<1>. HIDE DEF p, f, h
<1>. DEFINE q1 == [q EXCEPT !.left = q.left \ {k}]
            q2 == [q1 EXCEPT !.new = None]
            q3 == [q2 EXCEPT !.held = h]
            q4 == [q3 EXCEPT !.preferred = p]
            q5 == [q4 EXCEPT !.fallback = f]
<1>3. Read(q, k, i) = q5
  BY <1>2
<1>4. q1 \in Request /\ q1.stage = q.stage /\ q1.pool = q.pool /\ q1.left = q.left \ {k}
  BY <1>1 DEF Request
<1>. HIDE DEF q1
<1>5. q2 \in Request /\ q2.stage = q.stage /\ q2.pool = q.pool /\ q2.left = q.left \ {k} /\ q2.new = None
  BY <1>1, <1>4 DEF Request
<1>. HIDE DEF q2
<1>6. /\ q3 \in Request /\ q3.stage = q.stage /\ q3.pool = q.pool /\ q3.left = q.left \ {k}
      /\ q3.new = None /\ q3.held = h
  BY <1>1, <1>5 DEF Request
<1>. HIDE DEF q3
<1>7. /\ q4 \in Request /\ q4.stage = q.stage /\ q4.pool = q.pool /\ q4.left = q.left \ {k}
      /\ q4.new = None /\ q4.held = h /\ q4.preferred = p
  BY <1>1, <1>6 DEF Request
<1>. HIDE DEF q4
<1>8. /\ q5 \in Request /\ q5.stage = q.stage /\ q5.pool = q.pool /\ q5.left = q.left \ {k}
      /\ q5.new = None /\ q5.held = h /\ q5.preferred = p /\ q5.fallback = f
  BY <1>1, <1>7 DEF Request
<1>. HIDE DEF q5
<1>. QED BY <1>3, <1>8 DEF p, f, h

\* What was so all the time can only become less.
LEMMA WatchShrinks ==
    ASSUME Watch, NEW r \in Requests, req'[r] = req[r], req[r].stage # "idle"
    PROVE  /\ watch'[r].present \subseteq watch[r].present /\ watch'[r].viable \subseteq watch[r].viable
           /\ watch'[r].dead \subseteq watch[r].dead
           /\ req[r].stage # "visit" => watch'[r] = watch[r]
<1>1. watch'[r] = IF req[r].stage # "visit" THEN watch[r] ELSE Both(watch[r], Now(r)')
  BY DEF Watch
<1>. QED BY <1>1 DEF Both

LEMMA SoundKept ==
    ASSUME Watch, NEW r \in Requests, Sound(r), req'[r] = req[r]
    PROVE  Sound(r)'
<1>1. CASE req[r].stage = "idle"
  BY <1>1 DEF Sound
<1>2. CASE req[r].stage # "idle"
  <2>1. /\ watch'[r].present \subseteq watch[r].present /\ watch'[r].viable \subseteq watch[r].viable
        /\ watch'[r].dead \subseteq watch[r].dead
        /\ req[r].stage # "visit" => watch'[r] = watch[r]
    BY <1>2, WatchShrinks
  <2>2. CASE req[r].stage = "visit"
    <3>1. Selecting(r)'
      BY <2>1, <2>2 DEF Sound, Selecting
    <3>. QED BY <2>2, <3>1 DEF Sound
  <2>3. CASE req[r].stage # "visit"
    BY <2>1, <2>3 DEF Sound
  <2>. QED BY <2>2, <2>3
<1>. QED BY <1>1, <1>2

\* A member read is preferred when it was viable, and dropped when it had no
\* endpoints, in the state that is watched.
LEMMA SoundRead ==
    ASSUME Watch, NEW r \in Requests, Sound(r), req[r] \in Request, req[r].stage = "visit",
           NEW k \in req[r].left, k \in Keys, NEW i \in Ids,
           req'[r] = Read(req[r], k, i), group'[i].endpoints = group[i].endpoints
    PROVE  Sound(r)'
<1>. DEFINE q == req[r]
            w == watch[r]
            n == Now(r)'
<1>1. /\ req'[r].stage = "visit" /\ req'[r].pool = q.pool /\ req'[r].left = q.left \ {k}
      /\ req'[r].held = [q.held EXCEPT ![k] = i]
      /\ req'[r].preferred = IF Viable(group[i]) THEN q.preferred \cup {k} ELSE q.preferred
      /\ req'[r].fallback = IF Present(group[i]) # {} /\ ~Viable(group[i])
                            THEN q.fallback \cup {k} ELSE q.fallback
  <2>1. /\ req'[r].stage = q.stage /\ req'[r].pool = q.pool /\ req'[r].left = q.left \ {k}
        /\ req'[r].held = HeldWith(q, k, i) /\ req'[r].preferred = PreferredWith(q, k, i)
        /\ req'[r].fallback = FallbackWith(q, k, i)
    BY ReadFields
  <2>. QED BY <2>1 DEF HeldWith, PreferredWith, FallbackWith
<1>2. /\ watch'[r].present = w.present \cap n.present
      /\ watch'[r].viable = w.viable \cap n.viable
      /\ watch'[r].dead = w.dead \cap n.dead
  BY <1>1 DEF Watch, Both
<1>3. q.held \in [Keys -> Maybe(Ids)] /\ i # None
  BY Typed DEF Request
<1>4. Sees(r, k)' = i
  BY <1>1, <1>3 DEF Sees
<1>5. /\ Present(group'[i]) = Present(group[i]) /\ Viable(group'[i]) = Viable(group[i])
      /\ Viable(group[i]) => Present(group[i]) # {}
  BY DEF Present, Viable, In
<1>6. /\ k \in n.present <=> Present(group[i]) # {}
      /\ k \in n.viable <=> Viable(group[i])
      /\ k \in n.dead <=> Present(group[i]) # {} /\ ~Viable(group[i])
  BY <1>3, <1>4, <1>5 DEF Now
<1>7. Selecting(r)
  BY DEF Sound
<1>. HIDE DEF n
<1>8. /\ q.pool # {} /\ k \in q.left /\ q.left \subseteq q.pool /\ q.preferred \cup q.fallback \subseteq q.pool \ q.left
      /\ \A m \in q.preferred \cup q.fallback : q.held[m] # None
      /\ q.preferred \cap w.dead = {}
      /\ q.pool \cap w.viable \subseteq q.left \cup q.preferred
      /\ q.pool \cap w.present \subseteq q.left \cup q.preferred \cup q.fallback
  BY <1>7 DEF Selecting
<1>9. \A m \in Keys : req'[r].held[m] = IF m = k THEN i ELSE q.held[m]
  BY <1>1, <1>3
<1>10. q.preferred \subseteq Keys /\ q.fallback \subseteq Keys
  BY DEF Request
<1>. HIDE DEF q, w
<1>11. req'[r].preferred \cap watch'[r].dead = {}
  BY <1>1, <1>2, <1>6, <1>8
<1>12. req'[r].pool \cap watch'[r].viable \subseteq req'[r].left \cup req'[r].preferred
  BY <1>1, <1>2, <1>6, <1>8
<1>13. req'[r].pool \cap watch'[r].present \subseteq req'[r].left \cup req'[r].preferred \cup req'[r].fallback
  BY <1>1, <1>2, <1>6, <1>8
<1>14. \A m \in req'[r].preferred \cup req'[r].fallback : req'[r].held[m] # None
  BY <1>1, <1>3, <1>8, <1>9, <1>10
<1>15. req'[r].preferred \cup req'[r].fallback \subseteq req'[r].pool \ req'[r].left
  BY <1>1, <1>8
<1>16. Selecting(r)'
  BY <1>1, <1>8, <1>11, <1>12, <1>13, <1>14, <1>15 DEF Selecting
<1>. QED BY <1>1, <1>16 DEF Sound

\* A selection begins: what it has not to read is not there.
LEMMA SoundBegins ==
    ASSUME Watch, NEW r \in Requests, req[r].stage = "idle", req'[r].stage = "visit",
           req'[r].pool # {}, req'[r].pool \subseteq Keys, req'[r].left \subseteq req'[r].pool,
           req'[r].preferred = {}, req'[r].fallback = {},
           \A k \in req'[r].pool \ req'[r].left : Sees(r, k)' = None
    PROVE  Sound(r)'
<1>1. watch'[r] = Now(r)'
  BY DEF Watch
<1>2. \A k \in Now(r)'.present : Sees(r, k)' # None
  BY DEF Now
<1>3. watch'[r].viable \subseteq watch'[r].present
  BY <1>1 DEF Now
<1>4. Selecting(r)'
  BY <1>1, <1>2, <1>3 DEF Selecting
<1>. QED BY <1>4 DEF Sound

LEMMA Fallback ==
    ASSUME NEW g, Candidates(g) = {}
    PROVE  Present(g) = {}
BY DEF Candidates, Present, In

\* A selection ends with a member of those it preferred, or of the fallbacks when it
\* preferred none; and without one when it had none, or has none by now.
LEMMA SoundChooses ==
    ASSUME TypeInv, Watch, NEW r \in Requests, Sound(r), RequestChooses(r)
    PROVE  Sound(r)'
<1>. DEFINE q == req[r]
            w == watch[r]
            n == Now(r)'
<1>1. q.stage = "visit" /\ q.left = {} /\ group' = group /\ groups' = groups /\ q \in Request
  BY DEF RequestChooses, TypeInv
<1>2. Selecting(r)
  BY <1>1 DEF Sound
<1>3. /\ q.pool # {} /\ q.preferred \cup q.fallback \subseteq q.pool
      /\ \A m \in q.preferred \cup q.fallback : q.held[m] # None
      /\ q.preferred \cap w.dead = {}
      /\ q.pool \cap w.viable \subseteq q.preferred
      /\ q.pool \cap w.present \subseteq q.preferred \cup q.fallback
  BY <1>1, <1>2 DEF Selecting
<1>4. Available(q) \subseteq q.preferred \cup q.fallback
  BY DEF Available
<1>5. ASSUME req' = [req EXCEPT ![r].stage = "failed"],
             \/ Available(q) = {}
             \/ \E k \in Available(q) : Candidates(group[q.held[k]]) = {}
      PROVE  Sound(r)'
  <2>1. req'[r].stage = "failed" /\ req'[r].pool = q.pool /\ req'[r].held = q.held
    BY <1>1, <1>5 DEF TypeInv, Request
  <2>2. watch'[r].present = w.present \cap n.present
    BY <1>1, <2>1 DEF Watch, Both
  <2>3. CASE Available(q) = {}
    <3>1. q.preferred \cup q.fallback = {}
      BY <2>3 DEF Available
    <3>. QED BY <1>3, <2>1, <2>2, <3>1 DEF Sound
  <2>4. ASSUME NEW k \in Available(q), Candidates(group[q.held[k]]) = {}
        PROVE  Sound(r)'
    <3>1. k \in q.pool /\ q.held[k] # None /\ Present(group[q.held[k]]) = {}
      BY <1>3, <1>4, <2>4, Fallback
    <3>2. Sees(r, k)' = q.held[k]
      BY <2>1, <3>1 DEF Sees
    <3>3. k \notin n.present
      BY <1>1, <3>1, <3>2 DEF Now
    <3>. QED BY <2>1, <2>2, <3>1, <3>3 DEF Sound
  <2>. QED BY <1>5, <2>3, <2>4
<1>6. ASSUME NEW k \in Available(q), req' = [req EXCEPT ![r].stage = "chosen", ![r].chosen = k]
      PROVE  Sound(r)'
  <2>1. req'[r].stage = "chosen" /\ req'[r].pool = q.pool /\ req'[r].chosen = k
    BY <1>1, <1>6 DEF TypeInv, Request
  <2>2. watch'[r].dead \subseteq w.dead /\ watch'[r].viable \subseteq w.viable
    BY <1>1, <2>1 DEF Watch, Both
  <2>3. k \in w.dead => q.preferred = {}
    BY <1>3, <1>6 DEF Available
  <2>. QED BY <1>3, <2>1, <2>2, <2>3 DEF Sound
<1>. QED BY <1>5, <1>6 DEF RequestChooses

-----------------------------------------------------------------------------
(* The steps. *)

Inv == TypeInv /\ Alive /\ Fresh /\ PassInv /\ SelectionInv /\ EvictInv

LEMMA HeldIsAlive ==
    ASSUME TypeInv, Alive, NEW i \in Ids, i \in Held
    PROVE  group[i] \in Group
BY DEF TypeInv, Alive, Maybe

\* Who comes to hold a group has it from the registry, or made it.
Passed ==
    /\ \A k \in Keys : groups'[k] = None \/ groups'[k] = groups[k]
    /\ pass'.new = None \/ (pass'.new = pass.new /\ pass'.left = pass.left)
    /\ \A j \in health'.jobs : j \in health.jobs \/ \E k \in Keys : groups[k] = j.group
    /\ \A r \in Requests :
          /\ \/ req'[r].new = None
             \/ /\ req'[r].new = req[r].new /\ req'[r].left = req[r].left
                /\ req'[r].stage = req[r].stage
          /\ \A k \in Keys : \/ req'[r].held[k] = None \/ req'[r].held[k] = req[r].held[k]
                             \/ \E l \in Keys : req'[r].held[k] = groups[l]

LEMMA NeutralIf ==
    ASSUME Inv, Passed, \A i \in Ids : i \in Held' /\ group[i] \in Group => Same(i)
    PROVE  Neutral
<1>1. ASSUME NEW i \in Ids, i \in Held'
      PROVE  i \in Held
  <2>1. i # None
    BY Typed
  <2>2. ASSUME NEW r \in Requests, NEW k \in Keys, req'[r].held[k] = i
        PROVE  i \in Held
    BY <2>1, <2>2, WhoHolds DEF Passed
  <2>3. ASSUME NEW j \in health'.jobs, j.group = i
        PROVE  i \in Held
    BY <2>3, WhoHolds DEF Passed
  <2>4. (\E k \in Keys : groups'[k] = i) \/ pass'.new = i \/ (\E r \in Requests : req'[r].new = i)
          => i \in Held
    BY <2>1, WhoHolds DEF Passed
  <2>. QED BY <1>1, <2>2, <2>3, <2>4, WhoHoldsNext
<1>2. \A i \in Ids : i \in Held' => i \in Held /\ Same(i)
  BY <1>1, HeldIsAlive DEF Inv
<1>. QED BY <1>2 DEF Neutral, Passed

\* Once a round has chosen what is to go, only fresh groups add to what stays.
LEMMA EvictKept ==
    ASSUME EvictInv, RuntimeKeys' \subseteq RuntimeKeys \cup health'.fresh,
           health'.stage = "evict" => /\ health.stage = "evict" /\ health'.doomed = health.doomed
                                      /\ health.fresh \subseteq health'.fresh
    PROVE  EvictInv'
<1>. SUFFICES ASSUME health'.stage = "evict"
              PROVE  Cardinality(RuntimeKeys' \ (health'.doomed \cup health'.fresh)) <= RuntimeMax
  BY DEF EvictInv
<1>. DEFINE S == RuntimeKeys \ (health.doomed \cup health.fresh)
            T == RuntimeKeys' \ (health'.doomed \cup health'.fresh)
<1>1. T \subseteq S /\ S \subseteq Keys
  BY DEF RuntimeKeys, Registered
<1>2. Cardinality(S) <= RuntimeMax
  BY DEF EvictInv
<1>. HIDE DEF S, T
<1>3. Cardinality(S) \in Nat /\ Cardinality(T) \in Nat /\ Cardinality(T) <= Cardinality(S)
  <2>1. IsFiniteSet(S)
    BY <1>1, FS_Subset, Typed
  <2>2. IsFiniteSet(T) /\ Cardinality(T) <= Cardinality(S)
    BY <1>1, <2>1, FS_Subset
  <2>. QED BY <2>1, <2>2, FS_CardinalityType
<1>4. Cardinality(T) <= RuntimeMax
  BY <1>2, <1>3, BackendAssumption
<1>. QED BY <1>4 DEF T

\* A step that ends no selection wrongly, and what is left of the invariant.
LEMMA NeutralBut ==
    ASSUME Inv, TypeInv', Neutral, Watch, \A r \in Requests : req'[r] = req[r] \/ Sound(r)'
    PROVE  /\ Alive' /\ Fresh' /\ SelectionInv'
           /\ Configured' \subseteq Configured /\ RuntimeKeys' \subseteq RuntimeKeys
<1>1. Alive' /\ Fresh' /\ Configured' \subseteq Configured /\ RuntimeKeys' \subseteq RuntimeKeys
  BY NeutralStep DEF Inv
<1>2. SelectionInv'
  BY SoundKept DEF Inv, SelectionInv
<1>. QED BY <1>1, <1>2

\* Such a step that leaves the pass alone and does not enter the second eviction.
LEMMA NeutralRest ==
    ASSUME Inv, TypeInv', Neutral, Watch,
           UNCHANGED <<pass, bindings, serving>> \/ (pass'.stage = "register" /\ serving'),
           health' = health \/ health'.stage # "evict",
           \A r \in Requests : req'[r] = req[r] \/ Sound(r)'
    PROVE  Inv'
<1>1. /\ Alive' /\ Fresh' /\ SelectionInv'
      /\ Configured' \subseteq Configured /\ RuntimeKeys' \subseteq RuntimeKeys
  BY NeutralBut
<1>2. PassInv'
  <2>1. CASE UNCHANGED <<pass, bindings, serving>>
    BY <1>1, <2>1 DEF Inv, PassInv, Configured, BoundKeys
  <2>2. CASE pass'.stage = "register" /\ serving'
    BY <2>2 DEF PassInv
  <2>. QED BY <2>1, <2>2
<1>3. EvictInv'
  BY <1>1, EvictKept DEF Inv
<1>. QED BY <1>1, <1>2, <1>3 DEF Inv

LEMMA NoRequestTyped ==
    /\ NoRequest \in Request /\ NoRequest.stage = "idle" /\ NoRequest.new = None
    /\ NoRequest.left = {} /\ NoRequest.preferred = {} /\ NoRequest.fallback = {}
    /\ NoRequest.pool = {} /\ \A k \in Keys : NoRequest.held[k] = None
BY DEF NoRequest, Request, Maybe

LEMMA RouteBegin ==
    ASSUME Inv, Watch, NEW r \in Requests, NEW pool \in scenario.pools, RouteBegins(r, pool)
    PROVE  Inv'
<1>. DEFINE q == [NoRequest EXCEPT !.stage = "visit", !.pool = pool, !.left = pool]
<1>1. /\ req' = [req EXCEPT ![r] = q] /\ req[r].stage = "idle"
      /\ UNCHANGED <<groups, group, configVars, health, worldVars>>
  BY DEF RouteBegins, RequestVarsUnchanged
<1>2. pool \in SUBSET Keys /\ pool # {}
  <2>1. scenario.pools \subseteq SUBSET Keys /\ {} \notin scenario.pools
    BY Typed DEF Inv, TypeInv
  <2>. QED BY <2>1
<1>3. /\ q \in Request /\ q.stage = "visit" /\ q.pool = pool /\ q.left = pool /\ q.new = None
      /\ q.preferred = {} /\ q.fallback = {} /\ \A k \in Keys : q.held[k] = None
  BY <1>2 DEF NoRequest, Request, Maybe
<1>. HIDE DEF q
<1>4. req'[r] = q /\ \A s \in Requests : s # r => req'[s] = req[s]
  BY <1>1 DEF Inv, TypeInv
<1>5. TypeInv'
  BY <1>1, <1>3 DEF Inv, TypeInv, configVars, worldVars
<1>6. Passed
  BY <1>1, <1>3, <1>4 DEF Passed, configVars
<1>7. Neutral
  BY <1>1, <1>6, NeutralIf DEF Same
<1>8. Sound(r)'
  BY <1>1, <1>2, <1>3, <1>4, SoundBegins
<1>. QED BY <1>1, <1>4, <1>5, <1>7, <1>8, NeutralRest DEF configVars

LEMMA ForwardBegin ==
    ASSUME Inv, Watch, NEW r \in Requests, ForwardBegins(r)
    PROVE  Inv'
<1>. DEFINE held == [k \in Keys |-> IF k \in forward THEN groups[k] ELSE None]
            q == [NoRequest EXCEPT !.stage = "visit", !.pool = forward, !.left = forward \cap Registered,
                                   !.held = held]
<1>1. /\ req' = [req EXCEPT ![r] = q] /\ req[r].stage = "idle" /\ forward # {}
      /\ UNCHANGED <<groups, group, configVars, health, worldVars>>
  BY DEF ForwardBegins, RequestVarsUnchanged
<1>2. /\ forward \in SUBSET Keys /\ forward \cap Registered \in SUBSET Keys /\ held \in [Keys -> Maybe(Ids)]
      /\ \A k \in Keys : held[k] = IF k \in forward THEN groups[k] ELSE None
  BY DEF Inv, TypeInv, Maybe
<1>. HIDE DEF held
<1>3. /\ q \in Request /\ q.stage = "visit" /\ q.pool = forward /\ q.left = forward \cap Registered
      /\ q.new = None /\ q.preferred = {} /\ q.fallback = {} /\ q.held = held
  BY <1>2 DEF NoRequest, Request, Maybe
<1>. HIDE DEF q
<1>4. req'[r] = q /\ \A s \in Requests : s # r => req'[s] = req[s]
  BY <1>1 DEF Inv, TypeInv
<1>5. TypeInv'
  BY <1>1, <1>3 DEF Inv, TypeInv, configVars, worldVars
<1>6. Passed
  BY <1>1, <1>2, <1>3, <1>4 DEF Passed, configVars
<1>7. Neutral
  BY <1>1, <1>6, NeutralIf DEF Same
<1>8. Sound(r)'
  <2>1. \A k \in forward \ (forward \cap Registered) : held[k] = None /\ groups'[k] = None
    BY <1>1, <1>2 DEF Registered
  <2>2. \A k \in req'[r].pool \ req'[r].left : Sees(r, k)' = None
    BY <1>3, <1>4, <2>1 DEF Sees
  <2>. QED BY <1>1, <1>2, <1>3, <1>4, <2>2, SoundBegins
<1>. QED BY <1>1, <1>4, <1>5, <1>7, <1>8, NeutralRest DEF configVars

\* A member is read from the registry, or from what choose_online collected.
LEMMA RequestFind ==
    ASSUME Inv, Watch, NEW r \in Requests, NEW k \in Keys, RequestFinds(r, k)
    PROVE  Inv'
<1>. DEFINE i == groups[k]
            q == Read(req[r], k, i)
<1>1. /\ req[r].stage = "visit" /\ req[r].new = None /\ k \in req[r].left /\ i # None
      /\ req' = [req EXCEPT ![r] = q] /\ group' = [group EXCEPT ![i].idle = FALSE]
      /\ UNCHANGED <<groups, configVars, health, worldVars>>
  BY DEF RequestFinds, RequestVarsUnchanged
<1>2. i \in Ids /\ group[i] \in Group /\ req[r] \in Request
  BY <1>1, RegisteredIsAlive DEF Inv, TypeInv, At
<1>3. q \in Request /\ q.new = None /\ q.held = HeldWith(req[r], k, i)
  BY <1>2, ReadFields
<1>4. \A l \in Keys : q.held[l] = IF l = k THEN groups[k] ELSE req[r].held[l]
  BY <1>2, <1>3 DEF HeldWith, Request
<1>. HIDE DEF q
<1>5. req'[r] = q /\ \A s \in Requests : s # r => req'[s] = req[s]
  BY <1>1 DEF Inv, TypeInv
<1>6. /\ group'[i] = [group[i] EXCEPT !.idle = FALSE] /\ \A l \in Ids : l # i => group'[l] = group[l]
      /\ group' \in [Ids -> Maybe(Group)]
  <2>1. [group[i] EXCEPT !.idle = FALSE] \in Group /\ group \in [Ids -> Maybe(Group)]
    BY <1>2 DEF Inv, TypeInv, Group
  <2>2. group' = [group EXCEPT ![i] = [group[i] EXCEPT !.idle = FALSE]]
    BY <1>1
  <2>. QED BY <1>2, <2>1, <2>2 DEF Maybe
<1>7. TypeInv'
  BY <1>1, <1>3, <1>6 DEF Inv, TypeInv, configVars, worldVars
<1>8. Passed
  BY <1>1, <1>3, <1>4, <1>5 DEF Passed, configVars
<1>9. Same(i) /\ group'[i].endpoints = group[i].endpoints
  BY <1>2, <1>6 DEF Same, Group
<1>10. Neutral
  BY <1>6, <1>8, <1>9, NeutralIf DEF Same
<1>11. Sound(r)'
  BY <1>1, <1>2, <1>5, <1>9, SoundRead DEF Inv, SelectionInv, q
<1>. QED BY <1>1, <1>5, <1>7, <1>10, <1>11, NeutralRest DEF configVars

LEMMA ForwardRead ==
    ASSUME Inv, Watch, NEW r \in Requests, NEW k \in Keys, ForwardReads(r, k)
    PROVE  Inv'
<1>. DEFINE i == req[r].held[k]
            q == Read(req[r], k, i)
<1>1. /\ req[r].stage = "visit" /\ k \in req[r].left /\ i # None
      /\ req' = [req EXCEPT ![r] = q]
      /\ UNCHANGED <<groups, group, configVars, health, worldVars>>
  BY DEF ForwardReads, RequestVarsUnchanged
<1>2. i \in Ids /\ req[r] \in Request
  BY <1>1 DEF Inv, TypeInv, Request, Maybe
<1>3. q \in Request /\ q.new = None /\ q.held = HeldWith(req[r], k, i)
  BY <1>2, ReadFields
<1>4. \A l \in Keys : q.held[l] = req[r].held[l]
  BY <1>2, <1>3 DEF HeldWith, Request
<1>. HIDE DEF q
<1>5. req'[r] = q /\ \A s \in Requests : s # r => req'[s] = req[s]
  BY <1>1 DEF Inv, TypeInv
<1>6. TypeInv'
  BY <1>1, <1>3 DEF Inv, TypeInv, configVars, worldVars
<1>7. Passed
  BY <1>1, <1>3, <1>4, <1>5 DEF Passed, configVars
<1>8. Neutral
  BY <1>1, <1>7, NeutralIf DEF Same
<1>9. Sound(r)'
  BY <1>1, <1>2, <1>5, SoundRead DEF Inv, SelectionInv, q
<1>. QED BY <1>1, <1>5, <1>6, <1>8, <1>9, NeutralRest DEF configVars

LEMMA RequestChoose ==
    ASSUME Inv, Watch, NEW r \in Requests, RequestChooses(r)
    PROVE  Inv'
<1>1. /\ req[r].left = {} /\ UNCHANGED <<groups, group, configVars, health, worldVars>>
  BY DEF RequestChooses, RequestVarsUnchanged
<1>2. \/ req' = [req EXCEPT ![r].stage = "failed"]
      \/ \E k \in Available(req[r]) : req' = [req EXCEPT ![r].stage = "chosen", ![r].chosen = k]
  BY DEF RequestChooses
<1>3. req[r] \in Request /\ Available(req[r]) \subseteq Keys /\ req[r].new = None
  BY <1>1 DEF Inv, TypeInv, Request, Available, Fresh
<1>4. /\ req' \in [Requests -> Request] /\ req'[r].new = None /\ req'[r].held = req[r].held
      /\ \A s \in Requests : s # r => req'[s] = req[s]
  <2>1. CASE req' = [req EXCEPT ![r].stage = "failed"]
    BY <1>3, <2>1 DEF Inv, TypeInv, Request
  <2>2. ASSUME NEW k \in Available(req[r]), req' = [req EXCEPT ![r].stage = "chosen", ![r].chosen = k]
        PROVE  /\ req' \in [Requests -> Request] /\ req'[r].new = None /\ req'[r].held = req[r].held
               /\ \A s \in Requests : s # r => req'[s] = req[s]
    BY <1>3, <2>2 DEF Inv, TypeInv, Request, Maybe
  <2>. QED BY <1>2, <2>1, <2>2
<1>5. TypeInv'
  BY <1>1, <1>4 DEF Inv, TypeInv, configVars, worldVars
<1>6. Passed
  BY <1>1, <1>4 DEF Passed, configVars
<1>7. Neutral
  BY <1>1, <1>6, NeutralIf DEF Same
<1>8. Sound(r)'
  BY SoundChooses DEF Inv, SelectionInv
<1>. QED BY <1>1, <1>4, <1>5, <1>7, <1>8, NeutralRest DEF configVars

LEMMA RequestEnd ==
    ASSUME Inv, Watch, NEW r \in Requests, RequestEnds(r)
    PROVE  Inv'
<1>1. /\ req' = [req EXCEPT ![r] = NoRequest] /\ Keep(group)
      /\ UNCHANGED <<groups, configVars, health, worldVars>>
  BY DEF RequestEnds, RequestVarsUnchanged
<1>2. req'[r] = NoRequest /\ \A s \in Requests : s # r => req'[s] = req[s]
  BY <1>1 DEF Inv, TypeInv
<1>3. group' \in [Ids -> Maybe(Group)]
  BY <1>1, KeepTypes DEF Inv, TypeInv
<1>4. TypeInv'
  BY <1>1, <1>3, NoRequestTyped DEF Inv, TypeInv, configVars, worldVars
<1>5. Passed
  BY <1>1, <1>2, NoRequestTyped DEF Passed, configVars
<1>6. Neutral
  BY <1>1, <1>5, KeptByKeep, NeutralIf DEF Same
<1>7. Sound(r)'
  BY <1>2, NoRequestTyped DEF Sound
<1>. QED BY <1>1, <1>2, <1>4, <1>6, <1>7, NeutralRest DEF configVars

-----------------------------------------------------------------------------
(* The health loop and the world. *)

\* Groups whose states are updated, those nobody holds any more freed.
LEMMA KeepNeutral ==
    ASSUME Inv, Passed, NEW updated, Keep(updated),
           \A i \in Ids : /\ updated[i] \in Maybe(Group)
                          /\ group[i] \in Group => /\ updated[i] \in Group
                                                   /\ updated[i].key = group[i].key
                                                   /\ updated[i].owner = group[i].owner
    PROVE  Neutral /\ group' \in [Ids -> Maybe(Group)]
<1>1. group' \in [Ids -> Maybe(Group)]
  BY KeepTypes
<1>2. \A i \in Ids : i \in Held' => group'[i] = updated[i]
  BY KeptByKeep
<1>3. \A i \in Ids : i \in Held' /\ group[i] \in Group => Same(i)
  BY <1>2 DEF Same
<1>. QED BY <1>1, <1>3, NeutralIf

LEMMA HealthScan ==
    ASSUME Inv, Watch, HealthScans
    PROVE  Inv'
<1>. DEFINE h == [NoRound EXCEPT !.stage = "expire", !.doomed = Expired]
<1>1. health' = h /\ UNCHANGED <<groups, group, configVars, req, worldVars>>
  BY DEF HealthScans, HealthVarsUnchanged
<1>2. h \in Round /\ h.stage = "expire" /\ h.jobs = {}
  <2>1. Expired \in SUBSET Keys
    BY DEF Expired, RuntimeKeys, Registered
  <2>. QED BY <2>1 DEF NoRound, Round
<1>. HIDE DEF h
<1>3. TypeInv'
  BY <1>1, <1>2 DEF Inv, TypeInv, configVars, worldVars
<1>4. Passed
  BY <1>1, <1>2 DEF Passed, configVars
<1>5. Neutral
  BY <1>1, <1>4, NeutralIf DEF Same
<1>. QED BY <1>1, <1>2, <1>3, <1>5, NeutralRest DEF configVars

LEMMA HealthEvict ==
    ASSUME Inv, Watch, HealthEvicts
    PROVE  Inv' /\ RuntimeKeys' \subseteq RuntimeKeys \ health.doomed
<1>. DEFINE listed == {groups[k] : k \in Registered \ health.doomed}
            updated == [i \in Ids |-> IF i \in listed THEN Reconciled(group[i], resolved[group[i].key])
                                                      ELSE group[i]]
            jobs == UNION {{Job(i, e) : e \in Present(updated[i])} : i \in listed}
            h == [NoRound EXCEPT !.stage = "probe", !.jobs = jobs]
<1>1. /\ groups' = [k \in Keys |-> IF k \in health.doomed THEN None ELSE groups[k]]
      /\ health' = h /\ Keep(updated) /\ UNCHANGED <<configVars, req, worldVars>>
  BY DEF HealthEvicts, HealthVarsUnchanged, Retain
<1>2. listed \subseteq Ids /\ \A i \in listed : \E k \in Keys : groups[k] = i
  BY DEF Registered, Inv, TypeInv, Maybe
<1>3. jobs \in SUBSET [group: Ids, endpoint: Endpoints] /\ \A j \in jobs : \E k \in Keys : groups[k] = j.group
  <2>1. \A i \in listed : \A e \in Present(updated[i]) :
            Job(i, e) \in [group: Ids, endpoint: Endpoints] /\ Job(i, e).group = i
    BY <1>2 DEF Job, Present
  <2>. HIDE DEF updated, listed
  <2>. QED BY <1>2, <2>1
<1>. HIDE DEF jobs
<1>4. h \in Round /\ h.stage = "probe" /\ h.jobs = jobs
  BY <1>3 DEF NoRound, Round
<1>. HIDE DEF h
<1>5. ASSUME NEW i \in Ids
      PROVE  /\ updated[i] \in Maybe(Group)
             /\ group[i] \in Group => /\ updated[i] \in Group /\ updated[i].key = group[i].key
                                      /\ updated[i].owner = group[i].owner
  <2>1. CASE i \in listed
    <3>1. i \in Held
      BY <1>2, <2>1, WhoHolds
    <3>2. group[i] \in Group
      BY <3>1, HeldIsAlive DEF Inv
    <3>3. resolved[group[i].key] \in SUBSET Endpoints
      BY <3>2 DEF Group, Inv, TypeInv
    <3>4. updated[i] = Reconciled(group[i], resolved[group[i].key])
      BY <2>1
    <3>. HIDE DEF updated
    <3>5. PICK g \in Group, R \in SUBSET Endpoints : g = group[i] /\ R = resolved[group[i].key]
      BY <3>2, <3>3
    <3>6. updated[i] \in Group /\ updated[i].key = g.key /\ updated[i].owner = g.owner
      BY <3>4, <3>5, ReconciledGroup
    <3>. QED BY <3>5, <3>6 DEF Maybe
  <2>2. CASE i \notin listed
    <3>1. updated[i] = group[i] /\ group[i] \in Maybe(Group)
      BY <2>2 DEF Inv, TypeInv
    <3>. HIDE DEF updated
    <3>. QED BY <3>1
  <2>. QED BY <2>1, <2>2
<1>. HIDE DEF updated, listed
<1>6. groups' \in [Keys -> Maybe(Ids)] /\ \A k \in Keys : groups'[k] = None \/ groups'[k] = groups[k]
  BY <1>1 DEF Inv, TypeInv, Maybe
<1>7. Passed
  BY <1>1, <1>3, <1>4, <1>6 DEF Passed, configVars
<1>8. Neutral /\ group' \in [Ids -> Maybe(Group)]
  BY <1>1, <1>5, <1>7, KeepNeutral
<1>9. TypeInv'
  BY <1>1, <1>4, <1>6, <1>8 DEF Inv, TypeInv, configVars, worldVars
<1>10. Inv'
  BY <1>1, <1>4, <1>8, <1>9, NeutralRest DEF configVars
<1>11. RuntimeKeys' \subseteq RuntimeKeys
  BY <1>8, <1>9, NeutralStep DEF Inv
<1>12. \A k \in RuntimeKeys' : k \in Keys /\ groups'[k] # None
  BY DEF RuntimeKeys, Registered
<1>. QED BY <1>1, <1>10, <1>11, <1>12

LEMMA HealthHear ==
    ASSUME Inv, Watch, NEW j \in health.jobs, HealthHears(j)
    PROVE  Inv'
<1>. DEFINE state == IF j.endpoint \in healthy THEN "up" ELSE "down"
            g == Marked(group[j.group], {j.endpoint}, state)
            updated == [group EXCEPT ![j.group] = g]
<1>1. /\ health' = [health EXCEPT !.jobs = @ \ {j}] /\ Keep(updated) /\ health.stage = "probe"
      /\ UNCHANGED <<groups, configVars, req, worldVars>>
  BY DEF HealthHears, HealthVarsUnchanged
<1>2. health' \in Round /\ health'.stage = "probe" /\ health'.jobs \subseteq health.jobs
  BY <1>1 DEF Inv, TypeInv, Round
<1>3. j.group \in Ids /\ state \in States
  BY DEF Inv, TypeInv, Round, States
<1>4. group[j.group] \in Group
  <2>1. j.group \in Held
    BY WhoHolds
  <2>. QED BY <1>3, <2>1, HeldIsAlive DEF Inv
<1>. HIDE DEF state
<1>5. g \in Group /\ g.key = group[j.group].key /\ g.owner = group[j.group].owner
  BY <1>3, <1>4, MarkedGroup
<1>. HIDE DEF g
<1>6. \A i \in Ids : updated[i] = IF i = j.group THEN g ELSE group[i]
  BY <1>3 DEF Inv, TypeInv
<1>. HIDE DEF updated
<1>7. \A i \in Ids : /\ updated[i] \in Maybe(Group)
                     /\ group[i] \in Group => /\ updated[i] \in Group
                                              /\ updated[i].key = group[i].key
                                              /\ updated[i].owner = group[i].owner
  BY <1>5, <1>6 DEF Inv, TypeInv, Maybe
<1>8. Passed
  BY <1>1, <1>2 DEF Passed, configVars
<1>9. Neutral /\ group' \in [Ids -> Maybe(Group)]
  BY <1>1, <1>7, <1>8, KeepNeutral
<1>10. TypeInv'
  BY <1>1, <1>2, <1>9 DEF Inv, TypeInv, configVars, worldVars
<1>. QED BY <1>1, <1>2, <1>9, <1>10, NeutralRest DEF configVars

LEMMA HealthEnd ==
    ASSUME Inv, Watch, HealthEnds
    PROVE  Inv'
<1>. DEFINE updated == [i \in Ids |-> Missed(i)]
<1>1. health' = NoRound /\ Keep(updated) /\ UNCHANGED <<groups, configVars, req, worldVars>>
  BY DEF HealthEnds, HealthVarsUnchanged
<1>2. NoRound \in Round /\ NoRound.stage = "idle" /\ NoRound.jobs = {}
  BY DEF NoRound, Round
<1>3. ASSUME NEW i \in Ids
      PROVE  /\ updated[i] \in Maybe(Group)
             /\ group[i] \in Group => /\ updated[i] \in Group /\ updated[i].key = group[i].key
                                      /\ updated[i].owner = group[i].owner
  <2>1. updated[i] = Missed(i) /\ group[i] \in Maybe(Group)
    BY DEF Inv, TypeInv
  <2>. HIDE DEF updated
  <2>2. CASE group[i] = None
    BY <2>1, <2>2, Typed DEF Missed, Maybe
  <2>3. CASE group[i] \in Group
    <3>. DEFINE E == {j.endpoint : j \in {x \in health.jobs : x.group = i}}
    <3>1. updated[i] = Marked(group[i], E, "down")
      BY <2>1, <2>3, Typed DEF Missed
    <3>2. "down" \in States
      BY DEF States
    <3>. HIDE DEF E
    <3>. QED BY <2>3, <3>1, <3>2, MarkedGroup DEF Maybe
  <2>. QED BY <2>1, <2>2, <2>3 DEF Maybe
<1>. HIDE DEF updated
<1>4. Passed
  BY <1>1, <1>2 DEF Passed, configVars
<1>5. Neutral /\ group' \in [Ids -> Maybe(Group)]
  BY <1>1, <1>3, <1>4, KeepNeutral
<1>6. TypeInv'
  BY <1>1, <1>2, <1>5 DEF Inv, TypeInv, configVars, worldVars
<1>. QED BY <1>1, <1>2, <1>5, <1>6, NeutralRest DEF configVars

LEMMA GroupIdle ==
    ASSUME Inv, Watch, NEW k \in Keys, GroupIdles(k)
    PROVE  Inv'
<1>. DEFINE i == groups[k]
<1>1. /\ i # None /\ group' = [group EXCEPT ![i] = [group[i] EXCEPT !.idle = TRUE]]
      /\ UNCHANGED <<groups, configVars, req, health, worldVars>>
  BY DEF GroupIdles, WorldVarsUnchanged, RuntimeKeys, Registered
<1>2. i \in Ids /\ group[i] \in Group
  BY <1>1, RegisteredIsAlive DEF Inv, At
<1>3. [group[i] EXCEPT !.idle = TRUE] \in Group
  BY <1>2 DEF Group
<1>4. group' \in [Ids -> Maybe(Group)] /\ Same(i) /\ \A l \in Ids : l # i => group'[l] = group[l]
  BY <1>1, <1>2, <1>3 DEF Same, Inv, TypeInv, Maybe, Group
<1>5. TypeInv'
  BY <1>1, <1>4 DEF Inv, TypeInv, configVars, worldVars
<1>6. Passed
  BY <1>1 DEF Passed, configVars
<1>7. Neutral
  BY <1>4, <1>6, NeutralIf DEF Same
<1>. QED BY <1>1, <1>5, <1>7, NeutralRest DEF configVars

\* Endpoints and names change, or a hot apply begins: no group does.
LEMMA WorldStep ==
    ASSUME Inv, Watch,
           \/ \E e \in Endpoints : EndpointFlips(e)
           \/ \E k \in Keys : Resolves(k)
           \/ \E c \in scenario.configs : ApplyHot(c)
    PROVE  Inv'
<1>1. UNCHANGED <<groups, group, req, health, bindings, forward, serving, scenario>>
  BY DEF EndpointFlips, Resolves, ApplyHot, WorldVarsUnchanged, configVars, worldVars
<1>2. /\ pass' \in Pass /\ (pass'.stage # "idle" => pass'.config \in Configs)
      /\ pass' = pass \/ (pass'.stage = "register" /\ serving' /\ pass'.new = None)
  <2>1. ASSUME NEW c \in scenario.configs, ApplyHot(c)
        PROVE  /\ pass' \in Pass /\ pass'.config \in Configs
               /\ pass'.stage = "register" /\ serving' /\ pass'.new = None
    <3>1. c \in Configs
      BY Typed DEF Inv, TypeInv
    <3>2. pass' = [stage |-> "register", left |-> c.forward, new |-> None, config |-> c] /\ serving'
      BY <2>1 DEF ApplyHot, NoPass
    <3>. QED BY <3>1, <3>2 DEF Pass, Configs, Maybe
  <2>2. CASE pass' = pass
    BY <2>2 DEF Inv, TypeInv
  <2>. QED BY <2>1, <2>2 DEF EndpointFlips, Resolves, WorldVarsUnchanged, configVars
<1>3. resolved' \in [Keys -> SUBSET Endpoints]
  <2>1. CASE resolved' = resolved
    BY <2>1 DEF Inv, TypeInv
  <2>2. ASSUME NEW k \in Keys, Resolves(k)
        PROVE  resolved' \in [Keys -> SUBSET Endpoints]
    <3>1. PICK R \in SUBSET EndpointsOf[k] : resolved' = [resolved EXCEPT ![k] = R]
      BY <2>2 DEF Resolves
    <3>2. R \in SUBSET Endpoints
      BY BackendAssumption
    <3>. QED BY <3>1, <3>2 DEF Inv, TypeInv
  <2>. QED BY <2>1, <2>2 DEF EndpointFlips, ApplyHot, worldVars
<1>4. TypeInv'
  BY <1>1, <1>2, <1>3 DEF Inv, TypeInv
<1>5. Passed
  BY <1>1, <1>2 DEF Passed
<1>6. Neutral
  BY <1>1, <1>5, NeutralIf DEF Same
<1>. QED BY <1>1, <1>2, <1>4, <1>6, NeutralRest

\* Nothing happens at all.
LEMMA Stutter ==
    ASSUME Inv, UNCHANGED vars
    PROVE  Inv'
<1>1. UNCHANGED <<groups, group, bindings, forward, serving, pass, req, health, scenario, resolved, watch>>
  BY DEF vars, configVars, worldVars
<1>2. TypeInv'
  BY <1>1 DEF Inv, TypeInv
<1>3. Alive'
  <2>1. Held' = Held
    BY <1>1 DEF Held
  <2>. QED BY <1>1, <2>1 DEF Inv, Alive, At
<1>4. Fresh'
  BY <1>1 DEF Inv, Fresh
<1>5. PassInv'
  BY <1>1 DEF Inv, PassInv, BoundKeys, Registered, RuntimeKeys, At
<1>6. SelectionInv'
  BY <1>1 DEF Inv, SelectionInv, Sound, Selecting
<1>7. EvictInv'
  BY <1>1 DEF Inv, EvictInv, RuntimeKeys, Registered, At
<1>. QED BY <1>2, <1>3, <1>4, <1>5, <1>6, <1>7 DEF Inv

\* Every table is cleared: the invariant holds as it does initially.
LEMMA Cleared ==
    ASSUME TypeInv', NEW c \in Configs,
           groups' = [k \in Keys |-> None], bindings' = {}, serving' = FALSE,
           pass' = [NoPass EXCEPT !.stage = "bind", !.left = BoundKeys(c), !.config = c],
           req' = [r \in Requests |-> NoRequest], health' = NoRound
    PROVE  Inv'
<1>1. /\ pass'.stage = "bind" /\ pass'.left = BoundKeys(c) /\ pass'.new = None /\ pass'.config = c
      /\ health'.stage = "idle" /\ health'.jobs = {}
  BY DEF NoPass, NoRound
<1>2. /\ \A k \in Keys : groups'[k] = None
      /\ \A r \in Requests : /\ req'[r].stage = "idle" /\ req'[r].new = None
                             /\ \A k \in Keys : req'[r].held[k] = None
  BY NoRequestTyped
<1>3. \A i \in Ids : i \notin Held'
  BY <1>1, <1>2, WhoHoldsNext, Typed
<1>4. Alive'
  BY <1>2, <1>3 DEF Alive
<1>5. Fresh'
  BY <1>1, <1>2 DEF Fresh
<1>6. PassInv'
  BY <1>1 DEF PassInv, BoundKeys
<1>7. SelectionInv'
  BY <1>2 DEF SelectionInv, Sound
<1>8. EvictInv'
  BY <1>1 DEF EvictInv
<1>. QED BY <1>4, <1>5, <1>6, <1>7, <1>8 DEF Inv

LEMMA BindTyped ==
    ASSUME NEW c \in Configs
    PROVE  /\ [NoPass EXCEPT !.stage = "bind", !.left = BoundKeys(c), !.config = c] \in Pass
           /\ [NoPass EXCEPT !.stage = "bind", !.left = BoundKeys(c), !.config = c].config \in Configs
BY DEF NoPass, Pass, Configs, BoundKeys, Maybe

LEMMA ReloadStep ==
    ASSUME Inv, NEW c \in scenario.configs, Reload(c)
    PROVE  Inv'
<1>1. c \in Configs
  BY Typed DEF Inv, TypeInv
<1>2. NoRound \in Round
  BY DEF NoRound, Round
<1>3. TypeInv'
  BY <1>1, <1>2, BindTyped, NoRequestTyped DEF Reload, Inv, TypeInv, worldVars, Maybe
<1>. QED BY <1>1, <1>3, Cleared DEF Reload

LEMMA Starts == Init => Inv
<1>. SUFFICES ASSUME Init PROVE Inv
  OBVIOUS
<1>1. PICK c \in scenario.configs :
          pass = [NoPass EXCEPT !.stage = "bind", !.left = BoundKeys(c), !.config = c]
  BY DEF Init
<1>2. c \in Configs
  BY Typed DEF Init
<1>3. NoRound \in Round /\ NoRound.stage = "idle" /\ NoRound.jobs = {}
  BY DEF NoRound, Round
<1>4. TypeInv
  BY <1>1, <1>2, <1>3, BindTyped, NoRequestTyped, BackendAssumption DEF Init, TypeInv, Maybe
<1>5. pass.stage = "bind" /\ pass.left = BoundKeys(c) /\ pass.new = None /\ pass.config = c
  BY <1>1 DEF NoPass
<1>6. /\ \A k \in Keys : groups[k] = None
      /\ \A r \in Requests : /\ req[r].stage = "idle" /\ req[r].new = None
                             /\ \A k \in Keys : req[r].held[k] = None
  BY NoRequestTyped DEF Init
<1>7. \A i \in Ids : i \notin Held
  BY <1>3, <1>5, <1>6, WhoHolds, Typed DEF Init
<1>8. Alive
  BY <1>6, <1>7 DEF Alive
<1>9. Fresh
  BY <1>5, <1>6 DEF Fresh
<1>10. PassInv
  BY <1>5 DEF PassInv, BoundKeys
<1>11. SelectionInv
  BY <1>6 DEF SelectionInv, Sound
<1>12. EvictInv
  BY <1>3 DEF EvictInv, Init
<1>. QED BY <1>4, <1>8, <1>9, <1>10, <1>11, <1>12 DEF Inv

\* What goes in the first eviction of a round, and what is chosen to go in the second.
LEMMA HealthExpire ==
    ASSUME Inv, Watch, HealthExpires
    PROVE  Inv'
<1>. DEFINE S == RuntimeKeys \ health.doomed
<1>1. PICK D \in SUBSET S :
          /\ Cardinality(D) = Excess(Cardinality(S))
          /\ health' = [health EXCEPT !.stage = "evict", !.doomed = D, !.fresh = {}]
  BY DEF HealthExpires
<1>2. /\ groups' = [k \in Keys |-> IF k \in health.doomed THEN None ELSE groups[k]]
      /\ Keep(group) /\ UNCHANGED <<configVars, req, worldVars>>
  BY DEF HealthExpires, HealthVarsUnchanged, Retain
<1>3. S \subseteq Keys /\ D \subseteq Keys
  BY DEF RuntimeKeys, Registered
<1>4. /\ health' \in Round /\ health'.stage = "evict" /\ health'.doomed = D /\ health'.fresh = {}
      /\ health'.jobs = health.jobs
  BY <1>1, <1>3 DEF Inv, TypeInv, Round
<1>5. groups' \in [Keys -> Maybe(Ids)] /\ \A k \in Keys : groups'[k] = None \/ groups'[k] = groups[k]
  BY <1>2 DEF Inv, TypeInv, Maybe
<1>6. Passed
  BY <1>2, <1>4, <1>5 DEF Passed, configVars
<1>7. Neutral /\ group' \in [Ids -> Maybe(Group)]
  BY <1>2, <1>6, KeepNeutral DEF Inv, TypeInv
<1>8. TypeInv'
  BY <1>2, <1>4, <1>5, <1>7 DEF Inv, TypeInv, configVars, worldVars
<1>9. /\ Alive' /\ Fresh' /\ SelectionInv'
      /\ Configured' \subseteq Configured /\ RuntimeKeys' \subseteq RuntimeKeys
  BY <1>2, <1>7, <1>8, NeutralBut
<1>10. PassInv'
  BY <1>2, <1>9 DEF Inv, PassInv, Configured, BoundKeys, configVars
<1>11. EvictInv'
  <2>1. \A k \in RuntimeKeys' : k \in Keys /\ groups'[k] # None
    BY DEF RuntimeKeys, Registered
  <2>2. RuntimeKeys' \ (health'.doomed \cup health'.fresh) \subseteq S \ D
    BY <1>2, <1>4, <1>9, <2>1
  <2>. HIDE DEF S
  <2>3. IsFiniteSet(S)
    BY <1>3, FS_Subset, Typed
  <2>4. IsFiniteSet(S \ D) /\ Cardinality(S \ D) = Cardinality(S) - Cardinality(S \cap D) /\ S \cap D = D
    BY <2>3, FS_Difference
  <2>5. Cardinality(S) \in Nat /\ Cardinality(S \ D) \in Nat
    BY <2>3, <2>4, FS_CardinalityType
  <2>6. Cardinality(S \ D) <= RuntimeMax
    <3>1. RuntimeMax \in Nat
      BY BackendAssumption
    <3>2. Cardinality(S \ D) = Cardinality(S) - Cardinality(D)
      BY <2>4
    <3>. QED BY <1>1, <2>5, <3>1, <3>2 DEF Excess, S
  <2>. DEFINE T == RuntimeKeys' \ (health'.doomed \cup health'.fresh)
  <2>7. IsFiniteSet(T) /\ Cardinality(T) <= Cardinality(S \ D)
    BY <2>2, <2>4, FS_Subset
  <2>8. Cardinality(T) \in Nat
    BY <2>7, FS_CardinalityType
  <2>. HIDE DEF T
  <2>9. Cardinality(T) <= RuntimeMax
    BY <2>5, <2>6, <2>7, <2>8, BackendAssumption
  <2>. QED BY <2>9 DEF EvictInv, T
<1>. QED BY <1>8, <1>9, <1>10, <1>11 DEF Inv

-----------------------------------------------------------------------------
(* Groups made and inserted, by a request or a pass. *)

LEMMA OwnKey ==
    ASSUME TypeInv, Alive, NEW k \in Keys, NEW l \in Keys, groups[k] # None, groups[k] = groups[l]
    PROVE  k = l
BY DEF Alive, At

LEMMA Created ==
    ASSUME Inv, NEW i \in Free, NEW k \in Keys, NEW owner \in {"configured", "runtime"},
           group' = [group EXCEPT ![i] = MonitorGroup(k, owner)], groups' = groups
    PROVE  /\ group' \in [Ids -> Maybe(Group)] /\ i \in Ids /\ i \notin Held /\ i # None
           /\ group'[i] # None /\ group'[i].key = k /\ group'[i].owner = owner
           /\ \A j \in Ids : j \in Held => group'[j] = group[j]
           /\ \A l \in Keys : groups'[l] # None => groups'[l] = groups[l] /\ At(l)' = At(l)
           /\ Registered' = Registered /\ RuntimeKeys' = RuntimeKeys
<1>1. i \in Ids /\ i \notin Held /\ i # None
  BY FreeIsNew DEF Inv
<1>. DEFINE g == MonitorGroup(k, owner)
<1>2. g \in Group /\ g # None /\ g.key = k /\ g.owner = owner
  BY Monitored DEF Inv
<1>. HIDE DEF g
<1>3. /\ group' \in [Ids -> Maybe(Group)] /\ group'[i] = g
      /\ \A j \in Ids : j # i => group'[j] = group[j]
  BY <1>1, <1>2 DEF Inv, TypeInv, Maybe, g
<1>4. \A l \in Keys : groups'[l] # None => groups'[l] = groups[l] /\ At(l)' = At(l)
  <2>1. \A l \in Keys : groups[l] # None => groups[l] \in Ids /\ groups[l] \in Held
    BY RegisteredIsAlive DEF Inv
  <2>. QED BY <1>1, <1>3, <2>1 DEF At
<1>5. Registered' = Registered /\ RuntimeKeys' = RuntimeKeys
  BY <1>4 DEF Registered, RuntimeKeys
<1>. QED BY <1>1, <1>2, <1>3, <1>4, <1>5

LEMMA PassCreate ==
    ASSUME Inv, Watch, NEW k \in Keys, PassCreates(k)
    PROVE  Inv'
<1>1. PICK i \in Free : /\ group' = [group EXCEPT ![i] = MonitorGroup(k, "configured")]
                        /\ pass' = [pass EXCEPT !.new = i]
  BY DEF PassCreates
<1>2. /\ k \in pass.left /\ pass.new = None
      /\ UNCHANGED <<groups, bindings, forward, serving, req, health, worldVars>>
  BY DEF PassCreates
<1>3. /\ group' \in [Ids -> Maybe(Group)] /\ i \in Ids /\ i \notin Held /\ i # None
      /\ group'[i] # None /\ group'[i].key = k /\ group'[i].owner = "configured"
      /\ \A j \in Ids : j \in Held => group'[j] = group[j]
      /\ \A l \in Keys : groups'[l] # None => groups'[l] = groups[l] /\ At(l)' = At(l)
      /\ Registered' = Registered /\ RuntimeKeys' = RuntimeKeys
  BY <1>1, <1>2, Created
<1>4. /\ pass' \in Pass /\ pass'.stage = pass.stage /\ pass'.left = pass.left /\ pass'.new = i
      /\ pass'.config = pass.config
  BY <1>1, <1>3 DEF Inv, TypeInv, Pass, Maybe
<1>5. TypeInv'
  BY <1>2, <1>3, <1>4 DEF Inv, TypeInv, worldVars
<1>6. Alive'
  <2>1. \A j \in Ids : j \in Held' => j \in Held \/ j = i
    BY <1>2, <1>4, WhoHolds, WhoHoldsNext
  <2>. QED BY <1>3, <2>1 DEF Inv, Alive
<1>7. Fresh'
  <2>1. group'[pass'.new].key \in pass'.left /\ group'[pass'.new].owner = "configured"
    BY <1>2, <1>3, <1>4
  <2>2. ASSUME NEW r \in Requests, req[r].new # None
        PROVE  req[r].new \in Held /\ group'[req[r].new] = group[req[r].new] /\ req[r].new # i
    BY <1>3, <2>2, WhoHolds DEF Inv, TypeInv, Request, Maybe
  <2>. QED BY <1>2, <1>4, <2>1, <2>2 DEF Inv, Fresh
<1>8. PassInv'
  BY <1>2, <1>3, <1>4 DEF Inv, PassInv, BoundKeys
<1>9. SelectionInv'
  BY <1>2, SoundKept DEF Inv, SelectionInv
<1>10. EvictInv'
  BY <1>2, <1>3, EvictKept DEF Inv
<1>. QED BY <1>5, <1>6, <1>7, <1>8, <1>9, <1>10 DEF Inv

LEMMA RequestCreate ==
    ASSUME Inv, Watch, NEW r \in Requests, NEW k \in Keys, RequestCreates(r, k)
    PROVE  Inv'
<1>1. PICK i \in Free : /\ group' = [group EXCEPT ![i] = MonitorGroup(k, "runtime")]
                        /\ req' = [req EXCEPT ![r].new = i]
  BY DEF RequestCreates
<1>2. /\ k \in req[r].left /\ req[r].new = None /\ req[r].stage = "visit"
      /\ UNCHANGED <<groups, configVars, health, worldVars>>
  BY DEF RequestCreates, RequestVarsUnchanged
<1>3. /\ group' \in [Ids -> Maybe(Group)] /\ i \in Ids /\ i \notin Held /\ i # None
      /\ group'[i] # None /\ group'[i].key = k /\ group'[i].owner = "runtime"
      /\ \A j \in Ids : j \in Held => group'[j] = group[j]
      /\ \A l \in Keys : groups'[l] # None => groups'[l] = groups[l] /\ At(l)' = At(l)
      /\ Registered' = Registered /\ RuntimeKeys' = RuntimeKeys
  BY <1>1, <1>2, Created
<1>4. /\ req' \in [Requests -> Request] /\ req'[r].new = i
      /\ req'[r] = [req[r] EXCEPT !.new = i]
      /\ \A s \in Requests : s # r => req'[s] = req[s]
  <2>0. req[r] \in Request /\ i \in Maybe(Ids)
    BY <1>3 DEF Inv, TypeInv, Maybe
  <2>1. [req[r] EXCEPT !.new = i] \in Request /\ [req[r] EXCEPT !.new = i].new = i
    BY <2>0 DEF Request
  <2>2. req' = [req EXCEPT ![r] = [req[r] EXCEPT !.new = i]]
    BY <1>1
  <2>. QED BY <2>1, <2>2 DEF Inv, TypeInv
<1>5. /\ req'[r].stage = req[r].stage /\ req'[r].pool = req[r].pool /\ req'[r].left = req[r].left
      /\ req'[r].held = req[r].held /\ req'[r].preferred = req[r].preferred
      /\ req'[r].fallback = req[r].fallback
  BY <1>4 DEF Inv, TypeInv, Request
<1>6. TypeInv'
  BY <1>2, <1>3, <1>4 DEF Inv, TypeInv, configVars, worldVars
<1>7. Alive'
  <2>1. ASSUME NEW j \in Ids, j \in Held'
        PROVE  j \in Held \/ j = i
    <3>1. ASSUME NEW s \in Requests
          PROVE  /\ req'[s].new = j => j \in Held \/ j = i
                 /\ \A l \in Keys : req'[s].held[l] = j => j \in Held
      <4>1. req[s].new \in Held /\ \A l \in Keys : req[s].held[l] \in Held
        BY HoldsIt
      <4>2. req'[s].held = req[s].held /\ (req'[s].new = req[s].new \/ req'[s].new = i)
        BY <1>4, <1>5
      <4>. QED BY <4>1, <4>2
    <3>2. \/ \E l \in Keys : groups[l] = j
          \/ pass.new = j
          \/ \E x \in health.jobs : x.group = j
          => j \in Held
      BY WhoHolds
    <3>. QED BY <1>2, <2>1, <3>1, <3>2, WhoHoldsNext DEF configVars
  <2>. QED BY <1>3, <2>1 DEF Inv, Alive
<1>8. Fresh'
  <2>1. /\ group'[req'[r].new].key \in req'[r].left /\ group'[req'[r].new].owner = "runtime"
        /\ req'[r].stage = "visit" /\ pass'.new # req'[r].new /\ \A l \in Keys : groups'[l] # req'[r].new
        /\ \A s \in Requests : s # r => req'[s].new # req'[r].new
    BY <1>2, <1>3, <1>4, <1>5, WhoHolds DEF configVars
  <2>2. ASSUME NEW s \in Requests, s # r, req[s].new # None
        PROVE  group'[req[s].new] = group[req[s].new] /\ req[s].new # i
    BY <1>3, <2>2, WhoHolds DEF Inv, TypeInv, Request, Maybe
  <2>3. pass.new # None => group'[pass.new] = group[pass.new]
    BY <1>3, WhoHolds DEF Inv, TypeInv, Pass, Maybe
  <2>4. ASSUME NEW s \in Requests, s # r, req[s].new # None
        PROVE  /\ group'[req'[s].new].key \in req'[s].left /\ group'[req'[s].new].owner = "runtime"
               /\ req'[s].stage = "visit" /\ pass'.new # req'[s].new
               /\ \A l \in Keys : groups'[l] # req'[s].new
               /\ \A x \in Requests : x # s => req'[x].new # req'[s].new
    <3>1. /\ group[req[s].new].key \in req[s].left /\ group[req[s].new].owner = "runtime"
          /\ req[s].stage = "visit" /\ pass.new # req[s].new
          /\ \A l \in Keys : groups[l] # req[s].new
          /\ \A x \in Requests : x # s => req[x].new # req[s].new
      BY <2>4 DEF Inv, Fresh
    <3>2. req'[s] = req[s] /\ groups' = groups /\ pass' = pass
      BY <1>2, <1>4, <2>4 DEF configVars
    <3>3. \A x \in Requests : x # s => req'[x].new # req[s].new
      BY <1>4, <2>2, <2>4, <3>1
    <3>. QED BY <2>2, <2>4, <3>1, <3>2, <3>3
  <2>5. pass'.new # None => /\ group'[pass'.new].key \in pass'.left
                            /\ group'[pass'.new].owner = "configured"
    <3>1. pass' = pass
      BY <1>2 DEF configVars
    <3>2. pass.new # None => group[pass.new].key \in pass.left /\ group[pass.new].owner = "configured"
      BY DEF Inv, Fresh
    <3>. QED BY <2>3, <3>1, <3>2
  <2>6. ASSUME NEW s \in Requests, req'[s].new # None
        PROVE  /\ group'[req'[s].new].key \in req'[s].left /\ group'[req'[s].new].owner = "runtime"
               /\ req'[s].stage = "visit" /\ pass'.new # req'[s].new
               /\ \A l \in Keys : groups'[l] # req'[s].new
               /\ \A x \in Requests : x # s => req'[x].new # req'[s].new
    <3>1. CASE s = r
      BY <2>1, <3>1
    <3>2. CASE s # r
      <4>1. req[s].new # None
        BY <1>4, <2>6, <3>2
      <4>. QED BY <2>4, <3>2, <4>1
    <3>. QED BY <3>1, <3>2
  <2>. QED BY <2>5, <2>6 DEF Fresh
<1>9. PassInv'
  BY <1>2, <1>3 DEF Inv, PassInv, BoundKeys, configVars
<1>10. Sound(r)'
  <2>1. Selecting(r)
    BY <1>2 DEF Inv, SelectionInv, Sound
  <2>2. /\ watch'[r].present \subseteq watch[r].present /\ watch'[r].viable \subseteq watch[r].viable
        /\ watch'[r].dead \subseteq watch[r].dead
    BY <1>2, <1>5 DEF Watch, Both
  <2>3. Selecting(r)'
    BY <1>5, <2>1, <2>2 DEF Selecting
  <2>. QED BY <1>2, <1>5, <2>3 DEF Sound
<1>11. SelectionInv'
  BY <1>4, <1>10, SoundKept DEF Inv, SelectionInv
<1>12. EvictInv'
  BY <1>2, <1>3, EvictKept DEF Inv
<1>. QED BY <1>6, <1>7, <1>8, <1>9, <1>11, <1>12 DEF Inv

\* A group held on is what it was; one that was made is registered under its key.
LEMMA Kept ==
    ASSUME Inv, Keep(group), NEW i \in Ids, i \in Held, NEW k \in Keys, group[i].key = k,
           groups'[k] = i, \A l \in Keys : l # k => groups'[l] = groups[l],
           \A j \in Ids : j \in Held' => j \in Held
    PROVE  /\ group' \in [Ids -> Maybe(Group)]
           /\ \A j \in Ids : j \in Held' => group'[j] = group[j]
           /\ group'[i] = group[i] /\ Alive'
           /\ \A l \in Keys \ {k} : groups[l] # None => At(l)' = At(l)
           /\ At(k)' = group[i]
<1>1. group' \in [Ids -> Maybe(Group)]
  BY KeepTypes DEF Inv, TypeInv
<1>2. \A j \in Ids : j \in Held' => group'[j] = group[j]
  BY KeptByKeep
<1>3. \A l \in Keys : groups'[l] \in Held'
  BY WhoHoldsNext
<1>4. group'[i] = group[i] /\ At(k)' = group[i]
  BY <1>1, <1>2, <1>3 DEF At
<1>5. ASSUME NEW l \in Keys, l # k, groups[l] # None
      PROVE  At(l)' = At(l) /\ At(l).key = l
  <2>1. groups[l] \in Ids /\ At(l).key = l /\ groups'[l] = groups[l]
    BY <1>1, <1>5, RegisteredIsAlive DEF Inv
  <2>. QED BY <1>2, <1>3, <2>1 DEF At
<1>6. Alive'
  <2>1. \A j \in Ids : j \in Held' => group'[j] # None
    BY <1>2 DEF Inv, Alive
  <2>2. \A l \in Keys : groups'[l] # None => At(l)'.key = l
    BY <1>1, <1>4, <1>5
  <2>. QED BY <2>1, <2>2 DEF Alive
<1>. QED BY <1>1, <1>2, <1>4, <1>5, <1>6

LEMMA PassInsert ==
    ASSUME Inv, Watch, PassInserts
    PROVE  Inv'
<1>0. PICK i \in Ids, k \in Keys : i = pass.new /\ k = group[i].key
  BY DEF PassInserts, Inv, TypeInv, Pass, Maybe, Fresh
<1>1. /\ i # None /\ groups' = [groups EXCEPT ![k] = i] /\ bindings' = Bound(k) /\ Keep(group)
      /\ pass' = [pass EXCEPT !.new = None, !.left = @ \ {k}]
      /\ UNCHANGED <<forward, serving, req, health, worldVars>>
  BY <1>0 DEF PassInserts
<1>2. i \in Held /\ k \in pass.left /\ group[i].owner = "configured"
  BY <1>0, <1>1, WhoHolds DEF Inv, Fresh
<1>3. /\ pass' \in Pass /\ pass'.stage = pass.stage /\ pass'.new = None
      /\ pass'.left = pass.left \ {k} /\ pass'.config = pass.config
  BY <1>1, <1>2 DEF Inv, TypeInv, Pass, Maybe
<1>4. bindings' = (IF pass.stage = "bind" THEN bindings \cup {k} ELSE bindings) /\ bindings' \subseteq Keys
  BY <1>1, <1>2 DEF Bound, Inv, TypeInv
<1>5. \A j \in Ids : j \in Held' => j \in Held
  <2>1. \A l \in Keys : groups'[l] = i \/ groups'[l] = groups[l]
    BY <1>1, <1>2 DEF Inv, TypeInv
  <2>. QED BY <1>1, <1>2, <1>3, <2>1, WhoHolds, WhoHoldsNext, Typed
<1>6. /\ groups' \in [Keys -> Maybe(Ids)] /\ groups'[k] = i
      /\ \A l \in Keys : l # k => groups'[l] = groups[l]
  BY <1>1 DEF Inv, TypeInv, Maybe
<1>7. /\ group' \in [Ids -> Maybe(Group)]
      /\ \A j \in Ids : j \in Held' => group'[j] = group[j]
      /\ group'[i] = group[i] /\ Alive'
      /\ \A l \in Keys \ {k} : groups[l] # None => At(l)' = At(l)
      /\ At(k)' = group[i]
  BY <1>0, <1>1, <1>2, <1>5, <1>6, Kept
<1>8. TypeInv'
  BY <1>1, <1>3, <1>4, <1>6, <1>7 DEF Inv, TypeInv, worldVars
<1>9. Fresh'
  <2>1. ASSUME NEW r \in Requests, req[r].new # None
        PROVE  /\ group'[req'[r].new].key \in req'[r].left /\ group'[req'[r].new].owner = "runtime"
               /\ req'[r].stage = "visit" /\ pass'.new # req'[r].new
               /\ \A l \in Keys : groups'[l] # req'[r].new
               /\ \A s \in Requests : s # r => req'[s].new # req'[r].new
    <3>1. /\ group[req[r].new].key \in req[r].left /\ group[req[r].new].owner = "runtime"
          /\ req[r].stage = "visit" /\ i # req[r].new
          /\ \A l \in Keys : groups[l] # req[r].new
          /\ \A s \in Requests : s # r => req[s].new # req[r].new
      BY <1>0, <2>1 DEF Inv, Fresh
    <3>2. req[r].new \in Ids /\ req[r].new \in Held' /\ req' = req
      BY <1>1, <2>1, WhoHoldsNext DEF Inv, TypeInv, Request, Maybe
    <3>. QED BY <1>3, <1>6, <1>7, <2>1, <3>1, <3>2
  <2>. QED BY <1>1, <1>3, <2>1 DEF Fresh
<1>10. Configured' \subseteq Configured \cup {k} /\ RuntimeKeys' \subseteq RuntimeKeys
  <2>1. ASSUME NEW l \in Registered', l # k
        PROVE  l \in Registered /\ At(l)' = At(l)
    BY <1>6, <1>7, <2>1 DEF Registered
  <2>2. k \notin RuntimeKeys'
    BY <1>2, <1>6, <1>7 DEF RuntimeKeys
  <2>. QED BY <2>1, <2>2 DEF Configured, RuntimeKeys
<1>11. PassInv'
  <2>1. pass.stage # "idle"
    BY <1>2 DEF Inv, PassInv
  <2>2. CASE pass.stage = "bind"
    BY <1>3, <1>4, <2>2 DEF Inv, PassInv, BoundKeys
  <2>3. CASE pass.stage = "register"
    BY <1>1, <1>2, <1>3, <1>4, <1>10, <2>3 DEF Inv, PassInv, Configured
  <2>. QED BY <2>1, <2>2, <2>3 DEF Inv, TypeInv, Pass
<1>12. SelectionInv'
  BY <1>1, SoundKept DEF Inv, SelectionInv
<1>13. EvictInv'
  BY <1>1, <1>10, EvictKept DEF Inv
<1>. QED BY <1>7, <1>8, <1>9, <1>11, <1>12, <1>13 DEF Inv

LEMMA RequestInsert ==
    ASSUME Inv, Watch, NEW r \in Requests, RequestInserts(r)
    PROVE  Inv'
<1>0. PICK i \in Ids, k \in Keys : i = req[r].new /\ k = group[i].key
  BY DEF RequestInserts, Inv, TypeInv, Request, Maybe, Fresh
<1>. DEFINE q == Read(req[r], k, i)
<1>1. /\ i # None /\ groups' = [groups EXCEPT ![k] = i] /\ Keep(group)
      /\ req' = [req EXCEPT ![r] = q]
      /\ health' = [health EXCEPT !.fresh = health.fresh \cup {k}]
      /\ UNCHANGED <<configVars, worldVars>>
  BY <1>0 DEF RequestInserts
<1>2. /\ i \in Held /\ k \in req[r].left /\ group[i].owner = "runtime" /\ req[r].stage = "visit"
      /\ pass.new # i /\ \A s \in Requests : s # r => req[s].new # i
  BY <1>0, <1>1, WhoHolds DEF Inv, Fresh
<1>3. q \in Request /\ q.new = None /\ \A l \in Keys : q.held[l] = IF l = k THEN i ELSE req[r].held[l]
  <2>1. req[r] \in Request
    BY DEF Inv, TypeInv
  <2>2. q \in Request /\ q.new = None /\ q.held = HeldWith(req[r], k, i)
    BY <2>1, ReadFields
  <2>. HIDE DEF q
  <2>. QED BY <2>1, <2>2 DEF HeldWith, Request
<1>. HIDE DEF q
<1>4. req' \in [Requests -> Request] /\ req'[r] = q /\ \A s \in Requests : s # r => req'[s] = req[s]
  BY <1>1, <1>3 DEF Inv, TypeInv
<1>5. /\ health' \in Round /\ health'.stage = health.stage /\ health'.doomed = health.doomed
      /\ health'.fresh = health.fresh \cup {k} /\ health'.jobs = health.jobs
  BY <1>1 DEF Inv, TypeInv, Round
<1>6. /\ groups' \in [Keys -> Maybe(Ids)] /\ groups'[k] = i
      /\ \A l \in Keys : l # k => groups'[l] = groups[l]
  BY <1>1 DEF Inv, TypeInv, Maybe
<1>7. ASSUME NEW j \in Ids, j \in Held'
      PROVE  j \in Held
  <2>1. (\E l \in Keys : groups'[l] = j) => j \in Held
    BY <1>2, <1>6, WhoHolds
  <2>2. ASSUME NEW s \in Requests
        PROVE  /\ req'[s].new = j => j \in Held
               /\ \A l \in Keys : req'[s].held[l] = j => j \in Held
    <3>1. req[s].new \in Held /\ \A l \in Keys : req[s].held[l] \in Held
      BY HoldsIt
    <3>2. j # None
      BY Typed
    <3>3. CASE s = r
      <4>1. \A l \in Keys : req[r].held[l] \in Held
        BY HoldsIt
      <4>. QED BY <1>2, <1>3, <1>4, <3>2, <3>3, <4>1
    <3>4. CASE s # r
      BY <1>4, <3>1, <3>4
    <3>. QED BY <3>3, <3>4
  <2>3. pass'.new = j \/ (\E x \in health'.jobs : x.group = j) => j \in Held
    BY <1>1, <1>5, WhoHolds DEF configVars
  <2>. QED BY <1>7, <2>1, <2>2, <2>3, WhoHoldsNext
<1>8. /\ group' \in [Ids -> Maybe(Group)]
      /\ \A j \in Ids : j \in Held' => group'[j] = group[j]
      /\ group'[i] = group[i] /\ Alive'
      /\ \A l \in Keys \ {k} : groups[l] # None => At(l)' = At(l)
      /\ At(k)' = group[i]
  <2>1. Keep(group) /\ group[i].key = k /\ \A j \in Ids : j \in Held' => j \in Held
    BY <1>0, <1>1, <1>7
  <2>. QED BY <1>2, <1>6, <2>1, Kept
<1>9. TypeInv'
  BY <1>1, <1>4, <1>5, <1>6, <1>8 DEF Inv, TypeInv, configVars, worldVars
<1>10. Fresh'
  <2>1. ASSUME NEW s \in Requests, s # r, req[s].new # None
        PROVE  /\ group'[req'[s].new].key \in req'[s].left /\ group'[req'[s].new].owner = "runtime"
               /\ req'[s].stage = "visit" /\ pass'.new # req'[s].new
               /\ \A l \in Keys : groups'[l] # req'[s].new
               /\ \A x \in Requests : x # s => req'[x].new # req'[s].new
    <3>1. /\ group[req[s].new].key \in req[s].left /\ group[req[s].new].owner = "runtime"
          /\ req[s].stage = "visit" /\ pass.new # req[s].new
          /\ \A l \in Keys : groups[l] # req[s].new
          /\ \A x \in Requests : x # s => req[x].new # req[s].new
      BY <2>1 DEF Inv, Fresh
    <3>2. req'[s] = req[s] /\ req[s].new \in Ids /\ req[s].new \in Held' /\ pass' = pass
      BY <1>1, <1>4, <2>1, WhoHoldsNext DEF Inv, TypeInv, Request, Maybe, configVars
    <3>3. \A l \in Keys : groups'[l] # req[s].new
      BY <1>2, <1>6, <2>1, <3>1
    <3>4. \A x \in Requests : x # s => req'[x].new # req[s].new
      BY <1>3, <1>4, <2>1, <3>1
    <3>. QED BY <1>8, <3>1, <3>2, <3>3, <3>4
  <2>2. pass'.new # None => /\ group'[pass'.new].key \in pass'.left
                            /\ group'[pass'.new].owner = "configured"
    <3>1. pass' = pass /\ (pass.new # None => pass.new \in Ids /\ pass.new \in Held')
      BY <1>1, WhoHoldsNext DEF Inv, TypeInv, Pass, Maybe, configVars
    <3>. QED BY <1>8, <3>1 DEF Inv, Fresh
  <2>. QED BY <1>3, <1>4, <2>1, <2>2 DEF Fresh
<1>11. Configured' \subseteq Configured /\ RuntimeKeys' \subseteq RuntimeKeys \cup {k}
  <2>1. ASSUME NEW l \in Registered', l # k
        PROVE  l \in Registered /\ At(l)' = At(l)
    BY <1>6, <1>8, <2>1 DEF Registered
  <2>2. k \in Registered' /\ At(k)'.owner = "runtime"
    BY <1>1, <1>2, <1>6, <1>8 DEF Registered
  <2>. QED BY <2>1, <2>2 DEF Configured, RuntimeKeys
<1>12. PassInv'
  BY <1>1, <1>11 DEF Inv, PassInv, Configured, BoundKeys, configVars
<1>13. Sound(r)'
  BY <1>2, <1>4, <1>8, SoundRead DEF Inv, TypeInv, SelectionInv, q
<1>14. SelectionInv'
  BY <1>4, <1>13, SoundKept DEF Inv, SelectionInv
<1>15. EvictInv'
  BY <1>5, <1>11, EvictKept DEF Inv
<1>. QED BY <1>8, <1>9, <1>10, <1>12, <1>14, <1>15 DEF Inv

-----------------------------------------------------------------------------
(* Steps of a pass that change whose groups are. *)

\* Steps that change nothing of a group but its owner.
LEMMA Owned ==
    ASSUME Inv, TypeInv', Watch, UNCHANGED <<groups, req>>, health'.jobs = health.jobs,
           pass'.new = None,
           \A i \in Ids : i \in Held => group'[i] \in Group /\ group'[i].key = group[i].key,
           \A r \in Requests : req[r].new # None => group'[req[r].new] = group[req[r].new]
    PROVE  Alive' /\ Fresh' /\ SelectionInv'
<1>1. \A i \in Ids : i \in Held' => i \in Held
  <2>. SUFFICES ASSUME NEW i \in Ids, i \in Held' PROVE i \in Held
    OBVIOUS
  <2>1. \/ \E k \in Keys : groups[k] = i
        \/ \E j \in health.jobs : j.group = i
        \/ \E r \in Requests : req[r].new = i
        \/ \E r \in Requests : \E k \in Keys : req[r].held[k] = i
    <3>1. pass'.new # i
      BY Typed
    <3>. QED BY <3>1, WhoHoldsNext
  <2>. QED BY <2>1, HoldsIt
<1>2. ASSUME NEW k \in Keys, groups'[k] # None
      PROVE  At(k)'.key = k
  <2>1. groups[k] \in Ids /\ groups[k] \in Held /\ At(k).key = k
    BY <1>2, RegisteredIsAlive DEF Inv
  <2>. QED BY <2>1 DEF At
<1>3. Alive'
  BY <1>1, <1>2, Typed DEF Alive
<1>4. Fresh'
  BY DEF Inv, Fresh
<1>5. SelectionInv'
  BY SoundKept DEF Inv, SelectionInv
<1>. QED BY <1>3, <1>4, <1>5

LEMMA PassFind ==
    ASSUME Inv, Watch, NEW k \in Keys, PassFinds(k)
    PROVE  Inv'
<1>1. PICK i \in Ids : i = groups[k]
  BY DEF PassFinds, Inv, TypeInv, Maybe
<1>. DEFINE g == [group[i] EXCEPT !.owner = "configured"]
<1>2. /\ pass.new = None /\ k \in pass.left /\ group' = [group EXCEPT ![i] = g]
      /\ pass' = [pass EXCEPT !.left = pass.left \ {k}]
      /\ bindings' = Bound(k) /\ i # None
      /\ UNCHANGED <<groups, forward, serving, req, health, worldVars>>
  BY <1>1 DEF PassFinds
<1>3. group[i] \in Group
  BY <1>1, <1>2, RegisteredIsAlive DEF Inv, At
<1>4. g \in Group /\ g.key = group[i].key /\ g.owner = "configured"
  BY <1>3 DEF Group
<1>. HIDE DEF g
<1>5. group' \in [Ids -> Maybe(Group)] /\ group'[i] = g /\ \A j \in Ids : j # i => group'[j] = group[j]
  BY <1>2, <1>4 DEF Inv, TypeInv, Maybe
<1>6. /\ pass' \in Pass /\ pass'.stage = pass.stage /\ pass'.new = None
      /\ pass'.left = pass.left \ {k} /\ pass'.config = pass.config
  BY <1>2 DEF Inv, TypeInv, Pass, Maybe
<1>7. bindings' = (IF pass.stage = "bind" THEN bindings \cup {k} ELSE bindings) /\ bindings' \subseteq Keys
  BY <1>2 DEF Bound, Inv, TypeInv
<1>8. TypeInv'
  BY <1>2, <1>5, <1>6, <1>7 DEF Inv, TypeInv, worldVars
<1>9. Alive' /\ Fresh' /\ SelectionInv'
  <2>1. \A j \in Ids : j \in Held => group'[j] \in Group /\ group'[j].key = group[j].key
    BY <1>4, <1>5, HeldIsAlive DEF Inv
  <2>2. ASSUME NEW r \in Requests, req[r].new # None
        PROVE  group'[req[r].new] = group[req[r].new]
    BY <1>1, <1>5, <2>2 DEF Inv, TypeInv, Request, Maybe, Fresh
  <2>. QED BY <1>2, <1>6, <1>8, <2>1, <2>2, Owned
<1>10. Configured' \subseteq Configured \cup {k} /\ RuntimeKeys' \subseteq RuntimeKeys
  <2>1. ASSUME NEW l \in Registered', l # k
        PROVE  l \in Registered /\ At(l)' = At(l)
    <3>1. l \in Keys /\ l \in Registered /\ groups[l] \in Ids
      BY <1>2, <2>1, RegisteredIsAlive DEF Registered, Inv
    <3>2. groups[l] # i
      BY <1>1, <1>2, <2>1, <3>1, OwnKey DEF Inv
    <3>. QED BY <1>2, <1>5, <3>1, <3>2 DEF At
  <2>2. k \notin RuntimeKeys'
    BY <1>1, <1>2, <1>4, <1>5 DEF RuntimeKeys, At
  <2>. QED BY <2>1, <2>2 DEF Configured, RuntimeKeys
<1>11. PassInv'
  <2>1. pass.stage # "idle"
    BY <1>2 DEF Inv, PassInv
  <2>2. CASE pass.stage = "bind"
    BY <1>6, <1>7, <2>2 DEF Inv, PassInv, BoundKeys
  <2>3. CASE pass.stage = "register"
    BY <1>2, <1>6, <1>7, <1>10, <2>3 DEF Inv, PassInv, Configured
  <2>. QED BY <2>1, <2>2, <2>3 DEF Inv, TypeInv, Pass
<1>12. EvictInv'
  BY <1>2, <1>10, EvictKept DEF Inv
<1>. QED BY <1>8, <1>9, <1>11, <1>12 DEF Inv

LEMMA RegisterEnd ==
    ASSUME Inv, Watch, RegisterEnds
    PROVE  Inv'
<1>1. /\ pass.stage = "register" /\ pass.left = {} /\ pass.new = None /\ forward' = Inserted
      /\ UNCHANGED <<groups, group, req, health, worldVars>>
  BY DEF RegisterEnds
<1>2. pass \in Pass /\ pass.config \in Configs
  BY <1>1 DEF Inv, TypeInv
<1>3. \/ /\ serving /\ pass' = [pass EXCEPT !.stage = "bind", !.left = BoundKeys(pass.config)]
         /\ bindings' = {}
      \/ /\ ~serving /\ pass' = NoPass /\ bindings' = bindings
  BY DEF RegisterEnds
<1>4. /\ pass' \in Pass /\ (pass'.stage # "idle" => pass'.config \in Configs) /\ pass'.new = None
      /\ bindings' \subseteq Keys
      /\ \/ serving /\ pass'.stage = "bind" /\ pass'.left = BoundKeys(pass.config) /\ pass'.config = pass.config
         \/ ~serving /\ pass'.stage = "idle" /\ pass'.left = {} /\ bindings' = bindings
  <2>1. CASE serving
    <3>1. BoundKeys(pass.config) \in SUBSET Keys
      BY <1>2 DEF BoundKeys, Configs
    <3>2. pass' = [pass EXCEPT !.stage = "bind", !.left = BoundKeys(pass.config)] /\ bindings' = {}
      BY <1>3, <2>1
    <3>. QED BY <1>1, <1>2, <2>1, <3>1, <3>2 DEF Pass
  <2>2. CASE ~serving
    BY <1>3, <2>2 DEF NoPass, Pass, Maybe, Inv, TypeInv
  <2>. QED BY <2>1, <2>2
<1>5. forward' \subseteq Keys
  BY <1>1, <1>2 DEF Inserted, Configs, Inv, TypeInv
<1>6. TypeInv'
  BY <1>1, <1>4, <1>5 DEF Inv, TypeInv, worldVars
<1>7. Passed
  BY <1>1, <1>4 DEF Passed
<1>8. Neutral
  BY <1>1, <1>7, NeutralIf DEF Same
<1>9. /\ Alive' /\ Fresh' /\ SelectionInv'
      /\ Configured' \subseteq Configured /\ RuntimeKeys' \subseteq RuntimeKeys
  BY <1>1, <1>6, <1>8, NeutralBut
<1>10. PassInv'
  <2>1. CASE serving
    BY <1>4, <2>1 DEF PassInv
  <2>2. CASE ~serving
    BY <1>1, <1>4, <1>9, <2>2 DEF Inv, PassInv, Configured
  <2>. QED BY <2>1, <2>2
<1>11. EvictInv'
  BY <1>1, <1>9, EvictKept DEF Inv
<1>. QED BY <1>6, <1>9, <1>10, <1>11 DEF Inv

\* The groups that no binding names go back to the requests.
LEMMA BindEnd ==
    ASSUME Inv, Watch, BindEnds
    PROVE  Inv'
<1>. DEFINE left == Registered \ bindings
            freed == {k \in left : At(k).owner = "configured"}
<1>1. /\ pass.stage = "bind" /\ pass.left = {} /\ pass.new = None /\ forward' = Inserted
      /\ group' = [i \in Ids |-> Released(i)]
      /\ pass' = IF serving THEN NoPass ELSE [pass EXCEPT !.stage = "register", !.left = pass.config.forward]
      /\ health' = [health EXCEPT !.fresh = health.fresh \cup freed]
      /\ UNCHANGED <<groups, bindings, serving, req, worldVars>>
  BY DEF BindEnds
<1>2. pass \in Pass /\ pass.config \in Configs
  BY <1>1 DEF Inv, TypeInv
<1>3. freed \subseteq Keys
  BY DEF Registered
<1>4. /\ health' \in Round /\ health'.stage = health.stage /\ health'.doomed = health.doomed
      /\ health'.fresh = health.fresh \cup freed /\ health'.jobs = health.jobs
  BY <1>1, <1>3 DEF Inv, TypeInv, Round
<1>5. /\ pass' \in Pass /\ pass'.new = None /\ (pass'.stage # "idle" => pass'.config \in Configs)
      /\ \/ serving /\ pass'.stage = "idle" /\ pass'.left = {}
         \/ ~serving /\ pass'.stage = "register" /\ pass'.left = pass.config.forward
  <2>1. CASE serving
    BY <1>1, <2>1 DEF NoPass, Pass, Maybe
  <2>2. CASE ~serving
    <3>1. pass.config.forward \in SUBSET Keys
      BY <1>2 DEF Configs
    <3>2. pass' = [pass EXCEPT !.stage = "register", !.left = pass.config.forward]
      BY <1>1, <2>2
    <3>. QED BY <1>1, <1>2, <2>2, <3>1, <3>2 DEF Pass
  <2>. QED BY <2>1, <2>2
<1>6. ASSUME NEW i \in Ids
      PROVE  /\ group'[i] \in Maybe(Group)
             /\ group[i] \in Group => group'[i] \in Group /\ group'[i].key = group[i].key
             /\ (\A k \in left : groups[k] # i) => group'[i] = group[i]
             /\ (\E k \in left : groups[k] = i) => group'[i].owner = "runtime"
  <2>1. group'[i] = Released(i) /\ group[i] \in Maybe(Group)
    BY <1>1 DEF Inv, TypeInv
  <2>2. ASSUME NEW k \in left, groups[k] = i
        PROVE  group[i] \in Group /\ group'[i] = [group[i] EXCEPT !.owner = "runtime"]
    <3>1. group[i] \in Group
      BY <2>2, RegisteredIsAlive DEF Registered, Inv, At
    <3>. QED BY <2>1, <2>2, <3>1 DEF Released
  <2>3. ASSUME \A k \in left : groups[k] # i
        PROVE  group'[i] = group[i]
    BY <2>1, <2>3 DEF Released
  <2>4. ASSUME NEW k \in left, groups[k] = i
        PROVE  group'[i] \in Group /\ group'[i].key = group[i].key /\ group'[i].owner = "runtime"
    BY <2>2, <2>4 DEF Group
  <2>. HIDE DEF left
  <2>. QED BY <2>1, <2>3, <2>4 DEF Maybe
<1>7. group' \in [Ids -> Maybe(Group)] /\ forward' \subseteq Keys
  BY <1>1, <1>2, <1>6 DEF Inserted, Configs, Inv, TypeInv
<1>8. TypeInv'
  BY <1>1, <1>4, <1>5, <1>7 DEF Inv, TypeInv, worldVars
<1>9. Alive' /\ Fresh' /\ SelectionInv'
  <2>1. \A j \in Ids : j \in Held => group'[j] \in Group /\ group'[j].key = group[j].key
    BY <1>6, HeldIsAlive DEF Inv
  <2>2. ASSUME NEW r \in Requests, req[r].new # None
        PROVE  group'[req[r].new] = group[req[r].new]
    <3>1. req[r].new \in Ids /\ \A k \in left : groups[k] # req[r].new
      BY <2>2 DEF Inv, TypeInv, Request, Maybe, Fresh, Registered
    <3>. HIDE DEF left
    <3>. QED BY <1>6, <3>1
  <2>. QED BY <1>1, <1>4, <1>5, <1>8, <2>1, <2>2, Owned
<1>10. ASSUME NEW k \in Registered'
       PROVE  /\ k \in Keys /\ k \in Registered
              /\ k \in left => At(k)'.owner = "runtime"
              /\ k \notin left => At(k)' = At(k)
  <2>1. k \in Keys /\ k \in Registered /\ groups[k] # None /\ groups[k] \in Ids /\ groups' = groups
    BY <1>1, <1>10, RegisteredIsAlive DEF Registered, Inv
  <2>2. \A l \in left : l \in Keys /\ (groups[l] = groups[k] => l = k)
    BY <2>1, OwnKey DEF Registered, Inv
  <2>. HIDE DEF left
  <2>. QED BY <1>6, <2>1, <2>2 DEF At
<1>11. Configured' \subseteq bindings /\ RuntimeKeys' \subseteq RuntimeKeys \cup freed
  <2>1. \A k \in Registered' : k \in Registered /\ (k \in left => At(k)'.owner = "runtime")
    BY <1>10
  <2>2. Configured' \subseteq bindings
    BY <2>1 DEF Configured, RuntimeKeys
  <2>3. ASSUME NEW k \in RuntimeKeys', k \notin freed
        PROVE  k \in RuntimeKeys
    <3>1. k \in Registered' /\ At(k)'.owner = "runtime" /\ k \in Keys /\ k \in Registered
      BY <1>10 DEF RuntimeKeys, Registered
    <3>2. CASE k \in left
      <4>1. At(k).owner # "configured"
        BY <2>3, <3>2
      <4>2. At(k) \in Group
        BY <3>1, RegisteredIsAlive DEF Registered, Inv
      <4>. QED BY <3>1, <4>1, <4>2 DEF RuntimeKeys, Group
    <3>3. CASE k \notin left
      BY <1>10, <3>1, <3>3 DEF RuntimeKeys
    <3>. QED BY <3>2, <3>3
  <2>. QED BY <2>2, <2>3
<1>12. PassInv'
  <2>1. BoundKeys(pass.config) \subseteq bindings
    BY <1>1 DEF Inv, PassInv
  <2>2. pass.config.forward \subseteq bindings
    BY <2>1 DEF BoundKeys
  <2>. QED BY <1>1, <1>5, <1>11, <2>2 DEF PassInv, Configured
<1>13. EvictInv'
  BY <1>4, <1>11, EvictKept DEF Inv
<1>. QED BY <1>8, <1>9, <1>12, <1>13 DEF Inv

-----------------------------------------------------------------------------
(* The theorems. *)

LEMMA InvStep == Inv /\ [Next]_vars => Inv'
<1>. SUFFICES ASSUME Inv, [Next]_vars PROVE Inv'
  OBVIOUS
<1>1. CASE UNCHANGED vars
  BY <1>1, Stutter
<1>2. CASE Next
  <2>1. Step /\ Watch
    BY <1>2 DEF Next
  <2>2. CASE \E c \in scenario.configs : ApplyHot(c) \/ Reload(c)
    BY <2>1, <2>2, WorldStep, ReloadStep
  <2>3. CASE PassStep
    BY <2>1, <2>3, PassInsert, RegisterEnd, BindEnd, PassFind, PassCreate DEF PassStep
  <2>4. ASSUME NEW r \in Requests,
               \/ ForwardBegins(r) \/ RequestInserts(r) \/ RequestChooses(r) \/ RequestEnds(r)
               \/ \E pool \in scenario.pools : RouteBegins(r, pool)
               \/ \E k \in Keys : RequestFinds(r, k) \/ RequestCreates(r, k) \/ ForwardReads(r, k)
        PROVE  Inv'
    BY <2>1, <2>4, ForwardBegin, RequestInsert, RequestChoose, RequestEnd, RouteBegin,
       RequestFind, RequestCreate, ForwardRead
  <2>5. CASE HealthStep
    BY <2>1, <2>5, HealthScan, HealthExpire, HealthEvict, HealthEnd, HealthHear DEF HealthStep
  <2>6. CASE \E k \in Keys : GroupIdles(k) \/ Resolves(k)
    BY <2>1, <2>6, GroupIdle, WorldStep
  <2>7. CASE \E e \in Endpoints : EndpointFlips(e)
    BY <2>1, <2>7, WorldStep
  <2>. QED BY <2>1, <2>2, <2>3, <2>4, <2>5, <2>6, <2>7 DEF Step
<1>. QED BY <1>1, <1>2

LEMMA Invariance == Spec => []Inv
BY Starts, InvStep, PTL DEF Spec

\* Once a configuration pass is over, every configured group is one that a route or
\* a forward listener binds (configure_health_checks, release_unreferenced_groups),
\* however requests, passes and the health loop interleave.
THEOREM ConfiguredAreBound == Spec => []OnlyBoundAreConfigured
<1>1. Inv => OnlyBoundAreConfigured
  BY DEF Inv, PassInv, OnlyBoundAreConfigured
<1>. QED BY <1>1, Invariance, PTL

\* A selection does not take a member that was down all the time while another was
\* viable all the time, and fails only when some member was not there for it
\* (select_http_backend, select_routed_pool, choose_online), for any pools, any
\* number of requests and whatever the registry loses meanwhile.
THEOREM SelectionsAreSound == Spec => []SelectionSound
<1>1. Inv => SelectionSound
  BY DEF Inv, SelectionInv, Sound, SelectionSound, DownIsLastResort, FilterNotGate
<1>. QED BY <1>1, Invariance, PTL

\* The second eviction of a round leaves at most RUNTIME_GROUP_MAX runtime groups,
\* besides those that came since the first.
THEOREM RuntimeIsBounded == Spec => RuntimeBounded
<1>1. ASSUME Inv, Next, HealthEvicts
      PROVE  Cardinality(RuntimeKeys' \ health.fresh) <= RuntimeMax
  <2>. DEFINE S == RuntimeKeys \ (health.doomed \cup health.fresh)
              T == RuntimeKeys' \ health.fresh
  <2>1. RuntimeKeys' \subseteq RuntimeKeys \ health.doomed
    BY <1>1, HealthEvict DEF Next
  <2>2. T \subseteq S /\ S \subseteq Keys
    BY <2>1 DEF RuntimeKeys, Registered
  <2>3. Cardinality(S) <= RuntimeMax
    BY <1>1 DEF Inv, EvictInv, HealthEvicts
  <2>. HIDE DEF S, T
  <2>4. IsFiniteSet(S)
    BY <2>2, FS_Subset, Typed
  <2>5. IsFiniteSet(T) /\ Cardinality(T) <= Cardinality(S)
    BY <2>2, <2>4, FS_Subset
  <2>6. Cardinality(S) \in Nat /\ Cardinality(T) \in Nat
    BY <2>4, <2>5, FS_CardinalityType
  <2>7. Cardinality(T) <= RuntimeMax
    BY <2>3, <2>5, <2>6, BackendAssumption
  <2>. QED BY <2>7 DEF T
<1>2. Inv /\ [Next]_vars => [HealthEvicts => Cardinality(RuntimeKeys' \ health.fresh) <= RuntimeMax]_vars
  BY <1>1
<1>. QED BY <1>2, Invariance, PTL DEF Spec, RuntimeBounded
=============================================================================
