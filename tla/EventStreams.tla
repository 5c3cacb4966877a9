------------------------------ MODULE EventStreams ------------------------------
(***************************************************************************)
(* The live views of the control plane: the table of active connections     *)
(* (src/src/active_tracker.rs), the topics its changes are published to     *)
(* (src/src/events_hub.rs), the WebSockets that stream a topic to a browser *)
(* (control_api.rs, stream_events), and the table the browser keeps of what *)
(* it receives (static/control.html).                                       *)
(*                                                                          *)
(* A change of the tracker is published AFTER its lock is released; a topic *)
(* drops the oldest event of a subscriber that lags; and the periodic lists *)
(* that repair both are taken before an await and sent after it.  A reader  *)
(* subscribes to one topic, so one behaviour has one topic: "live", the     *)
(* rows of one listener, or "global", its overview.                         *)
(***************************************************************************)
EXTENDS Integers, Sequences, FiniteSets

CONSTANTS Conns,       \* the connections of a behaviour
          Streams,     \* the browsers, each with at most one socket open
          Scenarios,   \* topic, EVENTS_CAPACITY, connections, and which events happen
          MaxTokens    \* bound on the sessions of a behaviour

ASSUME CapacityAssumption ==
    /\ IsFiniteSet(Conns) /\ MaxTokens \in Nat \ {0}
    /\ Scenarios \subseteq [topic: {"live", "global"}, capacity: Nat \ {0}, conns: SUBSET Conns,
                            events: SUBSET {"name", "reload", "session", "leave"}]

VARIABLES scenario,    \* [topic, capacity, conns, events]
          tracker,     \* ACTIVE: the state of every connection in it
          pending,     \* the event a connection's task has yet to publish
          registered,  \* the listener is in LISTENERS
          reconciler,  \* the list taken by the reconciler, not yet sent
          sampler,     \* the count taken by the sampler, not yet sent
          socket,      \* stage, queue and session of every socket
          view,        \* the browser's rows and count
          sessions,    \* the sessions of the store: valid or gone
          clean        \* (history) nothing was lost to this socket since its
                       \* snapshot, or since the last up-to-date list

vars == <<scenario, tracker, pending, registered, reconciler, sampler, socket, view,
          sessions, clean>>

topic == scenario.topic
Capacity == scenario.capacity
Happens(event) == event \in scenario.events

-----------------------------------------------------------------------------
(* The tracker and the events. *)

Tracked(c) == tracker[c] \in {"plain", "named"}

\* get_active_list: the rows of a table, with or without a host.
Rows == [c \in Conns |-> IF Tracked(c) THEN tracker[c] ELSE "absent"]

\* The counts, which only the overview shows.
Active == IF topic = "global" THEN Cardinality({c \in Conns : Tracked(c)}) ELSE 0
ActiveWith == IF topic = "global" THEN Active + 1 ELSE 0
ActiveWithout == IF topic = "global" THEN Active - 1 ELSE 0

\* (Whose bytes an event has is left out: no row appears or goes with them.)
Nothing == [type |-> "nothing"]
Open(c, n) == [type |-> "open", conn |-> c, now |-> n]
Closed(c, n) == [type |-> "closed", conn |-> c, now |-> n]
Host(c) == [type |-> "host", conn |-> c]
Bytes == [type |-> "bytes"]
Transfer == [type |-> "transfer"]
Count(n) == [type |-> "count", now |-> n]
List(rows) == [type |-> "list", rows |-> rows]

NoList == [taken |-> FALSE, rows |-> [c \in Conns |-> "absent"], fresh |-> TRUE]
NoSocket == [stage |-> "closed", queue |-> <<>>, session |-> 1]
NoView == [rows |-> [c \in Conns |-> "absent"], count |-> 0]
NoCount == [taken |-> FALSE, now |-> 0]

\* A list taken before a change is out of date.
Outdated == [reconciler EXCEPT !.fresh = FALSE]

Subscribed(s) == socket[s].stage \in {"subscribed", "greeting", "streaming"}

\* A topic's broadcast to one subscriber: drop-oldest.
Enqueue(queue, e) ==
    IF Len(queue) < Capacity THEN Append(queue, e) ELSE Append(Tail(queue), e)

\* send_to: every subscriber of the topic has the event, unless it lags.
Sent(e) == [s \in Streams |->
    IF Subscribed(s) THEN [socket[s] EXCEPT !.queue = Enqueue(@, e)] ELSE socket[s]]

Full(s) == Len(socket[s].queue) = Capacity
Unlagged == {s \in Streams : clean[s] /\ ~Full(s)}
Only(streams) == [s \in Streams |-> Subscribed(s) /\ s \in streams]

-----------------------------------------------------------------------------
(* A connection's task. *)

\* put: the row and the counts under the lock, the events after it.
Put(c) ==
    /\ tracker[c] = "new" /\ c \in scenario.conns
    /\ tracker' = [tracker EXCEPT ![c] = "plain"]
    /\ pending' = [pending EXCEPT ![c] = Open(c, ActiveWith)]
    /\ reconciler' = Outdated
    /\ UNCHANGED <<scenario, registered, sampler, socket, view, sessions, clean>>

\* set_sni: the host goes to the listener's topic only.
SetSni(c) ==
    /\ Happens("name") /\ tracker[c] = "plain" /\ pending[c] = Nothing
    /\ tracker' = [tracker EXCEPT ![c] = "named"]
    /\ pending' = [pending EXCEPT ![c] = IF topic = "live" THEN Host(c) ELSE Nothing]
    /\ reconciler' = Outdated
    /\ UNCHANGED <<scenario, registered, sampler, socket, view, sessions, clean>>

\* remove: nothing is published of a row that a reset has cleared.
Remove(c) ==
    /\ Tracked(c) /\ pending[c] = Nothing
    /\ tracker' = [tracker EXCEPT ![c] = "closed"]
    /\ pending' = [pending EXCEPT ![c] = Closed(c, ActiveWithout)]
    /\ reconciler' = Outdated
    /\ UNCHANGED <<scenario, registered, sampler, socket, view, sessions, clean>>

\* publish_both, publish_listener, after the unlock.
Publish(c) ==
    /\ pending[c] # Nothing
    /\ pending' = [pending EXCEPT ![c] = Nothing]
    /\ socket' = Sent(pending[c])
    /\ clean' = IF tracker[c] = "lost" THEN Only({}) ELSE Only(Unlagged)
    /\ UNCHANGED <<scenario, tracker, registered, reconciler, sampler, view, sessions>>

-----------------------------------------------------------------------------
(* The periodic tasks of a revision. *)

\* spawn_connection_reconciler, 15 s: the list is taken, the listeners awaited ...
ReconcilerTakes ==
    /\ ~reconciler.taken
    /\ reconciler' = [taken |-> TRUE, rows |-> Rows, fresh |-> TRUE]
    /\ UNCHANGED <<scenario, tracker, pending, registered, sampler, socket, view, sessions, clean>>

\* Mutant: an empty list is not sent.
ReconcilerSendsBusy ==
    /\ reconciler.taken
    /\ reconciler' = NoList
    /\ IF (topic = "live" /\ ~registered) \/ reconciler.rows = NoList.rows
       THEN UNCHANGED <<socket, clean>>
       ELSE /\ socket' = Sent(List(reconciler.rows))
            /\ clean' = IF reconciler.fresh THEN Only(Streams) ELSE Only({})
    /\ UNCHANGED <<scenario, tracker, pending, registered, sampler, view, sessions>>

\* ... and the list sent, to a listener's topic only while it is registered.
ReconcilerSends ==
    /\ reconciler.taken
    /\ reconciler' = NoList
    /\ IF topic = "live" /\ ~registered
       THEN UNCHANGED <<socket, clean>>
       ELSE /\ socket' = Sent(List(reconciler.rows))
            /\ clean' = IF reconciler.fresh THEN Only(Streams) ELSE Only({})
    /\ UNCHANGED <<scenario, tracker, pending, registered, sampler, view, sessions>>

\* So many events in a row, of which a topic keeps the newest.
Burst(queue, n) ==
    LET all == queue \o [i \in 1..n |-> Bytes]
    IN IF Len(all) > Capacity THEN SubSeq(all, Len(all) - Capacity + 1, Len(all)) ELSE all

\* spawn_sampler, 1 s: the bytes of every connection to its listener's topic ...
SamplerTakes ==
    /\ ~sampler.taken
    /\ LET tracked == Cardinality({c \in Conns : Tracked(c)}) IN
       IF topic = "live"
       THEN /\ socket' = [s \in Streams |->
                   IF Subscribed(s) THEN [socket[s] EXCEPT !.queue = Burst(@, tracked)]
                   ELSE socket[s]]
            /\ clean' = Only({s \in Streams : clean[s] /\
                   Len(socket[s].queue) + tracked <= Capacity})
       ELSE UNCHANGED <<socket, clean>>
    /\ sampler' = [taken |-> TRUE, now |-> Active]
    /\ UNCHANGED <<scenario, tracker, pending, registered, reconciler, view, sessions>>

\* ... and, after an await, the listener's totals to its own topic, the counts and
\* totals to the overview (one event for the several of a tick).
Sampled ==
    IF topic = "global" THEN <<Count(sampler.now)>>
    ELSE IF registered THEN <<Transfer>> ELSE <<>>

SamplerSends ==
    /\ sampler.taken
    /\ sampler' = NoCount
    /\ IF Sampled = <<>> THEN UNCHANGED <<socket, clean>>
       ELSE socket' = Sent(Head(Sampled)) /\ clean' = Only(Unlagged)
    /\ UNCHANGED <<scenario, tracker, pending, registered, reconciler, view, sessions>>

\* A new revision: the rows are cleared without an event, the listeners forgotten,
\* the periodic tasks dropped at their await or just past it.
Reload ==
    /\ Happens("reload") /\ registered
    /\ tracker' = [c \in Conns |-> IF tracker[c] \in {"new", "closed"} THEN tracker[c] ELSE "lost"]
    /\ registered' = FALSE
    /\ reconciler' \in {NoList, Outdated} /\ sampler' \in {NoCount, sampler}
    /\ clean' = Only({})
    /\ scenario' = [scenario EXCEPT !.events = @ \ {"reload"}]
    /\ UNCHANGED <<pending, socket, view, sessions>>

\* register_listener, when the accept loop of the listener starts.
Register ==
    /\ ~registered
    /\ registered' = TRUE
    /\ UNCHANGED <<scenario, tracker, pending, reconciler, sampler, socket, view, sessions, clean>>

-----------------------------------------------------------------------------
(* Sessions. *)

\* login: a session of its own for each one.
Login ==
    /\ Happens("session") /\ Len(sessions) < MaxTokens
    /\ sessions' = Append(sessions, "valid")
    /\ UNCHANGED <<scenario, tracker, pending, registered, reconciler, sampler, socket, view, clean>>

\* logout deletes one session; its time may come first.
SessionEnds(t) ==
    /\ Happens("session") /\ sessions[t] = "valid"
    /\ sessions' = [sessions EXCEPT ![t] = "gone"]
    /\ UNCHANGED <<scenario, tracker, pending, registered, reconciler, sampler, socket, view, clean>>

\* change_password with logout_all.
LogoutAll ==
    /\ Happens("session")
    /\ sessions' = [t \in DOMAIN sessions |-> "gone"]
    /\ UNCHANGED <<scenario, tracker, pending, registered, reconciler, sampler, socket, view, clean>>

-----------------------------------------------------------------------------
(* A socket and the browser behind it. *)

\* require_session and the upgrade.
Connect(s, t) ==
    /\ socket[s].stage = "closed"
    /\ sessions[t] = "valid"
    /\ socket' = [socket EXCEPT ![s].stage = "connected", ![s].session = t]
    /\ UNCHANGED <<scenario, tracker, pending, registered, reconciler, sampler, view, sessions, clean>>

\* stream_events subscribes first ...
Subscribe(s) ==
    /\ socket[s].stage = "connected"
    /\ socket' = [socket EXCEPT ![s].stage = "subscribed", ![s].queue = <<>>]
    /\ clean' = [clean EXCEPT ![s] = TRUE]
    /\ UNCHANGED <<scenario, tracker, pending, registered, reconciler, sampler, view, sessions>>

\* ... and then takes the snapshot, the first thing the page is sent.
Snapshot(s) ==
    /\ socket[s].stage = "subscribed"
    /\ socket' = [socket EXCEPT ![s].stage = "greeting"]
    /\ view' = [view EXCEPT ![s] = [rows |-> Rows, count |-> Active]]
    /\ UNCHANGED <<scenario, tracker, pending, registered, reconciler, sampler, sessions, clean>>

\* Mutant: events sent before the snapshot was written are lost.
GreetUnsubscribed(s) ==
    /\ socket[s].stage = "greeting"
    /\ socket' = [socket EXCEPT ![s].stage = "streaming", ![s].queue = <<>>]
    /\ UNCHANGED <<scenario, tracker, pending, registered, reconciler, sampler, view, sessions, clean>>

Greet(s) ==
    /\ socket[s].stage = "greeting"
    /\ socket' = [socket EXCEPT ![s].stage = "streaming"]
    /\ UNCHANGED <<scenario, tracker, pending, registered, reconciler, sampler, view, sessions, clean>>

\* What the page makes of an event: an open adds a row it does not have, a host
\* or bytes change a row it has, a list replaces all rows.  (A row marked "gone"
\* and taken away 5 s later is an absent one.)
Applied(v, e) ==
    CASE e.type = "open" -> [rows |-> [v.rows EXCEPT ![e.conn] = IF @ = "absent" THEN "plain" ELSE @],
                             count |-> e.now]
      [] e.type = "closed" -> [rows |-> [v.rows EXCEPT ![e.conn] = "absent"], count |-> e.now]
      [] e.type = "host" -> [v EXCEPT !.rows[e.conn] = IF @ = "absent" THEN @ ELSE "named"]
      [] e.type = "list" -> [v EXCEPT !.rows = e.rows]
      [] e.type = "count" -> [v EXCEPT !.count = e.now]
      [] OTHER -> v

Deliver(s) ==
    /\ socket[s].stage = "streaming" /\ socket[s].queue # <<>>
    /\ socket' = [socket EXCEPT ![s].queue = Tail(@)]
    /\ view' = [view EXCEPT ![s] = Applied(@, Head(socket[s].queue))]
    /\ UNCHANGED <<scenario, tracker, pending, registered, reconciler, sampler, sessions, clean>>

\* The socket is gone.  (The page keeps its rows on screen; the next snapshot
\* replaces all of them.)
End(s) ==
    /\ socket' = [socket EXCEPT ![s] = NoSocket]
    /\ view' = [view EXCEPT ![s] = NoView]
    /\ clean' = [clean EXCEPT ![s] = FALSE]
    /\ UNCHANGED <<scenario, tracker, pending, registered, reconciler, sampler, sessions>>

\* Mutant: the newest session decides, not the one of the stream.
CheckSessionLatest(s) ==
    /\ socket[s].stage = "streaming" /\ sessions[Len(sessions)] # "valid"
    /\ End(s)

\* Every 30 s: a stream whose own session is no longer valid is closed.
CheckSession(s) ==
    /\ socket[s].stage = "streaming" /\ sessions[socket[s].session] # "valid"
    /\ End(s)

\* The client closes, or a send fails.
Disconnect(s) ==
    /\ Happens("leave") /\ Subscribed(s)
    /\ End(s)

-----------------------------------------------------------------------------
Init ==
    /\ scenario \in Scenarios
    /\ tracker = [c \in Conns |-> "new"] /\ pending = [c \in Conns |-> Nothing]
    /\ registered = TRUE /\ reconciler = NoList /\ sampler = NoCount
    /\ socket = [s \in Streams |-> NoSocket] /\ view = [s \in Streams |-> NoView]
    /\ sessions = <<"valid">> /\ clean = [s \in Streams |-> FALSE]

ConnNext == \E c \in Conns : Put(c) \/ SetSni(c) \/ Remove(c) \/ Publish(c)

HubNext == ReconcilerTakes \/ ReconcilerSends \/ SamplerTakes \/ SamplerSends \/ Reload \/ Register

SessionNext == Login \/ LogoutAll \/ \E t \in DOMAIN sessions : SessionEnds(t)

SocketStep(s) == Subscribe(s) \/ Snapshot(s) \/ Greet(s)

SocketNext == \E s \in Streams :
    \/ SocketStep(s) \/ Deliver(s) \/ CheckSession(s) \/ Disconnect(s)
    \/ \E t \in DOMAIN sessions : Connect(s, t)

Next == ConnNext \/ HubNext \/ SessionNext \/ SocketNext

Spec == Init /\ [][Next]_vars

\* A socket reads an event of a given type.
Reads(s, type) == Deliver(s) /\ Head(socket[s].queue).type = type

\* A task between two awaits goes on, and the timers of the reconciler, the
\* sampler and the session check come round.  A browser reads what it is sent (one
\* that does not is disconnected) and, the capacity being far above what a tick
\* sends, does not lose every list and every count to the next ones.
FairSpec ==
    /\ Spec
    /\ \A c \in Conns : WF_vars(Publish(c))
    /\ \A s \in Streams : WF_vars(SocketStep(s)) /\ WF_vars(CheckSession(s))
                          /\ WF_vars(Deliver(s)) /\ SF_vars(Reads(s, "list")) /\ SF_vars(Reads(s, "count"))
    /\ WF_vars(ReconcilerTakes) /\ WF_vars(ReconcilerSends)
    /\ WF_vars(SamplerTakes) /\ WF_vars(SamplerSends) /\ WF_vars(Register)

-----------------------------------------------------------------------------
(* Properties. *)

\* The overview shows which connections there are, a listener's view their hosts too.
Agrees(s) ==
    \A c \in Conns : /\ (view[s].rows[c] = "absent") = ~Tracked(c)
                     /\ topic = "live" => view[s].rows[c] = Rows[c]

\* A view that lost no event since its snapshot, or since an up-to-date list, and
\* has read all it was sent, is the tracker: events published after the unlock
\* may cross the snapshot or the list, and still leave the right rows.
ViewExact ==
    \A s \in Streams :
        (/\ clean[s] /\ socket[s].stage = "streaming" /\ socket[s].queue = <<>>
         /\ \A c \in Conns : pending[c] = Nothing)
        => Agrees(s)

\* "The broadcast is drop-oldest, a lagging subscriber can miss an open/close and
\* drift; this snapshot lets the live view rebuild its table from truth"
\* (events_hub.rs).  Lag, an out-of-date list, counts published out of order and a
\* reload are repaired: a view that stays connected comes to show the rows and the
\* count of the tracker, for good.
ViewConverges ==
    \A s \in Streams :
        <>[](socket[s].stage = "streaming") => <>[](view[s] = [rows |-> Rows, count |-> Active])

\* A stream whose session ended (logout, its time, logout_all) is closed, also
\* when the same browser has logged in again.
SessionsEndStreams ==
    \A s \in Streams :
        (socket[s].stage = "streaming" /\ sessions[socket[s].session] = "gone")
        ~> socket[s].stage = "closed"

=============================================================================
