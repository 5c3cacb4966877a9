--------------------------- MODULE EventStreamsProofs ---------------------------
(***************************************************************************)
(* Proof that a view which lost nothing is the tracker (ViewExact), for any  *)
(* connections, browsers and capacities.                                     *)
(*                                                                           *)
(* ViewExact speaks of an empty queue.  Its invariant speaks of what the     *)
(* view will have become when the events in the queue are applied: a trail   *)
(* of rows through the queue, from the view, or from the last list in it,    *)
(* whose end fits the tracker and the event not yet published.               *)
(***************************************************************************)
EXTENDS EventStreams, FiniteSetTheorems, TLAPS

RowStates == {"absent", "plain", "named"}
Tables == [Conns -> RowStates]

Event == {Bytes, Transfer} \cup [type: {"open", "closed"}, conn: Conns, now: Int]
           \cup [type: {"host"}, conn: Conns] \cup [type: {"count"}, now: Int]
           \cup [type: {"list"}, rows: Tables]

\* What the task of c may have yet to publish.
Unpublished(c) == {Nothing, Host(c)} \cup [type: {"open", "closed"}, conn: {c}, now: Int]

Stages == {"closed", "connected", "subscribed", "greeting", "streaming"}
Socket == [stage: Stages, queue: Seq(Event), session: Nat]
View == [rows: Tables, count: Int]

Sockets(sockets, capacity) ==
    /\ sockets \in [Streams -> Socket]
    /\ \A s \in Streams : Len(sockets[s].queue) <= capacity

TypeInv ==
    /\ scenario \in [topic: {"live", "global"}, capacity: Nat \ {0}, conns: SUBSET Conns,
                     events: SUBSET {"name", "reload", "session", "leave"}]
    /\ tracker \in [Conns -> {"new", "plain", "named", "closed", "lost"}]
    /\ \A c \in Conns : pending[c] \in Unpublished(c)
    /\ DOMAIN pending = Conns
    /\ reconciler \in [taken: BOOLEAN, rows: Tables, fresh: BOOLEAN]
    /\ sampler \in [taken: BOOLEAN, now: Int]
    /\ Sockets(socket, Capacity)
    /\ view \in [Streams -> View]
    /\ sessions \in Seq({"valid", "gone"})
    /\ clean \in [Streams -> BOOLEAN]

\* What is unpublished is the last change of its connection.
PendingInv ==
    \A c \in Conns :
        /\ tracker[c] = "new" => pending[c] = Nothing
        /\ pending[c].type = "open" => tracker[c] \in {"plain", "lost"}
        /\ pending[c].type = "host" => tracker[c] \in {"named", "lost"} /\ topic = "live"
        /\ pending[c].type = "closed" => tracker[c] = "closed"

ListInv == reconciler.taken /\ reconciler.fresh => reconciler.rows = Rows

\* A row of c that will be right once the unpublished event is applied.
Fits(c, row) ==
    /\ pending[c] = Nothing => /\ (row = "absent") = ~Tracked(c)
                               /\ topic = "live" => row = Rows[c]
    /\ pending[c].type = "open" /\ tracker[c] = "plain" => row \in {"absent", "plain"}
    /\ pending[c].type = "host" /\ tracker[c] = "named" => row \in {"plain", "named"}

Fitting(c) == {row \in RowStates : Fits(c, row)}

\* What an event makes of the row of c.
RowAfter(c, row, e) ==
    IF e.type = "list" THEN e.rows[c]
    ELSE IF e.type = "open" /\ e.conn = c THEN IF row = "absent" THEN "plain" ELSE row
    ELSE IF e.type = "closed" /\ e.conn = c THEN "absent"
    ELSE IF e.type = "host" /\ e.conn = c THEN IF row = "absent" THEN row ELSE "named"
    ELSE row

\* The rows of c as the events of a queue after the m-th are applied.
Trail(c, q, m, f) ==
    /\ m \in 0..Len(q) /\ f \in [Nat -> RowStates]
    /\ \A n \in m + 1 .. Len(q) : f[n] = RowAfter(c, f[n - 1], q[n])

\* From a list in the queue on, to a row that fits.
FromList(q, c, fitting) ==
    \E m \in 1..Len(q) : \E f \in [Nat -> RowStates] :
        Trail(c, q, m, f) /\ q[m].type = "list" /\ f[m] = q[m].rows[c] /\ f[Len(q)] \in fitting

\* From the row of the view on.
FromView(q, c, row, fitting) ==
    \E f \in [Nat -> RowStates] : Trail(c, q, 0, f) /\ f[0] = row /\ f[Len(q)] \in fitting

\* The rows a snapshot may yet have of c, which the events in the queue, being older,
\* must leave as they are.
Lasting(c) ==
    IF tracker[c] = "new" \/ (tracker[c] = "plain" /\ pending[c].type = "open") THEN RowStates
    ELSE IF tracker[c] = "plain" \/ (tracker[c] = "named" /\ pending[c].type = "host") THEN {"plain", "named"}
    ELSE IF tracker[c] = "named" THEN {"named"}
    ELSE IF pending[c] = Nothing THEN {"absent"}
    ELSE {}

FromAny(q, c, lasting) ==
    \A row \in RowStates : \E f \in [Nat -> RowStates] :
        Trail(c, q, 0, f) /\ f[0] = row /\ (row \in lasting => f[Len(q)] = row)

\* What a socket that lost nothing will show of c: from its snapshot, taken or not.
RightTo(stage, q, c, row, fitting, lasting) ==
    /\ stage = "subscribed" => FromList(q, c, fitting) \/ FromAny(q, c, lasting)
    /\ stage \in {"greeting", "streaming"} => FromList(q, c, fitting) \/ FromView(q, c, row, fitting)

Right(s, c) ==
    RightTo(socket[s].stage, socket[s].queue, c, view[s].rows[c], Fitting(c), Lasting(c))

ViewInv == \A s \in Streams, c \in Conns : clean[s] => Right(s, c)

Inv == TypeInv /\ PendingInv /\ ListInv /\ ViewInv

-----------------------------------------------------------------------------
(* Events and rows. *)

LEMMA Events ==
    /\ Bytes \in Event /\ Bytes.type = "bytes" /\ Transfer \in Event /\ Transfer.type = "transfer"
    /\ Nothing.type = "nothing"
    /\ \A n \in Int : Count(n) \in Event /\ Count(n).type = "count"
    /\ \A rows \in Tables : /\ List(rows) \in Event /\ List(rows).type = "list"
                            /\ List(rows).rows = rows
    /\ \A c \in Conns : /\ Host(c) \in Event /\ Host(c).type = "host" /\ Host(c).conn = c
                        /\ \A n \in Int : /\ Open(c, n) \in Unpublished(c) /\ Open(c, n).type = "open"
                                          /\ Closed(c, n) \in Unpublished(c) /\ Closed(c, n).type = "closed"
BY DEF Event, Bytes, Transfer, Count, List, Host, Open, Closed, Nothing, Unpublished

LEMMA Unsent ==
    ASSUME NEW c \in Conns, NEW e \in Unpublished(c), e # Nothing
    PROVE  e \in Event /\ e.conn = c /\ e.type \in {"open", "host", "closed"}
BY DEF Event, Unpublished, Host

LEMMA EventFields ==
    ASSUME NEW e \in Event
    PROVE  /\ e.type \in {"bytes", "transfer", "open", "closed", "host", "count", "list"}
           /\ e.type \in {"open", "closed"} => e.conn \in Conns /\ e.now \in Int
           /\ e.type = "host" => e.conn \in Conns
           /\ e.type = "count" => e.now \in Int
           /\ e.type = "list" => e.rows \in Tables
BY DEF Event, Bytes, Transfer

LEMMA RowTyped ==
    ASSUME NEW c \in Conns, NEW row \in RowStates, NEW e \in Event
    PROVE  RowAfter(c, row, e) \in RowStates
BY EventFields DEF RowAfter, RowStates, Tables

\* The page does to every row what RowAfter says.
LEMMA AppliedRows ==
    ASSUME NEW v \in View, NEW e \in Event
    PROVE  /\ Applied(v, e) \in View
           /\ \A c \in Conns : Applied(v, e).rows[c] = RowAfter(c, v.rows[c], e)
<1>. DEFINE rows == v.rows
<1>0. rows \in Tables /\ v.count \in Int
  BY DEF View
<1>. HIDE DEF rows
<1>1. CASE e.type = "open"
  <2>. DEFINE r == [rows EXCEPT ![e.conn] = IF rows[e.conn] = "absent" THEN "plain" ELSE rows[e.conn]]
  <2>1. Applied(v, e) = [rows |-> r, count |-> e.now]
    BY <1>1 DEF Applied, rows
  <2>2. r \in Tables /\ \A c \in Conns : r[c] = RowAfter(c, rows[c], e)
    BY <1>0, <1>1, EventFields DEF Tables, RowStates, RowAfter
  <2>. HIDE DEF r
  <2>. QED BY <1>1, <2>1, <2>2, EventFields DEF View, rows
<1>2. CASE e.type = "closed"
  <2>. DEFINE r == [rows EXCEPT ![e.conn] = "absent"]
  <2>1. Applied(v, e) = [rows |-> r, count |-> e.now]
    BY <1>2 DEF Applied, rows
  <2>2. r \in Tables /\ \A c \in Conns : r[c] = RowAfter(c, rows[c], e)
    BY <1>0, <1>2, EventFields DEF Tables, RowStates, RowAfter
  <2>. HIDE DEF r
  <2>. QED BY <1>2, <2>1, <2>2, EventFields DEF View, rows
<1>3. CASE e.type = "host"
  <2>. DEFINE r == [rows EXCEPT ![e.conn] = IF rows[e.conn] = "absent" THEN rows[e.conn] ELSE "named"]
  <2>1. Applied(v, e) = [v EXCEPT !.rows = r]
    BY <1>3 DEF Applied, rows
  <2>2. r \in Tables /\ \A c \in Conns : r[c] = RowAfter(c, rows[c], e)
    BY <1>0, <1>3, EventFields DEF Tables, RowStates, RowAfter
  <2>. HIDE DEF r
  <2>. QED BY <2>1, <2>2 DEF View, rows
<1>4. CASE e.type = "list"
  <2>1. Applied(v, e) = [v EXCEPT !.rows = e.rows] /\ e.rows \in Tables
    BY <1>4, EventFields DEF Applied
  <2>2. \A c \in Conns : e.rows[c] = RowAfter(c, rows[c], e)
    BY <1>4 DEF RowAfter
  <2>. QED BY <2>1, <2>2 DEF View, rows
<1>5. CASE e.type = "count"
  <2>1. Applied(v, e) = [v EXCEPT !.count = e.now] /\ e.now \in Int
    BY <1>5, EventFields DEF Applied
  <2>2. \A c \in Conns : rows[c] = RowAfter(c, rows[c], e)
    BY <1>5 DEF RowAfter
  <2>. QED BY <2>1, <2>2 DEF View, rows
<1>6. CASE e.type \in {"bytes", "transfer"}
  <2>1. Applied(v, e) = v
    BY <1>6 DEF Applied
  <2>2. \A c \in Conns : rows[c] = RowAfter(c, rows[c], e)
    BY <1>6 DEF RowAfter
  <2>. QED BY <2>1, <2>2 DEF rows
<1>. QED BY <1>1, <1>2, <1>3, <1>4, <1>5, <1>6, EventFields

-----------------------------------------------------------------------------
(* Trails. *)

LEMMA TrailAppended ==
    ASSUME NEW c \in Conns, NEW q \in Seq(Event), NEW e \in Event, NEW m \in 0..Len(q),
           NEW f \in [Nat -> RowStates], Trail(c, q, m, f)
    PROVE  \E g \in [Nat -> RowStates] :
              /\ Trail(c, Append(q, e), m, g) /\ g[m] = f[m]
              /\ g[Len(q) + 1] = RowAfter(c, f[Len(q)], e)
<1>. DEFINE k == Len(q)
            row == RowAfter(c, f[k], e)
            g == [f EXCEPT ![k + 1] = row]
            p == Append(q, e)
<1>1. k \in Nat /\ Len(p) = k + 1 /\ p[k + 1] = e /\ \A n \in 1..k : p[n] = q[n]
  OBVIOUS
<1>2. row \in RowStates
  BY <1>1, RowTyped
<1>. HIDE DEF row, p
<1>3. /\ g \in [Nat -> RowStates] /\ g[k + 1] = row /\ \A n \in 0..k : g[n] = f[n]
  BY <1>1, <1>2
<1>. HIDE DEF g
<1>4. \A n \in m + 1 .. k : f[n] = RowAfter(c, f[n - 1], q[n])
  BY DEF Trail
<1>. HIDE DEF k
<1>5. m \in 0..k /\ m \in 0 .. k + 1
  BY <1>1 DEF k
<1>6. ASSUME NEW n \in m + 1 .. k + 1
      PROVE  g[n] = RowAfter(c, g[n - 1], p[n])
  <2>1. CASE n = k + 1
    BY <1>1, <1>3, <2>1 DEF row
  <2>2. CASE n # k + 1
    <3>1. n \in m + 1 .. k /\ n \in 0..k /\ n - 1 \in 0..k /\ n \in 1..k
      BY <1>1, <1>5, <2>2
    <3>. QED BY <1>1, <1>3, <1>4, <3>1
  <2>. QED BY <2>1, <2>2
<1>7. Trail(c, p, m, g)
  BY <1>1, <1>3, <1>5, <1>6 DEF Trail
<1>. QED BY <1>3, <1>5, <1>7 DEF k, row, p

\* q has been continued with events that leave the row of c.
Continued(q, p, c) ==
    /\ Len(q) <= Len(p) /\ \A n \in 1..Len(q) : p[n] = q[n]
    /\ \A n \in Len(q) + 1 .. Len(p) : \A row \in RowStates : RowAfter(c, row, p[n]) = row

LEMMA TrailInert ==
    ASSUME NEW c \in Conns, NEW q \in Seq(Event), NEW p \in Seq(Event), NEW m \in 0..Len(q),
           NEW f \in [Nat -> RowStates], Trail(c, q, m, f), Continued(q, p, c)
    PROVE  \E g \in [Nat -> RowStates] :
              Trail(c, p, m, g) /\ g[m] = f[m] /\ g[Len(p)] = f[Len(q)]
<1>. DEFINE k == Len(q)
            l == Len(p)
            g == [n \in Nat |-> IF n <= k THEN f[n] ELSE f[k]]
<1>1. k \in Nat /\ l \in Nat /\ k <= l /\ m \in 0..k /\ m \in 0..l
  BY DEF Continued
<1>2. \A n \in m + 1 .. k : f[n] = RowAfter(c, f[n - 1], q[n])
  BY DEF Trail
<1>3. \A n \in k + 1 .. l : \A row \in RowStates : RowAfter(c, row, p[n]) = row
  BY DEF Continued
<1>4. \A n \in 1..k : p[n] = q[n]
  BY DEF Continued
<1>. HIDE DEF k, l
<1>5. g \in [Nat -> RowStates] /\ \A n \in Nat : g[n] = IF n <= k THEN f[n] ELSE f[k]
  BY <1>1
<1>. HIDE DEF g
<1>6. ASSUME NEW n \in m + 1 .. l
      PROVE  g[n] = RowAfter(c, g[n - 1], p[n])
  <2>1. CASE n <= k
    <3>1. n \in m + 1 .. k /\ n \in 1..k /\ n \in Nat /\ n - 1 \in Nat /\ n - 1 <= k
      BY <1>1, <2>1
    <3>. QED BY <1>2, <1>4, <1>5, <2>1, <3>1
  <2>2. CASE n > k
    <3>1. n \in k + 1 .. l /\ n \in Nat /\ n - 1 \in Nat /\ n - 1 >= k
      BY <1>1, <2>2
    <3>2. g[n] = f[k] /\ f[k] \in RowStates
      BY <1>1, <1>5, <2>2, <3>1
    <3>3. PICK i \in Nat : i = n - 1 /\ (i = k \/ ~(i <= k))
      BY <1>1, <3>1
    <3>4. g[n - 1] = f[k]
      BY <1>1, <1>5, <3>3
    <3>. QED BY <1>3, <3>1, <3>2, <3>4
  <2>. QED BY <1>1, <2>1, <2>2
<1>7. Trail(c, p, m, g)
  BY <1>1, <1>5, <1>6 DEF Trail, l
<1>8. g[m] = f[m] /\ g[l] = f[k]
  BY <1>1, <1>5
<1>. QED BY <1>5, <1>7, <1>8 DEF k, l

\* A row fits still, and a lasting row was one before, when a connection changes.
LEMMA RightKept ==
    ASSUME NEW stage, NEW q \in Seq(Event), NEW c \in Conns, NEW row \in RowStates,
           NEW fit, NEW last, NEW fit2, NEW last2, fit \subseteq fit2, last2 \subseteq last,
           RightTo(stage, q, c, row, fit, last)
    PROVE  RightTo(stage, q, c, row, fit2, last2)
<1>1. FromList(q, c, fit) => FromList(q, c, fit2)
  BY DEF FromList
<1>2. FromView(q, c, row, fit) => FromView(q, c, row, fit2)
  BY DEF FromView
<1>3. ASSUME FromAny(q, c, last)
      PROVE  FromAny(q, c, last2)
  <2>. SUFFICES ASSUME NEW r \in RowStates
                PROVE  \E f \in [Nat -> RowStates] :
                          Trail(c, q, 0, f) /\ f[0] = r /\ (r \in last2 => f[Len(q)] = r)
    BY DEF FromAny
  <2>1. PICK f \in [Nat -> RowStates] :
                Trail(c, q, 0, f) /\ f[0] = r /\ (r \in last => f[Len(q)] = r)
    BY <1>3 DEF FromAny
  <2>. QED BY <2>1
<1>. QED BY <1>1, <1>2, <1>3 DEF RightTo

\* An event is appended that takes every row that fitted to one that fits, and
\* every row to the lasting one it must have become.
LEMMA RightAppended ==
    ASSUME NEW stage, NEW q \in Seq(Event), NEW c \in Conns, NEW row \in RowStates, NEW e \in Event,
           NEW fit, NEW last, NEW fit2, NEW last2,
           \A r \in RowStates : r \in fit => RowAfter(c, r, e) \in fit2,
           \A r \in RowStates, x \in RowStates :
              x \in last2 /\ (x \in last => r = x) => RowAfter(c, r, e) = x,
           RightTo(stage, q, c, row, fit, last)
    PROVE  RightTo(stage, Append(q, e), c, row, fit2, last2)
<1>. DEFINE k == Len(q)
            p == Append(q, e)
<1>1. k \in Nat /\ Len(p) = k + 1 /\ \A n \in 1..k : p[n] = q[n]
  OBVIOUS
<1>2. ASSUME FromList(q, c, fit)
      PROVE  FromList(p, c, fit2)
  <2>1. PICK m \in 1..k, f \in [Nat -> RowStates] :
              Trail(c, q, m, f) /\ q[m].type = "list" /\ f[m] = q[m].rows[c] /\ f[k] \in fit
    BY <1>2 DEF FromList
  <2>2. PICK g \in [Nat -> RowStates] :
              Trail(c, p, m, g) /\ g[m] = f[m] /\ g[k + 1] = RowAfter(c, f[k], e)
    <3>1. m \in 0..Len(q)
      BY <1>1
    <3>. QED BY <2>1, <3>1, TrailAppended
  <2>3. f[k] \in RowStates /\ m \in 1 .. k + 1 /\ p[m] = q[m]
    BY <1>1
  <2>4. g[k + 1] \in fit2
    BY <2>1, <2>2, <2>3
  <2>. QED BY <1>1, <2>1, <2>2, <2>3, <2>4 DEF FromList
<1>3. ASSUME FromView(q, c, row, fit)
      PROVE  FromView(p, c, row, fit2)
  <2>1. PICK f \in [Nat -> RowStates] : Trail(c, q, 0, f) /\ f[0] = row /\ f[k] \in fit
    BY <1>3 DEF FromView
  <2>2. PICK g \in [Nat -> RowStates] :
              Trail(c, p, 0, g) /\ g[0] = f[0] /\ g[k + 1] = RowAfter(c, f[k], e)
    BY <1>1, <2>1, TrailAppended
  <2>3. g[k + 1] \in fit2
    BY <1>1, <2>1, <2>2
  <2>. QED BY <1>1, <2>1, <2>2, <2>3 DEF FromView
<1>4. ASSUME FromAny(q, c, last)
      PROVE  FromAny(p, c, last2)
  <2>. SUFFICES ASSUME NEW x \in RowStates
                PROVE  \E f \in [Nat -> RowStates] :
                          Trail(c, p, 0, f) /\ f[0] = x /\ (x \in last2 => f[Len(p)] = x)
    BY DEF FromAny
  <2>1. PICK f \in [Nat -> RowStates] :
                Trail(c, q, 0, f) /\ f[0] = x /\ (x \in last => f[k] = x)
    BY <1>4 DEF FromAny
  <2>2. PICK g \in [Nat -> RowStates] :
              Trail(c, p, 0, g) /\ g[0] = f[0] /\ g[k + 1] = RowAfter(c, f[k], e)
    BY <1>1, <2>1, TrailAppended
  <2>3. x \in last2 => g[k + 1] = x
    BY <1>1, <2>1, <2>2
  <2>. QED BY <1>1, <2>1, <2>2, <2>3
<1>. QED BY <1>2, <1>3, <1>4 DEF RightTo

\* Events are appended that say nothing of c.
LEMMA RightInert ==
    ASSUME NEW stage, NEW q \in Seq(Event), NEW p \in Seq(Event), NEW c \in Conns,
           NEW row \in RowStates, NEW fit, NEW last, Continued(q, p, c),
           RightTo(stage, q, c, row, fit, last)
    PROVE  RightTo(stage, p, c, row, fit, last)
<1>. DEFINE k == Len(q)
            l == Len(p)
<1>1. k \in Nat /\ l \in Nat /\ k <= l /\ \A n \in 1..k : p[n] = q[n]
  BY DEF Continued
<1>2. ASSUME NEW m \in 0..k, NEW f \in [Nat -> RowStates], Trail(c, q, m, f)
      PROVE  \E g \in [Nat -> RowStates] : Trail(c, p, m, g) /\ g[m] = f[m] /\ g[l] = f[k]
  BY <1>2, TrailInert
<1>3. ASSUME FromList(q, c, fit)
      PROVE  FromList(p, c, fit)
  <2>1. PICK m \in 1..k, f \in [Nat -> RowStates] :
              Trail(c, q, m, f) /\ q[m].type = "list" /\ f[m] = q[m].rows[c] /\ f[k] \in fit
    BY <1>3 DEF FromList
  <2>2. m \in 0..k /\ m \in 1..l /\ p[m] = q[m]
    BY <1>1
  <2>3. PICK g \in [Nat -> RowStates] : Trail(c, p, m, g) /\ g[m] = f[m] /\ g[l] = f[k]
    BY <1>2, <2>1, <2>2
  <2>. QED BY <2>1, <2>2, <2>3 DEF FromList
<1>4. ASSUME FromView(q, c, row, fit)
      PROVE  FromView(p, c, row, fit)
  <2>1. PICK f \in [Nat -> RowStates] : Trail(c, q, 0, f) /\ f[0] = row /\ f[k] \in fit
    BY <1>4 DEF FromView
  <2>2. PICK g \in [Nat -> RowStates] : Trail(c, p, 0, g) /\ g[0] = f[0] /\ g[l] = f[k]
    BY <1>1, <1>2, <2>1
  <2>. QED BY <2>1, <2>2 DEF FromView
<1>5. ASSUME FromAny(q, c, last)
      PROVE  FromAny(p, c, last)
  <2>. SUFFICES ASSUME NEW x \in RowStates
                PROVE  \E f \in [Nat -> RowStates] :
                          Trail(c, p, 0, f) /\ f[0] = x /\ (x \in last => f[Len(p)] = x)
    BY DEF FromAny
  <2>1. PICK f \in [Nat -> RowStates] :
                Trail(c, q, 0, f) /\ f[0] = x /\ (x \in last => f[k] = x)
    BY <1>5 DEF FromAny
  <2>2. PICK g \in [Nat -> RowStates] : Trail(c, p, 0, g) /\ g[0] = f[0] /\ g[l] = f[k]
    BY <1>1, <1>2, <2>1
  <2>. QED BY <2>1, <2>2
<1>. QED BY <1>3, <1>4, <1>5 DEF RightTo

\* A list with the rows of the tracker is the newest event of the queue.
LEMMA RightListed ==
    ASSUME NEW stage, NEW q \in Seq(Event), NEW c \in Conns, NEW row \in RowStates,
           NEW fit, NEW last, q # <<>>, q[Len(q)].type = "list", q[Len(q)].rows[c] \in fit
    PROVE  RightTo(stage, q, c, row, fit, last)
<1>. DEFINE k == Len(q)
            e == q[k]
<1>1. k \in Nat /\ k \in 1..k /\ k \in 0..k /\ e \in Event
  OBVIOUS
<1>2. e.rows[c] \in RowStates
  BY <1>1, EventFields DEF Tables
<1>. DEFINE f == [n \in Nat |-> e.rows[c]]
<1>3. f \in [Nat -> RowStates] /\ f[k] = e.rows[c]
  BY <1>1, <1>2
<1>. HIDE DEF f
<1>4. Trail(c, q, k, f)
  BY <1>1, <1>3 DEF Trail
<1>5. FromList(q, c, fit)
  BY <1>1, <1>3, <1>4 DEF FromList
<1>. QED BY <1>5 DEF RightTo

\* The page reads the oldest event.
LEMMA RightDelivered ==
    ASSUME NEW stage, NEW q \in Seq(Event), NEW c \in Conns, NEW row \in RowStates,
           NEW fit, NEW last, q # <<>>, stage = "streaming", RightTo(stage, q, c, row, fit, last)
    PROVE  RightTo(stage, Tail(q), c, RowAfter(c, row, Head(q)), fit, last)
<1>. DEFINE k == Len(q)
            p == Tail(q)
            next == RowAfter(c, row, Head(q))
<1>1. /\ k \in Nat /\ k >= 1 /\ p \in Seq(Event) /\ Len(p) = k - 1 /\ Head(q) = q[1]
      /\ \A n \in 1 .. k - 1 : p[n] = q[n + 1]
  OBVIOUS
<1>. HIDE DEF k, p
<1>2. ASSUME NEW m \in 0..k, NEW f \in [Nat -> RowStates], Trail(c, q, m, f), NEW l \in 0 .. k - 1, m - 1 <= l
      PROVE  \E g \in [Nat -> RowStates] : Trail(c, p, l, g) /\ g[l] = f[l + 1] /\ g[k - 1] = f[k]
  <2>. DEFINE g == [n \in Nat |-> f[n + 1]]
  <2>1. g \in [Nat -> RowStates] /\ \A n \in Nat : g[n] = f[n + 1]
    OBVIOUS
  <2>. HIDE DEF g
  <2>2. ASSUME NEW n \in l + 1 .. k - 1
        PROVE  g[n] = RowAfter(c, g[n - 1], p[n])
    <3>1. /\ n + 1 \in m + 1 .. k /\ n \in Nat /\ n - 1 \in Nat /\ n \in 1 .. k - 1
          /\ (n + 1) - 1 = n /\ (n - 1) + 1 = n
      BY <1>1, <1>2
    <3>2. f[n + 1] = RowAfter(c, f[n], q[n + 1])
      BY <1>2, <3>1 DEF Trail, k
    <3>3. g[n] = f[n + 1] /\ g[n - 1] = f[n] /\ p[n] = q[n + 1]
      BY <1>1, <2>1, <3>1
    <3>. QED BY <3>2, <3>3
  <2>3. Trail(c, p, l, g)
    BY <1>1, <2>1, <2>2 DEF Trail
  <2>4. l \in Nat /\ k - 1 \in Nat /\ (k - 1) + 1 = k
    BY <1>1
  <2>5. g[l] = f[l + 1] /\ g[k - 1] = f[k]
    BY <2>1, <2>4
  <2>. QED BY <2>1, <2>3, <2>5
<1>3. ASSUME FromView(q, c, row, fit)
      PROVE  FromView(p, c, next, fit)
  <2>1. PICK f \in [Nat -> RowStates] : Trail(c, q, 0, f) /\ f[0] = row /\ f[k] \in fit
    BY <1>3 DEF FromView, k
  <2>2. f[1] = next
    BY <1>1, <2>1 DEF Trail, k
  <2>3. 0 \in 0..k /\ 0 \in 0 .. k - 1 /\ 0 - 1 <= 0 /\ 0 + 1 = 1
    BY <1>1
  <2>4. PICK g \in [Nat -> RowStates] : Trail(c, p, 0, g) /\ g[0] = f[1] /\ g[k - 1] = f[k]
    BY <1>2, <2>1, <2>3
  <2>. QED BY <1>1, <2>1, <2>2, <2>4 DEF FromView
<1>4. ASSUME FromList(q, c, fit)
      PROVE  FromList(p, c, fit) \/ FromView(p, c, next, fit)
  <2>1. PICK m \in 1..k, f \in [Nat -> RowStates] :
              Trail(c, q, m, f) /\ q[m].type = "list" /\ f[m] = q[m].rows[c] /\ f[k] \in fit
    BY <1>4 DEF FromList, k
  <2>2. m \in 0..k /\ Len(p) = k - 1
    BY <1>1
  <2>3. PICK l \in 0 .. k - 1 : l + 1 = m /\ m - 1 <= l
    BY <1>1
  <2>4. PICK g \in [Nat -> RowStates] : Trail(c, p, l, g) /\ g[l] = f[m] /\ g[k - 1] = f[k]
    BY <1>2, <2>1, <2>2, <2>3
  <2>5. CASE l = 0
    <3>1. m = 1
      BY <2>3, <2>5
    <3>2. g[0] = next
      BY <1>1, <2>1, <2>4, <2>5, <3>1 DEF RowAfter
    <3>. QED BY <2>1, <2>2, <2>4, <2>5, <3>2 DEF FromView
  <2>6. CASE l # 0
    <3>1. l \in 1 .. k - 1 /\ p[l] = q[m]
      BY <1>1, <2>3, <2>6
    <3>. QED BY <2>1, <2>2, <2>4, <3>1 DEF FromList
  <2>. QED BY <2>5, <2>6
<1>. QED BY <1>3, <1>4 DEF RightTo, p

\* The snapshot is taken: the row of the tracker fits.
LEMMA RightGreeted ==
    ASSUME NEW q \in Seq(Event), NEW c \in Conns, NEW old \in RowStates, NEW row \in RowStates,
           NEW fit, NEW last, NEW stage,
           RightTo("subscribed", q, c, old, fit, last),
           \A r \in RowStates : (row \in last => r = row) => r \in fit
    PROVE  RightTo(stage, q, c, row, fit, last) \/ stage = "subscribed"
<1>1. ASSUME FromAny(q, c, last)
      PROVE  FromView(q, c, row, fit)
  <2>1. PICK f \in [Nat -> RowStates] :
                Trail(c, q, 0, f) /\ f[0] = row /\ (row \in last => f[Len(q)] = row)
    BY <1>1 DEF FromAny
  <2>2. f[Len(q)] \in fit
    BY <2>1
  <2>. QED BY <2>1, <2>2 DEF FromView
<1>. QED BY <1>1 DEF RightTo

\* A socket that has just subscribed.
LEMMA RightSubscribed ==
    ASSUME NEW c \in Conns, NEW row, NEW fit, NEW last
    PROVE  RightTo("subscribed", <<>>, c, row, fit, last)
<1>. SUFFICES ASSUME NEW r \in RowStates
              PROVE  \E f \in [Nat -> RowStates] :
                        Trail(c, <<>>, 0, f) /\ f[0] = r /\ (r \in last => f[Len(<<>>)] = r)
  BY DEF RightTo, FromAny
<1>. DEFINE f == [n \in Nat |-> r]
<1>1. f \in [Nat -> RowStates] /\ f[0] = r /\ Len(<<>>) = 0
  OBVIOUS
<1>. HIDE DEF f
<1>2. Trail(c, <<>>, 0, f)
  BY <1>1 DEF Trail
<1>. QED BY <1>1, <1>2

-----------------------------------------------------------------------------
(* What the steps do to the state of the hub. *)

LEMMA Enqueued ==
    ASSUME TypeInv, NEW q \in Seq(Event), Len(q) <= Capacity, NEW e \in Event
    PROVE  /\ Enqueue(q, e) \in Seq(Event) /\ Len(Enqueue(q, e)) <= Capacity
           /\ Enqueue(q, e) # <<>> /\ Enqueue(q, e)[Len(Enqueue(q, e))] = e
           /\ Len(q) # Capacity => Enqueue(q, e) = Append(q, e)
<1>. DEFINE k == Capacity
<1>1. k \in Nat \ {0} /\ Len(q) \in Nat /\ Len(q) <= k
  BY DEF TypeInv, Capacity
<1>2. Enqueue(q, e) = IF Len(q) < k THEN Append(q, e) ELSE Append(Tail(q), e)
  BY DEF Enqueue
<1>. HIDE DEF k
<1>3. CASE Len(q) < k
  BY <1>1, <1>2, <1>3 DEF k
<1>4. CASE Len(q) = k
  <2>1. q # <<>> /\ Tail(q) \in Seq(Event) /\ Len(Tail(q)) = k - 1
    BY <1>1, <1>4
  <2>. QED BY <1>1, <1>2, <1>4, <2>1 DEF k
<1>. QED BY <1>1, <1>3, <1>4

LEMMA SentSockets ==
    ASSUME TypeInv, NEW e \in Event
    PROVE  /\ Sockets(Sent(e), Capacity)
           /\ \A s \in Streams :
                 /\ Sent(e)[s].stage = socket[s].stage
                 /\ Subscribed(s) => Sent(e)[s].queue = Enqueue(socket[s].queue, e)
                 /\ ~Subscribed(s) => Sent(e)[s] = socket[s]
<1>1. ASSUME NEW s \in Streams
      PROVE  /\ Sent(e)[s] \in Socket /\ Len(Sent(e)[s].queue) <= Capacity
             /\ Sent(e)[s].stage = socket[s].stage
             /\ Subscribed(s) => Sent(e)[s].queue = Enqueue(socket[s].queue, e)
             /\ ~Subscribed(s) => Sent(e)[s] = socket[s]
  <2>. DEFINE w == socket[s]
              p == Enqueue(w.queue, e)
  <2>1. w \in Socket /\ w.queue \in Seq(Event) /\ Len(w.queue) <= Capacity
    BY DEF TypeInv, Sockets, Socket
  <2>2. p \in Seq(Event) /\ Len(p) <= Capacity
    BY <2>1, Enqueued
  <2>3. Sent(e)[s] = IF Subscribed(s) THEN [w EXCEPT !.queue = p] ELSE w
    BY DEF Sent
  <2>. HIDE DEF p
  <2>4. [w EXCEPT !.queue = p] \in Socket /\ [w EXCEPT !.queue = p].queue = p /\ [w EXCEPT !.queue = p].stage = w.stage
    BY <2>1, <2>2 DEF Socket
  <2>. QED BY <2>1, <2>2, <2>3, <2>4 DEF p
<1>2. Sent(e) \in [Streams -> Socket]
  BY <1>1 DEF Sent
<1>. QED BY <1>1, <1>2 DEF Sockets

LEMMA Bursts ==
    ASSUME TypeInv, NEW q \in Seq(Event), Len(q) <= Capacity, NEW n \in Nat
    PROVE  /\ Burst(q, n) \in Seq(Event) /\ Len(Burst(q, n)) <= Capacity
           /\ Len(q) + n <= Capacity => \A c \in Conns : Continued(q, Burst(q, n), c)
<1>. DEFINE k == Capacity
            b == [i \in 1..n |-> Bytes]
            all == q \o b
            l == Len(all)
<1>1. k \in Nat \ {0} /\ Len(q) \in Nat /\ Len(q) <= k
  BY DEF TypeInv, Capacity
<1>2. b \in Seq(Event) /\ Len(b) = n /\ \A i \in 1..n : b[i] = Bytes
  BY Events
<1>3. Burst(q, n) = IF l > k THEN SubSeq(all, l - k + 1, l) ELSE all
  BY DEF Burst
<1>. HIDE DEF b, k
<1>4. /\ all \in Seq(Event) /\ l = Len(q) + n /\ \A i \in 1..Len(q) : all[i] = q[i]
      /\ \A i \in Len(q) + 1 .. l : all[i] = Bytes
  BY <1>2
<1>. HIDE DEF all, l
<1>5. CASE l > k
  BY <1>1, <1>3, <1>4, <1>5 DEF l, k
<1>6. CASE ~(l > k)
  <2>1. Burst(q, n) = all
    BY <1>3, <1>6
  <2>2. ASSUME NEW c \in Conns
        PROVE  Continued(q, all, c)
    <3>1. \A row \in RowStates : RowAfter(c, row, Bytes) = row
      BY Events DEF RowAfter
    <3>. QED BY <1>1, <1>4, <3>1 DEF Continued, l
  <2>. QED BY <1>1, <1>4, <1>6, <2>1, <2>2 DEF l, k
<1>. QED BY <1>5, <1>6

TrackedCount == Cardinality({c \in Conns : Tracked(c)})

LEMMA Counted ==
    TrackedCount \in Nat /\ Active \in Int /\ ActiveWith \in Int /\ ActiveWithout \in Int
<1>1. IsFiniteSet({c \in Conns : Tracked(c)})
  BY CapacityAssumption, FS_Subset
<1>2. TrackedCount \in Nat
  BY <1>1, FS_CardinalityType DEF TrackedCount
<1>. QED BY <1>2 DEF TrackedCount, Active, ActiveWith, ActiveWithout

LEMMA RowsTyped ==
    ASSUME TypeInv
    PROVE  Rows \in Tables /\ \A c \in Conns : Rows[c] = IF Tracked(c) THEN tracker[c] ELSE "absent"
BY DEF TypeInv, Rows, Tables, RowStates, Tracked

-----------------------------------------------------------------------------
(* Types. *)

LEMMA TypeInit == Init => TypeInv
<1>. SUFFICES ASSUME Init PROVE TypeInv
  OBVIOUS
<1>1. scenario \in [topic: {"live", "global"}, capacity: Nat \ {0}, conns: SUBSET Conns,
                    events: SUBSET {"name", "reload", "session", "leave"}]
  BY CapacityAssumption DEF Init
<1>2. /\ tracker \in [Conns -> {"new", "plain", "named", "closed", "lost"}]
      /\ \A c \in Conns : pending[c] \in Unpublished(c)
      /\ DOMAIN pending = Conns /\ sampler \in [taken: BOOLEAN, now: Int]
      /\ sessions \in Seq({"valid", "gone"}) /\ clean \in [Streams -> BOOLEAN]
  BY DEF Init, Unpublished, NoCount
<1>3. [c \in Conns |-> "absent"] \in Tables
  BY DEF Tables, RowStates
<1>4. reconciler \in [taken: BOOLEAN, rows: Tables, fresh: BOOLEAN]
  BY <1>3 DEF Init, NoList
<1>5. view \in [Streams -> View]
  BY <1>3 DEF Init, NoView, View
<1>6. <<>> \in Seq(Event) /\ Len(<<>>) = 0 /\ Capacity \in Nat
  BY <1>1 DEF Capacity
<1>7. Sockets(socket, Capacity)
  BY <1>6 DEF Init, NoSocket, Sockets, Socket, Stages
<1>. QED BY <1>1, <1>2, <1>4, <1>5, <1>7 DEF TypeInv

LEMMA TypeStep == TypeInv /\ [Next]_vars => TypeInv'
<1>. SUFFICES ASSUME TypeInv, [Next]_vars PROVE TypeInv'
  OBVIOUS
<1>0. /\ [c \in Conns |-> "absent"] \in Tables /\ Capacity \in Nat
      /\ reconciler \in [taken: BOOLEAN, rows: Tables, fresh: BOOLEAN]
      /\ Outdated \in [taken: BOOLEAN, rows: Tables, fresh: BOOLEAN]
  BY DEF TypeInv, Tables, RowStates, Outdated, Capacity
<1>1. NoList \in [taken: BOOLEAN, rows: Tables, fresh: BOOLEAN]
  BY <1>0 DEF NoList
<1>2. ASSUME NEW c \in Conns, NEW e \in Unpublished(c),
             tracker' \in [Conns -> {"new", "plain", "named", "closed", "lost"}],
             pending' = [pending EXCEPT ![c] = e], reconciler' = Outdated,
             UNCHANGED <<scenario, registered, sampler, socket, view, sessions, clean>>
      PROVE  TypeInv'
  BY <1>0, <1>2 DEF TypeInv, Capacity
<1>3. ASSUME NEW c \in Conns, Put(c) PROVE TypeInv'
  <2>1. Open(c, ActiveWith) \in Unpublished(c)
    BY Events, Counted
  <2>. QED BY <1>2, <1>3, <2>1 DEF Put, TypeInv
<1>4. ASSUME NEW c \in Conns, SetSni(c) PROVE TypeInv'
  <2>1. (IF topic = "live" THEN Host(c) ELSE Nothing) \in Unpublished(c)
    BY DEF Unpublished
  <2>. QED BY <1>2, <1>4, <2>1 DEF SetSni, TypeInv
<1>5. ASSUME NEW c \in Conns, Remove(c) PROVE TypeInv'
  <2>1. Closed(c, ActiveWithout) \in Unpublished(c)
    BY Events, Counted
  <2>. QED BY <1>2, <1>5, <2>1 DEF Remove, TypeInv
<1>6. ASSUME NEW p, Sockets(socket', Capacity), clean' = Only(p),
             UNCHANGED <<scenario, tracker, view, sessions>>,
             reconciler' \in [taken: BOOLEAN, rows: Tables, fresh: BOOLEAN],
             sampler' \in [taken: BOOLEAN, now: Int],
             DOMAIN pending' = Conns, \A c \in Conns : pending'[c] \in Unpublished(c)
      PROVE  TypeInv'
  <2>1. clean' \in [Streams -> BOOLEAN]
    BY <1>6 DEF Only, Subscribed
  <2>. QED BY <1>6, <2>1 DEF TypeInv, Capacity, Sockets
<1>7. ASSUME NEW c \in Conns, Publish(c) PROVE TypeInv'
  <2>1. pending[c] \in Event
    BY <1>7, Unsent DEF Publish, TypeInv
  <2>2. Sockets(socket', Capacity)
    BY <1>7, <2>1, SentSockets DEF Publish
  <2>3. DOMAIN pending' = Conns /\ \A d \in Conns : pending'[d] \in Unpublished(d)
    BY <1>7 DEF Publish, TypeInv, Unpublished
  <2>4. \E p : clean' = Only(p)
    BY <1>7 DEF Publish
  <2>. QED BY <1>6, <1>7, <2>2, <2>3, <2>4 DEF Publish, TypeInv
<1>8. ASSUME ReconcilerTakes PROVE TypeInv'
  BY <1>8, RowsTyped DEF ReconcilerTakes, TypeInv, Capacity, Sockets
<1>9. ASSUME ReconcilerSends PROVE TypeInv'
  <2>1. CASE topic = "live" /\ ~registered
    BY <1>1, <1>9, <2>1 DEF ReconcilerSends, TypeInv, Capacity
  <2>2. CASE ~(topic = "live" /\ ~registered)
    <3>1. List(reconciler.rows) \in Event
      BY <1>0, Events
    <3>2. Sockets(socket', Capacity)
      BY <1>9, <2>2, <3>1, SentSockets DEF ReconcilerSends
    <3>3. \E p : clean' = Only(p)
      BY <1>9, <2>2 DEF ReconcilerSends
    <3>. QED BY <1>1, <1>6, <1>9, <3>2, <3>3 DEF ReconcilerSends, TypeInv
  <2>. QED BY <2>1, <2>2
<1>10. ASSUME SamplerTakes PROVE TypeInv'
  <2>0. sampler' \in [taken: BOOLEAN, now: Int]
    BY <1>10, Counted DEF SamplerTakes
  <2>1. CASE topic # "live"
    BY <1>10, <2>0, <2>1 DEF SamplerTakes, TypeInv, Capacity, Sockets
  <2>2. CASE topic = "live"
    <3>. DEFINE n == TrackedCount
    <3>1. n \in Nat
      BY Counted
    <3>2. /\ socket' = [s \in Streams |->
                IF Subscribed(s) THEN [socket[s] EXCEPT !.queue = Burst(socket[s].queue, n)] ELSE socket[s]]
          /\ \E p : clean' = Only(p)
      BY <1>10, <2>2 DEF SamplerTakes, TrackedCount
    <3>. HIDE DEF n
    <3>3. ASSUME NEW s \in Streams
          PROVE  socket'[s] \in Socket /\ Len(socket'[s].queue) <= Capacity
      <4>. DEFINE w == socket[s]
                  q == Burst(w.queue, n)
      <4>1. w \in Socket /\ w.queue \in Seq(Event) /\ Len(w.queue) <= Capacity
        BY DEF TypeInv, Sockets, Socket
      <4>2. q \in Seq(Event) /\ Len(q) <= Capacity
        BY <3>1, <4>1, Bursts
      <4>3. socket'[s] = IF Subscribed(s) THEN [w EXCEPT !.queue = q] ELSE w
        BY <3>2
      <4>. HIDE DEF q
      <4>4. [w EXCEPT !.queue = q] \in Socket /\ [w EXCEPT !.queue = q].queue = q
        BY <4>1, <4>2 DEF Socket
      <4>. QED BY <4>1, <4>2, <4>3, <4>4
    <3>4. socket' \in [Streams -> Socket]
      BY <3>2, <3>3
    <3>5. Sockets(socket', Capacity)
      BY <3>3, <3>4 DEF Sockets
    <3>. QED BY <1>6, <1>10, <2>0, <3>2, <3>5 DEF SamplerTakes, TypeInv
  <2>. QED BY <2>1, <2>2
<1>11. ASSUME SamplerSends PROVE TypeInv'
  <2>0. sampler' \in [taken: BOOLEAN, now: Int]
    BY <1>11 DEF SamplerSends, NoCount
  <2>1. CASE Sampled = <<>>
    BY <1>11, <2>0, <2>1 DEF SamplerSends, TypeInv, Capacity, Sockets
  <2>2. CASE Sampled # <<>>
    <3>1. Head(Sampled) \in Event
      <4>1. Count(sampler.now) \in Event /\ Transfer \in Event
        BY Events DEF TypeInv
      <4>2. Head(<<Count(sampler.now)>>) = Count(sampler.now) /\ Head(<<Transfer>>) = Transfer
        OBVIOUS
      <4>. QED BY <2>2, <4>1, <4>2 DEF Sampled
    <3>2. Sockets(socket', Capacity) /\ clean' = Only(Unlagged)
      BY <1>11, <2>2, <3>1, SentSockets DEF SamplerSends
    <3>. QED BY <1>6, <1>11, <2>0, <3>2 DEF SamplerSends, TypeInv
  <2>. QED BY <2>1, <2>2
<1>12. ASSUME Reload PROVE TypeInv'
  <2>1. /\ scenario' \in [topic: {"live", "global"}, capacity: Nat \ {0}, conns: SUBSET Conns,
                          events: SUBSET {"name", "reload", "session", "leave"}]
        /\ Capacity' = Capacity
    BY <1>12 DEF Reload, TypeInv, Capacity
  <2>2. tracker' \in [Conns -> {"new", "plain", "named", "closed", "lost"}]
    BY <1>12 DEF Reload, TypeInv
  <2>3. reconciler' \in [taken: BOOLEAN, rows: Tables, fresh: BOOLEAN]
    BY <1>0, <1>1, <1>12 DEF Reload
  <2>5. NoCount \in [taken: BOOLEAN, now: Int] /\ sampler \in [taken: BOOLEAN, now: Int]
    BY DEF TypeInv, NoCount
  <2>6. sampler' \in [taken: BOOLEAN, now: Int]
    BY <1>12, <2>5 DEF Reload
  <2>4. clean' \in [Streams -> BOOLEAN]
    BY <1>12 DEF Reload, Only, Subscribed
  <2>. QED BY <1>12, <2>1, <2>2, <2>3, <2>4, <2>6 DEF Reload, TypeInv
<1>13. ASSUME Register PROVE TypeInv'
  BY <1>13 DEF Register, TypeInv, Capacity
<1>14. ASSUME SessionNext PROVE TypeInv'
  <2>0. sessions \in Seq({"valid", "gone"})
    BY DEF TypeInv
  <2>1. sessions' \in Seq({"valid", "gone"})
    <3>1. CASE Login
      BY <2>0, <3>1 DEF Login
    <3>2. CASE LogoutAll
      BY <2>0, <3>2 DEF LogoutAll
    <3>3. CASE \E t \in DOMAIN sessions : SessionEnds(t)
      BY <2>0, <3>3 DEF SessionEnds
    <3>. QED BY <1>14, <3>1, <3>2, <3>3 DEF SessionNext
  <2>. QED BY <1>14, <2>1 DEF SessionNext, Login, LogoutAll, SessionEnds, TypeInv, Capacity
<1>15. ASSUME NEW s \in Streams, NEW w \in Socket, NEW v \in View, Len(w.queue) <= Capacity,
              socket' = [socket EXCEPT ![s] = w], view' = [view EXCEPT ![s] = v],
              clean' \in [Streams -> BOOLEAN],
              UNCHANGED <<scenario, tracker, pending, registered, reconciler, sampler, sessions>>
       PROVE  TypeInv'
  <2>1. Sockets(socket', Capacity)
    BY <1>15 DEF TypeInv, Sockets
  <2>2. view' \in [Streams -> View]
    BY <1>15 DEF TypeInv
  <2>. QED BY <1>15, <2>1, <2>2 DEF TypeInv, Capacity
<1>16. ASSUME NEW s \in Streams
       PROVE  /\ socket[s] \in Socket /\ socket[s].queue \in Seq(Event) /\ Len(socket[s].queue) <= Capacity
              /\ view[s] \in View /\ view = [view EXCEPT ![s] = view[s]] /\ clean \in [Streams -> BOOLEAN]
              /\ socket \in [Streams -> Socket]
  BY DEF TypeInv, Sockets, Socket
<1>17. ASSUME NEW s \in Streams, NEW t \in DOMAIN sessions, Connect(s, t) PROVE TypeInv'
  <2>. DEFINE u == [socket[s] EXCEPT !.stage = "connected"]
              w == [u EXCEPT !.session = t]
  <2>1. t \in Nat
    BY DEF TypeInv
  <2>2. u \in Socket /\ u.queue = socket[s].queue
    BY <1>16 DEF Socket, Stages
  <2>3. w \in Socket /\ w.queue = u.queue
    BY <2>1, <2>2 DEF Socket
  <2>4. socket' = [[socket EXCEPT ![s].stage = "connected"] EXCEPT ![s].session = t]
    BY <1>17 DEF Connect
  <2>5. socket' = [socket EXCEPT ![s] = w]
    BY <1>16, <2>4
  <2>. HIDE DEF u, w
  <2>6. view' = [view EXCEPT ![s] = view[s]]
    BY <1>16, <1>17 DEF Connect
  <2>7. view[s] \in View /\ Len(socket[s].queue) <= Capacity /\ clean \in [Streams -> BOOLEAN]
    BY <1>16
  <2>8. Len(w.queue) <= Capacity
    BY <2>2, <2>3, <2>7
  <2>9. clean' \in [Streams -> BOOLEAN]
    BY <1>17, <2>7 DEF Connect
  <2>10. UNCHANGED <<scenario, tracker, pending, registered, reconciler, sampler, sessions>>
    BY <1>17 DEF Connect
  <2>. QED BY <1>15, <2>3, <2>5, <2>6, <2>7, <2>8, <2>9, <2>10
<1>18. ASSUME NEW s \in Streams, Subscribe(s) PROVE TypeInv'
  <2>. DEFINE u == [socket[s] EXCEPT !.stage = "subscribed"]
              w == [u EXCEPT !.queue = <<>>]
  <2>1. u \in Socket
    BY <1>16 DEF Socket, Stages
  <2>7. <<>> \in Seq(Event) /\ Len(<<>>) = 0
    OBVIOUS
  <2>8. w \in Socket /\ w.queue = <<>>
    BY <2>1, <2>7 DEF Socket
  <2>2. w \in Socket /\ Len(w.queue) <= Capacity
    BY <1>0, <2>7, <2>8
  <2>3. socket' = [[socket EXCEPT ![s].stage = "subscribed"] EXCEPT ![s].queue = <<>>]
    BY <1>18 DEF Subscribe
  <2>4. socket' = [socket EXCEPT ![s] = w]
    BY <1>16, <2>3
  <2>. HIDE DEF u, w
  <2>5. view' = [view EXCEPT ![s] = view[s]]
    BY <1>16, <1>18 DEF Subscribe
  <2>6. clean' \in [Streams -> BOOLEAN] /\ view[s] \in View
    BY <1>16, <1>18 DEF Subscribe
  <2>9. UNCHANGED <<scenario, tracker, pending, registered, reconciler, sampler, sessions>>
    BY <1>18 DEF Subscribe
  <2>. QED BY <1>15, <2>2, <2>4, <2>5, <2>6, <2>9
<1>19. ASSUME NEW s \in Streams, Snapshot(s) PROVE TypeInv'
  <2>. DEFINE w == [socket[s] EXCEPT !.stage = "greeting"]
              v == [rows |-> Rows, count |-> Active]
  <2>2. w \in Socket /\ w.queue = socket[s].queue /\ v \in View
    BY <1>16, RowsTyped, Counted DEF Socket, Stages, View
  <2>3. socket' = [socket EXCEPT ![s] = w] /\ view' = [view EXCEPT ![s] = v]
    BY <1>16, <1>19 DEF Snapshot, Socket
  <2>. HIDE DEF w, v
  <2>4. Len(w.queue) <= Capacity /\ clean' \in [Streams -> BOOLEAN]
    BY <1>16, <1>19, <2>2 DEF Snapshot
  <2>5. UNCHANGED <<scenario, tracker, pending, registered, reconciler, sampler, sessions>>
    BY <1>19 DEF Snapshot
  <2>. QED BY <1>15, <2>2, <2>3, <2>4, <2>5
<1>20. ASSUME NEW s \in Streams, Greet(s) PROVE TypeInv'
  <2>. DEFINE w == [socket[s] EXCEPT !.stage = "streaming"]
  <2>2. w \in Socket /\ w.queue = socket[s].queue
    BY <1>16 DEF Socket, Stages
  <2>3. socket' = [socket EXCEPT ![s] = w]
    BY <1>16, <1>20 DEF Greet, Socket
  <2>. HIDE DEF w
  <2>4. Len(w.queue) <= Capacity /\ clean' \in [Streams -> BOOLEAN] /\ view[s] \in View
    BY <1>16, <1>20, <2>2 DEF Greet
  <2>5. view' = [view EXCEPT ![s] = view[s]]
    BY <1>16, <1>20 DEF Greet
  <2>6. UNCHANGED <<scenario, tracker, pending, registered, reconciler, sampler, sessions>>
    BY <1>20 DEF Greet
  <2>. QED BY <1>15, <2>2, <2>3, <2>4, <2>5, <2>6
<1>21. ASSUME NEW s \in Streams, Deliver(s) PROVE TypeInv'
  <2>. DEFINE q == socket[s].queue
              w == [socket[s] EXCEPT !.queue = Tail(q)]
              v == Applied(view[s], Head(q))
  <2>1. q # <<>> /\ q \in Seq(Event)
    BY <1>16, <1>21 DEF Deliver
  <2>2. Head(q) \in Event /\ Tail(q) \in Seq(Event) /\ Len(Tail(q)) <= Capacity
    BY <1>0, <1>16, <2>1
  <2>3. w \in Socket /\ Len(w.queue) <= Capacity
    BY <1>16, <2>2 DEF Socket
  <2>4. v \in View
    BY <1>16, <2>2, AppliedRows
  <2>5. socket' = [socket EXCEPT ![s] = w] /\ view' = [view EXCEPT ![s] = v]
    BY <1>16, <1>21 DEF Deliver, Socket
  <2>. HIDE DEF w, v
  <2>6. clean' \in [Streams -> BOOLEAN]
    BY <1>16, <1>21 DEF Deliver
  <2>7. UNCHANGED <<scenario, tracker, pending, registered, reconciler, sampler, sessions>>
    BY <1>21 DEF Deliver
  <2>. QED BY <1>15, <2>3, <2>4, <2>5, <2>6, <2>7
<1>22. ASSUME NEW s \in Streams, End(s) PROVE TypeInv'
  <2>1. NoSocket \in Socket /\ Len(NoSocket.queue) <= Capacity /\ NoView \in View
    BY <1>0 DEF NoSocket, NoView, Socket, Stages, View
  <2>2. clean' \in [Streams -> BOOLEAN]
    BY <1>16, <1>22 DEF End
  <2>. QED BY <1>15, <1>22, <2>1, <2>2 DEF End
<1>23. ASSUME UNCHANGED vars PROVE TypeInv'
  BY <1>23 DEF vars, TypeInv, Capacity
<1>24. ASSUME ConnNext PROVE TypeInv'
  BY <1>3, <1>4, <1>5, <1>7, <1>24 DEF ConnNext
<1>25. ASSUME HubNext PROVE TypeInv'
  BY <1>8, <1>9, <1>10, <1>11, <1>12, <1>13, <1>25 DEF HubNext
<1>26. ASSUME SocketNext PROVE TypeInv'
  BY <1>17, <1>18, <1>19, <1>20, <1>21, <1>22, <1>26
  DEF SocketNext, SocketStep, CheckSession, Disconnect
<1>. QED BY <1>14, <1>23, <1>24, <1>25, <1>26 DEF Next

-----------------------------------------------------------------------------
(* The unpublished events and the list on its way. *)

LEMMA TopicKept == TypeInv /\ [Next]_vars => topic' = topic /\ Capacity' = Capacity
<1>. SUFFICES ASSUME TypeInv, [Next]_vars PROVE topic' = topic /\ Capacity' = Capacity
  OBVIOUS
<1>1. CASE Reload
  BY <1>1 DEF Reload, TypeInv, topic, Capacity
<1>2. CASE ~Reload
  <2>1. UNCHANGED scenario
    BY <1>2 DEF Next, ConnNext, HubNext, SessionNext, SocketNext, SocketStep, Put, SetSni, Remove, Publish,
       ReconcilerTakes, ReconcilerSends, SamplerTakes, SamplerSends, Register, Login, LogoutAll, SessionEnds,
       Connect, Subscribe, Snapshot, Greet, Deliver, CheckSession, Disconnect, End, vars
  <2>. QED BY <2>1 DEF topic, Capacity
<1>. QED BY <1>1, <1>2

\* Of the steps, those of connections and the reload touch the tracker.
LEMMA Untouched ==
    ASSUME [Next]_vars
    PROVE  \/ Reload
           \/ \E c \in Conns : Put(c) \/ SetSni(c) \/ Remove(c) \/ Publish(c)
           \/ /\ UNCHANGED <<tracker, pending>>
              /\ \/ ReconcilerTakes
                 \/ ReconcilerSends
                 \/ UNCHANGED reconciler
BY DEF Next, ConnNext, HubNext, SessionNext, SocketNext, SocketStep, Put, SetSni, Remove, Publish,
   ReconcilerTakes, ReconcilerSends, SamplerTakes, SamplerSends, Register, Login, LogoutAll, SessionEnds,
   Connect, Subscribe, Snapshot, Greet, Deliver, CheckSession, Disconnect, End, vars

LEMMA PendingStep == TypeInv /\ PendingInv /\ [Next]_vars => PendingInv'
<1>. SUFFICES ASSUME TypeInv, PendingInv, [Next]_vars, NEW c \in Conns
              PROVE  /\ tracker'[c] = "new" => pending'[c] = Nothing
                     /\ pending'[c].type = "open" => tracker'[c] \in {"plain", "lost"}
                     /\ pending'[c].type = "host" => tracker'[c] \in {"named", "lost"} /\ topic' = "live"
                     /\ pending'[c].type = "closed" => tracker'[c] = "closed"
  BY DEF PendingInv
<1>0. /\ tracker[c] = "new" => pending[c] = Nothing
      /\ pending[c].type = "open" => tracker[c] \in {"plain", "lost"}
      /\ pending[c].type = "host" => tracker[c] \in {"named", "lost"} /\ topic = "live"
      /\ pending[c].type = "closed" => tracker[c] = "closed"
      /\ topic' = topic /\ DOMAIN tracker = Conns /\ DOMAIN pending = Conns
  BY TopicKept DEF PendingInv, TypeInv
<1>1. CASE Reload
  <2>1. pending'[c] = pending[c]
        /\ tracker'[c] = IF tracker[c] \in {"new", "closed"} THEN tracker[c] ELSE "lost"
    BY <1>1 DEF Reload
  <2>. QED BY <1>0, <2>1
<1>2. ASSUME NEW d \in Conns, Put(d) \/ SetSni(d) \/ Remove(d) \/ Publish(d), c # d
      PROVE  tracker'[c] = tracker[c] /\ pending'[c] = pending[c]
  BY <1>0, <1>2 DEF Put, SetSni, Remove, Publish
<1>3. CASE Put(c)
  <2>1. tracker'[c] = "plain" /\ pending'[c] = Open(c, ActiveWith)
    BY <1>0, <1>3 DEF Put
  <2>. QED BY <2>1, Events, Counted
<1>4. CASE SetSni(c)
  <2>1. tracker'[c] = "named" /\ pending'[c] = IF topic = "live" THEN Host(c) ELSE Nothing
    BY <1>0, <1>4 DEF SetSni
  <2>2. Host(c).type = "host" /\ Nothing.type = "nothing"
    BY Events
  <2>. QED BY <1>0, <2>1, <2>2
<1>5. CASE Remove(c)
  <2>1. tracker'[c] = "closed" /\ pending'[c] = Closed(c, ActiveWithout)
    BY <1>0, <1>5 DEF Remove
  <2>. QED BY <2>1, Events, Counted
<1>6. CASE Publish(c)
  <2>1. pending'[c] = Nothing
    BY <1>0, <1>6 DEF Publish
  <2>. QED BY <2>1, Events
<1>. QED BY <1>0, <1>1, <1>2, <1>3, <1>4, <1>5, <1>6, Untouched

LEMMA ListStep == TypeInv /\ ListInv /\ [Next]_vars => ListInv'
<1>. SUFFICES ASSUME TypeInv, ListInv, [Next]_vars PROVE ListInv'
  OBVIOUS
<1>0. Outdated.fresh = FALSE /\ NoList.taken = FALSE
  BY DEF TypeInv, Outdated, NoList
<1>1. CASE Reload
  BY <1>0, <1>1 DEF Reload, ListInv
<1>2. ASSUME NEW c \in Conns, Put(c) \/ SetSni(c) \/ Remove(c)
      PROVE  ListInv'
  BY <1>0, <1>2 DEF Put, SetSni, Remove, ListInv
<1>3. ASSUME UNCHANGED tracker
      PROVE  Rows' = Rows
  BY <1>3 DEF Rows, Tracked
<1>4. ASSUME NEW c \in Conns, Publish(c)
      PROVE  ListInv'
  BY <1>3, <1>4 DEF Publish, ListInv
<1>5. CASE ReconcilerTakes
  BY <1>3, <1>5 DEF ReconcilerTakes, ListInv
<1>6. CASE ReconcilerSends
  BY <1>0, <1>6 DEF ReconcilerSends, ListInv
<1>7. CASE UNCHANGED <<tracker, reconciler>>
  BY <1>3, <1>7 DEF ListInv
<1>. QED BY <1>1, <1>2, <1>4, <1>5, <1>6, <1>7, Untouched

-----------------------------------------------------------------------------
(* Which rows fit, and which last. *)

LEMMA FitsKept ==
    ASSUME NEW c \in Conns, topic' = topic, tracker'[c] = tracker[c], pending'[c] = pending[c]
    PROVE  Fitting(c)' = Fitting(c) /\ Lasting(c)' = Lasting(c)
<1>1. Rows'[c] = Rows[c] /\ (Tracked(c)' <=> Tracked(c))
  BY DEF Rows, Tracked
<1>2. \A row \in RowStates : Fits(c, row)' <=> Fits(c, row)
  BY <1>1 DEF Fits
<1>3. Fitting(c)' = Fitting(c)
  BY <1>2 DEF Fitting
<1>4. Lasting(c)' = Lasting(c)
  BY DEF Lasting
<1>. QED BY <1>3, <1>4

\* A change of the tracker: what fitted fits still.
LEMMA FitsChanged ==
    ASSUME TypeInv, PendingInv, [Next]_vars, NEW d \in Conns, Put(d) \/ SetSni(d) \/ Remove(d), NEW c \in Conns
    PROVE  Fitting(c) \subseteq Fitting(c)' /\ Lasting(c)' \subseteq Lasting(c)
<1>0. topic' = topic /\ DOMAIN tracker = Conns /\ DOMAIN pending = Conns /\ topic \in {"live", "global"}
  BY TopicKept DEF TypeInv, topic
<1>1. CASE c # d
  <2>1. tracker'[c] = tracker[c] /\ pending'[c] = pending[c]
    BY <1>0, <1>1 DEF Put, SetSni, Remove
  <2>. QED BY <1>0, <2>1, FitsKept
<1>2. Rows[c] = (IF Tracked(c) THEN tracker[c] ELSE "absent") /\ Rows'[c] = (IF Tracked(c)' THEN tracker'[c] ELSE "absent")
  BY DEF Rows
<1>3. CASE Put(c)
  <2>1. /\ tracker[c] = "new" /\ tracker'[c] = "plain" /\ pending'[c] = Open(c, ActiveWith)
        /\ pending[c] = Nothing
    BY <1>0, <1>3 DEF Put, PendingInv
  <2>2. pending'[c].type = "open" /\ pending'[c] # Nothing
    <3>1. Open(c, ActiveWith).type = "open" /\ Nothing.type = "nothing"
      BY Events, Counted
    <3>. QED BY <2>1, <3>1
  <2>3. \A row \in RowStates : Fits(c, row) => Fits(c, row)'
    BY <1>0, <1>2, <2>1, <2>2 DEF Fits, Tracked
  <2>. QED BY <2>1, <2>2, <2>3 DEF Fitting, Lasting
<1>4. CASE SetSni(c)
  <2>1. /\ tracker[c] = "plain" /\ pending[c] = Nothing
        /\ tracker'[c] = "named" /\ pending'[c] = IF topic = "live" THEN Host(c) ELSE Nothing
    BY <1>0, <1>4 DEF SetSni
  <2>2. /\ pending[c].type = "nothing" /\ Host(c) # Nothing /\ Host(c).type = "host"
    BY <2>1, Events
  <2>3. \A row \in RowStates : Fits(c, row) => Fits(c, row)'
    BY <1>0, <1>2, <2>1, <2>2 DEF Fits, Tracked, RowStates
  <2>. QED BY <2>1, <2>2, <2>3 DEF Fitting, Lasting
<1>5. CASE Remove(c)
  <2>1. /\ tracker'[c] = "closed" /\ pending'[c] = Closed(c, ActiveWithout)
    BY <1>0, <1>5 DEF Remove
  <2>2. pending'[c].type = "closed" /\ pending'[c] # Nothing
    <3>1. Closed(c, ActiveWithout).type = "closed" /\ Nothing.type = "nothing"
      BY Events, Counted
    <3>. QED BY <2>1, <3>1
  <2>3. \A row \in RowStates : Fits(c, row)'
    BY <2>1, <2>2 DEF Fits
  <2>. QED BY <2>1, <2>2, <2>3 DEF Fitting, Lasting
<1>. QED BY <1>1, <1>3, <1>4, <1>5

\* An event is published: it makes a row that fits of one that fitted, and of any
\* row the lasting one it did not have to be before.
LEMMA FitsPublished ==
    ASSUME TypeInv, PendingInv, [Next]_vars, NEW d \in Conns, Publish(d), tracker[d] # "lost", NEW c \in Conns,
           NEW r \in RowStates, NEW x \in RowStates
    PROVE  /\ r \in Fitting(c) => RowAfter(c, r, pending[d]) \in Fitting(c)'
           /\ x \in Lasting(c)' /\ (x \in Lasting(c) => r = x) => RowAfter(c, r, pending[d]) = x
<1>. DEFINE e == pending[d]
<1>0. /\ topic' = topic /\ DOMAIN tracker = Conns /\ DOMAIN pending = Conns /\ topic \in {"live", "global"}
      /\ tracker'[c] = tracker[c]
  BY TopicKept DEF TypeInv, topic, Publish
<1>1. e \in Event /\ e.conn = d /\ e.type \in {"open", "host", "closed"} /\ e # Nothing
  BY Unsent DEF Publish, TypeInv
<1>2. CASE c # d
  <2>1. pending'[c] = pending[c]
    BY <1>0, <1>2 DEF Publish
  <2>2. RowAfter(c, r, e) = r
    BY <1>1, <1>2 DEF RowAfter
  <2>3. Fitting(c)' = Fitting(c) /\ Lasting(c)' = Lasting(c)
    BY <1>0, <2>1, FitsKept
  <2>. QED BY <2>2, <2>3
<1>3. CASE c = d
  <2>1. pending'[c] = Nothing /\ Nothing.type = "nothing"
    BY <1>0, <1>3, Events DEF Publish
  <2>2. Rows'[c] = IF Tracked(c)' THEN tracker'[c] ELSE "absent"
    BY DEF Rows
  <2>4. r \in Fitting(c) <=> Fits(c, r)
    BY DEF Fitting
  <2>5. \A y \in RowStates : Fits(c, y)' => y \in Fitting(c)'
    BY DEF Fitting
  <2>6. CASE e.type = "open"
    <3>1. tracker[c] = "plain"
      BY <1>3, <2>6 DEF PendingInv
    <3>2. RowAfter(c, r, e) = IF r = "absent" THEN "plain" ELSE r
      BY <1>1, <1>3, <2>6 DEF RowAfter
    <3>3. Fits(c, r) => r \in {"absent", "plain"}
      BY <1>3, <2>6, <3>1 DEF Fits
    <3>4. Fits(c, "plain")'
      BY <1>0, <2>1, <2>2, <3>1 DEF Fits, Tracked
    <3>5. Lasting(c) = RowStates /\ Lasting(c)' = {"plain", "named"}
      BY <1>0, <1>3, <2>1, <2>6, <3>1 DEF Lasting
    <3>. QED BY <2>4, <2>5, <3>2, <3>3, <3>4, <3>5 DEF RowStates
  <2>7. CASE e.type = "host"
    <3>1. tracker[c] = "named" /\ topic = "live"
      BY <1>3, <2>7 DEF PendingInv
    <3>2. RowAfter(c, r, e) = IF r = "absent" THEN r ELSE "named"
      BY <1>1, <1>3, <2>7 DEF RowAfter
    <3>3. Fits(c, r) => r \in {"plain", "named"}
      BY <1>3, <2>7, <3>1 DEF Fits
    <3>4. Fits(c, "named")'
      BY <1>0, <2>1, <2>2, <3>1 DEF Fits, Tracked
    <3>5. Lasting(c) = {"plain", "named"} /\ Lasting(c)' = {"named"}
      BY <1>0, <1>3, <2>1, <2>7, <3>1 DEF Lasting
    <3>. QED BY <2>4, <2>5, <3>2, <3>3, <3>4, <3>5 DEF RowStates
  <2>8. CASE e.type = "closed"
    <3>1. tracker[c] = "closed"
      BY <1>3, <2>8 DEF PendingInv
    <3>2. RowAfter(c, r, e) = "absent"
      BY <1>1, <1>3, <2>8 DEF RowAfter
    <3>4. Fits(c, "absent")'
      BY <1>0, <2>1, <2>2, <3>1 DEF Fits, Tracked
    <3>5. Lasting(c)' = {"absent"}
      BY <1>0, <2>1, <3>1 DEF Lasting
    <3>. QED BY <2>4, <2>5, <3>2, <3>4, <3>5 DEF RowStates
  <2>. QED BY <1>1, <2>6, <2>7, <2>8
<1>. QED BY <1>2, <1>3

\* The rows of the tracker fit.
LEMMA RowsFit ==
    ASSUME TypeInv, PendingInv, NEW c \in Conns
    PROVE  /\ Rows[c] \in Fitting(c)
           /\ \A r \in RowStates : (Rows[c] \in Lasting(c) => r = Rows[c]) => r \in Fitting(c)
<1>1. /\ Rows[c] \in RowStates /\ Rows[c] = IF Tracked(c) THEN tracker[c] ELSE "absent"
      /\ tracker[c] \in {"new", "plain", "named", "closed", "lost"}
      /\ Nothing.type = "nothing"
  <2>1. Rows \in Tables /\ Rows[c] = IF Tracked(c) THEN tracker[c] ELSE "absent"
    BY RowsTyped
  <2>2. tracker[c] \in {"new", "plain", "named", "closed", "lost"}
    BY DEF TypeInv
  <2>3. Rows[c] \in RowStates
    BY <2>1 DEF Tables
  <2>4. Nothing.type = "nothing"
    BY Events
  <2>. QED BY <2>1, <2>2, <2>3, <2>4
<1>2. Fits(c, Rows[c])
  BY <1>1 DEF Fits, Tracked
<1>3. Rows[c] \in Fitting(c)
  BY <1>1, <1>2 DEF Fitting
<1>4. CASE Rows[c] \in Lasting(c)
  BY <1>3, <1>4
<1>5. CASE Rows[c] \notin Lasting(c)
  <2>1. tracker[c] \in {"closed", "lost"} /\ pending[c] # Nothing
    BY <1>1, <1>5 DEF Lasting, Tracked, RowStates
  <2>2. \A r \in RowStates : Fits(c, r)
    BY <2>1 DEF Fits
  <2>. QED BY <1>3, <2>2 DEF Fitting
<1>. QED BY <1>3, <1>4, <1>5

-----------------------------------------------------------------------------
(* The views. *)

LEMMA RightPrime ==
    ASSUME NEW s \in Streams, NEW c \in Conns,
           RightTo(socket'[s].stage, socket'[s].queue, c, view'[s].rows[c], Fitting(c)', Lasting(c)')
    PROVE  Right(s, c)'
BY DEF Right

LEMMA StreamTyped ==
    ASSUME TypeInv, NEW s \in Streams, NEW c \in Conns
    PROVE  /\ socket[s] \in Socket /\ socket[s].queue \in Seq(Event) /\ Len(socket[s].queue) <= Capacity
           /\ socket[s].stage \in Stages /\ view[s] \in View /\ view[s].rows[c] \in RowStates
<1>1. socket[s] \in Socket /\ Len(socket[s].queue) <= Capacity /\ view[s] \in View
  BY DEF TypeInv, Sockets
<1>2. socket[s].queue \in Seq(Event) /\ socket[s].stage \in Stages
  BY <1>1 DEF Socket
<1>3. view[s].rows \in Tables
  BY <1>1 DEF View
<1>. QED BY <1>1, <1>2, <1>3 DEF Tables

\* A step that sends an event to the topic.
LEMMA RightSent ==
    ASSUME TypeInv, NEW s \in Streams, NEW c \in Conns, NEW e \in Event, socket' = Sent(e), view' = view,
           Subscribed(s), ~Full(s), Right(s, c),
           \A r \in RowStates, x \in RowStates :
              /\ r \in Fitting(c) => RowAfter(c, r, e) \in Fitting(c)'
              /\ x \in Lasting(c)' /\ (x \in Lasting(c) => r = x) => RowAfter(c, r, e) = x
    PROVE  Right(s, c)'
<1>. DEFINE q == socket[s].queue
            p == socket'[s].queue
<1>1. q \in Seq(Event) /\ Len(q) <= Capacity /\ view[s].rows[c] \in RowStates
  BY StreamTyped
<1>2. socket'[s].stage = socket[s].stage /\ p = Enqueue(q, e)
  BY SentSockets
<1>3. p = Append(q, e)
  BY <1>1, <1>2, Enqueued DEF Full
<1>4. \A r \in RowStates : r \in Fitting(c) => RowAfter(c, r, e) \in Fitting(c)'
  BY DEF RowStates
<1>5. \A r \in RowStates, x \in RowStates :
              x \in Lasting(c)' /\ (x \in Lasting(c) => r = x) => RowAfter(c, r, e) = x
  OBVIOUS
<1>6. RightTo(socket[s].stage, Append(q, e), c, view[s].rows[c], Fitting(c)', Lasting(c)')
  BY <1>1, <1>4, <1>5, RightAppended DEF Right
<1>. QED BY <1>2, <1>3, <1>6, RightPrime

LEMMA ViewStep == Inv /\ TypeInv' /\ [Next]_vars => ViewInv'
<1>. SUFFICES ASSUME TypeInv, PendingInv, ListInv, ViewInv, TypeInv', [Next]_vars,
                     NEW s \in Streams, clean'[s], NEW c \in Conns
              PROVE  Right(s, c)'
  BY DEF Inv, ViewInv
<1>1. /\ socket[s] \in Socket /\ socket[s].queue \in Seq(Event) /\ Len(socket[s].queue) <= Capacity
      /\ socket[s].stage \in Stages /\ view[s] \in View /\ view[s].rows[c] \in RowStates
      /\ socket \in [Streams -> Socket] /\ view \in [Streams -> View]
      /\ topic' = topic
  BY StreamTyped, TopicKept DEF TypeInv, Sockets
<1>2. clean[s] => Right(s, c)
  BY DEF ViewInv
<1>3. ASSUME UNCHANGED <<tracker, pending>>
      PROVE  Fitting(c)' = Fitting(c) /\ Lasting(c)' = Lasting(c)
  BY <1>1, <1>3, FitsKept
<1>4. ASSUME UNCHANGED <<tracker, pending>>, clean[s], view'[s] = view[s], socket'[s] = socket[s]
      PROVE  Right(s, c)'
  BY <1>2, <1>3, <1>4, RightPrime DEF Right
<1>5. ASSUME NEW d \in Conns, Put(d) \/ SetSni(d) \/ Remove(d)
      PROVE  Right(s, c)'
  <2>1. clean[s] /\ socket' = socket /\ view' = view
    BY <1>5 DEF Put, SetSni, Remove
  <2>2. Fitting(c) \subseteq Fitting(c)' /\ Lasting(c)' \subseteq Lasting(c)
    BY <1>5, FitsChanged
  <2>3. RightTo(socket[s].stage, socket[s].queue, c, view[s].rows[c], Fitting(c)', Lasting(c)')
    BY <1>1, <1>2, <2>1, <2>2, RightKept DEF Right
  <2>. QED BY <2>1, <2>3, RightPrime
<1>6. ASSUME NEW streams, clean' = Only(streams)
      PROVE  Subscribed(s) /\ s \in streams
  BY <1>6 DEF Only
<1>7. ASSUME NEW d \in Conns, Publish(d)
      PROVE  Right(s, c)'
  <2>1. tracker[d] # "lost" /\ clean' = Only(Unlagged)
    <3>1. clean' = IF tracker[d] = "lost" THEN Only({}) ELSE Only(Unlagged)
      BY <1>7 DEF Publish
    <3>2. clean' # Only({})
      BY <1>6
    <3>. QED BY <3>1, <3>2
  <2>2. Subscribed(s) /\ clean[s] /\ ~Full(s)
    BY <1>6, <2>1 DEF Unlagged
  <2>3. pending[d] \in Event /\ socket' = Sent(pending[d]) /\ view' = view
    BY <1>7, Unsent DEF Publish, TypeInv
  <2>4. PICK e \in Event : e = pending[d]
    BY <2>3
  <2>5. \A r \in RowStates, x \in RowStates :
              /\ r \in Fitting(c) => RowAfter(c, r, e) \in Fitting(c)'
              /\ x \in Lasting(c)' /\ (x \in Lasting(c) => r = x) => RowAfter(c, r, e) = x
    BY <1>7, <2>1, <2>4, FitsPublished
  <2>. QED BY <1>2, <2>2, <2>3, <2>4, <2>5, RightSent
<1>8. ASSUME ReconcilerSends
      PROVE  Right(s, c)'
  <2>0. view' = view /\ UNCHANGED <<tracker, pending>>
    BY <1>8 DEF ReconcilerSends
  <2>1. CASE topic = "live" /\ ~registered
    BY <1>4, <1>8, <2>0, <2>1 DEF ReconcilerSends
  <2>2. CASE ~(topic = "live" /\ ~registered)
    <3>1. reconciler.taken /\ reconciler.fresh /\ Subscribed(s) /\ socket' = Sent(List(reconciler.rows))
      BY <1>6, <1>8, <2>2 DEF ReconcilerSends
    <3>2. reconciler.rows = Rows
      BY <3>1 DEF ListInv
    <3>3. PICK e \in Event : e = List(reconciler.rows) /\ e.type = "list" /\ e.rows = Rows
      <4>1. Rows \in Tables
        BY RowsTyped
      <4>2. List(Rows) \in Event /\ List(Rows).type = "list" /\ List(Rows).rows = Rows
        BY <4>1, Events
      <4>. QED BY <3>2, <4>2
    <3>4. PICK p \in Seq(Event) : p = socket'[s].queue /\ p # <<>> /\ p[Len(p)] = e
      <4>1. socket'[s].queue = Enqueue(socket[s].queue, e)
        BY <3>1, <3>3, SentSockets
      <4>2. PICK p \in Seq(Event) : p = Enqueue(socket[s].queue, e)
        BY <1>1, Enqueued
      <4>3. p # <<>> /\ p[Len(p)] = e
        BY <1>1, <4>2, Enqueued
      <4>. QED BY <4>1, <4>2, <4>3
    <3>5. p[Len(p)].rows[c] \in Fitting(c)
      BY <3>3, <3>4, RowsFit
    <3>6. RightTo(socket'[s].stage, p, c, view[s].rows[c], Fitting(c), Lasting(c))
      BY <1>1, <3>3, <3>4, <3>5, RightListed
    <3>. QED BY <1>3, <2>0, <3>4, <3>6, RightPrime
  <2>. QED BY <2>1, <2>2
<1>9. ASSUME SamplerTakes
      PROVE  Right(s, c)'
  <2>0. view' = view /\ UNCHANGED <<tracker, pending>>
    BY <1>9 DEF SamplerTakes
  <2>1. CASE topic # "live"
    BY <1>4, <1>9, <2>0, <2>1 DEF SamplerTakes
  <2>2. CASE topic = "live"
    <3>. DEFINE q == socket[s].queue
    <3>1. PICK n \in Nat : n = TrackedCount
      BY Counted
    <3>2. /\ socket'[s] = (IF Subscribed(s) THEN [socket[s] EXCEPT !.queue = Burst(q, n)] ELSE socket[s])
          /\ clean' = Only({t \in Streams : clean[t] /\ Len(socket[t].queue) + n <= Capacity})
      BY <1>9, <2>2, <3>1 DEF SamplerTakes, TrackedCount
    <3>3. Subscribed(s) /\ clean[s] /\ Len(q) + n <= Capacity
      BY <1>6, <3>2
    <3>4. socket'[s].stage = socket[s].stage /\ socket'[s].queue = Burst(q, n)
      BY <1>1, <3>2, <3>3 DEF Socket
    <3>5. PICK p \in Seq(Event) : p = Burst(q, n) /\ Continued(q, p, c)
      BY <1>1, <3>3, Bursts
    <3>6. RightTo(socket[s].stage, p, c, view[s].rows[c], Fitting(c), Lasting(c))
      BY <1>1, <1>2, <3>3, <3>5, RightInert DEF Right
    <3>. QED BY <1>3, <2>0, <3>4, <3>5, <3>6, RightPrime
  <2>. QED BY <2>1, <2>2
<1>10. ASSUME SamplerSends
       PROVE  Right(s, c)'
  <2>0. view' = view /\ UNCHANGED <<tracker, pending>>
    BY <1>10 DEF SamplerSends
  <2>1. CASE Sampled = <<>>
    BY <1>4, <1>10, <2>0, <2>1 DEF SamplerSends
  <2>2. CASE Sampled # <<>>
    <3>1. Head(Sampled) \in Event /\ Head(Sampled).type \in {"count", "transfer"}
      <4>1. Count(sampler.now) \in Event /\ Transfer \in Event
            /\ Count(sampler.now).type = "count" /\ Transfer.type = "transfer"
        <5>1. sampler.now \in Int
          BY DEF TypeInv
        <5>. QED BY <5>1, Events
      <4>2. Head(<<Count(sampler.now)>>) = Count(sampler.now) /\ Head(<<Transfer>>) = Transfer
        OBVIOUS
      <4>. QED BY <2>2, <4>1, <4>2 DEF Sampled
    <3>2. PICK e \in Event : e = Head(Sampled) /\ e.type \in {"count", "transfer"}
      BY <3>1
    <3>3. socket' = Sent(e) /\ clean' = Only(Unlagged)
      BY <1>10, <2>2, <3>2 DEF SamplerSends
    <3>4. Subscribed(s) /\ clean[s] /\ ~Full(s)
      BY <1>6, <3>3 DEF Unlagged
    <3>5. \A r \in RowStates : RowAfter(c, r, e) = r
      BY <3>2 DEF RowAfter
    <3>6. \A r \in RowStates, x \in RowStates :
              /\ r \in Fitting(c) => RowAfter(c, r, e) \in Fitting(c)'
              /\ x \in Lasting(c)' /\ (x \in Lasting(c) => r = x) => RowAfter(c, r, e) = x
      BY <1>3, <2>0, <3>5
    <3>. QED BY <1>2, <2>0, <3>3, <3>4, <3>6, RightSent
  <2>. QED BY <2>1, <2>2
<1>11. ASSUME Reload
       PROVE  FALSE
  BY <1>6, <1>11 DEF Reload
<1>12. ASSUME ReconcilerTakes \/ Register \/ SessionNext \/ UNCHANGED vars
       PROVE  Right(s, c)'
  BY <1>4, <1>12 DEF ReconcilerTakes, Register, SessionNext, Login, LogoutAll, SessionEnds, vars
<1>13. ASSUME NEW t \in Streams, t # s,
              SocketStep(t) \/ Deliver(t) \/ End(t) \/ \E k \in DOMAIN sessions : Connect(t, k)
       PROVE  Right(s, c)'
  <2>0. DOMAIN socket = Streams /\ DOMAIN view = Streams /\ DOMAIN clean = Streams
    BY DEF TypeInv, Sockets
  <2>1. ASSUME Subscribe(t) \/ Snapshot(t) \/ Greet(t)
        PROVE  /\ UNCHANGED <<tracker, pending>> /\ socket'[s] = socket[s] /\ view'[s] = view[s]
               /\ clean'[s] = clean[s]
    BY <1>13, <2>0, <2>1 DEF Subscribe, Snapshot, Greet
  <2>2. ASSUME Deliver(t) \/ End(t) \/ \E k \in DOMAIN sessions : Connect(t, k)
        PROVE  /\ UNCHANGED <<tracker, pending>> /\ socket'[s] = socket[s] /\ view'[s] = view[s]
               /\ clean'[s] = clean[s]
    BY <1>13, <2>0, <2>2 DEF Deliver, End, Connect
  <2>. QED BY <1>4, <1>13, <2>1, <2>2 DEF SocketStep
<1>14. ASSUME NEW k \in DOMAIN sessions, Connect(s, k)
       PROVE  Right(s, c)'
  <2>1. socket'[s].stage = "connected"
    BY <1>1, <1>14 DEF Connect, Socket
  <2>2. RightTo(socket'[s].stage, socket'[s].queue, c, view'[s].rows[c], Fitting(c)', Lasting(c)')
    BY <2>1 DEF RightTo
  <2>. QED BY <2>2, RightPrime
<1>15. ASSUME Subscribe(s)
       PROVE  Right(s, c)'
  <2>1. socket'[s].stage = "subscribed" /\ socket'[s].queue = <<>>
    BY <1>1, <1>15 DEF Subscribe, Socket
  <2>2. RightTo("subscribed", <<>>, c, view'[s].rows[c], Fitting(c)', Lasting(c)')
    BY RightSubscribed
  <2>. QED BY <2>1, <2>2, RightPrime
<1>16. ASSUME Snapshot(s)
       PROVE  Right(s, c)'
  <2>1. /\ socket[s].stage = "subscribed" /\ socket'[s].stage = "greeting" /\ clean[s]
        /\ socket'[s].queue = socket[s].queue /\ view'[s].rows = Rows /\ UNCHANGED <<tracker, pending>>
    BY <1>1, <1>16 DEF Snapshot, Socket
  <2>2. PICK row \in RowStates : row = Rows[c]
    BY RowsTyped DEF Tables
  <2>5. \A r \in RowStates : (row \in Lasting(c) => r = row) => r \in Fitting(c)
    BY <2>2, RowsFit
  <2>3. RightTo("subscribed", socket[s].queue, c, view[s].rows[c], Fitting(c), Lasting(c))
    BY <1>2, <2>1 DEF Right
  <2>4. RightTo("greeting", socket[s].queue, c, row, Fitting(c), Lasting(c))
    BY <1>1, <2>3, <2>5, RightGreeted
  <2>. QED BY <1>3, <2>1, <2>2, <2>4, RightPrime
<1>17. ASSUME Greet(s)
       PROVE  Right(s, c)'
  <2>1. /\ socket[s].stage = "greeting" /\ socket'[s].stage = "streaming" /\ clean[s]
        /\ socket'[s].queue = socket[s].queue /\ view' = view /\ UNCHANGED <<tracker, pending>>
    BY <1>1, <1>17 DEF Greet, Socket
  <2>2. RightTo("greeting", socket[s].queue, c, view[s].rows[c], Fitting(c), Lasting(c))
    BY <1>2, <2>1 DEF Right
  <2>3. RightTo("streaming", socket[s].queue, c, view[s].rows[c], Fitting(c), Lasting(c))
    BY <2>2 DEF RightTo
  <2>. QED BY <1>3, <2>1, <2>3, RightPrime
<1>18. ASSUME Deliver(s)
       PROVE  Right(s, c)'
  <2>0. PICK q \in Seq(Event), v \in View : q = socket[s].queue /\ v = view[s] /\ v.rows[c] \in RowStates
    BY <1>1
  <2>1. /\ socket[s].stage = "streaming" /\ clean[s] /\ q # <<>> /\ UNCHANGED <<tracker, pending>>
        /\ socket'[s] = [socket[s] EXCEPT !.queue = Tail(q)] /\ view'[s] = Applied(v, Head(q))
    BY <1>1, <1>18, <2>0 DEF Deliver
  <2>2. PICK e \in Event : e = Head(q)
    BY <2>1
  <2>3. view'[s].rows[c] = RowAfter(c, v.rows[c], e)
    BY <2>1, <2>2, AppliedRows
  <2>4. RightTo("streaming", q, c, v.rows[c], Fitting(c), Lasting(c))
    BY <1>2, <2>0, <2>1 DEF Right
  <2>5. RightTo("streaming", Tail(q), c, RowAfter(c, v.rows[c], e), Fitting(c), Lasting(c))
    BY <2>0, <2>1, <2>2, <2>4, RightDelivered
  <2>6. socket'[s].stage = "streaming" /\ socket'[s].queue = Tail(q)
    BY <1>1, <2>1 DEF Socket
  <2>. QED BY <1>3, <2>1, <2>3, <2>5, <2>6, RightPrime
<1>19. ASSUME End(s)
       PROVE  FALSE
  BY <1>19 DEF End, TypeInv
<1>20. ASSUME ConnNext PROVE Right(s, c)'
  BY <1>5, <1>7, <1>20 DEF ConnNext
<1>21. ASSUME HubNext PROVE Right(s, c)'
  BY <1>8, <1>9, <1>10, <1>11, <1>12, <1>21 DEF HubNext
<1>22. ASSUME SocketNext PROVE Right(s, c)'
  <2>1. PICK t \in Streams :
              SocketStep(t) \/ Deliver(t) \/ End(t) \/ \E k \in DOMAIN sessions : Connect(t, k)
    BY <1>22 DEF SocketNext, CheckSession, Disconnect
  <2>. QED BY <1>13, <1>14, <1>15, <1>16, <1>17, <1>18, <1>19, <2>1 DEF SocketStep
<1>. QED BY <1>12, <1>20, <1>21, <1>22 DEF Next

-----------------------------------------------------------------------------
(* The theorem. *)

LEMMA InvInit == Init => Inv
<1>. SUFFICES ASSUME Init PROVE Inv
  OBVIOUS
<1>1. PendingInv
  BY Events DEF Init, PendingInv
<1>2. ListInv
  BY DEF Init, ListInv, NoList
<1>3. ViewInv
  BY DEF Init, ViewInv
<1>. QED BY <1>1, <1>2, <1>3, TypeInit DEF Inv

LEMMA InvStep == Inv /\ [Next]_vars => Inv'
BY TypeStep, PendingStep, ListStep, ViewStep DEF Inv

LEMMA InvExact == Inv => ViewExact
<1>. SUFFICES ASSUME Inv, NEW s \in Streams, clean[s], socket[s].stage = "streaming", socket[s].queue = <<>>,
                     \A d \in Conns : pending[d] = Nothing, NEW c \in Conns
              PROVE  /\ (view[s].rows[c] = "absent") = ~Tracked(c)
                     /\ topic = "live" => view[s].rows[c] = Rows[c]
  BY DEF ViewExact, Agrees
<1>1. RightTo("streaming", <<>>, c, view[s].rows[c], Fitting(c), Lasting(c))
  BY DEF Inv, ViewInv, Right
<1>2. Len(<<>>) = 0 /\ 1..0 = {}
  OBVIOUS
<1>3. ~FromList(<<>>, c, Fitting(c))
  BY <1>2 DEF FromList
<1>4. FromView(<<>>, c, view[s].rows[c], Fitting(c))
  BY <1>1, <1>3 DEF RightTo
<1>5. view[s].rows[c] \in Fitting(c)
  BY <1>2, <1>4 DEF FromView
<1>. QED BY <1>5 DEF Fitting, Fits

\* Of any number of connections and browsers, and at any capacity: a view that lost
\* nothing since its snapshot (stream_events) or since an up-to-date list of the
\* reconciler, and has read all it was sent, shows the rows of the tracker.
THEOREM ViewsAreExact == Spec => []ViewExact
<1>1. Inv /\ [Next]_vars => Inv'
  BY InvStep
<1>. QED BY <1>1, InvInit, InvExact, PTL DEF Spec
=============================================================================
