----------------------------- MODULE HttpHead -----------------------------
(***************************************************************************)
(* The head of an HTTP/1.x request (http_header.rs): finding its end in    *)
(* what was read so far, parsing it, how it delimits the body, and its     *)
(* rewriting for the upstream.  A header line is a record: its name, the   *)
(* tokens of its value (a content length is a number, -1 if unparsable)    *)
(* and whether it starts with white space, which makes it a continuation   *)
(* of the line before it, whatever it looks like.                          *)
(***************************************************************************)
EXTENDS Integers, FiniteSets, Sequences, SequencesExt, FiniteSetsExt

Line(name, tokens) == [name |-> name, tokens |-> tokens, size |-> 0, fold |-> FALSE]
ContentLength(n) == [Line("content-length", {}) EXCEPT !.size = n]
Folded(line) == [line EXCEPT !.fold = TRUE]

\* Length of the head in the bytes read so far, its blank line included; 0 as
\* long as there is none.
FindHeadEnd(buffered) ==
    LET at(i) == IF i \in DOMAIN buffered THEN buffered[i] ELSE "none"
        ends == {i + 1 : i \in {j \in DOMAIN buffered : at(j) = "LF" /\ at(j + 1) = "LF"}}
                \cup {i + 2 : i \in {j \in DOMAIN buffered :
                                        at(j) = "LF" /\ at(j + 1) = "CR" /\ at(j + 2) = "LF"}}
    IN  IF ends = {} THEN 0 ELSE Min(ends)

\* Headers of a name; continuation lines are none.
Headers(lines, name) == SelectSeq(lines, LAMBDA l : l.name = name /\ ~l.fold)

\* A continuation of one of these headers.
FoldedHeader(lines, names) ==
    \E i \in 2 .. Len(lines) : lines[i].fold /\ ~lines[i - 1].fold /\ lines[i - 1].name \in names

\* What parse_head accepts: one Host header, on one line.
\* (A line that is no header is named "malformed".)
ParseHead(lines) ==
    /\ Len(Headers(lines, "host")) = 1
    /\ ~FoldedHeader(lines, {"host"})
    /\ Headers(lines, "malformed") = <<>>

\* The last Authorization header wins.
Authorization(lines) ==
    LET all == Headers(lines, "authorization") IN IF all = <<>> THEN {} ELSE Last(all).tokens

LoopTokens(lines) == UNION {l.tokens : l \in ToSet(Headers(lines, "x-tlsproxy-rid"))}

\* header_value: the first line that looks like the header, continuations
\* included.
HeaderValue(lines, name) ==
    LET all == SelectSeq(lines, LAMBDA l : l.name = name) IN IF all = <<>> THEN {} ELSE all[1].tokens

UpgradeRequested(lines) ==
    /\ "upgrade" \in HeaderValue(lines, "connection")
    /\ \E l \in ToSet(lines) : l.name = "upgrade"

-----------------------------------------------------------------------------
(* How the body is delimited.                                              *)

Rejected == [kind |-> "rejected", size |-> 0]
Chunked == [kind |-> "chunked", size |-> 0]
Length(n) == [kind |-> "length", size |-> n]

\* Anything that is not delimited beyond doubt is rejected.
BodyFraming(lines) ==
    LET cl == Headers(lines, "content-length")
        te == Headers(lines, "transfer-encoding")
    IN  CASE \/ FoldedHeader(lines, {"content-length", "transfer-encoding"})
             \/ \E l \in ToSet(cl) : l.size < 0
             \/ Len(cl) > 1
             \/ Len(te) > 1
             \/ te # <<>> /\ cl # <<>>
             \/ te # <<>> /\ te[1].tokens # {"chunked"} -> Rejected
          [] te # <<>> /\ cl = <<>> /\ te[1].tokens = {"chunked"} -> Chunked
          [] OTHER -> Length(IF cl = <<>> THEN 0 ELSE cl[1].size)

-----------------------------------------------------------------------------
(* The head sent to the upstream.                                          *)

\* Headers that end at this hop: the usual ones and those the client's
\* Connection header names.
HopByHop(lines) ==
    {"keep-alive", "te", "trailer", "proxy-authorization", "proxy-connection"}
        \cup {t \in HeaderValue(lines, "connection") :
                t # "close" /\ ~(t = "upgrade" /\ UpgradeRequested(lines))}

Dropped(lines, line, newHost, strip) ==
    \/ line.name = "host" /\ newHost
    \/ line.name \in {"x-forwarded-for", "forwarded", "x-forwarded-host", "x-forwarded-proto", "connection"}
    \/ line.name = "authorization" /\ strip
    \/ line.name = "upgrade" /\ ~UpgradeRequested(lines)
    \/ line.name \in HopByHop(lines)

\* Mutant: the continuation of a dropped header stays.
KeptWithFolds(lines, newHost, strip) ==
    SelectSeq(lines, LAMBDA l : l.fold \/ ~Dropped(lines, l, newHost, strip))

\* The lines that are passed on: a continuation goes with its header.
Kept(lines, newHost, strip) ==
    LET owner(i) == Max({0} \cup {j \in 1 .. i : ~lines[j].fold})
        kept(i) == owner(i) = 0 \/ ~Dropped(lines, lines[owner(i)], newHost, strip)
        index == SelectSeq([i \in DOMAIN lines |-> i], kept)
    IN  [n \in DOMAIN index |-> lines[index[n]]]

\* The first X-Forwarded-For and Forwarded headers of several hops become one.
Merged(lines, name) ==
    Line(name, UNION {l.tokens : l \in ToSet(Headers(lines, name))} \cup {"client"})

RewriteForProxy(lines, newHost, strip, token) ==
    Kept(lines, newHost, strip) \o
    <<Merged(lines, "x-forwarded-for"), Line("x-forwarded-host", {"host"}),
      Line("x-forwarded-proto", {"scheme"}), Merged(lines, "forwarded"),
      Line("x-tlsproxy-rid", {token}),
      Line("connection", {IF UpgradeRequested(lines) THEN "upgrade" ELSE "close"})>> \o
    (IF newHost THEN <<Line("host", {"upstream"})>> ELSE <<>>)
=============================================================================
