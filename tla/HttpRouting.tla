---------------------------- MODULE HttpRouting ----------------------------
(***************************************************************************)
(* Host and path routing (runtime_config.rs, listener/default.rs): which   *)
(* route of a listener serves a host name, and which path route of it      *)
(* serves a request target.  Names, prefixes and targets are sequences of  *)
(* characters, compared the way the code compares their bytes; letter case *)
(* is left out.  A regular expression is the set of hosts it matches.      *)
(***************************************************************************)
EXTENDS Naturals, Sequences, SequencesExt, FiniteSetsExt

\* s without the leading, or trailing, run of the character c.
TrimStart(s, c) ==
    LET n == Max({0} \cup {i \in DOMAIN s : \A j \in 1 .. i : s[j] = c}) IN SubSeq(s, n + 1, Len(s))
TrimEnd(s, c) ==
    LET n == Min({Len(s) + 1} \cup {i \in DOMAIN s : \A j \in i .. Len(s) : s[j] = c})
    IN  SubSeq(s, 1, n - 1)

-----------------------------------------------------------------------------
(* Host routes.  A matcher is [exact, suffix, patterns]: two sets of names *)
(* and a set of hosts; a route is a matcher and an action.                 *)

\* The byte before the suffix is a dot, and no dot comes before it.
OneLabelDeeper(host, suffix) ==
    LET cut == Len(host) - Len(suffix) IN
    /\ Len(host) > Len(suffix)
    /\ host[cut] = "."
    /\ IsSuffix(suffix, host)
    /\ ~Contains(SubSeq(host, 1, cut - 1), ".")

\* Higher scores win: exact, then the longest suffix, then a pattern.
\* <<0, 0>> stands for no match.
MatchScore(matcher, hostname) ==
    LET host == TrimEnd(hostname, ".")
        suffixes == {TrimEnd(TrimStart(s, "."), ".") : s \in matcher.suffix}
        lengths == {Len(s) : s \in {t \in suffixes : host = t \/ OneLabelDeeper(host, t)}}
    IN  IF \E e \in matcher.exact : host = TrimEnd(e, ".") THEN <<3, Len(host)>>
        ELSE IF lengths # {} THEN <<2, Max(lengths)>>
        ELSE IF host \in matcher.patterns THEN <<1, 0>>
        ELSE <<0, 0>>

Beats(s, t) == s[1] > t[1] \/ (s[1] = t[1] /\ s[2] > t[2])

\* The loop over the routes; 0 when none matches.
BestHostRoute(routes, host) ==
    FoldLeftDomain(LAMBDA best, i :
                    LET score == MatchScore(routes[i].matcher, host)
                        sofar == IF best = 0 THEN <<0, 0>> ELSE MatchScore(routes[best].matcher, host)
                    IN  IF Beats(score, sofar) THEN i ELSE best,
                   0, routes)

\* The action for a host: its best route, or the default route if the policy
\* for unknown hosts lets it in.
SelectRoute(listener, host) ==
    LET best == BestHostRoute(listener.routes, host)
        matched == host \in listener.unknown.hosts
    IN  IF best # 0 THEN listener.routes[best].action
        ELSE IF (listener.unknown.policy = "allow") = matched THEN listener.default
        ELSE "denied"

-----------------------------------------------------------------------------
(* Path routes of a reverse-proxy action, in configuration order.          *)

PathOf(target) ==
    LET cut == Min({Len(target) + 1} \cup {i \in DOMAIN target : target[i] \in {"?", "#"}})
    IN  SubSeq(target, 1, cut - 1)

\* Mutant: a prefix matches in the middle of a segment.
PathPrefixMatchesAny(prefix, path) == IsPrefix(TrimEnd(prefix, "/"), path)

PathPrefixMatches(prefix, path) ==
    LET trimmed == TrimEnd(prefix, "/") IN
    \/ trimmed = <<>>
    \/ path = trimmed
    \/ IsStrictPrefix(trimmed, path) /\ path[Len(trimmed) + 1] = "/"

\* The matching path route with the longest prefix, the last of several
\* (max_by_key); 0 when none matches.
SelectPath(paths, target) ==
    LET matching == {i \in DOMAIN paths : PathPrefixMatches(paths[i].prefix, PathOf(target))}
        length(i) == Len(TrimEnd(paths[i].prefix, "/"))
    IN  Max({0} \cup {i \in matching : \A j \in matching : length(j) <= length(i)})

\* The target a path route with strip_prefix forwards.
StripPathPrefix(target, prefix) ==
    LET stripped == SubSeq(target, Len(TrimEnd(prefix, "/")) + 1, Len(target))
    IN  IF ~IsPrefix(TrimEnd(prefix, "/"), target) THEN target
        ELSE IF stripped = <<>> THEN <<"/">> ELSE stripped

-----------------------------------------------------------------------------
(* What a saved configuration may contain.                                 *)

\* Path prefixes are absolute, without a query, and differ.
ValidHttpAction(action) ==
    LET normalized(p) == IF p = <<"/">> THEN p ELSE TrimEnd(p, "/") IN
    \/ action.redirect
    \/ /\ \A i \in DOMAIN action.paths :
            LET prefix == action.paths[i].prefix IN prefix[1] = "/" /\ PathOf(prefix) = prefix
       /\ \A i, j \in DOMAIN action.paths :
            i # j => normalized(action.paths[i].prefix) # normalized(action.paths[j].prefix)

\* A redirect listener only redirects, no other listener does.
ValidListener(listener, actions) ==
    \A name \in {listener.default} \cup {listener.routes[i].action : i \in DOMAIN listener.routes} :
        /\ ValidHttpAction(actions[name])
        /\ actions[name].redirect <=> listener.kind = "redirect"

-----------------------------------------------------------------------------
(* Reference definitions, by labels and segments instead of bytes.         *)

\* The parts of s between separators.
Split(s, c) ==
    LET cuts == <<0>> \o SelectSeq([i \in DOMAIN s |-> i], LAMBDA i : s[i] = c) \o <<Len(s) + 1>>
    IN  [n \in 1 .. Len(cuts) - 1 |-> SubSeq(s, cuts[n] + 1, cuts[n + 1] - 1)]

\* How specifically a matcher names a host: exactly, by a suffix of so many
\* labels, by a pattern, or not at all.
Rank(matcher, hostname) ==
    LET labels(name) == Split(TrimEnd(name, "."), ".")
        host == labels(hostname)
        suffixes == {labels(TrimStart(s, ".")) : s \in matcher.suffix}
        depths == {Len(s) : s \in suffixes \cap {host, Tail(host)}}
    IN  IF host \in {labels(e) : e \in matcher.exact} THEN <<3, 0>>
        ELSE IF depths # {} THEN <<2, Max(depths)>>
        ELSE IF TrimEnd(hostname, ".") \in matcher.patterns THEN <<1, 0>>
        ELSE <<0, 0>>

\* Route i is the first of the most specific routes that match.
MostSpecific(routes, host, i) ==
    /\ Rank(routes[i].matcher, host) # <<0, 0>>
    /\ \A j \in DOMAIN routes :
         /\ ~Beats(Rank(routes[j].matcher, host), Rank(routes[i].matcher, host))
         /\ j < i => Rank(routes[j].matcher, host) # Rank(routes[i].matcher, host)

\* A prefix covers a path if its segments begin it.
Covers(prefix, target) ==
    IsPrefix(Split(TrimEnd(prefix, "/"), "/"), Split(PathOf(target), "/"))
=============================================================================
