------------------------------- MODULE StaticFiles -------------------------------
(***************************************************************************)
(* Files and directories served by a path route                            *)
(* (src/src/dataplane/http/static_files.rs), while they change on disk, to  *)
(* a client that keeps what it got: it revalidates a whole body, resumes a  *)
(* cut one, and walks a directory page by page.                             *)
(*                                                                          *)
(* The file has versions; byte i of version v, sent in encoding e, is       *)
(* <<v, i, e>>.  A request resolves its path, reads the metadata, opens the *)
(* file and streams it, in steps between which the file may be replaced by  *)
(* a new version or grow or shrink in place.  Every change has a stamp of   *)
(* its own, to the nanosecond; a second holds two of them.                  *)
(***************************************************************************)
EXTENDS Integers, Sequences, SequencesExt, FiniteSetsExt

CONSTANTS Lengths,       \* lengths of the file's versions
          MaxStamp,      \* bound on the changes of the file
          MaxRequests,   \* bound on the requests for the file
          MinCompress,   \* MIN_COMPRESS_BYTES
          Chunk,         \* bytes of one read
          Entries,       \* names of a directory, in byte order
          PageSize,      \* PAGE_SIZE
          MaxEdits       \* bound on the changes of the directory

VARIABLES file,      \* what the path leads to: version, length, stamp
          request,   \* the request being served
          pc,        \* where serve is
          meta,      \* the metadata it read
          fd,        \* the version it opened
          reply,     \* the response: status, tag, encoding, range, bytes
          kept,      \* what the client keeps of it: tag, date, bytes, whole, clean
          requests,  \* number of requests
          dir,       \* the entries of the directory
          walk       \* the client's walk: cursor, listed, steady (the names there
                     \* all along), over, edits

fileVars == <<file, request, pc, meta, fd, reply, kept, requests>>
vars == <<file, request, pc, meta, fd, reply, kept, requests, dir, walk>>

Nothing == [status |-> 0]
NoRange == [kind |-> "none", start |-> 0, end |-> 0]
NoMeta == [length |-> 0, stamp |-> 0, version |-> 0]
NothingKept == [tag |-> <<>>, date |-> 0, bytes |-> <<>>, whole |-> FALSE, clean |-> TRUE]
Unsatisfiable == [NoRange EXCEPT !.kind = "unsatisfiable"]
NoWalk == [cursor |-> 0, listed |-> <<>>, steady |-> {}, over |-> TRUE, edits |-> 0]
NoSpec == [kind |-> "none", first |-> 0, last |-> 0]

\* The first bytes of a version, in an encoding.
Content(version, length, encoding) == [i \in 1..length |-> <<version, i, encoding>>]

-----------------------------------------------------------------------------
(* What one request asks. *)

\* A Range header: bytes=first-last, bytes=first- (last -1), bytes=-last (first -1).
Ranges == {[kind |-> "range", first |-> f, last |-> l] : f \in 0..3, l \in -1..3}
          \cup {[kind |-> "range", first |-> -1, last |-> n] : n \in 0..4}

\* What a path may lead to.
Paths == {"malformed", "missing", "outside", "special", "unslashed", "unlisted", "indexed", "file"}

Plain == [method |-> "GET", path |-> "file", accepts |-> {}, range |-> NoSpec,
          ifRange |-> <<>>, ifNone |-> {}, ifSince |-> 0]

\* A first request, for any path, in any encoding or for any range of bytes.
Fresh == {[Plain EXCEPT !.method = m, !.path = p] : m \in {"GET", "POST", "OPTIONS"}, p \in Paths}
         \cup {[Plain EXCEPT !.method = m, !.accepts = a] :
                  m \in {"GET", "HEAD"}, a \in {{"gzip"}, {"gzip", "zstd"}}}
         \cup {[Plain EXCEPT !.method = m, !.accepts = {"zstd"}, !.range = r] :
                  m \in {"GET", "HEAD"}, r \in Ranges}

\* A client with a whole body asks whether it is still good, one with part of a
\* body asks for the rest.
Revalidating ==
    {[Plain EXCEPT !.accepts = a, !.ifNone = {kept.tag}] : a \in {{}, {"zstd"}}}
    \cup {[Plain EXCEPT !.ifSince = kept.date]}

Resuming == {[Plain EXCEPT !.accepts = {"zstd"}, !.ifRange = kept.tag,
                           !.range = [kind |-> "range", first |-> Len(kept.bytes), last |-> -1]]}

FollowUps == IF kept.whole THEN Revalidating ELSE IF kept.bytes # <<>> THEN Resuming ELSE {Plain}

Ask ==
    /\ walk = NoWalk /\ pc = "idle" /\ requests < MaxRequests
    /\ request' \in IF requests = 0 THEN Fresh ELSE FollowUps
    /\ requests' = requests + 1 /\ pc' = "resolve" /\ reply' = Nothing
    /\ meta' = NoMeta /\ fd' = 0
    /\ UNCHANGED <<file, kept, dir, walk>>

-----------------------------------------------------------------------------
(* serve and serve_file. *)

Finish(response) == reply' = response /\ pc' = "idle"
Status(code) == [status |-> code, tag |-> <<>>, encoding |-> "identity", range |-> NoRange,
                 length |-> 0, bytes |-> <<>>, ended |-> "done"]

\* What serve answers before it looks at the file: the method, the document root
\* (500 when it is gone), the path decoded, resolved and kept beneath the root.
Refusals ==
    IF request.method = "OPTIONS" THEN {204}
    ELSE IF request.method \notin {"GET", "HEAD"} THEN {405}
    ELSE {500} \cup CASE request.path = "malformed" -> {400}
                      [] request.path = "missing" -> {404}
                      [] request.path = "outside" -> {403}
                      [] OTHER -> {}

Passes == /\ request.method \in {"GET", "HEAD"}
          /\ request.path \notin {"malformed", "missing", "outside"}

Resolve ==
    /\ pc = "resolve"
    /\ \/ \E code \in Refusals : Finish(Status(code))
       \/ Passes /\ pc' = "stat" /\ UNCHANGED reply
    /\ UNCHANGED <<file, request, meta, fd, kept, requests, dir, walk>>

\* The metadata, unless it can no longer be read.  A directory is redirected to
\* its slash, served as its index, listed or refused; what is no file is not found.
Stat ==
    /\ pc = "stat"
    /\ \/ \E code \in {403, 404} : Finish(Status(code)) /\ UNCHANGED meta
       \/ request.path = "unslashed" /\ Finish(Status(301)) /\ UNCHANGED meta
       \/ request.path = "unlisted" /\ Finish(Status(403)) /\ UNCHANGED meta
       \/ request.path = "special" /\ Finish(Status(404)) /\ UNCHANGED meta
       \/ /\ request.path \in {"indexed", "file"}
          /\ meta' = [length |-> file.length, stamp |-> file.stamp, version |-> file.version]
          /\ pc' = "decide" /\ UNCHANGED reply
    /\ UNCHANGED <<file, request, fd, kept, requests, dir, walk>>

\* entity_tag: the length, the stamp and the representation.
EntityTag(encoding) == <<meta.length, meta.stamp, encoding>>

\* http_date: the second of a stamp.
HttpDate(stamp) == stamp \div 2

\* parse_range: the final bytes, or from first to last, or to the end.
ParseRange(spec, length) ==
    IF spec.first < 0
    THEN IF spec.last = 0 \/ length = 0 THEN Unsatisfiable
         ELSE [kind |-> "bounded", start |-> Max({length - spec.last, 0}), end |-> length - 1]
    ELSE IF spec.first >= length THEN Unsatisfiable
    ELSE IF spec.last >= 0 /\ spec.last < spec.first THEN NoRange
    ELSE [kind |-> "bounded", start |-> spec.first,
          end |-> IF spec.last < 0 THEN length - 1 ELSE Min({spec.last, length - 1})]

\* Mutant: the encoding of the tag does not matter.
RangeApplicableAnyEncoding ==
    request.ifRange = <<>> \/ SubSeq(request.ifRange, 1, 2) = <<meta.length, meta.stamp>>

\* An If-Range validator must be the tag of the identity, or its date.
RangeApplicable == request.ifRange \in {<<>>, EntityTag("identity"), <<HttpDate(meta.stamp)>>}

RangeOf == IF request.method # "HEAD" /\ RangeApplicable /\ request.range.kind # "none"
           THEN ParseRange(request.range, meta.length) ELSE NoRange

\* negotiate_encoding, of a compressible file; a range is of the identity.
Encoding ==
    IF RangeOf # NoRange \/ meta.length < MinCompress THEN "identity"
    ELSE IF "zstd" \in request.accepts THEN "zstd"
    ELSE IF "gzip" \in request.accepts THEN "gzip" ELSE "identity"

\* What the client has is still good: by If-None-Match, else by If-Modified-Since.
Revalidated ==
    IF request.ifNone # {} THEN request.ifNone \cap {EntityTag(Encoding), EntityTag("identity")} # {}
    ELSE request.ifSince # 0 /\ request.ifSince = HttpDate(meta.stamp)

\* serve_file up to the open: 304, then 416.
Decide ==
    /\ pc = "decide"
    /\ IF Revalidated THEN Finish([Status(304) EXCEPT !.tag = EntityTag(Encoding)])
       ELSE IF RangeOf.kind = "unsatisfiable" THEN Finish(Status(416))
       ELSE pc' = "open" /\ UNCHANGED reply
    /\ UNCHANGED <<file, request, meta, fd, kept, requests, dir, walk>>

\* The open may fail; the head of the response is from the metadata.
Open ==
    /\ pc = "open"
    /\ \/ \E code \in {403, 404} : Finish(Status(code)) /\ UNCHANGED fd
       \/ /\ fd' = file.version
          /\ reply' = [status |-> IF RangeOf.kind = "bounded" THEN 206 ELSE 200,
                       tag |-> EntityTag(Encoding), encoding |-> Encoding,
                       range |-> RangeOf, bytes |-> <<>>, ended |-> "no",
                       length |-> IF RangeOf.kind = "bounded" THEN RangeOf.end - RangeOf.start + 1
                                  ELSE meta.length]
          /\ pc' = "stream"
    /\ UNCHANGED <<file, request, meta, kept, requests, dir, walk>>

\* What the open file still holds.  (A version that was replaced keeps its bytes.)
Available == IF fd = file.version THEN file.length ELSE file.was[fd]

Offset == IF reply.range.kind = "bounded" THEN reply.range.start ELSE 0
Position == Offset + Len(reply.bytes)
Ended(how) == [reply EXCEPT !.ended = how]

\* What the client keeps of a response: the body, whole or cut, with its tag and
\* date; the rest it asked for completes what it has.  It is clean if the file
\* opened was the one the metadata were of.
Keeps(response) ==
    IF request.method = "GET" /\ response.status = 200
    THEN [tag |-> response.tag, date |-> HttpDate(meta.stamp), bytes |-> response.bytes,
          whole |-> response.ended = "done", clean |-> fd = meta.version]
    ELSE IF response.status = 206 /\ request.ifRange # <<>>
    THEN [kept EXCEPT !.bytes = @ \o response.bytes, !.whole = response.ended = "done",
                      !.clean = @ /\ fd = meta.version]
    ELSE kept

\* Mutant: reads are not limited to what is left to send.
StreamUnbounded(k) ==
    /\ Position + k <= Available
    /\ reply' = [reply EXCEPT !.bytes = @ \o SubSeq(Content(fd, Available, reply.encoding), Position + 1, Position + k)]
    /\ UNCHANGED <<pc, kept>>

\* stream_body, stream_compressed: a read of at most what is left to send.
StreamSome(k) ==
    /\ Position + k <= Available /\ Len(reply.bytes) + k <= reply.length
    /\ reply' = [reply EXCEPT !.bytes = @ \o SubSeq(Content(fd, Available, reply.encoding), Position + 1, Position + k)]
    /\ UNCHANGED <<pc, kept>>

\* The response ends whole, or cut: the file ended early or the client left.
Stream ==
    /\ pc = "stream"
    /\ \/ request.method # "HEAD" /\ \E k \in 1..Chunk : StreamSome(k)
       \/ /\ request.method # "HEAD" /\ Len(reply.bytes) < reply.length
          /\ Finish(Ended("cut")) /\ kept' = Keeps(Ended("cut"))
       \/ /\ request.method = "HEAD" \/ Len(reply.bytes) = reply.length
          /\ Finish(Ended("done")) /\ kept' = Keeps(Ended("done"))
    /\ UNCHANGED <<file, request, meta, fd, requests, dir, walk>>

-----------------------------------------------------------------------------
(* The disk. *)

\* A new version is renamed over the file.
Replace ==
    /\ walk = NoWalk /\ file.stamp < MaxStamp
    /\ \E n \in Lengths :
         file' = [version |-> file.version + 1, length |-> n, stamp |-> file.stamp + 1,
                  was |-> Append(file.was, file.length)]
    /\ UNCHANGED <<request, pc, meta, fd, reply, kept, requests, dir, walk>>

\* The file is appended to, or cut short, in place.
Resize ==
    /\ walk = NoWalk /\ file.stamp < MaxStamp
    /\ \E n \in Lengths \ {file.length} : file' = [file EXCEPT !.length = n, !.stamp = @ + 1]
    /\ UNCHANGED <<request, pc, meta, fd, reply, kept, requests, dir, walk>>

-----------------------------------------------------------------------------
(* Directory pages. *)

\* Mutant: the cursor is the first name of the next page.
ScanDirectorySkipping(names, after) ==
    LET rest == SelectSeq(names, LAMBDA n : n > after)
        page == SubSeq(rest, 1, Min({PageSize, Len(rest)}))
    IN  [page |-> page, next |-> IF Len(rest) > PageSize THEN rest[PageSize + 1] ELSE 0]

\* scan_directory: the names after the cursor, one page of them, and its last name
\* as the next cursor if there are more.
ScanDirectory(names, after) ==
    LET rest == SelectSeq(names, LAMBDA n : n > after)
        page == SubSeq(rest, 1, Min({PageSize, Len(rest)}))
    IN  [page |-> page, next |-> IF Len(rest) > PageSize THEN page[PageSize] ELSE 0]

\* A page, and the link to the next one.
NextPage ==
    /\ ~walk.over
    /\ LET listing == ScanDirectory(SetToSortSeq(dir, LAMBDA a, b : a < b), walk.cursor) IN
       walk' = [walk EXCEPT !.cursor = listing.next, !.listed = @ \o listing.page,
                            !.over = listing.next = 0]
    /\ UNCHANGED fileVars /\ UNCHANGED dir

\* An entry comes or goes.
Edit ==
    /\ ~walk.over /\ walk.edits < MaxEdits
    /\ \E n \in Entries :
         /\ dir' = IF n \in dir THEN dir \ {n} ELSE dir \cup {n}
         /\ walk' = [walk EXCEPT !.steady = @ \ {n}, !.edits = @ + 1]
    /\ UNCHANGED fileVars

-----------------------------------------------------------------------------
Init ==
    /\ \E n \in Lengths : file = [version |-> 1, length |-> n, stamp |-> 2, was |-> <<>>]
    /\ request = Plain /\ pc = "idle"
    /\ meta = NoMeta /\ fd = 0 /\ reply = Nothing /\ kept = NothingKept /\ requests = 0
    /\ \/ dir = {} /\ walk = NoWalk
       \/ /\ dir \in SUBSET Entries /\ file.length = 0
          /\ walk = [NoWalk EXCEPT !.steady = dir, !.over = FALSE]

Next == Ask \/ Resolve \/ Stat \/ Decide \/ Open \/ Stream \/ Replace \/ Resize \/ NextPage \/ Edit

Spec == Init /\ [][Next]_vars

-----------------------------------------------------------------------------
\* The positions a Range header selects in a body of a length (RFC 9110, 14.1.2).
Selected(spec, length) ==
    {i \in 1..length : IF spec.first < 0 THEN i > length - spec.last
                        ELSE i > spec.first /\ (spec.last < 0 \/ i <= spec.last + 1)}

\* A partial answer is the bytes asked for, in order and no others, however the
\* file grows or shrinks meanwhile; one that ends whole has them all; and a range
\* is refused only if it selects nothing (parse_range, stream_body).
RangeIsAsAsked ==
    LET asked == SetToSortSeq(Selected(request.range, meta.length), LAMBDA a, b : a < b)
        sent == [i \in DOMAIN reply.bytes |-> reply.bytes[i][2]]
    IN  /\ reply # Nothing /\ reply.status = 206 =>
              IsPrefix(sent, asked) /\ (reply.ended = "done" => sent = asked)
        /\ reply # Nothing /\ reply.status = 416 => asked = <<>>

\* 304 to a client that sent its tag means that the body it keeps is the file's
\* content, byte for byte, even if the file changed while that body was being
\* sent or put together (serve_file, entity_tag).
NotModifiedIsTrue ==
    reply # Nothing /\ reply.status = 304 /\ request.ifNone # {} =>
        kept.bytes = Content(meta.version, meta.length, kept.tag[3])

\* A body the client has whole, at once or resumed under If-Range, is one version
\* in one encoding, if no file it came from was replaced between its metadata and
\* its open (serve_file).
ResumedIsWhole ==
    kept.whole /\ kept.clean =>
        \E v \in 1..file.version : kept.bytes = Content(v, kept.tag[1], kept.tag[3])

\* What a client has, and is told is still good, is one version of the file.
BodiesAreTrue == NotModifiedIsTrue /\ ResumedIsWhole

\* Pages followed from the first show the names in order, none twice, and miss none
\* that was there all along, whatever else comes and goes (scan_directory).
PagesCover ==
    /\ \A i, j \in DOMAIN walk.listed : i < j => walk.listed[i] < walk.listed[j]
    /\ \A n \in walk.steady : walk.over \/ n <= walk.cursor => Contains(walk.listed, n)
=============================================================================
