----------------------------- MODULE HttpBody -----------------------------
(***************************************************************************)
(* The end of a request body (http_header.rs, ChunkedBodyReader, and       *)
(* tokio's take): a reader that passes the body through as it arrives and  *)
(* stops at its last byte.  Bytes are strings: "CR", "LF", ";", the digits *)
(* of chunk sizes, anything else is data.                                  *)
(***************************************************************************)
EXTENDS HttpHead

CONSTANTS MaxChunkLine,     \* MAX_CHUNK_LINE
          MaxTrailerBytes   \* MAX_TRAILER_BYTES

Reader(kind, remaining) == [kind |-> kind, remaining |-> remaining, line |-> <<>>, consumed |-> 0]
Failed == Reader("failed", 0)
Done == Reader("done", 0)

NewReader(framing) ==
    IF framing.kind = "chunked" THEN Reader("size", 0)
    ELSE IF framing.size = 0 THEN Done ELSE Reader("length", framing.size)

Digit == ("0" :> 0) @@ ("1" :> 1) @@ ("2" :> 2)

\* The size a chunk-size line states: what is before an extension, in
\* hexadecimal; -1 if it is no number.
ChunkSize(line) ==
    LET cut == Min({Len(line) + 1} \cup {i \in DOMAIN line : line[i] = ";"})
        digits == SubSeq(line, 1, cut - 1)
        text == IF digits # <<>> /\ Last(digits) = "CR" THEN Front(digits) ELSE digits
    IN  IF text = <<>> \/ ~(ToSet(text) \subseteq DOMAIN Digit) THEN -1
        ELSE FoldLeft(LAMBDA n, d : 16 * n + Digit[d], 0, text)

\* Mutant: framing lines are read in bulk as well.
WantsBulk(r) == CASE r.kind \in {"length", "data"} -> r.remaining
                  [] r.kind = "raw" -> 100
                  [] r.kind \in {"done", "failed", "ended"} -> 0
                  [] OTHER -> 2

\* How much one read may take: chunk sizes, line ends and trailers are read
\* byte by byte.  (A tunnel takes anything.)
Wants(r) == CASE r.kind \in {"length", "data"} -> r.remaining
              [] r.kind = "raw" -> 100
              [] r.kind \in {"done", "failed", "ended"} -> 0
              [] OTHER -> 1

LineFull(line) == Len(line) >= MaxChunkLine

\* The reader after one read; a failed reader passes nothing on.
Advance(r, bytes) ==
    CASE r.kind = "raw" -> r
      [] r.kind = "size" /\ bytes[1] = "LF" ->
            LET size == ChunkSize(r.line) IN
            IF size < 0 THEN Failed ELSE Reader(IF size = 0 THEN "trailers" ELSE "data", size)
      [] r.kind = "size" /\ bytes[1] # "LF" ->
            IF LineFull(r.line) THEN Failed ELSE [r EXCEPT !.line = Append(@, bytes[1])]
      [] r.kind \in {"length", "data"} ->
            IF r.remaining > Len(bytes) THEN [r EXCEPT !.remaining = @ - Len(bytes)]
            ELSE IF r.kind = "length" THEN Done ELSE Reader("end", 0)
      [] r.kind = "end" ->
            IF bytes[1] = "CR" THEN Reader("cr", 0) ELSE IF bytes[1] = "LF" THEN Reader("size", 0) ELSE Failed
      [] r.kind = "cr" -> IF bytes[1] = "LF" THEN Reader("size", 0) ELSE Failed
      [] r.kind = "trailers" ->
            IF r.consumed >= MaxTrailerBytes THEN Failed
            ELSE IF bytes[1] # "LF" THEN [r EXCEPT !.line = Append(@, bytes[1]), !.consumed = @ + 1]
            ELSE IF r.line \in {<<>>, <<"CR">>} THEN Done
            ELSE [r EXCEPT !.line = <<>>, !.consumed = @ + 1]

-----------------------------------------------------------------------------
(* Reference: where the message ends in everything the client will send,   *)
(* by its grammar.  -1 if it does not end, or is malformed.                 *)

\* Position of the first line end at or after i; 0 if there is none.
LineEnd(s, i) ==
    LET ends == {j \in i .. Len(s) : s[j] = "LF"} IN IF ends = {} THEN 0 ELSE Min(ends)

RECURSIVE ChunksEnd(_, _)
RECURSIVE TrailersEnd(_, _)

\* Trailers are lines up to an empty one.
TrailersEnd(s, i) ==
    LET eol == LineEnd(s, i) IN
    CASE eol = 0 -> -1
      [] eol # 0 /\ SubSeq(s, i, eol - 1) \in {<<>>, <<"CR">>} -> eol
      [] OTHER -> TrailersEnd(s, eol + 1)

\* Chunks are a size line, so many bytes and a line end, up to an empty one.
ChunksEnd(s, i) ==
    LET eol == LineEnd(s, i)
        size == ChunkSize(SubSeq(s, i, eol - 1))
        past == eol + size + 1
        tail == SubSeq(s, past, Len(s))
    IN  CASE eol = 0 \/ eol - i > MaxChunkLine \/ size < 0 -> -1
          [] eol # 0 /\ eol - i <= MaxChunkLine /\ size = 0 ->
                LET end == TrailersEnd(s, eol + 1) IN IF end - eol > MaxTrailerBytes THEN -1 ELSE end
          [] OTHER -> CASE IsPrefix(<<"LF">>, tail) -> ChunksEnd(s, past + 1)
                        [] IsPrefix(<<"CR", "LF">>, tail) -> ChunksEnd(s, past + 2)
                        [] OTHER -> -1

\* Length of the body a framing delimits in s.
BodyEnd(framing, s) ==
    IF framing.kind = "chunked" THEN ChunksEnd(s, 1)
    ELSE IF framing.size <= Len(s) THEN framing.size ELSE -1
=============================================================================
