---------------------------- MODULE RequestFraming ----------------------------
(***************************************************************************)
(* core/request.rs: how one HTTP request is cut out of the bytes received  *)
(* so far (take_framed_request, extract_body_headers).  Pure operators.    *)
(*                                                                         *)
(* A byte string is a sequence of tokens, each one byte wide: a carriage   *)
(* return, a line feed, or a piece of text that is a whole as far as the   *)
(* code looks at it (a request line, a header line, a chunk size).         *)
(***************************************************************************)
EXTENDS Integers, Sequences, FiniteSets

CONSTANTS HeaderLimit,  \* RequestLimits::header_bytes
          BodyLimit,    \* RequestLimits::body_bytes
          UsizeMax      \* usize::MAX

ASSUME FramingAssumption ==
  /\ HeaderLimit \in Nat /\ BodyLimit \in Nat /\ UsizeMax \in Nat
  /\ HeaderLimit =< UsizeMax /\ BodyLimit =< UsizeMax

Verbs == {"get", "post", "upgrade", "unknown"}
LengthNames == {"length", "badlength"}               \* Content-Length
CodingNames == {"chunked", "gzip", "nocoding"}       \* Transfer-Encoding
FieldNames == {"field", "close"} \cup LengthNames \cup CodingNames
Token == [t : {"cr", "lf", "size", "ext", "byte", "binary"} \cup Verbs \cup FieldNames,
          n : Nat]

CR == [t |-> "cr", n |-> 0]
LF == [t |-> "lf", n |-> 0]
CRLF == <<CR, LF>>

\* The position of the first `pat' in s from position p on, or 0.
FirstAt(s, pat, p) ==
  LET At(i) == SubSeq(s, i, i + Len(pat) - 1) = pat
      Hits == {i \in p..(Len(s) - Len(pat) + 1) : At(i)}
  IN IF Hits = {} THEN 0 ELSE CHOOSE i \in Hits : \A k \in Hits : i =< k

LineStarts(s) == {1} \cup {p \in 3..Len(s) : s[p - 2] = CR /\ s[p - 1] = LF}
LineAt(s, p) ==
  LET end == FirstAt(s, CRLF, p)
  IN SubSeq(s, p, IF end = 0 THEN Len(s) ELSE end - 1)

HasColon(line) == \E i \in 1..Len(line) : line[i].t \in FieldNames
IsText(s) == \A i \in 1..Len(s) : s[i].t # "binary"

-------------------------------------------------------------------------------
(* extract_body_headers.  Every error inside its loop is 400, so their     *)
(* order does not show.                                                    *)

Framing(kind, n) == [kind |-> kind, n |-> n]

ExtractBodyHeaders(head) ==
  LET headers == LineStarts(head) \ {1}
      lengths == {p \in headers : head[p].t \in LengthNames}
      codings == {p \in headers : head[p].t \in CodingNames}
      Whole(p, name) == head[p].t = name /\ Len(LineAt(head, p)) = 1
  IN IF \/ \E p \in headers : ~HasColon(LineAt(head, p))
        \/ Cardinality(lengths) > 1
        \/ \E p \in lengths : ~Whole(p, "length")
        \/ \E p \in codings : Whole(p, "nocoding")
        \/ lengths # {} /\ codings # {}
     THEN Framing("error", 400)
     ELSE IF codings # {}
     THEN IF Cardinality(codings) = 1 /\ \A p \in codings : Whole(p, "chunked")
          THEN Framing("chunked", 0)
          ELSE Framing("error", 501)
     ELSE IF lengths # {}
     THEN Framing("length", head[CHOOSE p \in lengths : TRUE].n)
     ELSE Framing("none", 0)

-------------------------------------------------------------------------------
(* take_framed_request: the verdict on a buffer, the request taken off it  *)
(* and what is left in it.                                                 *)

Incomplete(buf) == [verdict |-> "incomplete", raw |-> <<>>, rest |-> buf, status |-> 0]
Refused(buf, status) == [verdict |-> "error", raw |-> <<>>, rest |-> buf, status |-> status]
Taken(buf, raw, used) ==
  [verdict |-> "ready", raw |-> raw, rest |-> SubSeq(buf, used + 1, Len(buf)), status |-> 0]

\* saturating_add
SatAdd(a, b) == IF a + b > UsizeMax THEN UsizeMax ELSE a + b

OverBodyLimit(decoded, size) == SatAdd(Len(decoded), size) > BodyLimit

OverHeaderLimit(metadata) == metadata > HeaderLimit

\* checked_add of a chunk's size and of its CRLF to the bytes before it.
ChunkOverflows(before, size) == before + size + 2 > UsizeMax

\* Where a chunk line has its size: before a ';' it is text with nothing but
\* a number in it, once trim() has taken off lone CRs and LFs.
SizePlaces(line) ==
  LET Before(p) == \A i \in 1..(p - 1) : line[i] \in {CR, LF}
      Behind(p) == \A i \in (p + 1)..Len(line) :
                     line[i] \in {CR, LF} \/ \E k \in (p + 1)..i : line[k].t = "ext"
  IN {p \in 1..Len(line) : line[p].t = "size" /\ Before(p) /\ Behind(p)}

IsSizeLine(line) == IsText(line) /\ SizePlaces(line) # {}
ChunkSize(line) == line[CHOOSE p \in SizePlaces(line) : TRUE].n

\* After the last chunk, from position p on: CRLF, or trailer lines.
TakeTrailers(buf, headEnd, p, decoded) ==
  LET end == FirstAt(buf, CRLF \o CRLF, p)
      trailer == SubSeq(buf, p, end - 1)
      raw == SubSeq(buf, 1, headEnd) \o decoded
  IN IF Len(buf) < p + 1
     THEN Incomplete(buf)
     ELSE IF SubSeq(buf, p, p + 1) = CRLF
     THEN Taken(buf, raw, p + 1)
     ELSE IF end = 0
     THEN IF Len(buf) - p + 1 > HeaderLimit THEN Refused(buf, 431) ELSE Incomplete(buf)
     ELSE IF Len(trailer) + 4 > HeaderLimit
     THEN Refused(buf, 431)
     ELSE IF ~IsText(trailer) \/ \E q \in LineStarts(trailer) : ~HasColon(LineAt(trailer, q))
     THEN Refused(buf, 400)
     ELSE Taken(buf, raw, end + 3)

\* The variables of the loop over chunks.
ChunkState == [cursor : Nat \ {0}, metadata : Nat, decoded : Seq(Token)]

\* One turn of that loop; `chunks' is what comes of its further turns.
TakeChunk(chunks, buf, headEnd, s) ==
  LET eol == FirstAt(buf, CRLF, s.cursor)
      line == SubSeq(buf, s.cursor, eol - 1)
      metadata == s.metadata + Len(line) + 2
      size == ChunkSize(line)
      data == eol + 2
  IN IF eol = 0
     THEN IF Len(buf) - s.cursor + 1 > HeaderLimit THEN Refused(buf, 431) ELSE Incomplete(buf)
     ELSE IF OverHeaderLimit(metadata)
     THEN Refused(buf, 431)
     ELSE IF ~IsSizeLine(line)
     THEN Refused(buf, 400)
     ELSE IF size = 0
     THEN TakeTrailers(buf, headEnd, data, s.decoded)
     ELSE IF OverBodyLimit(s.decoded, size) \/ ChunkOverflows(data - 1, size)
     THEN Refused(buf, 413)
     ELSE IF Len(buf) < data + size + 1
     THEN Incomplete(buf)
     ELSE IF SubSeq(buf, data + size, data + size + 1) # CRLF
     THEN Refused(buf, 400)
     ELSE chunks[[cursor |-> data + size + 2, metadata |-> metadata,
                  decoded |-> s.decoded \o SubSeq(buf, data, data + size - 1)]]

TakeChunked(buf, headEnd) ==
  LET Chunks[s \in ChunkState] == TakeChunk(Chunks, buf, headEnd, s)
  IN Chunks[[cursor |-> headEnd + 1, metadata |-> 0, decoded |-> <<>>]]

\* A body with neither header ends when the client pauses: idleEnd.
TakeUnframed(buf, headEnd, idleEnd) ==
  IF Len(buf) - headEnd > BodyLimit
  THEN Refused(buf, 413)
  ELSE IF idleEnd THEN Taken(buf, buf, Len(buf)) ELSE Incomplete(buf)

TakeLength(buf, headEnd, n) ==
  IF n > BodyLimit \/ headEnd + n > UsizeMax
  THEN Refused(buf, 413)
  ELSE IF Len(buf) < headEnd + n
  THEN Incomplete(buf)
  ELSE Taken(buf, SubSeq(buf, 1, headEnd + n), headEnd + n)

\* matches!(method, "POST" | "PUT" | "DELETE" | "PATCH" | "QUERY")
HasUnframedBody(head) == head # <<>> /\ head[1].t = "post"

TakeFramedRequest(buf, idleEnd) ==
  LET separator == FirstAt(buf, CRLF \o CRLF, 1)
      headEnd == separator + 3
      head == SubSeq(buf, 1, separator - 1)
      framing == ExtractBodyHeaders(head)
  IN IF separator = 0
     THEN IF Len(buf) > HeaderLimit THEN Refused(buf, 431) ELSE Incomplete(buf)
     ELSE IF headEnd > HeaderLimit
     THEN Refused(buf, 431)
     ELSE IF ~IsText(head)
     THEN Refused(buf, 400)
     ELSE CASE framing.kind = "error" -> Refused(buf, framing.n)
            [] framing.kind = "length" -> TakeLength(buf, headEnd, framing.n)
            [] framing.kind = "chunked" -> TakeChunked(buf, headEnd)
            [] OTHER -> IF HasUnframedBody(head)
                        THEN TakeUnframed(buf, headEnd, idleEnd)
                        ELSE Taken(buf, SubSeq(buf, 1, headEnd), headEnd)

-------------------------------------------------------------------------------
(* What the limits are for.                                                *)

\* A request's head and its (decoded) body.
WithinLimits(raw) ==
  LET headEnd == FirstAt(raw, CRLF \o CRLF, 1) + 3
  IN headEnd =< HeaderLimit /\ Len(raw) - headEnd =< BodyLimit

\* The bytes of a request that is still incomplete: a head, the chunk lines, the
\* data, a CRLF for each chunk (whose line has at least three bytes), and a
\* chunk line or trailer.
MemoryLimit == 3 * HeaderLimit + BodyLimit + 2 * (HeaderLimit \div 3)
===============================================================================
