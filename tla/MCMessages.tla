------------------------------ MODULE MCMessages ------------------------------
(* HTTP messages over the tokens of RequestFraming, for TLC's instances.   *)
EXTENDS Naturals, Sequences, SequencesExt

LOCAL CRLF == <<[t |-> "cr", n |-> 0], [t |-> "lf", n |-> 0]>>

Tok(t, n) == [t |-> t, n |-> n]
Join(lines) == FoldLeft(LAMBDA s, line : s \o line \o CRLF, <<>>, lines)
Head1(verb, fields) == Join(<<<<verb>>>> \o [i \in 1..Len(fields) |-> <<fields[i]>>] \o << <<>> >>)
Byte(n) == [i \in 1..n |-> Tok("byte", i)]
Ext(n) == [i \in 1..n |-> Tok("ext", 0)]
Chunk(n, ext) == <<Tok("size", n)>> \o ext \o CRLF \o Byte(n) \o CRLF
LastChunk(trailer) == <<Tok("size", 0)>> \o CRLF \o trailer \o CRLF

Get == Tok("get", 1)
Post == Tok("post", 2)
Field == Tok("field", 0)
Length(n) == Tok("length", n)
Chunked == Tok("chunked", 0)

\* A message's bytes, the request they hold (if good), the refusal (if bad).
Good(wire, raw) == [wire |-> wire, raw |-> raw, status |-> 0, framed |-> TRUE]
Bad(wire, status) == [wire |-> wire, raw |-> <<>>, status |-> status, framed |-> TRUE]

Sized(verb, n) == LET h == Head1(verb, <<Length(n)>>) \o Byte(n) IN Good(h, h)
InChunks(sizes, trailer) ==
  LET h == Head1(Post, <<Chunked>>)
  IN Good(FoldLeft(LAMBDA s, c : s \o Chunk(c, <<>>), h, sizes) \o LastChunk(trailer),
          FoldLeft(LAMBDA s, c : s \o Byte(c), h, sizes))
===============================================================================
