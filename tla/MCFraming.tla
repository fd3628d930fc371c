------------------------------ MODULE MCFraming ------------------------------
(***************************************************************************)
(* Connections fed with pairs of messages of every framing, good and bad,  *)
(* in pieces of any size; each message carries the result a server should  *)
(* reach, whatever the pieces.                                             *)
(***************************************************************************)
EXTENDS MCConnection

GoodMessages ==
  {Good(Head1(Get, <<>>), Head1(Get, <<>>)), Sized(Get, 0), Sized(Post, 1), Sized(Post, 3)}
  \cup {InChunks(c, t) : c \in {<<>>, <<3>>, <<2, 1>>}, t \in {<<>>, <<Field>> \o CRLF}}
  \cup {LET h == Head1(Post, <<Chunked>>)      \* lone line breaks around a size
        IN Good(h \o <<LF>> \o Chunk(1, <<CR>> \o Ext(1)) \o LastChunk(<<>>), h \o Byte(1))}

BadHeads ==
  { <<(<<Length(4)>>), 413>>, <<(<<Tok("badlength", 0)>>), 400>>, <<(<<Tok("gzip", 0)>>), 501>>,
    <<(<<Chunked, Length(1)>>), 400>>, <<(<<Tok("nocoding", 0)>>), 400>>, <<(<<Chunked, Chunked>>), 501>>,
    <<(<<Length(1), Length(1)>>), 400>>, <<(<<Tok("byte", 0)>>), 400>>,
    <<(<<Tok("binary", 0)>>), 400>>, <<(<<Field, Field, Field>>), 431>> }

BadChunks ==
  { <<Chunk(2, <<>>) \o Chunk(2, <<>>) \o LastChunk(<<>>), 413>>, <<Chunk(UsizeMax, <<>>), 413>>,
    <<Chunk(1, Ext(9)) \o Chunk(1, Ext(9)) \o Chunk(1, Ext(9)) \o LastChunk(<<>>), 431>>,
    <<Chunk(1, Ext(3)) \o Ext(12), 431>>,
    <<Chunk(1, <<>>) \o Chunk(1, <<>>) \o Chunk(1, <<>>) \o LastChunk(<<>>), 431>>,
    <<Chunk(1, Ext(1) \o <<Tok("binary", 0)>>), 400>>,
    <<(<<Tok("size", 1)>>) \o CRLF \o Byte(3), 400>>, <<Byte(2) \o CRLF, 400>>,
    <<LastChunk(<<Tok("byte", 0)>> \o CRLF), 400>>, <<LastChunk([i \in 1..12 |-> Field]), 431>> }

BadMessages ==
  {Bad(Head1(Get, h[1]) \o Byte(1), h[2]) : h \in BadHeads}
  \cup {Bad(Head1(Post, <<Chunked>>) \o c[1], c[2]) : c \in BadChunks}
  \cup {Bad([i \in 1..12 |-> Field], 431)}

\* A body without Content-Length or chunks: it is the rest of the stream.
UnframedMessages ==
  {LET h == Head1(Post, <<>>) \o Byte(n)
   IN [(IF n > BodyLimit THEN Bad(h, 413) ELSE Good(h, h)) EXCEPT !.framed = FALSE] : n \in {0, 3, 4}}

\* Two messages without a pause between them, if all carry their framing; else
\* the second follows when the first has been answered.
FramingSetups ==
  {Setup(<<a, b>>, TRUE, 1) : a \in GoodMessages, b \in GoodMessages \cup BadMessages}
  \cup {Setup(<<a, b>>, TRUE, 1) : a \in BadMessages, b \in GoodMessages}
  \cup {Setup(<<a, b>>, FALSE, 1) : a \in GoodMessages, b \in UnframedMessages}
===============================================================================
