----------------------------- MODULE MCConnection -----------------------------
(* Small instances of Connection for TLC. *)
EXTENDS Connection, MCMessages

Request(verb, n, fields) == Head1(Tok(verb, n), fields)
Plain(n) == LET h == Request("get", n, <<>>) IN Good(h, h)
Closing(n) == LET h == Request("get", n, <<Tok("close", 0)>>) IN Good(h, h)
Odd(n) == LET h == Request("unknown", n, <<>>) IN Good(h, h)
WithLength(n, k) == LET h == Request("post", n, <<Length(k)>>) \o Byte(k) IN Good(h, h)
Unframed(n, k) == LET h == Request("post", n, <<>>) \o Byte(k) IN [Good(h, h) EXCEPT !.framed = FALSE]
Upgrade(n) == LET h == Request("upgrade", n, <<>>) IN Good(h, h)
Frames(k) == Bad([i \in 1..k |-> Frame], 0)
Garbage(n) == Bad(Request("get", n, <<Tok("badlength", 0)>>), 400)

\* What a client does with a sequence of messages, and a server of the given
\* keep-alive timeout; from the first Bad message on, nothing is a request.
Joined(messages) == FoldLeft(LAMBDA s, m : s \o m.wire, <<>>, messages)
Setup(messages, pipelined, keepAlive) ==
  LET bads == {i \in 1..Len(messages) : messages[i].raw = <<>>}
      goods == IF bads = {} THEN Len(messages) ELSE Min(bads) - 1
  IN
  [wire |-> Joined(messages),
   raws |-> [k \in 1..goods |-> messages[k].raw],
   ends |-> [k \in 1..goods |-> Len(Joined(SubSeq(messages, 1, k)))],
   refusal |-> IF bads = {} THEN 0 ELSE messages[Min(bads)].status,
   framed |-> \A i \in 1..Len(messages) : messages[i].framed,
   pipelined |-> pipelined, keepAlive |-> keepAlive]

\* Pipelined, with framing: more requests than allowed, every kind of framing,
\* an upgrade followed by bytes of the other protocol, a malformed request.
FramedSetups ==
  {Setup(<<Plain(1), WithLength(2, 2), Odd(3), Plain(4)>>, TRUE, 3),
   Setup(<<InChunks(<<2, 1>>, <<>>), Upgrade(2), Frames(2)>>, TRUE, 3),
   Setup(<<Plain(1), Closing(2), Plain(3)>>, TRUE, 0),
   Setup(<<WithLength(1, 1), Garbage(2)>>, TRUE, 1)}

\* From a client that waits for each answer: bodies without framing.
UnframedSetups ==
  {Setup(<<Unframed(1, 3), Plain(2), Unframed(3, 2), Plain(4)>>, FALSE, 1),
   Setup(<<Unframed(1, 1), Upgrade(2), Frames(2)>>, FALSE, 3),
   Setup(<<Upgrade(1), Frames(2)>>, FALSE, 0)}

AllSetups == FramedSetups \cup UnframedSetups

OneUnframed == {Setup(<<Unframed(1, 3)>>, FALSE, 1)}
===============================================================================
