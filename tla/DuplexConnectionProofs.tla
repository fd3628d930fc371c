------------------------ MODULE DuplexConnectionProofs ------------------------
(***************************************************************************)
(* Theorems about DuplexConnection, for all scripts, rooms, answers and    *)
(* limits.                                                                 *)
(***************************************************************************)
EXTENDS DuplexConnection, SequenceTheorems, TLAPS

Cells == [to : Nat, last : BOOLEAN, close : BOOLEAN]

-------------------------------------------------------------------------------
(* The inductive invariant.                                                *)

Types ==
  /\ TypeOK
  /\ script \in Seq(Requests) /\ done \in Seq(Requests)
  /\ out \in Seq(Cells) /\ todo \in Seq(Cells) /\ meant \in Seq(Cells)

\* Where the loop is: one that goes on may answer another request.
Loop ==
  /\ pc \in {"parse", "read", "handle"} => after = "parse"
  /\ pc \notin Ended /\ after = "parse" => handled < MaxRequests
  /\ pc = "upgraded" => after = "upgraded"
  /\ cause = "cancelled" => pc = "ended"

\* Until a body is cut, the requests handled are the client's first ones and the
\* buffer begins behind them; while a handler runs, behind the one it has too.
InStep ==
  ~cut =>
    /\ handled = Len(done) /\ handled =< Len(script) /\ Upto(handled) =< read
    /\ pc = "handle" => handled < Len(script) /\ request = script[handled + 1] /\ from = request.end
    /\ pc \in {"parse", "read", "write"} => from = Upto(handled)

\* What is meant to be written is what was written and what is still to be.
Writing == pc = "write" /\ link # "reset" => meant = out \o todo

\* The answers follow each other in the order of the requests handled.
InOrder ==
  /\ \A i \in 1..Len(meant) : meant[i].to \in 0..handled
  /\ \A i, j \in 1..Len(meant) :
       i < j /\ meant[i].last /\ meant[j].to # 0 => meant[i].to < meant[j].to

\* A client that waits has read the answers to all the requests it has gone beyond.
Waited == mode = "waits" => \A k \in 1..Len(script) : Upto(k) < sent => AnswerRead(k)

IInv ==
  /\ Types /\ Loop /\ InStep
  /\ Writing /\ AnswersInFull
  /\ InOrder /\ Waited /\ HandledIsAnswered

-------------------------------------------------------------------------------
(* Sequences.                                                              *)

LEMMA PrefixOfConcat ==
  ASSUME NEW S, NEW s \in Seq(S), NEW t \in Seq(S)
  PROVE  /\ s \o t \in Seq(S) /\ IsPrefix(s, s \o t)
         /\ Len(s \o t) = Len(s) + Len(t)
         /\ \A i \in 1..Len(s) : (s \o t)[i] = s[i]
         /\ \A i \in 1..Len(t) : (s \o t)[Len(s) + i] = t[i]
<1>1. /\ s \o t \in Seq(S) /\ Len(s \o t) = Len(s) + Len(t)
      /\ \A i \in 1..(Len(s) + Len(t)) : (s \o t)[i] = IF i =< Len(s) THEN s[i] ELSE t[i - Len(s)]
  BY ConcatProperties
<1>2. Len(s) \in Nat /\ Len(t) \in Nat
  BY LenProperties
<1>3. SubSeq(s, 1, Len(s)) = s
  OBVIOUS
<1>4. /\ SubSeq(s \o t, 1, Len(s)) \in Seq(S) /\ Len(SubSeq(s \o t, 1, Len(s))) = Len(s)
      /\ \A i \in 1..Len(s) : SubSeq(s \o t, 1, Len(s))[i] = s[i]
  BY <1>1, <1>2
<1>5. SubSeq(s \o t, 1, Len(s)) = s
  BY <1>4, SeqEqual
<1> QED
  BY <1>1, <1>2, <1>3, <1>5 DEF IsPrefix

LEMMA PrefixAgrees ==
  ASSUME NEW S, NEW s \in Seq(S), NEW t \in Seq(S), IsPrefix(s, t)
  PROVE  Len(s) =< Len(t) /\ \A i \in 1..Len(s) : t[i] = s[i]
<1>1. SubSeq(s, 1, Len(s)) = s
  OBVIOUS
<1>2. Len(s) =< Len(t) /\ s = SubSeq(t, 1, Len(s))
  BY <1>1 DEF IsPrefix
<1>3. \A i \in 1..Len(s) : SubSeq(t, 1, Len(s))[i] = t[i]
  BY <1>2
<1> QED
  BY <1>2, <1>3

\* A prefix of a sequence is one of what the sequence becomes.
LEMMA PrefixOfMore ==
  ASSUME NEW S, NEW s \in Seq(S), NEW t \in Seq(S), NEW u \in Seq(S), IsPrefix(s, t)
  PROVE  IsPrefix(s, t \o u)
<1>1. Len(s) =< Len(t) /\ \A i \in 1..Len(s) : t[i] = s[i]
  BY PrefixAgrees
<1>2. /\ t \o u \in Seq(S) /\ Len(t \o u) = Len(t) + Len(u)
      /\ \A i \in 1..Len(t) : (t \o u)[i] = t[i]
  BY PrefixOfConcat
<1>3. Len(s) \in Nat /\ Len(t) \in Nat /\ Len(u) \in Nat
  BY LenProperties
<1>4. /\ Len(s) =< Len(t \o u)
      /\ SubSeq(t \o u, 1, Len(s)) \in Seq(S) /\ Len(SubSeq(t \o u, 1, Len(s))) = Len(s)
      /\ \A i \in 1..Len(s) : SubSeq(t \o u, 1, Len(s))[i] = s[i]
  BY <1>1, <1>2, <1>3
<1>5. SubSeq(t \o u, 1, Len(s)) = s
  BY <1>4, SeqEqual
<1> QED
  BY <1>4, <1>5 DEF IsPrefix

LEMMA MoveHead ==
  ASSUME NEW S, NEW s \in Seq(S), NEW t \in Seq(S), t # <<>>
  PROVE  /\ Append(s, Head(t)) \in Seq(S) /\ Tail(t) \in Seq(S)
         /\ Append(s, Head(t)) \o Tail(t) = s \o t
         /\ Len(Append(s, Head(t))) = Len(s) + 1
         /\ \A i \in 1..Len(s) : Append(s, Head(t))[i] = s[i]
<1>1. /\ Head(t) \in S /\ Tail(t) \in Seq(S) /\ Len(Tail(t)) = Len(t) - 1
      /\ \A i \in 1..Len(Tail(t)) : Tail(t)[i] = t[i + 1]
      /\ Head(t) = t[1]
  BY HeadTailProperties
<1> DEFINE a == Append(s, Head(t))
<1>2. /\ a \in Seq(S) /\ Len(a) = Len(s) + 1
      /\ \A i \in 1..Len(s) : a[i] = s[i]
      /\ a[Len(s) + 1] = t[1]
  BY <1>1, AppendProperties
<1> HIDE DEF a
<1>3. /\ a \o Tail(t) \in Seq(S) /\ Len(a \o Tail(t)) = Len(a) + Len(Tail(t))
      /\ \A i \in 1..(Len(a) + Len(Tail(t))) :
           (a \o Tail(t))[i] = IF i =< Len(a) THEN a[i] ELSE Tail(t)[i - Len(a)]
  BY <1>1, <1>2, ConcatProperties
<1>4. /\ s \o t \in Seq(S) /\ Len(s \o t) = Len(s) + Len(t)
      /\ \A i \in 1..(Len(s) + Len(t)) : (s \o t)[i] = IF i =< Len(s) THEN s[i] ELSE t[i - Len(s)]
  BY ConcatProperties
<1>5. Len(s) \in Nat /\ Len(t) \in Nat \ {0}
  BY EmptySeq, LenProperties
<1>6. ASSUME NEW i \in 1..Len(a \o Tail(t)) PROVE (a \o Tail(t))[i] = (s \o t)[i]
  <2>1. CASE i =< Len(s)
    BY <1>1, <1>2, <1>3, <1>4, <1>5, <2>1
  <2>2. CASE i = Len(s) + 1
    BY <1>1, <1>2, <1>3, <1>4, <1>5, <2>2
  <2>3. CASE i > Len(s) + 1
    <3>1. i - Len(a) \in 1..Len(Tail(t)) /\ (i - Len(a)) + 1 = i - Len(s)
      BY <1>1, <1>2, <1>3, <1>5, <2>3
    <3> QED
      BY <1>1, <1>2, <1>3, <1>4, <1>5, <2>3, <3>1
  <2> QED
    BY <1>1, <1>2, <1>3, <1>5, <2>1, <2>2, <2>3
<1>7. a \o Tail(t) = s \o t
  BY <1>1, <1>2, <1>3, <1>4, <1>5, <1>6, SeqEqual
<1> QED
  BY <1>1, <1>2, <1>7 DEF a

-------------------------------------------------------------------------------
(* What the invariant says of cells.                                       *)

LEMMA ScriptTypes == \A s \in Scripts : s \in Seq(Requests)
  BY DuplexAssumption DEF Requests

LEMMA CellCounts ==
  ASSUME script \in Seq(Requests)
  PROVE  \A k \in 0..Len(script) : Upto(k) \in Nat
<1> SUFFICES ASSUME NEW k \in 0..Len(script) PROVE Upto(k) \in Nat
  OBVIOUS
<1>1. CASE k = 0
  BY <1>1 DEF Upto
<1>2. CASE k # 0
  <2>1. script[k] \in Requests
    BY <1>2, ElementOfSeq
  <2> QED
    BY <1>2, <2>1 DEF Upto, Requests
<1> QED
  BY <1>1, <1>2

\* An answer has at least one cell, all of them for the same request.
LEMMA AnswerTypes ==
  ASSUME NEW k \in Nat, NEW body \in Nat, NEW close \in BOOLEAN
  PROVE  /\ AnswerCells(k, body, close) \in Seq(Cells)
         /\ Len(AnswerCells(k, body, close)) = body + 1
         /\ \A i \in 1..(body + 1) :
              AnswerCells(k, body, close)[i] = [to |-> k, last |-> i = body + 1, close |-> close]
<1>1. \A i \in 1..(body + 1) : [to |-> k, last |-> i = body + 1, close |-> close] \in Cells
  BY DEF Cells
<1> QED
  BY <1>1 DEF AnswerCells

\* A client that waits and goes on after the last request handled has read
\* all there is to read of the answers to the requests handled.
LEMMA AllRead ==
  ASSUME IInv, handled > 0 => AnswerRead(handled)
  PROVE  \A i \in 1..Len(meant) : meant[i].to # 0 => i =< got
<1>1. /\ out \in Seq(Cells) /\ meant \in Seq(Cells) /\ got \in Nat /\ got =< Len(out)
      /\ handled \in Nat /\ Len(meant) \in Nat /\ Len(out) \in Nat
  BY LenProperties, DuplexAssumption DEF IInv, Types, TypeOK
<1>2. Len(out) =< Len(meant) /\ \A i \in 1..Len(out) : meant[i] = out[i]
  BY <1>1, PrefixAgrees DEF IInv, AnswersInFull
<1> SUFFICES ASSUME NEW j \in 1..Len(meant), meant[j].to # 0, j > got PROVE FALSE
  BY <1>1
<1>3. meant[j].to \in 1..handled
  BY <1>1 DEF IInv, InOrder
<1>4. PICK i \in 1..got : out[i].to = handled /\ out[i].last
  BY <1>1, <1>3 DEF AnswerRead
<1>5. i \in 1..Len(meant) /\ meant[i].to = handled /\ meant[i].last /\ i < j
  BY <1>1, <1>2, <1>4
<1>6. meant[i].to < meant[j].to
  BY <1>5 DEF IInv, InOrder
<1> QED
  BY <1>1, <1>3, <1>5, <1>6

\* What a client has read stays read.
LEMMA ReadStaysRead ==
  ASSUME IInv, got \in Nat, got' \in Nat, got =< got', \A i \in 1..got : out'[i] = out[i],
         NEW k, AnswerRead(k)
  PROVE  AnswerRead(k)'
  BY DEF AnswerRead

-------------------------------------------------------------------------------
(* The steps of the client.                                                *)

LEMMA InitOK == Init => IInv
<1> SUFFICES ASSUME Init PROVE IInv
  OBVIOUS
<1>1. script \in Seq(Requests) /\ \A S : <<>> \in Seq(S)
  BY ScriptTypes DEF Init
<1>2. Len(script) \in Nat /\ Total \in Nat /\ Upto(0) = 0
  <2>1. Len(script) \in Nat
    BY <1>1, LenProperties
  <2> QED
    BY <1>1, <2>1, CellCounts DEF Upto, Total
<1>3. /\ script \in Scripts /\ mode \in Modes
      /\ sent = 0 /\ read = 0 /\ from = 0 /\ request = NoRequest /\ cut = FALSE /\ fin = FALSE /\ link = "up"
      /\ pc = "parse" /\ handled = 0 /\ todo = <<>> /\ after = "parse"
      /\ out = <<>> /\ got = 0 /\ meant = <<>> /\ done = <<>> /\ cause = "none"
      /\ Len(<<>>) = 0
  BY DEF Init
<1>4. Types /\ Loop /\ InStep
  <2>1. InRoom \in Nat /\ OutRoom \in Nat /\ MaxRequests \in Nat /\ MaxRequests > 0
    BY DuplexAssumption
  <2>2. Upto(handled) = 0 /\ Len(out) = 0 /\ Len(done) = 0 /\ request \in Requests
    BY <1>2, <1>3 DEF NoRequest, Requests
  <2>3. /\ from \in 0..read /\ handled =< Len(script) /\ Upto(handled) =< read /\ from = Upto(handled)
        /\ read \in 0..sent /\ sent \in 0..Total /\ sent - read =< InRoom
        /\ got \in 0..Len(out) /\ Len(out) - got =< OutRoom
        /\ handled = Len(done) /\ handled \in 0..MaxRequests
        /\ handled < MaxRequests
    BY ONLY <1>2, <1>3, <2>1, <2>2
  <2>4. Types
    BY <1>1, <1>3, <2>2, <2>3 DEF Types, TypeOK
  <2> QED
    BY <1>3, <2>3, <2>4 DEF Loop, InStep
<1>5. AnswersInFull
  <2>1. IsPrefix(<<>>, <<>>)
    BY <1>3 DEF IsPrefix
  <2> QED
    BY <1>3, <2>1 DEF AnswersInFull
<1>6. Writing /\ InOrder /\ HandledIsAnswered
  BY <1>3 DEF Writing, InOrder, HandledIsAnswered
<1>7. Waited
  <2>1. \A k \in 1..Len(script) : Upto(k) \in Nat
    BY <1>1, <1>2, CellCounts
  <2> QED
    BY <1>3, <2>1 DEF Waited
<1> QED
  BY <1>4, <1>5, <1>6, <1>7 DEF IInv

\* What the counts are, for the steps that follow.
LEMMA Facts ==
  ASSUME IInv
  PROVE  /\ script \in Seq(Requests) /\ Len(script) \in Nat /\ Total \in Nat
         /\ \A k \in 0..Len(script) : Upto(k) \in Nat
         /\ out \in Seq(Cells) /\ todo \in Seq(Cells) /\ meant \in Seq(Cells) /\ done \in Seq(Requests)
         /\ Len(out) \in Nat /\ Len(todo) \in Nat /\ Len(meant) \in Nat /\ Len(done) \in Nat
         /\ sent \in Nat /\ read \in Nat /\ from \in Nat /\ got \in Nat /\ handled \in Nat
         /\ got =< Len(out) /\ from =< read /\ read =< sent /\ sent =< Total
         /\ request \in Requests /\ cut \in BOOLEAN
         /\ ~cut => /\ handled = Len(done) /\ handled \in 0..Len(script)
                    /\ Upto(handled) \in Nat /\ Upto(handled) =< read
<1>1. /\ script \in Seq(Requests) /\ out \in Seq(Cells) /\ todo \in Seq(Cells) /\ meant \in Seq(Cells)
      /\ done \in Seq(Requests)
  BY DEF IInv, Types
<1>2. /\ Len(script) \in Nat /\ Len(out) \in Nat /\ Len(todo) \in Nat /\ Len(meant) \in Nat /\ Len(done) \in Nat
  BY <1>1, LenProperties
<1>3. \A k \in 0..Len(script) : Upto(k) \in Nat
  BY <1>1, CellCounts
<1>4. Total \in Nat
  BY <1>2, <1>3 DEF Total
<1>5. /\ sent \in Nat /\ read \in Nat /\ from \in Nat /\ got \in Nat /\ handled \in Nat
      /\ got =< Len(out) /\ from =< read /\ read =< sent /\ sent =< Total
      /\ request \in Requests /\ cut \in BOOLEAN
  BY <1>1, <1>2, <1>4, DuplexAssumption DEF IInv, Types, TypeOK
<1>6. ~cut => handled = Len(done) /\ handled \in 0..Len(script) /\ Upto(handled) =< read
  BY <1>2, <1>5 DEF IInv, InStep
<1> QED
  BY <1>1, <1>2, <1>3, <1>4, <1>5, <1>6

\* Send is where a waiting client waits: the requests it is beyond afterwards are
\* the ones it had sent.
LEMMA SendKeeps == IInv /\ Send => IInv'
<1> SUFFICES ASSUME IInv, Send PROVE IInv'
  OBVIOUS
<1>1. /\ UNCHANGED <<script, mode, fin, got, read, from, request, cut, pc, handled, todo, after, out, meant, done, cause>>
      /\ sent' = sent + 1 /\ sent < Total /\ ~Crowded /\ MaySend /\ link = "up" /\ pc # "upgraded"
      /\ link' = IF pc = "ended" THEN "dead" ELSE link
  BY DEF Send, client, reader
<1>2. Types'
  <2>1. sent' \in 0..Total /\ sent' - read =< InRoom
    BY <1>1, Facts, DuplexAssumption DEF Crowded
  <2>2. link' \in {"up", "reset", "dead"} /\ (link' = "dead" => pc' = "ended")
    BY <1>1
  <2>3. Total' = Total /\ read \in 0..sent'
    BY <1>1, Facts DEF Total, Upto
  <2> QED
    BY <1>1, <2>1, <2>2, <2>3 DEF IInv, Types, TypeOK
<1>3. Loop' /\ InStep' /\ InOrder'
  BY <1>1 DEF IInv, Loop, InStep, Upto, InOrder
<1>4. Writing' /\ AnswersInFull'
  BY <1>1 DEF IInv, Writing, AnswersInFull
<1>5. Waited'
  <2> SUFFICES ASSUME mode = "waits", NEW k \in 1..Len(script), Upto(k) < sent + 1 PROVE AnswerRead(k)
    BY <1>1 DEF Waited, Upto, AnswerRead
  <2>1. Upto(k) =< sent
    BY Facts
  <2> QED
    BY <1>1, <2>1 DEF MaySend
<1>6. HandledIsAnswered'
  <2> SUFFICES ASSUME mode = "waits", ~cut PROVE \A i \in 1..Len(meant) : meant[i].to # 0 => i =< got
    BY <1>1 DEF HandledIsAnswered
  <2>1. handled > 0 => AnswerRead(handled)
    BY <1>1, Facts DEF MaySend
  <2> QED
    BY <2>1, AllRead
<1> QED
  BY <1>2, <1>3, <1>4, <1>5, <1>6 DEF IInv

LEMMA ClientKeeps == IInv /\ (Receive \/ Finish \/ Reset) => IInv'
<1> SUFFICES ASSUME IInv, Receive \/ Finish \/ Reset PROVE IInv'
  OBVIOUS
<1>1. /\ UNCHANGED <<script, mode, sent, read, from, request, cut, pc, handled, todo, after, out, meant, done, cause>>
      /\ link = "up" /\ link' \in {"up", "reset"} /\ fin' \in BOOLEAN
      /\ got' \in {got, got + 1} /\ got' =< Len(out)
  <2>1. fin \in BOOLEAN /\ got + 1 \in Nat /\ got =< Len(out) /\ (got < Len(out) => got + 1 =< Len(out))
    BY Facts DEF IInv, Types, TypeOK
  <2>2. CASE Receive
    BY <2>1, <2>2 DEF Receive, reader
  <2>3. CASE Finish
    BY <2>1, <2>3 DEF Finish, reader
  <2>4. CASE Reset
    BY <2>1, <2>4 DEF Reset, client, reader
  <2> QED
    BY <2>2, <2>3, <2>4
<1>2. Types'
  <2>1. Total' = Total
    BY <1>1 DEF Total, Upto
  <2>2. got' \in 0..Len(out) /\ Len(out) - got' =< OutRoom
    BY <1>1, Facts, DuplexAssumption, SMTT(30) DEF IInv, Types, TypeOK
  <2> QED
    BY <1>1, <2>1, <2>2 DEF IInv, Types, TypeOK
<1>3. Loop' /\ InStep' /\ InOrder'
  BY <1>1 DEF IInv, Loop, InStep, Upto, InOrder
<1>4. Writing' /\ AnswersInFull' /\ HandledIsAnswered'
  BY <1>1 DEF IInv, Writing, AnswersInFull, HandledIsAnswered
<1>5. Waited'
  <2> SUFFICES ASSUME mode = "waits", NEW k \in 1..Len(script), Upto(k) < sent PROVE AnswerRead(k)'
    BY <1>1 DEF Waited, Upto
  <2>1. AnswerRead(k)
    BY DEF IInv, Waited
  <2> QED
    BY <1>1, <2>1, Facts, ReadStaysRead
<1> QED
  BY <1>2, <1>3, <1>4, <1>5 DEF IInv

-------------------------------------------------------------------------------
(* The steps of the task.                                                  *)

\* What is not written when a task leaves is not written because of a reset or
\* because the task was dropped.
LEMMA LeaveKeeps ==
  ASSUME IInv, pc \notin Ended,
         NEW why \in {"quiet", "answered", "panic", "cancelled"}, Leave(why),
         UNCHANGED <<client, sent, reader, handled, todo, after, out, meant, done>>,
         out = meant \/ link = "reset" \/ why = "cancelled"
  PROVE  IInv'
<1>1. /\ UNCHANGED <<script, mode, fin, got, sent, read, from, request, cut, handled, todo, after, out, meant, done>>
      /\ pc' = "ended" /\ cause' = why
      /\ link' = IF link = "up" /\ Arrived THEN "dead" ELSE link
      /\ link \in {"up", "reset", "dead"} /\ link # "dead"
  BY DEF client, reader, Leave, IInv, Types, TypeOK, Ended
<1>2. Types'
  <2>1. Total' = Total
    BY <1>1 DEF Total, Upto
  <2> QED
    BY <1>1, <2>1 DEF IInv, Types, TypeOK, Ended
<1>3. Loop' /\ InStep' /\ InOrder' /\ Writing'
  BY <1>1 DEF IInv, Loop, InStep, Upto, InOrder, Writing, Ended
<1>4. AnswersInFull'
  BY <1>1 DEF IInv, AnswersInFull
<1>5. Waited'
  BY <1>1 DEF IInv, Waited, Upto, AnswerRead
<1>6. HandledIsAnswered'
  <2> SUFFICES ASSUME mode = "waits", ~cut, Arrived PROVE \A i \in 1..Len(meant) : meant[i].to # 0 => i =< got
    BY <1>1 DEF HandledIsAnswered
  <2>1. Upto(handled) < sent
    BY Facts DEF Arrived
  <2>2. handled > 0 => AnswerRead(handled)
    BY <2>1, Facts DEF IInv, Waited
  <2> QED
    BY <2>2, AllRead
<1> QED
  BY <1>2, <1>3, <1>4, <1>5, <1>6 DEF IInv

\* Before an answer all that was meant has been written, unless the client has
\* reset the connection.
LEMMA NothingLeft == IInv /\ pc \in {"parse", "read", "handle"} => out = meant \/ link = "reset"
  BY DEF IInv, AnswersInFull, Loop

LEMMA QuitKeeps == ASSUME IInv, pc \in {"parse", "read"}, Quit PROVE IInv'
  BY NothingLeft, LeaveKeeps DEF Quit, Ended

LEMMA PanicKeeps == IInv /\ Panic => IInv'
  BY NothingLeft, LeaveKeeps DEF Panic, Ended

LEMMA CancelKeeps == IInv /\ Cancel => IInv'
  BY LeaveKeeps DEF Cancel

\* Answers, the first n cells of a sequence, to some of d requests in their order.
Ordered(n, d, cells) ==
  /\ \A i \in 1..n : cells[i].to \in 0..d
  /\ \A i, j \in 1..n : i < j /\ cells[i].last /\ cells[j].to # 0 => cells[i].to < cells[j].to

LEMMA OrderedMore ==
  ASSUME NEW n \in Nat, NEW body \in Nat, NEW d \in Nat, NEW d2 \in Nat, NEW k \in Nat,
         NEW old, NEW new, Ordered(n, d, old), d =< d2, k =< d2, k = 0 \/ k = d + 1,
         \A i \in 1..n : new[i] = old[i],
         \A i \in 1..(body + 1) : new[n + i].to = k /\ (new[n + i].last <=> i = body + 1)
  PROVE  Ordered(n + (body + 1), d2, new)
<1>1. \A j \in 1..(n + (body + 1)) :
        \/ j \in 1..n /\ new[j] = old[j]
        \/ j > n /\ new[j].to = k /\ (new[j].last <=> j = n + (body + 1))
  <2> SUFFICES ASSUME NEW j \in 1..(n + (body + 1)), ~(j \in 1..n)
               PROVE  j > n /\ new[j].to = k /\ (new[j].last <=> j = n + (body + 1))
    OBVIOUS
  <2>1. PICK i \in 1..(body + 1) : j = n + i
    <3>1. j - n \in 1..(body + 1) /\ j = n + (j - n)
      OBVIOUS
    <3> QED
      BY <3>1
  <2> QED
    BY <2>1
<1>2. \A j \in 1..n : old[j].to \in 0..d
  BY DEF Ordered
<1>3. \A j \in 1..(n + (body + 1)) : new[j].to \in 0..d2
  BY <1>1, <1>2
<1>4. ASSUME NEW i \in 1..(n + (body + 1)), NEW j \in 1..(n + (body + 1)),
             i < j, new[i].last, new[j].to # 0
      PROVE  new[i].to < new[j].to
  <2>1. CASE j \in 1..n /\ new[j] = old[j]
    <3>1. i \in 1..n /\ new[i] = old[i]
      BY <1>4, <2>1
    <3> QED
      BY <1>4, <2>1, <3>1 DEF Ordered
  <2>2. CASE j > n /\ new[j].to = k
    <3>1. i \in 1..n /\ new[i] = old[i]
      BY <1>1, <1>4, <2>2
    <3>2. old[i].to \in 0..d /\ k = d + 1
      BY <1>2, <1>4, <2>2, <3>1
    <3> QED
      BY <2>2, <3>1, <3>2
  <2> QED
    BY <1>1, <2>1, <2>2
<1> QED
  BY <1>3, <1>4 DEF Ordered

\* send_response writes after all that was written, in answer to a request later
\* than all those answered, or to none.
LEMMA AnswerKeeps ==
  ASSUME IInv, pc \in {"parse", "read", "handle"},
         NEW k \in Nat, NEW body \in Nat, NEW close \in BOOLEAN, NEW next,
         SendResponse(AnswerCells(k, body, close), next),
         UNCHANGED <<client, sent, reader, out>>,
         handled' \in Nat, handled =< handled', k =< handled',
         k = 0 \/ k = handled + 1
  PROVE  /\ UNCHANGED <<script, mode, fin, got, sent, read, from, request, cut, out, link, cause>>
         /\ todo' \in Seq(Cells) /\ meant' \in Seq(Cells) /\ pc' = "write" /\ after' = next
         /\ Writing' /\ AnswersInFull' /\ InOrder' /\ Waited' /\ HandledIsAnswered'
<1> DEFINE cells == AnswerCells(k, body, close)
<1>1. /\ cells \in Seq(Cells) /\ Len(cells) = body + 1
      /\ \A i \in 1..(body + 1) : cells[i] = [to |-> k, last |-> i = body + 1, close |-> close]
  BY AnswerTypes
<1> HIDE DEF cells
<1>2. /\ UNCHANGED <<script, mode, fin, got, sent, read, from, request, cut, out, link, cause>>
      /\ pc' = "write" /\ after' = next /\ todo' = cells /\ meant' = meant \o cells
      /\ link \in {"up", "reset", "dead"} /\ link # "dead"
  BY DEF SendResponse, client, reader, cells, IInv, Types, TypeOK
<1>3. /\ meant' \in Seq(Cells) /\ Len(meant') = Len(meant) + (body + 1)
      /\ \A i \in 1..Len(meant) : meant'[i] = meant[i]
      /\ \A i \in 1..(body + 1) : meant'[Len(meant) + i] = cells[i]
  <2>1. meant \in Seq(Cells) /\ cells \in Seq(Cells) /\ meant' = meant \o cells /\ Len(cells) = body + 1
    BY <1>1, <1>2, Facts
  <2>2. /\ meant \o cells \in Seq(Cells)
        /\ Len(meant \o cells) = Len(meant) + Len(cells)
        /\ \A i \in 1..(Len(meant) + Len(cells)) :
             (meant \o cells)[i] = IF i =< Len(meant) THEN meant[i] ELSE cells[i - Len(meant)]
    BY ONLY <2>1, ConcatProperties
  <2>3. Len(meant) \in Nat /\ Len(cells) \in Nat
    BY ONLY <2>1, LenProperties
  <2>4. \A i \in 1..Len(cells) : /\ Len(meant) + i \in 1..(Len(meant) + Len(cells))
                                 /\ ~(Len(meant) + i =< Len(meant)) /\ (Len(meant) + i) - Len(meant) = i
    BY ONLY <2>3
  <2>5. \A i \in 1..Len(meant) : i \in 1..(Len(meant) + Len(cells)) /\ i =< Len(meant)
    BY ONLY <2>3
  <2> QED
    BY ONLY <2>1, <2>2, <2>4, <2>5
<1>4. Writing' /\ AnswersInFull'
  <2>1. IsPrefix(out, meant')
    BY <1>1, <1>2, Facts, PrefixOfMore DEF IInv, AnswersInFull
  <2>2. link' # "reset" => meant' = out' \o todo'
    BY <1>2, NothingLeft
  <2> QED
    BY <1>2, <2>1, <2>2 DEF Writing, AnswersInFull
<1>5. InOrder'
  <2>1. \A i \in 1..(body + 1) :
          meant'[Len(meant) + i].to = k /\ (meant'[Len(meant) + i].last <=> i = body + 1)
    <3> SUFFICES ASSUME NEW i \in 1..(body + 1)
                 PROVE  /\ meant'[Len(meant) + i].to = k
                        /\ meant'[Len(meant) + i].last <=> i = body + 1
      OBVIOUS
    <3>1. meant'[Len(meant) + i] = [to |-> k, last |-> i = body + 1, close |-> close]
      BY ONLY <1>1, <1>3
    <3>2. /\ meant'[Len(meant) + i].to = k
          /\ meant'[Len(meant) + i].last = (i = body + 1)
      BY ONLY <3>1
    <3> QED
      BY ONLY <3>2
  <2>2. Len(meant) \in Nat /\ handled \in Nat
    BY Facts
  <2>3. PICK n, d \in Nat : n = Len(meant) /\ d = handled
    BY <2>2
  <2>4. PICK old : old = meant
    OBVIOUS
  <2>5. Ordered(n, d, old)
    BY <2>3, <2>4 DEF IInv, InOrder, Ordered
  <2>6. PICK new, d2 : new = meant' /\ d2 = handled' /\ d2 \in Nat /\ d =< d2 /\ k =< d2
    BY <2>3
  <2>7. Ordered(n + (body + 1), d2, new)
    BY <1>3, <2>1, <2>3, <2>4, <2>5, <2>6, OrderedMore
  <2> QED
    BY <1>3, <2>3, <2>6, <2>7 DEF InOrder, Ordered
<1>6. Waited' /\ HandledIsAnswered'
  BY <1>2 DEF IInv, Waited, Upto, AnswerRead, HandledIsAnswered
<1> QED
  BY <1>1, <1>2, <1>3, <1>4, <1>5, <1>6

LEMMA RejectKeeps == ASSUME IInv, pc \in {"parse", "read"}, Reject PROVE IInv'
<1>1. /\ SendResponse(AnswerCells(0, 0, TRUE), "ended")
      /\ UNCHANGED <<client, sent, reader, handled, out, done>>
  BY DEF Reject
<1>2. /\ UNCHANGED <<script, mode, fin, got, sent, read, from, request, cut, out, link, cause, handled, done>>
      /\ todo' \in Seq(Cells) /\ meant' \in Seq(Cells) /\ pc' = "write" /\ after' = "ended"
      /\ Writing' /\ AnswersInFull' /\ InOrder' /\ Waited' /\ HandledIsAnswered'
  <2>1. UNCHANGED <<client, sent, reader, out>> /\ UNCHANGED <<handled, done>>
    BY ONLY <1>1
  <2>2. handled' \in Nat /\ handled =< handled' /\ 0 =< handled'
    <3>1. handled \in Nat /\ handled' = handled
      BY <2>1, Facts
    <3> QED
      BY ONLY <3>1
  <2> QED
    BY <1>1, <2>1, <2>2, AnswerKeeps
<1>3. Types'
  <2>1. Total' = Total
    BY <1>2 DEF Total, Upto
  <2>2. link # "dead"
    BY DEF IInv, Types, TypeOK
  <2> QED
    BY <1>2, <2>1, <2>2 DEF IInv, Types, TypeOK, Ended
<1>4. Loop' /\ InStep'
  BY <1>2 DEF IInv, Loop, InStep, Upto, Ended
<1> QED
  BY <1>2, <1>3, <1>4 DEF IInv

\* Cells are taken only as far as they have come, and in step as long as no body
\* has been cut.
LEMMA AcceptKeeps ==
  ASSUME IInv, pc \in {"parse", "read"}, Started, NEW idleEnd, "ready" \in Verdicts(idleEnd), Accept
  PROVE  IInv'
<1>1. PICK last, taken :
        /\ AcceptAs(last, taken)
        /\ ~cut => taken = Foremost /\ last = IF Foremost.framed THEN Foremost.end ELSE read
        /\ cut => /\ last \in (from + 1)..read
                  /\ taken \in [end : {last}, kind : {"plain", "close", "upgrade"}, framed : {TRUE}]
  <2>1. CASE ~cut
    BY <2>1 DEF Accept
  <2>2. CASE cut
    <3>1. PICK last \in (from + 1)..read, kind \in {"plain", "close", "upgrade"} :
            AcceptAs(last, [end |-> last, kind |-> kind, framed |-> TRUE])
      BY <2>2 DEF Accept
    <3>2. [end |-> last, kind |-> kind, framed |-> TRUE] \in
            [end : {last}, kind : {"plain", "close", "upgrade"}, framed : {TRUE}]
      OBVIOUS
    <3> QED
      BY <2>2, <3>1, <3>2
  <2> QED
    BY <2>1, <2>2
<1>2. /\ UNCHANGED <<script, mode, fin, got, sent, read, link, handled, todo, after, out, meant, done, cause>>
      /\ pc' = "handle" /\ from' = last /\ request' = taken /\ cut' = (cut \/ last # taken.end)
  BY <1>1 DEF AcceptAs, client
<1>3. ~cut => /\ handled < Len(script) /\ handled + 1 \in 1..Len(script)
              /\ taken = script[handled + 1] /\ taken \in Requests /\ last \in 0..read
  <2> SUFFICES ASSUME ~cut
               PROVE  /\ handled < Len(script) /\ handled + 1 \in 1..Len(script)
                      /\ taken = script[handled + 1] /\ taken \in Requests /\ last \in 0..read
    OBVIOUS
  <2>1. from = Upto(handled) /\ read > from
    BY DEF IInv, InStep, Started
  <2>2. handled # Len(script)
    BY <2>1, Facts DEF Total
  <2>3. handled < Len(script) /\ handled + 1 \in 1..Len(script)
    BY <2>2, Facts
  <2>4. taken = script[handled + 1] /\ taken \in Requests
    BY <1>1, <2>3, Facts, ElementOfSeq DEF Foremost
  <2>5. taken = Foremost /\ Foremost.framed => Foremost.end =< read
    BY <1>1 DEF Verdicts
  <2>6. taken.end \in Nat /\ read \in Nat
    BY <2>4, Facts DEF Requests
  <2> QED
    BY <1>1, <2>3, <2>4, <2>5, <2>6
<1>4. cut => taken \in Requests /\ last \in 0..read
  <2> SUFFICES ASSUME cut PROVE taken \in Requests /\ last \in 0..read
    OBVIOUS
  <2>1. last \in (from + 1)..read /\ taken \in [end : {last}, kind : {"plain", "close", "upgrade"}, framed : {TRUE}]
    BY <1>1
  <2>2. from \in Nat /\ read \in Nat
    BY Facts
  <2>3. last \in Nat \ {0} /\ last \in 0..read
    BY ONLY <2>1, <2>2
  <2> QED
    BY <2>1, <2>3 DEF Requests
<1>5. Types'
  <2>1. Total' = Total
    BY <1>2 DEF Total, Upto
  <2>2. link # "dead" /\ cut \in BOOLEAN
    BY DEF IInv, Types, TypeOK
  <2>3. from' \in 0..read /\ request' \in Requests /\ cut' \in BOOLEAN /\ (~cut' => ~cut)
    BY <1>2, <1>3, <1>4, <2>2
  <2> QED
    BY <1>2, <2>1, <2>2, <2>3 DEF IInv, Types, TypeOK, Ended
<1>6. Loop' /\ InStep'
  <2>1. Loop'
    BY <1>2, Facts DEF IInv, Loop, Ended
  <2>2. ~cut' => /\ ~cut /\ handled < Len(script) /\ request' = script[handled + 1] /\ from' = request'.end
    BY <1>2, <1>3
  <2> QED
    BY <1>2, <2>1, <2>2 DEF IInv, InStep, Upto
<1>7. Writing' /\ AnswersInFull' /\ InOrder' /\ Waited' /\ HandledIsAnswered'
  BY <1>2 DEF IInv, Writing, AnswersInFull, InOrder, Waited, Upto, AnswerRead, HandledIsAnswered, Loop
<1> QED
  BY <1>5, <1>6, <1>7 DEF IInv

LEMMA ReadKeeps == IInv /\ (Await \/ Read) => IInv'
<1> SUFFICES ASSUME IInv, Await \/ Read PROVE IInv'
  OBVIOUS
<1>1. /\ UNCHANGED <<script, mode, fin, got, sent, from, request, cut, link, handled, todo, after, out, meant, done, cause>>
      /\ pc \in {"parse", "read"} /\ pc' \in {"parse", "read"}
      /\ read' \in read..sent
  <2>1. CASE Await
    BY <2>1, Facts DEF Await, client, reader
  <2>2. CASE Read
    BY <2>2, Facts DEF Read, client, reader
  <2> QED
    BY <2>1, <2>2
<1>2. Types'
  <2>1. Total' = Total
    BY <1>1 DEF Total, Upto
  <2>2. link # "dead"
    BY <1>1 DEF IInv, Types, TypeOK
  <2>3. from \in 0..read' /\ read' \in 0..sent /\ sent - read' =< InRoom
    <3>1. /\ read \in Nat /\ sent \in Nat /\ from \in Nat /\ from =< read
          /\ sent - read =< InRoom
      BY Facts DEF IInv, Types, TypeOK
    <3>2. InRoom \in Nat
      BY DuplexAssumption
    <3>3. read' \in read..sent
      BY <1>1
    <3>4. PICK u, r, s, r2, room \in Int :
            u = from /\ r = read /\ s = sent /\ r2 = read' /\ room = InRoom
      BY <3>1, <3>2, <3>3
    <3>5. 0 =< u /\ u =< r /\ r =< r2 /\ r2 =< s /\ s - r =< room
      BY ONLY <3>1, <3>2, <3>3, <3>4
    <3>6. u \in 0..r2 /\ r2 \in 0..s /\ s - r2 =< room
      BY ONLY <3>5
    <3> QED
      BY ONLY <3>4, <3>6
  <2> QED
    BY <1>1, <2>1, <2>2, <2>3 DEF IInv, Types, TypeOK, Ended
<1>3. Loop' /\ InStep'
  <2>1. Loop'
    BY <1>1 DEF IInv, Loop, Ended
  <2>2. ~cut => Upto(handled) =< read'
    BY <1>1, Facts
  <2> QED
    BY <1>1, <2>1, <2>2 DEF IInv, InStep, Upto
<1>4. Writing' /\ AnswersInFull' /\ InOrder' /\ Waited' /\ HandledIsAnswered'
  BY <1>1 DEF IInv, Loop, Writing, AnswersInFull, InOrder, Waited, Upto, AnswerRead, HandledIsAnswered
<1> QED
  BY <1>2, <1>3, <1>4 DEF IInv

LEMMA ReaderKeeps == IInv /\ ReaderNext => IInv'
<1> SUFFICES ASSUME IInv, ReaderNext PROVE IInv'
  OBVIOUS
<1>1. CASE Take
  <2>1. Started
    BY <1>1 DEF Take, Verdicts
  <2> QED
    BY <1>1, <2>1, AcceptKeeps DEF Take
<1>2. CASE Await \/ Read
  BY <1>2, ReadKeeps
<1>3. CASE Refuse \/ Deadline \/ ReadEnd \/ ReadTimeout \/ ReadError
  <2>1. pc \in {"parse", "read"} /\ (Reject \/ Quit \/ (Started /\ "ready" \in Verdicts(TRUE) /\ Accept))
    BY <1>3 DEF Refuse, Deadline, ReadEnd, ReadTimeout, ReadError, AtInputEnd
  <2> QED
    BY <2>1, RejectKeeps, QuitKeeps, AcceptKeeps
<1> QED
  BY <1>1, <1>2, <1>3 DEF ReaderNext

\* The request whose handler has run is counted, and answered by one answer.
LEMMA HandleGives ==
  ASSUME IInv, Handle
  PROVE  /\ pc = "handle" /\ handled' = handled + 1
         /\ done' \in Seq(Requests) /\ Len(done') \in Nat
         /\ done' = IF cut THEN done ELSE Append(done, request)
         /\ ~cut => Len(done') = Len(done) + 1
         /\ UNCHANGED <<client, sent, reader, out>>
         /\ \E body \in Nat, close \in BOOLEAN, next \in {"parse"} \cup Ended :
              /\ SendResponse(AnswerCells(Current, body, close), next)
              /\ next = "parse" => ~LastAllowed(handled + 1)
              /\ next = "upgraded" => request.kind = "upgrade"
<1>1. /\ pc = "handle" /\ handled' = handled + 1 /\ UNCHANGED <<client, sent, reader, out>>
      /\ done' = IF cut THEN done ELSE Append(done, request)
  BY DEF Handle
<1>2. /\ done' \in Seq(Requests) /\ Len(done') \in Nat
      /\ ~cut => Len(done') = Len(done) + 1
  <2>1. done \in Seq(Requests) /\ request \in Requests /\ Len(done) \in Nat
    BY Facts
  <2>2. Append(done, request) \in Seq(Requests) /\ Len(Append(done, request)) = Len(done) + 1
    BY ONLY <2>1, AppendProperties
  <2> QED
    BY <1>1, <2>1, <2>2
<1>3. BodyCells \in Nat
  BY DuplexAssumption
<1>4. PICK outcome \in {"ok", "close", "switch", "badheader"} : Respond(outcome)
  BY DEF Handle
<1> DEFINE close == request.kind = "close" \/ outcome = "close" \/ LastAllowed(handled + 1)
<1>5. close \in BOOLEAN /\ (~close => ~LastAllowed(handled + 1))
  OBVIOUS
<1>6. /\ "ended" \in {"parse"} \cup Ended /\ "upgraded" \in {"parse"} \cup Ended
      /\ "ended" # "parse" /\ "ended" # "upgraded" /\ "parse" # "upgraded"
  BY DEF Ended
<1>7. \E body \in Nat, ends \in BOOLEAN, next \in {"parse"} \cup Ended :
        /\ SendResponse(AnswerCells(Current, body, ends), next)
        /\ next = "parse" => ~LastAllowed(handled + 1)
        /\ next = "upgraded" => request.kind = "upgrade"
  <2>1. CASE outcome = "badheader"
    <3>1. SendResponse(AnswerCells(Current, 0, TRUE), "ended")
      BY <1>4, <2>1 DEF Respond, Switches
    <3>2. 0 \in Nat /\ TRUE \in BOOLEAN
      OBVIOUS
    <3> QED
      BY ONLY <1>6, <3>1, <3>2
  <2>2. CASE outcome # "badheader" /\ Switches(outcome)
    <3>1. SendResponse(AnswerCells(Current, 0, FALSE), "upgraded")
      BY <1>4, <2>2 DEF Respond
    <3> QED
      BY <1>6, <2>2, <3>1 DEF Switches
  <2>3. CASE outcome # "badheader" /\ ~Switches(outcome)
    <3>1. SendResponse(AnswerCells(Current, BodyCells, close), IF close THEN "ended" ELSE "parse")
      BY <1>4, <2>3 DEF Respond
    <3> HIDE DEF close
    <3>2. CASE close
      BY <1>3, <1>5, <1>6, <3>1, <3>2
    <3>3. CASE ~close
      BY <1>3, <1>5, <1>6, <3>1, <3>3
    <3> QED
      BY <3>2, <3>3
  <2> QED
    BY <2>1, <2>2, <2>3
<1> QED
  BY <1>1, <1>2, <1>7

LEMMA HandleKeeps == IInv /\ Handle => IInv'
<1> SUFFICES ASSUME IInv, Handle PROVE IInv'
  OBVIOUS
<1>1. /\ pc = "handle" /\ handled' = handled + 1
      /\ done' \in Seq(Requests) /\ (~cut => Len(done') = Len(done) + 1)
      /\ UNCHANGED <<client, sent, reader, out>>
  BY HandleGives
<1>2. PICK body \in Nat, close \in BOOLEAN, next \in {"parse"} \cup Ended :
        /\ SendResponse(AnswerCells(Current, body, close), next)
        /\ next = "parse" => ~LastAllowed(handled + 1)
  BY HandleGives
<1>3. handled \in Nat /\ Current \in Nat /\ Current = handled + 1
  BY Facts DEF Current
<1>4. handled' \in Nat /\ handled =< handled' /\ Current =< handled'
  BY ONLY <1>1, <1>3
<1>5. /\ UNCHANGED <<script, mode, fin, got, sent, read, from, request, cut, out, link, cause>>
      /\ todo' \in Seq(Cells) /\ meant' \in Seq(Cells) /\ pc' = "write" /\ after' = next
      /\ Writing' /\ AnswersInFull' /\ InOrder' /\ Waited' /\ HandledIsAnswered'
  BY <1>1, <1>2, <1>3, <1>4, AnswerKeeps
<1>6. /\ handled \in Nat /\ (~cut => handled = Len(done)) /\ handled < MaxRequests /\ MaxRequests \in Nat
      /\ link # "dead" /\ cause # "cancelled"
  BY <1>1, Facts, DuplexAssumption DEF IInv, Types, TypeOK, Loop, Ended
<1>7. /\ (~cut => handled' = Len(done')) /\ handled' \in 0..MaxRequests
      /\ next = "parse" => handled' < MaxRequests
  <2>1. next = "parse" => ~(handled + 1 >= MaxRequests)
    BY <1>2 DEF LastAllowed
  <2> QED
    BY ONLY <1>1, <1>6, <2>1
<1>8. Types'
  <2>1. Total' = Total
    BY <1>5 DEF Total, Upto
  <2> QED
    BY <1>1, <1>5, <1>6, <1>7, <2>1 DEF IInv, Types, TypeOK, Ended
<1>9. Loop' /\ InStep'
  <2>1. Loop'
    BY <1>5, <1>6, <1>7 DEF Loop, Ended
  <2>2. ~cut => /\ handled + 1 =< Len(script) /\ from = script[handled + 1].end
                /\ handled + 1 # 0 /\ from =< read
    BY <1>1, Facts DEF IInv, InStep
  <2>3. ~cut => handled' =< Len(script) /\ from = Upto(handled') /\ Upto(handled') =< read
    BY <1>1, <2>2 DEF Upto
  <2> QED
    BY <1>5, <1>7, <2>1, <2>3 DEF InStep, Upto
<1> QED
  BY <1>5, <1>8, <1>9 DEF IInv

LEMMA WriteKeeps == IInv /\ Write => IInv'
<1> SUFFICES ASSUME IInv, Write PROVE IInv'
  OBVIOUS
<1>1. /\ UNCHANGED <<script, mode, fin, got, sent, read, from, request, cut, link, pc, handled, after, meant, done, cause>>
      /\ pc = "write" /\ todo # <<>> /\ link = "up" /\ ~Full
      /\ out' = Append(out, Head(todo)) /\ todo' = Tail(todo)
  BY DEF Write, client, reader
<1>2. /\ out' \in Seq(Cells) /\ todo' \in Seq(Cells)
      /\ out' \o todo' = out \o todo /\ Len(out') = Len(out) + 1
      /\ \A i \in 1..Len(out) : out'[i] = out[i]
  <2>1. out \in Seq(Cells) /\ todo \in Seq(Cells) /\ todo # <<>>
    BY <1>1, Facts
  <2>2. /\ Append(out, Head(todo)) \in Seq(Cells) /\ Tail(todo) \in Seq(Cells)
        /\ Append(out, Head(todo)) \o Tail(todo) = out \o todo
        /\ Len(Append(out, Head(todo))) = Len(out) + 1
        /\ \A i \in 1..Len(out) : Append(out, Head(todo))[i] = out[i]
    BY ONLY <2>1, MoveHead
  <2>3. out' = Append(out, Head(todo)) /\ todo' = Tail(todo)
    BY <1>1
  <2> QED
    BY ONLY <2>2, <2>3
<1>3. meant = out' \o todo'
  BY <1>1, <1>2 DEF IInv, Writing
<1>4. Types'
  <2>1. Total' = Total
    BY <1>1 DEF Total, Upto
  <2>2. got \in 0..Len(out') /\ Len(out') - got =< OutRoom
    <3>1. Len(out) \in Nat /\ got \in Nat /\ got =< Len(out) /\ OutRoom \in Nat /\ ~(Len(out) - got >= OutRoom)
      BY <1>1, Facts, DuplexAssumption DEF Full
    <3> QED
      BY ONLY <1>2, <3>1
  <2> QED
    BY <1>1, <1>2, <2>1, <2>2 DEF IInv, Types, TypeOK
<1>5. Loop' /\ InStep' /\ InOrder'
  BY <1>1 DEF IInv, Loop, InStep, Upto, InOrder
<1>6. Writing' /\ AnswersInFull'
  <2>1. IsPrefix(out', meant)
    BY <1>2, <1>3, PrefixOfConcat
  <2> QED
    BY <1>1, <1>3, <2>1 DEF Writing, AnswersInFull
<1>7. Waited'
  <2> SUFFICES ASSUME mode = "waits", NEW k \in 1..Len(script), Upto(k) < sent PROVE AnswerRead(k)'
    BY <1>1 DEF Waited, Upto
  <2>1. AnswerRead(k)
    BY DEF IInv, Waited
  <2>2. got \in Nat /\ got' = got /\ got =< Len(out) /\ Len(out) \in Nat
    BY <1>1, Facts
  <2>3. \A i \in 1..got : out'[i] = out[i]
    BY ONLY <1>2, <2>2
  <2> QED
    BY <2>1, <2>2, <2>3, ReadStaysRead
<1>8. HandledIsAnswered'
  BY <1>1 DEF HandledIsAnswered
<1> QED
  BY <1>4, <1>5, <1>6, <1>7, <1>8 DEF IInv

LEMMA WriteFailsKeeps == IInv /\ WriteFails => IInv'
<1> SUFFICES ASSUME IInv, WriteFails PROVE IInv'
  OBVIOUS
<1>1. /\ UNCHANGED <<script, mode, fin, got, sent, read, from, request, cut, link, pc, handled, after, out, meant, done, cause>>
      /\ link = "reset" /\ todo' = <<>> /\ todo' \in Seq(Cells)
  BY EmptySeq DEF WriteFails, client, reader
<1>2. Types'
  <2>1. Total' = Total
    BY <1>1 DEF Total, Upto
  <2> QED
    BY <1>1, <2>1 DEF IInv, Types, TypeOK
<1>3. Loop' /\ InStep' /\ InOrder' /\ Writing' /\ AnswersInFull'
  BY <1>1 DEF IInv, Loop, InStep, Upto, InOrder, Writing, AnswersInFull
<1>4. Waited' /\ HandledIsAnswered'
  BY <1>1 DEF IInv, Waited, Upto, AnswerRead, HandledIsAnswered
<1> QED
  BY <1>2, <1>3, <1>4 DEF IInv

LEMMA WrittenKeeps == IInv /\ Written => IInv'
<1> SUFFICES ASSUME IInv, Written PROVE IInv'
  OBVIOUS
<1>1. /\ UNCHANGED <<client, sent, reader, handled, todo, after, out, meant, done>>
      /\ pc = "write" /\ todo = <<>>
  BY DEF Written, AllWritten
<1>2. out = meant \/ link = "reset"
  <2>1. out \o <<>> = out
    BY Facts, ConcatEmptySeq
  <2> QED
    BY <1>1, <2>1 DEF IInv, Writing
<1>3. CASE after = "ended"
  BY <1>1, <1>2, <1>3, LeaveKeeps DEF Written, Ended
<1>4. CASE after # "ended"
  <2>1. /\ UNCHANGED <<script, mode, fin, got, sent, read, from, request, cut, link, handled, todo, after, out, meant, done, cause>>
        /\ pc' = after /\ after \in {"parse", "upgraded"} /\ link # "dead"
    BY <1>1, <1>4 DEF Written, client, reader, IInv, Types, TypeOK, Ended
  <2>2. Types'
    <3>1. Total' = Total
      BY <2>1 DEF Total, Upto
    <3> QED
      BY <2>1, <3>1 DEF IInv, Types, TypeOK, Ended
  <2>3. Loop' /\ InStep' /\ InOrder'
    BY <1>1, <2>1, Facts DEF IInv, Loop, InStep, Upto, InOrder, Ended
  <2>4. Writing' /\ AnswersInFull'
    BY <1>1, <1>2, <2>1 DEF IInv, Writing, AnswersInFull
  <2>5. Waited' /\ HandledIsAnswered'
    BY <2>1 DEF IInv, Waited, Upto, AnswerRead, HandledIsAnswered
  <2> QED
    BY <2>2, <2>3, <2>4, <2>5 DEF IInv
<1> QED
  BY <1>3, <1>4

LEMMA Stutters == IInv /\ UNCHANGED vars => IInv'
<1> SUFFICES ASSUME IInv, UNCHANGED vars PROVE IInv'
  OBVIOUS
<1>1. UNCHANGED <<script, mode, fin, got, sent, read, from, request, cut, link, pc, handled, todo, after, out, meant, done, cause>>
  BY DEF vars, client, reader
<1>2. Total' = Total
  BY <1>1 DEF Total, Upto
<1>3. Types'
  BY <1>1, <1>2 DEF IInv, Types, TypeOK
<1>4. Loop' /\ InStep' /\ Writing' /\ AnswersInFull' /\ InOrder'
  BY <1>1 DEF IInv, Loop, InStep, Upto, Writing, AnswersInFull, InOrder
<1>5. Waited' /\ HandledIsAnswered'
  BY <1>1 DEF IInv, Waited, Upto, AnswerRead, HandledIsAnswered
<1> QED
  BY <1>3, <1>4, <1>5 DEF IInv

LEMMA Step == IInv /\ [Next]_vars => IInv'
  BY SendKeeps, ClientKeeps, ReaderKeeps, HandleKeeps, PanicKeeps, CancelKeeps, WriteKeeps,
     WriteFailsKeeps, WrittenKeeps, Stutters
  DEF Next, TaskNext, Rest

THEOREM Inductive == Spec => []IInv
  BY InitOK, Step, PTL DEF Spec

\* The counters stay in the order in which cells travel, no socket holds more
\* than it can, and no more requests are handled than the server allows.
THEOREM TypeCorrect == Spec => []TypeOK
<1>1. IInv => TypeOK
  BY DEF IInv, Types
<1> QED
  BY <1>1, Inductive, PTL

\* Whatever a client sends and reads, and when: what is written is what was meant,
\* and all of it unless the client has reset the connection or the task was dropped.
THEOREM InFull == Spec => []AnswersInFull
<1>1. IInv => AnswersInFull
  BY DEF IInv
<1> QED
  BY <1>1, Inductive, PTL

\* A reset by the server's end takes no answer from a client that waits for answers,
\* as long as no pause in a body without framing has had it cut.
THEOREM AnswersReachTheClient == Spec => []HandledIsAnswered
<1>1. IInv => HandledIsAnswered
  BY DEF IInv
<1> QED
  BY <1>1, Inductive, PTL

-------------------------------------------------------------------------------
(* The abstract session.  Only the step that returns from a handler answers *)
(* a request; the others end the session or are no step of it.             *)

Pending == SubSeq(script, Len(done) + 1, Len(script))
Phase ==
  IF cut THEN "over"
  ELSE IF after = "upgraded" THEN "switched"
  ELSE IF pc = "ended" \/ after = "ended" THEN "over" ELSE "open"

LEMMA SessionInit == Init => Session!Init
<1> SUFFICES ASSUME Init PROVE Session!Init
  OBVIOUS
<1>1. script \in Seq(Requests) /\ script \in Scripts /\ done = <<>> /\ Len(<<>>) = 0
  BY ScriptTypes DEF Init
<1>2. SubSeq(script, 1, Len(script)) = script
  BY <1>1
<1>3. Pending \in Scripts
  <2>1. Len(done) + 1 = 1
    BY <1>1
  <2> QED
    BY ONLY <1>1, <1>2, <2>1 DEF Pending
<1>4. Phase = "open"
  BY DEF Init, Phase
<1> QED
  BY <1>1, <1>3, <1>4 DEF Session!Init, Pending, Phase

\* Until a body is cut, the request whose handler runs is the first of those pending.
LEMMA HandleAnswers == IInv /\ Handle /\ ~cut => Session!Respond
<1> SUFFICES ASSUME IInv, Handle, ~cut PROVE Session!Respond
  OBVIOUS
<1>1. /\ pc = "handle" /\ handled' = handled + 1 /\ cut' = cut
      /\ Len(done') = Len(done) + 1 /\ done' = Append(done, request)
      /\ script' = script
  BY HandleGives DEF client, reader
<1>2. PICK body \in Nat, close \in BOOLEAN, next \in {"parse"} \cup Ended :
        /\ SendResponse(AnswerCells(Current, body, close), next)
        /\ next = "parse" => ~LastAllowed(handled + 1)
        /\ next = "upgraded" => request.kind = "upgrade"
  BY HandleGives
<1> DEFINE k == Len(done) + 1
<1>3. /\ Len(done) \in Nat /\ Len(script) \in Nat /\ k \in 1..Len(script) /\ request = script[k]
      /\ handled = Len(done)
  <2>1. handled = Len(done) /\ handled < Len(script) /\ request = script[handled + 1]
    BY <1>1 DEF IInv, InStep
  <2> QED
    BY <2>1, Facts
<1>4. handled < MaxRequests /\ MaxRequests \in Nat /\ after = "parse"
  BY <1>1, DuplexAssumption DEF IInv, Loop, Ended
<1>5. /\ Pending # <<>> /\ Head(Pending) = request /\ Tail(Pending) = Pending'
  <2>1. /\ Head(SubSeq(script, k, Len(script))) = script[k]
        /\ Tail(SubSeq(script, k, Len(script))) = SubSeq(script, k + 1, Len(script))
    <3>1. script \in Seq(Requests) /\ k \in 1..Len(script) /\ Len(script) \in k..Len(script)
      BY <1>3, Facts
    <3> QED
      BY ONLY <3>1, HeadTailOfSubSeq
  <2>2. Len(SubSeq(script, k, Len(script))) # 0
    BY <1>3, Facts
  <2>3. Pending = SubSeq(script, k, Len(script))
    BY ONLY <1>3 DEF Pending
  <2>4. Pending' = SubSeq(script, k + 1, Len(script))
    BY ONLY <1>1, <1>3 DEF Pending
  <2>5. Pending # <<>>
    BY <2>2, <2>3, EmptySeq
  <2> QED
    BY ONLY <1>3, <2>1, <2>3, <2>4, <2>5
<1>6. Phase = "open"
  BY <1>1, <1>4 DEF Phase
<1>7. pc' = "write" /\ after' = next
  BY <1>2 DEF SendResponse
<1>8. /\ Phase' \in {"open", "over", "switched"}
      /\ Phase' = "open" => next = "parse"
      /\ Phase' = "switched" => next = "upgraded"
  BY <1>1, <1>7 DEF Phase, Ended
<1>9. Phase' = "open" => Len(done') < MaxRequests
  BY <1>1, <1>2, <1>3, <1>4, <1>8 DEF LastAllowed
<1>10. Phase' = "switched" => IsUpgrade(Head(Pending))
  BY <1>2, <1>5, <1>8 DEF IsUpgrade
<1> QED
  BY <1>1, <1>3, <1>4, <1>5, <1>6, <1>8, <1>9, <1>10 DEF Session!Respond, Pending, Phase

LEMMA SessionStep == IInv /\ [Next]_vars => [Session!Next]_(Session!vars)
<1> SUFFICES ASSUME IInv, [Next]_vars PROVE [Session!Next]_(Session!vars)
  OBVIOUS
<1>1. CASE Handle /\ ~cut
  BY <1>1, HandleAnswers DEF Session!Next
<1>2. ASSUME UNCHANGED <<script, done>>,
             Phase' = Phase \/ (Phase = "open" /\ Phase' = "over")
      PROVE  [Session!Next]_(Session!vars)
  <2>1. Pending' = Pending /\ done' = done
    BY <1>2 DEF Pending
  <2>2. CASE Phase' = Phase
    BY <2>1, <2>2 DEF Session!vars, Pending, Phase
  <2>3. CASE Phase = "open" /\ Phase' = "over"
    BY <2>1, <2>3 DEF Session!Next, Session!End, Pending, Phase
  <2> QED
    BY <1>2, <2>2, <2>3
<1>3. ASSUME Quit \/ Panic \/ Cancel
      PROVE  UNCHANGED <<script, done>> /\ (Phase' = Phase \/ (Phase = "open" /\ Phase' = "over"))
  BY <1>3 DEF Quit, Panic, Cancel, Leave, client, reader, Phase
<1>4. ASSUME Reject, pc \in {"parse", "read"}
      PROVE  UNCHANGED <<script, done>> /\ (Phase' = Phase \/ (Phase = "open" /\ Phase' = "over"))
  <2>1. after = "parse"
    BY <1>4 DEF IInv, Loop
  <2> QED
    BY <1>4, <2>1 DEF Reject, SendResponse, client, reader, Phase
<1>5. ASSUME Await \/ Read \/ Write \/ WriteFails \/ Send \/ Receive \/ Finish \/ Reset \/ UNCHANGED vars
      PROVE  UNCHANGED <<script, done>> /\ Phase' = Phase
  <2>1. UNCHANGED <<script, done, after, cut>>
    BY <1>5 DEF Await, Read, Write, WriteFails, Send, Receive, Finish, Reset, vars, client, reader
  <2>2. pc = "ended" <=> pc' = "ended"
    BY <1>5 DEF Await, Read, Write, WriteFails, Send, Receive, Finish, Reset, vars, client, reader
  <2> QED
    BY <2>1, <2>2 DEF Phase
<1>8. ASSUME Accept, pc \in {"parse", "read"}
      PROVE  UNCHANGED <<script, done>> /\ (Phase' = Phase \/ (Phase = "open" /\ Phase' = "over"))
  <2>1. UNCHANGED <<script, done, after>> /\ pc' = "handle" /\ cut' \in {cut, TRUE} /\ cut \in BOOLEAN
    BY <1>8, Facts DEF Accept, AcceptAs, client
  <2>2. after = "parse"
    BY <1>8 DEF IInv, Loop
  <2>3. CASE cut' = TRUE
    BY <1>8, <2>1, <2>2, <2>3 DEF Phase
  <2>4. CASE cut' = cut
    BY <1>8, <2>1, <2>2, <2>4 DEF Phase
  <2> QED
    BY <2>1, <2>3, <2>4
<1>9. ASSUME Handle, cut
      PROVE  UNCHANGED <<script, done>> /\ Phase' = Phase
  BY <1>9, HandleGives DEF client, reader, Phase
<1>6. ASSUME Written
      PROVE  UNCHANGED <<script, done>> /\ Phase' = Phase
  BY <1>6 DEF Written, Leave, client, reader, Phase, IInv, Types, TypeOK, Ended
<1>7. CASE ReaderNext
  <2>1. Await \/ Read \/ Quit \/ ((Reject \/ Accept) /\ pc \in {"parse", "read"})
    BY <1>7 DEF ReaderNext, Take, Refuse, Deadline, ReadEnd, ReadTimeout, ReadError, AtInputEnd
  <2> QED
    BY <1>2, <1>3, <1>4, <1>5, <1>8, <2>1
<1> QED
  BY <1>1, <1>2, <1>3, <1>5, <1>6, <1>7, <1>9 DEF Next, TaskNext, Rest

\* Reader, timers, writes that fail or wait and a client at its own pace come to
\* the abstract session, up to where a body without framing is cut: each request answered once, in order, at most as many as
\* allowed, and the stream handed over only for a request that asked for it.
THEOREM IsASession == Spec => ImplementsSession
  BY SessionInit, SessionStep, Inductive, PTL DEF Spec, ImplementsSession, Session!Spec
===============================================================================
