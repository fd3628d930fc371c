--------------------------- MODULE DuplexConnection ---------------------------
(***************************************************************************)
(* A connection of any of the four servers, with both directions of its    *)
(* socket: the loop of handle_stream and the reader                        *)
(* create_async_parse_stream! around awaits that may wait for the client,  *)
(* writes that fail or find no room, a client that sends and reads at its  *)
(* own pace, and a task that is dropped at an await.  Timers are choices:  *)
(* Connection has their arithmetic, and the bytes.  A request and an       *)
(* answer are cells of one kind here, of which a socket holds a few; the   *)
(* first cell of a request has its head.  A request may lack framing: its  *)
(* body ends for the reader where the client pauses, and if that was too   *)
(* early or too late what follows may be taken for anything.               *)
(***************************************************************************)
EXTENDS Integers, SequencesExt

CONSTANTS Scripts,      \* sequences of requests, [end, kind, framed]; end counts the cells up
                        \* to its last; framed is FALSE for a body without framing
          Modes,        \* how clients go about sending and reading
          InRoom,       \* cells the socket holds towards the server
          OutRoom,      \* cells it holds towards the client
          BodyCells,    \* of an answer, after its head
          MaxRequests   \* RequestLimits::max_requests

Requests == [end : Nat \ {0}, kind : {"plain", "close", "upgrade", "bad"}, framed : BOOLEAN]

ASSUME DuplexAssumption ==
  /\ \A s \in Scripts :
       /\ s \in Seq(Requests)
       /\ \A k \in 2..Len(s) : s[k - 1].end < s[k].end
  /\ Modes \subseteq {"waits", "streams", "sendsFirst", "deaf"}
  /\ InRoom \in Nat \ {0} /\ OutRoom \in Nat \ {0} /\ BodyCells \in Nat
  /\ MaxRequests \in Nat \ {0}

VARIABLES script, mode,  \* the client: what it sets out to send, and how
          sent,      \* cells the client has sent
          read,      \* ... the task has read of them
          from,      \* ... and taken out of its buffer
          request,   \* the request taken last
          fin,       \* the client has ended its side
          link,      \* "up", "reset" by the client, or "dead": reset by the server's end
          pc,        \* where the task is
          handled,   \* its count of requests
          todo,      \* what send_response still writes
          after,     \* where the loop goes then
          out,       \* the cells written
          got,       \* ... and how many of them the client has read
          meant,     \* history: the cells of all answers
          cut,       \* history: a request was taken with too few cells or too many
          done,      \* history: the requests whose handler has returned, before a cut
          cause      \* history: why the task ended

client == <<script, mode, fin, got>>
reader == <<read, from, request, cut>>
vars == <<client, sent, reader, link, pc, handled, todo, after, out, meant, done, cause>>

Ended == {"ended", "upgraded"}
NoRequest == [end |-> 1, kind |-> "plain", framed |-> TRUE]

-------------------------------------------------------------------------------
(* Cells.  Those of the requests follow each other; an answer names the    *)
(* request it is for, or 0, and says whether the connection closes after   *)
(* it.                                                                     *)

\* The cells of the first k requests, and of all.
Upto(k) == IF k = 0 THEN 0 ELSE script[k].end
Total == Upto(Len(script))

AnswerCells(k, body, close) ==
  [i \in 1..(body + 1) |-> [to |-> k, last |-> i = body + 1, close |-> close]]

Started == read > from        \* the reader's `started': its buffer is not empty
Arrived == sent > read
Full == Len(out) - got >= OutRoom
Crowded == sent - read >= InRoom

-------------------------------------------------------------------------------
(* The client.                                                             *)

AnswerRead(k) == \E i \in 1..got : out[i].to = k /\ out[i].last /\ ~out[i].close

\* It has read the answers to what it has sent, and none announced a close.
MaySend == mode = "waits" => \A k \in 1..Len(script) : Upto(k) =< sent => AnswerRead(k)

\* What reaches a socket that the server has dropped resets the connection.
Send ==
  /\ link = "up" /\ ~fin /\ sent < Total /\ ~Crowded /\ MaySend /\ pc # "upgraded"
  /\ sent' = sent + 1
  /\ link' = IF pc = "ended" THEN "dead" ELSE link
  /\ UNCHANGED <<client, reader, pc, handled, todo, after, out, meant, done, cause>>

Receive ==
  /\ link = "up" /\ got < Len(out) /\ mode # "deaf"
  /\ mode = "sendsFirst" => fin \/ sent = Total
  /\ got' = got + 1
  /\ UNCHANGED <<script, mode, fin, sent, reader, link, pc, handled, todo, after, out, meant, done, cause>>

Finish ==
  /\ link = "up" /\ ~fin /\ pc \notin Ended
  /\ fin' = TRUE
  /\ UNCHANGED <<script, mode, got, sent, reader, link, pc, handled, todo, after, out, meant, done, cause>>

Reset ==
  /\ link = "up" /\ pc \notin Ended
  /\ link' = "reset"
  /\ UNCHANGED <<client, sent, reader, pc, handled, todo, after, out, meant, done, cause>>

-------------------------------------------------------------------------------
(* Ways to go on.                                                          *)

\* The task drops the stream.  With input unread that is a reset, in which the
\* client loses what it has not read.
Leave(why) ==
  /\ pc' = "ended" /\ cause' = why
  /\ link' = IF link = "up" /\ Arrived THEN "dead" ELSE link

\* send_response begins.
SendResponse(cells, next) ==
  /\ pc' = "write" /\ todo' = cells /\ after' = next
  /\ meant' = meant \o cells
  /\ UNCHANGED <<link, cause>>

\* StreamRead::Error: an answer without content, which closes.
Reject ==
  /\ SendResponse(AnswerCells(0, 0, TRUE), "ended")
  /\ UNCHANGED <<client, sent, reader, handled, out, done>>

\* StreamRead::Idle and StreamRead::Closed
Quit ==
  /\ Leave("quiet")
  /\ UNCHANGED <<client, sent, reader, handled, todo, after, out, meant, done>>

-------------------------------------------------------------------------------
(* The reader.                                                             *)

\* take_framed_request on the buffer: what it may come to.  An unframed body with
\* requests behind it may be over the limit for bodies.
Foremost == script[handled + 1]
MutVerdicts(idleEnd) == IF Started THEN {"ready"} ELSE {"incomplete"}
Verdicts(idleEnd) ==
  IF ~Started THEN {"incomplete"}
  ELSE IF cut THEN {"ready", "error", "incomplete"}
  ELSE IF Foremost.kind = "bad" THEN {"error"}
  ELSE IF Foremost.framed THEN {IF Foremost.end =< read THEN "ready" ELSE "incomplete"}
  ELSE {IF idleEnd THEN "ready" ELSE "incomplete"} \cup (IF Foremost.end < read THEN {"error"} ELSE {})

\* StreamRead::Ready: the cells up to `last' are taken off the buffer as a request.
AcceptAs(last, taken) ==
  /\ pc' = "handle" /\ from' = last /\ request' = taken
  /\ cut' = (cut \/ last # taken.end)
  /\ UNCHANGED <<client, sent, read, link, handled, todo, after, out, meant, done, cause>>

Accept ==
  \/ ~cut /\ AcceptAs(IF Foremost.framed THEN Foremost.end ELSE read, Foremost)
  \/ cut /\ \E last \in (from + 1)..read, kind \in {"plain", "close", "upgrade"} :
              AcceptAs(last, [end |-> last, kind |-> kind, framed |-> TRUE])

Take == pc = "parse" /\ "ready" \in Verdicts(FALSE) /\ Accept

Refuse == pc = "parse" /\ "error" \in Verdicts(FALSE) /\ Reject

\* The request's total time is over.
Deadline == pc = "parse" /\ Started /\ "incomplete" \in Verdicts(FALSE) /\ Reject

Await ==
  /\ pc = "parse" /\ "incomplete" \in Verdicts(FALSE)
  /\ pc' = "read"
  /\ UNCHANGED <<client, sent, reader, link, handled, todo, after, out, meant, done, cause>>

\* What came before a reset may still be read, or not.
Read ==
  /\ pc = "read" /\ Arrived
  /\ read' \in (read + 1)..sent
  /\ pc' = "parse"
  /\ UNCHANGED <<client, sent, from, request, cut, link, handled, todo, after, out, meant, done, cause>>

\* The input ends here, for now or for good: an unframed body with it.
AtInputEnd ==
  \/ ~Started /\ Quit
  \/ Started /\ "ready" \in Verdicts(TRUE) /\ Accept
  \/ Started /\ Verdicts(TRUE) # {"ready"} /\ Reject

ReadEnd == pc = "read" /\ ~Arrived /\ fin /\ link = "up" /\ AtInputEnd

MutReadTimeout == pc = "read" /\ ~Arrived /\ ~fin /\ link = "up" /\ Started /\ AtInputEnd
ReadTimeout == pc = "read" /\ ~Arrived /\ ~fin /\ link = "up" /\ AtInputEnd

ReadError == pc = "read" /\ link = "reset" /\ Reject

-------------------------------------------------------------------------------
(* The handler, and the rest of the loop.                                  *)

\* The request taken last, by its number.
Current == handled + 1

MutLastAllowed(count) == count > MaxRequests
LastAllowed(count) == count >= MaxRequests

\* 101, from a route that has an upgrade handler.
MutSwitches(outcome) == outcome = "switch"
Switches(outcome) == outcome = "switch" /\ request.kind = "upgrade"

Respond(outcome) ==
  LET close == request.kind = "close" \/ outcome = "close" \/ LastAllowed(handled + 1)
  IN CASE outcome = "badheader" -> SendResponse(AnswerCells(Current, 0, TRUE), "ended")
       [] Switches(outcome) -> SendResponse(AnswerCells(Current, 0, FALSE), "upgraded")
       [] OTHER -> SendResponse(AnswerCells(Current, BodyCells, close), IF close THEN "ended" ELSE "parse")

Handle ==
  /\ pc = "handle"
  /\ \E outcome \in {"ok", "close", "switch", "badheader"} : Respond(outcome)
  /\ handled' = handled + 1
  /\ done' = IF cut THEN done ELSE Append(done, request)
  /\ UNCHANGED <<client, sent, reader, out>>

Panic ==
  /\ pc = "handle"
  /\ Leave("panic")
  /\ UNCHANGED <<client, sent, reader, handled, todo, after, out, meant, done>>

\* write_all waits for room.
Write ==
  /\ pc = "write" /\ todo # <<>> /\ link = "up" /\ ~Full
  /\ out' = Append(out, Head(todo)) /\ todo' = Tail(todo)
  /\ UNCHANGED <<client, sent, reader, link, pc, handled, after, meant, done, cause>>

\* On a connection that was reset each write fails; the errors are ignored.
WriteFails ==
  /\ pc = "write" /\ todo # <<>> /\ link = "reset"
  /\ todo' = <<>>
  /\ UNCHANGED <<client, sent, reader, link, pc, handled, after, out, meant, done, cause>>

MutAllWritten == todo = <<>> \/ Full
AllWritten == todo = <<>>

Written ==
  /\ pc = "write" /\ AllWritten
  /\ IF after = "ended" THEN Leave("answered")
     ELSE pc' = after /\ UNCHANGED <<link, cause>>
  /\ UNCHANGED <<client, sent, reader, handled, todo, after, out, meant, done>>

\* The task is dropped at an await, or the process ends.
Cancel ==
  /\ pc \notin Ended
  /\ Leave("cancelled")
  /\ UNCHANGED <<client, sent, reader, handled, todo, after, out, meant, done>>

Rest == pc \in Ended /\ UNCHANGED vars

Init ==
  /\ script \in Scripts /\ mode \in Modes
  /\ sent = 0 /\ read = 0 /\ from = 0 /\ request = NoRequest /\ cut = FALSE /\ fin = FALSE /\ link = "up"
  /\ pc = "parse" /\ handled = 0 /\ todo = <<>> /\ after = "parse"
  /\ out = <<>> /\ got = 0 /\ meant = <<>> /\ done = <<>> /\ cause = "none"

ReaderNext == Take \/ Refuse \/ Deadline \/ Await \/ Read \/ ReadEnd \/ ReadTimeout \/ ReadError
TaskNext == ReaderNext \/ Handle \/ Panic \/ Write \/ WriteFails \/ Written
Next == TaskNext \/ Cancel \/ Send \/ Receive \/ Finish \/ Reset \/ Rest

Spec == Init /\ [][Next]_vars

\* Tasks run, time passes and handlers return.  A client that is said to read
\* does so, and one that sends first goes on sending.
Fairness ==
  /\ WF_vars(TaskNext)
  /\ WF_vars(Receive) /\ WF_vars(Send /\ mode = "sendsFirst")

FairSpec == Spec /\ Fairness

-------------------------------------------------------------------------------
(* Properties.                                                             *)

\* Types; the counters are in the order in which cells travel, and sockets
\* hold no more than they can.
TypeOK ==
  /\ script \in Scripts /\ mode \in Modes /\ fin \in BOOLEAN
  /\ from \in 0..read /\ request \in Requests /\ cut \in BOOLEAN
  /\ read \in 0..sent /\ sent \in 0..Total /\ sent - read =< InRoom
  /\ got \in 0..Len(out) /\ Len(out) - got =< OutRoom
  /\ link \in {"up", "reset", "dead"} /\ (link = "dead" => pc = "ended")
  /\ pc \in {"parse", "read", "handle", "write"} \cup Ended
  /\ after \in {"parse"} \cup Ended /\ cause \in {"none", "quiet", "answered", "panic", "cancelled"}
  /\ handled \in 0..MaxRequests /\ (cut \/ handled = Len(done))

\* What is written is what was meant, and all of it by the time the task moves on
\* to another request, to the upgrade handler or to its end, unless the client has
\* reset the connection or the task was dropped.
AnswersInFull ==
  /\ IsPrefix(out, meant)
  /\ pc # "write" /\ link # "reset" /\ cause # "cancelled" => out = meant

\* A client that waits for each answer gets the answer to each request that was
\* handled, although the server drops the connection as soon as it is written, or
\* before: if the server's end resets the connection, these answers have been read.
\* It may be otherwise once a pause in a body without framing has cut it short.
HandledIsAnswered ==
  mode = "waits" /\ link = "dead" /\ ~cut => \A i \in 1..Len(meant) : meant[i].to # 0 => i =< got

\* The task ends, or waits for ever to write to a client that reads nothing, or
\* reads nothing before it has sent what there is no room for.
BlockedOnlyByClient ==
  \/ <>(pc \in Ended)
  \/ <>[](/\ pc = "write" /\ Full /\ link = "up"
          /\ mode = "deaf" \/ (mode = "sendsFirst" /\ sent < Total /\ Crowded))

IsUpgrade(r) == r.kind = "upgrade"

\* It implements the abstract session, as the sync connection does, up to where a
\* body without framing was cut or took in the requests behind it: until then each
\* handler gets the client's next request, whatever was pipelined, paused or lost.
Session == INSTANCE HttpSession WITH
  Sessions <- Scripts,
  Limit <- MaxRequests,
  IsUpgrade <- IsUpgrade,
  answered <- done,
  pending <- SubSeq(script, Len(done) + 1, Len(script)),
  phase <- IF cut THEN "over"
           ELSE IF after = "upgraded" THEN "switched"
           ELSE IF pc = "ended" \/ after = "ended" THEN "over" ELSE "open"

ImplementsSession == Session!Spec
===============================================================================
