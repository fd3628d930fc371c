------------------------------ MODULE Connection ------------------------------
(***************************************************************************)
(* One connection of the sync server: the job handle_stream gives to the   *)
(* pool (runtime/sync/server.rs), with the reader parse_stream_sync        *)
(* (core/request.rs), its timers and the end of the loop.  The client      *)
(* sends a script of messages, in pieces of any size and at any pace, and  *)
(* may close or reset at any time; the handler may return any response.    *)
(***************************************************************************)
EXTENDS RequestFraming, SequencesExt

CONSTANTS IdleTimeout, ReqTimeout,  \* RequestLimits, in ticks
          MaxRequests,   \* RequestLimits::max_requests
          Setups,        \* [wire, raws, ends, refusal, framed, pipelined, keepAlive]: the
                         \* bytes a client sets out to send, the requests in them, where
                         \* each one ends, the status that refuses what follows them (or
                         \* 0), whether all have framing, whether it waits for no answer,
                         \* and the server's RequestLimits::keep_alive_timeout
          Outcomes       \* what a handler may do

ASSUME ConnectionAssumption ==
  /\ IdleTimeout \in Nat /\ ReqTimeout \in Nat
  /\ MaxRequests \in Nat \ {0}   \* set_max_requests takes max(1)
  /\ Outcomes \subseteq {"ok", "close", "switch", "badheader", "panic"}
  /\ \A s \in Setups : s.keepAlive \in Nat /\ s.pipelined \in BOOLEAN /\ s.framed \in BOOLEAN

-------------------------------------------------------------------------------
(* The client's plan.  A message opens with a request line; Frame stands   *)
(* for the bytes of the protocol upgraded to, which no waiting client      *)
(* sends before the 101.                                                   *)

Frame == [t |-> "byte", n |-> 0]
Opens(token) == token.t \in Verbs \/ token = Frame

EndOf(s, k) == IF k = 0 THEN 0 ELSE s.ends[k]
\* What follows the k-th request, and the k-th request alone.
After(s, k) == SubSeq(s.wire, EndOf(s, k) + 1, Len(s.wire))
BytesOf(s, k) == SubSeq(s.wire, EndOf(s, k - 1) + 1, s.ends[k])
Beginnings(bytes) == {SubSeq(bytes, 1, m) : m \in 0..Len(bytes)}

RequestsOnWire(s) ==
  /\ s.wire \in Seq(Token) /\ s.raws \in Seq(Seq(Token)) /\ s.ends \in Seq(Nat)
  /\ Len(s.ends) = Len(s.raws)
  /\ \A k \in 1..Len(s.ends) : EndOf(s, k - 1) < s.ends[k] /\ s.ends[k] =< Len(s.wire)

\* Requests that carry their framing are cut off the bytes one after the
\* other, and it settles nothing that the bytes pause.
CarriesFraming(s) ==
  /\ \A k \in 1..Len(s.raws) :
       LET v == TakeFramedRequest(After(s, k - 1), FALSE)
       IN v.verdict = "ready" /\ v.raw = s.raws[k] /\ v.rest = After(s, k)
  /\ \A k \in 0..Len(s.raws) : \A b \in Beginnings(After(s, k)) :
       TakeFramedRequest(b, TRUE) = TakeFramedRequest(b, FALSE)

\* A request is complete by itself if the client waits when it has sent it.
CompleteAlone(s) ==
  \A k \in 1..Len(s.raws) :
    LET v == TakeFramedRequest(BytesOf(s, k), TRUE)
    IN v.verdict = "ready" /\ v.raw = s.raws[k] /\ v.rest = <<>>

OpeningsMarked(s) ==
  /\ \A k \in 1..Len(s.raws) : \A i \in 1..Len(BytesOf(s, k)) : Opens(BytesOf(s, k)[i]) <=> i = 1
  /\ After(s, Len(s.raws)) # <<>> => Opens(After(s, Len(s.raws))[1])

\* There is no request in what follows the last one, also where a client that
\* waits might stop; it is refused with its status, or comes to no message.
NoRequestMore(s) ==
  LET rest == After(s, Len(s.raws))
      v == TakeFramedRequest(rest, TRUE)
  IN /\ \A m \in 0..Len(rest) :
          s.framed \/ m = Len(rest) \/ Opens(rest[m + 1]) =>
            TakeFramedRequest(SubSeq(rest, 1, m), TRUE).verdict # "ready"
     /\ v.status = s.refusal /\ v.verdict = IF s.refusal = 0 THEN "incomplete" ELSE "error"

ASSUME SetupAssumption ==
  \A s \in Setups :
    /\ RequestsOnWire(s) /\ NoRequestMore(s)
    /\ s.framed => CarriesFraming(s)
    /\ ~s.pipelined => CompleteAlone(s) /\ OpeningsMarked(s)

VARIABLES setup,     \* what the client sets out to send, and the server's setting
          toSend,    \* the bytes of it the server has not received
          client,    \* "open", or how the client ended its side
          pc,        \* where the job is
          buffer,    \* the job's buffer
          request,   \* the raw request last accepted
          handled,   \* the job's count of requests
          out,       \* the responses written: what for, and whether they close
          served,    \* history: the raw requests that were answered
          started,   \* parse_stream's `started' is Some
          elapsed,   \* ... and the ticks since then
          wait,      \* the read timeout set on the socket
          waited,    \* the ticks spent in the current read
          cut        \* history: a read timed out, or the client left, in mid-message

clientVars == <<setup, toSend, client>>
timers == <<started, elapsed, wait, waited>>
vars == <<clientVars, pc, buffer, request, handled, out, served, timers, cut>>

Ended == {"closed", "upgraded", "crashed"}

-------------------------------------------------------------------------------
(* The client.                                                             *)

MidMessage == toSend # <<>> /\ ~Opens(Head(toSend))

\* Whether the next n bytes may reach the server together now.
MayDeliver(n) ==
  \/ setup.pipelined
  \/ \A i \in 1..n : Opens(toSend[i]) => i = 1 /\ buffer = <<>> /\ toSend[i] # Frame

Close ==
  /\ client = "open" /\ pc \notin Ended
  /\ client' = "closed" /\ toSend' = <<>>
  /\ cut' = (cut \/ MidMessage)
  /\ UNCHANGED <<setup, pc, buffer, request, handled, out, served, timers>>

Reset ==
  /\ client = "open" /\ pc \notin Ended
  /\ client' = "reset" /\ toSend' = <<>>
  /\ cut' = (cut \/ MidMessage)
  /\ UNCHANGED <<setup, pc, buffer, request, handled, out, served, timers>>

-------------------------------------------------------------------------------
(* How parse_stream returns.                                               *)

\* The status is told apart in refusals only.
Responses == [kind : {"answer", "switch", "fault", "refusal", "timeout", "truncated"},
              close : BOOLEAN, status : Nat]
Response(kind, close) == [kind |-> kind, close |-> close, status |-> 0]
MutRefusal(kind, status) == [kind |-> kind, close |-> TRUE, status |-> 400]
Refusal(kind, status) == [kind |-> kind, close |-> TRUE, status |-> status]

ClearTimers == started' = FALSE /\ elapsed' = 0 /\ wait' = 0 /\ waited' = 0

\* parse_stream is entered: bytes left over have already started a request.
MutStartedWith(buf) == FALSE
StartedWith(buf) == buf # <<>>
EnterParse(buf) ==
  /\ pc' = "parse"
  /\ started' = StartedWith(buf)
  /\ elapsed' = 0 /\ wait' = 0 /\ waited' = 0

\* StreamRead::Ready
MutAccept(v) ==
  /\ pc' = "handling" /\ request' = v.raw /\ buffer' = <<>>
  /\ ClearTimers
  /\ UNCHANGED <<handled, out, served>>
MutAcceptAgain(v) ==
  /\ pc' = "handling" /\ request' = v.raw
  /\ ClearTimers
  /\ UNCHANGED <<buffer, handled, out, served>>
MutAcceptAll(v) ==
  /\ pc' = "handling" /\ request' = buffer /\ buffer' = v.rest
  /\ ClearTimers
  /\ UNCHANGED <<handled, out, served>>
Accept(v) ==
  /\ pc' = "handling" /\ request' = v.raw /\ buffer' = v.rest
  /\ ClearTimers
  /\ UNCHANGED <<handled, out, served>>

\* StreamRead::Error: the response closes the connection.
Reject(kind, status) ==
  /\ pc' = "closed" /\ out' = Append(out, Refusal(kind, status))
  /\ ClearTimers
  /\ UNCHANGED <<buffer, request, handled, served>>

\* StreamRead::Idle and StreamRead::Closed: no response at all.
Quit ==
  /\ pc' = "closed"
  /\ ClearTimers
  /\ UNCHANGED <<buffer, request, handled, out, served>>

\* The input ends here for now: a request complete as it stands, or a refusal.
AtInputEnd(kind, status) ==
  LET v == TakeFramedRequest(buffer, TRUE)
  IN \/ v.verdict = "ready" /\ Accept(v)
     \/ v.verdict = "error" /\ Reject("refusal", v.status)
     \/ v.verdict = "incomplete" /\ Reject(kind, status)

-------------------------------------------------------------------------------
(* parse_stream_sync, an iteration of its loop: look at the buffer, ...    *)

Min2(a, b) == IF a < b THEN a ELSE b

MutWaitFor == IF started THEN IdleTimeout ELSE IF handled > 0 THEN setup.keepAlive ELSE IdleTimeout
WaitFor ==
  IF started THEN Min2(IdleTimeout, ReqTimeout - elapsed)
  ELSE IF handled > 0 THEN setup.keepAlive ELSE IdleTimeout

Parse ==
  /\ pc = "parse"
  /\ LET v == TakeFramedRequest(buffer, FALSE)
     IN \/ v.verdict = "ready" /\ Accept(v)
        \/ v.verdict = "error" /\ Reject("refusal", v.status)
        \/ /\ v.verdict = "incomplete"
           /\ \/ started /\ WaitFor =< 0 /\ Reject("timeout", 408)
              \/ ~started /\ WaitFor = 0 /\ Quit
              \/ /\ WaitFor > 0
                 /\ pc' = "reading" /\ wait' = WaitFor /\ waited' = 0
                 /\ UNCHANGED <<buffer, request, handled, out, served, started, elapsed>>
  /\ UNCHANGED <<clientVars, cut>>

(* ... then read: bytes, the end of the stream, a timeout or an error.     *)

Read ==
  /\ pc = "reading" /\ client # "reset"
  /\ \E n \in 1..Len(toSend) :
       /\ MayDeliver(n)
       /\ buffer' = buffer \o SubSeq(toSend, 1, n)
       /\ toSend' = SubSeq(toSend, n + 1, Len(toSend))
  /\ pc' = "parse" /\ started' = TRUE /\ wait' = 0 /\ waited' = 0
  /\ UNCHANGED <<setup, client, request, handled, out, served, elapsed, cut>>

ReadEnd ==
  /\ pc = "reading" /\ client = "closed"
  /\ IF buffer = <<>> THEN Quit ELSE AtInputEnd("truncated", 400)
  /\ UNCHANGED <<clientVars, cut>>

ReadTimeout ==
  /\ pc = "reading" /\ waited = wait
  /\ IF ~started THEN Quit ELSE AtInputEnd("timeout", 408)
  /\ cut' = (cut \/ (started /\ MidMessage))
  /\ UNCHANGED clientVars

ReadError ==
  /\ pc = "reading" /\ client = "reset"
  /\ Reject("truncated", 400)
  /\ UNCHANGED <<clientVars, cut>>

\* Time passes in a read, and, by at most one tick past the deadline
\* (a bound of the model), while the thread is not scheduled.
MutCanTick == pc = "reading" /\ waited < wait /\ started
CanTick == pc = "reading" /\ waited < wait
Tick ==
  /\ CanTick
  /\ waited' = waited + 1
  /\ elapsed' = IF started THEN elapsed + 1 ELSE elapsed
  /\ UNCHANGED <<clientVars, pc, buffer, request, handled, out, served, started, wait, cut>>

Delay ==
  /\ pc = "parse" /\ started /\ elapsed =< ReqTimeout
  /\ elapsed' = elapsed + 1
  /\ UNCHANGED <<clientVars, pc, buffer, request, handled, out, served, started, wait, waited, cut>>

-------------------------------------------------------------------------------
(* The rest of handle_stream's loop.                                       *)

\* parse_raw_only: what else than a known method on a line of its own is
\* answered with an error, as if for a request without headers.
RequestLine(raw) == LineAt(raw, 1)
ParsesTo(raw, verbs) == Len(RequestLine(raw)) = 1 /\ RequestLine(raw)[1].t \in verbs
Parsed(raw) == ParsesTo(raw, Verbs \ {"unknown"})

WantsClose(raw) ==
  LET head == SubSeq(raw, 1, FirstAt(raw, CRLF \o CRLF, 1) - 1)
  IN Parsed(raw) /\ \E p \in LineStarts(head) \ {1} : LineAt(head, p) = <<[t |-> "close", n |-> 0]>>

HasUpgrade(raw) == ParsesTo(raw, {"upgrade"})

MutLastAllowed(count) == count > MaxRequests
LastAllowed(count) == count >= MaxRequests

MutContinue(close) == EnterParse(buffer)
Continue(close) == IF close THEN pc' = "closed" /\ ClearTimers ELSE EnterParse(buffer)

\* A response goes out on a connection that stays with HTTP.
Answer(kind, asksClose) ==
  LET close == WantsClose(request) \/ asksClose \/ LastAllowed(handled + 1)
  IN out' = Append(out, Response(kind, close)) /\ Continue(close)

\* 101 from a route that has an upgrade handler: the stream is handed over.
SwitchProtocols == out' = Append(out, Response("switch", FALSE)) /\ pc' = "upgraded" /\ ClearTimers

\* send_response finds a header with a line break in it: its own 500 goes out.
SendBadHeader == out' = Append(out, Response("fault", TRUE)) /\ pc' = "closed" /\ ClearTimers

Respond(outcome) ==
  /\ \/ outcome \in {"ok", "close"} /\ Answer("answer", outcome = "close")
     \/ outcome = "switch" /\ HasUpgrade(request) /\ SwitchProtocols
     \/ outcome = "switch" /\ ~HasUpgrade(request) /\ Answer("switch", FALSE)
     \/ outcome = "badheader" /\ SendBadHeader
  /\ handled' = handled + 1
  /\ served' = Append(served, request)

\* What parse_raw_only cannot parse is answered without a handler.
Handle ==
  /\ pc = "handling"
  /\ IF Parsed(request) THEN \E o \in Outcomes : Respond(o) ELSE Respond("ok")
  /\ UNCHANGED <<clientVars, buffer, request, cut>>

\* The handler runs inside parse_stream, before `handled' is counted.
Panic ==
  /\ pc = "handling" /\ Parsed(request) /\ "panic" \in Outcomes
  /\ pc' = "crashed" /\ ClearTimers
  /\ UNCHANGED <<clientVars, buffer, request, handled, out, served, cut>>

Finished == pc \in Ended /\ UNCHANGED vars

ServerNext == Parse \/ Read \/ ReadEnd \/ ReadTimeout \/ ReadError \/ Handle \/ Panic

Init ==
  /\ setup \in Setups
  /\ toSend = setup.wire /\ client = "open"
  /\ pc = "parse" /\ buffer = <<>> /\ request = <<>> /\ handled = 0
  /\ out = <<>> /\ served = <<>>
  /\ started = FALSE /\ elapsed = 0 /\ wait = 0 /\ waited = 0
  /\ cut = FALSE

Next == ServerNext \/ Tick \/ Delay \/ Close \/ Reset \/ Finished

Spec == Init /\ [][Next]_vars

\* The thread runs, time passes and handlers return; the client owes nothing.
Fairness ==
  /\ WF_vars(Parse) /\ WF_vars(Handle \/ Panic) /\ WF_vars(Tick)
  /\ WF_vars(ReadEnd) /\ WF_vars(ReadTimeout) /\ WF_vars(ReadError)

FairSpec == Spec /\ Fairness
-------------------------------------------------------------------------------
(* Properties.                                                             *)

\* Types of the connection's state.
ControlTypeOK ==
  /\ client \in {"open", "closed", "reset"}
  /\ pc \in {"parse", "reading", "handling"} \cup Ended
  /\ handled \in 0..MaxRequests
  /\ out \in Seq(Responses)
  /\ elapsed \in 0..(ReqTimeout + 1)
  /\ wait \in Nat /\ waited \in 0..wait
FlagsTypeOK == started \in BOOLEAN /\ cut \in BOOLEAN
TypeOK == ControlTypeOK /\ FlagsTypeOK /\ setup \in Setups

\* What the handlers see is what the client sent, whole and in order, however
\* it was cut into reads: for requests that carry their framing always, for
\* the others if the client waits for answers and never stalls in mid-message.
AnswersMatchRequests ==
  setup.framed \/ (~setup.pipelined /\ ~cut) => IsPrefix(served, setup.raws)

\* A message is refused when all before it have been answered, and with its own
\* status, wherever the bytes were cut and whatever was known of it then.
RefusedAsDue ==
  setup.framed \/ (~setup.pipelined /\ ~cut) =>
    \A i \in 1..Len(out) : out[i].kind = "refusal" =>
      served = setup.raws /\ out[i].status = setup.refusal

\* A job does not wait for bytes while it has any that it could have acted on:
\* when all have arrived, all requests have been answered, and what is left in
\* the buffer neither is a request nor must be refused.
WaitsWithNothingDue ==
  pc = "reading" /\ client = "open" /\ toSend = <<>> /\ setup.framed =>
    served = setup.raws /\ setup.refusal = 0 /\ buffer = After(setup, Len(setup.raws))

\* While the job waits for its client, the bytes it keeps are bounded by the
\* limits, though chunk lines and trailers are kept until the last chunk; what it
\* has answered was within the limits.
LimitsKept ==
  /\ pc = "reading" => Len(buffer) =< MemoryLimit
  /\ \A i \in 1..Len(served) : WithinLimits(served[i])

\* A closing response is the last thing written, nothing is written after the
\* 101 that hands the stream over, and the last response allowed closes.
NothingAfterClose ==
  \A i \in 1..Len(out) :
    /\ out[i].close => i = Len(out) /\ pc = "closed"
    /\ i = MaxRequests => out[i].close \/ pc = "upgraded"
    /\ i =< MaxRequests

\* The job never leaves without an answer to bytes it has received: a silent
\* close happens only between requests (a panic apart).
NoSilentDrop ==
  pc = "closed" => buffer = <<>> \/ (out # <<>> /\ out[Len(out)].close)

\* However slowly the bytes drip in, the job is not blocked in a read past
\* the request timeout counted from the request's first byte.
DeadlineHolds ==
  pc = "reading" /\ started => elapsed =< ReqTimeout

\* The stream is handed over only right after the 101 that answers a request
\* on a route with an upgrade handler.
HandoverSound ==
  pc = "upgraded" =>
    out # <<>> /\ out[Len(out)].kind = "switch" /\ ParsesTo(request, {"upgrade"})

\* No byte is left behind in the job's buffer, which is dropped at the
\* handover, if the client waited for the 101 before it went on.
HandoverLosesNothing ==
  pc = "upgraded" /\ ~setup.pipelined /\ ~cut => buffer = <<>>

\* request.rs:5-8 give a request an idle time and a total time "to receive one
\* complete request": what is still arriving without an idle pause when the
\* total time is over should be refused, not handled as if it were complete.
DispatchesOnlyComplete ==
  [][pc = "reading" /\ pc' = "handling" /\ MidMessage => waited >= IdleTimeout]_vars

\* Whatever the client does or does not do, the job ends and frees its worker.
JobEnds == <>(pc \in Ended)

\* The connection implements the abstract session: for requests with framing,
\* of the others AnswersMatchRequests says what can be said.
Faithful == IF setup.framed THEN served ELSE <<>>
Session == INSTANCE HttpSession WITH
  Sessions <- {s.raws : s \in Setups},
  Limit <- MaxRequests,
  IsUpgrade <- HasUpgrade,
  answered <- Faithful,
  pending <- SubSeq(setup.raws, Len(Faithful) + 1, Len(setup.raws)),
  phase <- IF pc = "upgraded" /\ setup.framed THEN "switched"
           ELSE IF pc \in Ended THEN "over" ELSE "open"

ImplementsSession == Session!Spec
===============================================================================
