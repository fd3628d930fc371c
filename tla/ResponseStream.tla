---------------------------- MODULE ResponseStream ----------------------------
(***************************************************************************)
(* The responses of one connection on the wire: response_head and          *)
(* send_response (runtime/shared.rs, runtime/async/shared.rs), the loops   *)
(* around them, and a client that finds out by HTTP's rules where each     *)
(* response ends.  The head and the body are written one after the other,  *)
(* and the server may be gone in between.                                  *)
(***************************************************************************)
EXTENDS Integers, SequencesExt

CONSTANTS Methods,       \* of requests
          Responses,     \* what handlers return: [status, headers, body], a body's length
          Policies,      \* NoPolicy and CORS policies
          NoPolicy,
          Origins,       \* of requests, with NoOrigin
          NoOrigin,
          MaxRequests    \* RequestLimits::max_requests

ASSUME StreamAssumption ==
  /\ MaxRequests \in Nat \ {0}
  /\ \A r \in Responses : r.body \in Nat
  /\ NoOrigin \in Origins /\ "*" \notin Origins

VARIABLES policy,    \* the server's CORS policy
          handled,   \* the loop's count of requests
          pc,        \* "serve", "write", "upgraded" or "ended"
          todo,      \* what send_response still has to write
          after,     \* where the loop goes once that is written
          ending,    \* history: why the server ended without a word
          meant,     \* history: each response as the client should see it
          asked,     \* the methods of the client's requests
          wire,      \* what the client has not read
          eof,       \* nothing more is coming
          phase,     \* "open", or how the connection ended for the client
          current,   \* the response it is reading
          got        \* the responses it has read

serverVars == <<policy, handled, pc, todo, after, ending, meant, asked>>
streamVars == <<wire, eof>>
clientVars == <<phase, current, got>>
vars == <<serverVars, streamVars, clientVars>>

-------------------------------------------------------------------------------
(* Heads.  A header line has a name and a value: a number if it is a       *)
(* length, and "broken" stands for a value with a line break in it.  The   *)
(* client does not mind the order of the lines: a head is a set of them.   *)

Line(name, value) == [name |-> name, value |-> value, number |-> 0]
LengthLine(n) == [name |-> "content-length", value |-> "number", number |-> n]

StatusForbidsContent(status) == status \in {"switching", "no_content", "not_modified"}

\* The method is "none" where the request could not be read.
HasContent(method, r) == method # "HEAD" /\ ~StatusForbidsContent(r.status)

AllowedOrigin(origin) ==
  IF policy.origins = {"*"} THEN "*"
  ELSE IF origin \in policy.origins THEN origin ELSE NoOrigin

CorsLines(origin) ==
  IF policy = NoPolicy THEN {}
  ELSE (IF AllowedOrigin(origin) = NoOrigin THEN {}
        ELSE {Line("allow-origin", AllowedOrigin(origin)), Line("allow-methods", policy.methods)})
       \cup (IF policy.credentials THEN {Line("allow-credentials", "true")} ELSE {})

Valid(r, origin) == \A line \in r.headers \cup CorsLines(origin) : line.value # "broken"

\* The handler's own length is left out, and its Connection when another is said.
Keeps(line, close) == line.name # "content-length" /\ (line.name = "connection" => ~close)

MutCloseLines(close) == {}
CloseLines(close) == IF close THEN {Line("connection", "close")} ELSE {}

ResponseHead(r, method, close, origin) ==
  [kind |-> "head", status |-> r.status,
   lines |-> {line \in r.headers : Keeps(line, close)}
             \cup (IF HasContent(method, r) THEN {LengthLine(r.body)} ELSE {})
             \cup CloseLines(close) \cup CorsLines(origin)]

InternalServerErrorHead ==
  [kind |-> "head", status |-> "internal", lines |-> {LengthLine(0), Line("connection", "close")}]

BodyByte == [kind |-> "byte", status |-> "none", lines |-> {}]
Shutdown == [kind |-> "shutdown", status |-> "none", lines |-> {}]

-------------------------------------------------------------------------------
(* The server's side.                                                      *)

\* What HTTP makes of a response to a request of that method.
ContentOf(method, r) ==
  IF method = "HEAD" \/ r.status \in {"switching", "no_content", "not_modified"} THEN 0 ELSE r.body

\* send_response: what it will write, and where the loop goes on.
SendResponse(r, method, close, origin, next) ==
  /\ pc' = "write"
  /\ IF Valid(r, origin)
     THEN /\ todo' = <<ResponseHead(r, method, close, origin)>>
                     \o [i \in 1..(IF HasContent(method, r) THEN r.body ELSE 0) |-> BodyByte]
                     \o (IF close THEN <<Shutdown>> ELSE <<>>)
          /\ after' = next
     ELSE todo' = <<InternalServerErrorHead, Shutdown>> /\ after' = "ended"
  /\ UNCHANGED <<policy, ending, streamVars, clientVars>>

Note(method, r, origin) ==
  /\ asked' = Append(asked, method)
  /\ meant' = Append(meant, IF Valid(r, origin) THEN [status |-> r.status, body |-> ContentOf(method, r)]
                            ELSE [status |-> "internal", body |-> 0])

ResponseClose(r) == Line("connection", "close") \in r.headers

MutCloses(asks, count) == asks
Closes(asks, count) == asks \/ count >= MaxRequests

\* A request that was understood is routed; 101 from a route with an upgrade
\* handler hands the stream over.
Answer(method, origin, wantsClose, r, upgrade) ==
  LET close == Closes(wantsClose \/ ResponseClose(r), handled + 1)
  IN /\ pc = "serve"
     /\ handled' = handled + 1
     /\ Note(method, r, origin)
     /\ IF r.status = "switching" /\ upgrade
        THEN SendResponse(r, method, FALSE, origin, "upgraded")
        ELSE SendResponse(r, method, close, origin, IF close THEN "ended" ELSE "serve")

\* What cannot be parsed is answered, with no content, as a default request: a
\* GET without headers, whatever the client asked.
MutRefusal == [status |-> "refused", headers |-> {}, body |-> 1]
Refusal == [status |-> "refused", headers |-> {}, body |-> 0]
AnswerUnparsed(method) ==
  LET close == Closes(FALSE, handled + 1)
  IN /\ pc = "serve"
     /\ handled' = handled + 1
     /\ Note(method, Refusal, NoOrigin)
     /\ SendResponse(Refusal, "GET", close, NoOrigin, IF close THEN "ended" ELSE "serve")

\* What cannot be framed, or does not arrive in time, is refused and ends the loop.
RefuseStream(method) ==
  /\ pc = "serve"
  /\ UNCHANGED handled
  /\ Note(method, Refusal, NoOrigin)
  /\ SendResponse(Refusal, "none", TRUE, NoOrigin, "ended")

\* The loop leaves on silence, or at the end of what the client sends.
Idle ==
  /\ pc = "serve"
  /\ pc' = "ended" /\ eof' = TRUE /\ ending' = "idle"
  /\ UNCHANGED <<policy, handled, todo, after, meant, asked, wire, clientVars>>

Write ==
  /\ pc = "write" /\ todo # <<>>
  /\ todo' = Tail(todo)
  /\ IF Head(todo) = Shutdown
     THEN eof' = TRUE /\ UNCHANGED wire
     ELSE wire' = Append(wire, Head(todo)) /\ UNCHANGED eof
  /\ UNCHANGED <<policy, handled, pc, after, ending, meant, asked, clientVars>>

Written ==
  /\ pc = "write" /\ todo = <<>>
  /\ pc' = after
  /\ eof' = (eof \/ after = "ended")
  /\ UNCHANGED <<policy, handled, todo, after, ending, meant, asked, wire, clientVars>>

\* The runtime is dropped, or the process ends, at any await or between writes.
Cancel ==
  /\ pc # "ended"
  /\ pc' = "ended" /\ todo' = <<>> /\ eof' = TRUE /\ ending' = "cancelled"
  /\ UNCHANGED <<policy, handled, after, meant, asked, wire, clientVars>>

-------------------------------------------------------------------------------
(* The client: where a response ends, by its method, status and head.      *)

NoHead == [status |-> "none", body |-> 0, left |-> 0, closes |-> FALSE]

LengthsOf(head) == {line.number : line \in {l \in head.lines : l.name = "content-length"}}
AnnouncesClose(head) == Line("connection", "close") \in head.lines
ToTheEnd == -1   \* without a length the body goes on to the end of the stream

BodyLengths(method, head) ==
  IF ContentOf(method, [status |-> head.status, body |-> 1]) = 0 THEN {0}
  ELSE IF LengthsOf(head) = {} THEN {ToTheEnd} ELSE LengthsOf(head)

Complete(response) ==
  /\ got' = Append(got, [status |-> response.status, body |-> response.body])
  /\ current' = NoHead
  /\ phase' = IF response.status = "switching" THEN "switched"
              ELSE IF response.closes THEN "done" ELSE "open"

ReadHead ==
  /\ phase = "open" /\ current = NoHead /\ wire # <<>>
  /\ wire' = Tail(wire)
  /\ LET head == Head(wire)
         lengths == BodyLengths(asked[Len(got) + 1], head)
         left == CHOOSE n \in lengths : TRUE
         response == [status |-> head.status, body |-> 0, left |-> left, closes |-> AnnouncesClose(head)]
     IN IF head.kind # "head" \/ \E n, k \in lengths : n # k
        THEN phase' = "confused" /\ UNCHANGED <<current, got>>
        ELSE IF left = 0 THEN Complete(response)
        ELSE current' = response /\ UNCHANGED <<phase, got>>
  /\ UNCHANGED <<serverVars, eof>>

ReadBody ==
  /\ phase = "open" /\ current # NoHead /\ wire # <<>>
  /\ wire' = Tail(wire)
  /\ LET response == [current EXCEPT !.body = @ + 1, !.left = IF @ = ToTheEnd THEN @ ELSE @ - 1]
     IN IF response.left = 0 THEN Complete(response)
        ELSE current' = response /\ UNCHANGED <<phase, got>>
  /\ UNCHANGED <<serverVars, eof>>

\* The end of the stream: between responses, as the end of one, or in one.
ReadEof ==
  /\ phase = "open" /\ wire = <<>> /\ eof
  /\ IF current = NoHead THEN phase' = "ended" /\ UNCHANGED <<current, got>>
     ELSE IF current.left = ToTheEnd THEN Complete([current EXCEPT !.closes = TRUE])
     ELSE phase' = "cut" /\ UNCHANGED <<current, got>>
  /\ UNCHANGED <<serverVars, streamVars>>

\* Not a step of the code: the connection may rest when nobody has anything to do.
Rest == pc = "ended" /\ UNCHANGED vars

Init ==
  /\ policy \in Policies
  /\ handled = 0 /\ pc = "serve" /\ todo = <<>> /\ after = "serve" /\ ending = "none"
  /\ meant = <<>> /\ asked = <<>>
  /\ wire = <<>> /\ eof = FALSE
  /\ phase = "open" /\ current = NoHead /\ got = <<>>

ServerNext ==
  \/ \E m \in Methods :
       \/ \E o \in Origins, r \in Responses, wantsClose, upgrade \in BOOLEAN :
            Answer(m, o, wantsClose, r, upgrade)
       \/ AnswerUnparsed(m) \/ RefuseStream(m)
  \/ Idle \/ Write \/ Written \/ Cancel

Next == ServerNext \/ ReadHead \/ ReadBody \/ ReadEof \/ Rest

Spec == Init /\ [][Next]_vars

-------------------------------------------------------------------------------
(* Properties.                                                             *)

\* Types; no more responses than requests allowed, and one refusal; the wire
\* ends when the server has.
TypeOK ==
  /\ policy \in Policies
  /\ handled \in 0..MaxRequests /\ Len(meant) \in handled..(handled + 1)
  /\ pc \in {"serve", "write", "upgraded", "ended"} /\ (pc = "ended" => eof)
  /\ after \in {"serve", "upgraded", "ended"} /\ ending \in {"none", "idle", "cancelled"}
  /\ Len(asked) = Len(meant)
  /\ phase \in {"open", "ended", "cut", "done", "switched", "confused"}

\* Whatever the methods, statuses, handlers' headers and policies, the client
\* tells the responses apart: it reads each as it was meant, takes none that was
\* cut off for a whole one, and once it has read everything misses none.
ResponsesDelimited ==
  /\ IsPrefix(got, meant) /\ phase # "confused"
  /\ phase = "open" /\ wire = <<>> /\ pc \in {"serve", "upgraded"} => got = meant

\* A client told that the connection closes is right, and one that was not told
\* finds it closed only after a silence, an upgrade or the end of the runtime.
CloseIsAnnounced ==
  /\ phase = "done" => pc = "ended" \/ after = "ended"
  /\ phase \in {"ended", "cut"} => ending # "none"
===============================================================================
