-------------------------- MODULE ResponseStreamProofs --------------------------
(***************************************************************************)
(* Theorems about ResponseStream, for all requests, handlers' responses,   *)
(* policies and limits.                                                    *)
(***************************************************************************)
EXTENDS ResponseStream, SequenceTheorems, TLAPS

-------------------------------------------------------------------------------
(* Types.                                                                  *)

Answerable == Responses \cup {Refusal}
Statuses == {r.status : r \in Answerable} \cup {"internal", "none"}
Lines ==
  (UNION {r.headers : r \in Answerable})
  \cup {LengthLine(n) : n \in Nat}
  \cup {Line("connection", "close"), Line("allow-credentials", "true")}
  \cup {Line("allow-origin", o) : o \in Origins \cup {"*"}}
  \cup {Line("allow-methods", p.methods) : p \in Policies}
Cells == [kind : {"head", "byte", "shutdown"}, status : Statuses, lines : SUBSET Lines]
Meant == [status : Statuses, body : Nat]
Places == [resp : Nat, cell : Nat]

Place(k, j) == [resp |-> k, cell |-> j]

Types ==
  /\ TypeOK
  /\ meant \in Seq(Meant) /\ asked \in Seq(Methods) /\ got \in Seq(Meant)
  /\ wire \in Seq(Cells) /\ todo \in Seq(Cells) /\ eof \in BOOLEAN
  /\ current \in [status : Statuses, body : Nat, left : Nat, closes : BOOLEAN]
  /\ current.left = 0 => current = NoHead

-------------------------------------------------------------------------------
(* The stream: every cell has its place in a response.                     *)

\* What a head says to the client is what was meant: how long the body is, and
\* whether the connection closes, which only its last response says (or one that
\* switches to another protocol).
Final(k) == k = Len(meant) /\ after = "ended"
Closing(k, closes) ==
  /\ Final(k) => closes
  /\ closes => Final(k) \/ meant[k].status = "switching"

Fits(cell, place) ==
  LET k == place.resp
  IN /\ k \in 1..Len(meant) /\ place.cell \in 0..meant[k].body
     /\ IF place.cell > 0 THEN cell.kind = "byte"
        ELSE /\ cell.kind = "head" /\ cell.status = meant[k].status
             /\ BodyLengths(asked[k], cell) = {meant[k].body}
             /\ Closing(k, AnnouncesClose(cell))

\* The place after a cell's.
Succ(place) ==
  IF place.cell < meant[place.resp].body THEN Place(place.resp, place.cell + 1)
  ELSE Place(place.resp + 1, 0)

\* Where the client is, and where the next response begins.
Reading == IF current = NoHead THEN Place(Len(got) + 1, 0) ELSE Place(Len(got) + 1, current.body + 1)
Fresh == Place(Len(meant) + 1, 0)

\* The cells on the wire follow one another, from the client's place to at[Len(wire) + 1].
Follow(at) ==
  /\ at \in Seq(Places) /\ Len(at) = Len(wire) + 1
  /\ \A i \in 1..Len(wire) : Fits(wire[i], at[i]) /\ at[i + 1] = Succ(at[i])

\* The n cells before the end of the stream that are still to be written.
Remain(place, n) ==
  /\ n \in 0..Len(todo)
  /\ \A i \in 1..n : Fits(todo[i], Place(place.resp, place.cell + i - 1))
  /\ IF n = 0 THEN place = Fresh
     ELSE place.resp = Len(meant) /\ place.cell + n = meant[Len(meant)].body + 1
  /\ \A i \in (n + 1)..Len(todo) : todo[i] = Shutdown

\* What the server has written, and has still to write.
Writes(place) ==
  /\ pc = "write" => \E n \in Nat : Remain(place, n)
  /\ pc \in {"serve", "upgraded"} \/ (pc = "ended" /\ ending # "cancelled") => place = Fresh

Along(at) == Follow(at) /\ at[1] = Reading /\ Writes(at[Len(wire) + 1])

Stream == phase = "open" => \E at \in Seq(Places) : Along(at)

\* The client.
Understands ==
  /\ phase # "confused" /\ IsPrefix(got, meant)
  /\ phase = "open" /\ current # NoHead =>
       LET k == Len(got) + 1
       IN /\ k \in 1..Len(meant) /\ current.status = meant[k].status
          /\ current.left > 0 /\ current.body + current.left = meant[k].body
          /\ Closing(k, current.closes)
  /\ phase = "open" => ~Final(Len(got))
  /\ phase = "done" => after = "ended"
  /\ phase \in {"ended", "cut"} => ending # "none"

\* The server.
Serves ==
  /\ pc = "serve" => after = "serve"
  /\ after = "serve" /\ pc \in {"serve", "write"} => Len(meant) = handled /\ handled < MaxRequests
  /\ after = "ended" => pc \in {"write", "ended"}
  /\ ending # "none" => pc = "ended"
  /\ pc = "ended" /\ ending = "none" => after = "ended"
  /\ \A i \in 1..Len(todo) : todo[i] = Shutdown => i = Len(todo) /\ after = "ended"
  /\ eof => ending # "none" \/ (after = "ended" /\ (pc = "write" => todo = <<>>))

IInv == Types /\ Stream /\ Understands /\ Serves

-------------------------------------------------------------------------------
(* Heads.                                                                  *)

LEMMA ResponseTypes ==
  /\ \A r \in Answerable : r.status \in Statuses /\ r.headers \subseteq Lines /\ r.body \in Nat
  /\ "internal" \in Statuses /\ "none" \in Statuses
  /\ MaxRequests \in Nat \ {0}
<1>1. \A r \in Answerable : r.body \in Nat
  BY StreamAssumption DEF Answerable, Refusal
<1>2. \A r \in Answerable : r.status \in Statuses
  BY DEF Statuses
<1>3. \A r \in Answerable : r.headers \subseteq Lines
  BY DEF Lines
<1> QED
  BY <1>1, <1>2, <1>3, StreamAssumption DEF Statuses

LEMMA CorsTypes ==
  ASSUME policy \in Policies, NEW origin \in Origins
  PROVE  /\ CorsLines(origin) \subseteq Lines
         /\ \A line \in CorsLines(origin) : line.name # "content-length" /\ line.name # "connection"
<1>1. AllowedOrigin(origin) \in Origins \cup {"*"}
  BY StreamAssumption DEF AllowedOrigin
<1>2. /\ \A o \in Origins \cup {"*"} : Line("allow-origin", o) \in Lines
      /\ Line("allow-methods", policy.methods) \in Lines
      /\ Line("allow-credentials", "true") \in Lines
  BY DEF Lines
<1>3. \A n, v : Line(n, v).name = n
  BY DEF Line
<1>4. \A line \in CorsLines(origin) :
        \/ line = Line("allow-origin", AllowedOrigin(origin))
        \/ line = Line("allow-methods", policy.methods)
        \/ line = Line("allow-credentials", "true")
  BY DEF CorsLines
<1> QED
  BY <1>1, <1>2, <1>3, <1>4

\* The head that is written says how long the body is, and whether the connection closes.
LEMMA HeadSays ==
  ASSUME policy \in Policies, NEW r \in Answerable, NEW m, NEW asks, NEW close \in BOOLEAN,
         NEW origin \in Origins,
         asks = m \/ (r = Refusal /\ asks \in {"GET", "none"})
  PROVE  LET h == ResponseHead(r, asks, close, origin)
         IN /\ h \in Cells /\ h.kind = "head" /\ h.status = r.status
            /\ BodyLengths(m, h) = {ContentOf(m, r)}
            /\ close => AnnouncesClose(h)
            /\ AnnouncesClose(h) => close \/ ResponseClose(r)
<1> DEFINE h == ResponseHead(r, asks, close, origin)
           lengths == IF HasContent(asks, r) THEN {LengthLine(r.body)} ELSE {}
<1>1. /\ r.status \in Statuses /\ r.headers \subseteq Lines /\ r.body \in Nat
      /\ CorsLines(origin) \subseteq Lines
      /\ \A line \in CorsLines(origin) : line.name # "content-length" /\ line.name # "connection"
  BY ResponseTypes, CorsTypes
<1>2. /\ LengthLine(r.body) \in Lines /\ LengthLine(r.body).name = "content-length"
      /\ LengthLine(r.body).number = r.body
      /\ Line("connection", "close") \in Lines /\ Line("connection", "close").name = "connection"
  <2>1. LengthLine(r.body) \in Lines /\ Line("connection", "close") \in Lines
    BY <1>1 DEF Lines
  <2> QED
    BY <2>1 DEF LengthLine, Line
<1>3. /\ h.kind = "head" /\ h.status = r.status
      /\ h.lines = {line \in r.headers : Keeps(line, close)} \cup lengths \cup CloseLines(close) \cup CorsLines(origin)
  BY DEF ResponseHead
<1>4. h.lines \in SUBSET Lines
  BY <1>1, <1>2, <1>3 DEF CloseLines
<1>5. h \in Cells
  <2>1. h.lines \subseteq Lines
    BY <1>4
  <2> QED
    BY <1>1, <2>1 DEF ResponseHead, Cells
<1> HIDE DEF h
<1>6. \A line \in h.lines : line.name = "content-length" <=> line \in lengths
  BY <1>1, <1>2, <1>3 DEF CloseLines, Keeps
<1>7. LengthsOf(h) = IF HasContent(asks, r) THEN {r.body} ELSE {}
  <2>1. lengths \subseteq h.lines
    BY <1>3
  <2>2. {l \in h.lines : l.name = "content-length"} = lengths
    BY <1>6, <2>1
  <2>3. LengthsOf(h) = {line.number : line \in lengths}
    BY <2>2 DEF LengthsOf
  <2> QED
    BY <1>2, <2>3
<1>8. BodyLengths(m, h) = {ContentOf(m, r)}
  <2>1. CASE m = "HEAD"
    BY <2>1 DEF BodyLengths, ContentOf
  <2>2. CASE m # "HEAD" /\ StatusForbidsContent(r.status)
    BY <1>3, <2>2 DEF BodyLengths, ContentOf, StatusForbidsContent
  <2>3. CASE m # "HEAD" /\ ~StatusForbidsContent(r.status)
    <3>1. HasContent(asks, r)
      BY <2>3 DEF HasContent
    <3> QED
      BY <1>3, <1>7, <2>3, <3>1 DEF BodyLengths, ContentOf, StatusForbidsContent
  <2> QED
    BY <2>1, <2>2, <2>3
<1>9. close => AnnouncesClose(h)
  BY <1>3 DEF AnnouncesClose, CloseLines
<1>10. AnnouncesClose(h) => close \/ ResponseClose(r)
  BY <1>1, <1>2, <1>3 DEF AnnouncesClose, CloseLines, ResponseClose
<1> QED
  BY <1>3, <1>5, <1>8, <1>9, <1>10 DEF h

LEMMA InternalSays ==
  /\ InternalServerErrorHead \in Cells /\ InternalServerErrorHead.kind = "head"
  /\ InternalServerErrorHead.status = "internal" /\ AnnouncesClose(InternalServerErrorHead)
  /\ \A m : BodyLengths(m, InternalServerErrorHead) = {0}
<1> DEFINE h == InternalServerErrorHead
<1>1. h.kind = "head" /\ h.status = "internal" /\ h.lines = {LengthLine(0), Line("connection", "close")}
  BY DEF InternalServerErrorHead
<1>2. /\ LengthLine(0).number = 0 /\ LengthLine(0).name = "content-length"
      /\ Line("connection", "close").name = "connection"
  BY DEF LengthLine, Line
<1>3. h \in Cells
  <2>1. {LengthLine(0), Line("connection", "close")} \subseteq Lines
    BY DEF Lines
  <2> QED
    BY <2>1, ResponseTypes DEF InternalServerErrorHead, Cells
<1> HIDE DEF h
<1>4. {l \in h.lines : l.name = "content-length"} = {LengthLine(0)}
  BY <1>1, <1>2
<1>5. LengthsOf(h) = {0}
  BY <1>2, <1>4 DEF LengthsOf
<1>6. \A m : BodyLengths(m, h) = {0}
  BY <1>5 DEF BodyLengths
<1>7. AnnouncesClose(h)
  BY <1>1 DEF AnnouncesClose
<1> QED
  BY <1>1, <1>3, <1>6, <1>7 DEF h

\* What is to be written of a response with n cells of content.
ToWrite(h, n, close) == <<h>> \o [i \in 1..n |-> BodyByte] \o (IF close THEN <<Shutdown>> ELSE <<>>)

LEMMA CellsOfResponse ==
  ASSUME NEW h \in Cells, NEW n \in Nat, NEW close \in BOOLEAN
  PROVE  LET t == ToWrite(h, n, close)
         IN /\ t \in Seq(Cells) /\ Len(t) = IF close THEN n + 2 ELSE n + 1
            /\ t[1] = h /\ (\A i \in 2..(n + 1) : t[i] = BodyByte)
            /\ close => t[n + 2] = Shutdown
<1> DEFINE b == [i \in 1..n |-> BodyByte]
           e == IF close THEN <<Shutdown>> ELSE <<>>
           t == <<h>> \o b \o e
<1>1. BodyByte \in Cells /\ Shutdown \in Cells
  BY ResponseTypes DEF BodyByte, Shutdown, Cells
<1>2. <<h>> \in Seq(Cells) /\ Len(<<h>>) = 1 /\ <<h>>[1] = h
  OBVIOUS
<1>3. b \in Seq(Cells) /\ Len(b) = n /\ \A i \in 1..n : b[i] = BodyByte
  BY <1>1
<1>4. e \in Seq(Cells) /\ Len(e) = (IF close THEN 1 ELSE 0) /\ (close => e[1] = Shutdown)
  BY <1>1
<1> HIDE DEF b, e
<1> DEFINE u == <<h>> \o b
<1>5. u \in Seq(Cells) /\ Len(u) = n + 1 /\ u[1] = h /\ \A i \in 2..(n + 1) : u[i] = BodyByte
  BY <1>2, <1>3, ConcatProperties
<1> HIDE DEF u
<1>6. /\ u \o e \in Seq(Cells) /\ Len(u \o e) = IF close THEN n + 2 ELSE n + 1
      /\ (u \o e)[1] = h /\ (\A i \in 2..(n + 1) : (u \o e)[i] = BodyByte)
      /\ close => (u \o e)[n + 2] = Shutdown
  <2>1. /\ u \o e \in Seq(Cells) /\ Len(u \o e) = Len(u) + Len(e)
        /\ \A i \in 1..Len(u) : (u \o e)[i] = u[i]
        /\ \A i \in 1..Len(e) : (u \o e)[Len(u) + i] = e[i]
    <3>1. /\ u \o e \in Seq(Cells) /\ Len(u \o e) = Len(u) + Len(e)
          /\ \A i \in 1..(Len(u) + Len(e)) : (u \o e)[i] = IF i =< Len(u) THEN u[i] ELSE e[i - Len(u)]
      BY <1>4, <1>5, ConcatProperties
    <3> QED
      BY <1>4, <1>5, <3>1
  <2> QED
    BY <1>4, <1>5, <2>1
<1> QED
  BY <1>6 DEF u, b, e, ToWrite

LEMMA PrefixElementwise ==
  ASSUME NEW S, NEW s \in Seq(S), NEW t \in Seq(S)
  PROVE  IsPrefix(s, t) <=> Len(s) =< Len(t) /\ \A i \in 1..Len(s) : s[i] = t[i]
<1>1. SubSeq(s, 1, Len(s)) = s
  OBVIOUS
<1>2. ASSUME Len(s) =< Len(t)
      PROVE  SubSeq(t, 1, Len(s)) \in Seq(S) /\ Len(SubSeq(t, 1, Len(s))) = Len(s)
             /\ \A i \in 1..Len(s) : SubSeq(t, 1, Len(s))[i] = t[i]
  BY <1>2
<1>3. ASSUME Len(s) =< Len(t), \A i \in 1..Len(s) : s[i] = t[i] PROVE SubSeq(t, 1, Len(s)) = s
  BY <1>2, <1>3, SeqEqual
<1> QED
  BY <1>1, <1>2, <1>3 DEF IsPrefix

-------------------------------------------------------------------------------
(* The steps of the server.                                                *)

LEMMA InitOK == Init => IInv
<1> SUFFICES ASSUME Init PROVE IInv
  OBVIOUS
<1>1. \A S : <<>> \in Seq(S) /\ Len(<<>>) = 0
  BY EmptySeq
<1>2. Types
  <2>1. TypeOK
    BY <1>1, ResponseTypes DEF Init, TypeOK
  <2>2. NoHead \in [status : Statuses, body : Nat, left : Nat, closes : BOOLEAN]
    BY ResponseTypes DEF NoHead
  <2> QED
    BY <1>1, <2>1, <2>2 DEF Init, Types
<1>3. Stream
  <2> DEFINE at == <<Place(1, 0)>>
  <2>1. at \in Seq(Places) /\ Len(at) = 1 /\ at[1] = Place(1, 0)
    BY DEF Place, Places
  <2>2. Follow(at) /\ at[1] = Reading /\ at[1] = Fresh
    BY <1>1, <2>1 DEF Init, Follow, Reading, Fresh
  <2>3. Writes(at[Len(wire) + 1])
    BY <1>1, <2>1, <2>2 DEF Init, Writes
  <2> QED
    BY <2>1, <2>2, <2>3 DEF Stream, Along
<1>4. Understands /\ Serves
  <2>1. IsPrefix(<<>>, <<>>)
    BY <1>1 DEF IsPrefix
  <2> QED
    BY <1>1, <2>1, ResponseTypes DEF Init, Understands, Serves, Final
<1> QED
  BY <1>2, <1>3, <1>4 DEF IInv

\* The facts of a state.
LEMMA Facts ==
  ASSUME IInv
  PROVE  /\ meant \in Seq(Meant) /\ got \in Seq(Meant) /\ asked \in Seq(Methods)
         /\ Len(meant) \in Nat /\ Len(got) \in Nat /\ Len(got) =< Len(meant) /\ Len(asked) = Len(meant)
         /\ \A i \in 1..Len(got) : got[i] = meant[i]
         /\ \A i \in 1..Len(meant) : meant[i].status \in Statuses /\ meant[i].body \in Nat
         /\ wire \in Seq(Cells) /\ todo \in Seq(Cells) /\ Len(wire) \in Nat /\ Len(todo) \in Nat
         /\ MaxRequests \in Nat \ {0}
<1>1. /\ meant \in Seq(Meant) /\ got \in Seq(Meant) /\ asked \in Seq(Methods) /\ Len(asked) = Len(meant)
      /\ IsPrefix(got, meant) /\ wire \in Seq(Cells) /\ todo \in Seq(Cells)
  BY DEF IInv, Types, TypeOK, Understands
<1>2. Len(got) =< Len(meant) /\ \A i \in 1..Len(got) : got[i] = meant[i]
  BY <1>1, PrefixElementwise
<1>3. \A i \in 1..Len(meant) : meant[i] \in Meant
  BY <1>1
<1> QED
  BY <1>1, <1>2, <1>3, ResponseTypes DEF Meant

\* A new response leaves the places of the earlier ones alone.
LEMMA EarlierStand ==
  ASSUME IInv, pc = "serve", NEW m \in Methods, NEW x \in Meant,
         asked' = Append(asked, m), meant' = Append(meant, x), NEW k \in 1..Len(meant)
  PROVE  /\ meant'[k] = meant[k] /\ asked'[k] = asked[k] /\ Len(meant') = Len(meant) + 1
         /\ \A c : Closing(k, c) => Closing(k, c)'
         /\ \A cell : \A place \in Places : place.resp = k /\ Fits(cell, place) =>
              Fits(cell, place)' /\ Succ(place)' = Succ(place)
<1>1. meant'[k] = meant[k] /\ asked'[k] = asked[k] /\ Len(meant') = Len(meant) + 1 /\ Len(meant) \in Nat
  BY Facts
<1>2. after = "serve"
  BY DEF IInv, Serves
<1>3. ASSUME NEW j, j = k, NEW c, Closing(j, c) PROVE Closing(j, c)'
  <2>1. ~Final(j) /\ ~Final(j)'
    BY <1>1, <1>2, <1>3 DEF Final
  <2> QED
    BY <1>1, <1>3, <2>1 DEF Closing
<1>4. ASSUME NEW cell, NEW place \in Places, place.resp = k, Fits(cell, place)
      PROVE  Fits(cell, place)' /\ Succ(place)' = Succ(place)
  <2>1. Closing(place.resp, AnnouncesClose(cell)) => Closing(place.resp, AnnouncesClose(cell))'
    BY <1>3, <1>4
  <2>2. /\ meant'[place.resp] = meant[place.resp] /\ asked'[place.resp] = asked[place.resp]
        /\ place.resp \in 1..Len(meant) /\ place.resp \in 1..Len(meant')
    <3>1. place.resp = k /\ k \in 1..Len(meant) /\ k \in 1..Len(meant')
      BY <1>1, <1>4
    <3> QED
      BY ONLY <1>1, <3>1
  <2>3. Fits(cell, place)'
    BY <1>4, <2>1, <2>2 DEF Fits
  <2>4. Succ(place)' = Succ(place)
    BY <2>2 DEF Succ, Place
  <2> QED
    BY <2>3, <2>4
<1> QED
  BY <1>1, <1>3, <1>4

\* A response begins.
LEMMA RespondKeeps ==
  ASSUME IInv, pc = "serve", pc' = "write", UNCHANGED <<policy, ending, streamVars, clientVars>>,
         NEW m \in Methods, NEW s \in Statuses, NEW n \in Nat,
         asked' = Append(asked, m), meant' = Append(meant, [status |-> s, body |-> n]),
         todo' \in Seq(Cells), Len(todo') \in (n + 1)..(n + 2),
         todo'[1].kind = "head", todo'[1].status = s, BodyLengths(m, todo'[1]) = {n},
         \A i \in 2..(n + 1) : todo'[i] = BodyByte,
         Len(todo') = n + 2 => todo'[n + 2] = Shutdown /\ after' = "ended",
         after' \in {"serve", "upgraded", "ended"},
         after' = "ended" => AnnouncesClose(todo'[1]),
         AnnouncesClose(todo'[1]) => after' = "ended" \/ s = "switching",
         handled' \in {handled, handled + 1},
         after' = "serve" => handled' = handled + 1 /\ handled' < MaxRequests
  PROVE  IInv'
<1> DEFINE x == [status |-> s, body |-> n]
<1>0. PICK k \in Nat : k = Len(meant) + 1
  BY Facts
<1>1. /\ UNCHANGED <<policy, ending, wire, eof, phase, current, got>> /\ after = "serve"
      /\ handled = Len(meant) /\ handled < MaxRequests /\ handled \in Nat /\ x \in Meant
      /\ ending = "none" /\ eof = FALSE /\ phase # "done"
  BY DEF streamVars, clientVars, IInv, Types, TypeOK, Serves, Meant, Understands
<1>2. /\ Len(meant') = k /\ meant'[k] = x /\ asked'[k] = m /\ Len(asked') = k
      /\ meant' \in Seq(Meant) /\ asked' \in Seq(Methods)
      /\ \A i \in 1..Len(meant) : meant'[i] = meant[i]
      /\ Len(meant) \in Nat /\ k - 1 = Len(meant)
  BY <1>0, <1>1, Facts
<1>3. Types'
  <2>1. TypeOK'
    BY <1>1, <1>2, Facts, SMTT(30) DEF IInv, Types, TypeOK
  <2> QED
    BY <1>1, <1>2, <2>1 DEF IInv, Types
<1>4. Understands'
  <2>1. IsPrefix(got', meant')
    <3>1. Len(got) =< Len(meant') /\ \A i \in 1..Len(got) : got[i] = meant'[i]
      BY <1>2, Facts
    <3> QED
      BY <1>1, <1>2, <3>1, Facts, PrefixElementwise
  <2>2. ASSUME phase = "open", current # NoHead
        PROVE  /\ Len(got) + 1 \in 1..Len(meant') /\ current.status = meant'[Len(got) + 1].status
               /\ current.left > 0 /\ current.body + current.left = meant'[Len(got) + 1].body
               /\ Closing(Len(got) + 1, current.closes)'
    <3> DEFINE j == Len(got) + 1
    <3>1. /\ j \in 1..Len(meant) /\ current.status = meant[j].status
          /\ current.left > 0 /\ current.body + current.left = meant[j].body
          /\ Closing(j, current.closes)
      BY <2>2 DEF IInv, Understands
    <3>2. ASSUME NEW i \in 1..Len(meant), i = j PROVE Closing(i, current.closes)'
      <4>1. Closing(i, current.closes)
        BY <3>1, <3>2
      <4>2. ~Final(i)' /\ ~Final(i) /\ meant'[i] = meant[i]
        BY <1>1, <1>2, Facts DEF Final
      <4> QED
        BY <1>1, <4>1, <4>2 DEF Closing
    <3>3. Closing(j, current.closes)'
      BY <1>1, <3>1, <3>2
    <3> QED
      BY <1>1, <1>2, <3>1, <3>3, Facts
  <2>3. ~Final(Len(got))'
    BY <1>1, <1>2, Facts DEF Final
  <2> QED
    BY <1>1, <2>1, <2>2, <2>3 DEF IInv, Understands
<1>5. Serves'
  <2>1. \A i \in 1..Len(todo') : todo'[i] = Shutdown => i = n + 2
    BY DEF BodyByte, Shutdown
  <2> QED
    BY <1>1, <1>2, <2>1 DEF Serves
<1>6. Stream'
  <2> SUFFICES ASSUME phase = "open"
               PROVE  \E at \in Seq(Places) : Along(at)'
    BY <1>1 DEF Stream
  <2>1. PICK at \in Seq(Places) : Along(at)
    BY DEF IInv, Stream
  <2>2. Reading' = Reading
    BY <1>1 DEF Reading
  <2>3. Follow(at)'
    <3>1. ASSUME NEW i \in 1..Len(wire) PROVE Fits(wire[i], at[i])' /\ at[i + 1] = Succ(at[i])'
      <4>1. Fits(wire[i], at[i]) /\ at[i + 1] = Succ(at[i]) /\ at[i] \in Places
        BY <2>1, Facts DEF Follow, Along
      <4>2. at[i].resp \in 1..Len(meant)
        BY <4>1 DEF Fits
      <4>3. \A cell : \A place \in Places : place.resp = at[i].resp /\ Fits(cell, place) =>
              Fits(cell, place)' /\ Succ(place)' = Succ(place)
        BY <1>1, <4>2, EarlierStand
      <4>4. wire'[i] = wire[i]
        BY <1>1
      <4>5. Fits(wire[i], at[i])'
        BY <4>1, <4>3, <4>4
      <4> QED
        BY <4>1, <4>3, <4>5
    <3> QED
      BY <1>1, <2>1, <3>1 DEF Follow, Along
  <2>4. at[Len(wire) + 1] = Place(k, 0)
    BY <1>0, <2>1 DEF Writes, Fresh, Along
  <2>5. Remain(Place(k, 0), n + 1)'
    <3>1. ASSUME NEW i \in 1..(n + 1) PROVE Fits(todo[i], Place(k, i - 1))'
      <4>1. Place(k, i - 1).resp = k /\ Place(k, i - 1).cell = i - 1
        BY DEF Place
      <4>2. CASE i = 1
        <5>1. Closing(k, AnnouncesClose(todo[1]))'
          BY <1>2 DEF Closing, Final
        <5> QED
          BY <1>0, <1>2, <4>1, <4>2, <5>1 DEF Fits
      <4>3. CASE i # 1
        <5>1. todo'[i].kind = "byte" /\ i - 1 > 0 /\ i - 1 \in 0..n
          BY <4>3, SMTT(30) DEF BodyByte
        <5>2. meant'[k].body = n /\ k \in 1..Len(meant')
          BY <1>2
        <5> QED
          BY ONLY <4>1, <5>1, <5>2 DEF Fits
      <4> QED
        BY <4>2, <4>3
    <3> QED
      BY <1>1, <1>2, <3>1 DEF Remain, Place
  <2>6. Writes(Place(k, 0))'
    <3>1. \E j \in Nat : Remain(Place(k, 0), j)'
      BY <2>5
    <3> QED
      BY <3>1 DEF Writes
  <2> QED
    BY <1>1, <2>1, <2>2, <2>3, <2>4, <2>6 DEF Along
<1> QED
  BY <1>3, <1>4, <1>5, <1>6 DEF IInv

\* send_response, whichever way its response came about.
LEMMA SendKeeps ==
  ASSUME IInv, pc = "serve", NEW m \in Methods, NEW r \in Answerable, NEW origin \in Origins,
         NEW asks, asks = m \/ (r = Refusal /\ asks \in {"GET", "none"}),
         NEW close \in BOOLEAN, NEW next \in {"serve", "upgraded", "ended"},
         Note(m, r, origin), SendResponse(r, asks, close, origin, next),
         next = "ended" <=> close,
         ResponseClose(r) => close \/ r.status = "switching",
         handled' \in {handled, handled + 1},
         next = "serve" => handled' = handled + 1 /\ handled' < MaxRequests
  PROVE  IInv'
<1>1. policy \in Policies
  BY DEF IInv, Types, TypeOK
<1>2. /\ pc' = "write" /\ UNCHANGED <<policy, ending, streamVars, clientVars>>
      /\ asked' = Append(asked, m)
  BY DEF SendResponse, Note
<1>3. CASE Valid(r, origin)
  <2> DEFINE h == ResponseHead(r, asks, close, origin)
             n == ContentOf(m, r)
  <2>1. n \in Nat /\ n = (IF HasContent(asks, r) THEN r.body ELSE 0) /\ r.status \in Statuses
    BY ResponseTypes DEF ContentOf, HasContent, StatusForbidsContent, Refusal
  <2>2. /\ h \in Cells /\ h.kind = "head" /\ h.status = r.status /\ BodyLengths(m, h) = {n}
        /\ close => AnnouncesClose(h)
        /\ AnnouncesClose(h) => close \/ r.status = "switching"
    BY <1>1, HeadSays
  <2>3. /\ todo' = ToWrite(h, n, close)
        /\ after' = next /\ meant' = Append(meant, [status |-> r.status, body |-> n])
    BY <1>3, <2>1 DEF SendResponse, Note, ToWrite
  <2> HIDE DEF h, n
  <2>4. /\ todo' \in Seq(Cells) /\ Len(todo') = (IF close THEN n + 2 ELSE n + 1) /\ todo'[1] = h
        /\ (\A i \in 2..(n + 1) : todo'[i] = BodyByte) /\ (close => todo'[n + 2] = Shutdown)
    BY <2>1, <2>2, <2>3, CellsOfResponse, ZenonT(60)
  <2>5. Len(todo') \in (n + 1)..(n + 2) /\ (Len(todo') = n + 2 => close)
    BY <2>1, <2>4
  <2> QED
    BY <1>2, <2>1, <2>2, <2>3, <2>4, <2>5, RespondKeeps, ZenonT(60)
<1>4. CASE ~Valid(r, origin)
  <2> DEFINE h == InternalServerErrorHead
  <2>1. /\ todo' = <<h, Shutdown>> /\ after' = "ended"
        /\ meant' = Append(meant, [status |-> "internal", body |-> 0])
    BY <1>4 DEF SendResponse, Note
  <2>2. /\ h \in Cells /\ h.kind = "head" /\ h.status = "internal" /\ BodyLengths(m, h) = {0}
        /\ AnnouncesClose(h) /\ Shutdown \in Cells /\ "internal" \in Statuses
    BY InternalSays, ResponseTypes DEF Shutdown, Cells
  <2> HIDE DEF h
  <2>3. /\ todo' \in Seq(Cells) /\ Len(todo') = 2 /\ todo'[1] = h /\ todo'[2] = Shutdown
    BY <2>1, <2>2
  <2>4. handled' \in {handled, handled + 1} /\ 0 \in Nat
    OBVIOUS
  <2> QED
    BY <1>2, <2>1, <2>2, <2>3, <2>4, RespondKeeps
<1> QED
  BY <1>3, <1>4

LEMMA AnswerKeeps ==
  ASSUME IInv, NEW m \in Methods, NEW o \in Origins, NEW r \in Responses,
         NEW wantsClose \in BOOLEAN, NEW upgrade \in BOOLEAN, Answer(m, o, wantsClose, r, upgrade)
  PROVE  IInv'
<1> DEFINE close == Closes(wantsClose \/ ResponseClose(r), handled + 1)
<1>1. /\ pc = "serve" /\ handled' = handled + 1 /\ Note(m, r, o) /\ r \in Answerable
      /\ handled \in Nat /\ MaxRequests \in Nat /\ close \in BOOLEAN
  BY ResponseTypes DEF Answer, Answerable, IInv, Types, TypeOK, Closes
<1>2. ResponseClose(r) => close
  BY DEF Closes
<1>3. ~close => handled' < MaxRequests
  BY <1>1 DEF Closes
<1>4. CASE r.status = "switching" /\ upgrade
  <2>1. SendResponse(r, m, FALSE, o, "upgraded")
    BY <1>4 DEF Answer
  <2> HIDE DEF close
  <2> QED
    BY <1>1, <1>4, <2>1, SendKeeps
<1>5. CASE ~(r.status = "switching" /\ upgrade)
  <2>1. SendResponse(r, m, close, o, IF close THEN "ended" ELSE "serve")
    BY <1>5 DEF Answer
  <2> HIDE DEF close
  <2>2. CASE close
    BY <1>1, <1>2, <2>1, <2>2, SendKeeps
  <2>3. CASE ~close
    <3>1. SendResponse(r, m, FALSE, o, "serve")
      BY <1>1, <2>1, <2>3
    <3> QED
      BY <1>1, <1>2, <1>3, <2>3, <3>1, SendKeeps
  <2> QED
    BY <2>2, <2>3
<1> QED
  BY <1>4, <1>5

LEMMA AnswerUnparsedKeeps ==
  ASSUME IInv, NEW m \in Methods, AnswerUnparsed(m)
  PROVE  IInv'
<1> DEFINE close == Closes(FALSE, handled + 1)
<1>1. /\ pc = "serve" /\ handled' = handled + 1 /\ Note(m, Refusal, NoOrigin) /\ Refusal \in Answerable
      /\ handled \in Nat /\ MaxRequests \in Nat /\ close \in BOOLEAN /\ NoOrigin \in Origins
      /\ SendResponse(Refusal, "GET", close, NoOrigin, IF close THEN "ended" ELSE "serve")
  BY ResponseTypes, StreamAssumption DEF AnswerUnparsed, Answerable, IInv, Types, TypeOK, Closes
<1>2. ~ResponseClose(Refusal)
  BY DEF ResponseClose, Refusal
<1>3. ~close => handled' < MaxRequests
  BY <1>1 DEF Closes
<1> HIDE DEF close
<1>4. CASE close
  BY <1>1, <1>2, <1>4, SendKeeps
<1>5. CASE ~close
  <2>1. SendResponse(Refusal, "GET", FALSE, NoOrigin, "serve")
    BY <1>1, <1>5
  <2> QED
    BY <1>1, <1>2, <1>3, <1>5, <2>1, SendKeeps
<1> QED
  BY <1>4, <1>5

LEMMA RefuseStreamKeeps ==
  ASSUME IInv, NEW m \in Methods, RefuseStream(m)
  PROVE  IInv'
<1>1. /\ pc = "serve" /\ handled' = handled /\ Note(m, Refusal, NoOrigin) /\ Refusal \in Answerable
      /\ NoOrigin \in Origins /\ SendResponse(Refusal, "none", TRUE, NoOrigin, "ended")
  BY StreamAssumption DEF RefuseStream, Answerable
<1> QED
  BY <1>1, SendKeeps

\* What leaves the responses and the wire alone leaves the places alone.
LEMMA SamePlaces ==
  ASSUME UNCHANGED <<meant, asked, after, wire, current, got>>, NEW at
  PROVE  /\ Follow(at) => Follow(at)' /\ Reading' = Reading
         /\ \A k, c : Closing(k, c)' <=> Closing(k, c)
         /\ \A k : Final(k)' <=> Final(k)
  BY DEF Follow, Fits, Closing, Final, Succ, Reading, Place

LEMMA SameResponses ==
  ASSUME UNCHANGED <<meant, asked, after>>
  PROVE  /\ \A cell, place : Fits(cell, place)' <=> Fits(cell, place)
         /\ \A place : Succ(place)' = Succ(place)
         /\ \A k, c : Closing(k, c)' <=> Closing(k, c)
         /\ \A k : Final(k)' <=> Final(k)
  BY DEF Fits, Closing, Final, Succ, Place

\* The server ends, or turns to the next request.
LEMMA PauseKeeps ==
  ASSUME IInv, UNCHANGED <<policy, handled, after, meant, asked, wire, phase, current, got>>,
         Serves', todo' \in Seq(Cells), eof' \in BOOLEAN,
         pc' \in {"serve", "upgraded", "ended"}, pc' = "ended" => eof',
         ending' \in {"none", "idle", "cancelled"}, ending # "none" => ending' # "none",
         ending' # "cancelled" => \A place : Writes(place) => place = Fresh
  PROVE  IInv'
<1>1. Types'
  BY DEF IInv, Types, TypeOK
<1>2. Understands'
  <2>1. /\ \A k, c : Closing(k, c)' <=> Closing(k, c)
        /\ \A k : Final(k)' <=> Final(k)
    BY SameResponses
  <2>2. Closing(Len(got) + 1, current.closes)' <=> Closing(Len(got) + 1, current.closes)
    BY SamePlaces DEF Closing, Final
  <2>3. Final(Len(got))' <=> Final(Len(got))
    BY DEF Final
  <2> QED
    BY <2>2, <2>3 DEF IInv, Understands
<1>3. Stream'
  <2> SUFFICES ASSUME phase = "open" PROVE \E at \in Seq(Places) : Along(at)'
    BY DEF Stream
  <2>1. PICK at \in Seq(Places) : Along(at)
    BY DEF IInv, Stream
  <2>2. Follow(at)' /\ Reading' = Reading
    BY <2>1, SamePlaces DEF Along
  <2>3. Writes(at[Len(wire) + 1]) => Writes(at[Len(wire) + 1])'
    <3>1. ending' # "cancelled" /\ Writes(at[Len(wire) + 1]) => at[Len(wire) + 1] = Fresh
      OBVIOUS
    <3>2. Fresh' = Fresh
      BY DEF Fresh
    <3>3. ending' = "cancelled" => pc' = "ended"
      BY DEF Serves
    <3> QED
      BY <3>1, <3>2, <3>3 DEF Writes
  <2>4. Along(at)'
    BY <2>1, <2>2, <2>3 DEF Along
  <2> QED
    BY <2>4
<1> QED
  BY <1>1, <1>2, <1>3 DEF IInv

LEMMA IdleKeeps == IInv /\ Idle => IInv'
<1> SUFFICES ASSUME IInv, Idle PROVE IInv'
  OBVIOUS
<1>1. /\ pc = "serve" /\ pc' = "ended" /\ eof' = TRUE /\ ending' = "idle"
      /\ UNCHANGED <<policy, handled, todo, after, meant, asked, wire, phase, current, got>>
  BY DEF Idle, clientVars
<1>2. Serves' /\ todo' \in Seq(Cells)
  BY <1>1, Facts DEF IInv, Serves
<1>3. \A place : Writes(place) => place = Fresh
  BY <1>1 DEF Writes
<1> QED
  BY <1>1, <1>2, <1>3, PauseKeeps

LEMMA CancelKeeps == IInv /\ Cancel => IInv'
<1> SUFFICES ASSUME IInv, Cancel PROVE IInv'
  OBVIOUS
<1>1. /\ pc # "ended" /\ pc' = "ended" /\ eof' = TRUE /\ ending' = "cancelled" /\ todo' = <<>>
      /\ UNCHANGED <<policy, handled, after, meant, asked, wire, phase, current, got>>
  BY DEF Cancel, clientVars
<1>2. Serves' /\ todo' \in Seq(Cells)
  BY <1>1, EmptySeq DEF IInv, Serves
<1> QED
  BY <1>1, <1>2, PauseKeeps

LEMMA WrittenKeeps == IInv /\ Written => IInv'
<1> SUFFICES ASSUME IInv, Written PROVE IInv'
  OBVIOUS
<1>1. /\ pc = "write" /\ todo = <<>> /\ pc' = after /\ eof' = (eof \/ after = "ended")
      /\ UNCHANGED <<policy, handled, todo, after, ending, meant, asked, wire, phase, current, got>>
  BY DEF Written, clientVars
<1>2. /\ after \in {"serve", "upgraded", "ended"} /\ eof' \in BOOLEAN /\ ending = "none"
      /\ (eof => after = "ended") /\ todo' \in Seq(Cells)
  BY <1>1, Facts DEF IInv, Types, TypeOK, Serves
<1>3. Serves'
  BY <1>1, <1>2 DEF IInv, Serves
<1>4. ASSUME NEW place, Writes(place) PROVE place = Fresh
  <2>1. PICK n \in Nat : Remain(place, n)
    BY <1>1, <1>4 DEF Writes
  <2>2. n = 0
    BY <1>1, <2>1, EmptySeq DEF Remain
  <2> QED
    BY <2>1, <2>2 DEF Remain
<1> QED
  BY <1>1, <1>2, <1>3, <1>4, PauseKeeps

\* A cell is written.
LEMMA WriteKeeps == IInv /\ Write => IInv'
<1> SUFFICES ASSUME IInv, Write PROVE IInv'
  OBVIOUS
<1>1. /\ pc = "write" /\ todo # <<>> /\ todo' = Tail(todo)
      /\ UNCHANGED <<policy, handled, pc, after, ending, meant, asked, phase, current, got>>
  BY DEF Write, clientVars
<1>2. /\ Len(todo) \in Nat \ {0} /\ Head(todo) = todo[1] /\ todo[1] \in Cells
      /\ todo' \in Seq(Cells) /\ Len(todo') = Len(todo) - 1
      /\ \A i \in 1..Len(todo') : todo'[i] = todo[i + 1]
  BY <1>1, Facts, EmptySeq
<1>3. Understands'
  <2>1. Closing(Len(got) + 1, current.closes)' <=> Closing(Len(got) + 1, current.closes)
    BY <1>1 DEF Closing, Final
  <2>2. Final(Len(got))' <=> Final(Len(got))
    BY <1>1 DEF Final
  <2> QED
    BY <1>1, <2>1, <2>2 DEF IInv, Understands
<1>4. /\ \A cell, place : Fits(cell, place)' <=> Fits(cell, place)
      /\ \A place : Succ(place)' = Succ(place)
      /\ Fresh' = Fresh /\ Reading' = Reading
  BY <1>1, SameResponses DEF Fresh, Reading
<1>5. CASE todo[1] = Shutdown
  <2>1. UNCHANGED wire /\ eof' = TRUE /\ Len(todo) = 1 /\ after = "ended" /\ Len(todo') = 0 /\ todo' = <<>>
    <3>1. UNCHANGED wire /\ eof' = TRUE
      BY <1>2, <1>5 DEF Write
    <3>2. 1 \in 1..Len(todo) /\ Len(todo) = 1 /\ after = "ended"
      BY <1>2, <1>5 DEF IInv, Serves
    <3>3. Len(todo') = 0 /\ todo' = <<>>
      BY <1>2, <3>2, EmptySeq
    <3> QED
      BY <3>1, <3>2, <3>3
  <2>2. Types'
    BY <1>1, <1>2, <2>1 DEF IInv, Types, TypeOK
  <2>3. Serves'
    <3>1. \A i \in 1..Len(todo') : todo'[i] = Shutdown => i = Len(todo') /\ after' = "ended"
      BY <2>1
    <3>2. ending = "none"
      BY <1>1 DEF IInv, Serves
    <3> QED
      BY <1>1, <2>1, <3>1, <3>2 DEF IInv, Serves
  <2>4. Stream'
    <3> SUFFICES ASSUME phase = "open" PROVE \E at \in Seq(Places) : Along(at)'
      BY <1>1 DEF Stream
    <3>1. PICK at \in Seq(Places) : Along(at)
      BY DEF IInv, Stream
    <3>2. Follow(at)'
      BY <1>1, <2>1, <3>1, SamePlaces DEF Along
    <3>3. PICK n \in Nat : Remain(at[Len(wire) + 1], n)
      BY <1>1, <3>1 DEF Along, Writes
    <3>4. n = 0
      <4> SUFFICES ASSUME n # 0 PROVE FALSE
        OBVIOUS
      <4>1. \E place : Fits(todo[1], place)
        BY <3>3 DEF Remain
      <4> QED
        BY <1>5, <4>1 DEF Fits, Shutdown
    <3>5. Remain(at[Len(wire) + 1], 0)'
      BY <1>4, <2>1, <3>3, <3>4 DEF Remain
    <3>6. Writes(at[Len(wire) + 1])'
      BY <1>1, <3>5 DEF Writes
    <3> QED
      BY <1>4, <2>1, <3>1, <3>2, <3>6 DEF Along
  <2> QED
    BY <1>3, <2>2, <2>3, <2>4 DEF IInv
<1>6. CASE todo[1] # Shutdown
  <2>1. wire' = Append(wire, todo[1]) /\ UNCHANGED eof
    BY <1>2, <1>6 DEF Write
  <2>2. /\ wire \in Seq(Cells) /\ Len(wire) \in Nat /\ wire' \in Seq(Cells) /\ Len(wire') = Len(wire) + 1
        /\ wire'[Len(wire) + 1] = todo[1] /\ \A i \in 1..Len(wire) : wire'[i] = wire[i]
    BY <1>2, <2>1, Facts
  <2>3. Types'
    BY <1>1, <1>2, <2>1, <2>2 DEF IInv, Types, TypeOK
  <2>4. Serves'
    <3>1. eof = FALSE
      BY <1>1 DEF IInv, Types, Serves
    <3>2. \A i \in 1..Len(todo') : todo'[i] = Shutdown => i = Len(todo') /\ after = "ended"
      BY <1>2 DEF IInv, Serves
    <3> QED
      BY <1>1, <2>1, <3>1, <3>2 DEF IInv, Serves
  <2>5. Stream'
    <3> SUFFICES ASSUME phase = "open" PROVE \E at \in Seq(Places) : Along(at)'
      BY <1>1 DEF Stream
    <3>1. PICK at \in Seq(Places) : Along(at)
      BY DEF IInv, Stream
    <3>0. Len(at) = Len(wire) + 1 /\ at[Len(wire) + 1] \in Places
      BY <2>2, <3>1 DEF Along, Follow
    <3>a. PICK place \in Places : place = at[Len(wire) + 1]
      BY <3>0
    <3>2. PICK n \in Nat : Remain(place, n)
      BY <1>1, <3>1, <3>a DEF Along, Writes
    <3>3. place.resp \in Nat /\ place.cell \in Nat
      BY DEF Places
    <3>4. n \in 1..Len(todo)
      BY <1>2, <1>6, <3>2 DEF Remain
    <3>5. /\ place = Place(place.resp, place.cell) /\ Fits(todo[1], place)
      <4>1. place = Place(place.resp, place.cell)
        BY <3>3 DEF Places, Place
      <4>2. Fits(todo[1], Place(place.resp, place.cell + 1 - 1)) /\ place.cell + 1 - 1 = place.cell
        BY <3>2, <3>3, <3>4 DEF Remain
      <4> QED
        BY <4>1, <4>2
    <3>6. place.resp = Len(meant) /\ place.cell + n = meant[Len(meant)].body + 1 /\ meant[Len(meant)].body \in Nat
          /\ Len(meant) \in Nat
      BY <3>2, <3>4, <3>5, Facts DEF Remain, Fits
    <3>7. Succ(place) = IF n = 1 THEN Fresh ELSE Place(place.resp, place.cell + 1)
      BY <3>3, <3>4, <3>6 DEF Succ, Fresh
    <3>8. Succ(place) \in Places
      BY <3>3, <3>6, <3>7 DEF Fresh, Place, Places
    <3>b. PICK next \in Places : next = Succ(place)
      BY <3>8
    <3>c. PICK to \in Seq(Places) : to = Append(at, next)
      <4>1. Append(at, next) \in Seq(Places)
        OBVIOUS
      <4> QED
        BY <4>1
    <3>9. /\ Len(to) = Len(wire') + 1 /\ to[Len(wire') + 1] = next
          /\ \A i \in 1..Len(wire') : to[i] = at[i]
      BY <2>2, <3>0, <3>c
    <3>10. Follow(to)'
      <4>1. ASSUME NEW i \in 1..Len(wire') PROVE Fits(wire'[i], to[i]) /\ to[i + 1] = Succ(to[i])
        <5>1. CASE i = Len(wire) + 1
          BY <2>2, <3>5, <3>9, <3>a, <3>b, <5>1
        <5>2. CASE i # Len(wire) + 1
          <6>1. i \in 1..Len(wire) /\ i \in 1..Len(wire') /\ i + 1 \in 1..Len(wire')
            BY <2>2, <5>2
          <6>2. Fits(wire[i], at[i]) /\ at[i + 1] = Succ(at[i])
            BY <3>1, <6>1 DEF Along, Follow
          <6> QED
            BY <2>2, <3>9, <6>1, <6>2
        <5> QED
          BY <5>1, <5>2
      <4> QED
        BY <1>4, <3>9, <4>1 DEF Follow
    <3>11. Writes(to[Len(wire) + 1])'
      <4>1. PICK k \in Nat : k = n - 1
        BY <3>4
      <4>2. k \in 0..Len(todo') /\ \A i \in (k + 1)..Len(todo') : todo'[i] = Shutdown
        BY <1>2, <3>2, <3>4, <4>1 DEF Remain
      <4>3. IF k = 0 THEN next = Fresh ELSE next.resp = Len(meant) /\ next.cell + k = meant[Len(meant)].body + 1
        BY <3>3, <3>4, <3>6, <3>7, <3>b, <4>1 DEF Place
      <4>4. ASSUME NEW i \in 1..k PROVE Fits(todo'[i], Place(next.resp, next.cell + i - 1))
        <5>1. i + 1 \in 1..n /\ i \in 1..Len(todo')
          BY <1>2, <3>4, <4>1
        <5>2. Fits(todo[i + 1], Place(place.resp, place.cell + (i + 1) - 1)) /\ todo'[i] = todo[i + 1]
          BY <1>2, <3>2, <5>1 DEF Remain
        <5>3. next.resp = place.resp /\ next.cell + i - 1 = place.cell + (i + 1) - 1
          BY <3>3, <3>7, <3>b, <4>1 DEF Place
        <5> QED
          BY <5>2, <5>3
      <4>5. Remain(next, k)'
        BY <1>1, <1>4, <4>2, <4>3, <4>4 DEF Remain
      <4> QED
        BY <1>1, <3>9, <4>5 DEF Writes
    <3> QED
      BY <1>4, <2>2, <3>1, <3>9, <3>10, <3>11 DEF Along
  <2> QED
    BY <1>3, <2>3, <2>4, <2>5 DEF IInv
<1> QED
  BY <1>5, <1>6

-------------------------------------------------------------------------------
(* The steps of the client.                                                *)

\* It takes a cell, and goes on to the place after it.
LEMMA ConsumeKeeps ==
  ASSUME IInv, UNCHANGED serverVars, wire # <<>>, wire' = Tail(wire),
         NEW at \in Seq(Places), Along(at), Reading' = Succ(at[1])
  PROVE  Along(Tail(at))' /\ Tail(at) \in Seq(Places)
<1>1. UNCHANGED <<policy, handled, pc, todo, after, ending, meant, asked>>
  BY DEF serverVars
<1>2. /\ Len(wire) \in Nat \ {0} /\ Len(at) = Len(wire) + 1 /\ Len(wire') = Len(wire) - 1
      /\ \A i \in 1..Len(wire') : wire'[i] = wire[i + 1]
  BY Facts, EmptySeq DEF Along, Follow
<1>3. /\ Tail(at) \in Seq(Places) /\ Len(Tail(at)) = Len(wire)
      /\ \A i \in 1..Len(wire) : Tail(at)[i] = at[i + 1]
  <2>1. at # <<>>
    BY <1>2, EmptySeq
  <2> QED
    BY <1>2, <2>1
<1>4. PICK to \in Seq(Places) : to = Tail(at)
  BY <1>3
<1>5. Follow(to)'
  <2>1. ASSUME NEW i \in 1..Len(wire') PROVE Fits(wire'[i], to[i]) /\ to[i + 1] = Succ(to[i])
    <3>1. i + 1 \in 1..Len(wire) /\ i \in 1..Len(wire)
      BY <1>2
    <3>2. Fits(wire[i + 1], at[i + 1]) /\ at[(i + 1) + 1] = Succ(at[i + 1])
      BY <3>1 DEF Along, Follow
    <3> QED
      BY <1>2, <1>3, <1>4, <3>1, <3>2
  <2>2. \A cell, place : Fits(cell, place)' <=> Fits(cell, place)
    BY <1>1, SameResponses
  <2>3. \A place : Succ(place)' = Succ(place)
    BY <1>1, SameResponses
  <2>4. Len(to) = Len(wire') + 1
    BY ONLY <1>2, <1>3, <1>4
  <2>5. \A i \in 1..Len(wire') : (Fits(wire[i], to[i]) /\ to[i + 1] = Succ(to[i]))'
    BY ONLY <2>1, <2>2, <2>3
  <2> QED
    BY ONLY <2>4, <2>5, to \in Seq(Places) DEF Follow
<1>6. to[1] = Reading'
  BY <1>2, <1>3, <1>4 DEF Along, Follow
<1>7. Writes(to[Len(wire) + 1])'
  <2>1. PICK last : last = at[Len(wire) + 1]
    OBVIOUS
  <2>2. to[Len(wire') + 1] = last
    BY <1>2, <1>3, <1>4, <2>1
  <2>3. Writes(last)
    BY <2>1 DEF Along
  <2>4. Writes(last)'
    <3>1. \A cell, place : Fits(cell, place)' <=> Fits(cell, place)
      BY <1>1, SameResponses
    <3>2. \A n : Remain(last, n) => Remain(last, n)'
      BY <1>1, <3>1 DEF Remain, Fresh
    <3> QED
      BY <1>1, <2>3, <3>2 DEF Writes, Fresh
  <2> QED
    BY <2>2, <2>4
<1> QED
  BY <1>3, <1>4, <1>5, <1>6, <1>7 DEF Along

\* What the client leaves alone.
LEMMA ClientFrame ==
  ASSUME IInv, UNCHANGED <<serverVars, eof>>
  PROVE  /\ UNCHANGED <<policy, handled, pc, todo, after, ending, meant, asked, eof>>
         /\ Serves' /\ \A k, c : Closing(k, c)' <=> Closing(k, c)
         /\ \A k : Final(k)' <=> Final(k)
<1>1. UNCHANGED <<policy, handled, pc, todo, after, ending, meant, asked, eof>>
  BY DEF serverVars
<1>2. Serves'
  BY <1>1 DEF IInv, Serves
<1> QED
  BY <1>1, <1>2, SameResponses

\* It has read a whole response.
LEMMA CompleteKeeps ==
  ASSUME IInv, phase = "open", UNCHANGED <<serverVars, eof>>, wire # <<>>, wire' = Tail(wire),
         NEW k, k = Len(got) + 1, k \in 1..Len(meant),
         NEW response, response.status = meant[k].status, response.body = meant[k].body,
         response.closes \in BOOLEAN, Closing(k, response.closes), Complete(response),
         NEW at \in Seq(Places), Along(at), Succ(at[1]) = Place(k + 1, 0)
  PROVE  IInv'
<1>1. /\ UNCHANGED <<policy, handled, pc, todo, after, ending, meant, asked, eof>>
      /\ Serves'
  BY ClientFrame
<1>2. /\ meant[k] = [status |-> response.status, body |-> response.body] /\ meant[k] \in Meant
      /\ got' = Append(got, meant[k]) /\ got' \in Seq(Meant) /\ Len(got') = k /\ got'[k] = meant[k]
      /\ \A i \in 1..Len(got) : got'[i] = got[i]
      /\ Len(got) \in Nat
  <2>1. meant[k] \in Meant
    BY Facts
  <2>2. meant[k] = [status |-> response.status, body |-> response.body]
    BY <2>1 DEF Meant
  <2> QED
    BY <2>1, <2>2, Facts DEF Complete
<1>3. /\ current' = NoHead /\ wire' \in Seq(Cells)
      /\ phase' = IF response.status = "switching" THEN "switched"
                  ELSE IF response.closes THEN "done" ELSE "open"
  BY Facts DEF Complete
<1>4. Types'
  <2>1. NoHead \in [status : Statuses, body : Nat, left : Nat, closes : BOOLEAN]
    BY ResponseTypes DEF NoHead
  <2> QED
    BY <1>1, <1>2, <1>3, <2>1 DEF IInv, Types, TypeOK
<1>5. Understands'
  <2>1. IsPrefix(got', meant')
    <3>1. \A i \in 1..Len(got') : got'[i] = meant'[i]
      <4> SUFFICES ASSUME NEW i \in 1..Len(got') PROVE got'[i] = meant'[i]
        OBVIOUS
      <4>1. i = k \/ i \in 1..Len(got)
        BY <1>2
      <4> QED
        BY <1>1, <1>2, <4>1, Facts
    <3>2. got' \in Seq(Meant) /\ meant' \in Seq(Meant) /\ Len(got') =< Len(meant')
      BY <1>1, <1>2, Facts
    <3> QED
      BY <3>1, <3>2, PrefixElementwise
  <2>2. ASSUME phase' = "open" PROVE ~Final(Len(got))'
    <3>1. ~response.closes
      BY <1>3, <2>2
    <3>2. ~Final(k)
      BY <3>1 DEF Closing
    <3> QED
      BY <1>1, <1>2, <3>2 DEF Final
  <2>3. ASSUME phase' = "done" PROVE after' = "ended"
    <3>1. response.closes /\ meant[k].status # "switching"
      BY <1>3, <2>3
    <3> QED
      BY <1>1, <3>1 DEF Closing, Final
  <2> QED
    BY <1>1, <1>3, <2>1, <2>2, <2>3 DEF Understands
<1>6. Stream'
  <2> SUFFICES ASSUME phase' = "open" PROVE \E to \in Seq(Places) : Along(to)'
    BY DEF Stream
  <2>1. Reading' = Place(k + 1, 0)
    BY <1>2, <1>3 DEF Reading
  <2>2. Along(Tail(at))' /\ Tail(at) \in Seq(Places)
    BY <2>1, ConsumeKeeps
  <2> QED
    BY <2>2
<1> QED
  BY <1>1, <1>4, <1>5, <1>6 DEF IInv

\* It has read a part of one.
LEMMA PartKeeps ==
  ASSUME IInv, phase = "open", UNCHANGED <<serverVars, eof, phase, got>>, wire # <<>>, wire' = Tail(wire),
         NEW k, k = Len(got) + 1, k \in 1..Len(meant),
         current' \in [status : Statuses, body : Nat, left : Nat, closes : BOOLEAN],
         current'.left > 0, current'.status = meant[k].status,
         current'.body + current'.left = meant[k].body, Closing(k, current'.closes),
         NEW at \in Seq(Places), Along(at), Succ(at[1]) = Place(k, current'.body + 1)
  PROVE  IInv'
<1>1. /\ UNCHANGED <<policy, handled, pc, todo, after, ending, meant, asked, eof>>
      /\ Serves'
  BY ClientFrame
<1>2. Types'
  <2>1. wire' \in Seq(Cells)
    BY Facts
  <2> QED
    BY <1>1, <2>1 DEF IInv, Types, TypeOK
<1>3. Understands'
  <2>1. Closing(Len(got) + 1, current.closes)' /\ (Final(Len(got))' <=> Final(Len(got)))
    BY <1>1 DEF Closing, Final
  <2> QED
    BY <1>1, <2>1 DEF IInv, Understands
<1>4. Stream'
  <2>1. current' # NoHead
    BY DEF NoHead
  <2>2. Reading' = Place(k, current'.body + 1)
    BY <2>1 DEF Reading
  <2>3. Along(Tail(at))' /\ Tail(at) \in Seq(Places)
    BY <2>2, ConsumeKeeps
  <2> QED
    BY <2>3 DEF Stream
<1> QED
  BY <1>1, <1>2, <1>3, <1>4 DEF IInv

\* There is a place for the cell the client reads next.
LEMMA NextCell ==
  ASSUME IInv, phase = "open", wire # <<>>
  PROVE  \E at \in Seq(Places) : Along(at) /\ Fits(Head(wire), Reading) /\ at[1] = Reading
<1>1. PICK at \in Seq(Places) : Along(at)
  BY DEF IInv, Stream
<1>2. Len(wire) \in Nat \ {0} /\ Head(wire) = wire[1] /\ 1 \in 1..Len(wire)
  BY Facts, EmptySeq
<1> QED
  BY <1>1, <1>2 DEF Along, Follow

LEMMA ReadHeadKeeps == IInv /\ ReadHead => IInv'
<1> SUFFICES ASSUME IInv, ReadHead PROVE IInv'
  OBVIOUS
<1> DEFINE head == Head(wire)
<1>1. /\ phase = "open" /\ current = NoHead /\ wire # <<>> /\ wire' = Tail(wire)
      /\ UNCHANGED <<serverVars, eof>>
  BY DEF ReadHead
<1>2. PICK at \in Seq(Places) : Along(at) /\ Fits(head, Reading) /\ at[1] = Reading
  BY <1>1, NextCell
<1>3. PICK k \in Nat : k = Len(got) + 1
  BY Facts
<1>4. Reading = Place(k, 0) /\ Place(k, 0).resp = k /\ Place(k, 0).cell = 0
  BY <1>1, <1>3 DEF Reading, Place
<1>5. /\ k \in 1..Len(meant) /\ head.kind = "head" /\ head.status = meant[k].status
      /\ BodyLengths(asked[k], head) = {meant[k].body} /\ Closing(k, AnnouncesClose(head))
  BY <1>2, <1>4 DEF Fits
<1>6. meant[k].status \in Statuses /\ meant[k].body \in Nat
  BY <1>5, Facts
<1> DEFINE response == [status |-> head.status, body |-> 0, left |-> meant[k].body, closes |-> AnnouncesClose(head)]
<1>7. IF meant[k].body = 0 THEN Complete(response)
      ELSE current' = response /\ UNCHANGED <<phase, got>>
  BY <1>3, <1>5 DEF ReadHead
<1>8. /\ response.status = meant[k].status /\ response.body = 0 /\ response.left = meant[k].body
      /\ response.closes = AnnouncesClose(head) /\ response.closes \in BOOLEAN
      /\ response \in [status : Statuses, body : Nat, left : Nat, closes : BOOLEAN]
  BY <1>5, <1>6 DEF AnnouncesClose
<1> HIDE DEF head, response
<1>9. CASE meant[k].body = 0
  <2>1. Succ(at[1]) = Place(k + 1, 0)
    BY <1>2, <1>4, <1>9 DEF Succ
  <2> QED
    BY <1>1, <1>2, <1>3, <1>5, <1>7, <1>8, <1>9, <2>1, CompleteKeeps
<1>10. CASE meant[k].body # 0
  <2>1. Succ(at[1]) = Place(k, 0 + 1)
    BY <1>2, <1>4, <1>6, <1>10 DEF Succ
  <2>2. current' = response /\ UNCHANGED <<serverVars, eof, phase, got>>
    BY <1>1, <1>7, <1>10
  <2>3. /\ current' \in [status : Statuses, body : Nat, left : Nat, closes : BOOLEAN]
        /\ current'.left > 0 /\ current'.status = meant[k].status
        /\ current'.body + current'.left = meant[k].body /\ Closing(k, current'.closes)
        /\ Succ(at[1]) = Place(k, current'.body + 1)
    BY <1>5, <1>6, <1>8, <1>10, <2>1, <2>2
  <2> QED
    BY <1>1, <1>2, <1>3, <1>5, <2>2, <2>3, PartKeeps
<1> QED
  BY <1>9, <1>10

\* A client that reads a byte of a body counts it at both ends.
LEMMA ByteCounted ==
  ASSUME NEW status, NEW body, NEW left, NEW closes, NEW more, NEW less
  PROVE  [[status |-> status, body |-> body, left |-> left, closes |-> closes]
            EXCEPT !.body = more, !.left = less]
         = [status |-> status, body |-> more, left |-> less, closes |-> closes]
<1>1. PICK read : read = [[status |-> status, body |-> body, left |-> left, closes |-> closes]
                            EXCEPT !.body = more]
  OBVIOUS
<1>2. read = [status |-> status, body |-> more, left |-> left, closes |-> closes]
  BY ONLY <1>1
<1>3. [read EXCEPT !.left = less] = [status |-> status, body |-> more, left |-> less, closes |-> closes]
  BY ONLY <1>2
<1> QED
  BY ONLY <1>1, <1>3

LEMMA ReadBodyKeeps == IInv /\ ReadBody => IInv'
<1> SUFFICES ASSUME IInv, ReadBody PROVE IInv'
  OBVIOUS
<1>1. /\ phase = "open" /\ current # NoHead /\ wire # <<>> /\ wire' = Tail(wire)
      /\ UNCHANGED <<serverVars, eof>>
  BY DEF ReadBody
<1>2. PICK at \in Seq(Places) : Along(at) /\ at[1] = Reading
  BY <1>1, NextCell
<1>3. PICK k \in Nat : k = Len(got) + 1
  BY Facts
<1>4. /\ k \in 1..Len(meant) /\ current.status = meant[k].status /\ current.left > 0
      /\ current.body + current.left = meant[k].body /\ Closing(k, current.closes)
      /\ meant[k].body \in Nat /\ current.left # ToTheEnd
      /\ current \in [status : Statuses, body : Nat, left : Nat, closes : BOOLEAN]
  BY <1>1, <1>3, Facts DEF IInv, Understands, Types, ToTheEnd
<1>5. Reading = Place(k, current.body + 1) /\ Reading.resp = k /\ Reading.cell = current.body + 1
  BY <1>1, <1>3 DEF Reading, Place
<1> DEFINE response == [current EXCEPT !.body = @ + 1, !.left = @ - 1]
<1>6. IF response.left = 0 THEN Complete(response) ELSE current' = response /\ UNCHANGED <<phase, got>>
  BY <1>4 DEF ReadBody
<1>7. /\ response.status = current.status /\ response.body = current.body + 1
      /\ response.left = current.left - 1 /\ response.closes = current.closes /\ response.closes \in BOOLEAN
      /\ current.body \in Nat /\ current.left \in Nat
      /\ response \in [status : Statuses, body : Nat, left : Nat, closes : BOOLEAN]
  <2>1. /\ current = [status |-> current.status, body |-> current.body,
                     left |-> current.left, closes |-> current.closes]
        /\ current.status \in Statuses /\ current.body \in Nat /\ current.left \in Nat
        /\ current.closes \in BOOLEAN
    BY ONLY <1>4
  <2>2. response = [status |-> current.status, body |-> current.body + 1,
                    left |-> current.left - 1, closes |-> current.closes]
    <3>1. PICK status, body, left, closes :
            /\ status = current.status /\ body = current.body /\ left = current.left /\ closes = current.closes
            /\ current = [status |-> status, body |-> body, left |-> left, closes |-> closes]
      BY ONLY <2>1
    <3>2. response = [[status |-> status, body |-> body, left |-> left, closes |-> closes]
                       EXCEPT !.body = body + 1, !.left = left - 1]
      BY ONLY <3>1
    <3>3. response = [status |-> status, body |-> body + 1, left |-> left - 1, closes |-> closes]
      <4> HIDE DEF response
      <4> QED
        BY ONLY <3>2, ByteCounted
    <3> HIDE DEF response
    <3> QED
      BY ONLY <3>1, <3>3
  <2>3. current.body + 1 \in Nat /\ current.left - 1 \in Nat
    BY ONLY <1>4, <2>1
  <2> HIDE DEF response
  <2> QED
    BY ONLY <2>1, <2>2, <2>3
<1> HIDE DEF response
<1>8. CASE current.left = 1
  <2>1. Succ(at[1]) = Place(k + 1, 0) /\ response.body = meant[k].body
    BY <1>2, <1>4, <1>5, <1>7, <1>8 DEF Succ
  <2>2. Complete(response)
    BY <1>6, <1>7, <1>8
  <2> QED
    BY <1>1, <1>2, <1>3, <1>4, <1>7, <2>1, <2>2, CompleteKeeps
<1>9. CASE current.left # 1
  <2>1. current' = response /\ UNCHANGED <<serverVars, eof, phase, got>>
    BY <1>1, <1>4, <1>6, <1>7, <1>9
  <2>2. Succ(at[1]) = Place(k, current'.body + 1)
    BY <1>2, <1>4, <1>5, <1>7, <1>9, <2>1, SMTT(30) DEF Succ
  <2>3. /\ current' \in [status : Statuses, body : Nat, left : Nat, closes : BOOLEAN]
        /\ current'.left > 0 /\ current'.status = meant[k].status
        /\ current'.body + current'.left = meant[k].body /\ Closing(k, current'.closes)
    <3>1. /\ response.left > 0 /\ response.status = meant[k].status
          /\ response.body + response.left = meant[k].body /\ Closing(k, response.closes)
      BY ONLY <1>4, <1>7, <1>9
    <3> QED
      BY ONLY <1>7, <2>1, <3>1
  <2> QED
    BY <1>1, <1>2, <1>3, <1>4, <2>1, <2>2, <2>3, PartKeeps
<1> QED
  BY <1>8, <1>9

LEMMA ReadEofKeeps == IInv /\ ReadEof => IInv'
<1> SUFFICES ASSUME IInv, ReadEof PROVE IInv'
  OBVIOUS
<1>1. phase = "open" /\ wire = <<>> /\ eof /\ UNCHANGED <<serverVars, eof, wire>>
  BY DEF ReadEof, streamVars
<1>2. /\ UNCHANGED <<policy, handled, pc, todo, after, ending, meant, asked, eof>> /\ Serves'
  BY <1>1, ClientFrame
<1>3. current # NoHead => current.left # ToTheEnd
  BY <1>1 DEF IInv, Understands, Types, ToTheEnd
<1>4. /\ UNCHANGED <<current, got>> /\ phase' \in {"ended", "cut"}
  BY <1>3 DEF ReadEof
<1>5. ending # "none"
  <2> SUFFICES ASSUME ending = "none" PROVE FALSE
    OBVIOUS
  <2>1. /\ after = "ended" /\ pc \in {"write", "ended"} /\ (pc = "write" => todo = <<>>)
    BY <1>1 DEF IInv, Serves
  <2>2. Writes(Reading)
    <3>1. PICK at \in Seq(Places) : Along(at)
      BY <1>1 DEF IInv, Stream
    <3>2. Len(wire) = 0
      BY <1>1, EmptySeq
    <3> QED
      BY <3>1, <3>2 DEF Along
  <2>3. Reading = Fresh
    <3>1. CASE pc = "ended"
      BY <2>2, <3>1 DEF Writes
    <3>2. CASE pc = "write"
      <4>1. PICK n \in Nat : Remain(Reading, n)
        BY <2>2, <3>2 DEF Writes
      <4>2. n = 0
        BY <2>1, <3>2, <4>1, EmptySeq DEF Remain
      <4> QED
        BY <4>1, <4>2 DEF Remain
    <3> QED
      BY <2>1, <3>1, <3>2
  <2>4. CASE current = NoHead
    <3>1. Len(got) = Len(meant)
      BY <2>3, <2>4, Facts DEF Reading, Fresh, Place
    <3> QED
      BY <1>1, <2>1, <3>1 DEF IInv, Understands, Final
  <2>5. CASE current # NoHead
    BY <2>3, <2>5 DEF Reading, Fresh, Place, IInv, Types
  <2> QED
    BY <2>4, <2>5
<1>6. Types'
  BY <1>1, <1>2, <1>4 DEF IInv, Types, TypeOK
<1>7. Understands'
  BY <1>2, <1>4, <1>5 DEF IInv, Understands
<1>8. Stream'
  BY <1>4 DEF Stream
<1> QED
  BY <1>2, <1>6, <1>7, <1>8 DEF IInv

-------------------------------------------------------------------------------
(* The theorems.                                                           *)

LEMMA Step == IInv /\ [Next]_vars => IInv'
<1> SUFFICES ASSUME IInv, [Next]_vars PROVE IInv'
  OBVIOUS
<1>1. ASSUME UNCHANGED vars PROVE IInv'
  <2>1. UNCHANGED <<policy, handled, pc, todo, after, ending, meant, asked, wire, eof, phase, current, got>>
    BY <1>1 DEF vars, serverVars, streamVars, clientVars
  <2>2. Types' /\ Serves'
    BY <2>1 DEF IInv, Types, TypeOK, Serves
  <2>3. Understands'
    BY <2>1 DEF IInv, Understands, Closing, Final
  <2>4. Stream'
    <3> SUFFICES ASSUME phase = "open" PROVE \E at \in Seq(Places) : Along(at)'
      BY <2>1 DEF Stream
    <3>1. PICK at \in Seq(Places) : Along(at)
      BY DEF IInv, Stream
    <3>2. Follow(at)' /\ Reading' = Reading
      BY <2>1, <3>1, SamePlaces DEF Along
    <3>3. PICK last : last = at[Len(wire) + 1]
      OBVIOUS
    <3>4. Writes(last)'
      <4>1. \A cell, place : Fits(cell, place)' <=> Fits(cell, place)
        BY <2>1, SameResponses
      <4>2. \A n : Remain(last, n) => Remain(last, n)'
        BY <2>1, <4>1 DEF Remain, Fresh
      <4> QED
        BY <2>1, <3>1, <3>3, <4>2 DEF Along, Writes, Fresh
    <3> QED
      BY <2>1, <3>1, <3>2, <3>3, <3>4 DEF Along
  <2> QED
    BY <2>2, <2>3, <2>4 DEF IInv
<1>2. ASSUME ServerNext PROVE IInv'
  BY <1>2, AnswerKeeps, AnswerUnparsedKeeps, RefuseStreamKeeps, IdleKeeps, WriteKeeps, WrittenKeeps,
     CancelKeeps DEF ServerNext
<1> QED
  BY <1>1, <1>2, ReadHeadKeeps, ReadBodyKeeps, ReadEofKeeps DEF Next, Rest

LEMMA Invariance == Spec => []IInv
  BY InitOK, Step, PTL DEF Spec

\* The loops keep their types; no more responses than requests allowed, and one
\* refusal.
THEOREM TypeCorrect == Spec => []TypeOK
<1>1. IInv => TypeOK
  BY DEF IInv, Types
<1> QED
  BY <1>1, Invariance, PTL

\* What response_head says of a body is what send_response writes of it, so that
\* a client never loses its place in the stream, whatever handlers return.
THEOREM Delimited == Spec => []ResponsesDelimited
<1>1. IInv => ResponsesDelimited
  <2> SUFFICES ASSUME IInv PROVE ResponsesDelimited
    OBVIOUS
  <2>1. ASSUME phase = "open", wire = <<>>, pc \in {"serve", "upgraded"} PROVE got = meant
    <3>1. PICK at \in Seq(Places) : Along(at)
      BY <2>1 DEF IInv, Stream
    <3>2. Reading = Fresh
      <4>1. Len(wire) = 0
        BY <2>1, EmptySeq
      <4> QED
        BY <2>1, <3>1, <4>1 DEF Along, Writes
    <3>3. Len(got) = Len(meant)
      BY <3>2, Facts DEF Reading, Fresh, Place, IInv, Types
    <3> QED
      BY <3>3, Facts, SeqEqual
  <2> QED
    BY <2>1 DEF ResponsesDelimited, IInv, Understands
<1> QED
  BY <1>1, Invariance, PTL

\* The Connection header says when the loop ends after a response, and the loop
\* ends without it only on silence, or with the runtime.
THEOREM CloseAnnounced == Spec => []CloseIsAnnounced
<1>1. IInv => CloseIsAnnounced
  BY DEF IInv, Understands, CloseIsAnnounced
<1> QED
  BY <1>1, Invariance, PTL
===============================================================================
