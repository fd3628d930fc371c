--------------------------- MODULE ConnectionProofs ---------------------------
(***************************************************************************)
(* Proofs about RequestFraming and Connection, for all limits, timeouts,   *)
(* clients, handlers' outcomes and client behaviour:                       *)
(*   - a verdict on a buffer stands when more bytes arrive;                *)
(*   - a request is within the limits, and so is the memory it takes;      *)
(*   - the loop's control state, timers and responses, for whatever        *)
(*     verdicts TakeFramedRequest gives;                                   *)
(*   - what the handlers see is what the client sent, what is refused is   *)
(*     what must be, and nothing that could be acted on waits;             *)
(*   - the connection implements HttpSession.                              *)
(***************************************************************************)
EXTENDS Connection, SequenceTheorems, WellFoundedInduction, TLAPS

-------------------------------------------------------------------------------
(* Byte strings: the first number of a set, slices and beginnings.         *)

Bytes == Seq(Token)

LEMMA SmallestNumber ==
  ASSUME NEW T, T \subseteq Nat, T # {}
  PROVE  \E m \in T : \A k \in T : ~(k < m)
<1> DEFINE R == OpToRel(<, Nat)
<1>1. \E m \in T : \A k \in T : ~(<<k, m>> \in R)
  <2> HIDE DEF R
  <2>1. IsWellFoundedOn(R, Nat)
    BY NatLessThanWellFounded DEF R
  <2> QED
    BY <2>1, WFMin
<1> QED
  BY <1>1 DEF OpToRel

\* A slice of a byte string, whatever its borders.
LEMMA SliceFacts ==
  ASSUME NEW s \in Bytes, NEW m \in Nat \ {0}, NEW n \in Nat, n =< Len(s)
  PROVE  /\ SubSeq(s, m, n) \in Bytes
         /\ Len(SubSeq(s, m, n)) = IF m =< n THEN n - m + 1 ELSE 0
         /\ \A i \in 1..(n - m + 1) : SubSeq(s, m, n)[i] = s[m + i - 1]
<1>1. \A i \in m..n : s[i] \in Token
  BY DEF Bytes
<1> QED
  BY <1>1, SubSeqProperties DEF Bytes

\* One byte string is the beginning of another.
Begins(buf, big) ==
  /\ buf \in Bytes /\ big \in Bytes
  /\ Len(buf) =< Len(big)
  /\ \A i \in 1..Len(buf) : big[i] = buf[i]

LEMMA SameSlice ==
  ASSUME NEW buf, NEW big, Begins(buf, big), NEW m \in Nat \ {0}, NEW n \in Nat, n =< Len(buf)
  PROVE  SubSeq(big, m, n) = SubSeq(buf, m, n)
<1>1. /\ buf \in Bytes /\ big \in Bytes /\ n =< Len(big)
      /\ \A i \in 1..Len(buf) : big[i] = buf[i]
  BY DEF Begins, Bytes
<1>2. /\ SubSeq(big, m, n) \in Bytes /\ SubSeq(buf, m, n) \in Bytes
      /\ Len(SubSeq(big, m, n)) = Len(SubSeq(buf, m, n))
      /\ Len(SubSeq(buf, m, n)) = IF m =< n THEN n - m + 1 ELSE 0
  BY <1>1, SliceFacts
<1>3. ASSUME NEW i \in 1..Len(SubSeq(buf, m, n))
      PROVE  SubSeq(big, m, n)[i] = SubSeq(buf, m, n)[i]
  <2>1. i \in 1..(n - m + 1) /\ m + i - 1 \in 1..Len(buf)
    BY <1>2
  <2> QED
    BY <1>1, <2>1, SliceFacts
<1> QED
  BY <1>2, <1>3, SeqEqual DEF Bytes

-------------------------------------------------------------------------------
(* What FirstAt finds.                                                     *)

Hits(s, pat, p) ==
  {i \in p..(Len(s) - Len(pat) + 1) : SubSeq(s, i, i + Len(pat) - 1) = pat}

LEMMA FirstAtFinds ==
  ASSUME NEW s \in Bytes, NEW pat \in Bytes, NEW p \in Nat \ {0}
  PROVE  /\ FirstAt(s, pat, p) \in Nat
         /\ FirstAt(s, pat, p) = 0 => Hits(s, pat, p) = {}
         /\ FirstAt(s, pat, p) # 0 =>
              /\ FirstAt(s, pat, p) \in Hits(s, pat, p)
              /\ \A k \in Hits(s, pat, p) : FirstAt(s, pat, p) =< k
<1>1. FirstAt(s, pat, p) = IF Hits(s, pat, p) = {} THEN 0
                           ELSE CHOOSE i \in Hits(s, pat, p) : \A k \in Hits(s, pat, p) : i =< k
  BY DEF FirstAt, Hits
<1>2. Hits(s, pat, p) \subseteq Nat \ {0}
  BY DEF Hits, Bytes
<1>3. CASE Hits(s, pat, p) = {}
  BY <1>1, <1>3
<1>4. CASE Hits(s, pat, p) # {}
  <2>1. PICK i \in Hits(s, pat, p) : \A k \in Hits(s, pat, p) : ~(k < i)
    BY <1>2, <1>4, SmallestNumber
  <2>2. \A k \in Hits(s, pat, p) : i =< k
    BY <1>2, <2>1
  <2>3. /\ FirstAt(s, pat, p) \in Hits(s, pat, p)
        /\ \A k \in Hits(s, pat, p) : FirstAt(s, pat, p) =< k
    BY <1>1, <1>4, <2>2
  <2> QED
    BY <1>2, <2>3
<1> QED
  BY <1>3, <1>4

\* What is found in a beginning is found in the whole, ...
LEMMA FoundAtOnce ==
  ASSUME NEW buf, NEW big, Begins(buf, big), NEW pat \in Bytes, pat # <<>>, NEW p \in Nat \ {0},
         FirstAt(buf, pat, p) # 0
  PROVE  FirstAt(big, pat, p) = FirstAt(buf, pat, p)
<1>1. buf \in Bytes /\ big \in Bytes /\ Len(buf) \in Nat /\ Len(big) \in Nat /\ Len(buf) =< Len(big)
  BY DEF Begins, Bytes
<1>0. Len(pat) \in Nat \ {0}
  BY EmptySeq DEF Bytes
<1>2. PICK f \in Nat : f = FirstAt(buf, pat, p)
  BY <1>1, FirstAtFinds
<1>3. /\ f \in p..(Len(buf) - Len(pat) + 1) /\ SubSeq(buf, f, f + Len(pat) - 1) = pat
      /\ \A k \in Hits(buf, pat, p) : f =< k
  BY <1>1, <1>2, FirstAtFinds DEF Hits
<1>4. ASSUME NEW k \in p..(Len(buf) - Len(pat) + 1)
      PROVE  SubSeq(big, k, k + Len(pat) - 1) = SubSeq(buf, k, k + Len(pat) - 1)
  <2>1. k \in Nat \ {0} /\ k + Len(pat) - 1 \in Nat /\ k + Len(pat) - 1 =< Len(buf)
    BY <1>0, <1>1
  <2> QED
    BY <2>1, SameSlice
<1>5. f \in Hits(big, pat, p)
  BY <1>0, <1>1, <1>3, <1>4 DEF Hits
<1>6. PICK g \in Nat : g = FirstAt(big, pat, p)
  BY <1>1, FirstAtFinds
<1>7. g # 0 /\ g \in Hits(big, pat, p) /\ g =< f
  BY <1>1, <1>5, <1>6, FirstAtFinds
<1>8. g \in Hits(buf, pat, p)
  BY <1>0, <1>1, <1>3, <1>4, <1>7 DEF Hits
<1> QED
  BY <1>2, <1>3, <1>6, <1>7, <1>8

\* ... and what is not in the beginning ends beyond it.
LEMMA FoundLater ==
  ASSUME NEW buf, NEW big, Begins(buf, big), NEW pat \in Bytes, pat # <<>>, NEW p \in Nat \ {0},
         FirstAt(buf, pat, p) = 0, FirstAt(big, pat, p) # 0
  PROVE  /\ FirstAt(big, pat, p) >= p
         /\ FirstAt(big, pat, p) + Len(pat) - 1 > Len(buf)
         /\ FirstAt(big, pat, p) + Len(pat) - 1 =< Len(big)
<1>1. buf \in Bytes /\ big \in Bytes /\ Len(buf) \in Nat /\ Len(big) \in Nat /\ Len(buf) =< Len(big)
  BY DEF Begins, Bytes
<1>0. Len(pat) \in Nat \ {0}
  BY EmptySeq DEF Bytes
<1>2. PICK g \in Nat : g = FirstAt(big, pat, p)
  BY <1>1, FirstAtFinds
<1>3. /\ g \in p..(Len(big) - Len(pat) + 1) /\ SubSeq(big, g, g + Len(pat) - 1) = pat
  BY <1>1, <1>2, FirstAtFinds DEF Hits
<1>4. Hits(buf, pat, p) = {}
  BY <1>1, FirstAtFinds
<1>5. ASSUME g + Len(pat) - 1 =< Len(buf) PROVE FALSE
  <2>1. PICK n \in Nat : n = g + Len(pat) - 1
    BY <1>0
  <2>2. g \in Nat \ {0} /\ n =< Len(buf)
    BY <1>3, <1>5, <2>1
  <2>3. SubSeq(big, g, n) = SubSeq(buf, g, n)
    BY <2>2, SameSlice
  <2>4. g \in p..(Len(buf) - Len(pat) + 1)
    BY <1>0, <1>1, <1>3, <1>5
  <2> QED
    BY <1>3, <1>4, <2>1, <2>3, <2>4 DEF Hits
<1> QED
  BY <1>0, <1>1, <1>2, <1>3, <1>5

LEMMA LineBreaks ==
  /\ CRLF \in Bytes /\ Len(CRLF) = 2 /\ CRLF # <<>>
  /\ CRLF \o CRLF \in Bytes /\ Len(CRLF \o CRLF) = 4 /\ CRLF \o CRLF # <<>>
<1>1. CR \in Token /\ LF \in Token
  BY DEF CR, LF, Token
<1>2. CRLF \in Bytes /\ Len(CRLF) = 2
  BY <1>1 DEF CRLF, Bytes
<1>3. CRLF \o CRLF \in Bytes /\ Len(CRLF \o CRLF) = 4
  <2>1. PICK c \in Seq(Token) : c = CRLF /\ Len(c) = 2
    BY <1>2 DEF Bytes
  <2>2. c \o c \in Seq(Token) /\ Len(c \o c) = Len(c) + Len(c)
    BY ConcatProperties
  <2> QED
    BY <2>1, <2>2 DEF Bytes
<1> QED
  BY <1>2, <1>3, EmptySeq DEF Bytes
\* A pattern looked for in a beginning and in the whole.
LEMMA Search ==
  ASSUME NEW buf, NEW big, Begins(buf, big), NEW pat \in Bytes, pat # <<>>, NEW p \in Nat \ {0}
  PROVE  /\ FirstAt(buf, pat, p) \in Nat /\ FirstAt(big, pat, p) \in Nat
         /\ FirstAt(buf, pat, p) # 0 =>
              /\ FirstAt(big, pat, p) = FirstAt(buf, pat, p)
              /\ FirstAt(buf, pat, p) >= p /\ FirstAt(buf, pat, p) + Len(pat) - 1 =< Len(buf)
         /\ FirstAt(buf, pat, p) = 0 /\ FirstAt(big, pat, p) # 0 =>
              /\ FirstAt(big, pat, p) >= p
              /\ FirstAt(big, pat, p) + Len(pat) - 1 > Len(buf)
              /\ FirstAt(big, pat, p) + Len(pat) - 1 =< Len(big)
<1>1. buf \in Bytes /\ big \in Bytes /\ Len(buf) \in Nat /\ Len(big) \in Nat /\ Len(pat) \in Nat
  BY DEF Begins, Bytes
<1>2. FirstAt(buf, pat, p) \in Nat /\ FirstAt(big, pat, p) \in Nat
  BY <1>1, FirstAtFinds
<1>3. ASSUME FirstAt(buf, pat, p) # 0
      PROVE  FirstAt(buf, pat, p) >= p /\ FirstAt(buf, pat, p) + Len(pat) - 1 =< Len(buf)
  <2>1. PICK e : e = FirstAt(buf, pat, p)
    OBVIOUS
  <2>2. e \in p..(Len(buf) - Len(pat) + 1)
    BY <1>1, <1>3, <2>1, FirstAtFinds DEF Hits
  <2> QED
    BY <1>1, <2>1, <2>2
<1>4. FirstAt(buf, pat, p) # 0 => FirstAt(big, pat, p) = FirstAt(buf, pat, p)
  BY FoundAtOnce
<1> QED
  BY <1>2, <1>3, <1>4, FoundLater

LEMMA SearchSeparator ==
  ASSUME NEW buf, NEW big, Begins(buf, big), NEW p \in Nat \ {0},
         NEW e, NEW f, e = FirstAt(buf, CRLF \o CRLF, p), f = FirstAt(big, CRLF \o CRLF, p)
  PROVE  /\ e \in Nat /\ f \in Nat
         /\ e # 0 => f = e /\ e >= p /\ e + 3 =< Len(buf)
         /\ e = 0 /\ f # 0 => f >= p /\ f + 3 > Len(buf) /\ f + 3 =< Len(big)
<1>1. PICK pat \in Bytes : pat = CRLF \o CRLF /\ Len(pat) = 4 /\ pat # <<>>
  BY LineBreaks
<1>2. e = FirstAt(buf, pat, p) /\ f = FirstAt(big, pat, p)
  BY <1>1
<1>3. /\ e \in Nat /\ f \in Nat
      /\ e # 0 => f = e /\ e >= p /\ e + Len(pat) - 1 =< Len(buf)
      /\ e = 0 /\ f # 0 => f >= p /\ f + Len(pat) - 1 > Len(buf) /\ f + Len(pat) - 1 =< Len(big)
  BY <1>1, <1>2, Search, ZenonT(60)
<1>4. Len(buf) \in Nat /\ Len(big) \in Nat
  BY DEF Begins, Bytes
<1> QED
  BY <1>1, <1>3, <1>4

LEMMA SearchLine ==
  ASSUME NEW buf, NEW big, Begins(buf, big), NEW p \in Nat \ {0},
         NEW e, NEW f, e = FirstAt(buf, CRLF, p), f = FirstAt(big, CRLF, p)
  PROVE  /\ e \in Nat /\ f \in Nat
         /\ e # 0 => f = e /\ e >= p /\ e + 1 =< Len(buf)
         /\ e = 0 /\ f # 0 => f >= p /\ f + 1 > Len(buf) /\ f + 1 =< Len(big)
<1>1. CRLF \in Bytes /\ Len(CRLF) = 2 /\ CRLF # <<>>
  BY LineBreaks
<1>3. /\ e \in Nat /\ f \in Nat
      /\ e # 0 => f = e /\ e >= p /\ e + Len(CRLF) - 1 =< Len(buf)
      /\ e = 0 /\ f # 0 => f >= p /\ f + Len(CRLF) - 1 > Len(buf) /\ f + Len(CRLF) - 1 =< Len(big)
  BY <1>1, Search
<1>4. Len(buf) \in Nat /\ Len(big) \in Nat
  BY DEF Begins, Bytes
<1> QED
  BY <1>1, <1>3, <1>4

-------------------------------------------------------------------------------
(* The verdict on a beginning stands, whatever follows.                    *)

\* A request taken off the beginning is taken off the whole, with as many bytes
\* used; what is refused in the beginning is refused in the whole.
Stands(v, w, buf, big) ==
  /\ v.verdict = "ready" =>
       /\ w.verdict = "ready" /\ w.raw = v.raw
       /\ \E used \in 0..Len(buf) :
            v.rest = SubSeq(buf, used + 1, Len(buf)) /\ w.rest = SubSeq(big, used + 1, Len(big))
  /\ v.verdict = "error" => w.verdict = "error" /\ w.status = v.status

LEMMA TakenStands ==
  ASSUME NEW buf, NEW big, NEW raw, NEW used \in 0..Len(buf)
  PROVE  Stands(Taken(buf, raw, used), Taken(big, raw, used), buf, big)
  BY DEF Stands, Taken

LEMMA RefusedStands ==
  ASSUME NEW buf, NEW big, NEW status
  PROVE  Stands(Refused(buf, status), Refused(big, status), buf, big)
  BY DEF Stands, Refused

LEMMA IncompleteStands ==
  ASSUME NEW buf, NEW big, NEW w
  PROVE  Stands(Incomplete(buf), w, buf, big)
  BY DEF Stands, Incomplete

LEMMA TrailersStand ==
  ASSUME NEW buf, NEW big, Begins(buf, big), NEW headEnd \in Nat, headEnd =< Len(buf),
         NEW p \in Nat \ {0}, NEW decoded
  PROVE  Stands(TakeTrailers(buf, headEnd, p, decoded), TakeTrailers(big, headEnd, p, decoded), buf, big)
<1>0. Len(buf) \in Nat /\ Len(big) \in Nat /\ Len(buf) =< Len(big) /\ buf \in Bytes /\ big \in Bytes
  BY DEF Begins, Bytes
<1>h. HeaderLimit \in Nat
  BY FramingAssumption
<1>1. PICK end, bigEnd : end = FirstAt(buf, CRLF \o CRLF, p) /\ bigEnd = FirstAt(big, CRLF \o CRLF, p)
  OBVIOUS
<1>2. PICK raw : raw = SubSeq(buf, 1, headEnd) \o decoded
  OBVIOUS
<1>3. raw = SubSeq(big, 1, headEnd) \o decoded
  <2>1. SubSeq(big, 1, headEnd) = SubSeq(buf, 1, headEnd)
    BY SameSlice
  <2> QED
    BY <1>2, <2>1
<1>4. PICK trailer, bigTrailer : trailer = SubSeq(buf, p, end - 1) /\ bigTrailer = SubSeq(big, p, bigEnd - 1)
  OBVIOUS
<1>5. /\ end \in Nat /\ bigEnd \in Nat
      /\ end # 0 => bigEnd = end /\ end >= p /\ end + 3 =< Len(buf)
      /\ end = 0 /\ bigEnd # 0 => bigEnd >= p /\ bigEnd + 3 > Len(buf) /\ bigEnd + 3 =< Len(big)
  BY <1>1, SearchSeparator
<1>6. end # 0 => bigTrailer = trailer
  <2> SUFFICES ASSUME end # 0 PROVE bigTrailer = trailer
    OBVIOUS
  <2>1. PICK n \in Nat : n = end - 1 /\ n =< Len(buf)
    BY <1>0, <1>5
  <2>2. SubSeq(big, p, n) = SubSeq(buf, p, n)
    BY <2>1, SameSlice, ZenonT(60)
  <2> QED
    BY <1>4, <1>5, <2>1, <2>2
<1>7. end = 0 /\ bigEnd # 0 => Len(bigTrailer) = bigEnd - p
  <2>1. end = 0 /\ bigEnd # 0 => bigEnd - 1 \in Nat /\ bigEnd - 1 =< Len(big)
    BY <1>0, <1>5
  <2>2. end = 0 /\ bigEnd # 0 => Len(bigTrailer) = IF p =< bigEnd - 1 THEN (bigEnd - 1) - p + 1 ELSE 0
    BY <1>0, <1>4, <2>1, SliceFacts
  <2> QED
    BY <1>5, <2>2
<1>8. Len(buf) >= p + 1 => SubSeq(big, p, p + 1) = SubSeq(buf, p, p + 1)
  <2>1. p + 1 \in Nat
    OBVIOUS
  <2> QED
    BY <1>0, <2>1, SameSlice
<1> DEFINE Malformed == ~IsText(trailer) \/ \E q \in LineStarts(trailer) : ~HasColon(LineAt(trailer, q))
           BigMalformed == ~IsText(bigTrailer) \/ \E q \in LineStarts(bigTrailer) : ~HasColon(LineAt(bigTrailer, q))
<1>9. PICK v : v = TakeTrailers(buf, headEnd, p, decoded)
  OBVIOUS
<1>10. PICK w : w = TakeTrailers(big, headEnd, p, decoded)
  OBVIOUS
<1>11. v = IF Len(buf) < p + 1 THEN Incomplete(buf)
           ELSE IF SubSeq(buf, p, p + 1) = CRLF THEN Taken(buf, raw, p + 1)
           ELSE IF end = 0
           THEN IF Len(buf) - p + 1 > HeaderLimit THEN Refused(buf, 431) ELSE Incomplete(buf)
           ELSE IF Len(trailer) + 4 > HeaderLimit THEN Refused(buf, 431)
           ELSE IF Malformed THEN Refused(buf, 400)
           ELSE Taken(buf, raw, end + 3)
  BY ONLY <1>1, <1>2, <1>4, <1>9, ZenonT(60) DEF TakeTrailers
<1>12. w = IF Len(big) < p + 1 THEN Incomplete(big)
           ELSE IF SubSeq(big, p, p + 1) = CRLF THEN Taken(big, raw, p + 1)
           ELSE IF bigEnd = 0
           THEN IF Len(big) - p + 1 > HeaderLimit THEN Refused(big, 431) ELSE Incomplete(big)
           ELSE IF Len(bigTrailer) + 4 > HeaderLimit THEN Refused(big, 431)
           ELSE IF BigMalformed THEN Refused(big, 400)
           ELSE Taken(big, raw, bigEnd + 3)
  BY ONLY <1>1, <1>3, <1>4, <1>10, ZenonT(60) DEF TakeTrailers
<1>13. end # 0 => (BigMalformed <=> Malformed)
  BY <1>6
<1> HIDE DEF Malformed, BigMalformed
<1>14. \/ v = Incomplete(buf)
       \/ v = Taken(buf, raw, p + 1) /\ w = Taken(big, raw, p + 1) /\ p + 1 =< Len(buf)
       \/ v = Refused(buf, 431) /\ w = Refused(big, 431)
       \/ v = Refused(buf, 400) /\ w = Refused(big, 400)
       \/ v = Taken(buf, raw, end + 3) /\ w = Taken(big, raw, end + 3) /\ end + 3 =< Len(buf)
  <2>1. CASE Len(buf) < p + 1
    BY <1>11, <2>1
  <2>2. CASE ~(Len(buf) < p + 1) /\ SubSeq(buf, p, p + 1) = CRLF
    BY <1>0, <1>8, <1>11, <1>12, <2>2
  <2>3. CASE ~(Len(buf) < p + 1) /\ SubSeq(buf, p, p + 1) # CRLF /\ end = 0
    <3>1. v = IF Len(buf) - p + 1 > HeaderLimit THEN Refused(buf, 431) ELSE Incomplete(buf)
      BY <1>11, <2>3
    <3>2. Len(buf) - p + 1 > HeaderLimit => w = Refused(big, 431)
      BY <1>0, <1>h, <1>5, <1>7, <1>8, <1>12, <2>3
    <3> QED
      BY <3>1, <3>2
  <2>4. CASE ~(Len(buf) < p + 1) /\ SubSeq(buf, p, p + 1) # CRLF /\ end # 0
    <3>1. v = IF Len(trailer) + 4 > HeaderLimit THEN Refused(buf, 431)
              ELSE IF Malformed THEN Refused(buf, 400) ELSE Taken(buf, raw, end + 3)
      BY <1>11, <2>4
    <3>2. w = IF Len(trailer) + 4 > HeaderLimit THEN Refused(big, 431)
              ELSE IF Malformed THEN Refused(big, 400) ELSE Taken(big, raw, end + 3)
      BY <1>0, <1>5, <1>6, <1>8, <1>12, <1>13, <2>4
    <3> QED
      BY <1>5, <2>4, <3>1, <3>2
  <2> QED
    BY <2>1, <2>2, <2>3, <2>4
<1>15. Stands(v, w, buf, big)
  BY <1>0, <1>5, <1>14, TakenStands, RefusedStands, IncompleteStands
<1> QED
  BY <1>9, <1>10, <1>15

\* A line that has a chunk's size is not empty, and the size is a number.
LEMMA SizeOfLine ==
  ASSUME NEW line \in Seq(Token), IsSizeLine(line)
  PROVE  line # <<>> /\ ChunkSize(line) \in Nat
<1>1. PICK q : q = CHOOSE p \in SizePlaces(line) : TRUE
  OBVIOUS
<1>2. SizePlaces(line) # {}
  BY DEF IsSizeLine
<1>3. q \in SizePlaces(line)
  BY <1>1, <1>2, Zenon
<1>4. q \in 1..Len(line)
  BY <1>3 DEF SizePlaces
<1>5. line[q] \in Token
  BY <1>4
<1>6. line[q].n \in Nat
  BY <1>5 DEF Token
<1> QED
  BY <1>1, <1>4, <1>6 DEF ChunkSize

\* One turn of the loop over chunks, if the further turns stand.
LEMMA ChunkStands ==
  ASSUME NEW buf, NEW big, Begins(buf, big), NEW headEnd \in Nat, headEnd =< Len(buf),
         NEW s \in ChunkState, NEW chunks, NEW more,
         \A t \in ChunkState :
           s.cursor =< Len(buf) /\ t.cursor > s.cursor => Stands(chunks[t], more[t], buf, big)
  PROVE  Stands(TakeChunk(chunks, buf, headEnd, s), TakeChunk(more, big, headEnd, s), buf, big)
<1>0. Len(buf) \in Nat /\ Len(big) \in Nat /\ Len(buf) =< Len(big) /\ buf \in Bytes /\ big \in Bytes
  BY DEF Begins, Bytes
<1>h. HeaderLimit \in Nat /\ UsizeMax \in Nat
  BY FramingAssumption
<1>s. s.cursor \in Nat \ {0} /\ s.metadata \in Nat /\ s.decoded \in Bytes
  BY DEF ChunkState, Bytes
<1>1. PICK p \in Nat \ {0} : p = s.cursor
  BY <1>s
<1>2. PICK eol, bigEol : eol = FirstAt(buf, CRLF, p) /\ bigEol = FirstAt(big, CRLF, p)
  OBVIOUS
<1>3. PICK line, bigLine : line = SubSeq(buf, p, eol - 1) /\ bigLine = SubSeq(big, p, bigEol - 1)
  OBVIOUS
<1>4. PICK metadata, bigMetadata :
         metadata = s.metadata + Len(line) + 2 /\ bigMetadata = s.metadata + Len(bigLine) + 2
  OBVIOUS
<1>5. /\ eol \in Nat /\ bigEol \in Nat
      /\ eol # 0 => bigEol = eol /\ eol >= p /\ eol + 1 =< Len(buf)
      /\ eol = 0 /\ bigEol # 0 => bigEol >= p /\ bigEol + 1 > Len(buf) /\ bigEol + 1 =< Len(big)
  BY <1>2, SearchLine
<1>6. eol # 0 => bigLine = line /\ bigMetadata = metadata /\ line \in Bytes /\ metadata \in Nat
  <2> SUFFICES ASSUME eol # 0 PROVE bigLine = line /\ bigMetadata = metadata /\ line \in Bytes /\ metadata \in Nat
    OBVIOUS
  <2>1. PICK n \in Nat : n = eol - 1 /\ n =< Len(buf)
    BY <1>0, <1>5
  <2>2. SubSeq(buf, p, n) \in Bytes
    BY <1>0, <2>1, SliceFacts
  <2>5. SubSeq(big, p, n) = SubSeq(buf, p, n)
    BY <2>1, SameSlice, ZenonT(60)
  <2>3. bigLine = line /\ line \in Bytes
    BY <1>3, <1>5, <2>1, <2>2, <2>5
  <2>4. Len(line) \in Nat
    BY <2>3 DEF Bytes
  <2> QED
    BY <1>4, <1>s, <2>3, <2>4
<1>7. eol = 0 /\ bigEol # 0 => bigMetadata = s.metadata + (bigEol - p) + 2
  <2>1. eol = 0 /\ bigEol # 0 => bigEol - 1 \in Nat /\ bigEol - 1 =< Len(big)
    BY <1>0, <1>5
  <2>2. eol = 0 /\ bigEol # 0 => Len(bigLine) = IF p =< bigEol - 1 THEN (bigEol - 1) - p + 1 ELSE 0
    BY <1>0, <1>3, <2>1, SliceFacts
  <2> QED
    BY <1>4, <1>5, <2>2
<1>8. PICK size : size = ChunkSize(line)
  OBVIOUS
<1>9. eol # 0 /\ IsSizeLine(line) => size \in Nat
  <2> SUFFICES ASSUME eol # 0, IsSizeLine(line) PROVE size \in Nat
    OBVIOUS
  <2>1. line \in Seq(Token)
    BY <1>6 DEF Bytes
  <2> QED
    BY <1>8, <2>1, SizeOfLine
<1>10. PICK data : data = eol + 2
  OBVIOUS
<1> DEFINE Turned(b) == [cursor |-> data + size + 2, metadata |-> metadata,
                         decoded |-> s.decoded \o SubSeq(b, data, data + size - 1)]
           Rest(c, b) == IF Len(b) < data + size + 1 THEN Incomplete(b)
                         ELSE IF SubSeq(b, data + size, data + size + 1) # CRLF THEN Refused(b, 400)
                         ELSE c[Turned(b)]
           Body(c, b) == IF size = 0 THEN TakeTrailers(b, headEnd, data, s.decoded)
                         ELSE IF OverBodyLimit(s.decoded, size) \/ ChunkOverflows(data - 1, size)
                         THEN Refused(b, 413)
                         ELSE Rest(c, b)
<1>11. PICK v : v = TakeChunk(chunks, buf, headEnd, s)
  OBVIOUS
<1>12. PICK w : w = TakeChunk(more, big, headEnd, s)
  OBVIOUS
<1>13. v = IF eol = 0
           THEN IF Len(buf) - p + 1 > HeaderLimit THEN Refused(buf, 431) ELSE Incomplete(buf)
           ELSE IF OverHeaderLimit(metadata) THEN Refused(buf, 431)
           ELSE IF ~IsSizeLine(line) THEN Refused(buf, 400)
           ELSE Body(chunks, buf)
  BY ONLY <1>1, <1>2, <1>3, <1>4, <1>8, <1>10, <1>11, ZenonT(60) DEF TakeChunk
<1>14. bigEol = 0 => w = IF Len(big) - p + 1 > HeaderLimit THEN Refused(big, 431) ELSE Incomplete(big)
  BY ONLY <1>1, <1>2, <1>12, ZenonT(60) DEF TakeChunk
<1>15. bigEol # 0 /\ OverHeaderLimit(bigMetadata) => w = Refused(big, 431)
  BY ONLY <1>1, <1>2, <1>3, <1>4, <1>12, ZenonT(60) DEF TakeChunk
<1>16. eol # 0 => w = IF OverHeaderLimit(metadata) THEN Refused(big, 431)
                      ELSE IF ~IsSizeLine(line) THEN Refused(big, 400)
                      ELSE Body(more, big)
  <2> SUFFICES ASSUME eol # 0 PROVE w = IF OverHeaderLimit(metadata) THEN Refused(big, 431)
                      ELSE IF ~IsSizeLine(line) THEN Refused(big, 400)
                      ELSE Body(more, big)
    OBVIOUS
  <2>1. /\ eol = FirstAt(big, CRLF, p) /\ line = SubSeq(big, p, eol - 1)
    BY <1>2, <1>3, <1>5, <1>6
  <2> QED
    BY ONLY eol # 0, <1>1, <1>4, <1>8, <1>10, <1>12, <2>1, ZenonT(60) DEF TakeChunk
<1>17. CASE eol = 0
  <2>1. CASE Len(buf) - p + 1 =< HeaderLimit
    <3>1. v = Incomplete(buf)
      BY <1>0, <1>h, <1>13, <1>17, <2>1
    <3> QED
      BY <1>11, <1>12, <3>1, IncompleteStands
  <2>2. CASE Len(buf) - p + 1 > HeaderLimit
    <3>1. v = Refused(buf, 431)
      BY <1>13, <1>17, <2>2
    <3>2. w = Refused(big, 431)
      <4>1. CASE bigEol = 0
        BY <1>0, <1>h, <1>14, <2>2, <4>1
      <4>2. CASE bigEol # 0
        <5>1. bigMetadata > HeaderLimit
          BY <1>0, <1>h, <1>s, <1>5, <1>7, <1>17, <2>2, <4>2
        <5> QED
          BY <1>15, <4>2, <5>1 DEF OverHeaderLimit
      <4> QED
        BY <4>1, <4>2
    <3> QED
      BY <1>11, <1>12, <3>1, <3>2, RefusedStands
  <2> QED
    BY <1>0, <1>h, <2>1, <2>2
<1>18. CASE eol # 0 /\ (OverHeaderLimit(metadata) \/ ~IsSizeLine(line))
  <2>1. \/ v = Refused(buf, 431) /\ w = Refused(big, 431)
        \/ v = Refused(buf, 400) /\ w = Refused(big, 400)
    BY ONLY <1>13, <1>16, <1>18
  <2> QED
    BY <1>11, <1>12, <2>1, RefusedStands
<1>19. CASE eol # 0 /\ ~OverHeaderLimit(metadata) /\ IsSizeLine(line)
  <2>0. size \in Nat /\ data \in Nat \ {0} /\ data = eol + 2 /\ eol >= p /\ eol + 1 =< Len(buf) /\ p =< Len(buf)
    BY <1>0, <1>5, <1>9, <1>10, <1>19
  <2>1. v = Body(chunks, buf) /\ w = Body(more, big)
    BY ONLY <1>13, <1>16, <1>19
  <2>2. CASE size = 0
    <3>1. v = TakeTrailers(buf, headEnd, data, s.decoded) /\ w = TakeTrailers(big, headEnd, data, s.decoded)
      BY ONLY <2>1, <2>2
    <3> QED
      BY <1>11, <1>12, <2>0, <3>1, TrailersStand
  <2> DEFINE Over == OverBodyLimit(s.decoded, size) \/ ChunkOverflows(data - 1, size)
  <2>3. CASE size # 0 /\ Over
    <3>1. v = Refused(buf, 413) /\ w = Refused(big, 413)
      BY ONLY <2>1, <2>3
    <3> QED
      BY <1>11, <1>12, <3>1, RefusedStands
  <2>4. CASE size # 0 /\ ~Over
    <3>1. v = Rest(chunks, buf) /\ w = Rest(more, big)
      BY ONLY <2>1, <2>4
    <3>2. CASE Len(buf) < data + size + 1
      <4>1. v = Incomplete(buf)
        BY ONLY <3>1, <3>2
      <4> QED
        BY <1>11, <1>12, <4>1, IncompleteStands
    <3>3. CASE ~(Len(buf) < data + size + 1)
      <4>1. /\ data + size \in Nat \ {0} /\ data + size + 1 \in Nat /\ data + size + 1 =< Len(buf)
            /\ data + size - 1 \in Nat /\ data + size - 1 =< Len(buf)
            /\ ~(Len(big) < data + size + 1)
        BY <1>0, <2>0, <3>3
      <4>6. PICK m \in Nat \ {0}, n \in Nat, k \in Nat : m = data + size /\ n = data + size + 1 /\ k = data + size - 1
        BY <4>1
      <4>7. n =< Len(buf) /\ k =< Len(buf)
        BY <4>1, <4>6
      <4>8. SubSeq(big, m, n) = SubSeq(buf, m, n)
        BY <4>7, SameSlice
      <4>11. data \in Nat \ {0}
        BY <2>0
      <4>10. SubSeq(big, data, k) = SubSeq(buf, data, k)
        <5>1. k =< Len(buf)
          BY <4>7
        <5>2. PICK lo \in Nat \ {0} : lo = data
          BY <4>11
        <5>3. SubSeq(big, lo, k) = SubSeq(buf, lo, k)
          BY ONLY <5>1, SameSlice, Begins(buf, big), k \in Nat, lo \in Nat \ {0}
        <5> QED
          BY ONLY <5>2, <5>3
      <4>9. SubSeq(buf, data, k) \in Bytes
        BY <1>0, <2>0, <4>7, SliceFacts
      <4>2. SubSeq(big, data + size, data + size + 1) = SubSeq(buf, data + size, data + size + 1)
        BY ONLY <4>6, <4>8
      <4>3. /\ SubSeq(big, data, data + size - 1) = SubSeq(buf, data, data + size - 1)
            /\ SubSeq(buf, data, data + size - 1) \in Bytes
        BY ONLY <4>6, <4>9, <4>10
      <4>4. CASE SubSeq(buf, data + size, data + size + 1) # CRLF
        <5>1. v = Refused(buf, 400) /\ w = Refused(big, 400)
          BY ONLY <3>1, <3>3, <4>1, <4>2, <4>4
        <5> QED
          BY <1>11, <1>12, <5>1, RefusedStands
      <4>5. CASE SubSeq(buf, data + size, data + size + 1) = CRLF
        <5>1. Turned(big) = Turned(buf)
          BY ONLY <4>3
        <5>2. PICK t : t = Turned(buf)
          OBVIOUS
        <5>3. v = chunks[t] /\ w = more[t]
          BY ONLY <3>1, <3>3, <4>1, <4>2, <4>5, <5>1, <5>2
        <5>4. s.decoded \o SubSeq(buf, data, data + size - 1) \in Seq(Token)
          BY <1>s, <4>3, ConcatProperties DEF Bytes
        <5>6. PICK c, d : c = data + size + 2 /\ d = s.decoded \o SubSeq(buf, data, data + size - 1)
          OBVIOUS
        <5>9. c \in Nat \ {0} /\ c > p
          BY ONLY <1>5, <2>0, <5>6, p \in Nat \ {0}
        <5>7. c \in Nat \ {0} /\ c > p /\ metadata \in Nat /\ d \in Seq(Token)
          BY ONLY <1>6, <1>19, <5>4, <5>6, <5>9
        <5>8. t = [cursor |-> c, metadata |-> metadata, decoded |-> d]
          BY <5>2, <5>6
        <5>5. t \in ChunkState /\ t.cursor > s.cursor
          BY ONLY <1>1, <5>7, <5>8 DEF ChunkState
        <5> QED
          BY <1>1, <1>11, <1>12, <2>0, <5>3, <5>5
      <4> QED
        BY <4>4, <4>5
    <3> QED
      BY <3>2, <3>3
  <2> QED
    BY <2>2, <2>3, <2>4
<1> QED
  BY <1>17, <1>18, <1>19

-------------------------------------------------------------------------------
(* The loop over chunks comes to an end: each further turn begins further  *)
(* on, and none begins beyond the buffer.                                  *)

LEMMA TurnOrEnd ==
  ASSUME NEW buf \in Bytes, NEW headEnd, NEW s \in ChunkState
  PROVE  \/ \E v : \A c : TakeChunk(c, buf, headEnd, s) = v
         \/ \E t \in ChunkState :
              /\ s.cursor =< Len(buf) /\ t.cursor > s.cursor
              /\ \A c : TakeChunk(c, buf, headEnd, s) = c[t]
<1>0. Len(buf) \in Nat /\ s.cursor \in Nat \ {0} /\ s.metadata \in Nat /\ s.decoded \in Seq(Token)
  BY DEF ChunkState, Bytes
<1>1. PICK p \in Nat \ {0} : p = s.cursor
  BY <1>0
<1>2. PICK eol : eol = FirstAt(buf, CRLF, p)
  OBVIOUS
<1>3. PICK line : line = SubSeq(buf, p, eol - 1)
  OBVIOUS
<1>4. PICK metadata : metadata = s.metadata + Len(line) + 2
  OBVIOUS
<1>5. PICK size : size = ChunkSize(line)
  OBVIOUS
<1>6. PICK data : data = eol + 2
  OBVIOUS
<1>7. eol \in Nat /\ (eol # 0 => eol >= p /\ eol + 1 =< Len(buf))
  <2>1. Begins(buf, buf)
    BY <1>0 DEF Begins
  <2> QED
    BY <1>2, <2>1, SearchLine
<1>8. PICK next : next = [cursor |-> data + size + 2, metadata |-> metadata,
                          decoded |-> s.decoded \o SubSeq(buf, data, data + size - 1)]
  OBVIOUS
<1> DEFINE Stops == \/ eol = 0 \/ OverHeaderLimit(metadata) \/ ~IsSizeLine(line) \/ size = 0
                    \/ OverBodyLimit(s.decoded, size) \/ ChunkOverflows(data - 1, size)
                    \/ Len(buf) < data + size + 1
                    \/ SubSeq(buf, data + size, data + size + 1) # CRLF
           End == IF eol = 0
                  THEN IF Len(buf) - p + 1 > HeaderLimit THEN Refused(buf, 431) ELSE Incomplete(buf)
                  ELSE IF OverHeaderLimit(metadata) THEN Refused(buf, 431)
                  ELSE IF ~IsSizeLine(line) THEN Refused(buf, 400)
                  ELSE IF size = 0 THEN TakeTrailers(buf, headEnd, data, s.decoded)
                  ELSE IF OverBodyLimit(s.decoded, size) \/ ChunkOverflows(data - 1, size) THEN Refused(buf, 413)
                  ELSE IF Len(buf) < data + size + 1 THEN Incomplete(buf)
                  ELSE Refused(buf, 400)
<1>9. ASSUME NEW c PROVE TakeChunk(c, buf, headEnd, s) = IF Stops THEN End ELSE c[next]
  <2>1. TakeChunk(c, buf, headEnd, s) =
          IF eol = 0
          THEN IF Len(buf) - p + 1 > HeaderLimit THEN Refused(buf, 431) ELSE Incomplete(buf)
          ELSE IF OverHeaderLimit(metadata) THEN Refused(buf, 431)
          ELSE IF ~IsSizeLine(line) THEN Refused(buf, 400)
          ELSE IF size = 0 THEN TakeTrailers(buf, headEnd, data, s.decoded)
          ELSE IF OverBodyLimit(s.decoded, size) \/ ChunkOverflows(data - 1, size) THEN Refused(buf, 413)
          ELSE IF Len(buf) < data + size + 1 THEN Incomplete(buf)
          ELSE IF SubSeq(buf, data + size, data + size + 1) # CRLF THEN Refused(buf, 400)
          ELSE c[next]
    BY ONLY <1>1, <1>2, <1>3, <1>4, <1>5, <1>6, <1>8, ZenonT(60) DEF TakeChunk
  <2> QED
    BY ONLY <2>1
<1>10. CASE Stops
  <2>1. PICK v : v = End
    OBVIOUS
  <2>2. \A c : TakeChunk(c, buf, headEnd, s) = v
    BY <1>9, <1>10, <2>1
  <2> QED
    BY <2>2
<1>11. CASE ~Stops
  <2>1. line \in Seq(Token) /\ IsSizeLine(line) /\ eol >= p /\ eol + 1 =< Len(buf)
    <3>1. eol # 0 /\ IsSizeLine(line)
      BY <1>11
    <3>2. PICK n \in Nat : n = eol - 1 /\ n =< Len(buf)
      BY <1>0, <1>7, <3>1
    <3>3. SubSeq(buf, p, n) \in Bytes
      BY <3>2, SliceFacts
    <3> QED
      BY <1>3, <1>7, <3>1, <3>2, <3>3 DEF Bytes
  <2>2. size \in Nat
    BY <1>5, <2>1, SizeOfLine
  <2>3. Len(line) \in Nat
    BY <2>1
  <2>4. PICK k \in Nat : k = data + size - 1
    BY <1>6, <1>7, <2>2
  <2>5. data \in Nat \ {0} /\ k =< Len(buf)
    BY <1>0, <1>6, <1>7, <1>11, <2>2, <2>4
  <2>6. SubSeq(buf, data, k) \in Seq(Token)
    BY <2>5, SliceFacts DEF Bytes
  <2>7. PICK c, d : c = data + size + 2 /\ d = s.decoded \o SubSeq(buf, data, data + size - 1)
    OBVIOUS
  <2>8. d \in Seq(Token)
    BY <1>0, <2>4, <2>6, <2>7, ConcatProperties
  <2>9. c \in Nat \ {0} /\ c > p /\ metadata \in Nat /\ p =< Len(buf)
    BY <1>0, <1>4, <1>6, <1>7, <2>1, <2>2, <2>3, <2>7
  <2>10. next = [cursor |-> c, metadata |-> metadata, decoded |-> d]
    BY <1>8, <2>7
  <2>11. next \in ChunkState /\ next.cursor > s.cursor /\ s.cursor =< Len(buf)
    BY ONLY <1>1, <2>8, <2>9, <2>10 DEF ChunkState
  <2>12. \A c_1 : TakeChunk(c_1, buf, headEnd, s) = c_1[next]
    BY <1>9, <1>11
  <2> QED
    BY <2>11, <2>12
<1> QED
  BY <1>10, <1>11

\* A turn depends on the further ones only.
LEMMA TurnLooksAhead ==
  ASSUME NEW buf \in Bytes, NEW headEnd, NEW s \in ChunkState, NEW f, NEW g,
         \A t \in ChunkState : s.cursor =< Len(buf) /\ t.cursor > s.cursor => f[t] = g[t]
  PROVE  TakeChunk(f, buf, headEnd, s) = TakeChunk(g, buf, headEnd, s)
<1>1. CASE \E v : \A c : TakeChunk(c, buf, headEnd, s) = v
  BY <1>1
<1>2. CASE \E t \in ChunkState :
              /\ s.cursor =< Len(buf) /\ t.cursor > s.cursor
              /\ \A c : TakeChunk(c, buf, headEnd, s) = c[t]
  BY <1>2
<1> QED
  BY <1>1, <1>2, TurnOrEnd

\* The last n positions of the buffer, and what is beyond it.
Late(buf, n) == {s \in ChunkState : s.cursor + n > Len(buf)}

LEMMA LoopFromLate ==
  ASSUME NEW buf \in Bytes, NEW headEnd, NEW n \in Nat
  PROVE  \E f : \A s \in Late(buf, n) : f[s] = TakeChunk(f, buf, headEnd, s)
<1> DEFINE Loop(f, k) == \A s \in Late(buf, k) : f[s] = TakeChunk(f, buf, headEnd, s)
           T == {k \in Nat : ~\E f : Loop(f, k)}
<1> SUFFICES ASSUME T # {} PROVE FALSE
  OBVIOUS
<1>0. Len(buf) \in Nat
  BY DEF Bytes
<1>1. PICK k \in T : \A j \in T : ~(j < k)
  <2>1. T \subseteq Nat
    OBVIOUS
  <2> HIDE DEF T
  <2> QED
    BY <2>1, SmallestNumber
\* One turn more, by the function known for the later states.
<1>2. PICK g : k = 0 \/ Loop(g, k - 1)
  BY <1>1
<1>3. PICK f : f = [s \in ChunkState |-> TakeChunk(g, buf, headEnd, s)]
  OBVIOUS
<1>4. ASSUME NEW s \in Late(buf, k) PROVE f[s] = TakeChunk(f, buf, headEnd, s)
  <2>1. s \in ChunkState /\ s.cursor + k > Len(buf) /\ s.cursor \in Nat
    BY DEF Late, ChunkState
  <2>2. ASSUME NEW t \in ChunkState, s.cursor =< Len(buf), t.cursor > s.cursor PROVE g[t] = f[t]
    <3>1. t.cursor \in Nat
      BY DEF ChunkState
    <3>4. k \in Nat
      BY <1>1
    <3>5. k # 0 /\ t.cursor + (k - 1) > Len(buf)
      BY ONLY <1>0, <2>1, <2>2, <3>1, <3>4
    <3>2. k # 0 /\ t \in Late(buf, k - 1)
      BY ONLY <3>5, t \in ChunkState DEF Late
    <3>3. g[t] = TakeChunk(g, buf, headEnd, t)
      BY <1>2, <3>2
    <3> QED
      BY <1>3, <3>3
  <2>3. TakeChunk(g, buf, headEnd, s) = TakeChunk(f, buf, headEnd, s)
    BY <2>1, <2>2, TurnLooksAhead
  <2> QED
    BY <1>3, <2>1, <2>3
<1> QED
  BY <1>1, <1>4

\* take_framed_request's loop is a function of its variables.
LEMMA ChunksTurn ==
  ASSUME NEW buf \in Bytes, NEW headEnd \in Nat
  PROVE  \E f : /\ \A s \in ChunkState : f[s] = TakeChunk(f, buf, headEnd, s)
                /\ TakeChunked(buf, headEnd) = f[[cursor |-> headEnd + 1, metadata |-> 0, decoded |-> <<>>]]
<1> DEFINE Def(f) == f = [s \in ChunkState |-> TakeChunk(f, buf, headEnd, s)]
<1>1. \E f : Def(f)
  <2>0. Len(buf) \in Nat
    BY DEF Bytes
  <2>1. PICK g : \A s \in Late(buf, Len(buf)) : g[s] = TakeChunk(g, buf, headEnd, s)
    BY <2>0, LoopFromLate
  <2>2. \A s \in ChunkState : s \in Late(buf, Len(buf))
    BY <2>0 DEF Late, ChunkState
  <2>3. PICK f : f = [s \in ChunkState |-> g[s]]
    OBVIOUS
  <2>4. ASSUME NEW s \in ChunkState PROVE f[s] = TakeChunk(f, buf, headEnd, s)
    <3>1. \A t \in ChunkState : g[t] = f[t]
      BY <2>3
    <3>2. TakeChunk(g, buf, headEnd, s) = TakeChunk(f, buf, headEnd, s)
      BY <3>1, TurnLooksAhead
    <3> QED
      BY <2>1, <2>2, <3>1, <3>2
  <2>5. f = [s \in ChunkState |-> f[s]]
    BY <2>3
  <2> QED
    BY <2>4, <2>5
<1>2. PICK f : f = CHOOSE g : Def(g)
  OBVIOUS
<1>3. TakeChunked(buf, headEnd) = f[[cursor |-> headEnd + 1, metadata |-> 0, decoded |-> <<>>]]
  BY <1>2 DEF TakeChunked
<1>4. Def(f)
  BY <1>1, <1>2
<1>5. \A s \in ChunkState : f[s] = TakeChunk(f, buf, headEnd, s)
  BY <1>4
<1> QED
  BY <1>3, <1>5

LEMMA ChunkedStands ==
  ASSUME NEW buf, NEW big, Begins(buf, big), NEW headEnd \in Nat, headEnd =< Len(buf)
  PROVE  Stands(TakeChunked(buf, headEnd), TakeChunked(big, headEnd), buf, big)
<1>0. buf \in Bytes /\ big \in Bytes /\ Len(buf) \in Nat
  BY DEF Begins, Bytes
<1> DEFINE start == [cursor |-> headEnd + 1, metadata |-> 0, decoded |-> <<>>]
<1>1. PICK f : /\ \A s \in ChunkState : f[s] = TakeChunk(f, buf, headEnd, s)
               /\ TakeChunked(buf, headEnd) = f[start]
  BY <1>0, ChunksTurn
<1>2. PICK g : /\ \A s \in ChunkState : g[s] = TakeChunk(g, big, headEnd, s)
               /\ TakeChunked(big, headEnd) = g[start]
  BY <1>0, ChunksTurn
<1>3. start \in ChunkState
  BY EmptySeq DEF ChunkState
<1> HIDE DEF start
<1> DEFINE T == {n \in Nat : \E s \in Late(buf, n) : ~Stands(f[s], g[s], buf, big)}
<1>4. T = {}
  <2> SUFFICES ASSUME T # {} PROVE FALSE
    OBVIOUS
  <2>1. PICK n \in T : \A k \in T : ~(k < n)
    <3>1. T \subseteq Nat
      OBVIOUS
    <3> HIDE DEF T
    <3> QED
      BY <3>1, SmallestNumber
  <2>2. PICK s \in Late(buf, n) : ~Stands(f[s], g[s], buf, big)
    BY <2>1
  <2>3. s \in ChunkState /\ s.cursor \in Nat /\ s.cursor + n > Len(buf)
    BY DEF Late, ChunkState
  <2>4. ASSUME NEW t \in ChunkState, s.cursor =< Len(buf), t.cursor > s.cursor
        PROVE  Stands(f[t], g[t], buf, big)
    <3>1. t.cursor \in Nat
      BY DEF ChunkState
    <3>2. n - 1 \in Nat /\ t \in Late(buf, n - 1)
      BY <1>0, <2>3, <2>4, <3>1 DEF Late
    <3>3. n - 1 \notin T
      BY <2>1, <3>2
    <3> QED
      BY <3>2, <3>3
  <2>5. Stands(TakeChunk(f, buf, headEnd, s), TakeChunk(g, big, headEnd, s), buf, big)
    BY <2>3, <2>4, ChunkStands
  <2> QED
    BY <1>1, <1>2, <2>2, <2>3, <2>5
<1>5. start \in Late(buf, Len(buf))
  BY <1>0, <1>3 DEF Late, ChunkState
<1>6. Stands(f[start], g[start], buf, big)
  BY <1>0, <1>4, <1>5
<1> QED
  BY <1>1, <1>2, <1>6

-------------------------------------------------------------------------------
(* The other kinds of bodies, and the request as a whole.                  *)

LEMMA LengthIsNumber ==
  ASSUME NEW head \in Bytes, ExtractBodyHeaders(head).kind = "length"
  PROVE  ExtractBodyHeaders(head).n \in Nat
<1> DEFINE headers == LineStarts(head) \ {1}
           lengths == {p \in headers : head[p].t \in LengthNames}
           codings == {p \in headers : head[p].t \in CodingNames}
<1>1. lengths \subseteq 3..Len(head)
  BY DEF LineStarts
<1>2. lengths # {} /\ ExtractBodyHeaders(head) = Framing("length", head[CHOOSE p \in lengths : TRUE].n)
  <2>1. PICK v : v = ExtractBodyHeaders(head)
    OBVIOUS
  <2>2. \/ \E n : v = Framing("error", n)
        \/ v = Framing("chunked", 0)
        \/ v = Framing("none", 0)
        \/ lengths # {} /\ v = Framing("length", head[CHOOSE p \in lengths : TRUE].n)
    BY ONLY <2>1, ZenonT(60) DEF ExtractBodyHeaders
  <2>3. v.kind = "length"
    BY <2>1
  <2> HIDE DEF lengths
  <2>4. \A kind, n : Framing(kind, n).kind = kind
    BY DEF Framing
  <2> QED
    BY <2>1, <2>2, <2>3, <2>4
<1>3. PICK p \in lengths : p = CHOOSE q \in lengths : TRUE
  BY <1>2
<1>4. head[p] \in Token
  <2>1. p \in 1..Len(head)
    BY <1>1
  <2> QED
    BY <2>1 DEF Bytes
<1>5. ExtractBodyHeaders(head) = Framing("length", head[p].n)
  BY <1>2, <1>3
<1> QED
  BY <1>4, <1>5 DEF Framing, Token

LEMMA LengthStands ==
  ASSUME NEW buf, NEW big, Begins(buf, big), NEW headEnd \in Nat, headEnd =< Len(buf), NEW n \in Nat
  PROVE  Stands(TakeLength(buf, headEnd, n), TakeLength(big, headEnd, n), buf, big)
<1>0. Len(buf) \in Nat /\ Len(big) \in Nat /\ Len(buf) =< Len(big) /\ UsizeMax \in Nat /\ BodyLimit \in Nat
  BY FramingAssumption DEF Begins, Bytes
<1>1. CASE n > BodyLimit \/ headEnd + n > UsizeMax
  BY <1>1, RefusedStands DEF TakeLength
<1>2. CASE ~(n > BodyLimit \/ headEnd + n > UsizeMax) /\ Len(buf) < headEnd + n
  BY <1>2, IncompleteStands DEF TakeLength
<1>3. CASE ~(n > BodyLimit \/ headEnd + n > UsizeMax) /\ ~(Len(buf) < headEnd + n)
  <2>1. PICK e \in Nat : e = headEnd + n
    OBVIOUS
  <2>2. e =< Len(buf) /\ ~(Len(big) < headEnd + n)
    BY <1>0, <1>3, <2>1
  <2>3. SubSeq(big, 1, e) = SubSeq(buf, 1, e)
    BY <2>2, SameSlice
  <2>4. TakeLength(buf, headEnd, n) = Taken(buf, SubSeq(buf, 1, e), e)
    BY ONLY <1>3, <2>1 DEF TakeLength
  <2>5. TakeLength(big, headEnd, n) = Taken(big, SubSeq(big, 1, e), e)
    BY ONLY <1>3, <2>1, <2>2 DEF TakeLength
  <2>6. e \in 0..Len(buf)
    BY <1>0, <2>1, <2>2
  <2> QED
    BY <2>3, <2>4, <2>5, <2>6, TakenStands
<1> QED
  BY <1>1, <1>2, <1>3

\* As long as no pause is taken for its end.
LEMMA UnframedStands ==
  ASSUME NEW buf, NEW big, Begins(buf, big), NEW headEnd \in Nat, NEW idleEnd
  PROVE  Stands(TakeUnframed(buf, headEnd, FALSE), TakeUnframed(big, headEnd, idleEnd), buf, big)
<1>0. Len(buf) \in Nat /\ Len(big) \in Nat /\ Len(buf) =< Len(big) /\ BodyLimit \in Nat
  BY FramingAssumption DEF Begins, Bytes
<1>1. CASE Len(buf) - headEnd > BodyLimit
  <2>1. Len(big) - headEnd > BodyLimit
    BY <1>0, <1>1
  <2> QED
    BY <1>1, <2>1, RefusedStands DEF TakeUnframed
<1>2. CASE ~(Len(buf) - headEnd > BodyLimit)
  BY <1>2, IncompleteStands DEF TakeUnframed
<1> QED
  BY <1>1, <1>2

\* take_framed_request may be asked as often as bytes arrive: once a beginning of
\* what the client sends holds a request, or is refused, the same is true of all
\* of it, at a pause or not; however the bytes were cut into reads, the requests
\* and the refusals are the same.
THEOREM ReadsDoNotMatter ==
  ASSUME NEW buf, NEW big, Begins(buf, big), NEW idleEnd
  PROVE  Stands(TakeFramedRequest(buf, FALSE), TakeFramedRequest(big, idleEnd), buf, big)
<1>0. Len(buf) \in Nat /\ Len(big) \in Nat /\ Len(buf) =< Len(big) /\ buf \in Bytes /\ big \in Bytes
  BY DEF Begins, Bytes
<1>h. HeaderLimit \in Nat
  BY FramingAssumption
<1>1. PICK sep, bigSep : sep = FirstAt(buf, CRLF \o CRLF, 1) /\ bigSep = FirstAt(big, CRLF \o CRLF, 1)
  OBVIOUS
<1>2. /\ sep \in Nat /\ bigSep \in Nat
      /\ sep # 0 => bigSep = sep /\ sep >= 1 /\ sep + 3 =< Len(buf)
      /\ sep = 0 /\ bigSep # 0 => bigSep >= 1 /\ bigSep + 3 > Len(buf) /\ bigSep + 3 =< Len(big)
  BY <1>1, SearchSeparator
<1>3. PICK v : v = TakeFramedRequest(buf, FALSE)
  OBVIOUS
<1>4. PICK w : w = TakeFramedRequest(big, idleEnd)
  OBVIOUS
<1>5. CASE sep = 0
  <2>1. v = IF Len(buf) > HeaderLimit THEN Refused(buf, 431) ELSE Incomplete(buf)
    BY ONLY <1>1, <1>3, <1>5, ZenonT(60) DEF TakeFramedRequest
  <2>2. CASE Len(buf) > HeaderLimit
    <3>1. CASE bigSep = 0
      <4>1. w = IF Len(big) > HeaderLimit THEN Refused(big, 431) ELSE Incomplete(big)
        BY ONLY <1>1, <1>4, <3>1, ZenonT(60) DEF TakeFramedRequest
      <4>2. w = Refused(big, 431)
        BY <1>0, <1>h, <2>2, <4>1
      <4> QED
        BY <1>3, <1>4, <2>1, <2>2, <4>2, RefusedStands, ZenonT(60)
    <3>2. CASE bigSep # 0
      <4>1. bigSep + 3 > HeaderLimit
        BY <1>0, <1>h, <1>2, <1>5, <2>2, <3>2
      <4>2. w = Refused(big, 431)
        BY ONLY <1>1, <1>4, <3>2, <4>1, ZenonT(60) DEF TakeFramedRequest
      <4> QED
        BY <1>3, <1>4, <2>1, <2>2, <4>2, RefusedStands, ZenonT(60)
    <3> QED
      BY <3>1, <3>2
  <2>3. CASE ~(Len(buf) > HeaderLimit)
    BY <1>3, <1>4, <2>1, <2>3, IncompleteStands
  <2> QED
    BY <2>2, <2>3
<1>6. CASE sep # 0
  <2>1. PICK headEnd \in Nat : headEnd = sep + 3
    BY <1>2
  <2>2. PICK head : head = SubSeq(buf, 1, sep - 1)
    OBVIOUS
  <2>3. headEnd =< Len(buf) /\ bigSep = sep
    BY <1>2, <1>6, <2>1
  <2>4. head = SubSeq(big, 1, sep - 1) /\ head \in Bytes
    <3>1. PICK n \in Nat : n = sep - 1 /\ n =< Len(buf)
      BY <1>0, <1>2, <1>6
    <3>4. n =< Len(buf)
      BY <3>1
    <3>2. SubSeq(big, 1, n) = SubSeq(buf, 1, n)
      BY <3>4, SameSlice
    <3>3. SubSeq(buf, 1, n) \in Bytes
      BY <1>0, <3>4, SliceFacts
    <3> QED
      BY <2>2, <3>1, <3>2, <3>3
  <2>5. PICK framing : framing = ExtractBodyHeaders(head)
    OBVIOUS
  <2> DEFINE Verdict(b, idle) ==
        IF headEnd > HeaderLimit THEN Refused(b, 431)
        ELSE IF ~IsText(head) THEN Refused(b, 400)
        ELSE CASE framing.kind = "error" -> Refused(b, framing.n)
               [] framing.kind = "length" -> TakeLength(b, headEnd, framing.n)
               [] framing.kind = "chunked" -> TakeChunked(b, headEnd)
               [] OTHER -> IF HasUnframedBody(head)
                           THEN TakeUnframed(b, headEnd, idle)
                           ELSE Taken(b, SubSeq(b, 1, headEnd), headEnd)
  <2>6. v = Verdict(buf, FALSE)
    BY ONLY <1>1, <1>3, <1>6, <2>1, <2>2, <2>5, ZenonT(60) DEF TakeFramedRequest
  <2>7. w = Verdict(big, idleEnd)
    <3>1. sep = FirstAt(big, CRLF \o CRLF, 1) /\ head = SubSeq(big, 1, sep - 1)
      BY <1>1, <2>3, <2>4
    <3> QED
      BY ONLY <1>4, <1>6, <2>1, <2>5, <3>1, ZenonT(60) DEF TakeFramedRequest
  <2>8. CASE headEnd > HeaderLimit \/ ~IsText(head)
    <3>1. CASE headEnd > HeaderLimit
      <4>1. v = Refused(buf, 431) /\ w = Refused(big, 431)
        BY ONLY <2>6, <2>7, <3>1
      <4> QED
        BY <1>3, <1>4, <4>1, RefusedStands, ZenonT(60)
    <3>2. CASE ~(headEnd > HeaderLimit) /\ ~IsText(head)
      <4>1. v = Refused(buf, 400) /\ w = Refused(big, 400)
        BY ONLY <2>6, <2>7, <3>2
      <4> QED
        BY <1>3, <1>4, <4>1, RefusedStands, ZenonT(60)
    <3> QED
      BY <2>8, <3>1, <3>2
  <2>9. CASE ~(headEnd > HeaderLimit \/ ~IsText(head))
    <3>1. CASE framing.kind = "error"
      <4>1. v = Refused(buf, framing.n) /\ w = Refused(big, framing.n)
        BY ONLY <2>6, <2>7, <2>9, <3>1
      <4> QED
        BY <1>3, <1>4, <4>1, RefusedStands
    <3>2. CASE framing.kind = "length"
      <4>1. v = TakeLength(buf, headEnd, framing.n) /\ w = TakeLength(big, headEnd, framing.n)
        BY ONLY <2>6, <2>7, <2>9, <3>2
      <4>2. framing.n \in Nat
        BY <2>4, <2>5, <3>2, LengthIsNumber
      <4> QED
        BY <1>3, <1>4, <2>3, <4>1, <4>2, LengthStands
    <3>3. CASE framing.kind = "chunked"
      <4>1. v = TakeChunked(buf, headEnd) /\ w = TakeChunked(big, headEnd)
        BY ONLY <2>6, <2>7, <2>9, <3>3
      <4> QED
        BY <1>3, <1>4, <2>3, <4>1, ChunkedStands
    <3>4. CASE framing.kind \notin {"error", "length", "chunked"} /\ HasUnframedBody(head)
      <4>1. v = TakeUnframed(buf, headEnd, FALSE) /\ w = TakeUnframed(big, headEnd, idleEnd)
        BY ONLY <2>6, <2>7, <2>9, <3>4
      <4> QED
        BY <1>3, <1>4, <4>1, UnframedStands
    <3>5. CASE framing.kind \notin {"error", "length", "chunked"} /\ ~HasUnframedBody(head)
      <4>1. v = Taken(buf, SubSeq(buf, 1, headEnd), headEnd) /\ w = Taken(big, SubSeq(big, 1, headEnd), headEnd)
        BY ONLY <2>6, <2>7, <2>9, <3>5
      <4>2. SubSeq(big, 1, headEnd) = SubSeq(buf, 1, headEnd)
        BY <2>3, SameSlice
      <4>3. headEnd \in 0..Len(buf)
        BY <1>0, <2>3
      <4> QED
        BY <1>3, <1>4, <4>1, <4>2, <4>3, TakenStands
    <3> QED
      BY <3>1, <3>2, <3>3, <3>4, <3>5
  <2> QED
    BY <2>8, <2>9
<1> QED
  BY <1>5, <1>6

-------------------------------------------------------------------------------
(* Slices: (lo, hi] is the bytes after the first lo, up to hi.             *)

LEMMA PieceFacts ==
  ASSUME NEW w \in Bytes, NEW lo \in Nat, NEW hi \in Nat, lo =< hi, hi =< Len(w)
  PROVE  /\ SubSeq(w, lo + 1, hi) \in Bytes
         /\ Len(SubSeq(w, lo + 1, hi)) = hi - lo
         /\ \A i \in 1..(hi - lo) : SubSeq(w, lo + 1, hi)[i] = w[lo + i]
<1>1. lo + 1 \in Nat \ {0}
  OBVIOUS
<1>2. SubSeq(w, lo + 1, hi) \in Bytes
  BY <1>1, SliceFacts
<1>3. Len(SubSeq(w, lo + 1, hi)) = IF lo + 1 =< hi THEN hi - (lo + 1) + 1 ELSE 0
  BY <1>1, SliceFacts
<1>4. \A i \in 1..(hi - (lo + 1) + 1) : SubSeq(w, lo + 1, hi)[i] = w[lo + 1 + i - 1]
  BY <1>1, SliceFacts
<1>5. \A i \in 1..(hi - lo) : SubSeq(w, lo + 1, hi)[i] = w[lo + i]
  <2> SUFFICES ASSUME NEW i \in 1..(hi - lo) PROVE SubSeq(w, lo + 1, hi)[i] = w[lo + i]
    OBVIOUS
  <2>1. i \in 1..(hi - (lo + 1) + 1) /\ lo + 1 + i - 1 = lo + i
    OBVIOUS
  <2> QED
    BY <1>4, <2>1
<1> QED
  BY <1>2, <1>3, <1>5

\* A piece of a piece, and two pieces side by side.
LEMMA PieceOfPiece ==
  ASSUME NEW w \in Bytes, NEW lo \in Nat, NEW hi \in Nat, lo =< hi, hi =< Len(w),
         NEW m \in Nat, NEW n \in Nat, m =< n, n =< hi - lo
  PROVE  SubSeq(SubSeq(w, lo + 1, hi), m + 1, n) = SubSeq(w, lo + m + 1, lo + n)
<1>1. PICK p : p = SubSeq(w, lo + 1, hi)
  OBVIOUS
<1>2. p \in Bytes /\ Len(p) = hi - lo /\ \A i \in 1..(hi - lo) : p[i] = w[lo + i]
  BY <1>1, PieceFacts
<1>3. n =< Len(p)
  BY <1>2
<1>4. /\ SubSeq(p, m + 1, n) \in Bytes /\ Len(SubSeq(p, m + 1, n)) = n - m
      /\ \A i \in 1..(n - m) : SubSeq(p, m + 1, n)[i] = p[m + i]
  BY <1>2, <1>3, PieceFacts
<1>5. PICK a \in Nat, b \in Nat : a = lo + m /\ b = lo + n
  OBVIOUS
<1>6. a =< b /\ b =< Len(w)
  BY <1>5, w \in Seq(Token) DEF Bytes
<1>7. /\ SubSeq(w, a + 1, b) \in Bytes /\ Len(SubSeq(w, a + 1, b)) = b - a
      /\ \A i \in 1..(b - a) : SubSeq(w, a + 1, b)[i] = w[a + i]
  BY <1>6, PieceFacts
<1>8. Len(SubSeq(p, m + 1, n)) = Len(SubSeq(w, a + 1, b))
  BY <1>4, <1>5, <1>7
<1>9. ASSUME NEW i \in 1..Len(SubSeq(p, m + 1, n)) PROVE SubSeq(p, m + 1, n)[i] = SubSeq(w, a + 1, b)[i]
  <2>1. i \in 1..(n - m) /\ i \in 1..(b - a) /\ m + i \in 1..(hi - lo) /\ lo + (m + i) = a + i
    BY <1>4, <1>5
  <2> QED
    BY <1>2, <1>4, <1>7, <2>1
<1>10. SubSeq(p, m + 1, n) = SubSeq(w, a + 1, b)
  BY <1>4, <1>7, <1>8, <1>9, SeqEqual DEF Bytes
<1> QED
  BY <1>1, <1>5, <1>10

LEMMA PiecesJoin ==
  ASSUME NEW w \in Bytes, NEW lo \in Nat, NEW mid \in Nat, NEW hi \in Nat,
         lo =< mid, mid =< hi, hi =< Len(w)
  PROVE  SubSeq(w, lo + 1, mid) \o SubSeq(w, mid + 1, hi) = SubSeq(w, lo + 1, hi)
<1>1. w \in Seq(Token) /\ Len(w) \in Nat
  BY DEF Bytes
<1>2. lo + 1 \in 1..(Len(w) + 1) /\ mid \in (lo + 1 - 1)..Len(w) /\ hi \in mid..Len(w)
  BY <1>1
<1> QED
  BY <1>1, <1>2, ConcatAdjacentSubSeq

LEMMA PieceBegins ==
  ASSUME NEW w \in Bytes, NEW lo \in Nat, NEW mid \in Nat, NEW hi \in Nat,
         lo =< mid, mid =< hi, hi =< Len(w)
  PROVE  Begins(SubSeq(w, lo + 1, mid), SubSeq(w, lo + 1, hi))
<1>1. mid =< Len(w) /\ lo =< hi
  BY DEF Bytes
<1>2. PICK p : p = SubSeq(w, lo + 1, mid)
  OBVIOUS
<1>3. PICK q : q = SubSeq(w, lo + 1, hi)
  OBVIOUS
<1>4. p \in Bytes /\ Len(p) = mid - lo /\ \A i \in 1..(mid - lo) : p[i] = w[lo + i]
  BY <1>1, <1>2, PieceFacts
<1>5. q \in Bytes /\ Len(q) = hi - lo /\ \A i \in 1..(hi - lo) : q[i] = w[lo + i]
  BY <1>1, <1>3, PieceFacts
<1>6. Begins(p, q)
  BY <1>4, <1>5 DEF Begins
<1> QED
  BY <1>2, <1>3, <1>6

LEMMA BeginsIsBeginning ==
  ASSUME NEW b, NEW big, Begins(b, big)
  PROVE  b \in Beginnings(big)
<1>1. b \in Bytes /\ big \in Bytes /\ Len(b) \in Nat /\ Len(big) \in Nat /\ Len(b) =< Len(big)
  BY DEF Begins, Bytes
<1>2. SubSeq(big, 1, Len(b)) = SubSeq(b, 1, Len(b))
  BY <1>1, SameSlice
<1>3. SubSeq(b, 1, Len(b)) = b
  BY <1>1, SubSeqFull DEF Bytes
<1>4. Len(b) \in 0..Len(big) /\ b = SubSeq(big, 1, Len(b))
  BY <1>1, <1>2, <1>3
<1> QED
  BY ONLY <1>4 DEF Beginnings

-------------------------------------------------------------------------------
(* What the limits are for: a request handed on is within them, and so are *)
(* the bytes kept of one that is incomplete.                               *)

\* Bad Request, Payload Too Large, Request Header Fields Too Large, Not Implemented.
Statuses == {400, 413, 431, 501}

Bounded(v, buf, headEnd) ==
  /\ v.verdict = "ready" =>
       /\ v.raw \in Bytes /\ v.rest \in Bytes
       /\ Begins(SubSeq(buf, 1, headEnd), v.raw) /\ Len(v.raw) - headEnd =< BodyLimit
  /\ v.verdict = "incomplete" => Len(buf) =< MemoryLimit
  /\ v.verdict = "error" => v.status \in Statuses

LEMMA RefusedBounded ==
  ASSUME NEW buf, NEW status \in Statuses, NEW headEnd
  PROVE  Bounded(Refused(buf, status), buf, headEnd)
  BY DEF Bounded, Refused

LEMMA IncompleteBounded ==
  ASSUME NEW buf, NEW headEnd, Len(buf) =< MemoryLimit
  PROVE  Bounded(Incomplete(buf), buf, headEnd)
  BY DEF Bounded, Incomplete

LEMMA TakenBounded ==
  ASSUME NEW buf \in Bytes, NEW headEnd \in Nat, NEW raw, NEW used \in Nat,
         Begins(SubSeq(buf, 1, headEnd), raw), Len(raw) - headEnd =< BodyLimit, used =< Len(buf)
  PROVE  Bounded(Taken(buf, raw, used), buf, headEnd)
<1>1. Len(buf) \in Nat /\ Len(buf) =< Len(buf)
  BY DEF Bytes
<1>2. SubSeq(buf, used + 1, Len(buf)) \in Bytes
  BY <1>1, PieceFacts
<1>3. raw \in Bytes
  BY DEF Begins
<1> QED
  BY <1>2, <1>3 DEF Bounded, Taken

\* A number of chunks, of which each has a line of three bytes.
LEMMA Thirds ==
  ASSUME NEW c \in Nat, NEW m \in Nat, 3 * c =< m, m =< HeaderLimit
  PROVE  c =< HeaderLimit \div 3
  BY FramingAssumption

\* The bytes before a position of the loop over chunks: the head, the chunk
\* lines, the data and its line breaks.
Accounted(s, headEnd) ==
  /\ s.metadata =< HeaderLimit /\ Len(s.decoded) =< BodyLimit
  /\ \E c \in Nat :
       3 * c =< s.metadata /\ s.cursor = headEnd + 1 + s.metadata + Len(s.decoded) + 2 * c

LEMMA HeadBegins ==
  ASSUME NEW buf \in Bytes, NEW headEnd \in Nat, headEnd =< Len(buf), NEW decoded \in Bytes
  PROVE  /\ Begins(SubSeq(buf, 1, headEnd), SubSeq(buf, 1, headEnd) \o decoded)
         /\ Len(SubSeq(buf, 1, headEnd) \o decoded) - headEnd = Len(decoded)
<1>1. PICK pre : pre = SubSeq(buf, 1, headEnd)
  OBVIOUS
<1>2. pre \in Bytes /\ Len(pre) = headEnd
  <2>1. Len(SubSeq(buf, 0 + 1, headEnd)) = headEnd - 0 /\ SubSeq(buf, 0 + 1, headEnd) \in Bytes
    <3>1. 0 \in Nat /\ 0 =< headEnd
      OBVIOUS
    <3>2. Len(SubSeq(buf, 0 + 1, headEnd)) = headEnd - 0
      BY <3>1, PieceFacts
    <3>3. SubSeq(buf, 0 + 1, headEnd) \in Bytes
      BY <3>1, PieceFacts
    <3> QED
      BY <3>2, <3>3
  <2>2. 0 + 1 = 1 /\ headEnd - 0 = headEnd
    OBVIOUS
  <2> QED
    BY <1>1, <2>1, <2>2
<1>3. PICK n \in Nat : n = Len(decoded)
  BY DEF Bytes
<1>4. PICK raw : raw = pre \o decoded
  OBVIOUS
<1>5. /\ raw \in Bytes /\ Len(raw) = headEnd + n
      /\ \A i \in 1..(headEnd + n) : raw[i] = IF i =< headEnd THEN pre[i] ELSE decoded[i - headEnd]
  BY <1>2, <1>3, <1>4, ConcatProperties DEF Bytes
<1>6. Begins(pre, raw)
  BY <1>2, <1>5 DEF Begins
<1> QED
  BY <1>1, <1>3, <1>4, <1>5, <1>6

LEMMA TrailersBounded ==
  ASSUME NEW buf \in Bytes, NEW headEnd \in Nat, headEnd =< Len(buf), headEnd =< HeaderLimit, headEnd # 0,
         NEW p \in Nat \ {0}, p - 1 + HeaderLimit =< MemoryLimit,
         NEW decoded \in Bytes, Len(decoded) =< BodyLimit
  PROVE  Bounded(TakeTrailers(buf, headEnd, p, decoded), buf, headEnd)
<1>0. Len(buf) \in Nat /\ HeaderLimit \in Nat
  BY FramingAssumption DEF Bytes
<1>1. PICK end : end = FirstAt(buf, CRLF \o CRLF, p)
  OBVIOUS
<1>2. PICK trailer : trailer = SubSeq(buf, p, end - 1)
  OBVIOUS
<1>3. PICK raw : raw = SubSeq(buf, 1, headEnd) \o decoded
  OBVIOUS
<1>4. end \in Nat /\ (end # 0 => end + 3 =< Len(buf))
  <2>1. Begins(buf, buf)
    BY <1>0 DEF Begins
  <2> QED
    BY <1>1, <2>1, SearchSeparator
<1>5. Begins(SubSeq(buf, 1, headEnd), raw) /\ Len(raw) - headEnd =< BodyLimit
  BY <1>3, HeadBegins
<1>6. PICK v : v = TakeTrailers(buf, headEnd, p, decoded)
  OBVIOUS
<1>7. v = IF Len(buf) < p + 1 THEN Incomplete(buf)
          ELSE IF SubSeq(buf, p, p + 1) = CRLF THEN Taken(buf, raw, p + 1)
          ELSE IF end = 0
          THEN IF Len(buf) - p + 1 > HeaderLimit THEN Refused(buf, 431) ELSE Incomplete(buf)
          ELSE IF Len(trailer) + 4 > HeaderLimit THEN Refused(buf, 431)
          ELSE IF ~IsText(trailer) \/ \E q \in LineStarts(trailer) : ~HasColon(LineAt(trailer, q))
          THEN Refused(buf, 400)
          ELSE Taken(buf, raw, end + 3)
  BY ONLY <1>1, <1>2, <1>3, <1>6, ZenonT(60) DEF TakeTrailers
<1>8. \/ v = Incomplete(buf) /\ Len(buf) - p + 1 =< HeaderLimit
      \/ v = Refused(buf, 431) \/ v = Refused(buf, 400)
      \/ v = Taken(buf, raw, p + 1) /\ ~(Len(buf) < p + 1)
      \/ v = Taken(buf, raw, end + 3) /\ end # 0
  <2>1. CASE Len(buf) < p + 1
    <3>1. Len(buf) - p + 1 =< HeaderLimit
      BY <1>0, <2>1
    <3> QED
      BY ONLY <1>7, <2>1, <3>1
  <2>2. CASE ~(Len(buf) < p + 1) /\ end = 0
    <3>1. Len(buf) - p + 1 > HeaderLimit \/ Len(buf) - p + 1 =< HeaderLimit
      BY <1>0
    <3> QED
      BY ONLY <1>7, <2>2, <3>1
  <2>3. CASE ~(Len(buf) < p + 1) /\ end # 0
    BY ONLY <1>7, <2>3
  <2> QED
    BY <2>1, <2>2, <2>3
<1>9. CASE v = Incomplete(buf) /\ Len(buf) - p + 1 =< HeaderLimit
  <2>1. MemoryLimit \in Nat
    BY FramingAssumption DEF MemoryLimit
  <2>2. Len(buf) =< MemoryLimit
    BY <1>0, <1>9, <2>1
  <2> QED
    BY <1>6, <1>9, <2>2, IncompleteBounded
<1>10. CASE v = Refused(buf, 431) \/ v = Refused(buf, 400)
  BY <1>6, <1>10, RefusedBounded DEF Statuses
<1>11. CASE v = Taken(buf, raw, p + 1) /\ ~(Len(buf) < p + 1)
  <2>1. p + 1 \in Nat /\ p + 1 =< Len(buf)
    BY <1>0, <1>11
  <2> QED
    BY <1>5, <1>6, <1>11, <2>1, TakenBounded
<1>12. CASE v = Taken(buf, raw, end + 3) /\ end # 0
  <2>1. end + 3 \in Nat /\ end + 3 =< Len(buf)
    BY <1>4, <1>12
  <2> QED
    BY <1>5, <1>6, <1>12, <2>1, TakenBounded
<1> QED
  BY <1>8, <1>9, <1>10, <1>11, <1>12

LEMMA ChunkBounded ==
  ASSUME NEW buf \in Bytes, NEW headEnd \in Nat, headEnd =< Len(buf), headEnd =< HeaderLimit, headEnd # 0,
         NEW s \in ChunkState, Accounted(s, headEnd), NEW chunks,
         \A t \in ChunkState : s.cursor =< Len(buf) /\ t.cursor > s.cursor /\ Accounted(t, headEnd) =>
           Bounded(chunks[t], buf, headEnd)
  PROVE  Bounded(TakeChunk(chunks, buf, headEnd, s), buf, headEnd)
<1>0. Len(buf) \in Nat /\ s.cursor \in Nat \ {0} /\ s.metadata \in Nat /\ s.decoded \in Bytes
  BY DEF ChunkState, Bytes
<1>h. HeaderLimit \in Nat /\ BodyLimit \in Nat /\ UsizeMax \in Nat /\ BodyLimit =< UsizeMax /\ MemoryLimit \in Nat
  BY FramingAssumption DEF MemoryLimit
<1>1. PICK p \in Nat \ {0} : p = s.cursor
  BY <1>0
<1>2. PICK eol : eol = FirstAt(buf, CRLF, p)
  OBVIOUS
<1>3. PICK line : line = SubSeq(buf, p, eol - 1)
  OBVIOUS
<1>4. PICK metadata : metadata = s.metadata + Len(line) + 2
  OBVIOUS
<1>5. PICK size : size = ChunkSize(line)
  OBVIOUS
<1>6. PICK data : data = eol + 2
  OBVIOUS
<1>7. eol \in Nat /\ (eol # 0 => eol >= p /\ eol + 1 =< Len(buf))
  <2>1. Begins(buf, buf)
    BY <1>0 DEF Begins
  <2> QED
    BY <1>2, <2>1, SearchLine
<1>8. PICK next : next = [cursor |-> data + size + 2, metadata |-> metadata,
                          decoded |-> s.decoded \o SubSeq(buf, data, data + size - 1)]
  OBVIOUS
<1>9. PICK m \in Nat, d \in Nat, c \in Nat :
        /\ m = s.metadata /\ m =< HeaderLimit /\ d = Len(s.decoded) /\ d =< BodyLimit
        /\ 3 * c =< m /\ p = headEnd + 1 + m + d + 2 * c
  <2>1. PICK c \in Nat : 3 * c =< s.metadata /\ s.cursor = headEnd + 1 + s.metadata + Len(s.decoded) + 2 * c
    BY DEF Accounted
  <2>2. s.metadata \in Nat /\ Len(s.decoded) \in Nat /\ s.metadata =< HeaderLimit /\ Len(s.decoded) =< BodyLimit
    BY <1>0 DEF Accounted, Bytes
  <2> QED
    BY <1>1, <2>1, <2>2
<1>10. PICK third \in Nat : third = HeaderLimit \div 3 /\ MemoryLimit = 3 * HeaderLimit + BodyLimit + 2 * third
  BY <1>h DEF MemoryLimit
<1>11. c =< third
  BY <1>9, <1>10, Thirds
<1>12. PICK v : v = TakeChunk(chunks, buf, headEnd, s)
  OBVIOUS
<1>13. v =
         IF eol = 0
         THEN IF Len(buf) - p + 1 > HeaderLimit THEN Refused(buf, 431) ELSE Incomplete(buf)
         ELSE IF OverHeaderLimit(metadata) THEN Refused(buf, 431)
         ELSE IF ~IsSizeLine(line) THEN Refused(buf, 400)
         ELSE IF size = 0 THEN TakeTrailers(buf, headEnd, data, s.decoded)
         ELSE IF OverBodyLimit(s.decoded, size) \/ ChunkOverflows(data - 1, size) THEN Refused(buf, 413)
         ELSE IF Len(buf) < data + size + 1 THEN Incomplete(buf)
         ELSE IF SubSeq(buf, data + size, data + size + 1) # CRLF THEN Refused(buf, 400)
         ELSE chunks[next]
  <2>1. TakeChunk(chunks, buf, headEnd, s) =
         IF eol = 0
         THEN IF Len(buf) - p + 1 > HeaderLimit THEN Refused(buf, 431) ELSE Incomplete(buf)
         ELSE IF OverHeaderLimit(metadata) THEN Refused(buf, 431)
         ELSE IF ~IsSizeLine(line) THEN Refused(buf, 400)
         ELSE IF size = 0 THEN TakeTrailers(buf, headEnd, data, s.decoded)
         ELSE IF OverBodyLimit(s.decoded, size) \/ ChunkOverflows(data - 1, size) THEN Refused(buf, 413)
         ELSE IF Len(buf) < data + size + 1 THEN Incomplete(buf)
         ELSE IF SubSeq(buf, data + size, data + size + 1) # CRLF THEN Refused(buf, 400)
         ELSE chunks[next]
    BY ONLY <1>1, <1>2, <1>3, <1>4, <1>5, <1>6, <1>8, ZenonT(60) DEF TakeChunk
  <2> QED
    BY ONLY <1>12, <2>1
<1>14. CASE \E status \in Statuses : v = Refused(buf, status)
  BY <1>12, <1>14, RefusedBounded
<1>15. CASE eol = 0 /\ v = Incomplete(buf) /\ ~(Len(buf) - p + 1 > HeaderLimit)
  <2>1. Len(buf) =< MemoryLimit
    <3>1. PICK l \in Nat : l = Len(buf)
      BY <1>0
    <3>2. ~(l - p + 1 > HeaderLimit)
      BY ONLY <1>15, <3>1
    <3>3. /\ m =< HeaderLimit /\ d =< BodyLimit /\ p = headEnd + 1 + m + d + 2 * c
          /\ headEnd =< HeaderLimit /\ HeaderLimit \in Nat /\ BodyLimit \in Nat
      BY <1>9, <1>h
    <3>4. l =< 3 * HeaderLimit + BodyLimit + 2 * third
      BY ONLY <1>11, <3>2, <3>3, l \in Nat, headEnd \in Nat, m \in Nat, d \in Nat, c \in Nat, third \in Nat, p \in Nat
    <3> QED
      BY ONLY <1>10, <3>1, <3>4
  <2> QED
    BY <1>12, <1>15, <2>1, IncompleteBounded
<1>16. ASSUME eol # 0, ~OverHeaderLimit(metadata), IsSizeLine(line)
       PROVE  \E n \in Nat :
                /\ size \in Nat /\ data \in Nat \ {0} /\ metadata \in Nat
                /\ n >= 1 /\ data = p + n + 2 /\ metadata = m + n + 2 /\ metadata =< HeaderLimit
                /\ data - 1 =< Len(buf)
  <2>1. PICK k \in Nat : k = eol - 1 /\ k =< Len(buf) /\ p =< k + 1
    BY <1>0, <1>7, <1>16
  <2>2. k =< Len(buf)
    BY <2>1
  <2>3. line \in Bytes /\ Len(line) = IF p =< k THEN k - p + 1 ELSE 0
    <3>1. SubSeq(buf, p, k) \in Bytes
      BY <2>2, SliceFacts
    <3>2. Len(SubSeq(buf, p, k)) = IF p =< k THEN k - p + 1 ELSE 0
      BY <2>2, SliceFacts
    <3> QED
      BY <1>3, <2>1, <3>1, <3>2
  <2>4. line # <<>> /\ ChunkSize(line) \in Nat
    BY <1>16, <2>3, SizeOfLine DEF Bytes
  <2>5. Len(line) \in Nat /\ Len(line) # 0
    BY <2>3, <2>4 DEF Bytes
  <2>6. size \in Nat
    BY <1>5, <2>4
  <2>7. PICK n \in Nat : n = Len(line)
    BY <2>5
  <2>8. n >= 1 /\ n = eol - p
    <3>1. n # 0 /\ n = (IF p =< k THEN k - p + 1 ELSE 0) /\ k = eol - 1 /\ eol \in Nat
      BY ONLY <1>7, <2>1, <2>3, <2>5, <2>7
    <3> QED
      BY ONLY <3>1, n \in Nat, p \in Nat, k \in Nat
  <2>9. data = p + n + 2 /\ data - 1 =< Len(buf)
    BY <1>0, <1>6, <1>7, <1>16, <2>8
  <2>10. metadata = m + n + 2 /\ metadata =< HeaderLimit
    BY <1>h, <1>4, <1>9, <1>16, <2>7 DEF OverHeaderLimit
  <2> QED
    <3>1. n >= 1 /\ data = p + n + 2 /\ metadata = m + n + 2
      BY <2>8, <2>9, <2>10
    <3>2. data \in Nat \ {0} /\ metadata \in Nat
      BY ONLY <3>1, p \in Nat, n \in Nat, m \in Nat
    <3> QED
      BY ONLY <2>6, <2>9, <2>10, <3>1, <3>2, n \in Nat
<1>17. CASE eol # 0 /\ ~OverHeaderLimit(metadata) /\ IsSizeLine(line) /\ size = 0
  <2>1. v = TakeTrailers(buf, headEnd, data, s.decoded)
    BY ONLY <1>13, <1>17
  <2>2. PICK n \in Nat : data \in Nat \ {0} /\ data = p + n + 2 /\ m + n + 2 =< HeaderLimit
    BY <1>16, <1>17
  <2>3. data - 1 + HeaderLimit =< MemoryLimit
    <3>1. /\ d =< BodyLimit /\ p = headEnd + 1 + m + d + 2 * c
          /\ headEnd =< HeaderLimit /\ HeaderLimit \in Nat /\ BodyLimit \in Nat
      BY <1>9, <1>h
    <3>2. data - 1 + HeaderLimit =< 3 * HeaderLimit + BodyLimit + 2 * third
      BY ONLY <1>11, <2>2, <3>1, headEnd \in Nat, m \in Nat, d \in Nat, c \in Nat, third \in Nat, p \in Nat, n \in Nat
    <3> QED
      BY ONLY <1>10, <3>2
  <2> QED
    BY <1>0, <1>9, <1>12, <2>1, <2>2, <2>3, TrailersBounded
<1>18. CASE /\ eol # 0 /\ ~OverHeaderLimit(metadata) /\ IsSizeLine(line) /\ size # 0
            /\ ~OverBodyLimit(s.decoded, size) /\ ~ChunkOverflows(data - 1, size)
            /\ ~\E status \in Statuses : v = Refused(buf, status)
  <2>1. PICK n \in Nat :
          /\ size \in Nat /\ data \in Nat \ {0} /\ metadata \in Nat
          /\ n >= 1 /\ data = p + n + 2 /\ metadata = m + n + 2 /\ metadata =< HeaderLimit
          /\ data - 1 =< Len(buf)
    BY <1>16, <1>18
  <2>2. d + size =< BodyLimit
    <3>1. ~(data - 1 + size + 2 > UsizeMax)
      BY ONLY <1>18 DEF ChunkOverflows
    <3>2. p = headEnd + 1 + m + d + 2 * c /\ data = p + n + 2 /\ size \in Nat /\ UsizeMax \in Nat /\ BodyLimit \in Nat
      BY <1>9, <1>h, <2>1
    <3>3. ~(d + size > UsizeMax)
      BY ONLY <3>1, <3>2, headEnd \in Nat, m \in Nat, d \in Nat, c \in Nat, p \in Nat, n \in Nat
    <3>4. d = Len(s.decoded)
      BY <1>9
    <3>5. ~(SatAdd(d, size) > BodyLimit)
      BY ONLY <1>18, <3>4 DEF OverBodyLimit
    <3>6. SatAdd(d, size) = d + size
      BY ONLY <3>3 DEF SatAdd
    <3> QED
      BY ONLY <3>2, <3>5, <3>6, d \in Nat
  <2>3. CASE Len(buf) < data + size + 1
    <3>1. v = Incomplete(buf)
      BY ONLY <1>13, <1>18, <2>3
    <3>2. c + 1 =< third
      <4>1. 3 * c =< m /\ n >= 1 /\ metadata = m + n + 2 /\ metadata =< HeaderLimit /\ metadata \in Nat
        BY <1>9, <2>1
      <4>2. c + 1 \in Nat /\ 3 * (c + 1) =< metadata
        BY ONLY <4>1, c \in Nat, m \in Nat, n \in Nat
      <4>3. c + 1 \in Nat /\ metadata =< HeaderLimit /\ metadata \in Nat
        BY <4>1, <4>2
      <4>4. c + 1 =< HeaderLimit \div 3
        BY <4>2, <4>3, Thirds
      <4> QED
        BY ONLY <1>10, <4>4
    <3>3. Len(buf) =< MemoryLimit
      <4>1. PICK l \in Nat : l = Len(buf)
        BY <1>0
      <4>2. l < data + size + 1
        BY ONLY <2>3, <4>1
      <4>3. /\ p = headEnd + 1 + m + d + 2 * c /\ data = p + n + 2 /\ size \in Nat /\ m + n + 2 =< HeaderLimit
            /\ headEnd =< HeaderLimit /\ HeaderLimit \in Nat /\ BodyLimit \in Nat
        BY <1>9, <1>h, <2>1
      <4>4. l =< 3 * HeaderLimit + BodyLimit + 2 * third
        BY ONLY <2>2, <3>2, <4>2, <4>3, l \in Nat, headEnd \in Nat, m \in Nat, d \in Nat, c \in Nat,
                third \in Nat, p \in Nat, n \in Nat
      <4> QED
        BY ONLY <1>10, <4>1, <4>4
    <3> QED
      BY <1>12, <3>1, <3>3, IncompleteBounded
  <2>4. CASE ~(Len(buf) < data + size + 1)
    <3>1. v = chunks[next]
      <4>1. v # Refused(buf, 400)
        BY ONLY <1>18 DEF Statuses
      <4> QED
        BY ONLY <1>13, <1>18, <2>4, <4>1
    <3>2. PICK k \in Nat : k = data + size - 1
      BY <1>18, <2>1, SMTT(30)
    <3>3. k =< Len(buf) /\ data =< k
      BY <1>0, <1>18, <2>1, <2>4, <3>2
    <3>4. k =< Len(buf)
      BY <3>3
    <3>5. SubSeq(buf, data, k) \in Bytes /\ Len(SubSeq(buf, data, k)) = size
      <4>1. SubSeq(buf, data, k) \in Bytes
        BY <2>1, <3>4, SliceFacts
      <4>2. Len(SubSeq(buf, data, k)) = IF data =< k THEN k - data + 1 ELSE 0
        BY <2>1, <3>4, SliceFacts
      <4> QED
        BY <2>1, <3>2, <3>3, <4>1, <4>2
    <3>6. PICK e, f : e = data + size + 2 /\ f = s.decoded \o SubSeq(buf, data, k)
      OBVIOUS
    <3>7. f \in Bytes /\ Len(f) = d + size
      <4>1. PICK sub : sub = SubSeq(buf, data, k)
        OBVIOUS
      <4>2. s.decoded \in Seq(Token) /\ sub \in Seq(Token)
        BY <1>0, <3>5, <4>1 DEF Bytes
      <4>3. s.decoded \o sub \in Seq(Token) /\ Len(s.decoded \o sub) = Len(s.decoded) + Len(sub)
        BY ONLY <4>2, ConcatProperties
      <4>4. d = Len(s.decoded) /\ Len(sub) = size /\ f = s.decoded \o sub
        BY <1>9, <3>5, <3>6, <4>1
      <4> QED
        BY ONLY <4>3, <4>4 DEF Bytes
    <3>8. next = [cursor |-> e, metadata |-> metadata, decoded |-> f]
      BY <1>8, <3>2, <3>6
    <3>9. e \in Nat \ {0} /\ e > p /\ p =< Len(buf)
      BY <1>0, <2>1, <3>6
    <3>10. next \in ChunkState /\ next.cursor > s.cursor /\ s.cursor =< Len(buf)
      BY ONLY <1>1, <2>1, <3>7, <3>8, <3>9 DEF ChunkState, Bytes
    <3>11. Accounted(next, headEnd)
      <4>1. PICK a \in Nat : a = c + 1
        OBVIOUS
      <4>2. 3 * a =< metadata /\ e = headEnd + 1 + metadata + (d + size) + 2 * a
        <5>1. 3 * c =< m /\ n >= 1 /\ metadata = m + n + 2 /\ p = headEnd + 1 + m + d + 2 * c /\ data = p + n + 2
          BY <1>9, <2>1
        <5>2. size \in Nat
          BY <2>1
        <5> QED
          BY ONLY <3>6, <4>1, <5>1, <5>2, c \in Nat, d \in Nat, m \in Nat, n \in Nat, p \in Nat, headEnd \in Nat
      <4> QED
        BY ONLY <2>1, <2>2, <3>7, <3>8, <4>1, <4>2 DEF Accounted
    <3> QED
      BY <1>12, <3>1, <3>10, <3>11
  <2> QED
    BY <2>3, <2>4
<1>19. 431 \in Statuses /\ 400 \in Statuses /\ 413 \in Statuses
  BY DEF Statuses
<1> QED
  BY <1>13, <1>14, <1>15, <1>17, <1>18, <1>19

LEMMA ChunkedBounded ==
  ASSUME NEW buf \in Bytes, NEW headEnd \in Nat, headEnd =< Len(buf), headEnd =< HeaderLimit, headEnd # 0
  PROVE  Bounded(TakeChunked(buf, headEnd), buf, headEnd)
<1>0. Len(buf) \in Nat /\ HeaderLimit \in Nat /\ BodyLimit \in Nat
  BY FramingAssumption DEF Bytes
<1> DEFINE start == [cursor |-> headEnd + 1, metadata |-> 0, decoded |-> <<>>]
<1>1. PICK f : /\ \A s \in ChunkState : f[s] = TakeChunk(f, buf, headEnd, s)
               /\ TakeChunked(buf, headEnd) = f[start]
  BY ChunksTurn
<1>2. start \in ChunkState
  BY EmptySeq DEF ChunkState
<1>3. Accounted(start, headEnd)
  <2>1. start.cursor = headEnd + 1 + 0 + 0 + 2 * 0 /\ start.metadata = 0 /\ Len(start.decoded) = 0
    OBVIOUS
  <2> HIDE DEF start
  <2> QED
    BY <1>0, <2>1 DEF Accounted
<1> HIDE DEF start
<1> DEFINE T == {n \in Nat : \E s \in Late(buf, n) : Accounted(s, headEnd) /\ ~Bounded(f[s], buf, headEnd)}
<1>4. T = {}
  <2> SUFFICES ASSUME T # {} PROVE FALSE
    OBVIOUS
  <2>1. PICK n \in T : \A k \in T : ~(k < n)
    <3>1. T \subseteq Nat
      OBVIOUS
    <3> HIDE DEF T
    <3> QED
      BY <3>1, SmallestNumber
  <2>2. PICK s \in Late(buf, n) : Accounted(s, headEnd) /\ ~Bounded(f[s], buf, headEnd)
    BY <2>1
  <2>3. s \in ChunkState /\ s.cursor \in Nat /\ s.cursor + n > Len(buf)
    BY DEF Late, ChunkState
  <2>4. ASSUME NEW t \in ChunkState, s.cursor =< Len(buf) /\ t.cursor > s.cursor /\ Accounted(t, headEnd)
        PROVE  Bounded(f[t], buf, headEnd)
    <3>1. t.cursor \in Nat /\ n \in Nat
      BY DEF ChunkState
    <3>2. n - 1 \in Nat /\ t.cursor + (n - 1) > Len(buf)
      BY ONLY <1>0, <2>3, <2>4, <3>1
    <3>3. t \in Late(buf, n - 1)
      BY <3>2 DEF Late
    <3>4. n - 1 \notin T
      BY <2>1, <3>1, <3>2
    <3> QED
      BY <2>4, <3>2, <3>3, <3>4
  <2>5. Bounded(TakeChunk(f, buf, headEnd, s), buf, headEnd)
    BY <2>2, <2>3, <2>4, ChunkBounded
  <2> QED
    BY <1>1, <2>2, <2>3, <2>5
<1>5. start \in Late(buf, Len(buf))
  BY <1>0, <1>2 DEF Late, ChunkState
<1>6. Bounded(f[start], buf, headEnd)
  BY <1>0, <1>3, <1>4, <1>5
<1> QED
  BY <1>1, <1>6

\* A head with so many bytes of what follows it.
LEMMA CutBounded ==
  ASSUME NEW buf \in Bytes, NEW headEnd \in Nat, NEW used \in Nat,
         headEnd =< used, used =< Len(buf), used - headEnd =< BodyLimit
  PROVE  Bounded(Taken(buf, SubSeq(buf, 1, used), used), buf, headEnd)
<1>1. 0 \in Nat /\ 0 =< headEnd /\ 0 =< used
  OBVIOUS
<1>2. Begins(SubSeq(buf, 0 + 1, headEnd), SubSeq(buf, 0 + 1, used))
  BY <1>1, PieceBegins
<1>3. Len(SubSeq(buf, 0 + 1, used)) = used - 0
  BY <1>1, PieceFacts
<1>4. 0 + 1 = 1 /\ used - 0 = used
  OBVIOUS
<1>5. Begins(SubSeq(buf, 1, headEnd), SubSeq(buf, 1, used)) /\ Len(SubSeq(buf, 1, used)) - headEnd =< BodyLimit
  BY <1>2, <1>3, <1>4
<1> QED
  BY <1>5, TakenBounded

LEMMA LengthBounded ==
  ASSUME NEW buf \in Bytes, NEW headEnd \in Nat, headEnd =< Len(buf), headEnd =< HeaderLimit, NEW n \in Nat
  PROVE  Bounded(TakeLength(buf, headEnd, n), buf, headEnd)
<1>0. Len(buf) \in Nat /\ HeaderLimit \in Nat /\ BodyLimit \in Nat
  BY FramingAssumption DEF Bytes
<1>1. CASE n > BodyLimit \/ headEnd + n > UsizeMax
  BY <1>1, RefusedBounded DEF TakeLength, Statuses
<1>2. CASE ~(n > BodyLimit \/ headEnd + n > UsizeMax) /\ Len(buf) < headEnd + n
  <2>1. PICK third \in Nat : third = HeaderLimit \div 3
    BY <1>0
  <2>2. ~(n > BodyLimit) /\ Len(buf) < headEnd + n
    BY <1>2
  <2>3. Len(buf) =< 3 * HeaderLimit + BodyLimit + 2 * third
    BY <1>0, <2>2
  <2>4. Len(buf) =< MemoryLimit
    BY ONLY <2>1, <2>3 DEF MemoryLimit
  <2>5. TakeLength(buf, headEnd, n) = Incomplete(buf)
    BY ONLY <1>2 DEF TakeLength
  <2> QED
    BY <2>4, <2>5, IncompleteBounded
<1>3. CASE ~(n > BodyLimit \/ headEnd + n > UsizeMax) /\ ~(Len(buf) < headEnd + n)
  <2>1. PICK used \in Nat : used = headEnd + n
    OBVIOUS
  <2>2. headEnd =< used /\ used =< Len(buf) /\ used - headEnd =< BodyLimit
    BY <1>0, <1>3, <2>1
  <2>3. TakeLength(buf, headEnd, n) = Taken(buf, SubSeq(buf, 1, used), used)
    BY ONLY <1>3, <2>1 DEF TakeLength
  <2> QED
    BY <2>2, <2>3, CutBounded
<1> QED
  BY <1>1, <1>2, <1>3

LEMMA UnframedBounded ==
  ASSUME NEW buf \in Bytes, NEW headEnd \in Nat, headEnd =< Len(buf), headEnd =< HeaderLimit, NEW idleEnd
  PROVE  Bounded(TakeUnframed(buf, headEnd, idleEnd), buf, headEnd)
<1>0. Len(buf) \in Nat /\ HeaderLimit \in Nat /\ BodyLimit \in Nat
  BY FramingAssumption DEF Bytes
<1>1. CASE Len(buf) - headEnd > BodyLimit
  BY <1>1, RefusedBounded DEF TakeUnframed, Statuses
<1>2. CASE ~(Len(buf) - headEnd > BodyLimit) /\ idleEnd
  <2>1. TakeUnframed(buf, headEnd, idleEnd) = Taken(buf, buf, Len(buf))
    BY ONLY <1>2 DEF TakeUnframed
  <2>2. SubSeq(buf, 1, Len(buf)) = buf
    BY SubSeqFull DEF Bytes
  <2>3. Len(buf) =< Len(buf) /\ Len(buf) - headEnd =< BodyLimit
    BY <1>0, <1>2
  <2>4. Bounded(Taken(buf, SubSeq(buf, 1, Len(buf)), Len(buf)), buf, headEnd)
    BY <1>0, <2>3, CutBounded
  <2> QED
    BY <2>1, <2>2, <2>4
<1>3. CASE ~(Len(buf) - headEnd > BodyLimit) /\ ~idleEnd
  <2>1. PICK third \in Nat : third = HeaderLimit \div 3
    BY <1>0
  <2>2. ~(Len(buf) - headEnd > BodyLimit)
    BY <1>3
  <2>3. Len(buf) =< 3 * HeaderLimit + BodyLimit + 2 * third
    BY <1>0, <2>2
  <2>4. Len(buf) =< MemoryLimit
    BY ONLY <2>1, <2>3 DEF MemoryLimit
  <2>5. TakeUnframed(buf, headEnd, idleEnd) = Incomplete(buf)
    BY ONLY <1>3 DEF TakeUnframed
  <2> QED
    BY <2>4, <2>5, IncompleteBounded
<1> QED
  BY <1>1, <1>2, <1>3

LEMMA HeaderStatuses ==
  ASSUME NEW head, ExtractBodyHeaders(head).kind = "error"
  PROVE  ExtractBodyHeaders(head).n \in Statuses
  BY DEF ExtractBodyHeaders, Framing, Statuses

\* Whatever has been received, and however: a request that take_framed_request
\* hands on has a head and a body within the limits, and of one that is still
\* incomplete no more than MemoryLimit bytes are kept; what is refused gets one of
\* four statuses.
THEOREM FramingWithinLimits ==
  ASSUME NEW buf \in Bytes, NEW idleEnd
  PROVE  LET v == TakeFramedRequest(buf, idleEnd)
         IN /\ v.verdict = "ready" => v.raw \in Bytes /\ v.rest \in Bytes /\ WithinLimits(v.raw)
            /\ v.verdict = "incomplete" => Len(buf) =< MemoryLimit
            /\ v.verdict = "error" => v.status \in Statuses
<1>0. Len(buf) \in Nat /\ HeaderLimit \in Nat /\ BodyLimit \in Nat
  BY FramingAssumption DEF Bytes
<1>1. PICK sep : sep = FirstAt(buf, CRLF \o CRLF, 1)
  OBVIOUS
<1>2. sep \in Nat /\ (sep # 0 => sep >= 1 /\ sep + 3 =< Len(buf))
  <2>1. Begins(buf, buf)
    BY <1>0 DEF Begins
  <2> QED
    BY <1>1, <2>1, SearchSeparator
<1>3. PICK v : v = TakeFramedRequest(buf, idleEnd)
  OBVIOUS
<1>4. CASE sep = 0
  <2>1. v = IF Len(buf) > HeaderLimit THEN Refused(buf, 431) ELSE Incomplete(buf)
    BY ONLY <1>1, <1>3, <1>4, ZenonT(60) DEF TakeFramedRequest
  <2>2. PICK third \in Nat : third = HeaderLimit \div 3
    BY <1>0
  <2>3. Len(buf) > HeaderLimit \/ Len(buf) =< 3 * HeaderLimit + BodyLimit + 2 * third
    BY <1>0
  <2>4. Len(buf) > HeaderLimit \/ Len(buf) =< MemoryLimit
    BY ONLY <2>2, <2>3 DEF MemoryLimit
  <2>5. /\ v.verdict # "ready" /\ (v.verdict = "incomplete" => Len(buf) =< MemoryLimit)
        /\ v.verdict = "error" => v.status \in Statuses
    BY <2>1, <2>4 DEF Refused, Incomplete, Statuses
  <2> QED
    BY <1>3, <2>5
<1>5. CASE sep # 0
  <2>1. PICK headEnd \in Nat : headEnd = sep + 3
    BY <1>2
  <2>2. PICK head : head = SubSeq(buf, 1, sep - 1)
    OBVIOUS
  <2>3. headEnd =< Len(buf) /\ headEnd # 0
    BY <1>2, <1>5, <2>1
  <2>4. head \in Bytes
    <3>1. PICK n \in Nat : n = sep - 1 /\ n =< Len(buf)
      BY <1>0, <1>2, <1>5
    <3>2. n =< Len(buf)
      BY <3>1
    <3>3. SubSeq(buf, 1, n) \in Bytes
      BY <3>2, SliceFacts
    <3> QED
      BY <2>2, <3>1, <3>3
  <2>5. PICK framing : framing = ExtractBodyHeaders(head)
    OBVIOUS
  <2>6. v = IF headEnd > HeaderLimit THEN Refused(buf, 431)
            ELSE IF ~IsText(head) THEN Refused(buf, 400)
            ELSE CASE framing.kind = "error" -> Refused(buf, framing.n)
                   [] framing.kind = "length" -> TakeLength(buf, headEnd, framing.n)
                   [] framing.kind = "chunked" -> TakeChunked(buf, headEnd)
                   [] OTHER -> IF HasUnframedBody(head)
                               THEN TakeUnframed(buf, headEnd, idleEnd)
                               ELSE Taken(buf, SubSeq(buf, 1, headEnd), headEnd)
    BY ONLY <1>1, <1>3, <1>5, <2>1, <2>2, <2>5, ZenonT(60) DEF TakeFramedRequest
  <2>7. CASE headEnd > HeaderLimit
    <3>1. v = Refused(buf, 431)
      BY ONLY <2>6, <2>7
    <3> QED
      BY <1>3, <3>1 DEF Refused, Statuses
  <2>8. CASE ~(headEnd > HeaderLimit) /\ ~IsText(head)
    <3>1. v = Refused(buf, 400)
      BY ONLY <2>6, <2>8
    <3> QED
      BY <1>3, <3>1 DEF Refused, Statuses
  <2>9. CASE ~(headEnd > HeaderLimit) /\ IsText(head)
    <3>1. headEnd =< HeaderLimit
      BY <1>0, <2>9
    <3>2. Bounded(v, buf, headEnd)
      <4>1. CASE framing.kind = "error"
        <5>1. v = Refused(buf, framing.n)
          BY ONLY <2>6, <2>9, <4>1
        <5>2. framing.n \in Statuses
          BY <2>5, <4>1, HeaderStatuses
        <5> QED
          BY <5>1, <5>2, RefusedBounded
      <4>2. CASE framing.kind = "length"
        <5>1. v = TakeLength(buf, headEnd, framing.n)
          BY ONLY <2>6, <2>9, <4>2
        <5>2. framing.n \in Nat
          BY <2>4, <2>5, <4>2, LengthIsNumber
        <5> QED
          BY <2>3, <3>1, <5>1, <5>2, LengthBounded
      <4>3. CASE framing.kind = "chunked"
        <5>1. v = TakeChunked(buf, headEnd)
          BY ONLY <2>6, <2>9, <4>3
        <5> QED
          BY <2>3, <3>1, <5>1, ChunkedBounded
      <4>4. CASE framing.kind \notin {"error", "length", "chunked"} /\ HasUnframedBody(head)
        <5>1. v = TakeUnframed(buf, headEnd, idleEnd)
          BY ONLY <2>6, <2>9, <4>4
        <5> QED
          BY <2>3, <3>1, <5>1, UnframedBounded
      <4>5. CASE framing.kind \notin {"error", "length", "chunked"} /\ ~HasUnframedBody(head)
        <5>1. v = Taken(buf, SubSeq(buf, 1, headEnd), headEnd)
          BY ONLY <2>6, <2>9, <4>5
        <5>2. headEnd =< headEnd /\ headEnd - headEnd =< BodyLimit
          BY <1>0
        <5> QED
          BY <2>3, <5>1, <5>2, CutBounded
      <4> QED
        BY <4>1, <4>2, <4>3, <4>4, <4>5
    <3>3. ASSUME v.verdict = "ready" PROVE WithinLimits(v.raw)
      <4>1. PICK pre, raw : pre = SubSeq(buf, 1, headEnd) /\ raw = v.raw
        OBVIOUS
      <4>2. Begins(pre, raw) /\ Len(raw) - headEnd =< BodyLimit
        BY <3>2, <3>3, <4>1 DEF Bounded
      <4>3. Begins(pre, buf) /\ Len(pre) = headEnd
        <5>1. 0 \in Nat /\ 0 =< headEnd /\ headEnd =< Len(buf) /\ Len(buf) =< Len(buf) /\ 0 =< Len(buf)
          BY <1>0, <2>3
        <5>2. Begins(SubSeq(buf, 0 + 1, headEnd), SubSeq(buf, 0 + 1, Len(buf)))
          BY <1>0, <5>1, PieceBegins
        <5>3. SubSeq(buf, 1, Len(buf)) = buf
          BY SubSeqFull DEF Bytes
        <5>4. Len(SubSeq(buf, 0 + 1, headEnd)) = headEnd - 0
          BY <5>1, PieceFacts
        <5>5. 0 + 1 = 1 /\ headEnd - 0 = headEnd
          OBVIOUS
        <5> QED
          BY <4>1, <5>2, <5>3, <5>4, <5>5
      <4>4. PICK e, f : e = FirstAt(pre, CRLF \o CRLF, 1) /\ f = FirstAt(raw, CRLF \o CRLF, 1)
        OBVIOUS
      <4>5. e = sep
        <5>1. /\ e \in Nat /\ (e # 0 => sep = e)
              /\ e = 0 /\ sep # 0 => sep + 3 > Len(pre)
          BY <1>1, <4>3, <4>4, SearchSeparator
        <5> QED
          BY <1>2, <1>5, <2>1, <4>3, <5>1
      <4>6. e # 0 => f = e
        BY <4>2, <4>4, SearchSeparator
      <4>7. FirstAt(raw, CRLF \o CRLF, 1) + 3 = headEnd
        BY <1>5, <2>1, <4>4, <4>5, <4>6
      <4> QED
        BY ONLY <3>1, <4>1, <4>2, <4>7 DEF WithinLimits
    <3> QED
      BY <1>3, <3>2, <3>3 DEF Bounded
  <2> QED
    BY <2>7, <2>8, <2>9
<1> QED
  BY <1>4, <1>5

-------------------------------------------------------------------------------
(* The connection keeps to the limits.                                     *)

LEMMA WireFacts ==
  ASSUME NEW s \in Setups
  PROVE  /\ s.wire \in Bytes /\ Len(s.wire) \in Nat
         /\ s.raws \in Seq(Bytes) /\ Len(s.raws) \in Nat /\ Len(s.ends) = Len(s.raws)
         /\ \A k \in 0..Len(s.raws) : EndOf(s, k) \in Nat /\ EndOf(s, k) =< Len(s.wire)
         /\ \A k \in 0..Len(s.raws) : k < Len(s.raws) =>
              EndOf(s, k) < s.ends[k + 1] /\ EndOf(s, k + 1) = s.ends[k + 1]
<1>1. RequestsOnWire(s)
  BY SetupAssumption
<1>2. /\ s.wire \in Bytes /\ s.raws \in Seq(Bytes) /\ s.ends \in Seq(Nat) /\ Len(s.ends) = Len(s.raws)
      /\ Len(s.wire) \in Nat /\ Len(s.raws) \in Nat
      /\ \A k \in 1..Len(s.ends) : EndOf(s, k - 1) < s.ends[k] /\ s.ends[k] =< Len(s.wire)
  BY <1>1 DEF RequestsOnWire, Bytes
<1>3. ASSUME NEW k \in 0..Len(s.raws) PROVE EndOf(s, k) \in Nat /\ EndOf(s, k) =< Len(s.wire)
  <2>1. CASE k = 0
    BY <1>2, <2>1 DEF EndOf
  <2>2. CASE k # 0
    <3>1. k \in 1..Len(s.ends) /\ s.ends[k] \in Nat
      BY <1>2, <2>2
    <3> QED
      BY <1>2, <2>2, <3>1 DEF EndOf
  <2> QED
    BY <2>1, <2>2
<1>4. ASSUME NEW k \in 0..Len(s.raws), k < Len(s.raws)
      PROVE  EndOf(s, k) < s.ends[k + 1] /\ EndOf(s, k + 1) = s.ends[k + 1]
  <2>1. PICK j : j = k + 1
    OBVIOUS
  <2>2. j \in 1..Len(s.ends) /\ j # 0 /\ j - 1 = k
    BY <1>2, <1>4, <2>1
  <2>3. EndOf(s, j - 1) < s.ends[j]
    BY <1>2, <2>2
  <2> QED
    BY <2>1, <2>2, <2>3 DEF EndOf
<1> QED
  BY <1>2, <1>3, <1>4

\* What the thread holds: a buffer it has looked at while it waits for more, and
\* the request being handled.
Held ==
  /\ toSend \in Bytes /\ buffer \in Bytes /\ request \in Bytes
  /\ pc = "reading" => TakeFramedRequest(buffer, FALSE).verdict = "incomplete"
  /\ pc = "handling" => WithinLimits(request)
  /\ served \in Seq(Bytes)
  /\ \A i \in 1..Len(served) : WithinLimits(served[i])

LEMMA StartsHeld == setup \in Setups /\ Init => Held
<1> SUFFICES ASSUME setup \in Setups, Init PROVE Held
  OBVIOUS
<1>1. setup.wire \in Bytes
  BY WireFacts
<1>2. <<>> \in Bytes /\ <<>> \in Seq(Bytes) /\ Len(<<>>) = 0
  BY EmptySeq DEF Bytes
<1>3. toSend = setup.wire /\ buffer = <<>> /\ request = <<>> /\ served = <<>> /\ pc = "parse"
  BY DEF Init
<1> QED
  BY <1>1, <1>2, <1>3 DEF Held

LEMMA AcceptHolds ==
  ASSUME Held, NEW idleEnd, NEW v, v = TakeFramedRequest(buffer, idleEnd), v.verdict = "ready",
         Accept(v), toSend' = toSend
  PROVE  Held'
<1>1. v.raw \in Bytes /\ v.rest \in Bytes /\ WithinLimits(v.raw)
  <2>1. buffer \in Bytes
    BY DEF Held
  <2> QED
    BY <2>1, FramingWithinLimits
<1>2. pc' = "handling" /\ request' = v.raw /\ buffer' = v.rest /\ served' = served
  BY DEF Accept
<1> QED
  BY <1>1, <1>2 DEF Held

LEMMA LeaveHolds ==
  ASSUME Held, pc' \notin {"reading", "handling"}, UNCHANGED <<toSend, buffer, request, served>>
  PROVE  Held'
  BY DEF Held

LEMMA RejectHolds ==
  ASSUME Held, NEW kind, NEW status, Reject(kind, status) \/ Quit, toSend' = toSend
  PROVE  Held'
  BY LeaveHolds DEF Reject, Quit

LEMMA InputEndHolds ==
  ASSUME Held, NEW kind, NEW status, AtInputEnd(kind, status), toSend' = toSend
  PROVE  Held'
<1>1. PICK v : v = TakeFramedRequest(buffer, TRUE)
  OBVIOUS
<1>2. (v.verdict = "ready" /\ Accept(v)) \/ (\E k, code : Reject(k, code))
  BY <1>1 DEF AtInputEnd
<1>3. CASE v.verdict = "ready" /\ Accept(v)
  BY <1>1, <1>3, AcceptHolds
<1>4. CASE \E k, code : Reject(k, code)
  BY <1>4, RejectHolds
<1> QED
  BY <1>2, <1>3, <1>4

LEMMA ParseHolds == Held /\ Parse => Held'
<1> SUFFICES ASSUME Held, Parse PROVE Held'
  OBVIOUS
<1>1. PICK v : v = TakeFramedRequest(buffer, FALSE)
  OBVIOUS
<1>2. toSend' = toSend
  BY DEF Parse, clientVars
<1>3. \/ v.verdict = "ready" /\ Accept(v)
      \/ \E kind, status : Reject(kind, status) \/ Quit
      \/ /\ v.verdict = "incomplete" /\ pc' = "reading"
         /\ UNCHANGED <<buffer, request, served>>
  BY <1>1 DEF Parse
<1>4. CASE v.verdict = "ready" /\ Accept(v)
  BY <1>1, <1>2, <1>4, AcceptHolds
<1>5. CASE \E kind, status : Reject(kind, status) \/ Quit
  BY <1>2, <1>5, RejectHolds
<1>6. CASE /\ v.verdict = "incomplete" /\ pc' = "reading"
           /\ UNCHANGED <<buffer, request, served>>
  BY <1>1, <1>2, <1>6 DEF Held
<1> QED
  BY <1>3, <1>4, <1>5, <1>6

LEMMA ReadHolds == Held /\ Read => Held'
<1> SUFFICES ASSUME Held, Read PROVE Held'
  OBVIOUS
<1>1. toSend \in Bytes /\ buffer \in Bytes /\ Len(toSend) \in Nat
  BY DEF Held, Bytes
<1>2. PICK n \in 1..Len(toSend) :
        /\ buffer' = buffer \o SubSeq(toSend, 1, n)
        /\ toSend' = SubSeq(toSend, n + 1, Len(toSend))
  BY DEF Read
<1>3. PICK m \in Nat : m = n /\ m \in Nat \ {0}
  BY <1>1
<1>4. m =< Len(toSend)
  BY <1>1, <1>3
<1>5. SubSeq(toSend, 1, m) \in Bytes
  <2>1. 1 \in Nat \ {0}
    OBVIOUS
  <2> QED
    BY <1>1, <1>4, <2>1, SliceFacts
<1>6. Len(toSend) =< Len(toSend)
  BY <1>1
<1>7. SubSeq(toSend, m + 1, Len(toSend)) \in Bytes
  BY <1>1, <1>4, <1>6, PieceFacts
<1>8. buffer' \in Bytes
  <2>1. SubSeq(toSend, 1, m) \in Seq(Token) /\ buffer \in Seq(Token)
    BY <1>1, <1>5 DEF Bytes
  <2> QED
    BY <1>2, <1>3, <2>1, ConcatProperties DEF Bytes
<1>9. toSend' \in Bytes
  BY <1>2, <1>3, <1>7
<1>10. pc' = "parse" /\ UNCHANGED <<request, served>>
  BY DEF Read
<1> QED
  BY <1>8, <1>9, <1>10 DEF Held

LEMMA HandleHolds == Held /\ pc = "handling" /\ Handle => Held'
<1> SUFFICES ASSUME Held, pc = "handling", Handle PROVE Held'
  OBVIOUS
<1>1. PICK o : Respond(o)
  BY DEF Handle
<1>2. UNCHANGED <<toSend, buffer, request>>
  BY DEF Handle, clientVars
<1>3. served' = Append(served, request)
  BY <1>1 DEF Respond
<1>4. pc' \notin {"reading", "handling"}
  BY <1>1 DEF Respond, Answer, Continue, EnterParse, SwitchProtocols, SendBadHeader
<1>5. request \in Bytes /\ WithinLimits(request) /\ served \in Seq(Bytes)
  BY DEF Held
<1>6. PICK n \in Nat : n = Len(served)
  BY <1>5
<1>7. /\ served' \in Seq(Bytes) /\ Len(served') = n + 1 /\ served'[n + 1] = request
      /\ \A i \in 1..n : served'[i] = served[i]
  BY <1>3, <1>5, <1>6, AppendProperties
<1>8. \A i \in 1..Len(served') : WithinLimits(served'[i])
  <2> SUFFICES ASSUME NEW i \in 1..(n + 1) PROVE WithinLimits(served'[i])
    BY <1>7
  <2>1. CASE i = n + 1
    BY <1>5, <1>7, <2>1
  <2>2. CASE i \in 1..n
    BY <1>6, <1>7, <2>2 DEF Held
  <2> QED
    BY <2>1, <2>2
<1> QED
  BY <1>2, <1>4, <1>7, <1>8 DEF Held

LEMMA StepHolds == Held /\ [Next]_vars => Held'
<1> SUFFICES ASSUME Held, [Next]_vars PROVE Held'
  OBVIOUS
<1>1. CASE Parse
  BY <1>1, ParseHolds
<1>2. CASE Read
  BY <1>2, ReadHolds
<1>3. CASE ReadEnd \/ ReadTimeout \/ ReadError
  <2>1. toSend' = toSend /\ \E kind, status : Quit \/ Reject(kind, status) \/ AtInputEnd(kind, status)
    BY <1>3 DEF ReadEnd, ReadTimeout, ReadError, clientVars
  <2> QED
    BY <2>1, RejectHolds, InputEndHolds
<1>4. CASE Handle
  BY <1>4, HandleHolds DEF Handle
<1>5. CASE Panic
  <2>1. pc' \notin {"reading", "handling"} /\ UNCHANGED <<toSend, buffer, request, served>>
    BY <1>5 DEF Panic, clientVars
  <2> QED
    BY <2>1, LeaveHolds
<1>6. CASE Tick \/ Delay
  BY <1>6 DEF Tick, Delay, clientVars, Held
<1>7. CASE Close \/ Reset
  <2>1. toSend' = <<>> /\ UNCHANGED <<pc, buffer, request, served>>
    BY <1>7 DEF Close, Reset
  <2>2. <<>> \in Bytes
    BY EmptySeq DEF Bytes
  <2> QED
    BY <2>1, <2>2 DEF Held
<1>8. CASE Finished \/ UNCHANGED vars
  BY <1>8 DEF Finished, vars, clientVars, Held
<1> QED
  BY <1>1, <1>2, <1>3, <1>4, <1>5, <1>6, <1>7, <1>8 DEF Next, ServerNext

\* The thread reads on only with a buffer that it has found incomplete.
LEMMA AlwaysHeld == Spec => []Held
<1>1. Init => setup \in Setups
  BY DEF Init
<1> QED
  BY <1>1, StartsHeld, StepHolds, PTL DEF Spec

\* parse_stream_sync looks at what it has before it reads on, so that the limits
\* of take_framed_request bound the memory of a connection, whatever the client
\* sends and however it is cut into reads.
THEOREM KeepsToLimits == Spec => []LimitsKept
<1>1. Held => LimitsKept
  BY FramingWithinLimits DEF Held, LimitsKept
<1> QED
  BY AlwaysHeld, <1>1, PTL
-------------------------------------------------------------------------------
(* The control state of the loop, its timers and its responses.            *)

\* The parts of the inductive invariant that are not properties themselves.

\* Bytes in the buffer have started the request's timer: what parse_stream
\* leaves through Idle or Closed is a buffer without bytes.
BytesStartTimer == pc \in {"parse", "reading"} /\ ~started => buffer = <<>>

\* While the loop runs, each request counted has its one response, and there
\* is room for another.
OneAnswerEach ==
  pc \in {"parse", "reading", "handling"} => handled = Len(out) /\ handled < MaxRequests

\* The read in progress ends by the request's deadline.
WaitBounded == pc = "reading" /\ started => elapsed - waited + wait =< ReqTimeout

IInv ==
  /\ ControlTypeOK /\ FlagsTypeOK
  /\ NothingAfterClose
  /\ NoSilentDrop
  /\ HandoverSound
  /\ BytesStartTimer
  /\ OneAnswerEach
  /\ WaitBounded

-------------------------------------------------------------------------------
LEMMA AppendFacts ==
  ASSUME NEW S, NEW s \in Seq(S), NEW e \in S
  PROVE  /\ Append(s, e) \in Seq(S)
         /\ Len(s) \in Nat
         /\ Len(Append(s, e)) = Len(s) + 1
         /\ \A i \in 1..Len(s) : Append(s, e)[i] = s[i]
         /\ Append(s, e)[Len(s) + 1] = e
         /\ Append(s, e) # <<>>
  OBVIOUS

\* The connection starts with nothing read, nothing written, no timer.
LEMMA InitOK == Init => IInv
  <1>1. <<>> \in Seq(Responses) /\ Len(<<>>) = 0
    OBVIOUS
  <1>2. Init => FlagsTypeOK
    BY DEF Init, FlagsTypeOK
  <1>3. QED
    BY <1>1, <1>2, ConnectionAssumption
    DEF Init, IInv, ControlTypeOK, NothingAfterClose, NoSilentDrop, HandoverSound,
        BytesStartTimer, OneAnswerEach, WaitBounded, Ended

\* StreamRead::Ready leaves the loop's count and responses alone.
LEMMA AcceptKeeps ==
  ASSUME IInv, pc \in {"parse", "reading"}, client' = client, cut' \in BOOLEAN,
         NEW v, Accept(v)
  PROVE  IInv'
  <1> USE DEF Accept, ClearTimers, IInv
  <1>1. ControlTypeOK'
    BY ConnectionAssumption DEF ControlTypeOK, Ended
  <1>2. FlagsTypeOK'
    BY DEF FlagsTypeOK
  <1>3. NothingAfterClose' /\ OneAnswerEach'
    BY DEF NothingAfterClose, OneAnswerEach
  <1>4. NoSilentDrop' /\ HandoverSound' /\ BytesStartTimer' /\ WaitBounded'
    BY DEF NoSilentDrop, HandoverSound, BytesStartTimer, WaitBounded
  <1>5. QED
    BY <1>1, <1>2, <1>3, <1>4

\* StreamRead::Idle and Closed, with nothing in the buffer.
LEMMA QuitKeeps ==
  ASSUME IInv, pc \in {"parse", "reading"}, client' = client, cut' \in BOOLEAN,
         buffer = <<>>, Quit
  PROVE  IInv'
  <1> USE DEF Quit, ClearTimers, IInv
  <1>1. ControlTypeOK'
    BY ConnectionAssumption DEF ControlTypeOK, Ended
  <1>2. FlagsTypeOK'
    BY DEF FlagsTypeOK
  <1>3. NothingAfterClose'
    BY DEF NothingAfterClose
  <1>4. NoSilentDrop' /\ HandoverSound' /\ BytesStartTimer' /\ OneAnswerEach' /\ WaitBounded'
    BY DEF NoSilentDrop, HandoverSound, BytesStartTimer, OneAnswerEach, WaitBounded
  <1>5. QED
    BY <1>1, <1>2, <1>3, <1>4

LEMMA RefusalStatus ==
  ASSUME buffer \in Bytes, NEW idleEnd, TakeFramedRequest(buffer, idleEnd).verdict = "error"
  PROVE  TakeFramedRequest(buffer, idleEnd).status \in Nat
  <1>1. TakeFramedRequest(buffer, idleEnd).status \in Statuses
    BY FramingWithinLimits
  <1>2. QED
    BY <1>1 DEF Statuses

\* StreamRead::Error writes the last response.
LEMMA RejectKeeps ==
  ASSUME IInv, pc \in {"parse", "reading"}, client' = client, cut' \in BOOLEAN,
         NEW kind \in {"refusal", "timeout", "truncated"}, NEW status \in Nat, Reject(kind, status)
  PROVE  IInv'
  <1>1. PICK r \in Responses : r.close /\ out' = Append(out, r)
    BY DEF Reject, Refusal, Responses
  <1>2. out \in Seq(Responses) /\ pc' = "closed" /\ ClearTimers /\ handled' = handled
    BY DEF IInv, ControlTypeOK, Reject
  <1>3. /\ out' \in Seq(Responses) /\ out' # <<>> /\ Len(out) \in Nat
        /\ Len(out') = Len(out) + 1 /\ out'[Len(out')] = r
        /\ \A i \in 1..Len(out) : out'[i] = out[i]
    BY <1>1, <1>2, AppendFacts
  <1>4. ControlTypeOK'
    BY <1>2, <1>3, ConnectionAssumption DEF ClearTimers, IInv, ControlTypeOK, Ended
  <1>5. Len(out) < MaxRequests /\ \A i \in 1..Len(out) : ~out[i].close
    BY DEF IInv, OneAnswerEach, NothingAfterClose
  <1>6. NothingAfterClose'
    BY <1>1, <1>2, <1>3, <1>5, ConnectionAssumption DEF NothingAfterClose
  <1>7. NoSilentDrop'
    BY <1>1, <1>3 DEF NoSilentDrop
  <1>8. FlagsTypeOK'
    BY DEF Reject, ClearTimers, IInv, FlagsTypeOK
  <1>9. QED
    BY <1>2, <1>4, <1>6, <1>7, <1>8
    DEF IInv, HandoverSound, BytesStartTimer, OneAnswerEach, WaitBounded

\* At the end of the input parse_stream returns Ready or an error, no other.
LEMMA InputEndKeeps ==
  ASSUME IInv, pc \in {"parse", "reading"}, client' = client, cut' \in BOOLEAN,
         buffer \in Bytes, NEW kind \in {"timeout", "truncated"}, NEW status \in Nat, AtInputEnd(kind, status)
  PROVE  IInv'
  <1> DEFINE v == TakeFramedRequest(buffer, TRUE)
  <1>1. \/ Accept(v) \/ Reject(kind, status)
        \/ v.status \in Nat /\ Reject("refusal", v.status)
    BY RefusalStatus DEF AtInputEnd
  <1>2. QED
    BY <1>1, AcceptKeeps, RejectKeeps

-------------------------------------------------------------------------------
(* The rest of handle_stream's loop: a response counted and written, after *)
(* which the loop goes on, ends, or gives the stream away.                 *)

\* What a response leads to.
Ending(r) == pc' = "closed" /\ r.close /\ ClearTimers
GoingOn(r) == ~r.close /\ ~LastAllowed(handled + 1) /\ EnterParse(buffer)
Leaving(r) ==
  /\ pc' = "upgraded" /\ ~r.close /\ ClearTimers
  /\ r.kind = "switch" /\ HasUpgrade(request)

LEMMA AnswerLeads ==
  ASSUME NEW kind \in {"answer", "switch"}, NEW asks \in BOOLEAN, Answer(kind, asks)
  PROVE  \E r \in Responses : /\ out' = Append(out, r) /\ r.kind # "refusal"
                              /\ Ending(r) \/ GoingOn(r)
  <1> DEFINE close == WantsClose(request) \/ asks \/ LastAllowed(handled + 1)
  <1> DEFINE r == Response(kind, close)
  <1>1. close \in BOOLEAN /\ (LastAllowed(handled + 1) => close)
    OBVIOUS
  <1>2. out' = Append(out, r) /\ Continue(close)
    BY DEF Answer
  <1> HIDE DEF close
  <1>3. r \in Responses /\ r.close = close /\ r.kind # "refusal"
    BY <1>1 DEF Response, Responses
  <1> HIDE DEF r
  <1>4. CASE close = TRUE
    BY <1>2, <1>3, <1>4 DEF Continue, Ending
  <1>5. CASE close = FALSE
    BY <1>1, <1>2, <1>3, <1>5 DEF Continue, GoingOn
  <1>6. QED
    BY <1>1, <1>4, <1>5

LEMMA RespondLeads ==
  ASSUME NEW outcome, Respond(outcome)
  PROVE  \E r \in Responses : /\ out' = Append(out, r) /\ r.kind # "refusal"
                              /\ Ending(r) \/ GoingOn(r) \/ Leaving(r)
  <1>1. CASE outcome \in {"ok", "close"} /\ Answer("answer", outcome = "close")
    <2>1. (outcome = "close") \in BOOLEAN
      OBVIOUS
    <2>2. QED
      BY <1>1, <2>1, AnswerLeads
  <1>2. CASE Answer("switch", FALSE)
    BY <1>2, AnswerLeads
  <1>3. CASE HasUpgrade(request) /\ SwitchProtocols
    <2> DEFINE r == Response("switch", FALSE)
    <2>1. r \in Responses /\ ~r.close /\ r.kind = "switch"
      BY DEF Response, Responses
    <2>2. QED
      BY <1>3, <2>1 DEF SwitchProtocols, Leaving
  <1>4. CASE SendBadHeader
    <2> DEFINE r == Response("fault", TRUE)
    <2>1. r \in Responses /\ r.close /\ r.kind # "refusal"
      BY DEF Response, Responses
    <2>2. QED
      BY <1>4, <2>1 DEF SendBadHeader, Ending
  <1>5. QED
    BY <1>1, <1>2, <1>3, <1>4 DEF Respond

LEMMA RespondKeeps ==
  ASSUME IInv, pc = "handling", client' = client, cut' = cut, buffer' = buffer,
         request' = request, NEW outcome, Respond(outcome)
  PROVE  IInv'
  <1>1. PICK r \in Responses : out' = Append(out, r) /\ (Ending(r) \/ GoingOn(r) \/ Leaving(r))
    BY RespondLeads
  <1>2. out \in Seq(Responses) /\ handled' = handled + 1
    BY DEF IInv, ControlTypeOK, Respond
  <1>3. /\ out' \in Seq(Responses) /\ out' # <<>> /\ Len(out) \in Nat
        /\ Len(out') = Len(out) + 1 /\ out'[Len(out')] = r
        /\ \A i \in 1..Len(out) : out'[i] = out[i]
    BY <1>1, <1>2, AppendFacts
  <1>4. handled = Len(out) /\ Len(out) < MaxRequests /\ \A i \in 1..Len(out) : ~out[i].close
    BY DEF IInv, OneAnswerEach, NothingAfterClose
  <1>5. FlagsTypeOK'
    BY <1>1 DEF Ending, GoingOn, Leaving, ClearTimers, EnterParse, StartedWith, IInv, FlagsTypeOK
  <1>6. /\ pc' \in {"closed", "parse", "upgraded"} /\ elapsed' = 0 /\ wait' = 0 /\ waited' = 0
    BY <1>1 DEF Ending, GoingOn, Leaving, ClearTimers, EnterParse
  <1>7. ControlTypeOK'
    BY <1>2, <1>3, <1>4, <1>6, ConnectionAssumption DEF IInv, ControlTypeOK, Ended
  <1>8. /\ pc' = "closed" <=> r.close
        /\ pc' = "parse" => Len(out') < MaxRequests
        /\ pc' = "upgraded" => r.kind = "switch" /\ HasUpgrade(request)
    BY <1>1, <1>2, <1>3, <1>4, ConnectionAssumption DEF Ending, GoingOn, Leaving, EnterParse, LastAllowed
  <1>9. NothingAfterClose'
    BY <1>3, <1>4, <1>6, <1>8, ConnectionAssumption DEF NothingAfterClose
  <1>10. NoSilentDrop' /\ HandoverSound' /\ OneAnswerEach' /\ WaitBounded'
    BY <1>2, <1>3, <1>4, <1>6, <1>8
    DEF NoSilentDrop, HandoverSound, HasUpgrade, OneAnswerEach, WaitBounded
  <1>11. BytesStartTimer'
    BY <1>1 DEF Ending, GoingOn, Leaving, EnterParse, StartedWith, BytesStartTimer
  <1>12. QED
    BY <1>5, <1>7, <1>9, <1>10, <1>11 DEF IInv

-------------------------------------------------------------------------------
(* The actions.                                                            *)

LEMMA ParseKeeps == IInv /\ setup \in Setups /\ buffer \in Bytes /\ Parse => IInv'
  <1> SUFFICES ASSUME IInv, setup \in Setups, buffer \in Bytes, Parse PROVE IInv'
    OBVIOUS
  <1> DEFINE v == TakeFramedRequest(buffer, FALSE)
  <1>1. pc = "parse" /\ client' = client /\ cut' = cut /\ cut' \in BOOLEAN
    BY DEF Parse, clientVars, IInv, FlagsTypeOK
  <1>2. ASSUME Accept(v) PROVE IInv'
    BY <1>1, <1>2, AcceptKeeps
  <1>3. ASSUME NEW kind \in {"refusal", "timeout"}, NEW status \in Nat, Reject(kind, status) PROVE IInv'
    BY <1>1, <1>3, RejectKeeps
  <1>4. CASE ~started /\ Quit
    BY <1>1, <1>4, QuitKeeps DEF IInv, BytesStartTimer
  <1>5. CASE /\ WaitFor > 0 /\ pc' = "reading" /\ wait' = WaitFor /\ waited' = 0
             /\ UNCHANGED <<buffer, request, handled, out, served, started, elapsed>>
    <2> USE DEF IInv
    <2>1. elapsed \in Int /\ WaitFor \in Nat /\ (started => elapsed + WaitFor =< ReqTimeout)
      BY <1>5, ConnectionAssumption DEF WaitFor, Min2, ControlTypeOK
    <2>2. ControlTypeOK'
      BY <1>1, <1>5, <2>1, ConnectionAssumption DEF ControlTypeOK, Ended
    <2>3. FlagsTypeOK'
      BY <1>1, <1>5 DEF FlagsTypeOK
    <2>4. WaitBounded'
      BY <1>5, <2>1 DEF WaitBounded
    <2>5. NothingAfterClose'
      BY <1>1, <1>5 DEF NothingAfterClose
    <2>6. NoSilentDrop' /\ HandoverSound' /\ BytesStartTimer' /\ OneAnswerEach'
      BY <1>1, <1>5 DEF NoSilentDrop, HandoverSound, BytesStartTimer, OneAnswerEach
    <2>7. QED
      BY <2>2, <2>3, <2>4, <2>5, <2>6
  <1>6. CASE v.verdict = "error" /\ Reject("refusal", v.status)
    <2>1. v.status \in Nat
      BY <1>6, RefusalStatus
    <2>2. QED
      BY <1>3, <1>6, <2>1
  <1>7. CASE Reject("timeout", 408)
    BY <1>3, <1>7
  <1>8. QED
    BY <1>2, <1>4, <1>5, <1>6, <1>7 DEF Parse

LEMMA ReadKeeps == IInv /\ Read => IInv'
  <1> SUFFICES ASSUME IInv, Read PROVE IInv'
    OBVIOUS
  <1>1. /\ pc = "reading" /\ pc' = "parse" /\ started' = TRUE /\ wait' = 0 /\ waited' = 0
        /\ UNCHANGED <<client, request, handled, out, served, elapsed, cut>>
    BY DEF Read
  <1> USE <1>1 DEF IInv
  <1>2. ControlTypeOK'
    BY DEF ControlTypeOK, Ended
  <1>3. FlagsTypeOK'
    BY DEF FlagsTypeOK
  <1>4. NothingAfterClose'
    BY DEF NothingAfterClose
  <1>5. NoSilentDrop' /\ HandoverSound' /\ BytesStartTimer' /\ OneAnswerEach' /\ WaitBounded'
    BY DEF NoSilentDrop, HandoverSound, BytesStartTimer, OneAnswerEach, WaitBounded
  <1>6. QED
    BY <1>2, <1>3, <1>4, <1>5

LEMMA ReadEndKeeps == IInv /\ buffer \in Bytes /\ ReadEnd => IInv'
  <1> SUFFICES ASSUME IInv, buffer \in Bytes, ReadEnd PROVE IInv'
    OBVIOUS
  <1>1. pc = "reading" /\ client' = client /\ cut' \in BOOLEAN
    BY DEF ReadEnd, clientVars, IInv, FlagsTypeOK
  <1>2. CASE buffer = <<>> /\ Quit
    BY <1>1, <1>2, QuitKeeps
  <1>3. CASE AtInputEnd("truncated", 400)
    BY <1>1, <1>3, InputEndKeeps
  <1>4. QED
    BY <1>2, <1>3 DEF ReadEnd

LEMMA ReadTimeoutKeeps == IInv /\ buffer \in Bytes /\ ReadTimeout => IInv'
  <1> SUFFICES ASSUME IInv, buffer \in Bytes, ReadTimeout PROVE IInv'
    OBVIOUS
  <1>1. (cut \/ (started /\ MidMessage)) \in BOOLEAN
    BY DEF IInv, FlagsTypeOK, MidMessage
  <1>2. pc = "reading" /\ client' = client /\ cut' \in BOOLEAN
    BY <1>1 DEF ReadTimeout, clientVars
  <1>3. CASE ~started /\ Quit
    BY <1>2, <1>3, QuitKeeps DEF IInv, BytesStartTimer
  <1>4. CASE AtInputEnd("timeout", 408)
    BY <1>2, <1>4, InputEndKeeps
  <1>5. QED
    BY <1>3, <1>4 DEF ReadTimeout

LEMMA ReadErrorKeeps == IInv /\ ReadError => IInv'
  BY RejectKeeps DEF ReadError, clientVars, IInv, FlagsTypeOK

LEMMA HandleKeeps == IInv /\ Handle => IInv'
  <1> SUFFICES ASSUME IInv, Handle PROVE IInv'
    OBVIOUS
  <1>1. \E o : Respond(o)
    BY DEF Handle
  <1>2. QED
    BY <1>1, RespondKeeps DEF Handle, clientVars

LEMMA PanicKeeps == IInv /\ Panic => IInv'
  <1> SUFFICES ASSUME IInv, Panic PROVE IInv'
    OBVIOUS
  <1> USE DEF IInv, Panic, ClearTimers, clientVars
  <1>1. ControlTypeOK'
    BY ConnectionAssumption DEF ControlTypeOK, Ended
  <1>2. FlagsTypeOK'
    BY DEF FlagsTypeOK
  <1>3. NothingAfterClose'
    BY DEF NothingAfterClose, OneAnswerEach
  <1>4. NoSilentDrop' /\ HandoverSound' /\ BytesStartTimer' /\ OneAnswerEach' /\ WaitBounded'
    BY DEF NoSilentDrop, HandoverSound, BytesStartTimer, OneAnswerEach, WaitBounded
  <1>5. QED
    BY <1>1, <1>2, <1>3, <1>4

\* Time passes: in a read never beyond the wait that was set.
LEMMA TimeKeeps == IInv /\ (Tick \/ Delay) => IInv'
  <1> SUFFICES ASSUME IInv, Tick \/ Delay PROVE IInv'
    OBVIOUS
  <1>1. UNCHANGED <<clientVars, pc, buffer, request, handled, out, served, started, wait, cut>>
    BY DEF Tick, Delay
  <1>2. ControlTypeOK' /\ WaitBounded'
    <2>1. CASE Tick /\ started
      BY <1>1, <2>1, ConnectionAssumption
      DEF Tick, CanTick, IInv, ControlTypeOK, WaitBounded, clientVars
    <2>2. CASE Tick /\ ~started
      BY <1>1, <2>2, ConnectionAssumption
      DEF Tick, CanTick, IInv, ControlTypeOK, WaitBounded, clientVars
    <2>3. CASE Delay
      BY <1>1, <2>3, ConnectionAssumption DEF Delay, IInv, ControlTypeOK, WaitBounded, clientVars
    <2>4. QED
      BY <2>1, <2>2, <2>3
  <1> USE <1>1 DEF IInv, clientVars
  <1>3. FlagsTypeOK'
    BY DEF FlagsTypeOK
  <1>4. NothingAfterClose'
    BY DEF NothingAfterClose
  <1>5. NoSilentDrop' /\ HandoverSound' /\ BytesStartTimer' /\ OneAnswerEach'
    BY DEF NoSilentDrop, HandoverSound, BytesStartTimer, OneAnswerEach
  <1>6. QED
    BY <1>2, <1>3, <1>4, <1>5

\* The client touches nothing of the job's.
LEMMA ClientKeeps == IInv /\ (Close \/ Reset) => IInv'
  <1> SUFFICES ASSUME IInv, Close \/ Reset PROVE IInv'
    OBVIOUS
  <1>1. (cut \/ MidMessage) \in BOOLEAN
    BY DEF IInv, FlagsTypeOK, MidMessage
  <1>2. FlagsTypeOK'
    BY <1>1 DEF Close, Reset, timers, IInv, FlagsTypeOK
  <1>3. /\ client' \in {"closed", "reset"}
        /\ UNCHANGED <<pc, buffer, request, handled, out, served, started, elapsed, wait, waited>>
    BY DEF Close, Reset, timers
  <1> USE <1>3 DEF IInv
  <1>4. ControlTypeOK'
    BY DEF ControlTypeOK
  <1>5. NothingAfterClose'
    BY DEF NothingAfterClose
  <1>6. NoSilentDrop' /\ HandoverSound' /\ BytesStartTimer' /\ OneAnswerEach' /\ WaitBounded'
    BY DEF NoSilentDrop, HandoverSound, BytesStartTimer, OneAnswerEach, WaitBounded
  <1>7. QED
    BY <1>2, <1>4, <1>5, <1>6

LEMMA StutterKeeps == IInv /\ UNCHANGED vars => IInv'
  <1> SUFFICES ASSUME IInv, UNCHANGED vars PROVE IInv'
    OBVIOUS
  <1> USE DEF IInv, vars, clientVars, timers
  <1>1. ControlTypeOK'
    BY DEF ControlTypeOK
  <1>2. FlagsTypeOK'
    BY DEF FlagsTypeOK
  <1>3. NothingAfterClose'
    BY DEF NothingAfterClose
  <1>4. NoSilentDrop' /\ HandoverSound' /\ BytesStartTimer' /\ OneAnswerEach' /\ WaitBounded'
    BY DEF NoSilentDrop, HandoverSound, BytesStartTimer, OneAnswerEach, WaitBounded
  <1>5. QED
    BY <1>1, <1>2, <1>3, <1>4

-------------------------------------------------------------------------------
(* The theorems.                                                           *)

\* The client's plan and the server's keep-alive timeout are settled at the start.
LEMMA SetupKept == Spec => [](setup \in Setups)
  <1>1. Init => setup \in Setups
    BY DEF Init
  <1>2. setup \in Setups /\ [Next]_vars => (setup \in Setups)'
    <2> SUFFICES ASSUME setup \in Setups, [Next]_vars PROVE setup' \in Setups
      OBVIOUS
    <2>1. setup' = setup
      BY DEF Next, ServerNext, Parse, Read, ReadEnd, ReadTimeout, ReadError, Handle, Panic,
             Tick, Delay, Close, Reset, Finished, vars, clientVars
    <2>2. QED
      BY <2>1
  <1>3. QED
    BY <1>1, <1>2, PTL DEF Spec

\* Everything one thread's handle_stream does keeps the connection's control
\* state, its timers and its responses consistent with each other.
THEOREM Inductive == Spec => []IInv
  <1>1. IInv /\ setup \in Setups /\ Held /\ [Next]_vars => IInv'
    <2> SUFFICES ASSUME IInv, setup \in Setups, buffer \in Bytes, [Next]_vars PROVE IInv'
      BY DEF Held
    <2>1. CASE ServerNext
      BY <2>1, ParseKeeps, ReadKeeps, ReadEndKeeps, ReadTimeoutKeeps, ReadErrorKeeps,
         HandleKeeps, PanicKeeps DEF ServerNext
    <2>2. CASE Tick \/ Delay
      BY <2>2, TimeKeeps
    <2>3. CASE Close \/ Reset
      BY <2>3, ClientKeeps
    <2>4. CASE Finished \/ UNCHANGED vars
      BY <2>4, StutterKeeps DEF Finished
    <2>5. QED
      BY <2>1, <2>2, <2>3, <2>4 DEF Next
  <1>2. QED
    BY InitOK, SetupKept, AlwaysHeld, <1>1, PTL DEF Spec

\* handle_stream counts at most max_requests, and parse_stream's clock is past
\* its deadline by no more than the time its thread was not scheduled.
THEOREM TypeCorrect == Spec => []TypeOK
  <1>1. IInv /\ setup \in Setups => TypeOK
    BY DEF IInv, TypeOK
  <1>2. QED
    BY Inductive, SetupKept, <1>1, PTL

\* send_response's closing answer is the last one, and the max_requests-th
\* closes, whatever the handlers and the client do.
THEOREM ClosingIsLast == Spec => []NothingAfterClose
  <1>1. IInv => NothingAfterClose
    BY DEF IInv
  <1>2. QED
    BY Inductive, <1>1, PTL

\* handle_stream leaves without a word only when its buffer is empty.
THEOREM NeverSilent == Spec => []NoSilentDrop
  <1>1. IInv => NoSilentDrop
    BY DEF IInv
  <1>2. QED
    BY Inductive, <1>1, PTL

\* parse_stream_sync is never blocked in a read past the request's deadline,
\* for all settings of the timeouts, zero included.
THEOREM DeadlineKept == Spec => []DeadlineHolds
  <1>1. IInv => DeadlineHolds
    BY ConnectionAssumption DEF IInv, ControlTypeOK, WaitBounded, DeadlineHolds
  <1>2. QED
    BY Inductive, <1>1, PTL

\* handle_stream hands the stream over only behind the 101 it wrote for the
\* request it holds, on a route with an upgrade handler.
THEOREM HandoverOnlyAfter101 == Spec => []HandoverSound
  <1>1. IInv => HandoverSound
    BY DEF IInv
  <1>2. QED
    BY Inductive, <1>1, PTL

-------------------------------------------------------------------------------
(* What the handlers see is what the client sent.                          *)

\* What can be said of the requests is said of these connections.
Follows == setup.framed \/ (~setup.pipelined /\ ~cut)

\* How many requests were cut off the bytes, and how many bytes have arrived.
TakenOff == Len(served) + (IF pc = "handling" THEN 1 ELSE 0)
Arrived == EndOf(setup, TakenOff) + Len(buffer)
Running == pc \in {"parse", "reading", "handling"}

\* The requests served are the first on the wire, ...
ServedFirst ==
  /\ served \in Seq(Bytes)
  /\ served = SubSeq(setup.raws, 1, Len(served))
  /\ Len(served) =< Len(setup.raws)

\* ... the one being handled is the next, and the bytes of the wire that are
\* not used up by these are in the buffer or still with the client.
OnTheWire ==
  /\ handled = Len(served)
  /\ TakenOff =< Len(setup.raws)
  /\ pc = "handling" => request = setup.raws[TakenOff]
  /\ buffer \in Bytes /\ Arrived =< Len(setup.wire)
  /\ buffer = SubSeq(setup.wire, EndOf(setup, TakenOff) + 1, Arrived)
  /\ toSend = IF client = "open" THEN SubSeq(setup.wire, Arrived + 1, Len(setup.wire)) ELSE <<>>

\* With a client that waits for each answer, the buffer never holds more than
\* one request, and when the client left it was not in mid-message.
OneAtATime ==
  /\ pc = "handling" => buffer = <<>>
  /\ pc \in {"parse", "reading"} =>
       /\ started => buffer # <<>>
       /\ TakenOff < Len(setup.raws) => Arrived =< setup.ends[TakenOff + 1]
  /\ client # "open" => Arrived = Len(setup.wire) \/ Opens(setup.wire[Arrived + 1])

Waits == ~setup.pipelined /\ ~cut

WireInv ==
  /\ Follows => ServedFirst /\ (Running => OnTheWire)
  /\ Waits => (Running => OneAtATime) /\ (pc = "upgraded" => buffer = <<>>)

-------------------------------------------------------------------------------
(* The requests on the wire, one after the other.                          *)

\* The (k + 1)-th request is what was cut off the bytes from the k-th on, up
\* to position `at' of the wire.
CutsOff(s, k, at, v) ==
  /\ k < Len(s.raws) /\ v.raw = s.raws[k + 1]
  /\ s.ends[k + 1] =< at
  /\ v.rest = SubSeq(s.wire, s.ends[k + 1] + 1, at)

\* What follows the last request is no request.
LEMMA NoneLeft ==
  ASSUME NEW s \in Setups, NEW at \in Nat, EndOf(s, Len(s.raws)) =< at, at =< Len(s.wire),
         NEW idleEnd \in BOOLEAN,
         idleEnd => s.framed \/ at = Len(s.wire) \/ Opens(s.wire[at + 1])
  PROVE  TakeFramedRequest(SubSeq(s.wire, EndOf(s, Len(s.raws)) + 1, at), idleEnd).verdict # "ready"
<1>1. PICK lo \in Nat, len \in Nat : lo = EndOf(s, Len(s.raws)) /\ len = Len(s.wire)
  BY WireFacts
<1>2. PICK rest : rest = SubSeq(s.wire, lo + 1, len)
  OBVIOUS
<1>3. s.wire \in Bytes /\ lo =< at /\ at =< len /\ lo =< len
  BY <1>1, WireFacts
<1>4. NoRequestMore(s) /\ rest = After(s, Len(s.raws))
  BY <1>1, <1>2, SetupAssumption DEF After
<1>5. PICK m \in Nat, all \in Nat : m = at - lo /\ all = len - lo
  BY <1>3
<1>6. /\ rest \in Bytes /\ Len(rest) = all /\ m =< all
      /\ \A i \in 1..all : rest[i] = s.wire[lo + i]
  <2>1. len =< Len(s.wire)
    BY <1>1
  <2>2. /\ rest \in Bytes /\ Len(rest) = len - lo
        /\ \A i \in 1..(len - lo) : rest[i] = s.wire[lo + i]
    BY <1>2, <1>3, <2>1, PieceFacts
  <2>3. m =< all
    BY <1>3, <1>5
  <2> QED
    BY <1>5, <2>2, <2>3
<1>7. SubSeq(s.wire, lo + 1, at) = SubSeq(rest, 1, m)
  <2>1. len =< Len(s.wire) /\ 0 =< m /\ m =< len - lo
    BY <1>1, <1>5, <1>6
  <2>2. SubSeq(SubSeq(s.wire, lo + 1, len), 0 + 1, m) = SubSeq(s.wire, lo + 0 + 1, lo + m)
    BY <1>3, <2>1, PieceOfPiece
  <2>3. lo + m = at /\ lo + 0 + 1 = lo + 1 /\ 0 + 1 = 1
    BY <1>5
  <2> QED
    BY <1>2, <2>2, <2>3
<1>8. CASE idleEnd = TRUE
  <2>1. s.framed \/ m = all \/ Opens(rest[m + 1])
    <3>1. ASSUME m # all PROVE m + 1 \in 1..all /\ lo + (m + 1) = at + 1
      BY <1>5, <1>6, <3>1
    <3>2. at = len => m = all
      BY <1>5
    <3> QED
      BY <1>1, <1>6, <1>8, <3>1, <3>2
  <2>2. m \in 0..Len(rest)
    BY <1>6
  <2> QED
    BY <1>1, <1>4, <1>6, <1>7, <1>8, <2>1, <2>2 DEF NoRequestMore
<1>9. CASE idleEnd = FALSE
  <2>1. PICK w : w = TakeFramedRequest(rest, TRUE)
    OBVIOUS
  <2>2. Begins(SubSeq(s.wire, lo + 1, at), rest)
    BY <1>1, <1>2, <1>3, PieceBegins
  <2>3. Stands(TakeFramedRequest(SubSeq(s.wire, lo + 1, at), FALSE), w, SubSeq(s.wire, lo + 1, at), rest)
    BY <2>1, <2>2, ReadsDoNotMatter
  <2>4. w.verdict # "ready"
    BY <1>4, <2>1 DEF NoRequestMore
  <2> QED
    BY <1>1, <1>9, <2>3, <2>4 DEF Stands
<1> QED
  BY <1>8, <1>9

\* Requests that carry their framing come off the buffer as they come off the
\* whole wire, wherever the bytes received end.
LEMMA FramedCut ==
  ASSUME NEW s \in Setups, s.framed, NEW k \in 0..Len(s.raws),
         NEW at \in Nat, EndOf(s, k) =< at, at =< Len(s.wire),
         NEW buf, buf = SubSeq(s.wire, EndOf(s, k) + 1, at),
         NEW idleEnd \in BOOLEAN, TakeFramedRequest(buf, idleEnd).verdict = "ready"
  PROVE  CutsOff(s, k, at, TakeFramedRequest(buf, idleEnd))
<1>1. PICK lo : lo = EndOf(s, k)
  OBVIOUS
<1>2. s.wire \in Bytes /\ Len(s.wire) \in Nat /\ lo \in Nat /\ lo =< at /\ Len(s.raws) \in Nat
  BY <1>1, WireFacts
<1>L. PICK len \in Nat : len = Len(s.wire) /\ at =< len
  BY <1>2
<1>3. PICK big : big = SubSeq(s.wire, lo + 1, Len(s.wire))
  OBVIOUS
<1>4. big = After(s, k)
  BY <1>1, <1>3 DEF After
<1>5. Begins(buf, big)
  BY <1>1, <1>2, <1>3, PieceBegins
<1>6. CarriesFraming(s)
  BY SetupAssumption
<1>7. TakeFramedRequest(buf, idleEnd) = TakeFramedRequest(buf, FALSE)
  <2>1. buf \in Beginnings(After(s, k))
    BY <1>4, <1>5, BeginsIsBeginning
  <2>2. TakeFramedRequest(buf, TRUE) = TakeFramedRequest(buf, FALSE)
    BY <1>6, <2>1 DEF CarriesFraming
  <2> QED
    BY <2>2
<1>8. PICK v : v = TakeFramedRequest(buf, FALSE)
  OBVIOUS
<1>9. v.verdict = "ready"
  BY <1>7, <1>8
<1>10. k < Len(s.raws)
  <2>1. CASE k = Len(s.raws)
    BY <1>9, <1>7, <1>8, <2>1, NoneLeft
  <2> QED
    BY <1>2, <2>1
<1>11. PICK j : j = k + 1
  OBVIOUS
<1>12. j \in 1..Len(s.raws) /\ j - 1 = k
  BY <1>2, <1>10, <1>11
<1>13. PICK w : w = TakeFramedRequest(big, FALSE)
  OBVIOUS
<1>14. w.verdict = "ready" /\ w.raw = s.raws[j] /\ w.rest = After(s, j)
  BY <1>4, <1>6, <1>12, <1>13 DEF CarriesFraming
<1>15. Stands(v, w, buf, big)
  BY <1>5, <1>8, <1>13, ReadsDoNotMatter
<1>17. v.raw = s.raws[j]
  BY <1>9, <1>14, <1>15 DEF Stands
<1>18. PICK end : end = EndOf(s, j)
  OBVIOUS
<1>19. end \in Nat /\ end = s.ends[j] /\ lo < end /\ end =< Len(s.wire)
  <2>1. EndOf(s, k) < s.ends[k + 1] /\ EndOf(s, k + 1) = s.ends[k + 1]
    BY <1>10, WireFacts
  <2>2. j \in 0..Len(s.raws)
    BY <1>12
  <2>3. EndOf(s, j) \in Nat /\ EndOf(s, j) =< Len(s.wire)
    BY <2>2, WireFacts
  <2> QED
    BY <1>1, <1>11, <1>18, <2>1, <2>3
<1>20. PICK n \in Nat, m \in Nat : n = at - lo /\ m = len - lo
  <2>1. at - lo \in Nat /\ len - lo \in Nat
    BY ONLY <1>2, <1>L, at \in Nat
  <2> QED
    BY <2>1
<1>21. buf \in Bytes /\ Len(buf) = n
  BY <1>1, <1>2, <1>20, PieceFacts
<1>22. big \in Bytes /\ Len(big) = m
  BY <1>2, <1>3, <1>20, <1>L, PieceFacts
<1>23. PICK used \in Nat : used =< n /\ v.rest = SubSeq(buf, used + 1, n) /\ w.rest = SubSeq(big, used + 1, m)
  <2>1. PICK used \in 0..Len(buf) : /\ v.rest = SubSeq(buf, used + 1, Len(buf))
                                    /\ w.rest = SubSeq(big, used + 1, Len(big))
    BY <1>9, <1>15 DEF Stands
  <2>2. used \in Nat /\ used =< n
    BY ONLY used \in 0..Len(buf), n \in Nat, <1>21
  <2> QED
    BY <1>21, <1>22, <2>1, <2>2
<1>24. used = end - lo
  <2>1. Len(w.rest) = Len(s.wire) - end
    <3>1. Len(SubSeq(s.wire, end + 1, Len(s.wire))) = Len(s.wire) - end
      BY <1>2, <1>19, PieceFacts, SMTT(30)
    <3> QED
      BY <1>14, <1>18, <3>1 DEF After
  <2>2. used =< m /\ m =< Len(big)
    <3>1. n =< m
      BY ONLY <1>2, <1>L, <1>20, at \in Nat
    <3> QED
      BY ONLY <1>22, <1>23, <3>1, n \in Nat, m \in Nat
  <2>3. Len(SubSeq(big, used + 1, m)) = m - used
    BY <1>22, <2>2, PieceFacts
  <2>4. m - used = Len(s.wire) - end
    BY <1>23, <2>1, <2>3
  <2> QED
    <3>1. end =< len /\ m - used = len - end
      BY <1>L, <1>19, <2>4
    <3> QED
      BY ONLY <1>2, <1>19, <1>20, <1>23, <3>1, SMTT(30)
<1>25. end =< at
  BY ONLY <1>2, <1>19, <1>20, <1>23, <1>24, at \in Nat
<1>26. SubSeq(buf, used + 1, n) = SubSeq(s.wire, end + 1, at)
  <2>1. n =< at - lo
    BY <1>20
  <2>2. SubSeq(SubSeq(s.wire, lo + 1, at), used + 1, n) = SubSeq(s.wire, lo + used + 1, lo + n)
    BY <1>2, <1>23, <2>1, PieceOfPiece
  <2>3. lo + used = end /\ lo + n = at
    BY ONLY <1>2, <1>19, <1>20, <1>24, at \in Nat
  <2> QED
    BY <1>1, <2>2, <2>3
<1>27. v.rest = SubSeq(s.wire, s.ends[k + 1] + 1, at) /\ s.ends[k + 1] =< at /\ v.raw = s.raws[k + 1]
  BY <1>11, <1>17, <1>19, <1>23, <1>25, <1>26
<1> QED
  BY <1>7, <1>8, <1>10, <1>27 DEF CutsOff

\* From a client that waits for each answer a request comes off the buffer only
\* when the whole of it is there.
LEMMA AloneCut ==
  ASSUME NEW s \in Setups, ~s.pipelined, NEW k \in 0..Len(s.raws),
         NEW at \in Nat, EndOf(s, k) =< at, at =< Len(s.wire),
         k < Len(s.raws) => at =< s.ends[k + 1],
         NEW buf, buf = SubSeq(s.wire, EndOf(s, k) + 1, at),
         NEW idleEnd \in BOOLEAN, idleEnd /\ k < Len(s.raws) => at = s.ends[k + 1],
         idleEnd => at = Len(s.wire) \/ Opens(s.wire[at + 1]),
         TakeFramedRequest(buf, idleEnd).verdict = "ready"
  PROVE  CutsOff(s, k, at, TakeFramedRequest(buf, idleEnd)) /\ TakeFramedRequest(buf, idleEnd).rest = <<>>
<1>1. PICK lo : lo = EndOf(s, k)
  OBVIOUS
<1>2. s.wire \in Bytes /\ Len(s.wire) \in Nat /\ lo \in Nat /\ lo =< at /\ Len(s.raws) \in Nat
  BY <1>1, WireFacts
<1>3. PICK v : v = TakeFramedRequest(buf, idleEnd)
  OBVIOUS
<1>4. v.verdict = "ready"
  BY <1>3
<1>5. k < Len(s.raws)
  <2>1. CASE k = Len(s.raws)
    BY <2>1, NoneLeft
  <2> QED
    BY <1>2, <2>1
<1>6. PICK j : j = k + 1
  OBVIOUS
<1>7. j \in 1..Len(s.raws) /\ j \in 0..Len(s.raws) /\ j - 1 = k
  BY <1>2, <1>5, <1>6
<1>8. PICK end : end = s.ends[j]
  OBVIOUS
<1>9. end \in Nat /\ lo < end /\ end =< Len(s.wire) /\ at =< end
  <2>1. EndOf(s, k) < s.ends[k + 1] /\ EndOf(s, k + 1) = s.ends[k + 1]
    BY <1>5, WireFacts
  <2>2. EndOf(s, j) \in Nat /\ EndOf(s, j) =< Len(s.wire)
    BY <1>7, WireFacts
  <2> QED
    BY <1>1, <1>5, <1>6, <1>8, <2>1, <2>2
<1>10. PICK big : big = SubSeq(s.wire, lo + 1, end)
  OBVIOUS
<1>11. big = BytesOf(s, j)
  BY <1>1, <1>7, <1>8, <1>10 DEF BytesOf
<1>12. PICK w : w = TakeFramedRequest(big, TRUE)
  OBVIOUS
<1>13. w.verdict = "ready" /\ w.raw = s.raws[j] /\ w.rest = <<>>
  <2>1. CompleteAlone(s)
    BY SetupAssumption
  <2> QED
    BY <1>7, <1>11, <1>12, <2>1 DEF CompleteAlone
<1>14. v.raw = s.raws[j] /\ v.rest = <<>> /\ at = end
  <2>1. CASE idleEnd = TRUE
    <3>1. at = end
      BY <1>5, <1>6, <1>8, <2>1
    <3>2. v = w
      BY <1>1, <1>3, <1>10, <1>12, <2>1, <3>1
    <3> QED
      BY <1>13, <3>1, <3>2
  <2>2. CASE idleEnd = FALSE
    <3>1. Begins(buf, big)
      BY <1>1, <1>2, <1>9, <1>10, PieceBegins
    <3>2. v = TakeFramedRequest(buf, FALSE)
      BY <1>3, <2>2
    <3>3. Stands(v, w, buf, big)
      BY <1>12, <3>1, <3>2, ReadsDoNotMatter
    <3>4. PICK n \in Nat, m \in Nat : n = at - lo /\ m = end - lo
      <4>1. at - lo \in Nat /\ end - lo \in Nat
        BY ONLY <1>2, <1>9, at \in Nat
      <4> QED
        BY <4>1
    <3>5. buf \in Bytes /\ Len(buf) = n
      BY <1>1, <1>2, <3>4, PieceFacts
    <3>6. big \in Bytes /\ Len(big) = m
      BY <1>2, <1>9, <1>10, <3>4, PieceFacts
    <3>7. PICK used \in 0..Len(buf) : /\ v.rest = SubSeq(buf, used + 1, Len(buf))
                                      /\ w.rest = SubSeq(big, used + 1, Len(big))
      BY <1>4, <3>3 DEF Stands
    <3>8. used \in Nat /\ used =< n
      BY ONLY used \in 0..Len(buf), n \in Nat, <3>5
    <3>9. n =< m
      BY ONLY <1>2, <1>9, <3>4, at \in Nat
    <3>10. used =< m /\ m =< Len(big)
      BY ONLY <3>6, <3>8, <3>9, n \in Nat, m \in Nat
    <3>11. Len(SubSeq(big, used + 1, m)) = m - used
      BY <3>6, <3>8, <3>10, PieceFacts
    <3>12. m - used = 0
      BY <1>13, <3>6, <3>7, <3>11
    <3>13. n < used + 1 /\ at = end
      BY ONLY <1>2, <1>9, <3>4, <3>8, <3>9, <3>12, n \in Nat, m \in Nat, at \in Nat
    <3>14. v.rest = <<>>
      <4>1. used + 1 \in Int /\ n \in Int
        BY ONLY <3>8, n \in Nat
      <4>2. SubSeq(buf, used + 1, n) = <<>>
        BY <4>1, <3>13, SubSeqEmpty
      <4> QED
        BY <3>5, <3>7, <4>2
    <3> QED
      BY <1>4, <1>13, <3>3, <3>13, <3>14 DEF Stands
  <2> QED
    BY <2>1, <2>2
<1>15. SubSeq(s.wire, end + 1, end) = <<>>
  <2>1. end + 1 \in Int /\ end \in Int /\ end < end + 1
    BY <1>9
  <2> QED
    BY <2>1, SubSeqEmpty
<1>16. v.raw = s.raws[k + 1] /\ s.ends[k + 1] =< at /\ v.rest = SubSeq(s.wire, s.ends[k + 1] + 1, at)
  BY <1>6, <1>8, <1>9, <1>14, <1>15
<1> QED
  BY <1>3, <1>5, <1>14, <1>16 DEF CutsOff

\* A pause makes no difference to what is refused.
LEMMA RefusedAtOnce ==
  ASSUME NEW buf, NEW idleEnd \in BOOLEAN, TakeFramedRequest(buf, idleEnd).verdict = "error"
  PROVE  /\ TakeFramedRequest(buf, FALSE).verdict = "error"
         /\ TakeFramedRequest(buf, FALSE).status = TakeFramedRequest(buf, idleEnd).status
<1>1. CASE idleEnd = TRUE
  <2>1. ASSUME NEW headEnd, TakeUnframed(buf, headEnd, TRUE).verdict = "error"
        PROVE  TakeUnframed(buf, headEnd, TRUE) = TakeUnframed(buf, headEnd, FALSE)
    BY <2>1 DEF TakeUnframed, Taken
  <2>2. ASSUME NEW separator, separator = FirstAt(buf, CRLF \o CRLF, 1),
               NEW headEnd, headEnd = separator + 3,
               NEW head, head = SubSeq(buf, 1, separator - 1),
               NEW framing, framing = ExtractBodyHeaders(head),
               NEW v, v = TakeFramedRequest(buf, TRUE), v.verdict = "error"
        PROVE  v = TakeFramedRequest(buf, FALSE)
    <3>1. CASE separator = 0 \/ headEnd > HeaderLimit \/ ~IsText(head)
      BY ONLY <2>2, <3>1, ZenonT(60) DEF TakeFramedRequest
    <3>2. CASE ~(separator = 0 \/ headEnd > HeaderLimit \/ ~IsText(head))
      BY ONLY <2>1, <2>2, <3>2, ZenonT(60) DEF TakeFramedRequest
    <3> QED
      BY <3>1, <3>2
  <2> QED
    BY <1>1, <2>2
<1>2. CASE idleEnd = FALSE
  BY <1>2
<1> QED
  BY <1>1, <1>2

\* What is refused is the message after the last request, and with its status.
LEMMA RefusedLast ==
  ASSUME NEW s \in Setups, NEW k \in 0..Len(s.raws),
         NEW at \in Nat, EndOf(s, k) =< at, at =< Len(s.wire),
         s.framed \/ (~s.pipelined /\ (k < Len(s.raws) => at =< s.ends[k + 1])),
         NEW buf, buf = SubSeq(s.wire, EndOf(s, k) + 1, at),
         NEW idleEnd \in BOOLEAN, TakeFramedRequest(buf, idleEnd).verdict = "error"
  PROVE  k = Len(s.raws) /\ TakeFramedRequest(buf, idleEnd).status = s.refusal
<1>1. PICK v : v = TakeFramedRequest(buf, FALSE)
  OBVIOUS
<1>2. v.verdict = "error" /\ v.status = TakeFramedRequest(buf, idleEnd).status
  BY <1>1, RefusedAtOnce
<1>3. PICK lo \in Nat, len \in Nat, count \in Nat :
        lo = EndOf(s, k) /\ len = Len(s.wire) /\ count = Len(s.raws)
  BY WireFacts
<1>4. s.wire \in Bytes /\ lo =< at /\ at =< len /\ len =< Len(s.wire)
  BY <1>3, WireFacts
<1>5. ASSUME NEW hi \in Nat, at =< hi, hi =< len, NEW pause
      PROVE  LET w == TakeFramedRequest(SubSeq(s.wire, lo + 1, hi), pause)
             IN w.verdict = "error" /\ w.status = v.status
  <2>1. PICK big : big = SubSeq(s.wire, lo + 1, hi)
    OBVIOUS
  <2>2. Begins(buf, big)
    BY <1>3, <1>4, <1>5, <2>1, PieceBegins
  <2>3. PICK w : w = TakeFramedRequest(big, pause)
    OBVIOUS
  <2>4. Stands(v, w, buf, big)
    BY <1>1, <2>2, <2>3, ReadsDoNotMatter
  <2> QED
    BY <1>2, <2>1, <2>3, <2>4 DEF Stands
<1>6. ASSUME NEW pause
      PROVE  LET w == TakeFramedRequest(After(s, k), pause)
             IN w.verdict = "error" /\ w.status = v.status
  <2>1. After(s, k) = SubSeq(s.wire, lo + 1, len)
    BY <1>3 DEF After
  <2>2. len =< len
    OBVIOUS
  <2> QED
    BY <1>4, <1>5, <2>1, <2>2
<1>7. ASSUME k < count PROVE FALSE
  <2>1. PICK j : j = k + 1
    OBVIOUS
  <2>2. j \in 1..Len(s.raws) /\ j \in 0..Len(s.raws) /\ j - 1 = k
    BY <1>3, <1>7, <2>1
  <2>3. CASE s.framed
    <3>1. CarriesFraming(s)
      BY <2>3, SetupAssumption
    <3>2. TakeFramedRequest(After(s, k), FALSE).verdict = "ready"
      BY <2>2, <3>1 DEF CarriesFraming
    <3> QED
      BY <1>6, <3>2
  <2>4. CASE ~s.framed
    <3>1. CompleteAlone(s) /\ at =< s.ends[j]
      BY <1>3, <1>7, <2>1, <2>4, SetupAssumption
    <3>2. PICK end \in Nat : end = s.ends[j] /\ end =< len
      BY <1>3, <1>7, <2>1, <2>2, WireFacts
    <3>3. BytesOf(s, j) = SubSeq(s.wire, lo + 1, end)
      BY <1>3, <2>2, <3>2 DEF BytesOf
    <3>4. TakeFramedRequest(BytesOf(s, j), TRUE).verdict = "ready"
      BY <2>2, <3>1 DEF CompleteAlone
    <3> QED
      BY <1>5, <3>1, <3>2, <3>3, <3>4
  <2> QED
    BY <2>3, <2>4
<1>8. k = count
  BY <1>3, <1>7
<1>9. NoRequestMore(s)
  BY SetupAssumption
<1> QED
  BY <1>2, <1>3, <1>6, <1>8, <1>9 DEF NoRequestMore

-------------------------------------------------------------------------------
(* The steps that move nothing, and the ends of the loop.                  *)

LEMMA Position ==
  ASSUME setup \in Setups, ServedFirst, OnTheWire
  PROVE  /\ Len(served) \in Nat /\ Len(buffer) \in Nat
         /\ TakenOff \in 0..Len(setup.raws)
         /\ EndOf(setup, TakenOff) \in Nat
         /\ Arrived \in Nat /\ EndOf(setup, TakenOff) =< Arrived
<1>1. Len(served) \in Nat /\ Len(buffer) \in Nat
  BY DEF ServedFirst, OnTheWire, Bytes
<1>2. TakenOff \in 0..Len(setup.raws)
  BY <1>1, WireFacts DEF TakenOff, OnTheWire
<1>3. EndOf(setup, TakenOff) \in Nat
  BY <1>2, WireFacts
<1> QED
  BY <1>1, <1>2, <1>3 DEF Arrived

LEMMA StillFollows ==
  ASSUME setup' = setup, cut => cut'
  PROVE  (Follows' => Follows) /\ (Waits' => Waits) /\ (Waits => Follows)
  BY DEF Follows, Waits

LEMMA NothingMoves ==
  ASSUME WireInv, setup' = setup, cut => cut', pc' = pc \/ {pc, pc'} \subseteq {"parse", "reading"},
         UNCHANGED <<buffer, served, request, handled, toSend, client>>,
         started' = started
  PROVE  WireInv'
<1>1. (Follows' => Follows) /\ (Waits' => Waits) /\ (Running' <=> Running)
  BY StillFollows DEF Running
<1>2. TakenOff' = TakenOff /\ Arrived' = Arrived
  BY DEF TakenOff, Arrived
<1>3. ServedFirst => ServedFirst'
  BY DEF ServedFirst
<1>4. OnTheWire => OnTheWire'
  BY <1>2 DEF OnTheWire
<1>5. OneAtATime => OneAtATime'
  BY <1>2 DEF OneAtATime
<1> QED
  BY <1>1, <1>3, <1>4, <1>5 DEF WireInv

LEMMA LoopEnds ==
  ASSUME WireInv, setup' = setup, cut => cut', pc' \in {"closed", "crashed"}, served' = served
  PROVE  WireInv'
<1>1. (Follows' => Follows) /\ ~Running' /\ pc' # "upgraded"
  BY StillFollows DEF Running
<1>2. ServedFirst => ServedFirst'
  BY DEF ServedFirst
<1> QED
  BY <1>1, <1>2 DEF WireInv

\* A request is cut off the buffer.
LEMMA AcceptMoves ==
  ASSUME WireInv, setup \in Setups, setup' = setup, cut => cut', pc \in {"parse", "reading"},
         UNCHANGED <<toSend, client>>, NEW v, Accept(v),
         Follows' => CutsOff(setup, TakenOff, Arrived, v), Waits' => v.rest = <<>>
  PROVE  WireInv'
<1>1. (Follows' => Follows) /\ (Waits' => Waits) /\ (Waits' => Follows')
  BY StillFollows DEF Follows, Waits
<1>2. /\ pc' = "handling" /\ request' = v.raw /\ buffer' = v.rest
      /\ UNCHANGED <<handled, out, served>>
  BY DEF Accept
<1>3. ASSUME Follows' PROVE ServedFirst' /\ OnTheWire' /\ Arrived' = Arrived
  <2>1. ServedFirst /\ OnTheWire
    BY <1>1, <1>3 DEF WireInv, Running
  <2>2. PICK k : k = TakenOff
    OBVIOUS
  <2>3. PICK at : at = Arrived
    OBVIOUS
  <2>4. k = Len(served) /\ k \in Nat /\ at \in Nat /\ handled = k
    <3>1. Len(served) \in Nat /\ Arrived \in Nat
      BY <2>1, Position
    <3>2. TakenOff = Len(served)
      BY <3>1 DEF TakenOff
    <3>3. handled = Len(served)
      BY <2>1 DEF OnTheWire
    <3> QED
      BY <2>2, <2>3, <3>1, <3>2, <3>3
  <2>5. /\ k < Len(setup.raws) /\ v.raw = setup.raws[k + 1] /\ setup.ends[k + 1] =< at
        /\ v.rest = SubSeq(setup.wire, setup.ends[k + 1] + 1, at)
    BY <1>3, <2>2, <2>3 DEF CutsOff
  <2>6. setup.wire \in Bytes /\ Len(setup.raws) \in Nat
    BY WireFacts
  <2>7. k \in 0..Len(setup.raws) /\ k + 1 \in 0..Len(setup.raws)
    BY <2>4, <2>5, <2>6
  <2>8. EndOf(setup, k + 1) = setup.ends[k + 1] /\ EndOf(setup, k + 1) \in Nat
    <3>1. EndOf(setup, k + 1) = setup.ends[k + 1]
      BY <2>5, <2>7, WireFacts
    <3>2. EndOf(setup, k + 1) \in Nat
      BY <2>7, WireFacts
    <3> QED
      BY <3>1, <3>2
  <2>9. PICK end \in Nat : end = EndOf(setup, k + 1)
    BY <2>8
  <2>10. end =< at /\ at =< Len(setup.wire)
    BY <2>1, <2>3, <2>5, <2>8, <2>9 DEF OnTheWire
  <2>11. buffer' \in Bytes /\ Len(buffer') = at - end /\ buffer' = SubSeq(setup.wire, end + 1, at)
    <3>1. buffer' = SubSeq(setup.wire, end + 1, at)
      BY <1>2, <2>5, <2>8, <2>9
    <3> QED
      BY <2>4, <2>6, <2>10, <3>1, PieceFacts
  <2>12. TakenOff' = k + 1
    BY <1>2, <2>4 DEF TakenOff
  <2>13. Arrived' = at
    <3>1. Arrived' = EndOf(setup, k + 1) + Len(buffer')
      BY <2>12 DEF Arrived
    <3> QED
      BY <2>4, <2>9, <2>11, <3>1
  <2>14. ServedFirst'
    BY <1>2, <2>1 DEF ServedFirst
  <2>15. OnTheWire'
    <3>1. handled' = Len(served)' /\ TakenOff' =< Len(setup.raws)'
      BY <1>2, <2>4, <2>7, <2>12
    <3>2. request' = setup.raws[TakenOff]'
      BY <1>2, <2>5, <2>12
    <3>3. buffer' \in Bytes /\ Arrived' =< Len(setup.wire)'
      BY <2>10, <2>11, <2>13
    <3>4. buffer' = SubSeq(setup.wire, EndOf(setup, TakenOff) + 1, Arrived)'
      <4>1. EndOf(setup, TakenOff)' = end
        BY <2>9, <2>12
      <4> QED
        BY <2>11, <2>13, <4>1
    <3>5. (toSend = IF client = "open" THEN SubSeq(setup.wire, Arrived + 1, Len(setup.wire)) ELSE <<>>)'
      BY <2>1, <2>3, <2>13 DEF OnTheWire
    <3> QED
      BY <3>1, <3>2, <3>3, <3>4, <3>5 DEF OnTheWire
  <2> QED
    BY <2>3, <2>13, <2>14, <2>15
<1>4. ASSUME Waits' PROVE OneAtATime'
  <2>1. OneAtATime
    BY <1>1, <1>4 DEF WireInv, Running
  <2>2. Arrived' = Arrived
    BY <1>1, <1>3, <1>4
  <2> QED
    BY <1>2, <1>4, <2>1, <2>2 DEF OneAtATime
<1> QED
  BY <1>2, <1>3, <1>4 DEF WireInv, Running

-------------------------------------------------------------------------------
(* The request is answered, or its handler panics.                         *)

LEMMA AnswerMoves ==
  ASSUME WireInv, setup \in Setups, setup' = setup, cut => cut', pc = "handling",
         UNCHANGED <<toSend, client, buffer, request>>,
         pc' \in {"closed", "parse", "upgraded"}, pc' = "parse" => (started' => buffer # <<>>),
         handled' = handled + 1, served' = Append(served, request)
  PROVE  WireInv'
<1>1. (Follows' => Follows) /\ (Waits' => Waits) /\ (Waits' => Follows')
  BY StillFollows DEF Follows, Waits
<1>2. ASSUME Follows
      PROVE  /\ ServedFirst' /\ Len(served') = Len(served) + 1 /\ handled' = Len(served)'
             /\ pc' = "parse" => TakenOff' = TakenOff /\ Arrived' = Arrived
  <2>1. ServedFirst /\ OnTheWire
    BY <1>2 DEF WireInv, Running
  <2>2. PICK k : k = Len(served)
    OBVIOUS
  <2>3. k \in Nat /\ TakenOff = k + 1 /\ handled = k
    <3>1. Len(served) \in Nat
      BY <2>1, Position
    <3>2. TakenOff = Len(served) + 1
      BY <3>1 DEF TakenOff
    <3>3. handled = Len(served)
      BY <2>1 DEF OnTheWire
    <3> QED
      BY <2>2, <3>1, <3>2, <3>3
  <2>4. k + 1 =< Len(setup.raws) /\ request = setup.raws[k + 1]
    BY <2>1, <2>3 DEF OnTheWire
  <2>5. setup.raws \in Seq(Bytes) /\ Len(setup.raws) \in Nat
    BY WireFacts
  <2>6. k + 1 \in 1..Len(setup.raws)
    BY <2>3, <2>4, <2>5
  <2>7. request \in Bytes
    BY <2>4, <2>5, <2>6, ElementOfSeq
  <2>8. served \in Seq(Bytes) /\ served = SubSeq(setup.raws, 1, k)
    BY <2>1, <2>2 DEF ServedFirst
  <2>9. served' \in Seq(Bytes) /\ Len(served') = k + 1
    BY <2>2, <2>7, <2>8, AppendProperties
  <2>10. served' = SubSeq(setup.raws, 1, k + 1)
    <3>1. SubSeq(setup.raws, 1, k + 1) = Append(SubSeq(setup.raws, 1, k), setup.raws[k + 1])
      BY <2>3, <2>5, <2>6, SubSeqRecursiveSecond
    <3> QED
      BY <2>4, <2>8, <3>1
  <2>11. ServedFirst'
    BY <2>4, <2>9, <2>10 DEF ServedFirst
  <2>12. ASSUME pc' = "parse" PROVE TakenOff' = TakenOff /\ Arrived' = Arrived
    <3>1. TakenOff' = TakenOff
      BY <2>3, <2>9, <2>12 DEF TakenOff
    <3> QED
      BY <3>1 DEF Arrived
  <2> QED
    BY <2>2, <2>3, <2>9, <2>11, <2>12
<1>3. ASSUME Follows', pc' = "parse" PROVE OnTheWire'
  <2>1. OnTheWire
    BY <1>1, <1>3 DEF WireInv, Running
  <2> QED
    BY <1>1, <1>2, <1>3, <2>1 DEF OnTheWire
<1>4. ASSUME Waits', pc' = "parse" PROVE OneAtATime'
  <2>1. OneAtATime /\ ServedFirst /\ OnTheWire
    BY <1>1, <1>4 DEF WireInv, Running
  <2>2. TakenOff' = TakenOff /\ Arrived' = Arrived
    BY <1>1, <1>2, <1>4
  <2>3. TakenOff < Len(setup.raws) => Arrived =< setup.ends[TakenOff + 1]
    <3>1. buffer = <<>>
      BY <2>1 DEF OneAtATime
    <3>2. EndOf(setup, TakenOff) \in Nat /\ TakenOff \in 0..Len(setup.raws)
      BY <2>1, Position
    <3>3. Arrived = EndOf(setup, TakenOff)
      BY <3>1, <3>2 DEF Arrived
    <3>4. TakenOff < Len(setup.raws) =>
            /\ EndOf(setup, TakenOff) < setup.ends[TakenOff + 1]
            /\ EndOf(setup, TakenOff + 1) = setup.ends[TakenOff + 1]
      BY <3>2, WireFacts
    <3>5. TakenOff < Len(setup.raws) => setup.ends[TakenOff + 1] \in Nat
      <4>1. TakenOff < Len(setup.raws) => TakenOff + 1 \in 0..Len(setup.raws)
        BY <3>2, WireFacts
      <4> QED
        BY <3>4, <4>1, WireFacts
    <3> QED
      BY <3>2, <3>3, <3>4, <3>5
  <2> QED
    BY <1>4, <2>1, <2>2, <2>3 DEF OneAtATime
<1>5. Waits' /\ pc' = "upgraded" => buffer' = <<>>
  BY <1>1 DEF WireInv, Running, OneAtATime
<1> QED
  BY <1>1, <1>2, <1>3, <1>4, <1>5 DEF WireInv, Running

-------------------------------------------------------------------------------
(* Bytes arrive.                                                           *)

\* What comes next from a client that waits opens a message, ...
LEMMA NextOpens ==
  ASSUME NEW s \in Setups, ~s.pipelined, NEW k \in 0..Len(s.raws), EndOf(s, k) < Len(s.wire)
  PROVE  Opens(s.wire[EndOf(s, k) + 1])
<1>1. OpeningsMarked(s)
  BY SetupAssumption
<1>2. PICK end \in Nat, len \in Nat, count \in Nat :
        end = EndOf(s, k) /\ len = Len(s.wire) /\ count = Len(s.raws)
  BY WireFacts
<1>3. s.wire \in Bytes /\ end < len /\ end =< len
  BY <1>2, WireFacts
<1>4. CASE k = count
  <2>1. After(s, count) = SubSeq(s.wire, end + 1, len)
    BY <1>2, <1>4 DEF After
  <2>2. 1 \in 1..(len - end)
    BY <1>3
  <2>3. Len(After(s, count)) = len - end /\ After(s, count)[1] = s.wire[end + 1]
    BY <1>2, <1>3, <2>1, <2>2, PieceFacts
  <2>4. After(s, count) # <<>>
    BY <1>3, <2>3
  <2> QED
    BY <1>1, <1>2, <2>3, <2>4 DEF OpeningsMarked
<1>5. CASE k < count
  <2>1. PICK j : j = k + 1
    OBVIOUS
  <2>2. j \in 1..Len(s.raws) /\ j \in 0..Len(s.raws) /\ j - 1 = k
    BY <1>2, <1>5, <2>1
  <2>3. PICK next \in Nat : next = EndOf(s, j)
    BY <2>2, WireFacts
  <2>4. next = s.ends[j] /\ end < next /\ next =< len
    BY <1>2, <1>5, <2>1, <2>2, <2>3, WireFacts
  <2>5. BytesOf(s, j) = SubSeq(s.wire, end + 1, next)
    BY <1>2, <2>2, <2>4 DEF BytesOf
  <2>6. 1 \in 1..(next - end)
    BY <2>4
  <2>7. Len(BytesOf(s, j)) = next - end /\ BytesOf(s, j)[1] = s.wire[end + 1]
    BY <1>2, <1>3, <2>4, <2>5, <2>6, PieceFacts
  <2> QED
    BY <1>1, <1>2, <2>2, <2>6, <2>7 DEF OpeningsMarked
<1> QED
  BY <1>2, <1>4, <1>5

\* ... and nothing within it does.
LEMMA InnerDoesNotOpen ==
  ASSUME NEW s \in Setups, ~s.pipelined, NEW k \in 0..Len(s.raws), k < Len(s.raws),
         NEW at \in Nat, EndOf(s, k) < at, at < s.ends[k + 1]
  PROVE  ~Opens(s.wire[at + 1])
<1>1. OpeningsMarked(s)
  BY SetupAssumption
<1>2. PICK end \in Nat, len \in Nat, count \in Nat :
        end = EndOf(s, k) /\ len = Len(s.wire) /\ count = Len(s.raws)
  BY WireFacts
<1>3. PICK j : j = k + 1
  OBVIOUS
<1>4. j \in 1..Len(s.raws) /\ j \in 0..Len(s.raws) /\ j - 1 = k
  BY <1>2, <1>3
<1>5. PICK next \in Nat : next = EndOf(s, j)
  BY <1>4, WireFacts
<1>6. s.wire \in Bytes /\ next = s.ends[j] /\ end < at /\ at < next /\ next =< len
  BY <1>2, <1>3, <1>4, <1>5, WireFacts
<1>7. BytesOf(s, j) = SubSeq(s.wire, end + 1, next)
  BY <1>2, <1>4, <1>6 DEF BytesOf
<1>8. PICK i \in 1..(next - end) : i = at + 1 - end
  BY <1>6
<1>9. end + i = at + 1 /\ i # 1 /\ end =< next
  BY <1>6, <1>8
<1>10. Len(BytesOf(s, j)) = next - end /\ BytesOf(s, j)[i] = s.wire[end + i]
  <2>1. next =< Len(s.wire)
    BY <1>2, <1>6
  <2>2. /\ Len(SubSeq(s.wire, end + 1, next)) = next - end
        /\ \A h \in 1..(next - end) : SubSeq(s.wire, end + 1, next)[h] = s.wire[end + h]
    BY <1>6, <1>9, <2>1, PieceFacts
  <2> QED
    BY <1>7, <2>2
<1> QED
  BY <1>1, <1>4, <1>9, <1>10 DEF OpeningsMarked

LEMMA ReadMoves ==
  ASSUME WireInv, setup \in Setups, Read
  PROVE  WireInv'
<1>1. PICK n \in 1..Len(toSend) : /\ MayDeliver(n)
                                  /\ buffer' = buffer \o SubSeq(toSend, 1, n)
                                  /\ toSend' = SubSeq(toSend, n + 1, Len(toSend))
  BY DEF Read
<1>2. /\ pc = "reading" /\ pc' = "parse" /\ started' = TRUE
      /\ UNCHANGED <<setup, client, request, handled, served, cut>>
  BY DEF Read
<1>3. (Follows' <=> Follows) /\ (Waits' <=> Waits) /\ (Waits => Follows) /\ TakenOff' = TakenOff
  BY <1>2 DEF Follows, Waits, TakenOff
<1>4. ASSUME Follows
      PROVE  /\ OnTheWire' /\ Arrived' = Arrived + n /\ buffer' # <<>> /\ Arrived + n =< Len(setup.wire)
             /\ \A i \in 1..n : toSend[i] = setup.wire[Arrived + i]
             /\ client = "open"
  <2>1. ServedFirst /\ OnTheWire
    BY <1>2, <1>4 DEF WireInv, Running
  <2>2. PICK base \in Nat, at \in Nat : base = EndOf(setup, TakenOff) /\ at = Arrived
    BY <2>1, Position
  <2>3. setup.wire \in Bytes
    BY WireFacts
  <2>4. PICK len \in Nat : len = Len(setup.wire)
    BY WireFacts
  <2>5. base =< at /\ at =< len
    BY <2>1, <2>2, <2>4, Position DEF OnTheWire
  <2>6. toSend = SubSeq(setup.wire, at + 1, len) /\ client = "open"
    <3>1. toSend # <<>>
      BY n \in 1..Len(toSend)
    <3> QED
      BY <2>1, <2>2, <2>4, <3>1 DEF OnTheWire
  <2>7. toSend \in Bytes /\ Len(toSend) = len - at /\ \A i \in 1..(len - at) : toSend[i] = setup.wire[at + i]
    BY <2>3, <2>4, <2>5, <2>6, PieceFacts
  <2>8. n \in Nat /\ n >= 1 /\ n =< len - at
    BY <2>5, <2>7
  <2>9. PICK top \in Nat : top = at + n
    BY <2>8
  <2>10. at =< top /\ top =< len /\ base =< top
    BY <2>5, <2>8, <2>9
  <2>11. SubSeq(toSend, 1, n) = SubSeq(setup.wire, at + 1, top)
    <3>1. SubSeq(SubSeq(setup.wire, at + 1, len), 0 + 1, n) = SubSeq(setup.wire, at + 0 + 1, at + n)
      BY <2>3, <2>4, <2>5, <2>8, PieceOfPiece
    <3> QED
      BY <2>6, <2>9, <3>1
  <2>12. toSend' = SubSeq(setup.wire, top + 1, len)
    <3>1. PICK m \in Nat : m = len - at
      BY <2>5
    <3>2. n =< m /\ m =< len - at
      BY <2>8, <3>1
    <3>3. SubSeq(SubSeq(setup.wire, at + 1, len), n + 1, m) = SubSeq(setup.wire, at + n + 1, at + m)
      BY <2>3, <2>4, <2>5, <2>8, <3>2, PieceOfPiece
    <3>4. at + m = len /\ m = Len(toSend)
      BY <2>5, <2>7, <3>1
    <3> QED
      BY <1>1, <2>6, <2>9, <3>3, <3>4
  <2>13. buffer' = SubSeq(setup.wire, base + 1, top)
    <3>1. buffer = SubSeq(setup.wire, base + 1, at)
      BY <2>1, <2>2 DEF OnTheWire
    <3>2. SubSeq(setup.wire, base + 1, at) \o SubSeq(setup.wire, at + 1, top) = SubSeq(setup.wire, base + 1, top)
      BY <2>3, <2>4, <2>5, <2>10, PiecesJoin
    <3> QED
      BY <1>1, <2>11, <3>1, <3>2
  <2>14. buffer' \in Bytes /\ Len(buffer') = top - base
    BY <2>3, <2>4, <2>10, <2>13, PieceFacts
  <2>15. Arrived' = top
    <3>1. Arrived' = base + Len(buffer')
      BY <1>2, <1>3, <2>2 DEF Arrived
    <3> QED
      BY <2>10, <2>14, <3>1
  <2>16. OnTheWire'
    <3>1. EndOf(setup, TakenOff)' = base
      BY <1>2, <1>3, <2>2
    <3>2. buffer' = SubSeq(setup.wire, EndOf(setup, TakenOff) + 1, Arrived)'
      BY <1>2, <2>13, <2>15, <3>1
    <3>3. toSend' = (IF client = "open" THEN SubSeq(setup.wire, Arrived + 1, Len(setup.wire)) ELSE <<>>)'
      BY <1>2, <2>4, <2>6, <2>12, <2>15
    <3>4. Arrived' =< Len(setup.wire)'
      BY <1>2, <2>4, <2>10, <2>15
    <3>5. handled' = Len(served)' /\ TakenOff' =< Len(setup.raws)' /\ pc' # "handling"
      BY <1>2, <1>3, <2>1 DEF OnTheWire
    <3> QED
      BY <2>14, <3>2, <3>3, <3>4, <3>5 DEF OnTheWire
  <2>17. buffer' # <<>>
    BY <2>5, <2>8, <2>9, <2>14
  <2> QED
    BY <2>2, <2>4, <2>6, <2>7, <2>8, <2>9, <2>10, <2>15, <2>16, <2>17
<1>5. ASSUME Waits PROVE OneAtATime'
  <2>1. OneAtATime /\ OnTheWire /\ ServedFirst
    BY <1>2, <1>3, <1>5 DEF WireInv, Running
  <2>2. /\ Arrived' = Arrived + n /\ buffer' # <<>> /\ Arrived + n =< Len(setup.wire)
        /\ \A i \in 1..n : toSend[i] = setup.wire[Arrived + i]
    BY <1>3, <1>4, <1>5
  <2>3. \A i \in 1..n : Opens(toSend[i]) => i = 1 /\ buffer = <<>> /\ toSend[i] # Frame
    BY <1>1, <1>5 DEF MayDeliver, Waits
  <2>4. client' = "open"
    BY <1>2, <1>3, <1>4, <1>5
  <2>5. ASSUME TakenOff < Len(setup.raws) PROVE Arrived + n =< setup.ends[TakenOff + 1]
    <3>1. PICK k, base \in Nat, at \in Nat : k = TakenOff /\ base = EndOf(setup, k) /\ at = Arrived
      BY <2>1, Position
    <3>2. k \in 0..Len(setup.raws)
      BY <2>1, <3>1, Position
    <3>3. k + 1 \in 0..Len(setup.raws)
      BY <2>5, <3>1, <3>2, WireFacts
    <3>4. base < setup.ends[k + 1] /\ EndOf(setup, k + 1) = setup.ends[k + 1]
      BY <2>5, <3>1, <3>2, WireFacts
    <3>5. PICK end \in Nat : end = EndOf(setup, k + 1)
      BY <3>3, WireFacts
    <3>6. base < end /\ at =< end
      BY <1>2, <2>1, <2>5, <3>1, <3>4, <3>5 DEF OneAtATime
    <3>7. ASSUME end < at + n PROVE FALSE
      <4>1. end < Len(setup.wire)
        <5>1. PICK len \in Nat : len = Len(setup.wire)
          BY WireFacts
        <5> QED
          BY <2>2, <3>1, <3>5, <3>7, <5>1
      <4>2. Opens(setup.wire[end + 1])
        BY <1>5, <3>3, <3>5, <4>1, NextOpens DEF Waits
      <4>3. PICK i \in 1..n : i = end + 1 - at
        BY <3>6, <3>7
      <4>4. at + i = end + 1
        BY <3>6, <4>3
      <4>5. Opens(toSend[i])
        BY <2>2, <3>1, <4>2, <4>4
      <4>6. i = 1 /\ buffer = <<>>
        BY <2>3, <4>5
      <4>7. at = base
        BY <3>1, <4>6 DEF Arrived
      <4> QED
        BY <3>6, <4>3, <4>6, <4>7
    <3> QED
      BY <3>1, <3>4, <3>5, <3>7
  <2> QED
    BY <1>2, <1>3, <2>2, <2>4, <2>5 DEF OneAtATime
<1>6. Follows' => ServedFirst'
  BY <1>2, <1>3 DEF WireInv, ServedFirst
<1> QED
  BY <1>2, <1>3, <1>4, <1>5, <1>6 DEF WireInv

-------------------------------------------------------------------------------
(* A request is looked for in the buffer, and the input may end there.     *)

\* A client that is not in mid-message has stopped before a message or the end.
LEMMA StopsBetween ==
  ASSUME setup \in Setups, ServedFirst, OnTheWire, OneAtATime, ~MidMessage
  PROVE  Arrived = Len(setup.wire) \/ Opens(setup.wire[Arrived + 1])
<1>1. CASE client # "open"
  BY <1>1 DEF OneAtATime
<1>2. CASE client = "open"
  <2>1. PICK at \in Nat, len \in Nat : at = Arrived /\ len = Len(setup.wire)
    BY Position, WireFacts
  <2>2. setup.wire \in Bytes /\ at =< len
    BY <2>1, WireFacts DEF OnTheWire
  <2>3. toSend = SubSeq(setup.wire, at + 1, len)
    BY <1>2, <2>1 DEF OnTheWire
  <2>4. CASE at < len
    <3>1. 1 \in 1..(len - at) /\ at =< len
      BY <2>4
    <3>2. toSend \in Bytes /\ Len(toSend) = len - at /\ toSend[1] = setup.wire[at + 1]
      BY <2>1, <2>2, <2>3, <3>1, PieceFacts
    <3>3. toSend # <<>> /\ Head(toSend) = toSend[1]
      BY <3>1, <3>2 DEF Bytes
    <3> QED
      BY <2>1, <3>2, <3>3 DEF MidMessage
  <2> QED
    BY <2>1, <2>2, <2>4
<1> QED
  BY <1>1, <1>2

LEMMA WholeRequestThere ==
  ASSUME setup \in Setups, ServedFirst, OnTheWire, OneAtATime, ~setup.pipelined, ~MidMessage,
         pc = "reading", buffer # <<>>, TakenOff < Len(setup.raws)
  PROVE  Arrived = setup.ends[TakenOff + 1]
<1>1. PICK k, base \in Nat, at \in Nat : k = TakenOff /\ base = EndOf(setup, k) /\ at = Arrived
  BY Position
<1>2. k \in 0..Len(setup.raws) /\ base =< at
  BY <1>1, Position
<1>3. k + 1 \in 0..Len(setup.raws)
  BY <1>1, <1>2, WireFacts
<1>4. PICK end \in Nat, len \in Nat : end = EndOf(setup, k + 1) /\ len = Len(setup.wire)
  BY <1>3, WireFacts
<1>5. end = setup.ends[k + 1] /\ end =< len
  BY <1>1, <1>2, <1>3, <1>4, WireFacts
<1>6. at =< end
  BY <1>1, <1>5 DEF OneAtATime
<1>7. base < at
  <2>1. buffer \in Bytes /\ at = base + Len(buffer)
    BY <1>1 DEF OnTheWire, Arrived
  <2>2. Len(buffer) \in Nat /\ Len(buffer) # 0
    BY <2>1 DEF Bytes
  <2> QED
    BY <2>1, <2>2
<1>8. ASSUME at < end PROVE FALSE
  <2>1. ~Opens(setup.wire[at + 1])
    BY <1>1, <1>2, <1>5, <1>7, <1>8, InnerDoesNotOpen
  <2>2. at # len
    BY <1>5, <1>8
  <2> QED
    BY <1>1, <1>4, <2>1, <2>2, StopsBetween
<1> QED
  BY <1>1, <1>5, <1>6, <1>8

\* What the framing takes for a request is the next one, if the input did not
\* end in the middle of it.
LEMMA InputCut ==
  ASSUME WireInv, setup \in Setups, setup' = setup, cut => cut', pc \in {"parse", "reading"},
         UNCHANGED <<toSend, client>>,
         NEW idleEnd \in BOOLEAN,
         Waits' /\ idleEnd =>
           /\ TakenOff < Len(setup.raws) => Arrived = setup.ends[TakenOff + 1]
           /\ Arrived = Len(setup.wire) \/ Opens(setup.wire[Arrived + 1]),
         TakeFramedRequest(buffer, idleEnd).verdict = "ready", Accept(TakeFramedRequest(buffer, idleEnd))
  PROVE  WireInv'
<1>1. (Follows' => Follows) /\ (Waits' => Waits) /\ (Waits' => ~setup.pipelined)
      /\ (Follows' => Waits' \/ setup.framed)
  BY StillFollows DEF Follows, Waits
<1>2. PICK v : v = TakeFramedRequest(buffer, idleEnd)
  OBVIOUS
<1>3. ASSUME Follows'
      PROVE  CutsOff(setup, TakenOff, Arrived, v) /\ (Waits' => v.rest = <<>>)
  <2>1. ServedFirst /\ OnTheWire
    BY <1>1, <1>3 DEF WireInv, Running
  <2>2. PICK k, at \in Nat : k = TakenOff /\ at = Arrived
    BY <2>1, Position
  <2>3. k \in 0..Len(setup.raws) /\ EndOf(setup, k) =< at
    BY <2>1, <2>2, Position
  <2>4. at =< Len(setup.wire) /\ buffer = SubSeq(setup.wire, EndOf(setup, k) + 1, at)
    BY <2>1, <2>2 DEF OnTheWire
  <2>5. CASE Waits'
    <3>1. k < Len(setup.raws) => at =< setup.ends[k + 1]
      BY <1>1, <2>2, <2>5 DEF WireInv, Running, OneAtATime
    <3>2. /\ idleEnd /\ k < Len(setup.raws) => at = setup.ends[k + 1]
          /\ idleEnd => at = Len(setup.wire) \/ Opens(setup.wire[at + 1])
      BY <2>2, <2>5
    <3>3. ~setup.pipelined
      BY <1>1, <2>5
    <3>4. /\ CutsOff(setup, k, at, TakeFramedRequest(buffer, idleEnd))
          /\ TakeFramedRequest(buffer, idleEnd).rest = <<>>
      BY <2>3, <2>4, <3>1, <3>2, <3>3, AloneCut
    <3> QED
      BY <1>2, <2>2, <3>4
  <2>6. CASE ~Waits'
    <3>1. setup.framed
      BY <1>1, <1>3, <2>6
    <3>2. CutsOff(setup, k, at, TakeFramedRequest(buffer, idleEnd))
      BY <2>3, <2>4, <3>1, FramedCut
    <3> QED
      BY <1>2, <2>2, <2>6, <3>2
  <2> QED
    BY <2>5, <2>6
<1>4. Waits' => v.rest = <<>>
  BY <1>3 DEF Waits, Follows
<1>5. Accept(v)
  BY <1>2
<1> QED
  BY <1>3, <1>4, <1>5, AcceptMoves

LEMMA ParseMoves ==
  ASSUME WireInv, setup \in Setups, Parse
  PROVE  WireInv'
<1>1. pc = "parse" /\ UNCHANGED <<setup, toSend, client, cut>>
  BY DEF Parse, clientVars
<1>2. CASE /\ TakeFramedRequest(buffer, FALSE).verdict = "ready"
           /\ Accept(TakeFramedRequest(buffer, FALSE))
  BY <1>1, <1>2, InputCut
<1>3. CASE Quit \/ \E kind, status : Reject(kind, status)
  BY <1>1, <1>3, LoopEnds DEF Quit, Reject
<1>4. CASE /\ pc' = "reading"
           /\ UNCHANGED <<buffer, request, handled, out, served, started, elapsed>>
  BY <1>1, <1>4, NothingMoves
<1> QED
  BY <1>2, <1>3, <1>4 DEF Parse

LEMMA EndMoves ==
  ASSUME WireInv, setup \in Setups, pc = "reading", UNCHANGED <<setup, toSend, client>>, cut => cut',
         Waits' => buffer # <<>> /\ ~MidMessage,
         NEW kind, NEW status, AtInputEnd(kind, status)
  PROVE  WireInv'
<1>1. CASE /\ TakeFramedRequest(buffer, TRUE).verdict = "ready"
           /\ Accept(TakeFramedRequest(buffer, TRUE))
  <2>1. ASSUME Waits'
        PROVE  /\ TakenOff < Len(setup.raws) => Arrived = setup.ends[TakenOff + 1]
               /\ Arrived = Len(setup.wire) \/ Opens(setup.wire[Arrived + 1])
    <3>1. Waits /\ ~setup.pipelined /\ ~MidMessage /\ buffer # <<>>
      BY <2>1, StillFollows DEF Waits
    <3>2. ServedFirst /\ OnTheWire /\ OneAtATime
      BY <3>1 DEF WireInv, Running, Follows, Waits
    <3> QED
      BY <2>1, <3>1, <3>2, WholeRequestThere, StopsBetween
  <2> QED
    BY <1>1, <2>1, InputCut
<1>2. CASE \E k, code : Reject(k, code)
  BY <1>2, LoopEnds DEF Reject
<1> QED
  BY <1>1, <1>2 DEF AtInputEnd

LEMMA ReadEndMoves ==
  ASSUME WireInv, setup \in Setups, ReadEnd
  PROVE  WireInv'
<1>1. pc = "reading" /\ client = "closed" /\ UNCHANGED <<setup, toSend, client, cut>>
  BY DEF ReadEnd, clientVars
<1>2. CASE Quit
  BY <1>1, <1>2, LoopEnds DEF Quit
<1>3. CASE buffer # <<>> /\ AtInputEnd("truncated", 400)
  <2>1. Waits' => ~MidMessage
    BY <1>1 DEF WireInv, Running, OnTheWire, Follows, Waits, MidMessage
  <2> QED
    BY <1>1, <1>3, <2>1, EndMoves
<1> QED
  BY <1>2, <1>3 DEF ReadEnd

LEMMA ReadTimeoutMoves ==
  ASSUME WireInv, setup \in Setups, ReadTimeout
  PROVE  WireInv'
<1>1. pc = "reading" /\ UNCHANGED <<setup, toSend, client>> /\ (cut => cut')
  BY DEF ReadTimeout, clientVars
<1>2. CASE Quit
  BY <1>1, <1>2, LoopEnds DEF Quit
<1>3. CASE started /\ AtInputEnd("timeout", 408)
  <2>1. Waits' => ~MidMessage
    BY <1>3 DEF ReadTimeout, Waits
  <2>2. Waits' => buffer # <<>>
    BY <1>1, <1>3, StillFollows DEF WireInv, Running, OneAtATime
  <2> QED
    BY <1>1, <1>3, <2>1, <2>2, EndMoves
<1> QED
  BY <1>2, <1>3 DEF ReadTimeout

-------------------------------------------------------------------------------
(* The other steps, and the theorems.                                      *)

LEMMA HandleMoves ==
  ASSUME WireInv, setup \in Setups, Handle
  PROVE  WireInv'
<1>1. pc = "handling" /\ UNCHANGED <<setup, toSend, client, buffer, request, cut>>
  BY DEF Handle, clientVars
<1>2. PICK o : Respond(o)
  BY DEF Handle
<1>3. handled' = handled + 1 /\ served' = Append(served, request)
  BY <1>2 DEF Respond
<1>4. PICK r \in Responses : Ending(r) \/ GoingOn(r) \/ Leaving(r)
  BY <1>2, RespondLeads
<1>5. pc' \in {"closed", "parse", "upgraded"} /\ (pc' = "parse" => (started' => buffer # <<>>))
  BY <1>4 DEF Ending, GoingOn, Leaving, EnterParse, StartedWith
<1> QED
  BY <1>1, <1>3, <1>5, AnswerMoves

\* The client stops where it is: the bytes it has not sent never arrive.
LEMMA LeaveMoves ==
  ASSUME WireInv, setup \in Setups, Close \/ Reset
  PROVE  WireInv'
<1>1. /\ client = "open" /\ client' # "open" /\ toSend' = <<>> /\ cut' = (cut \/ MidMessage)
      /\ UNCHANGED <<setup, pc, buffer, request, handled, served, started>>
  BY DEF Close, Reset, timers
<1>2. (Follows' => Follows) /\ (Waits' => Waits) /\ (Waits => Follows) /\ (Waits' => ~MidMessage)
  BY <1>1 DEF Follows, Waits
<1>3. TakenOff' = TakenOff /\ Arrived' = Arrived /\ (Running' <=> Running)
  BY <1>1 DEF TakenOff, Arrived, Running
<1>4. ServedFirst => ServedFirst'
  BY <1>1 DEF ServedFirst
<1>5. OnTheWire => OnTheWire'
  BY <1>1, <1>3 DEF OnTheWire
<1>6. ASSUME Waits', Running PROVE OneAtATime'
  <2>1. ServedFirst /\ OnTheWire /\ OneAtATime /\ ~MidMessage
    BY <1>2, <1>6 DEF WireInv
  <2>2. Arrived = Len(setup.wire) \/ Opens(setup.wire[Arrived + 1])
    BY <2>1, StopsBetween
  <2> QED
    BY <1>1, <1>3, <2>1, <2>2 DEF OneAtATime
<1> QED
  BY <1>1, <1>2, <1>3, <1>4, <1>5, <1>6 DEF WireInv

LEMMA StartsOnWire == Init => WireInv
<1> SUFFICES ASSUME Init PROVE WireInv
  OBVIOUS
<1>1. setup \in Setups /\ toSend = setup.wire /\ client = "open" /\ pc = "parse" /\ buffer = <<>>
      /\ handled = 0 /\ served = <<>> /\ started = FALSE
  BY DEF Init
<1>2. PICK len \in Nat : len = Len(setup.wire)
  BY <1>1, WireFacts
<1>3. /\ setup.wire \in Bytes /\ setup.raws \in Seq(Bytes) /\ Len(setup.raws) \in Nat
  BY <1>1, WireFacts
<1>4. Len(<<>>) = 0 /\ <<>> \in Seq(Bytes) /\ <<>> \in Bytes
  BY DEF Bytes
<1>5. TakenOff = 0 /\ EndOf(setup, TakenOff) = 0 /\ Arrived = 0
  BY <1>1, <1>4 DEF TakenOff, EndOf, Arrived
<1>6. SubSeq(setup.raws, 1, 0) = <<>> /\ SubSeq(setup.wire, 1, 0) = <<>>
  BY SubSeqEmpty
<1>7. ServedFirst
  BY <1>1, <1>3, <1>4, <1>6 DEF ServedFirst
<1>8. SubSeq(setup.wire, 1, len) = setup.wire
  BY <1>2, <1>3, SubSeqFull DEF Bytes
<1>9. OnTheWire
  BY <1>1, <1>2, <1>3, <1>4, <1>5, <1>6, <1>8 DEF OnTheWire
<1>10. OneAtATime
  <2>1. 0 < Len(setup.raws) => 0 =< setup.ends[1]
    <3>1. ASSUME 0 < Len(setup.raws) PROVE 0 =< setup.ends[1]
      <4>1. 0 \in 0..Len(setup.raws) /\ 1 \in 0..Len(setup.raws) /\ 0 + 1 = 1
        BY <1>3, <3>1
      <4>2. EndOf(setup, 0 + 1) = setup.ends[0 + 1]
        BY <1>1, <3>1, <4>1, WireFacts
      <4>3. EndOf(setup, 1) \in Nat
        BY <1>1, <4>1, WireFacts
      <4> QED
        BY <4>1, <4>2, <4>3
    <3> QED
      BY <3>1
  <2> QED
    BY <1>1, <1>5, <2>1 DEF OneAtATime
<1> QED
  BY <1>1, <1>7, <1>9, <1>10 DEF WireInv

LEMMA StepMoves ==
  ASSUME IInv, WireInv, setup \in Setups, [Next]_vars
  PROVE  WireInv'
<1>1. CASE Parse \/ Read \/ ReadEnd \/ ReadTimeout \/ Handle
  BY <1>1, ParseMoves, ReadMoves, ReadEndMoves, ReadTimeoutMoves, HandleMoves
<1>2. CASE ReadError \/ Panic
  <2>1. UNCHANGED <<setup, cut, served>> /\ pc' \in {"closed", "crashed"}
    BY <1>2 DEF ReadError, Panic, Reject, clientVars
  <2> QED
    BY <2>1, LoopEnds
<1>3. CASE Tick \/ Delay \/ Finished \/ UNCHANGED vars
  BY <1>3, NothingMoves DEF Tick, Delay, Finished, vars, clientVars, timers
<1>4. CASE Close \/ Reset
  BY <1>4, LeaveMoves
<1> QED
  BY <1>1, <1>2, <1>3, <1>4 DEF Next, ServerNext

\* Through every read, timeout and departure, what handle_stream has taken off
\* its buffer, what is in it and what the client still holds are one wire.
THEOREM OnWire == Spec => []WireInv
<1>1. IInv /\ WireInv /\ setup \in Setups /\ [Next]_vars => WireInv'
  BY StepMoves
<1> QED
  BY StartsOnWire, Inductive, SetupKept, <1>1, PTL DEF Spec

\* parse_stream_sync hands the requests on whole and in order, however the
\* bytes were cut into reads; for requests without framing, as long as the
\* client waits for answers and never stalls in mid-message.
THEOREM HandlersSeeWhatWasSent == Spec => []AnswersMatchRequests
<1>1. WireInv => AnswersMatchRequests
  BY DEF WireInv, Follows, ServedFirst, AnswersMatchRequests, IsPrefix
<1> QED
  BY OnWire, <1>1, PTL

\* handle_stream's buffer, dropped when the stream is handed over, is empty if
\* the client waited for the 101.
THEOREM HandoverKeepsBytes == Spec => []HandoverLosesNothing
<1>1. WireInv => HandoverLosesNothing
  BY DEF WireInv, Waits, HandoverLosesNothing
<1> QED
  BY OnWire, <1>1, PTL

-------------------------------------------------------------------------------
(* What is refused, and what is waited for.                                *)

\* With RefusedAsDue, that a refusal closes makes it inductive.
RefusalInv ==
  /\ \A i \in 1..Len(out) : out[i].kind = "refusal" => out[i].close
  /\ RefusedAsDue

LEMMA NothingWritten ==
  ASSUME RefusalInv, setup' = setup, cut => cut', UNCHANGED <<out, served>>
  PROVE  RefusalInv'
<1>1. Follows' => Follows
  BY StillFollows
<1> QED
  BY <1>1 DEF RefusalInv, RefusedAsDue, Follows

\* The response that is added is no refusal, or one that is due.
LEMMA RefusalWritten ==
  ASSUME RefusalInv, setup' = setup, cut => cut', out \in Seq(Responses), served' = served,
         NEW kind \in {"refusal", "timeout", "truncated"}, NEW status \in Nat, Reject(kind, status),
         kind = "refusal" /\ Follows' => served = setup.raws /\ status = setup.refusal
  PROVE  RefusalInv'
<1>1. Follows' => Follows
  BY StillFollows
<1>2. PICK r \in Responses : r.kind = kind /\ r.close /\ r.status = status /\ out' = Append(out, r)
  BY DEF Reject, Refusal, Responses
<1>3. /\ Len(out') = Len(out) + 1 /\ out'[Len(out')] = r /\ Len(out) \in Nat
      /\ \A i \in 1..Len(out) : out'[i] = out[i]
  BY <1>2, AppendFacts
<1>4. ASSUME NEW i \in 1..Len(out'), out'[i].kind = "refusal"
      PROVE  /\ out'[i].close
             /\ Follows' => served' = setup.raws /\ out'[i].status = setup.refusal
  <2>1. CASE i = Len(out')
    BY <1>2, <1>3, <1>4, <2>1
  <2>2. CASE i \in 1..Len(out)
    BY <1>1, <1>3, <1>4, <2>2 DEF RefusalInv, RefusedAsDue, Follows
  <2> QED
    BY <1>3, <2>1, <2>2
<1> QED
  BY <1>4 DEF RefusalInv, RefusedAsDue, Follows

LEMMA RefusalIsDue ==
  ASSUME WireInv, setup \in Setups, setup' = setup, cut => cut', pc \in {"parse", "reading"},
         NEW idleEnd \in BOOLEAN, TakeFramedRequest(buffer, idleEnd).verdict = "error", Follows'
  PROVE  served = setup.raws /\ TakeFramedRequest(buffer, idleEnd).status = setup.refusal
<1>1. Follows
  BY StillFollows
<1>2. ServedFirst /\ OnTheWire
  BY <1>1 DEF WireInv, Running
<1>3. PICK k, at \in Nat : k = TakenOff /\ at = Arrived
  BY <1>2, Position
<1>4. k \in 0..Len(setup.raws) /\ EndOf(setup, k) =< at /\ k = Len(served)
  BY <1>2, <1>3, Position DEF TakenOff
<1>5. at =< Len(setup.wire) /\ buffer = SubSeq(setup.wire, EndOf(setup, k) + 1, at)
  BY <1>2, <1>3 DEF OnTheWire
<1>6. setup.framed \/ (~setup.pipelined /\ (k < Len(setup.raws) => at =< setup.ends[k + 1]))
  BY <1>1, <1>3 DEF WireInv, Follows, Waits, Running, OneAtATime
<1>7. k = Len(setup.raws) /\ TakeFramedRequest(buffer, idleEnd).status = setup.refusal
  BY <1>4, <1>5, <1>6, RefusedLast
<1>8. served = setup.raws
  <2>1. SubSeq(setup.raws, 1, Len(setup.raws)) = setup.raws
    BY WireFacts, SubSeqFull
  <2> QED
    BY <1>2, <1>4, <1>7, <2>1 DEF ServedFirst
<1> QED
  BY <1>7, <1>8

LEMMA InputEndRefuses ==
  ASSUME RefusalInv, WireInv, setup \in Setups, buffer \in Bytes, out \in Seq(Responses),
         setup' = setup, cut => cut', pc \in {"parse", "reading"},
         NEW kind \in {"timeout", "truncated"}, NEW status \in Nat, AtInputEnd(kind, status)
  PROVE  RefusalInv'
<1>1. PICK v : v = TakeFramedRequest(buffer, TRUE)
  OBVIOUS
<1>2. CASE Accept(v)
  BY <1>2, NothingWritten DEF Accept
<1>3. CASE v.verdict = "error" /\ Reject("refusal", v.status)
  <2>1. v.status \in Nat
    BY <1>1, <1>3, RefusalStatus
  <2>2. Follows' => served = setup.raws /\ v.status = setup.refusal
    BY <1>1, <1>3, RefusalIsDue
  <2>3. served' = served
    BY <1>3 DEF Reject
  <2> QED
    BY <1>3, <2>1, <2>2, <2>3, RefusalWritten
<1>4. CASE Reject(kind, status)
  BY <1>4, RefusalWritten DEF Reject
<1> QED
  BY <1>1, <1>2, <1>3, <1>4 DEF AtInputEnd

LEMMA ParseRefuses ==
  ASSUME RefusalInv, WireInv, setup \in Setups, buffer \in Bytes, out \in Seq(Responses), Parse
  PROVE  RefusalInv'
<1>1. pc = "parse" /\ UNCHANGED <<setup, cut>>
  BY DEF Parse, clientVars
<1>2. PICK v : v = TakeFramedRequest(buffer, FALSE)
  OBVIOUS
<1>3. CASE UNCHANGED <<out, served>>
  BY <1>1, <1>3, NothingWritten
<1>4. CASE v.verdict = "error" /\ Reject("refusal", v.status)
  <2>1. v.status \in Nat
    BY <1>2, <1>4, RefusalStatus
  <2>2. Follows' => served = setup.raws /\ v.status = setup.refusal
    BY <1>1, <1>2, <1>4, RefusalIsDue
  <2>3. served' = served
    BY <1>4 DEF Reject
  <2> QED
    BY <1>1, <1>4, <2>1, <2>2, <2>3, RefusalWritten
<1>5. CASE Reject("timeout", 408)
  BY <1>1, <1>5, RefusalWritten DEF Reject
<1> QED
  BY <1>2, <1>3, <1>4, <1>5 DEF Parse, Accept, Quit

\* While a request is handled nothing has been refused, and its response is no
\* refusal.
LEMMA HandleRefusesNothing ==
  ASSUME RefusalInv, IInv, Handle
  PROVE  RefusalInv'
<1>1. pc = "handling" /\ out \in Seq(Responses)
  BY DEF Handle, IInv, ControlTypeOK
<1>2. PICK o : Respond(o)
  BY DEF Handle
<1>3. PICK r \in Responses : out' = Append(out, r) /\ r.kind # "refusal"
  BY <1>2, RespondLeads
<1>4. /\ Len(out') = Len(out) + 1 /\ out'[Len(out')] = r /\ Len(out) \in Nat
      /\ \A i \in 1..Len(out) : out'[i] = out[i]
  BY <1>1, <1>3, AppendFacts
<1>5. \A i \in 1..Len(out) : out[i].kind # "refusal"
  BY <1>1 DEF IInv, NothingAfterClose, RefusalInv
<1>6. ASSUME NEW i \in 1..Len(out') PROVE out'[i].kind # "refusal"
  <2>1. CASE i = Len(out')
    BY <1>3, <1>4, <2>1
  <2>2. CASE i \in 1..Len(out)
    BY <1>4, <1>5, <2>2
  <2> QED
    BY <1>4, <2>1, <2>2
<1> QED
  BY <1>6 DEF RefusalInv, RefusedAsDue

LEMMA StepRefuses ==
  ASSUME RefusalInv, IInv, WireInv, Held, setup \in Setups, [Next]_vars
  PROVE  RefusalInv'
<1>1. out \in Seq(Responses) /\ buffer \in Bytes
  BY DEF IInv, ControlTypeOK, Held
<1>2. CASE Parse
  BY <1>1, <1>2, ParseRefuses
<1>3. CASE Handle
  BY <1>3, HandleRefusesNothing
<1>4. CASE ReadEnd \/ ReadTimeout
  <2>1. pc = "reading" /\ setup' = setup /\ (cut => cut')
    <3>1. ReadEnd => pc = "reading" /\ setup' = setup /\ (cut => cut')
      BY DEF ReadEnd, clientVars
    <3>2. ReadTimeout => pc = "reading" /\ setup' = setup /\ (cut => cut')
      BY DEF ReadTimeout, clientVars
    <3> QED
      BY <1>4, <3>1, <3>2
  <2>2. CASE Quit
    BY <2>1, <2>2, NothingWritten DEF Quit
  <2>3. CASE AtInputEnd("truncated", 400) \/ AtInputEnd("timeout", 408)
    BY <1>1, <2>1, <2>3, InputEndRefuses
  <2> QED
    BY <1>4, <2>2, <2>3 DEF ReadEnd, ReadTimeout
<1>5. CASE ReadError
  BY <1>1, <1>5, RefusalWritten DEF ReadError, Reject, clientVars
<1>6. CASE Read \/ Panic \/ Tick \/ Delay \/ Finished \/ UNCHANGED vars
  <2>1. UNCHANGED <<setup, out, served, cut>>
    BY <1>6 DEF Read, Panic, Tick, Delay, Finished, vars, clientVars
  <2> QED
    BY <2>1, NothingWritten
<1>7. CASE Close \/ Reset
  <2>1. UNCHANGED <<setup, out, served>> /\ cut' = (cut \/ MidMessage)
    BY <1>7 DEF Close, Reset
  <2>2. cut => cut'
    BY <2>1
  <2> QED
    BY <2>1, <2>2, NothingWritten
<1> QED
  BY <1>2, <1>3, <1>4, <1>5, <1>6, <1>7 DEF Next, ServerNext

\* take_framed_request refuses a message with the same status wherever a read cut
\* it, and never one of the requests before it.
THEOREM RefusesWhatIsDue == Spec => []RefusedAsDue
<1>1. Init => RefusalInv
  BY DEF Init, RefusalInv, RefusedAsDue
<1>2. RefusalInv /\ IInv /\ WireInv /\ Held /\ setup \in Setups /\ [Next]_vars => RefusalInv'
  BY StepRefuses
<1>3. RefusalInv => RefusedAsDue
  BY DEF RefusalInv
<1> QED
  BY Inductive, OnWire, AlwaysHeld, SetupKept, <1>1, <1>2, <1>3, PTL DEF Spec

\* parse_stream_sync reads on only when there is nothing left to do with the bytes
\* it has.
THEOREM NothingDueWhileWaiting == Spec => []WaitsWithNothingDue
<1>1. ASSUME WireInv, Held, setup \in Setups PROVE WaitsWithNothingDue
  <2> SUFFICES ASSUME pc = "reading", client = "open", toSend = <<>>, setup.framed
               PROVE  served = setup.raws /\ setup.refusal = 0 /\ buffer = After(setup, Len(setup.raws))
    BY DEF WaitsWithNothingDue
  <2>1. ServedFirst /\ OnTheWire
    BY <1>1 DEF WireInv, Follows, Running
  <2>2. PICK k, at \in Nat : k = TakenOff /\ at = Arrived
    BY <1>1, <2>1, Position
  <2>3. k \in 0..Len(setup.raws) /\ k = Len(served)
    BY <1>1, <2>1, <2>2, Position DEF TakenOff
  <2>4. PICK len \in Nat, count \in Nat : len = Len(setup.wire) /\ count = Len(setup.raws)
    BY <1>1, WireFacts
  <2>5. at = len
    <3>1. setup.wire \in Bytes /\ at =< len /\ len =< Len(setup.wire)
      BY <1>1, <2>1, <2>2, <2>4, WireFacts DEF OnTheWire
    <3>2. Len(SubSeq(setup.wire, at + 1, len)) = len - at
      BY <3>1, PieceFacts
    <3>3. SubSeq(setup.wire, at + 1, len) = <<>>
      BY <2>1, <2>2, <2>4 DEF OnTheWire
    <3> QED
      BY <3>1, <3>2, <3>3
  <2>6. buffer = After(setup, k)
    BY <2>1, <2>2, <2>4, <2>5 DEF OnTheWire, After
  <2>7. CarriesFraming(setup) /\ NoRequestMore(setup)
    BY <1>1, SetupAssumption
  <2>8. TakeFramedRequest(After(setup, k), FALSE).verdict = "incomplete"
    BY <1>1, <2>6 DEF Held
  <2>9. k = count
    <3>1. ASSUME k < count PROVE FALSE
      <4>1. k + 1 \in 1..Len(setup.raws) /\ k + 1 - 1 = k
        BY <2>3, <2>4, <3>1
      <4>2. TakeFramedRequest(After(setup, k), FALSE).verdict = "ready"
        <5>1. PICK j \in 1..Len(setup.raws) : j - 1 = k
          BY <4>1
        <5> QED
          BY <2>7, <5>1 DEF CarriesFraming
      <4> QED
        BY <2>8, <4>2
    <3> QED
      BY <2>3, <2>4, <3>1
  <2>10. TakeFramedRequest(After(setup, k), TRUE) = TakeFramedRequest(After(setup, k), FALSE)
    <3>1. After(setup, k) \in Bytes
      BY <2>1, <2>6 DEF OnTheWire
    <3>2. After(setup, k) \in Beginnings(After(setup, k))
      <4>1. Begins(After(setup, k), After(setup, k))
        BY <3>1 DEF Begins, Bytes
      <4> QED
        BY <4>1, BeginsIsBeginning
    <3> QED
      BY <2>3, <2>7, <3>2 DEF CarriesFraming
  <2>11. setup.refusal = 0
    BY <2>4, <2>7, <2>8, <2>9, <2>10 DEF NoRequestMore
  <2>12. served = setup.raws
    <3>1. SubSeq(setup.raws, 1, Len(setup.raws)) = setup.raws
      BY <1>1, WireFacts, SubSeqFull
    <3> QED
      BY <2>1, <2>3, <2>4, <2>9, <3>1 DEF ServedFirst
  <2> QED
    BY <2>4, <2>6, <2>9, <2>11, <2>12
<1> QED
  BY OnWire, AlwaysHeld, SetupKept, <1>1, PTL

-------------------------------------------------------------------------------
(* The connection implements HttpSession: Handle is Respond or, for        *)
(* requests without framing, nothing or End; every other step is nothing   *)
(* or End.                                                                 *)

Phase ==
  IF pc = "upgraded" /\ setup.framed THEN "switched"
  ELSE IF pc \in Ended THEN "over" ELSE "open"
Pending == SubSeq(setup.raws, Len(Faithful) + 1, Len(setup.raws))

LEMMA SessionStarts == Init => Session!Init
<1> SUFFICES ASSUME Init PROVE Session!Init
  OBVIOUS
<1>1. setup \in Setups /\ served = <<>> /\ pc = "parse"
  BY DEF Init
<1>2. Faithful = <<>> /\ Phase = "open"
  BY <1>1 DEF Faithful, Phase, Ended
<1>3. Pending = setup.raws
  <2>1. setup.raws \in Seq(Bytes)
    BY <1>1, WireFacts
  <2>2. SubSeq(setup.raws, 1, Len(setup.raws)) = setup.raws
    BY <2>1, SubSeqFull
  <2> QED
    BY <1>2, <2>2 DEF Pending
<1> QED
  BY <1>1, <1>2, <1>3 DEF Session!Init, Phase, Pending

\* A step that answers nothing leaves the session as it is, or ends it.
LEMMA SilentStep ==
  ASSUME setup' = setup, Faithful' = Faithful, Phase = "open", Phase' \in {"open", "over"}
  PROVE  [Session!Next]_(Session!vars)
<1>1. Pending' = Pending
  BY DEF Pending
<1>2. CASE Phase' = "open"
  BY <1>1, <1>2 DEF Session!vars, Phase, Pending
<1>3. CASE Phase' = "over"
  BY <1>1, <1>3 DEF Session!Next, Session!End, Phase, Pending
<1> QED
  BY <1>2, <1>3

LEMMA HandleAnswers ==
  ASSUME IInv, WireInv, setup \in Setups, Handle
  PROVE  [Session!Next]_(Session!vars)
<1>1. pc = "handling" /\ UNCHANGED <<setup, request>> /\ Phase = "open"
  BY DEF Handle, clientVars, Phase, Ended
<1>2. PICK o : Respond(o)
  BY DEF Handle
<1>3. served' = Append(served, request)
  BY <1>2 DEF Respond
<1>4. PICK r \in Responses : Ending(r) \/ GoingOn(r) \/ Leaving(r)
  BY <1>2, RespondLeads
<1>5. /\ pc' \in {"closed", "parse", "upgraded"}
      /\ pc' = "parse" => ~LastAllowed(handled + 1)
      /\ pc' = "upgraded" => HasUpgrade(request)
  BY <1>4 DEF Ending, GoingOn, Leaving, EnterParse
<1>6. CASE ~setup.framed
  <2>1. Faithful' = Faithful /\ Phase' \in {"open", "over"}
    BY <1>1, <1>5, <1>6 DEF Faithful, Phase, Ended
  <2> QED
    BY <1>1, <2>1, SilentStep
<1>7. CASE setup.framed
  <2>1. ServedFirst /\ OnTheWire
    BY <1>1, <1>7 DEF WireInv, Follows, Running
  <2>2. PICK k \in Nat, count \in Nat : k = Len(served) /\ count = Len(setup.raws)
    BY <2>1, Position, WireFacts
  <2>3. k < count /\ request = setup.raws[k + 1] /\ handled = k /\ k < MaxRequests
    <3>1. TakenOff = k + 1
      BY <1>1, <2>2 DEF TakenOff
    <3>2. handled < MaxRequests
      BY <1>1 DEF IInv, OneAnswerEach
    <3> QED
      BY <1>1, <2>1, <2>2, <3>1, <3>2 DEF OnTheWire
  <2>4. setup.raws \in Seq(Bytes)
    BY WireFacts
  <2>5. Pending # <<>> /\ Head(Pending) = request /\ Tail(Pending) = SubSeq(setup.raws, k + 2, count)
    <3>1. Pending = SubSeq(setup.raws, k + 1, count)
      BY <1>7, <2>2 DEF Pending, Faithful
    <3>2. \A i \in (k + 1)..count : setup.raws[i] \in Bytes
      BY <2>2, <2>4
    <3>3. k + 1 \in Int /\ count \in Int /\ k + 1 =< count
      BY <2>3
    <3>4. Head(Pending) = setup.raws[k + 1] /\ Tail(Pending) = SubSeq(setup.raws, k + 1 + 1, count)
      BY <3>1, <3>2, <3>3, HeadTailOfSubSeq
    <3>5. Len(Pending) = count - (k + 1) + 1 /\ Len(Pending) > 0
      <4>1. Len(SubSeq(setup.raws, k + 1, count)) = IF k + 1 =< count THEN count - (k + 1) + 1 ELSE 0
        BY <3>2, <3>3, SubSeqProperties
      <4> QED
        BY <3>1, <3>3, <4>1
    <3> QED
      BY <2>3, <3>4, <3>5
  <2>6. served' = Append(served, Head(Pending)) /\ Len(served') = k + 1
    <3>1. request \in Bytes
      BY <2>2, <2>3, <2>4
    <3> QED
      BY <1>3, <2>1, <2>2, <2>5, <3>1, AppendProperties DEF ServedFirst
  <2>7. Pending' = Tail(Pending)
    <3>1. Pending' = SubSeq(setup.raws, k + 1 + 1, count)
      BY <1>1, <1>7, <2>2, <2>6 DEF Pending, Faithful
    <3> QED
      BY <2>5, <3>1, SMTT(30)
  <2>8. /\ Phase' \in {"open", "over", "switched"}
        /\ Phase' = "open" => Len(served') < MaxRequests
        /\ Phase' = "switched" => HasUpgrade(Head(Pending))
    BY <1>1, <1>5, <2>2, <2>3, <2>5, <2>6, ConnectionAssumption DEF Phase, Ended, LastAllowed
  <2>9. Faithful = served /\ Faithful' = served'
    BY <1>1, <1>7 DEF Faithful
  <2>10. Len(served) < MaxRequests
    BY <2>2, <2>3
  <2> QED
    BY <1>1, <2>5, <2>6, <2>7, <2>8, <2>9, <2>10 DEF Session!Next, Session!Respond, Phase, Pending
<1> QED
  BY <1>6, <1>7

\* handle_stream's loop, with its reads and timers, answers a client whose
\* requests carry their framing as HttpSession says.
THEOREM SessionImplemented == Spec => ImplementsSession
<1>1. ASSUME IInv, WireInv, setup \in Setups, [Next]_vars
      PROVE  [Session!Next]_(Session!vars)
  <2>1. CASE Handle
    BY <1>1, <2>1, HandleAnswers
  <2>2. CASE Finished \/ UNCHANGED vars
    BY <2>2 DEF Finished, vars, clientVars, Session!vars, Faithful
  <2>3. CASE Parse \/ Read \/ ReadEnd \/ ReadTimeout \/ ReadError \/ Panic \/ Tick \/ Delay \/ Close \/ Reset
    <3>1. setup' = setup /\ served' = served
      BY <2>3 DEF Parse, Read, ReadEnd, ReadTimeout, ReadError, Panic, Tick, Delay, Close, Reset,
                  Accept, Reject, Quit, AtInputEnd, clientVars, timers
    <3>2. pc \notin Ended /\ pc' # "upgraded"
      BY <2>3 DEF Parse, Read, ReadEnd, ReadTimeout, ReadError, Panic, Tick, Delay, Close, Reset,
                  Accept, Reject, Quit, AtInputEnd, CanTick, Ended
    <3>3. Faithful' = Faithful /\ Phase = "open" /\ Phase' \in {"open", "over"}
      BY <3>1, <3>2 DEF Faithful, Phase, Ended
    <3> QED
      BY <3>1, <3>3, SilentStep
  <2> QED
    BY <1>1, <2>1, <2>2, <2>3 DEF Next, ServerNext
<1> QED
  BY SessionStarts, Inductive, OnWire, SetupKept, <1>1, PTL DEF Spec, ImplementsSession, Session!Spec

===============================================================================
