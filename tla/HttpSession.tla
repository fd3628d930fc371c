----------------------------- MODULE HttpSession -----------------------------
(***************************************************************************)
(* What a connection promises a client whose requests carry their framing, *)
(* with no bytes, no timers and no parser: requests are answered in the    *)
(* order they were sent, each at most once and as it was sent; the session *)
(* may end after any answer, and must after the last one allowed; it is    *)
(* handed to another protocol only as the answer to a request for it.      *)
(***************************************************************************)
EXTENDS Naturals, Sequences

CONSTANTS Sessions,          \* the sequences of requests a client may send
          Limit,             \* how many requests one session may answer
          IsUpgrade(_)       \* whether a request asks for another protocol

VARIABLES pending, answered, phase

vars == <<pending, answered, phase>>

Init == pending \in Sessions /\ answered = <<>> /\ phase = "open"

Respond ==
  /\ phase = "open" /\ pending # <<>> /\ Len(answered) < Limit
  /\ answered' = Append(answered, Head(pending))
  /\ pending' = Tail(pending)
  /\ phase' \in {"open", "over", "switched"}
  /\ phase' = "open" => Len(answered') < Limit
  /\ phase' = "switched" => IsUpgrade(Head(pending))

\* The client leaves, sends nothing more or something that is no request.
End ==
  /\ phase = "open"
  /\ phase' = "over"
  /\ UNCHANGED <<pending, answered>>

Next == Respond \/ End

Spec == Init /\ [][Next]_vars
=============================================================================
