------------------------------ MODULE SyncServer ------------------------------
(***************************************************************************)
(* The sync server around its pool (runtime/sync/server.rs): the listener, *)
(* run_until_shutdown's accept loop and its shutdown channel, and stop(),  *)
(* which another thread may call too, as Drop does in the end.  A job of   *)
(* ThreadPool is a connection; the server of run() is the same loop when   *)
(* nobody ever signals a shutdown.                                         *)
(***************************************************************************)
EXTENDS ThreadPool, SequencesExt

VARIABLES arrived,   \* history: the connections clients opened, in order
          waiting,   \* the listener's backlog: those not accepted yet
          loop,      \* where the accept loop is
          conn,      \* the connection it has accepted and not handed over
          signal,    \* the shutdown channel: "open", "sent" or "dropped"
          stopper,   \* who is inside stop(): "loop", "other" or "nobody"
          late       \* history: connections accepted after the signal was sent

loopVars == <<loop, conn, late>>
listenerVars == <<arrived, waiting>>
syncVars == <<vars, listenerVars, loopVars, signal, stopper>>

-------------------------------------------------------------------------------
(* Clients and the owner of the shutdown channel.                          *)

Arrive(c) ==
  /\ c \notin Range(arrived)
  /\ arrived' = Append(arrived, c) /\ waiting' = Append(waiting, c)
  /\ UNCHANGED <<vars, loopVars, signal, stopper>>

Signal ==
  /\ signal = "open"
  /\ signal' \in {"sent", "dropped"}
  /\ UNCHANGED <<vars, listenerVars, loopVars, stopper>>

-------------------------------------------------------------------------------
(* The accept loop.                                                        *)

\* try_recv().is_ok(): a sender dropped without sending is no signal.
MutShutdownReceived == signal = "dropped"
ShutdownReceived == signal = "sent"

CheckShutdown ==
  /\ loop = "check"
  /\ loop' = IF ShutdownReceived THEN "stop" ELSE "accept"
  /\ UNCHANGED <<vars, listenerVars, conn, late, signal, stopper>>

AcceptConnection ==
  /\ loop = "accept" /\ waiting # <<>>
  /\ conn' = Head(waiting) /\ waiting' = Tail(waiting)
  /\ late' = IF signal = "sent" THEN late + 1 ELSE late
  /\ loop' = "handover"
  /\ UNCHANGED <<vars, arrived, signal, stopper>>

\* WouldBlock, after which the loop sleeps, or an error, which it ignores.
AcceptNothing ==
  /\ loop = "accept"
  /\ loop' = "check"
  /\ UNCHANGED <<vars, listenerVars, conn, late, signal, stopper>>

\* Each round of the loop looks at the channel again.
MutAfterHandOver == "accept"
AfterHandOver == "check"

\* handle_stream: pool.lock() waits for a stop() in progress.
GiveToPool(c) == Run(c)
HandOver ==
  /\ loop = "handover"
  /\ GiveToPool(conn)
  /\ loop' = AfterHandOver /\ conn' = NoJob
  /\ UNCHANGED <<listenerVars, late, signal, stopper>>

-------------------------------------------------------------------------------
(* stop(), from the end of the loop or from anyone else.                   *)

LoopStop ==
  /\ loop = "stop"
  /\ StopBegin
  /\ loop' = "stopping" /\ stopper' = "loop"
  /\ UNCHANGED <<listenerVars, conn, late, signal>>

\* One stop() is kept for the loop, whose own is bounded by MaxStops too.
OtherStop ==
  /\ loop \in {"stopping", "returned"} \/ stops + 1 < MaxStops
  /\ StopBegin
  /\ stopper' = "other"
  /\ UNCHANGED <<listenerVars, loopVars, signal>>

StopProceeds ==
  /\ SendTerminate \/ (Join /\ stopPhase' # "idle")
  /\ UNCHANGED <<listenerVars, loopVars, signal, stopper>>

StopEnds ==
  /\ Join /\ stopPhase' = "idle"
  /\ stopper' = "nobody"
  /\ loop' = IF stopper = "loop" THEN "returned" ELSE loop
  /\ UNCHANGED <<listenerVars, conn, late, signal>>

WorkerStep(w) == WorkerNext(w) /\ UNCHANGED <<listenerVars, loopVars, signal, stopper>>

\* Not a step of the code: the system may rest once the loop has returned.
SyncRest == loop = "returned" /\ PoolIsFree /\ UNCHANGED syncVars

SyncInit ==
  /\ Init
  /\ arrived = <<>> /\ waiting = <<>>
  /\ loop = "check" /\ conn = NoJob /\ late = 0
  /\ signal = "open" /\ stopper = "nobody"

SyncNext ==
  \/ \E c \in Jobs : Arrive(c)
  \/ Signal
  \/ CheckShutdown \/ AcceptConnection \/ AcceptNothing \/ HandOver
  \/ LoopStop \/ OtherStop \/ StopProceeds \/ StopEnds
  \/ \E w \in Workers : WorkerStep(w)
  \/ SyncRest

SyncSpec == SyncInit /\ [][SyncNext]_syncVars

\* The loop's thread, stop()'s caller and the workers are scheduled, and
\* connections end, but for the Endless.
SyncFairness ==
  /\ WF_syncVars(CheckShutdown) /\ WF_syncVars(AcceptConnection \/ AcceptNothing)
  /\ WF_syncVars(HandOver) /\ WF_syncVars(LoopStop)
  /\ WF_syncVars(StopProceeds \/ StopEnds)
  /\ \A w \in Workers :
       /\ WF_syncVars(LockReceiver(w) /\ WorkerStep(w))
       /\ WF_syncVars((ReceiveJob(w) \/ ReceiveTerminate(w)) /\ WorkerStep(w))
       /\ WF_syncVars(task[w] \notin Endless /\ (Finish(w) \/ Panic(w)) /\ WorkerStep(w))

SyncFairSpec == SyncSpec /\ SyncFairness

-------------------------------------------------------------------------------
(* Properties.                                                             *)

\* Types of the server's own state; one caller at a time is inside stop(), and
\* the loop holds a connection exactly while it hands it over.
SyncTypeOK ==
  /\ arrived \in Seq(Jobs) /\ waiting \in Seq(Jobs)
  /\ loop \in {"check", "accept", "handover", "stop", "stopping", "returned"}
  /\ conn \in Jobs \cup {NoJob} /\ (conn # NoJob <=> loop = "handover")
  /\ signal \in {"open", "sent", "dropped"}
  /\ stopper \in {"loop", "other", "nobody"}
  /\ stopper = "nobody" <=> stopPhase = "idle"
  /\ stopper = "loop" <=> loop = "stopping"
  /\ late \in Nat

\* When run_until_shutdown returns, every connection it accepted has been
\* served to its end, unless every worker died of a panic or someone else had
\* stopped the pool under the running loop.
GracefulShutdown ==
  loop = "returned" =>
    \A c \in Range(arrived) :
      \/ c \in Range(waiting)
      \/ status[c] \in {"done", "panicked"}
      \/ status[c] \in {"lost", "refused"} /\ \A w \in Workers : pc[w] = "panicked"
      \/ status[c] = "refused" /\ stops > 1

\* The signal is looked at before each accept: it lets in one connection at
\* most, the one of an accept that was already going on.
OneAcceptAfterSignal == late =< 1

\* First come, first served, through the backlog, the loop and the channel:
\* no connection is started before one that arrived earlier.
FirstComeFirstServed ==
  \A i, k \in 1..Len(arrived) :
    i < k /\ status[arrived[k]] \in {"running", "done", "panicked"} =>
      status[arrived[i]] \notin {"new", "queued"}

\* Once the signal is sent run_until_shutdown returns, unless a connection
\* goes on for ever; another thread calling stop() as well does not prevent it.
ShutdownReturns ==
  (signal = "sent") ~>
    (loop = "returned" \/ [](\E w \in Workers : pc[w] = "running" /\ task[w] \in Endless))
===============================================================================
