--------------------------- MODULE SyncServerProofs ---------------------------
(***************************************************************************)
(* Theorems about SyncServer, for every pool, every set of connections and *)
(* every number of stops: its accept loop looks at the shutdown signal in  *)
(* time, a shutdown is graceful, and connections are served in order.  A   *)
(* step of the server takes its pool along or leaves it alone, so that the *)
(* invariants of ThreadPoolProofs are at hand.                             *)
(***************************************************************************)
EXTENDS SyncServer, ThreadPoolProofs

\* A connection accepted after the signal is the last: the loop is past the
\* accept and meets the signal before the next.
LateMeansLast == late =< 1 /\ (late = 1 => signal = "sent" /\ loop # "accept")

SInv == SyncTypeOK /\ LateMeansLast

-------------------------------------------------------------------------------
LEMMA SyncInitOK == SyncInit => SInv
  BY PoolAssumption DEF SyncInit, Init, SInv, SyncTypeOK, LateMeansLast

\* Steps outside stop() and the pool.
LEMMA LoopKeeps ==
  ASSUME SInv,
         \/ \E c \in Jobs : Arrive(c)
         \/ Signal \/ CheckShutdown \/ AcceptConnection \/ AcceptNothing
  PROVE  SInv'
  <1> USE DEF SInv, SyncTypeOK, LateMeansLast
  <1>1. ASSUME NEW c \in Jobs, Arrive(c) PROVE SInv'
    BY <1>1 DEF Arrive, vars, loopVars, stopVars
  <1>2. CASE Signal
    BY <1>2 DEF Signal, vars, loopVars, listenerVars, stopVars
  <1>3. CASE CheckShutdown
    BY <1>3 DEF CheckShutdown, ShutdownReceived, vars, listenerVars, stopVars
  <1>4. CASE AcceptConnection
    <2>1. Head(waiting) \in Jobs /\ Tail(waiting) \in Seq(Jobs)
      BY <1>4 DEF AcceptConnection
    <2>2. late' =< 1
      BY <1>4 DEF AcceptConnection
    <2>3. QED
      BY <1>4, <2>1, <2>2, PoolAssumption DEF AcceptConnection, vars, stopVars
  <1>5. CASE AcceptNothing
    BY <1>5 DEF AcceptNothing, vars, listenerVars, stopVars
  <1>6. QED
    BY <1>1, <1>2, <1>3, <1>4, <1>5

LEMMA HandOverKeeps == SInv /\ HandOver => SInv'
  BY PoolAssumption
  DEF SInv, SyncTypeOK, LateMeansLast, HandOver, GiveToPool, Run, AfterHandOver, listenerVars, stopVars

\* One caller at a time is inside stop().
LEMMA StopKeeps ==
  ASSUME SInv, LoopStop \/ OtherStop \/ StopProceeds \/ StopEnds
  PROVE  SInv'
  <1> USE DEF SInv, SyncTypeOK, LateMeansLast
  <1>1. CASE LoopStop
    BY <1>1 DEF LoopStop, StopBegin, PoolIsFree, listenerVars
  <1>2. CASE OtherStop
    BY <1>2 DEF OtherStop, StopBegin, PoolIsFree, listenerVars, loopVars
  <1>3. CASE StopProceeds
    BY <1>3 DEF StopProceeds, SendTerminate, Join, listenerVars, loopVars
  <1>4. CASE StopEnds
    BY <1>4 DEF StopEnds, Join, listenerVars
  <1>5. QED
    BY <1>1, <1>2, <1>3, <1>4

LEMMA WorkerKeeps ==
  ASSUME SInv, NEW w \in Workers, WorkerStep(w)
  PROVE  SInv'
  <1>1. UNCHANGED stopVars
    BY DEF WorkerStep, WorkerNext, LockReceiver, ReceiveJob, Finish, ReceiveTerminate, Panic, Leave
  <1>2. UNCHANGED <<listenerVars, loopVars, signal, stopper>>
    BY DEF WorkerStep
  <1>3. QED
    BY <1>1, <1>2
    DEF SInv, SyncTypeOK, LateMeansLast, stopVars, listenerVars, loopVars

LEMMA SyncInvStep == SInv /\ [SyncNext]_syncVars => SInv'
  <1> SUFFICES ASSUME SInv, [SyncNext]_syncVars PROVE SInv'
    OBVIOUS
  <1>1. CASE UNCHANGED syncVars
    BY <1>1
    DEF SInv, SyncTypeOK, LateMeansLast, syncVars, vars, stopVars, listenerVars, loopVars
  <1>2. CASE SyncNext
    BY <1>1, <1>2, LoopKeeps, HandOverKeeps, StopKeeps, WorkerKeeps DEF SyncNext, SyncRest
  <1>3. QED
    BY <1>1, <1>2

-------------------------------------------------------------------------------
\* Every step of the server is a step of its pool, or none for the pool.
LEMMA StepRefines == SInv /\ [SyncNext]_syncVars => [Next]_vars
  <1> SUFFICES ASSUME SInv, [SyncNext]_syncVars PROVE [Next]_vars
    OBVIOUS
  <1>1. CASE \/ \E c \in Jobs : Arrive(c)
             \/ Signal \/ CheckShutdown \/ AcceptConnection \/ AcceptNothing
             \/ SyncRest \/ UNCHANGED syncVars
    BY <1>1
    DEF Arrive, Signal, CheckShutdown, AcceptConnection, AcceptNothing, SyncRest, syncVars
  <1>2. CASE HandOver
    BY <1>2 DEF HandOver, GiveToPool, SInv, SyncTypeOK, Next
  <1>3. CASE LoopStop \/ OtherStop \/ StopProceeds \/ StopEnds
    BY <1>3 DEF LoopStop, OtherStop, StopProceeds, StopEnds, Next
  <1>4. ASSUME NEW w \in Workers, WorkerStep(w) PROVE [Next]_vars
    BY <1>4 DEF WorkerStep, Next
  <1>5. QED
    BY <1>1, <1>2, <1>3, <1>4 DEF SyncNext

\* The types of the accept loop; one caller at a time is inside stop().
THEOREM SyncTypeCorrect == SyncSpec => []SyncTypeOK
  <1>1. SInv => SyncTypeOK
    BY DEF SInv
  <1>2. QED
    BY <1>1, SyncInitOK, SyncInvStep, PTL DEF SyncSpec

\* run_until_shutdown accepts at most one connection after the signal.
THEOREM SignalIsHeeded == SyncSpec => []OneAcceptAfterSignal
  <1>1. SInv => OneAcceptAfterSignal
    BY DEF SInv, LateMeansLast, OneAcceptAfterSignal
  <1>2. QED
    BY <1>1, SyncInitOK, SyncInvStep, PTL DEF SyncSpec

-------------------------------------------------------------------------------
(* The graceful shutdown.                                                  *)

AllPanicked == \A w \in Workers : pc[w] = "panicked"

\* Before the first stop() no worker has been told to end.
UntouchedBeforeStop ==
  stops = 0 => stopPhase = "idle" /\ \A w \in Workers : pc[w] # "terminated"

\* A connection that has arrived is in the backlog, with the loop, or known
\* to the pool.
ArrivedIsSomewhere ==
  \A i \in 1..Len(arrived) :
    \/ \E k \in 1..Len(waiting) : waiting[k] = arrived[i]
    \/ arrived[i] = conn
    \/ status[arrived[i]] # "new"

\* The pool refuses a connection only if its workers panicked or if someone
\* other than the loop stopped it.
RefusedForAReason ==
  \A c \in Jobs : status[c] = "refused" =>
    AllPanicked \/ (stops >= 1 /\ (loop \in {"stopping", "returned"} => stops >= 2))

ReturnedMeansGone == loop = "returned" => ~ReceiverAlive

GInv == UntouchedBeforeStop /\ ArrivedIsSomewhere /\ RefusedForAReason /\ ReturnedMeansGone

\* What a step of the pool never undoes.
LEMMA PoolMonotone ==
  ASSUME IInv, [Next]_vars
  PROVE  /\ \A w \in Workers : pc[w] \in Gone => pc'[w] = pc[w]
         /\ \A c \in Jobs : status[c] # "new" => status'[c] # "new"
         /\ stops \in Nat /\ stops' \in Nat /\ stops' >= stops
  <1> USE DEF IInv, TypeOK, Gone
  <1>1. ASSUME NEW j \in Jobs, Run(j)
        PROVE  UNCHANGED <<pc, stops>> /\ \A c \in Jobs : status[c] # "new" => status'[c] # "new"
    BY <1>1 DEF Run, workerVars, stopVars
  <1>2. CASE StopBegin \/ SendTerminate \/ Join \/ Rest \/ UNCHANGED vars
    BY <1>2, PoolAssumption
    DEF StopBegin, SendTerminate, Join, Rest, vars, workerVars, stopVars
  <1>3. ASSUME NEW w \in Workers, LockReceiver(w) \/ ReceiveJob(w) \/ Finish(w)
        PROVE  /\ \A v \in Workers : pc[v] \in Gone => pc'[v] = pc[v]
               /\ \A c \in Jobs : status[c] # "new" => status'[c] # "new"
               /\ stops' = stops
    BY <1>3 DEF LockReceiver, ReceiveJob, Finish, stopVars
  <1>4. ASSUME NEW w \in Workers, ReceiveTerminate(w) \/ Panic(w)
        PROVE  /\ \A v \in Workers : pc[v] \in Gone => pc'[v] = pc[v]
               /\ \A c \in Jobs : status[c] # "new" => status'[c] # "new"
               /\ stops' = stops
    BY <1>4 DEF ReceiveTerminate, Panic, Leave, stopVars
  <1>5. stops \in Nat
    BY PoolAssumption
  <1>6. QED
    BY <1>1, <1>2, <1>3, <1>4, <1>5 DEF Next, WorkerNext

\* A Terminate is received only after a stop().
LEMMA UntouchedKeeps ==
  ASSUME IInv, UntouchedBeforeStop, [Next]_vars
  PROVE  UntouchedBeforeStop'
  <1> USE DEF UntouchedBeforeStop
  <1>1. ASSUME NEW j \in Jobs, Run(j) PROVE UntouchedBeforeStop'
    BY <1>1 DEF Run, workerVars, stopVars
  <1>2. CASE StopBegin
    BY <1>2, PoolAssumption DEF StopBegin, IInv, TypeOK
  <1>3. CASE SendTerminate \/ Join \/ Rest \/ UNCHANGED vars
    BY <1>3 DEF SendTerminate, Join, Rest, vars, workerVars, stopVars
  <1>4. ASSUME NEW w \in Workers, LockReceiver(w) \/ ReceiveJob(w) \/ Finish(w)
        PROVE  UntouchedBeforeStop'
    BY <1>4 DEF LockReceiver, ReceiveJob, Finish, stopVars, IInv, TypeOK
  <1>5. ASSUME NEW w \in Workers, ReceiveTerminate(w) PROVE UntouchedBeforeStop'
    <2>1. ReceiverAlive /\ queue[1] = Terminate /\ 1 \in 1..Len(queue)
      BY <1>5 DEF ReceiveTerminate, ReceiverAlive, Gone, IInv, TypeOK
    <2>2. stops # 0
      BY <2>1 DEF IInv, IdleMeansUntouched, PoolIsFree
    <2>3. QED
      BY <1>5, <2>2 DEF ReceiveTerminate, Leave, stopVars
  <1>6. ASSUME NEW w \in Workers, Panic(w) PROVE UntouchedBeforeStop'
    BY <1>6 DEF Panic, Leave, stopVars, IInv, TypeOK
  <1>7. QED
    BY <1>1, <1>2, <1>3, <1>4, <1>5, <1>6 DEF Next, WorkerNext

\* A connection moves on from the backlog to the loop, and on to the pool.
LEMMA ArrivedKeeps ==
  ASSUME IInv, SInv, ArrivedIsSomewhere, [SyncNext]_syncVars
  PROVE  ArrivedIsSomewhere'
  <1>1. \A c \in Jobs : status[c] # "new" => status'[c] # "new"
    BY StepRefines, PoolMonotone
  <1>2. arrived \in Seq(Jobs) /\ waiting \in Seq(Jobs) /\ \A i \in 1..Len(arrived) : arrived[i] \in Jobs
    BY DEF SInv, SyncTypeOK
  <1> USE DEF ArrivedIsSomewhere
  <1>3. ASSUME NEW c \in Jobs, Arrive(c) PROVE ArrivedIsSomewhere'
    <2>1. /\ arrived' = Append(arrived, c) /\ waiting' = Append(waiting, c)
          /\ conn' = conn /\ status' = status
      BY <1>3 DEF Arrive, vars, loopVars
    <2>2. /\ Len(arrived') = Len(arrived) + 1 /\ arrived'[Len(arrived) + 1] = c
          /\ \A i \in 1..Len(arrived) : arrived'[i] = arrived[i]
          /\ Len(waiting') = Len(waiting) + 1 /\ waiting'[Len(waiting) + 1] = c
          /\ \A k \in 1..Len(waiting) : waiting'[k] = waiting[k]
          /\ Len(arrived) \in Nat /\ Len(waiting) \in Nat
      BY <1>2, <2>1
    <2>3. \A i \in 1..Len(arrived') : i \in 1..Len(arrived) \/ i = Len(arrived) + 1
      BY <2>2
    <2>4. \A k \in 1..Len(waiting) : k \in 1..Len(waiting')
      BY <2>2
    <2>5. Len(waiting) + 1 \in 1..Len(waiting')
      BY <2>2
    <2>6. ASSUME NEW i \in 1..Len(arrived)
          PROVE  \/ \E k \in 1..Len(waiting') : waiting'[k] = arrived'[i]
                 \/ arrived'[i] = conn'
                 \/ status'[arrived'[i]] # "new"
      BY <2>1, <2>2, <2>4
    <2>7. QED
      BY <2>2, <2>3, <2>5, <2>6
  <1>4. CASE AcceptConnection
    <2>1. /\ arrived' = arrived /\ status' = status /\ waiting # <<>>
          /\ conn' = Head(waiting) /\ waiting' = Tail(waiting)
          /\ conn = NoJob
      BY <1>4 DEF AcceptConnection, vars, SInv, SyncTypeOK
    <2>2. /\ conn' = waiting[1] /\ Len(waiting) \in Nat /\ Len(waiting') = Len(waiting) - 1
          /\ \A k \in 1..Len(waiting') : waiting'[k] = waiting[k + 1]
      BY <1>2, <2>1
    <2>3. ASSUME NEW k \in 1..Len(waiting), k # 1
          PROVE  \E m \in 1..Len(waiting') : waiting'[m] = waiting[k]
      <3>1. PICK m \in 1..Len(waiting') : m + 1 = k
        <4>1. k - 1 \in 1..Len(waiting') /\ (k - 1) + 1 = k
          BY <2>2, <2>3
        <4>2. QED
          BY <4>1
      <3>2. QED
        BY <2>2, <3>1
    <2>4. \A i \in 1..Len(arrived) : arrived[i] # conn
      BY <1>2, <2>1, PoolAssumption
    <2>5. ASSUME NEW i \in 1..Len(arrived), NEW k \in 1..Len(waiting), waiting[k] = arrived[i]
          PROVE  (\E m \in 1..Len(waiting') : waiting'[m] = arrived[i]) \/ arrived[i] = conn'
      <3>1. CASE k = 1
        BY <2>2, <2>5, <3>1
      <3>2. CASE k # 1
        BY <2>3, <2>5, <3>2
      <3>3. QED
        BY <3>1, <3>2
    <2>6. QED
      BY <2>1, <2>4, <2>5
  <1>5. CASE HandOver
    <2>1. /\ UNCHANGED <<arrived, waiting>> /\ conn \in Jobs /\ status'[conn] # "new"
      BY <1>5 DEF HandOver, GiveToPool, Run, listenerVars, SInv, SyncTypeOK, IInv, TypeOK
    <2>2. QED
      BY <1>1, <1>2, <2>1
  <1>6. CASE UNCHANGED <<arrived, waiting, conn>>
    BY <1>1, <1>2, <1>6
  <1>7. CASE \/ Signal \/ CheckShutdown \/ AcceptNothing \/ LoopStop \/ OtherStop
             \/ StopProceeds \/ StopEnds \/ SyncRest \/ UNCHANGED syncVars
    <2>1. UNCHANGED <<arrived, waiting, conn>>
      BY <1>7 DEF Signal, CheckShutdown, AcceptNothing, LoopStop, OtherStop, StopProceeds,
         StopEnds, SyncRest, syncVars, listenerVars, loopVars
    <2>2. QED
      BY <1>6, <2>1
  <1>8. ASSUME NEW w \in Workers, WorkerStep(w) PROVE ArrivedIsSomewhere'
    <2>1. UNCHANGED <<arrived, waiting, conn>>
      BY <1>8 DEF WorkerStep, listenerVars, loopVars
    <2>2. QED
      BY <1>6, <2>1
  <1>9. QED
    BY <1>3, <1>4, <1>5, <1>7, <1>8 DEF SyncNext

\* The pool's threads do not come back.
LEMMA GoneForGood ==
  ASSUME IInv, [Next]_vars
  PROVE  /\ AllPanicked => AllPanicked'
         /\ ~ReceiverAlive => ~ReceiverAlive'
  BY PoolMonotone DEF AllPanicked, ReceiverAlive, Gone

\* Only run() refuses, and only without a receiver.
LEMMA RefusedByRun ==
  ASSUME IInv, [Next]_vars, NEW c \in Jobs, status'[c] = "refused", status[c] # "refused"
  PROVE  ~ReceiverAlive /\ \E j \in Jobs : Run(j)
  <1> USE DEF IInv, TypeOK
  <1>1. CASE StopBegin \/ SendTerminate \/ Join \/ Rest \/ UNCHANGED vars
    BY <1>1 DEF StopBegin, SendTerminate, Join, Rest, vars
  <1>2. ASSUME NEW w \in Workers, WorkerNext(w) PROVE FALSE
    BY <1>2 DEF WorkerNext, LockReceiver, ReceiveJob, Finish, ReceiveTerminate, Panic, Leave
  <1>3. ASSUME NEW j \in Jobs, Run(j) PROVE ~ReceiverAlive
    BY <1>3 DEF Run
  <1>4. QED
    BY <1>1, <1>2, <1>3 DEF Next

LEMMA RefusedKeeps ==
  ASSUME IInv, SInv, UntouchedBeforeStop, RefusedForAReason, [SyncNext]_syncVars
  PROVE  RefusedForAReason'
  <1> SUFFICES ASSUME NEW c \in Jobs, status'[c] = "refused", ~AllPanicked'
               PROVE  stops' >= 1 /\ (loop' \in {"stopping", "returned"} => stops' >= 2)
    BY DEF RefusedForAReason
  <1>1. [Next]_vars
    BY StepRefines
  <1>2. /\ ~AllPanicked /\ stops \in Nat /\ stops' \in Nat /\ stops' >= stops
        /\ \A w \in Workers : pc[w] \in Gone => pc'[w] = pc[w]
    BY <1>1, GoneForGood, PoolMonotone
  <1>3. loop' \in {"stopping", "returned"} =>
          loop \in {"stopping", "returned"} \/ LoopStop
    BY DEF SyncNext, Arrive, Signal, CheckShutdown, AcceptConnection, AcceptNothing, HandOver,
       AfterHandOver, OtherStop, StopProceeds, StopEnds, WorkerStep, SyncRest, SInv, SyncTypeOK,
       loopVars, syncVars
  <1>4. CASE status[c] = "refused"
    <2>1. stops >= 1 /\ (loop \in {"stopping", "returned"} => stops >= 2)
      BY <1>2, <1>4 DEF RefusedForAReason
    <2>2. LoopStop => stops' = stops + 1
      BY DEF LoopStop, StopBegin
    <2>3. QED
      BY <1>2, <1>3, <2>1, <2>2
  <1>5. CASE status[c] # "refused"
    <2>1. ~ReceiverAlive /\ \E j \in Jobs : Run(j)
      BY <1>1, <1>5, RefusedByRun
    <2>2. PICK w \in Workers : pc[w] = "terminated"
      BY <1>2, <2>1 DEF ReceiverAlive, AllPanicked, Gone
    <2>3. stops # 0
      BY <2>2 DEF UntouchedBeforeStop
    <2>4. loop' \notin {"stopping", "returned"}
      <3>1. UNCHANGED pc /\ status' # status /\ UNCHANGED stopVars
        BY <1>5, <2>1 DEF Run, workerVars
      <3>2. ~(LoopStop \/ OtherStop \/ StopProceeds \/ StopEnds)
        BY <3>1 DEF LoopStop, OtherStop, StopProceeds, StopEnds, StopBegin, SendTerminate, Join
      <3>3. ASSUME NEW v \in Workers, WorkerStep(v) PROVE FALSE
        BY <3>1, <3>3 DEF WorkerStep, WorkerNext, LockReceiver, ReceiveJob, Finish,
           ReceiveTerminate, Panic, Leave, IInv, TypeOK, Gone
      <3>4. ~UNCHANGED vars
        BY <3>1 DEF vars
      <3>5. HandOver
        BY <3>2, <3>3, <3>4 DEF SyncNext, Arrive, Signal, CheckShutdown, AcceptConnection,
           AcceptNothing, SyncRest, syncVars
      <3>6. QED
        BY <3>5 DEF HandOver, AfterHandOver
    <2>5. QED
      BY <1>2, <2>3, <2>4
  <1>6. QED
    BY <1>4, <1>5

\* stop() returns to the loop only when no worker is left.
LEMMA ReturnedKeeps ==
  ASSUME IInv, IInv', SInv, UntouchedBeforeStop, ReturnedMeansGone, [SyncNext]_syncVars
  PROVE  ReturnedMeansGone'
  <1>1. [Next]_vars
    BY StepRefines
  <1>2. CASE loop = "returned"
    BY <1>1, <1>2, GoneForGood DEF ReturnedMeansGone
  <1>3. CASE loop # "returned" /\ loop' = "returned"
    <2>1. StopEnds
      BY <1>3
      DEF SyncNext, Arrive, Signal, CheckShutdown, AcceptConnection, AcceptNothing, HandOver,
         AfterHandOver, LoopStop, OtherStop, StopProceeds, WorkerStep, SyncRest, loopVars, syncVars
    <2>2. stopPhase # "idle" /\ stopPhase' = "idle" /\ stops' = stops
      BY <2>1 DEF StopEnds, Join
    <2>3. stops' > 0
      BY <1>1, <2>2, PoolMonotone DEF UntouchedBeforeStop
    <2>4. QED
      BY <2>2, <2>3 DEF IInv, StoppedMeansGone, PoolIsFree, ReturnedMeansGone
  <1>4. QED
    BY <1>2, <1>3 DEF ReturnedMeansGone

\* When run_until_shutdown returns, what it accepted has been served, unless
\* every worker panicked or another stop() came first.
THEOREM ShutdownIsGraceful == SyncSpec => []GracefulShutdown
  <1> DEFINE All == IInv /\ SInv /\ GInv
  <1>1. SyncInit => All
    <2>1. SyncInit => GInv
      BY DEF SyncInit, Init, GInv, UntouchedBeforeStop, ArrivedIsSomewhere, RefusedForAReason,
         ReturnedMeansGone
    <2>2. QED
      BY <2>1, SyncInitOK, InvInit DEF SyncInit
  <1>2. All /\ [SyncNext]_syncVars => All'
    <2> SUFFICES ASSUME All, [SyncNext]_syncVars PROVE All'
      OBVIOUS
    <2>1. IInv' /\ SInv'
      BY StepRefines, InvStep, SyncInvStep
    <2>2. GInv'
      BY <2>1, StepRefines, UntouchedKeeps, ArrivedKeeps, RefusedKeeps, ReturnedKeeps DEF GInv
    <2>3. QED
      BY <2>1, <2>2
  <1>3. All => GracefulShutdown
    <2> SUFFICES ASSUME All, loop = "returned", NEW c \in Range(arrived), c \notin Range(waiting)
                 PROVE  \/ status[c] \in {"done", "panicked"}
                        \/ status[c] \in {"lost", "refused"} /\ AllPanicked
                        \/ status[c] = "refused" /\ stops > 1
      BY DEF GracefulShutdown, AllPanicked
    <2>1. PICK i \in 1..Len(arrived) : arrived[i] = c
      BY DEF SInv, SyncTypeOK, Range
    <2>2. c \in Jobs /\ c # conn
      BY <2>1, PoolAssumption DEF SInv, SyncTypeOK
    <2>3. \A k \in 1..Len(waiting) : waiting[k] # c
      BY DEF SInv, SyncTypeOK, Range
    <2>4. status[c] # "new"
      BY <2>1, <2>2, <2>3 DEF GInv, ArrivedIsSomewhere
    <2>5. ~ReceiverAlive /\ queue = <<>>
      BY DEF GInv, ReturnedMeansGone, IInv, NoReceiverNoQueue
    <2>6. status[c] # "queued"
      BY <2>2, <2>5 DEF IInv, QueuePlacement
    <2>7. status[c] # "running"
      BY <2>2, <2>5, PoolAssumption DEF IInv, TaskPlacement, TypeOK, ReceiverAlive, Gone
    <2>8. status[c] = "lost" => AllPanicked
      BY <2>2 DEF IInv, LostOnlyIfAllPanicked, AllPanicked
    <2>9. status[c] = "refused" => AllPanicked \/ stops > 1
      BY <2>2, PoolAssumption DEF GInv, RefusedForAReason, IInv, TypeOK
    <2>10. status[c] \in Statuses
      BY <2>2 DEF IInv, TypeOK
    <2>11. QED
      BY <2>4, <2>6, <2>7, <2>8, <2>9, <2>10 DEF Statuses
  <1>4. QED
    BY <1>1, <1>2, <1>3, PTL DEF SyncSpec

-------------------------------------------------------------------------------
(* First come, first served.                                               *)

Started == {"running", "done", "panicked"}

\* How many connections the pool has been given.
HandedOver == Len(arrived) - Len(waiting) - (IF conn = NoJob THEN 0 ELSE 1)

\* The backlog is the end of what arrived, the connection in the loop's hands
\* the one before it, and the pool knows those before that and no other.
LineIsKept ==
  /\ \A i, k \in 1..Len(arrived) : arrived[i] = arrived[k] => i = k
  /\ HandedOver >= 0
  /\ \A k \in 1..Len(waiting) : waiting[k] = arrived[Len(arrived) - Len(waiting) + k]
  /\ conn # NoJob => conn = arrived[HandedOver + 1]
  /\ \A i \in 1..Len(arrived) : status[arrived[i]] = "new" <=> i > HandedOver
  /\ \A c \in Jobs : status[c] # "new" => \E i \in 1..Len(arrived) : arrived[i] = c

\* The channel holds its connections in the order of their arrival.
ChannelInOrder ==
  \A a, b \in 1..Len(queue) : \A i, k \in 1..Len(arrived) :
    a < b /\ queue[a] = arrived[i] /\ queue[b] = arrived[k] => i < k

FInv == LineIsKept /\ ChannelInOrder /\ FirstComeFirstServed

\* What a step of the pool does to the line, when it is not run(): no job
\* becomes or ceases to be new, none is queued, what stays in the channel stays
\* in its order, and only the channel's head is started.
PoolKeepsLine ==
  /\ \A c \in Jobs : status'[c] = "new" <=> status[c] = "new"
  /\ \A c \in Jobs : status'[c] = "queued" => status[c] = "queued"
  /\ \A a, b \in 1..Len(queue') : a < b /\ queue'[a] \in Jobs /\ queue'[b] \in Jobs =>
       \E d, e \in 1..Len(queue) : d < e /\ queue[d] = queue'[a] /\ queue[e] = queue'[b]
  /\ \A c \in Jobs : status'[c] \in Started /\ status[c] \notin Started =>
       queue # <<>> /\ queue[1] = c

LEMMA SentKeepsLine ==
  ASSUME TypeOK, queue' = queue \/ queue' = Append(queue, Terminate),
         NEW a \in 1..Len(queue'), NEW b \in 1..Len(queue'), a < b,
         queue'[a] \in Jobs, queue'[b] \in Jobs
  PROVE  \E d, e \in 1..Len(queue) : d < e /\ queue[d] = queue'[a] /\ queue[e] = queue'[b]
  <1>1. \A i \in 1..Len(queue') : queue'[i] \in Jobs => i \in 1..Len(queue) /\ queue[i] = queue'[i]
    <2>1. queue \in Seq(Messages) /\ Len(queue) \in Nat
      BY DEF TypeOK
    <2>2. CASE queue' = Append(queue, Terminate)
      <3>1. /\ Len(queue') = Len(queue) + 1 /\ queue'[Len(queue) + 1] = Terminate
            /\ \A i \in 1..Len(queue) : queue'[i] = queue[i]
        BY <2>1, <2>2
      <3>2. QED
        BY <2>1, <3>1, PoolAssumption
    <2>3. QED
      BY <2>2
  <1>2. QED
    BY <1>1

LEMMA TailKeepsLine ==
  ASSUME TypeOK, queue # <<>>, queue' = Tail(queue) \/ queue' = <<>>,
         NEW a \in 1..Len(queue'), NEW b \in 1..Len(queue'), a < b
  PROVE  \E d, e \in 1..Len(queue) : d < e /\ queue[d] = queue'[a] /\ queue[e] = queue'[b]
  <1>1. queue \in Seq(Messages) /\ Len(queue) \in Nat \ {0} /\ queue' = Tail(queue)
    BY DEF TypeOK
  <1>2. Len(queue') = Len(queue) - 1 /\ \A i \in 1..Len(queue') : queue'[i] = queue[i + 1]
    BY <1>1
  <1>3. /\ a + 1 \in 1..Len(queue) /\ b + 1 \in 1..Len(queue) /\ a + 1 < b + 1
        /\ queue[a + 1] = queue'[a] /\ queue[b + 1] = queue'[b]
    BY <1>1, <1>2
  <1>4. QED
    BY <1>3

LEMMA PoolStepKeepsLine ==
  ASSUME IInv,
         \/ StopBegin \/ SendTerminate \/ Join \/ Rest \/ UNCHANGED vars
         \/ \E w \in Workers : WorkerNext(w)
  PROVE  PoolKeepsLine
  <1> USE DEF PoolKeepsLine, Started
  <1>1. CASE StopBegin \/ Join \/ Rest \/ UNCHANGED vars
    <2>1. UNCHANGED <<queue, status>>
      BY <1>1 DEF StopBegin, Join, Rest, vars
    <2>2. QED
      BY <2>1
  <1>2. CASE SendTerminate
    <2>1. status' = status /\ (queue' = queue \/ queue' = Append(queue, Terminate))
      BY <1>2 DEF SendTerminate, Sent
    <2>2. ASSUME NEW a \in 1..Len(queue'), NEW b \in 1..Len(queue'), a < b,
                 queue'[a] \in Jobs, queue'[b] \in Jobs
          PROVE  \E d, e \in 1..Len(queue) : d < e /\ queue[d] = queue'[a] /\ queue[e] = queue'[b]
      <3>1. TypeOK
        BY DEF IInv
      <3>2. QED
        BY ONLY <2>1, <2>2, <3>1, SentKeepsLine
    <2>3. QED
      BY <2>1, <2>2
  <1>3. ASSUME NEW w \in Workers, LockReceiver(w) PROVE PoolKeepsLine
    <2>1. UNCHANGED <<queue, status>>
      BY <1>3 DEF LockReceiver
    <2>2. QED
      BY <2>1
  <1>4. ASSUME NEW w \in Workers, Finish(w) PROVE PoolKeepsLine
    <2>1. status[task[w]] = "running" /\ task[w] \in Jobs
      BY <1>4 DEF Finish, IInv, TypeOK, TaskPlacement
    <2>2. queue' = queue /\ status' = [status EXCEPT ![task[w]] = "done"]
      BY <1>4 DEF Finish
    <2>3. QED
      BY <2>1, <2>2 DEF IInv, TypeOK
  <1>5. ASSUME NEW w \in Workers, ReceiveJob(w) PROVE PoolKeepsLine
    <2>1. /\ queue # <<>> /\ queue' = Tail(queue) /\ Head(queue) = queue[1] /\ queue[1] \in Jobs
          /\ status' = [status EXCEPT ![queue[1]] = "running"]
      BY <1>5 DEF ReceiveJob, AfterReceive, IInv, TypeOK
    <2>2. status[queue[1]] = "queued"
      <3>1. 1 \in 1..Len(queue)
        BY <2>1 DEF IInv, TypeOK
      <3>2. QED
        BY <2>1, <3>1 DEF IInv, QueuePlacement
    <2>3. \A c \in Jobs : c # queue[1] => status'[c] = status[c]
      BY <2>1 DEF IInv, TypeOK
    <2>4. status'[queue[1]] = "running"
      BY <2>1 DEF IInv, TypeOK
    <2>5. ASSUME NEW a \in 1..Len(queue'), NEW b \in 1..Len(queue'), a < b,
                 queue'[a] \in Jobs, queue'[b] \in Jobs
          PROVE  \E d, e \in 1..Len(queue) : d < e /\ queue[d] = queue'[a] /\ queue[e] = queue'[b]
      <3>1. TypeOK
        BY DEF IInv
      <3>2. QED
        BY ONLY <2>1, <2>5, <3>1, TailKeepsLine
    <2>6. QED
      BY <2>1, <2>2, <2>3, <2>4, <2>5
  <1>6. ASSUME NEW w \in Workers, ReceiveTerminate(w) PROVE PoolKeepsLine
    <2>1. queue # <<>> /\ (queue' = Tail(queue) \/ queue' = <<>>)
      BY <1>6 DEF ReceiveTerminate, AfterReceive, Leave
    <2>2. \A c \in Jobs : status'[c] = status[c] \/ (status[c] = "queued" /\ status'[c] = "lost")
      BY <1>6 DEF ReceiveTerminate, Leave
    <2>3. ASSUME NEW a \in 1..Len(queue'), NEW b \in 1..Len(queue'), a < b,
                 queue'[a] \in Jobs, queue'[b] \in Jobs
          PROVE  \E d, e \in 1..Len(queue) : d < e /\ queue[d] = queue'[a] /\ queue[e] = queue'[b]
      <3>1. TypeOK
        BY DEF IInv
      <3>2. QED
        BY ONLY <2>1, <2>3, <3>1, TailKeepsLine
    <2>4. QED
      BY <2>2, <2>3
  <1>7. ASSUME NEW w \in Workers, Panic(w) PROVE PoolKeepsLine
    <2>1. task[w] \in Jobs /\ status[task[w]] = "running" /\ status \in [Jobs -> Statuses]
      BY <1>7 DEF Panic, IInv, TypeOK, TaskPlacement
    <2>2. queue' = queue \/ queue' = <<>>
      BY <1>7 DEF Panic, Leave
    <2>3. status' = [c \in Jobs |->
            IF LastWorker(w) /\ [status EXCEPT ![task[w]] = "panicked"][c] = "queued"
            THEN "lost" ELSE [status EXCEPT ![task[w]] = "panicked"][c]]
      BY <1>7 DEF Panic, Leave
    <2>4. \A c \in Jobs : \/ status'[c] = status[c]
                          \/ status[c] = "queued" /\ status'[c] = "lost"
                          \/ status[c] = "running" /\ status'[c] = "panicked"
      BY <2>1, <2>3
    <2>5. QED
      BY <2>2, <2>4
  <1>8. QED
    BY <1>1, <1>2, <1>3, <1>4, <1>5, <1>6, <1>7 DEF WorkerNext

\* The same line, with a pool that keeps it.
LEMMA LineKeepsThroughPool ==
  ASSUME IInv, SInv, FInv, PoolKeepsLine, UNCHANGED <<arrived, waiting, conn>>
  PROVE  FInv'
  <1>1. arrived \in Seq(Jobs) /\ \A i \in 1..Len(arrived) : arrived[i] \in Jobs
    BY DEF SInv, SyncTypeOK
  <1>2. LineIsKept'
    BY <1>1 DEF FInv, LineIsKept, HandedOver, PoolKeepsLine
  <1>3. ChannelInOrder'
    <2> SUFFICES ASSUME NEW a \in 1..Len(queue'), NEW b \in 1..Len(queue'),
                        NEW i \in 1..Len(arrived), NEW k \in 1..Len(arrived),
                        a < b, queue'[a] = arrived[i], queue'[b] = arrived[k]
                 PROVE  i < k
      BY DEF ChannelInOrder
    <2>1. PICK d \in 1..Len(queue), e \in 1..Len(queue) :
            d < e /\ queue[d] = queue'[a] /\ queue[e] = queue'[b]
      BY <1>1 DEF PoolKeepsLine
    <2>2. QED
      BY <2>1 DEF FInv, ChannelInOrder
  <1>4. FirstComeFirstServed'
    <2> SUFFICES ASSUME NEW i \in 1..Len(arrived), NEW k \in 1..Len(arrived), i < k,
                        status'[arrived[k]] \in Started
                 PROVE  status'[arrived[i]] \notin {"new", "queued"}
      BY DEF FirstComeFirstServed, Started
    <2>1. CASE status[arrived[k]] \in Started
      BY <1>1, <2>1 DEF FInv, FirstComeFirstServed, PoolKeepsLine, Started
    <2>2. CASE status[arrived[k]] \notin Started
      <3>1. queue # <<>> /\ queue[1] = arrived[k]
        BY <1>1, <2>2 DEF PoolKeepsLine
      <3>2. 1 \in 1..Len(queue)
        BY <3>1 DEF IInv, TypeOK
      <3>3. status[arrived[k]] = "queued"
        BY <1>1, <3>1, <3>2 DEF IInv, QueuePlacement
      <3>4. status[arrived[i]] # "new"
        BY <1>1, <3>3 DEF FInv, LineIsKept, HandedOver, SInv, SyncTypeOK
      <3>5. status[arrived[i]] # "queued"
        <4> SUFFICES ASSUME status[arrived[i]] = "queued" PROVE FALSE
          OBVIOUS
        <4>1. PICK b \in 1..Len(queue) : queue[b] = arrived[i]
          BY <1>1 DEF IInv, QueuePlacement
        <4>2. b # 1
          BY <3>1, <4>1 DEF FInv, LineIsKept
        <4>3. k < i
          BY <3>1, <3>2, <4>1, <4>2 DEF FInv, ChannelInOrder
        <4>4. QED
          BY <4>3
      <3>6. QED
        BY <1>1, <3>4, <3>5 DEF PoolKeepsLine
    <2>3. QED
      BY <2>1, <2>2
  <1>5. QED
    BY <1>2, <1>3, <1>4 DEF FInv

\* A new connection joins the end of the line.
LEMMA ArriveKeepsLine ==
  ASSUME IInv, SInv, FInv, NEW c \in Jobs, Arrive(c)
  PROVE  FInv'
  <1>1. /\ arrived \in Seq(Jobs) /\ waiting \in Seq(Jobs)
        /\ \A i \in 1..Len(arrived) : arrived[i] \in Jobs
        /\ Len(arrived) \in Nat /\ Len(waiting) \in Nat
    BY DEF SInv, SyncTypeOK
  <1>2. /\ arrived' = Append(arrived, c) /\ waiting' = Append(waiting, c)
        /\ UNCHANGED <<queue, status, conn>> /\ \A i \in 1..Len(arrived) : arrived[i] # c
    BY <1>1 DEF Arrive, vars, loopVars, Range
  <1>3. /\ Len(arrived') = Len(arrived) + 1 /\ arrived'[Len(arrived) + 1] = c
        /\ \A i \in 1..Len(arrived) : arrived'[i] = arrived[i]
    BY <1>1, <1>2
  <1>4. /\ Len(waiting') = Len(waiting) + 1 /\ waiting'[Len(waiting) + 1] = c
        /\ \A i \in 1..Len(waiting) : waiting'[i] = waiting[i]
    BY <1>1, <1>2
  <1>5. HandedOver' = HandedOver /\ HandedOver \in Nat /\ HandedOver =< Len(arrived)
    BY <1>1, <1>2, <1>3, <1>4 DEF HandedOver, FInv, LineIsKept
  <1>6. status[c] = "new" /\ \A a \in 1..Len(queue) : queue[a] # c
    BY <1>2 DEF FInv, LineIsKept, IInv, QueuePlacement
  <1>7. \A i \in 1..Len(arrived') : i \in 1..Len(arrived) \/ i = Len(arrived) + 1
    BY <1>1, <1>3
  <1>8. LineIsKept'
    <2>1. \A i, k \in 1..Len(arrived') : arrived'[i] = arrived'[k] => i = k
      BY <1>2, <1>3, <1>7 DEF FInv, LineIsKept
    <2>2. \A k \in 1..Len(waiting') : waiting'[k] = arrived'[Len(arrived') - Len(waiting') + k]
      <3> SUFFICES ASSUME NEW k \in 1..Len(waiting')
                   PROVE  waiting'[k] = arrived'[Len(arrived') - Len(waiting') + k]
        OBVIOUS
      <3>1. Len(arrived') - Len(waiting') = Len(arrived) - Len(waiting) /\ Len(waiting) =< Len(arrived)
        BY <1>1, <1>3, <1>4, <1>5 DEF HandedOver
      <3>2. CASE k = Len(waiting) + 1
        BY <1>1, <1>3, <1>4, <3>1, <3>2
      <3>3. CASE k \in 1..Len(waiting)
        <4>1. Len(arrived) - Len(waiting) + k \in 1..Len(arrived)
          BY <1>1, <3>1, <3>3
        <4>2. QED
          BY <1>3, <1>4, <3>1, <3>3, <4>1 DEF FInv, LineIsKept
      <3>4. QED
        BY <1>1, <1>4, <3>2, <3>3
    <2>3. conn' # NoJob => conn' = arrived'[HandedOver' + 1]
      <3>1. conn # NoJob => HandedOver + 1 \in 1..Len(arrived)
        BY <1>1, <1>5 DEF HandedOver
      <3>2. QED
        BY <1>2, <1>3, <1>5, <3>1 DEF FInv, LineIsKept
    <2>4. \A i \in 1..Len(arrived') : status'[arrived'[i]] = "new" <=> i > HandedOver'
      BY <1>1, <1>2, <1>3, <1>5, <1>6, <1>7 DEF FInv, LineIsKept
    <2>5. \A j \in Jobs : status'[j] # "new" => \E i \in 1..Len(arrived') : arrived'[i] = j
      <3>1. \A i \in 1..Len(arrived) : i \in 1..Len(arrived')
        BY <1>1, <1>3
      <3>2. QED
        BY <1>2, <1>3, <3>1 DEF FInv, LineIsKept
    <2>6. QED
      BY <1>5, <2>1, <2>2, <2>3, <2>4, <2>5 DEF LineIsKept
  <1>9. ChannelInOrder'
    BY <1>2, <1>3, <1>6, <1>7 DEF FInv, ChannelInOrder
  <1>10. FirstComeFirstServed'
    BY <1>1, <1>2, <1>3, <1>6, <1>7 DEF FInv, FirstComeFirstServed
  <1>11. QED
    BY <1>8, <1>9, <1>10 DEF FInv

\* The first of the backlog is the next of the line.
LEMMA AcceptKeepsLine ==
  ASSUME IInv, SInv, FInv, AcceptConnection
  PROVE  FInv'
  <1>1. /\ arrived \in Seq(Jobs) /\ waiting \in Seq(Jobs)
        /\ Len(arrived) \in Nat /\ Len(waiting) \in Nat \ {0} /\ conn = NoJob
    BY DEF AcceptConnection, SInv, SyncTypeOK
  <1>2. UNCHANGED <<arrived, queue, status>> /\ conn' = waiting[1] /\ waiting' = Tail(waiting)
    BY DEF AcceptConnection, vars
  <1>3. /\ Len(waiting') = Len(waiting) - 1 /\ conn' # NoJob
        /\ \A k \in 1..Len(waiting') : k + 1 \in 1..Len(waiting) /\ waiting'[k] = waiting[k + 1]
    BY <1>1, <1>2, PoolAssumption
  <1>4. HandedOver' = HandedOver /\ HandedOver = Len(arrived) - Len(waiting)
    BY <1>1, <1>2, <1>3 DEF HandedOver
  <1>5. conn' = arrived'[HandedOver' + 1]
    BY <1>1, <1>2, <1>4 DEF FInv, LineIsKept
  <1>6. ASSUME NEW k \in 1..Len(waiting')
        PROVE  waiting'[k] = arrived'[Len(arrived') - Len(waiting') + k]
    <2>1. waiting'[k] = arrived[Len(arrived) - Len(waiting) + (k + 1)]
      BY <1>3 DEF FInv, LineIsKept
    <2>2. Len(arrived) - Len(waiting) + (k + 1) = Len(arrived') - Len(waiting') + k
      BY <1>1, <1>2, <1>3
    <2>3. QED
      BY <1>2, <2>1, <2>2
  <1>7. LineIsKept'
    BY <1>2, <1>4, <1>5, <1>6 DEF FInv, LineIsKept
  <1>8. QED
    BY <1>2, <1>7 DEF FInv, ChannelInOrder, FirstComeFirstServed

\* What the loop hands over goes behind all it has handed over before.
LEMMA HandOverKeepsLine ==
  ASSUME IInv, SInv, FInv, HandOver
  PROVE  FInv'
  <1>1. /\ arrived \in Seq(Jobs) /\ \A i \in 1..Len(arrived) : arrived[i] \in Jobs
        /\ Len(arrived) \in Nat /\ Len(waiting) \in Nat /\ conn \in Jobs /\ conn # NoJob
        /\ queue \in Seq(Messages) /\ Len(queue) \in Nat /\ status \in [Jobs -> Statuses]
    BY PoolAssumption DEF HandOver, SInv, SyncTypeOK, IInv, TypeOK
  <1>2. /\ UNCHANGED <<arrived, waiting>> /\ conn' = NoJob /\ status[conn] = "new"
        /\ queue' = queue \/ queue' = Append(queue, conn)
        /\ status'[conn] \in {"queued", "refused"}
        /\ \A c \in Jobs : c # conn => status'[c] = status[c]
    BY <1>1 DEF HandOver, GiveToPool, Run, Sent, listenerVars
  <1>3. /\ HandedOver' = HandedOver + 1 /\ HandedOver \in Nat /\ HandedOver + 1 \in 1..Len(arrived)
        /\ conn = arrived[HandedOver + 1]
    BY <1>1, <1>2 DEF HandedOver, FInv, LineIsKept
  <1>4. \A i \in 1..Len(arrived) : i # HandedOver + 1 => arrived[i] # conn /\ status'[arrived[i]] = status[arrived[i]]
    BY <1>1, <1>2, <1>3 DEF FInv, LineIsKept
  <1>5. \A i \in 1..Len(arrived) : status'[arrived[i]] = "new" <=> i > HandedOver + 1
    <2> SUFFICES ASSUME NEW i \in 1..Len(arrived)
                 PROVE  status'[arrived[i]] = "new" <=> i > HandedOver + 1
      OBVIOUS
    <2>1. CASE i = HandedOver + 1
      BY <1>2, <1>3, <2>1
    <2>2. CASE i # HandedOver + 1
      BY <1>3, <1>4, <2>2 DEF FInv, LineIsKept
    <2>3. QED
      BY <2>1, <2>2
  <1>6. LineIsKept'
    <2>1. \A c \in Jobs : status'[c] # "new" => \E i \in 1..Len(arrived') : arrived'[i] = c
      BY <1>2, <1>3 DEF FInv, LineIsKept
    <2>2. QED
      BY <1>2, <1>3, <1>5, <2>1 DEF FInv, LineIsKept
  <1>7. ChannelInOrder'
    <2>1. CASE queue' = queue
      BY <1>2, <2>1 DEF FInv, ChannelInOrder
    <2>2. CASE queue' = Append(queue, conn)
      <3>1. /\ Len(queue') = Len(queue) + 1 /\ queue'[Len(queue) + 1] = conn
            /\ \A a \in 1..Len(queue) : queue'[a] = queue[a]
        BY <1>1, <2>2
      <3> SUFFICES ASSUME NEW a \in 1..Len(queue'), NEW b \in 1..Len(queue'),
                          NEW i \in 1..Len(arrived), NEW k \in 1..Len(arrived),
                          a < b, queue'[a] = arrived[i], queue'[b] = arrived[k]
                   PROVE  i < k
        BY <1>2 DEF ChannelInOrder
      <3>2. a \in 1..Len(queue)
        BY <1>1, <3>1
      <3>3. CASE b \in 1..Len(queue)
        BY <3>1, <3>2, <3>3 DEF FInv, ChannelInOrder
      <3>4. CASE b = Len(queue) + 1
        <4>1. k = HandedOver + 1
          BY <1>4, <3>1, <3>4
        <4>2. status[arrived[i]] = "queued"
          BY <1>1, <3>1, <3>2 DEF IInv, QueuePlacement
        <4>3. ~(i > HandedOver)
          BY <4>2 DEF FInv, LineIsKept
        <4>4. QED
          BY <1>3, <4>1, <4>3
      <3>5. QED
        BY <1>1, <3>1, <3>3, <3>4
    <2>3. QED
      BY <1>2, <2>1, <2>2
  <1>8. FirstComeFirstServed'
    <2> SUFFICES ASSUME NEW i \in 1..Len(arrived), NEW k \in 1..Len(arrived), i < k,
                        status'[arrived[k]] \in Started
                 PROVE  status'[arrived[i]] \notin {"new", "queued"}
      BY <1>2 DEF FirstComeFirstServed, Started
    <2>1. k # HandedOver + 1 /\ status[arrived[k]] \in Started
      BY <1>2, <1>3, <1>4 DEF Started
    <2>2. ~(k > HandedOver)
      BY <2>1 DEF FInv, LineIsKept, Started
    <2>3. i # HandedOver + 1
      BY <1>3, <2>2
    <2>4. QED
      BY <1>4, <2>1, <2>3 DEF FInv, FirstComeFirstServed, Started
  <1>9. QED
    BY <1>6, <1>7, <1>8 DEF FInv

LEMMA LineInit == SyncInit => FInv
  BY PoolAssumption DEF SyncInit, Init, FInv, LineIsKept, HandedOver, ChannelInOrder, FirstComeFirstServed

LEMMA LineStep == IInv /\ SInv /\ FInv /\ [SyncNext]_syncVars => FInv'
  <1> SUFFICES ASSUME IInv, SInv, FInv, [SyncNext]_syncVars PROVE FInv'
    OBVIOUS
  <1>1. CASE \/ Signal \/ CheckShutdown \/ AcceptNothing \/ SyncRest \/ UNCHANGED syncVars
    <2>1. UNCHANGED vars /\ UNCHANGED <<arrived, waiting, conn>>
      BY <1>1 DEF Signal, CheckShutdown, AcceptNothing, SyncRest, syncVars, listenerVars, loopVars
    <2>2. QED
      BY <2>1, PoolStepKeepsLine, LineKeepsThroughPool
  <1>2. CASE LoopStop \/ OtherStop \/ StopProceeds \/ StopEnds
    <2>1. /\ StopBegin \/ SendTerminate \/ Join
          /\ UNCHANGED <<arrived, waiting, conn>>
      BY <1>2 DEF LoopStop, OtherStop, StopProceeds, StopEnds, listenerVars, loopVars
    <2>2. QED
      BY <2>1, PoolStepKeepsLine, LineKeepsThroughPool
  <1>3. ASSUME NEW w \in Workers, WorkerStep(w) PROVE FInv'
    <2>1. WorkerNext(w) /\ UNCHANGED <<arrived, waiting, conn>>
      BY <1>3 DEF WorkerStep, listenerVars, loopVars
    <2>2. QED
      BY <2>1, PoolStepKeepsLine, LineKeepsThroughPool
  <1>4. QED
    BY <1>1, <1>2, <1>3, ArriveKeepsLine, AcceptKeepsLine, HandOverKeepsLine DEF SyncNext

\* Connections are started in the order in which they arrived, through the
\* listener's backlog, the accept loop's hands and the pool's channel.
THEOREM ServedInOrder == SyncSpec => []FirstComeFirstServed
  <1> DEFINE All == IInv /\ SInv /\ FInv
  <1>1. SyncInit => All
    BY LineInit, SyncInitOK, InvInit DEF SyncInit
  <1>2. All /\ [SyncNext]_syncVars => All'
    BY StepRefines, InvStep, SyncInvStep, LineStep
  <1>3. All => FirstComeFirstServed
    BY DEF FInv
  <1>4. QED
    BY <1>1, <1>2, <1>3, PTL DEF SyncSpec
===============================================================================
