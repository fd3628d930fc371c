--------------------------- MODULE ThreadPoolProofs ---------------------------
(***************************************************************************)
(* Theorems about ThreadPool for every pool size, every set of jobs and    *)
(* every number of stops.                                                  *)
(***************************************************************************)
EXTENDS ThreadPool, FunctionTheorems, FiniteSetTheorems, SequenceTheorems,
        WellFoundedInduction, TLAPS

\* Once a worker took a Terminate, only Terminates are left in the channel.
TerminatedDrained ==
  \A w \in Workers : pc[w] = "terminated" =>
    \A i \in 1..Len(queue) : queue[i] = Terminate

\* Between stops a live pool has neither seen nor queued a Terminate.
IdleMeansUntouched ==
  PoolIsFree /\ ReceiverAlive =>
    /\ \A i \in 1..Len(queue) : queue[i] # Terminate
    /\ \A w \in Workers : pc[w] # "terminated"

\* The Receiver takes the channel's contents with it.
NoReceiverNoQueue == ~ReceiverAlive => queue = <<>>

\* A handle is only given up for a thread that has ended, and join() has
\* waited for every worker entry stop() is past.
JoinedMeansGone ==
  /\ \A w \in Workers : w \notin handles => pc[w] \in Gone
  /\ stopPhase = "joining" => \A w \in Workers : w < stopNext => pc[w] \in Gone

StoppedMeansGone == stops > 0 /\ PoolIsFree => ~ReceiverAlive

\* JobPlacement without cardinalities.
QueuePlacement ==
  /\ \A j \in Jobs : status[j] = "queued" <=> \E i \in 1..Len(queue) : queue[i] = j
  /\ \A a, b \in 1..Len(queue) : queue[a] = queue[b] /\ queue[a] \in Jobs => a = b
TaskPlacement ==
  /\ \A j \in Jobs : status[j] = "running" <=> \E w \in Workers : task[w] = j
  /\ \A v, w \in Workers : task[v] = task[w] /\ task[v] \in Jobs => v = w

IInv ==
  /\ TypeOK
  /\ NoJobBehindTerminate
  /\ TerminatedDrained
  /\ IdleMeansUntouched
  /\ NoReceiverNoQueue
  /\ JoinedMeansGone
  /\ StoppedMeansGone
  /\ QueuePlacement
  /\ TaskPlacement
  /\ LostOnlyIfAllPanicked
-------------------------------------------------------------------------------
(* Types.                                                                  *)

LEMMA TypeInit == Init => TypeOK
  BY PoolAssumption DEF Init, TypeOK, Workers, Free, Gone, Messages, Statuses

\* A thread that ends keeps every variable in its type.
LEMMA LeaveType ==
  ASSUME TypeOK, NEW w \in Workers, NEW how \in Gone,
         NEW rest \in Seq(Messages),
         NEW outcome \in [Jobs -> Statuses],
         Leave(w, how, rest, outcome)
  PROVE  /\ queue' \in Seq(Messages)
         /\ pc' \in [Workers -> {"ready", "receiving", "running"} \cup Gone]
         /\ task' \in [Workers -> Jobs \cup {NoJob}]
         /\ status' \in [Jobs -> Statuses]
  BY DEF TypeOK, Leave, Statuses, Messages, Gone

LEMMA TypeStep == TypeOK /\ [Next]_vars => TypeOK'
<1> SUFFICES ASSUME TypeOK, [Next]_vars PROVE TypeOK'
  OBVIOUS
<1> USE PoolAssumption
<1>1. ASSUME NEW j \in Jobs, Run(j) PROVE TypeOK'
  BY <1>1 DEF Run, Sent, TypeOK, workerVars, stopVars, Messages, Statuses
<1>2. CASE StopBegin
  BY <1>2 DEF StopBegin, TypeOK, workerVars, Workers, Messages
<1>3. CASE SendTerminate
  BY <1>3 DEF SendTerminate, Sent, AllTold, TypeOK, workerVars, Workers, Messages
<1>4. CASE Join
  BY <1>4 DEF Join, AllJoined, TypeOK, workerVars, Workers, Messages
<1>5. ASSUME NEW w \in Workers, LockReceiver(w) PROVE TypeOK'
  BY <1>5 DEF LockReceiver, CanLockReceiver, TypeOK, stopVars, Workers, Free, Gone, Messages, Statuses
<1>6. ASSUME NEW w \in Workers, ReceiveJob(w) PROVE TypeOK'
  BY <1>6 DEF ReceiveJob, AfterReceive, TypeOK, stopVars, Workers, Free, Gone, Messages, Statuses
<1>7. ASSUME NEW w \in Workers, Finish(w) PROVE TypeOK'
  BY <1>7 DEF Finish, TypeOK, stopVars, Workers, Free, Gone, Messages, Statuses
<1>8. ASSUME NEW w \in Workers, ReceiveTerminate(w) PROVE TypeOK'
  <2>1. Leave(w, "terminated", Tail(queue), status) /\ Tail(queue) \in Seq(Messages)
    BY <1>8 DEF ReceiveTerminate, AfterReceive, TypeOK, Messages
  <2>2. /\ status \in [Jobs -> Statuses]
        /\ "terminated" \in Gone
    BY DEF TypeOK, Gone, Statuses
  <2> HIDE PoolAssumption
  <2>3. /\ queue' \in Seq(Messages)
        /\ pc' \in [Workers -> {"ready", "receiving", "running"} \cup Gone]
        /\ task' \in [Workers -> Jobs \cup {NoJob}]
        /\ status' \in [Jobs -> Statuses]
    BY <2>1, <2>2, LeaveType
  <2> USE PoolAssumption
  <2> QED
    BY <1>8, <2>1, <2>3 DEF ReceiveTerminate, Leave, TypeOK, stopVars, Workers, Free, Gone, Messages, Statuses
<1>9. ASSUME NEW w \in Workers, Panic(w) PROVE TypeOK'
  <2> DEFINE outcome == [status EXCEPT ![task[w]] = "panicked"]
  <2>1. /\ Leave(w, "panicked", queue, outcome)
        /\ outcome \in [Jobs -> Statuses]
    BY <1>9 DEF Panic, TypeOK, Statuses
  <2> QED
    BY <1>9, <2>1, LeaveType DEF Panic, Leave, TypeOK, stopVars, Workers, Free, Gone, Messages, Statuses
<1>10. CASE UNCHANGED vars
  BY <1>10 DEF vars, workerVars, stopVars, TypeOK
<1> QED
  BY <1>1, <1>2, <1>3, <1>4, <1>5, <1>6, <1>7, <1>8, <1>9, <1>10 DEF Next, WorkerNext, Rest

\* The pool's state keeps its types, and the receiver's mutex is held exactly
\* while a worker waits in recv(): a job runs with the mutex released.
THEOREM TypeCorrect == Spec => []TypeOK
  BY TypeInit, TypeStep, PTL DEF Spec
-------------------------------------------------------------------------------
(* The inductive invariant, one lemma per action.                          *)

LEMMA InvInit == Init => IInv
  BY TypeInit, PoolAssumption
  DEF Init, IInv, NoJobBehindTerminate, TerminatedDrained, IdleMeansUntouched,
      NoReceiverNoQueue, JoinedMeansGone, StoppedMeansGone, QueuePlacement,
      TaskPlacement, LostOnlyIfAllPanicked, ReceiverAlive, Workers, Gone

LEMMA RunKeeps ==
  ASSUME IInv, TypeOK', NEW j \in Jobs, Run(j)
  PROVE  IInv'
<1> USE PoolAssumption DEF IInv, Run, workerVars, stopVars
<1>1. /\ TypeOK /\ PoolIsFree /\ status[j] = "new" /\ j # Terminate
      /\ queue \in Seq(Messages) /\ status \in [Jobs -> Statuses]
      /\ ReceiverAlive' = ReceiverAlive
  BY DEF TypeOK, ReceiverAlive
<1>2. CASE ReceiverAlive
  <2>1. /\ queue' = Append(queue, j)
        /\ Len(queue') = Len(queue) + 1
        /\ queue'[Len(queue')] = j
        /\ \A i \in 1..Len(queue) : queue'[i] = queue[i]
    BY <1>1, <1>2 DEF Sent
  <2>2. status' = [status EXCEPT ![j] = "queued"]
    BY <1>2
  <2>3. NoJobBehindTerminate'
    BY <1>1, <1>2, <2>1 DEF NoJobBehindTerminate, IdleMeansUntouched
  <2>4. TerminatedDrained' /\ IdleMeansUntouched' /\ NoReceiverNoQueue'
    BY <1>1, <1>2, <2>1 DEF TerminatedDrained, IdleMeansUntouched, NoReceiverNoQueue, PoolIsFree
  <2>5. JoinedMeansGone' /\ StoppedMeansGone'
    BY <1>1 DEF JoinedMeansGone, StoppedMeansGone, PoolIsFree
  <2>6. QueuePlacement'
    BY <1>1, <2>1, <2>2 DEF QueuePlacement
  <2>7. TaskPlacement'
    BY <1>1, <2>2 DEF TaskPlacement
  <2>8. LostOnlyIfAllPanicked'
    BY <1>1, <2>2 DEF LostOnlyIfAllPanicked
  <2> QED
    BY <2>3, <2>4, <2>5, <2>6, <2>7, <2>8
<1>3. CASE ~ReceiverAlive
  <2>1. /\ queue' = queue /\ queue = <<>>
        /\ status' = [status EXCEPT ![j] = "refused"]
    BY <1>1, <1>3 DEF Sent, NoReceiverNoQueue
  <2> QED
    BY <1>1, <1>3, <2>1
    DEF NoJobBehindTerminate, TerminatedDrained, IdleMeansUntouched, NoReceiverNoQueue,
        JoinedMeansGone, StoppedMeansGone, PoolIsFree, QueuePlacement, TaskPlacement,
        LostOnlyIfAllPanicked
<1> QED
  BY <1>2, <1>3

LEMMA SendTerminateKeeps ==
  ASSUME IInv, TypeOK', SendTerminate
  PROVE  IInv'
<1> USE PoolAssumption DEF IInv, SendTerminate, workerVars
<1>1. /\ TypeOK /\ queue \in Seq(Messages) /\ ~PoolIsFree /\ ~PoolIsFree'
      /\ ReceiverAlive' = ReceiverAlive
  BY DEF TypeOK, PoolIsFree, ReceiverAlive
<1>2. CASE ReceiverAlive
  <2>1. /\ queue' = Append(queue, Terminate)
        /\ Len(queue') = Len(queue) + 1
        /\ queue'[Len(queue')] = Terminate
        /\ \A i \in 1..Len(queue) : queue'[i] = queue[i]
    BY <1>1, <1>2 DEF Sent
  <2>2. NoJobBehindTerminate'
    BY <1>1, <2>1 DEF NoJobBehindTerminate
  <2>3. TerminatedDrained' /\ IdleMeansUntouched' /\ NoReceiverNoQueue'
    BY <1>1, <1>2, <2>1 DEF TerminatedDrained, IdleMeansUntouched, NoReceiverNoQueue
  <2>4. QueuePlacement'
    BY <1>1, <2>1 DEF QueuePlacement
  <2>5. TaskPlacement' /\ LostOnlyIfAllPanicked' /\ StoppedMeansGone'
    BY <1>1 DEF TaskPlacement, LostOnlyIfAllPanicked, StoppedMeansGone
  <2>6. JoinedMeansGone'
    BY <1>1 DEF JoinedMeansGone, TypeOK, Workers
  <2> QED
    BY <2>2, <2>3, <2>4, <2>5, <2>6
<1>3. CASE ~ReceiverAlive
  <2>1. queue' = queue /\ queue = <<>>
    BY <1>3 DEF Sent, NoReceiverNoQueue
  <2>2. JoinedMeansGone'
    BY <1>1 DEF JoinedMeansGone, TypeOK, Workers
  <2> QED
    BY <1>1, <1>3, <2>1, <2>2
    DEF NoJobBehindTerminate, TerminatedDrained, IdleMeansUntouched, NoReceiverNoQueue,
        StoppedMeansGone, QueuePlacement, TaskPlacement, LostOnlyIfAllPanicked
<1> QED
  BY <1>2, <1>3
LEMMA StopBeginKeeps ==
  ASSUME IInv, TypeOK', StopBegin
  PROVE  IInv'
<1> USE DEF IInv, StopBegin, workerVars
<1>1. ~PoolIsFree' /\ ReceiverAlive' = ReceiverAlive
  BY DEF PoolIsFree, ReceiverAlive
<1>2. JoinedMeansGone'
  BY DEF JoinedMeansGone
<1> QED
  BY <1>1, <1>2
  DEF NoJobBehindTerminate, TerminatedDrained, IdleMeansUntouched, NoReceiverNoQueue,
      StoppedMeansGone, QueuePlacement, TaskPlacement, LostOnlyIfAllPanicked

LEMMA JoinKeeps ==
  ASSUME IInv, TypeOK', Join
  PROVE  IInv'
<1> USE PoolAssumption DEF IInv, Join, workerVars
<1>1. TypeOK /\ ReceiverAlive' = ReceiverAlive
  BY DEF ReceiverAlive
<1>2. pc[stopNext] \in Gone
  BY <1>1 DEF JoinReturns, JoinedMeansGone, TypeOK
<1>3. \A w \in Workers : w =< stopNext => pc[w] \in Gone
  BY <1>1, <1>2 DEF JoinedMeansGone, TypeOK, Workers
<1>4. JoinedMeansGone'
  BY <1>1, <1>3 DEF JoinedMeansGone, TypeOK, Workers
<1>5. IdleMeansUntouched' /\ StoppedMeansGone'
  <2>1. CASE AllJoined
    BY <1>1, <1>3, <2>1 DEF AllJoined, ReceiverAlive, Workers, IdleMeansUntouched, StoppedMeansGone
  <2>2. CASE ~AllJoined
    BY <2>2 DEF PoolIsFree, IdleMeansUntouched, StoppedMeansGone
  <2> QED
    BY <2>1, <2>2
<1> QED
  BY <1>1, <1>4, <1>5
  DEF NoJobBehindTerminate, TerminatedDrained, NoReceiverNoQueue,
      QueuePlacement, TaskPlacement, LostOnlyIfAllPanicked

LEMMA LockReceiverKeeps ==
  ASSUME IInv, TypeOK', NEW w \in Workers, LockReceiver(w)
  PROVE  IInv'
<1> USE DEF IInv, LockReceiver, stopVars
<1>1. TypeOK /\ pc \in [Workers -> {"ready", "receiving", "running"} \cup Gone]
  BY DEF TypeOK
<1>2. \A v \in Workers : /\ (pc'[v] \in Gone) = (pc[v] \in Gone)
                         /\ (pc'[v] = "terminated") = (pc[v] = "terminated")
                         /\ (pc'[v] = "panicked") = (pc[v] = "panicked")
  BY <1>1 DEF Gone
<1>3. ReceiverAlive' = ReceiverAlive /\ PoolIsFree' = PoolIsFree
  BY <1>2 DEF ReceiverAlive, PoolIsFree
<1> QED
  BY <1>1, <1>2, <1>3
  DEF NoJobBehindTerminate, TerminatedDrained, IdleMeansUntouched, NoReceiverNoQueue,
      JoinedMeansGone, StoppedMeansGone, QueuePlacement, TaskPlacement, LostOnlyIfAllPanicked

\* Taking the head off the channel: what is left, and where it was.
LEMMA TailOfQueue ==
  ASSUME TypeOK, queue # <<>>
  PROVE  /\ Tail(queue) \in Seq(Messages)
         /\ Len(Tail(queue)) = Len(queue) - 1
         /\ Len(queue) \in Nat \ {0}
         /\ \A i \in 1..Len(Tail(queue)) : i + 1 \in 1..Len(queue) /\ Tail(queue)[i] = queue[i + 1]
         /\ Head(queue) = queue[1] /\ 1 \in 1..Len(queue)
  BY DEF TypeOK

LEMMA ReceiveJobKeeps ==
  ASSUME IInv, TypeOK', NEW w \in Workers, ReceiveJob(w)
  PROVE  IInv'
<1> DEFINE j == Head(queue)
<1> USE PoolAssumption DEF IInv, ReceiveJob, AfterReceive, stopVars
<1>1. /\ TypeOK /\ j \in Jobs /\ queue' = Tail(queue) /\ j # Terminate /\ j # NoJob
      /\ pc \in [Workers -> {"ready", "receiving", "running"} \cup Gone]
      /\ task \in [Workers -> Jobs \cup {NoJob}] /\ status \in [Jobs -> Statuses]
      /\ task[w] = NoJob
  BY DEF TypeOK
<1>2. /\ Len(queue') = Len(queue) - 1 /\ Len(queue) \in Nat \ {0}
      /\ \A i \in 1..Len(queue') : i + 1 \in 1..Len(queue) /\ queue'[i] = queue[i + 1]
      /\ j = queue[1] /\ 1 \in 1..Len(queue)
  BY <1>1, TailOfQueue
<1>3. \A v \in Workers : /\ (pc'[v] \in Gone) = (pc[v] \in Gone)
                         /\ (pc'[v] = "terminated") = (pc[v] = "terminated")
                         /\ (pc'[v] = "panicked") = (pc[v] = "panicked")
  BY <1>1 DEF Gone
<1>4. ReceiverAlive' = ReceiverAlive /\ PoolIsFree' = PoolIsFree /\ ReceiverAlive
  BY <1>2, <1>3 DEF ReceiverAlive, PoolIsFree, Gone
<1>5. NoJobBehindTerminate'
  BY <1>2 DEF NoJobBehindTerminate
<1>6. TerminatedDrained' /\ IdleMeansUntouched' /\ NoReceiverNoQueue'
  BY <1>2, <1>3, <1>4 DEF TerminatedDrained, IdleMeansUntouched, NoReceiverNoQueue
<1>7. JoinedMeansGone' /\ StoppedMeansGone'
  BY <1>3, <1>4 DEF JoinedMeansGone, StoppedMeansGone
<1>8. QueuePlacement'
  <2>1. status[j] = "queued" /\ status' = [status EXCEPT ![j] = "running"]
    BY <1>1, <1>2 DEF QueuePlacement
  <2>2. ASSUME NEW a \in 1..Len(queue'), NEW b \in 1..Len(queue'),
               queue'[a] = queue'[b], queue'[a] \in Jobs
        PROVE  a = b
    BY <1>2, <2>2 DEF QueuePlacement
  <2>3. \A i \in 1..Len(queue') : queue'[i] # j
    BY <1>1, <1>2 DEF QueuePlacement
  <2>4. ASSUME NEW k \in Jobs, k # j
        PROVE  (\E i \in 1..Len(queue) : queue[i] = k) <=> (\E i \in 1..Len(queue') : queue'[i] = k)
    <3>1. ASSUME NEW i \in 1..Len(queue), queue[i] = k
          PROVE  i - 1 \in 1..Len(queue') /\ queue'[i - 1] = k
      BY <1>1, <1>2, <2>4, <3>1
    <3> QED
      BY <1>2, <3>1
  <2>5. ASSUME NEW k \in Jobs
        PROVE  status'[k] = "queued" <=> \E i \in 1..Len(queue') : queue'[i] = k
    <3>1. CASE k = j
      BY <1>1, <2>1, <2>3, <3>1
    <3>2. CASE k # j
      BY <1>1, <2>1, <2>4, <3>2 DEF QueuePlacement
    <3> QED
      BY <3>1, <3>2
  <2> QED
    BY <2>2, <2>5 DEF QueuePlacement
<1>9. TaskPlacement'
  <2>1. status[j] = "queued"
    BY <1>1, <1>2 DEF QueuePlacement
  <2>2. \A v \in Workers : task[v] # j
    BY <1>1, <2>1 DEF TaskPlacement
  <2> QED
    BY <1>1, <2>2 DEF TaskPlacement
<1>10. LostOnlyIfAllPanicked'
  BY <1>1, <1>3 DEF LostOnlyIfAllPanicked
<1> QED
  BY <1>5, <1>6, <1>7, <1>8, <1>9, <1>10
LEMMA FinishKeeps ==
  ASSUME IInv, TypeOK', NEW w \in Workers, Finish(w)
  PROVE  IInv'
<1> DEFINE j == task[w]
<1> USE PoolAssumption DEF IInv, Finish, stopVars
<1>1. /\ TypeOK /\ j \in Jobs /\ j # NoJob
      /\ pc \in [Workers -> {"ready", "receiving", "running"} \cup Gone]
      /\ task \in [Workers -> Jobs \cup {NoJob}] /\ status \in [Jobs -> Statuses]
  BY DEF TypeOK
<1>2. \A v \in Workers : /\ (pc'[v] \in Gone) = (pc[v] \in Gone)
                         /\ (pc'[v] = "terminated") = (pc[v] = "terminated")
                         /\ (pc'[v] = "panicked") = (pc[v] = "panicked")
  BY <1>1 DEF Gone
<1>3. ReceiverAlive' = ReceiverAlive /\ PoolIsFree' = PoolIsFree
  BY <1>2 DEF ReceiverAlive, PoolIsFree
<1>4. status[j] = "running"
  BY <1>1 DEF TaskPlacement
<1>5. QueuePlacement' /\ TaskPlacement' /\ LostOnlyIfAllPanicked'
  BY <1>1, <1>2, <1>4 DEF QueuePlacement, TaskPlacement, LostOnlyIfAllPanicked
<1> QED
  BY <1>2, <1>3, <1>5
  DEF NoJobBehindTerminate, TerminatedDrained, IdleMeansUntouched, NoReceiverNoQueue,
      JoinedMeansGone, StoppedMeansGone

\* A worker that takes a Terminate leaves only Terminates behind.
LEMMA ReceiveTerminateKeeps ==
  ASSUME IInv, TypeOK', NEW w \in Workers, ReceiveTerminate(w)
  PROVE  IInv'
<1> USE PoolAssumption DEF IInv, ReceiveTerminate, AfterReceive, Leave, stopVars
<1>1. /\ TypeOK /\ queue # <<>> /\ Head(queue) = Terminate
      /\ pc \in [Workers -> {"ready", "receiving", "running"} \cup Gone]
      /\ task \in [Workers -> Jobs \cup {NoJob}] /\ status \in [Jobs -> Statuses]
      /\ task[w] = NoJob /\ pc[w] = "receiving"
      /\ pc' = [pc EXCEPT ![w] = "terminated"]
  BY DEF TypeOK
<1>2. /\ Len(Tail(queue)) = Len(queue) - 1 /\ Len(queue) \in Nat \ {0}
      /\ \A i \in 1..Len(Tail(queue)) : i + 1 \in 1..Len(queue) /\ Tail(queue)[i] = queue[i + 1]
      /\ queue[1] = Terminate /\ 1 \in 1..Len(queue)
  BY <1>1, TailOfQueue
<1>3. \A i \in 1..Len(queue) : queue[i] = Terminate
  BY <1>2 DEF NoJobBehindTerminate
<1>4. ~PoolIsFree /\ ~PoolIsFree'
  <2>1. ReceiverAlive
    BY <1>1 DEF ReceiverAlive, Gone
  <2> QED
    BY <1>2, <2>1 DEF IdleMeansUntouched, PoolIsFree
<1>5. /\ \A i \in 1..Len(queue') : queue'[i] = Terminate
      /\ NoReceiverNoQueue'
  <2>1. CASE LastWorker(w)
    BY <2>1 DEF NoReceiverNoQueue
  <2>2. CASE ~LastWorker(w)
    <3>1. ReceiverAlive'
      BY <1>1, <2>2 DEF LastWorker, ReceiverAlive
    <3> QED
      BY <1>2, <1>3, <2>2, <3>1 DEF NoReceiverNoQueue
  <2> QED
    BY <2>1, <2>2
<1>6. NoJobBehindTerminate' /\ TerminatedDrained' /\ IdleMeansUntouched' /\ StoppedMeansGone'
  BY <1>4, <1>5 DEF NoJobBehindTerminate, TerminatedDrained, IdleMeansUntouched, StoppedMeansGone
<1>7. JoinedMeansGone'
  BY <1>1 DEF JoinedMeansGone, Gone
<1>8. \A j \in Jobs : status[j] # "queued"
  BY <1>3 DEF QueuePlacement
<1>9. status' = status
  BY <1>1, <1>8
<1>10. QueuePlacement' /\ TaskPlacement'
  BY <1>1, <1>3, <1>5, <1>8, <1>9 DEF QueuePlacement, TaskPlacement
<1>11. LostOnlyIfAllPanicked'
  BY <1>1, <1>9 DEF LostOnlyIfAllPanicked
<1> QED
  BY <1>5, <1>6, <1>7, <1>10, <1>11

\* The last thread to die of a panic takes the queued jobs with it; no other
\* thread can have terminated, as jobs were still queued.
LEMMA PanicKeeps ==
  ASSUME IInv, TypeOK', NEW w \in Workers, Panic(w)
  PROVE  IInv'
<1> DEFINE j == task[w]
<1> USE PoolAssumption DEF IInv, Panic, Leave, stopVars
<1>1. /\ TypeOK /\ j \in Jobs /\ j # NoJob /\ pc[w] = "running"
      /\ pc \in [Workers -> {"ready", "receiving", "running"} \cup Gone]
      /\ task \in [Workers -> Jobs \cup {NoJob}] /\ status \in [Jobs -> Statuses]
      /\ pc' = [pc EXCEPT ![w] = "panicked"]
  BY DEF TypeOK
<1>2. status[j] = "running" /\ \A v \in Workers : task[v] = j => v = w
  BY <1>1 DEF TaskPlacement
<1>3. ReceiverAlive /\ (ReceiverAlive' = ~LastWorker(w)) /\ PoolIsFree' = PoolIsFree
  BY <1>1 DEF ReceiverAlive, LastWorker, Gone, PoolIsFree
<1>4. JoinedMeansGone' /\ StoppedMeansGone'
  BY <1>1, <1>3 DEF JoinedMeansGone, StoppedMeansGone, Gone
<1>5. \A v \in Workers : pc'[v] = "terminated" => pc[v] = "terminated"
  BY <1>1
<1>6. TaskPlacement'
  BY <1>1, <1>2 DEF TaskPlacement
<1>7. CASE LastWorker(w)
  <2>1. queue' = <<>> /\ \A k \in Jobs : status'[k] # "queued"
    BY <1>1, <1>7
  <2>2. LostOnlyIfAllPanicked'
    <3> SUFFICES ASSUME NEW k \in Jobs, status'[k] = "lost", NEW v \in Workers, v # w
                 PROVE  pc[v] = "panicked"
      BY <1>1 DEF LostOnlyIfAllPanicked
    <3>1. pc[v] \in Gone
      BY <1>7 DEF LastWorker
    <3>2. CASE status[k] = "lost"
      BY <3>2 DEF LostOnlyIfAllPanicked
    <3>3. CASE status[k] = "queued"
      <4>1. PICK i \in 1..Len(queue) : queue[i] = k
        BY <3>3 DEF QueuePlacement
      <4>2. pc[v] # "terminated"
        BY <4>1 DEF TerminatedDrained
      <4> QED
        BY <3>1, <4>2 DEF Gone
    <3> QED
      BY <1>1, <3>2, <3>3
  <2>3. IdleMeansUntouched'
    BY <1>3, <1>7 DEF IdleMeansUntouched
  <2> QED
    BY <1>4, <1>6, <2>1, <2>2, <2>3
    DEF NoJobBehindTerminate, TerminatedDrained, NoReceiverNoQueue, QueuePlacement
<1>8. CASE ~LastWorker(w)
  <2>1. queue' = queue /\ status' = [status EXCEPT ![j] = "panicked"]
    BY <1>1, <1>8
  <2>2. LostOnlyIfAllPanicked'
    BY <1>1, <2>1 DEF LostOnlyIfAllPanicked
  <2>3. QueuePlacement'
    BY <1>1, <1>2, <2>1 DEF QueuePlacement
  <2> QED
    BY <1>3, <1>4, <1>5, <1>6, <1>8, <2>1, <2>2, <2>3
    DEF NoJobBehindTerminate, TerminatedDrained, IdleMeansUntouched, NoReceiverNoQueue
<1> QED
  BY <1>7, <1>8

LEMMA InvStep == IInv /\ [Next]_vars => IInv'
<1> SUFFICES ASSUME IInv, [Next]_vars PROVE IInv'
  OBVIOUS
<1>1. TypeOK'
  BY TypeStep DEF IInv
<1>2. CASE UNCHANGED vars
  BY <1>1, <1>2
  DEF vars, workerVars, stopVars, IInv, NoJobBehindTerminate, TerminatedDrained,
      IdleMeansUntouched, NoReceiverNoQueue, JoinedMeansGone, StoppedMeansGone,
      QueuePlacement, TaskPlacement, LostOnlyIfAllPanicked, ReceiverAlive, PoolIsFree
<1> QED
  BY <1>1, <1>2, RunKeeps, StopBeginKeeps, SendTerminateKeeps, JoinKeeps, LockReceiverKeeps,
     ReceiveJobKeeps, FinishKeeps, ReceiveTerminateKeeps, PanicKeeps
  DEF Next, WorkerNext, Rest

THEOREM Inductive == Spec => []IInv
  BY InvInit, InvStep, PTL DEF Spec
-------------------------------------------------------------------------------
(* The safety properties.                                                  *)

\* No job ever stands behind a Terminate in the channel, whatever the
\* interleaving of run(), stop() and the workers.
THEOREM JobsBeforeTerminate == Spec => []NoJobBehindTerminate
<1>1. IInv => NoJobBehindTerminate
  BY DEF IInv
<1> QED
  BY <1>1, Inductive, PTL

\* An accepted job is lost only if every worker thread died of a panic.
THEOREM LossMeansAllPanicked == Spec => []LostOnlyIfAllPanicked
<1>1. IInv => LostOnlyIfAllPanicked
  BY DEF IInv
<1> QED
  BY <1>1, Inductive, PTL

\* When stop() returns no job is queued or running and no thread is left.
THEOREM StopDrains == Spec => []StoppedMeansDrained
<1>1. IInv => StoppedMeansDrained
  <2> SUFFICES ASSUME IInv, stops > 0, PoolIsFree
               PROVE  /\ ~ReceiverAlive /\ queue = <<>>
                      /\ \A j \in Jobs : status[j] \notin {"queued", "running"}
    BY DEF StoppedMeansDrained
  <2>1. ~ReceiverAlive /\ queue = <<>>
    BY DEF IInv, StoppedMeansGone, NoReceiverNoQueue
  <2>2. \A j \in Jobs : status[j] # "queued"
    BY <2>1 DEF IInv, QueuePlacement
  <2>3. \A w \in Workers : task[w] = NoJob
    BY <2>1 DEF IInv, TypeOK, ReceiverAlive, Gone
  <2>4. \A j \in Jobs : status[j] # "running"
    BY <2>3, PoolAssumption DEF IInv, TaskPlacement
  <2> QED
    BY <2>1, <2>2, <2>4
<1> QED
  BY <1>1, Inductive, PTL

\* Each accepted job is in exactly one place.
THEOREM OnePlacePerJob == Spec => []JobPlacement
<1>1. IInv => JobPlacement
  <2> SUFFICES ASSUME IInv, NEW j \in Jobs
               PROVE  /\ Cardinality({i \in 1..Len(queue) : queue[i] = j}) = (IF status[j] = "queued" THEN 1 ELSE 0)
                      /\ Cardinality({w \in Workers : task[w] = j}) = (IF status[j] = "running" THEN 1 ELSE 0)
    BY DEF JobPlacement
  <2> DEFINE Places == {i \in 1..Len(queue) : queue[i] = j}
             Runners == {w \in Workers : task[w] = j}
  <2>1. Cardinality(Places) = (IF status[j] = "queued" THEN 1 ELSE 0)
    <3>1. CASE status[j] = "queued"
      <4>1. PICK i \in 1..Len(queue) : queue[i] = j
        BY <3>1 DEF IInv, QueuePlacement
      <4>2. Places = {i}
        BY <4>1 DEF IInv, QueuePlacement
      <4> QED
        BY <3>1, <4>2, FS_Singleton
    <3>2. CASE status[j] # "queued"
      <4>1. Places = {}
        BY <3>2 DEF IInv, QueuePlacement
      <4> QED
        BY <3>2, <4>1, FS_EmptySet
    <3> QED
      BY <3>1, <3>2
  <2>2. Cardinality(Runners) = (IF status[j] = "running" THEN 1 ELSE 0)
    <3>1. CASE status[j] = "running"
      <4>1. PICK w \in Workers : task[w] = j
        BY <3>1 DEF IInv, TaskPlacement
      <4>2. Runners = {w}
        BY <4>1 DEF IInv, TaskPlacement
      <4> QED
        BY <3>1, <4>2, FS_Singleton
    <3>2. CASE status[j] # "running"
      <4>1. Runners = {}
        BY <3>2 DEF IInv, TaskPlacement
      <4> QED
        BY <3>2, <4>1, FS_EmptySet
    <3> QED
      BY <3>1, <3>2
  <2> QED
    BY <2>1, <2>2
<1> QED
  BY <1>1, Inductive, PTL

-------------------------------------------------------------------------------
(* A Terminate for each worker: the count the joins of stop() rely on.     *)

Pills == {i \in 1..Len(queue) : queue[i] = Terminate}
Unsent == IF stopPhase = "sending" THEN PoolSize - stopNext + 1 ELSE 0

Counted ==
  /\ IsFiniteSet(LiveWorkers) /\ Cardinality(LiveWorkers) \in 0..PoolSize
  /\ IsFiniteSet(Pills) /\ Cardinality(Pills) \in Nat
  /\ Unsent \in 0..PoolSize
  /\ ~ReceiverAlive => Cardinality(LiveWorkers) = 0

LEMMA CountTypes == TypeOK => Counted
<1> SUFFICES ASSUME TypeOK PROVE Counted
  OBVIOUS
<1> USE PoolAssumption
<1>1. IsFiniteSet(Workers) /\ Cardinality(Workers) = PoolSize
  BY FS_Interval DEF Workers
<1>2. LiveWorkers \in SUBSET Workers
  BY DEF LiveWorkers
<1>3. /\ IsFiniteSet(LiveWorkers) /\ Cardinality(LiveWorkers) =< Cardinality(Workers)
      /\ Cardinality(LiveWorkers) \in Nat
  BY <1>1, <1>2, FS_Subset, FS_CardinalityType
<1>4. IsFiniteSet(1..Len(queue))
  <2>1. 1 \in Int /\ Len(queue) \in Int
    BY DEF TypeOK
  <2> QED
    BY <2>1, FS_Interval
<1>5. Pills \in SUBSET (1..Len(queue))
  BY DEF Pills
<1>6. IsFiniteSet(Pills) /\ Cardinality(Pills) \in Nat
  BY <1>4, <1>5, FS_Subset, FS_CardinalityType
<1>7. Unsent \in 0..PoolSize
  BY DEF Unsent, TypeOK, Workers
<1>8. ~ReceiverAlive => LiveWorkers = {}
  BY DEF ReceiverAlive, LiveWorkers
<1> QED
  BY <1>1, <1>3, <1>6, <1>7, <1>8, FS_EmptySet DEF Counted

Supplied == stopPhase # "idle" => Cardinality(LiveWorkers) =< Cardinality(Pills) + Unsent

LEMMA SuppliedStep ==
  ASSUME IInv, TypeOK', Supplied, [Next]_vars
  PROVE  Supplied'
<1> USE PoolAssumption
<1>0. /\ TypeOK /\ queue \in Seq(Messages)
      /\ pc \in [Workers -> {"ready", "receiving", "running"} \cup Gone]
  BY DEF IInv, TypeOK
<1>1. Counted
  BY <1>0, CountTypes
<1>2. Counted'
  BY CountTypes, PTL
<1>3. ASSUME NEW j \in Jobs, Run(j) PROVE Supplied'
  BY <1>3 DEF Run, PoolIsFree, stopVars, Supplied
<1>4. CASE StopBegin
  BY <1>1, <1>2, <1>4 DEF Counted, StopBegin, workerVars, Supplied, Unsent
<1>5. CASE SendTerminate
  <2>1. LiveWorkers' = LiveWorkers /\ ReceiverAlive' = ReceiverAlive /\ stopPhase = "sending"
    BY <1>5 DEF SendTerminate, workerVars, LiveWorkers, ReceiverAlive
  <2>2. CASE ReceiverAlive
    <3>1. /\ queue' = Append(queue, Terminate)
          /\ Len(queue') = Len(queue) + 1 /\ Len(queue) \in Nat
          /\ queue'[Len(queue) + 1] = Terminate
          /\ \A i \in 1..Len(queue) : queue'[i] = queue[i]
      BY <1>0, <1>5, <2>2 DEF SendTerminate, Sent, Messages
    <3>2. Pills' = Pills \cup {Len(queue) + 1} /\ Len(queue) + 1 \notin Pills
      BY <3>1 DEF Pills
    <3>3. Cardinality(Pills') = Cardinality(Pills) + 1
      BY <1>1, <3>2, FS_AddElement DEF Counted
    <3>4. Unsent' = Unsent - 1
      <4>1. stopNext \in 1..PoolSize /\ stopPhase = "sending" /\ stopPhase' \in {"sending", "joining"}
        BY <1>0, <1>5 DEF SendTerminate, TypeOK, Workers
      <4>2. CASE AllTold
        BY <1>5, <4>1, <4>2 DEF SendTerminate, AllTold, Unsent
      <4>3. CASE ~AllTold
        BY <1>5, <4>1, <4>3 DEF SendTerminate, Unsent
      <4> QED
        BY <4>2, <4>3
    <3> QED
      BY <1>1, <1>2, <2>1, <3>3, <3>4 DEF Counted, Supplied
  <2>3. CASE ~ReceiverAlive
    BY <1>2, <2>1, <2>3 DEF Counted, Supplied
  <2> QED
    BY <2>2, <2>3
<1>6. CASE Join
  BY <1>1, <1>2, <1>6 DEF Counted, Join, workerVars, Supplied, Unsent, LiveWorkers, Pills
<1>7. ASSUME NEW w \in Workers, LockReceiver(w) PROVE Supplied'
  <2>1. LiveWorkers' = LiveWorkers
    BY <1>0, <1>7 DEF LockReceiver, LiveWorkers, Gone
  <2> QED
    BY <1>7, <2>1 DEF LockReceiver, stopVars, Supplied, Unsent, Pills
<1>8. ASSUME NEW w \in Workers, Finish(w) PROVE Supplied'
  <2>1. LiveWorkers' = LiveWorkers
    BY <1>0, <1>8 DEF Finish, LiveWorkers, Gone
  <2> QED
    BY <1>8, <2>1 DEF Finish, stopVars, Supplied, Unsent, Pills
<1>9. ASSUME NEW w \in Workers, ReceiveJob(w) PROVE Supplied'
  <2>1. /\ LiveWorkers' = LiveWorkers /\ queue' = Tail(queue) /\ queue # <<>> /\ Head(queue) # Terminate
        /\ Unsent' = Unsent /\ stopPhase' = stopPhase
    BY <1>0, <1>9 DEF ReceiveJob, AfterReceive, LiveWorkers, Gone, stopVars, Unsent
  <2>2. /\ Len(Tail(queue)) = Len(queue) - 1 /\ Len(queue) \in Nat \ {0}
        /\ \A i \in 1..Len(Tail(queue)) : i + 1 \in 1..Len(queue) /\ Tail(queue)[i] = queue[i + 1]
        /\ Head(queue) = queue[1] /\ 1 \in 1..Len(queue)
    BY <1>0, <2>1, TailOfQueue
  <2> DEFINE shift == [i \in Pills |-> i - 1]
  <2>3. ASSUME NEW i \in Pills
        PROVE  i \in Int /\ i - 1 \in Pills'
    <3>1. i \in 2..Len(queue) /\ queue[i] = Terminate
      BY <2>1, <2>2 DEF Pills
    <3>2. i - 1 \in 1..Len(queue') /\ queue'[i - 1] = Terminate
      BY <2>1, <2>2, <3>1
    <3> QED
      BY <3>1, <3>2 DEF Pills
  <2>4. shift \in Injection(Pills, Pills')
    BY <2>3, Fun_IsInj
  <2>5. Cardinality(Pills) =< Cardinality(Pills')
    BY <1>2, <2>4, FS_Injection DEF Counted
  <2> QED
    BY <1>1, <1>2, <2>1, <2>5 DEF Counted, Supplied
<1>10. ASSUME NEW w \in Workers, ReceiveTerminate(w) PROVE Supplied'
  <2>1. /\ queue # <<>> /\ Head(queue) = Terminate /\ pc[w] = "receiving"
        /\ pc' = [pc EXCEPT ![w] = "terminated"]
        /\ queue' = IF LastWorker(w) THEN <<>> ELSE Tail(queue)
        /\ Unsent' = Unsent /\ stopPhase' = stopPhase
    BY <1>10 DEF ReceiveTerminate, AfterReceive, Leave, stopVars, Unsent
  <2>2. CASE LastWorker(w)
    <3>1. (~ReceiverAlive)'
      BY <1>0, <2>1, <2>2 DEF LastWorker, ReceiverAlive, Gone
    <3> QED
      BY <1>2, <3>1 DEF Counted, Supplied
  <2>3. CASE ~LastWorker(w)
    <3>1. LiveWorkers' = LiveWorkers \ {w} /\ w \in LiveWorkers
      BY <1>0, <2>1 DEF LiveWorkers, Gone
    <3>2. Cardinality(LiveWorkers') = Cardinality(LiveWorkers) - 1
      BY <1>1, <3>1, FS_RemoveElement DEF Counted
    <3>3. /\ Len(Tail(queue)) = Len(queue) - 1 /\ Len(queue) \in Nat \ {0}
          /\ \A i \in 1..Len(Tail(queue)) : i + 1 \in 1..Len(queue) /\ Tail(queue)[i] = queue[i + 1]
          /\ Head(queue) = queue[1] /\ 1 \in 1..Len(queue)
      BY <1>0, <2>1, TailOfQueue
    <3>4. \A i \in 1..Len(queue) : queue[i] = Terminate
      BY <2>1, <3>3 DEF IInv, NoJobBehindTerminate
    <3>5. Pills = 1..Len(queue) /\ Pills' = 1..(Len(queue) - 1)
      BY <2>1, <2>3, <3>3, <3>4 DEF Pills
    <3>6. Cardinality(1..Len(queue)) = Len(queue) /\ Cardinality(1..(Len(queue) - 1)) = Len(queue) - 1
      BY <3>3, FS_Interval, SMTT(30)
    <3>7. Cardinality(Pills') = Cardinality(Pills) - 1
      BY <3>5, <3>6
    <3> QED
      BY <1>1, <1>2, <2>1, <3>2, <3>7 DEF Counted, Supplied
  <2> QED
    BY <2>2, <2>3
<1>11. ASSUME NEW w \in Workers, Panic(w) PROVE Supplied'
  <2>1. /\ pc' = [pc EXCEPT ![w] = "panicked"]
        /\ queue' = IF LastWorker(w) THEN <<>> ELSE queue
        /\ Unsent' = Unsent /\ stopPhase' = stopPhase
    BY <1>11 DEF Panic, Leave, stopVars, Unsent
  <2>2. CASE LastWorker(w)
    <3>1. (~ReceiverAlive)'
      BY <1>0, <2>1, <2>2 DEF LastWorker, ReceiverAlive, Gone
    <3> QED
      BY <1>2, <3>1 DEF Counted, Supplied
  <2>3. CASE ~LastWorker(w)
    <3>1. LiveWorkers' \in SUBSET LiveWorkers
      BY <1>0, <2>1 DEF LiveWorkers, Gone
    <3>2. Cardinality(LiveWorkers') =< Cardinality(LiveWorkers)
      BY <1>1, <3>1, FS_Subset DEF Counted
    <3>3. Pills' = Pills
      BY <2>1, <2>3 DEF Pills
    <3> QED
      BY <1>1, <1>2, <2>1, <3>2, <3>3 DEF Counted, Supplied
  <2> QED
    BY <2>2, <2>3
<1>12. CASE UNCHANGED vars
  BY <1>12 DEF vars, workerVars, stopVars, Supplied, Unsent, LiveWorkers, Pills
<1> QED
  BY <1>3, <1>4, <1>5, <1>6, <1>7, <1>8, <1>9, <1>10, <1>11, <1>12 DEF Next, WorkerNext, Rest

\* A stop() always has a Terminate, queued or still to be sent, for each thread
\* that has not ended, however many of them panic meanwhile.
THEOREM StopSupplies == Spec => []TerminateForEachWorker
<1>1. Init => Supplied
  BY DEF Init, Supplied
<1>2. IInv /\ IInv' /\ Supplied /\ [Next]_vars => Supplied'
  BY SuppliedStep DEF IInv
<1>3. Supplied => TerminateForEachWorker
  BY DEF Supplied, TerminateForEachWorker, LiveWorkers, Pills, Unsent
<1> QED
  BY <1>1, <1>2, <1>3, Inductive, PTL DEF Spec
-------------------------------------------------------------------------------
(* The pool implements the abstract executor.                              *)

\* Every set of numbers has a least one.
LEMMA SmallestNumber ==
  ASSUME NEW T, T \subseteq Nat, T # {}
  PROVE  \E m \in T : \A k \in T : ~(k < m)
<1> DEFINE R == OpToRel(<, Nat)
<1>1. \E m \in T : \A k \in T : ~(<<k, m>> \in R)
  <2> HIDE DEF R
  <2>1. IsWellFoundedOn(R, Nat)
    BY NatLessThanWellFounded DEF R
  <2> QED
    BY <2>1, WFMin
<1> QED
  BY <1>1 DEF OpToRel

\* At most one number of jobs is in front.
LEMMA FrontUnique ==
  ASSUME NEW q \in Seq(Messages), NEW n, IsFront(q, n)
  PROVE  JobsInFront(q) = SubSeq(q, 1, n)
<1>1. ASSUME NEW k, IsFront(q, k) PROVE k = n
  <2>1. k \in 0..Len(q) /\ n \in 0..Len(q)
    BY <1>1 DEF IsFront
  <2>2. ~(k < n) /\ ~(n < k)
    BY <1>1, <2>1 DEF IsFront
  <2> QED
    BY <2>1, <2>2
<1>2. n = CHOOSE k \in 0..Len(q) : IsFront(q, k)
  BY <1>1 DEF IsFront
<1> QED
  BY <1>2 DEF JobsInFront

\* There is one.
LEMMA FrontExists ==
  ASSUME NEW q \in Seq(Messages)
  PROVE  \E n : IsFront(q, n)
<1> DEFINE T == {i \in 1..Len(q) : q[i] = Terminate}
<1>1. CASE T = {}
  <2>1. IsFront(q, Len(q))
    BY <1>1 DEF IsFront
  <2> QED
    BY <2>1
<1>2. CASE T # {}
  <2>1. PICK m \in T : \A k \in T : ~(k < m)
    <3>1. T \subseteq Nat
      OBVIOUS
    <3> HIDE DEF T
    <3> QED
      BY <1>2, <3>1, SmallestNumber
  <2>2. IsFront(q, m - 1)
    BY <2>1 DEF IsFront
  <2> QED
    BY <2>2
<1> QED
  BY <1>1, <1>2

\* Without a Terminate all of the channel is backlog; behind one, nothing is.
LEMMA FrontOfAll ==
  ASSUME NEW q \in Seq(Messages), \A i \in 1..Len(q) : q[i] # Terminate
  PROVE  JobsInFront(q) = q
<1>1. IsFront(q, Len(q))
  BY DEF IsFront
<1> QED
  BY <1>1, FrontUnique, SubSeqFull

LEMMA FrontOfNone ==
  ASSUME NEW q \in Seq(Messages), q # <<>> => q[1] = Terminate
  PROVE  JobsInFront(q) = <<>>
<1>1. IsFront(q, 0)
  BY DEF IsFront
<1> QED
  BY <1>1, FrontUnique, SubSeqEmpty

\* A Terminate sent to the channel adds nothing to the backlog.
LEMMA FrontOfSent ==
  ASSUME NEW q \in Seq(Messages)
  PROVE  JobsInFront(Append(q, Terminate)) = JobsInFront(q)
<1> DEFINE r == Append(q, Terminate)
<1>1. PICK n : IsFront(q, n)
  BY FrontExists
<1>2. /\ r \in Seq(Messages) /\ Len(r) = Len(q) + 1 /\ r[Len(q) + 1] = Terminate
      /\ \A i \in 1..Len(q) : r[i] = q[i]
  BY DEF Messages
<1>3. n \in 0..Len(q) /\ SubSeq(r, 1, n) = SubSeq(q, 1, n)
  BY <1>1, <1>2 DEF IsFront
<1>4. IsFront(r, n)
  <2> HIDE DEF r
  <2> QED
    BY <1>1, <1>2, <1>3 DEF IsFront
<1> HIDE DEF r
<1>5. JobsInFront(r) = SubSeq(r, 1, n)
  BY <1>2, <1>4, FrontUnique
<1>6. JobsInFront(q) = SubSeq(q, 1, n)
  BY <1>1, FrontUnique
<1> QED
  BY <1>3, <1>5, <1>6 DEF r

\* A job taken from the channel is the first of the backlog.
LEMMA FrontOfTail ==
  ASSUME NEW q \in Seq(Messages), q # <<>>, Head(q) # Terminate
  PROVE  /\ JobsInFront(q) # <<>> /\ Head(JobsInFront(q)) = Head(q)
         /\ JobsInFront(Tail(q)) = Tail(JobsInFront(q))
<1>1. PICK n : IsFront(q, n)
  BY FrontExists
<1>2. n \in 1..Len(q)
  BY <1>1 DEF IsFront
<1>3. JobsInFront(q) = SubSeq(q, 1, n)
  BY <1>1, FrontUnique
<1>4. Head(SubSeq(q, 1, n)) = Head(q) /\ Tail(SubSeq(q, 1, n)) = SubSeq(q, 2, n)
  BY <1>2, HeadTailOfSubSeq
<1>5. IsFront(Tail(q), n - 1) /\ Tail(q) \in Seq(Messages)
  BY <1>1, <1>2 DEF IsFront
<1>6. JobsInFront(Tail(q)) = SubSeq(Tail(q), 1, n - 1)
  BY <1>5, FrontUnique
<1>7. SubSeq(Tail(q), 1, n - 1) = SubSeq(q, 2, n)
  BY <1>2
<1>8. SubSeq(q, 1, n) # <<>>
  BY <1>2
<1> QED
  BY <1>3, <1>4, <1>6, <1>7, <1>8

\* As many jobs run as workers run them, and a worker that waits is one more.
LEMMA RunningBelowLive ==
  ASSUME IInv, NEW w \in Workers, pc[w] = "receiving"
  PROVE  Cardinality({j \in Jobs : status[j] = "running"}) < Cardinality(LiveWorkers)
<1> DEFINE Running == {j \in Jobs : status[j] = "running"}
           Others == LiveWorkers \ {w}
           runner == [j \in Running |-> CHOOSE v \in Workers : task[v] = j]
<1> USE PoolAssumption
<1>1. Counted
  BY CountTypes DEF IInv
<1>2. /\ IsFiniteSet(LiveWorkers) /\ w \in LiveWorkers
      /\ IsFiniteSet(Others) /\ Cardinality(Others) = Cardinality(LiveWorkers) - 1
      /\ Cardinality(LiveWorkers) \in Nat
  BY <1>1, FS_RemoveElement DEF Counted, LiveWorkers, Gone
<1>3. ASSUME NEW j \in Running
      PROVE  runner[j] \in Others /\ task[runner[j]] = j
  <2>1. \E v \in Workers : task[v] = j
    BY DEF IInv, TaskPlacement
  <2>2. runner[j] \in Workers /\ task[runner[j]] = j
    BY <2>1
  <2>3. pc[runner[j]] = "running"
    BY <2>2 DEF IInv, TypeOK
  <2> QED
    BY <2>2, <2>3 DEF LiveWorkers, Gone
<1>4. runner \in Injection(Running, Others)
  <2>1. runner \in [Running -> Others]
    BY <1>3
  <2>2. \A i, j \in Running : runner[i] = runner[j] => i = j
    <3> HIDE DEF runner
    <3> QED
      BY <1>3
  <2> HIDE DEF runner, Running, Others
  <2> QED
    BY <2>1, <2>2 DEF Injection, IsInjective
<1>5. Cardinality(Running) =< Cardinality(Others) /\ IsFiniteSet(Running)
  BY <1>2, <1>4, FS_Injection
<1>6. Cardinality(Running) \in Nat
  BY <1>5, FS_CardinalityType
<1> QED
  BY <1>2, <1>5, <1>6

LEMMA RunRefines ==
  ASSUME IInv, TypeOK', NEW j \in Jobs, Run(j)
  PROVE  Executor!Accept(j) \/ Executor!Refuse(j)
<1> USE PoolAssumption
<1>1. /\ TypeOK /\ PoolIsFree /\ PoolIsFree' /\ status[j] = "new" /\ j \in Messages
      /\ queue \in Seq(Messages) /\ queue' \in Seq(Messages) /\ LiveWorkers' = LiveWorkers
  BY DEF IInv, TypeOK, Run, PoolIsFree, workerVars, stopVars, LiveWorkers, Messages
<1>2. Counted
  BY <1>1, CountTypes
<1>3. CASE ReceiverAlive
  <2>1. /\ queue' = Append(queue, j) /\ status' = [status EXCEPT ![j] = "queued"]
        /\ \A i \in 1..Len(queue) : queue[i] # Terminate
    BY <1>1, <1>3 DEF Run, Sent, IInv, IdleMeansUntouched
  <2>2. \A i \in 1..Len(queue') : queue'[i] # Terminate
    BY <1>1, <2>1 DEF Messages
  <2>3. JobsInFront(queue) = queue /\ JobsInFront(queue') = queue'
    BY <1>1, <2>1, <2>2, FrontOfAll
  <2>4. Cardinality(LiveWorkers) > 0
    <3>1. LiveWorkers # {}
      BY <1>3 DEF ReceiverAlive, LiveWorkers
    <3> QED
      BY <1>2, <3>1, FS_EmptySet DEF Counted
  <2> QED
    BY <1>1, <2>1, <2>3, <2>4 DEF Executor!Accept
<1>4. CASE ~ReceiverAlive
  <2>1. queue' = queue /\ status' = [status EXCEPT ![j] = "refused"]
    BY <1>4 DEF Run, Sent
  <2>2. Cardinality(LiveWorkers) = 0
    BY <1>2, <1>4 DEF Counted
  <2> QED
    BY <1>1, <2>1, <2>2 DEF Executor!Refuse
<1> QED
  BY <1>3, <1>4

\* stop() begins, and ends when no slot is left; the Terminates are not jobs.
LEMMA StopRefines ==
  ASSUME IInv, StopBegin \/ SendTerminate \/ Join
  PROVE  [Executor!Next]_(Executor!vars)
<1> USE PoolAssumption
<1>1. /\ TypeOK /\ queue \in Seq(Messages)
      /\ LiveWorkers' = LiveWorkers /\ status' = status
  BY DEF IInv, TypeOK, StopBegin, SendTerminate, Join, workerVars, LiveWorkers
<1>2. CASE StopBegin
  BY <1>1, <1>2 DEF StopBegin, PoolIsFree, Executor!BeginClose, Executor!Next
<1>3. CASE SendTerminate
  <2>1. ~PoolIsFree /\ ~PoolIsFree'
    BY <1>3 DEF SendTerminate, PoolIsFree
  <2>2. JobsInFront(queue') = JobsInFront(queue)
    BY <1>1, <1>3, FrontOfSent DEF SendTerminate, Sent
  <2> QED
    BY <1>1, <2>1, <2>2 DEF Executor!vars
<1>4. CASE Join
  <2>1. ~PoolIsFree /\ queue' = queue
    BY <1>4 DEF Join, PoolIsFree
  <2>2. CASE PoolIsFree'
    <3>1. AllJoined
      BY <1>4, <2>2 DEF Join, PoolIsFree
    <3>2. \A w \in Workers : pc[w] \in Gone
      <4>1. pc[stopNext] \in Gone
        BY <1>1, <1>4 DEF Join, JoinReturns, IInv, JoinedMeansGone, TypeOK
      <4> QED
        BY <1>1, <1>4, <3>1, <4>1 DEF Join, AllJoined, IInv, JoinedMeansGone, TypeOK, Workers
    <3>3. Cardinality(LiveWorkers) = 0
      BY <1>1, <3>2, CountTypes DEF Counted, ReceiverAlive
    <3> QED
      BY <1>1, <2>1, <2>2, <3>3 DEF Executor!Close, Executor!Next
  <2>3. CASE ~PoolIsFree'
    BY <1>1, <2>1, <2>3 DEF Executor!vars
  <2> QED
    BY <2>2, <2>3
<1> QED
  BY <1>2, <1>3, <1>4

LEMMA SameCardinality == \A S : Executor!Cardinality(S) = Cardinality(S)
  BY DEF Executor!Cardinality, Cardinality

LEMMA ReceiveJobRefines ==
  ASSUME IInv, NEW w \in Workers, ReceiveJob(w)
  PROVE  Executor!Start
<1> USE PoolAssumption
<1>1. /\ TypeOK /\ queue \in Seq(Messages) /\ queue # <<>> /\ Head(queue) # Terminate
      /\ queue' = Tail(queue) /\ pc[w] = "receiving" /\ PoolIsFree' = PoolIsFree
      /\ status' = [status EXCEPT ![Head(queue)] = "running"]
      /\ LiveWorkers' = LiveWorkers
  BY DEF IInv, TypeOK, ReceiveJob, AfterReceive, stopVars, PoolIsFree, LiveWorkers, Gone
<1>2. /\ JobsInFront(queue) # <<>> /\ Head(JobsInFront(queue)) = Head(queue)
      /\ JobsInFront(queue') = Tail(JobsInFront(queue))
  BY <1>1, FrontOfTail
<1>3. Cardinality({j \in Jobs : status[j] = "running"}) < Cardinality(LiveWorkers)
  BY <1>1, RunningBelowLive
<1> QED
  BY <1>1, <1>2, <1>3, SameCardinality DEF Executor!Start, Executor!Running

\* A worker that ends is one slot less; the last one was the only slot.
LEMMA LeaveCounts ==
  ASSUME IInv, NEW w \in Workers, pc[w] \notin Gone, NEW how \in Gone,
         pc' = [pc EXCEPT ![w] = how]
  PROVE  /\ Cardinality(LiveWorkers)' = Cardinality(LiveWorkers) - 1
         /\ Cardinality(LiveWorkers) \in Nat
         /\ LastWorker(w) <=> Cardinality(LiveWorkers) = 1
<1>1. Counted
  BY CountTypes DEF IInv
<1>2. LiveWorkers' = LiveWorkers \ {w} /\ w \in LiveWorkers
  BY DEF IInv, TypeOK, LiveWorkers
<1>3. /\ IsFiniteSet(LiveWorkers \ {w}) /\ Cardinality(LiveWorkers) \in Nat
      /\ Cardinality(LiveWorkers \ {w}) = Cardinality(LiveWorkers) - 1
  BY <1>1, <1>2, FS_RemoveElement DEF Counted
<1>4. LastWorker(w) <=> LiveWorkers \ {w} = {}
  BY DEF LastWorker, LiveWorkers
<1> QED
  BY <1>2, <1>3, <1>4, FS_EmptySet

\* A worker told to end retires its slot, of which nothing can have been waiting.
LEMMA ReceiveTerminateRefines ==
  ASSUME IInv, TypeOK', NEW w \in Workers, ReceiveTerminate(w)
  PROVE  Executor!Retire
<1> USE PoolAssumption
<1>1. /\ TypeOK /\ queue \in Seq(Messages) /\ queue # <<>> /\ Head(queue) = Terminate
      /\ queue' \in Seq(Messages)
      /\ pc[w] = "receiving" /\ PoolIsFree' = PoolIsFree
      /\ queue' = IF LastWorker(w) THEN <<>> ELSE Tail(queue)
  BY DEF IInv, TypeOK, ReceiveTerminate, AfterReceive, Leave, stopVars, PoolIsFree
<1>2. /\ Len(queue) \in Nat \ {0} /\ Head(queue) = queue[1] /\ 1 \in 1..Len(queue)
      /\ \A i \in 1..Len(Tail(queue)) : i + 1 \in 1..Len(queue) /\ Tail(queue)[i] = queue[i + 1]
  BY <1>1, TailOfQueue
<1>3. \A i \in 1..Len(queue) : queue[i] = Terminate
  BY <1>1, <1>2 DEF IInv, NoJobBehindTerminate
<1>4. ~PoolIsFree
  <2>1. ReceiverAlive
    BY <1>1 DEF ReceiverAlive, Gone
  <2> QED
    BY <1>2, <1>3, <2>1 DEF IInv, IdleMeansUntouched
<1>5. JobsInFront(queue) = <<>>
  BY <1>1, <1>2, FrontOfNone
<1>6. JobsInFront(queue') = <<>>
  <2>1. queue' # <<>> => queue'[1] = Terminate
    BY <1>1, <1>2, <1>3
  <2> QED
    BY <1>1, <2>1, FrontOfNone
<1>7. status' = status
  <2>1. \A j \in Jobs : status[j] # "queued"
    BY <1>3 DEF IInv, QueuePlacement
  <2> QED
    BY <1>1, <2>1 DEF ReceiveTerminate, Leave, TypeOK
<1>8. Cardinality({j \in Jobs : status[j] = "running"}) < Cardinality(LiveWorkers)
  BY <1>1, RunningBelowLive
<1>9. Cardinality(LiveWorkers)' = Cardinality(LiveWorkers) - 1
  BY <1>1, LeaveCounts DEF ReceiveTerminate, Leave, Gone
<1> QED
  BY <1>1, <1>4, <1>5, <1>6, <1>7, <1>8, <1>9, SameCardinality DEF Executor!Retire, Executor!Running

\* A panic takes the worker with it, and with the last worker the backlog.
LEMMA PanicRefines ==
  ASSUME IInv, NEW w \in Workers, Panic(w)
  PROVE  \E j \in Jobs : Executor!Crash(j)
<1> DEFINE j == task[w]
<1> USE PoolAssumption
<1>1. /\ TypeOK /\ j \in Jobs /\ pc[w] = "running" /\ status \in [Jobs -> Statuses]
      /\ PoolIsFree' = PoolIsFree /\ pc' = [pc EXCEPT ![w] = "panicked"]
      /\ queue' = IF LastWorker(w) THEN <<>> ELSE queue
      /\ status' = [k \in Jobs |-> IF LastWorker(w) /\ [status EXCEPT ![j] = "panicked"][k] = "queued"
                                   THEN "lost" ELSE [status EXCEPT ![j] = "panicked"][k]]
  BY DEF IInv, TypeOK, Panic, Leave, stopVars, PoolIsFree
<1>2. status[j] = "running"
  BY <1>1 DEF IInv, TaskPlacement
<1>3. /\ Cardinality(LiveWorkers)' = Cardinality(LiveWorkers) - 1
      /\ LastWorker(w) <=> Cardinality(LiveWorkers) = 1
  BY <1>1, LeaveCounts DEF Gone
<1>4. JobsInFront(<<>>) = <<>>
  BY EmptySeq, FrontOfNone
<1>5. JobsInFront(queue') = IF Cardinality(LiveWorkers) = 1 THEN <<>> ELSE JobsInFront(queue)
  BY <1>1, <1>3, <1>4
<1>6. status' = [k \in Jobs |-> IF k = j THEN "panicked"
                               ELSE IF Cardinality(LiveWorkers) = 1 /\ status[k] = "queued" THEN "lost"
                               ELSE status[k]]
  BY <1>1, <1>3
<1> HIDE DEF j
<1>7. Executor!Crash(j)
  BY <1>1, <1>2, <1>3, <1>5, <1>6 DEF Executor!Crash
<1> QED
  BY <1>1, <1>7

LEMMA ExecutorInit == Init => Executor!Init
<1> SUFFICES ASSUME Init PROVE Executor!Init
  OBVIOUS
<1> USE PoolAssumption
<1>1. JobsInFront(queue) = <<>>
  BY EmptySeq, FrontOfNone DEF Init
<1>2. LiveWorkers = Workers
  BY DEF Init, LiveWorkers, Gone
<1>3. Cardinality(Workers) = PoolSize
  BY FS_Interval DEF Workers
<1> QED
  BY <1>1, <1>2, <1>3 DEF Init, PoolIsFree, Executor!Init

LEMMA ExecutorStep == IInv /\ [Next]_vars => [Executor!Next]_(Executor!vars)
<1> SUFFICES ASSUME IInv, [Next]_vars PROVE [Executor!Next]_(Executor!vars)
  OBVIOUS
<1>0. TypeOK'
  BY TypeStep DEF IInv
<1>1. ASSUME NEW j \in Jobs, Run(j) PROVE [Executor!Next]_(Executor!vars)
  BY <1>0, <1>1, RunRefines DEF Executor!Next
<1>2. CASE StopBegin \/ SendTerminate \/ Join
  BY <1>2, StopRefines
<1>3. ASSUME NEW w \in Workers, LockReceiver(w) PROVE [Executor!Next]_(Executor!vars)
  <2>1. LiveWorkers' = LiveWorkers
    BY <1>3 DEF LockReceiver, LiveWorkers, IInv, TypeOK, Gone
  <2> QED
    BY <1>3, <2>1 DEF LockReceiver, stopVars, PoolIsFree, Executor!vars
<1>4. ASSUME NEW w \in Workers, ReceiveJob(w) PROVE [Executor!Next]_(Executor!vars)
  BY <1>4, ReceiveJobRefines DEF Executor!Next
<1>5. ASSUME NEW w \in Workers, Finish(w) PROVE [Executor!Next]_(Executor!vars)
  <2>1. LiveWorkers' = LiveWorkers /\ task[w] \in Jobs
    BY <1>5 DEF Finish, LiveWorkers, IInv, TypeOK, Gone
  <2>2. status[task[w]] = "running"
    BY <2>1 DEF IInv, TaskPlacement
  <2>3. Executor!Finish(task[w])
    BY <1>5, <2>1, <2>2 DEF Finish, stopVars, PoolIsFree, Executor!Finish
  <2> QED
    BY <2>1, <2>3 DEF Executor!Next
<1>6. ASSUME NEW w \in Workers, ReceiveTerminate(w) PROVE [Executor!Next]_(Executor!vars)
  BY <1>0, <1>6, ReceiveTerminateRefines DEF Executor!Next
<1>7. ASSUME NEW w \in Workers, Panic(w) PROVE [Executor!Next]_(Executor!vars)
  BY <1>7, PanicRefines DEF Executor!Next
<1>8. CASE UNCHANGED vars
  BY <1>8 DEF vars, workerVars, stopVars, LiveWorkers, PoolIsFree, Executor!vars
<1> QED
  BY <1>1, <1>2, <1>3, <1>4, <1>5, <1>6, <1>7, <1>8 DEF Next, WorkerNext, Rest

\* The pool implements the abstract executor: channel, lock, threads and
\* Terminates come to jobs started in the order of their submission, at most as
\* many at a time as threads are left, all of them before a stop() returns.
THEOREM PoolExecutes == Spec => ImplementsExecutor
  BY ExecutorInit, ExecutorStep, Inductive, PTL DEF Spec, ImplementsExecutor, Executor!Spec
===============================================================================
