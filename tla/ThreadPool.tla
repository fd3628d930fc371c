------------------------------ MODULE ThreadPool ------------------------------
(***************************************************************************)
(* runtime/sync/threadpool.rs: the workers, the channel they share, the    *)
(* mutex around its receiver, and stop(); with the outer mutex through     *)
(* which runtime/sync/server.rs calls run() and stop().  A job is a        *)
(* connection's closure: it may panic (MayPanic) or never end (Endless).   *)
(***************************************************************************)
EXTENDS Integers, Sequences, FiniteSets

CONSTANTS PoolSize,   \* ThreadPool::new's size
          Jobs,       \* the closures given to run()
          MayPanic,   \* jobs whose handler may panic
          Endless,    \* jobs nothing obliges to end (an upgraded connection)
          Terminate,  \* Message::Terminate; a job stands for its NewJob
          NoJob,
          MaxStops    \* bound: calls of stop(), the one in Drop included

ASSUME PoolAssumption ==
  /\ PoolSize \in Nat \ {0}
  /\ MayPanic \subseteq Jobs /\ Endless \subseteq Jobs
  /\ Terminate \notin Jobs /\ NoJob \notin Jobs
  /\ MaxStops \in Nat

VARIABLES queue,      \* the mpsc channel
          rxLock,     \* the worker in Mutex<Receiver>, or Free
          pc,         \* where each worker thread is
          task,       \* the job a running worker executes
          status,     \* history: what became of each job
          stopPhase,  \* "idle", or how far stop() is; it holds the pool mutex
          stopNext,   \* the worker entry stop() looks at
          handles,    \* the workers whose JoinHandle has not been taken
          stops       \* calls of stop() so far

workerVars == <<rxLock, pc, task>>
stopVars == <<stopPhase, stopNext, handles, stops>>
vars == <<queue, workerVars, status, stopVars>>

Workers == 1..PoolSize
Free == 0
Gone == {"terminated", "panicked"}
Statuses ==
  {"new", "queued", "running", "done", "panicked", "refused", "lost"}
Messages == Jobs \cup {Terminate}

\* The thread closures own the only references to the receiver.
ReceiverAlive == \E w \in Workers : pc[w] \notin Gone
LastWorker(w) == \A v \in Workers \ {w} : pc[v] \in Gone

PoolIsFree == stopPhase = "idle"

Init ==
  /\ queue = <<>> /\ rxLock = Free
  /\ pc = [w \in Workers |-> "ready"]
  /\ task = [w \in Workers |-> NoJob]
  /\ status = [j \in Jobs |-> "new"]
  /\ stopPhase = "idle" /\ stopNext = 1 /\ handles = Workers /\ stops = 0

-------------------------------------------------------------------------------
(* The channel's senders: run(), and stop() with its joins.                *)

\* The channel after send(m), which fails when the Receiver is dropped.
MutSent(m) == IF ReceiverAlive THEN <<m>> \o queue ELSE queue
Sent(m) == IF ReceiverAlive THEN Append(queue, m) ELSE queue

\* run() ignores SendError: the job is dropped, and its socket with it.
Run(j) ==
  /\ PoolIsFree
  /\ status[j] = "new"
  /\ queue' = Sent(j)
  /\ status' = [status EXCEPT ![j] = IF ReceiverAlive THEN "queued" ELSE "refused"]
  /\ UNCHANGED <<workerVars, stopVars>>

StopBegin ==
  /\ PoolIsFree /\ stops < MaxStops
  /\ stopPhase' = "sending" /\ stopNext' = 1 /\ stops' = stops + 1
  /\ UNCHANGED <<queue, workerVars, status, handles>>

MutAllTold == stopNext >= PoolSize - 1
AllTold == stopNext = PoolSize

\* One Terminate for every entry of `workers', exited or not.
SendTerminate ==
  /\ stopPhase = "sending"
  /\ queue' = Sent(Terminate)
  /\ IF AllTold
     THEN stopPhase' = "joining" /\ stopNext' = 1
     ELSE stopNext' = stopNext + 1 /\ UNCHANGED stopPhase
  /\ UNCHANGED <<workerVars, status, handles, stops>>

MutJoinReturns(w) == TRUE
JoinReturns(w) == w \in handles => pc[w] \in Gone

AllJoined == stopNext = PoolSize

\* thread.take() and join(), in the order of `workers'; a panic's Err is ignored.
Join ==
  /\ stopPhase = "joining"
  /\ JoinReturns(stopNext)
  /\ handles' = handles \ {stopNext}
  /\ IF AllJoined
     THEN stopPhase' = "idle" /\ stopNext' = 1
     ELSE stopNext' = stopNext + 1 /\ UNCHANGED stopPhase
  /\ UNCHANGED <<queue, workerVars, status, stops>>

-------------------------------------------------------------------------------
(* A worker's loop.  recv() cannot fail, as a Sender lives as long as the  *)
(* pool, whose Drop joins the workers; and the receiver's mutex is never   *)
(* poisoned, as no code that can panic runs under it.                      *)

MutCanLockReceiver(w) == rxLock = Free /\ \A v \in Workers : pc[v] # "running"
CanLockReceiver(w) == rxLock = Free

LockReceiver(w) ==
  /\ pc[w] = "ready" /\ CanLockReceiver(w)
  /\ rxLock' = w
  /\ pc' = [pc EXCEPT ![w] = "receiving"]
  /\ UNCHANGED <<queue, task, status, stopVars>>

MutAfterReceive == queue
AfterReceive == Tail(queue)

\* The guard is a temporary of the match: it is gone before the job runs.
ReceiveJob(w) ==
  /\ pc[w] = "receiving" /\ queue # <<>> /\ Head(queue) \in Jobs
  /\ queue' = AfterReceive
  /\ rxLock' = Free
  /\ pc' = [pc EXCEPT ![w] = "running"]
  /\ task' = [task EXCEPT ![w] = Head(queue)]
  /\ status' = [status EXCEPT ![Head(queue)] = "running"]
  /\ UNCHANGED stopVars

Finish(w) ==
  /\ pc[w] = "running"
  /\ pc' = [pc EXCEPT ![w] = "ready"]
  /\ task' = [task EXCEPT ![w] = NoJob]
  /\ status' = [status EXCEPT ![task[w]] = "done"]
  /\ UNCHANGED <<queue, rxLock, stopVars>>

\* Worker w's thread ends, leaving `rest' in the channel.  The last to end
\* drops the Receiver, and the Receiver the jobs nobody received.
Leave(w, how, rest, outcome) ==
  /\ pc' = [pc EXCEPT ![w] = how]
  /\ task' = [task EXCEPT ![w] = NoJob]
  /\ queue' = IF LastWorker(w) THEN <<>> ELSE rest
  /\ status' = [j \in Jobs |-> IF LastWorker(w) /\ outcome[j] = "queued"
                               THEN "lost" ELSE outcome[j]]
  /\ UNCHANGED stopVars

ReceiveTerminate(w) ==
  /\ pc[w] = "receiving" /\ queue # <<>> /\ Head(queue) = Terminate
  /\ rxLock' = Free
  /\ Leave(w, "terminated", AfterReceive, status)

\* Nothing catches a job's panic, and nothing starts a thread in its place.
Panic(w) ==
  /\ pc[w] = "running" /\ task[w] \in MayPanic
  /\ Leave(w, "panicked", queue, [status EXCEPT ![task[w]] = "panicked"])
  /\ UNCHANGED rxLock

\* Not a step of the code: the system may rest once the pool is dropped.
Rest ==
  /\ PoolIsFree /\ ~ReceiverAlive /\ stops = MaxStops
  /\ \A j \in Jobs : status[j] # "new"
  /\ UNCHANGED vars

WorkerNext(w) ==
  LockReceiver(w) \/ ReceiveJob(w) \/ Finish(w) \/ ReceiveTerminate(w) \/ Panic(w)

Next ==
  \/ \E j \in Jobs : Run(j)
  \/ StopBegin \/ SendTerminate \/ Join
  \/ \E w \in Workers : WorkerNext(w)
  \/ Rest

Spec == Init /\ [][Next]_vars

\* Threads are scheduled and jobs end, but for the Endless; nobody is obliged
\* to submit a job or to stop the pool.
Fairness ==
  /\ WF_vars(SendTerminate) /\ WF_vars(Join)
  /\ \A w \in Workers :
       /\ WF_vars(LockReceiver(w))
       /\ WF_vars(ReceiveJob(w) \/ ReceiveTerminate(w))
       /\ WF_vars(task[w] \notin Endless /\ (Finish(w) \/ Panic(w)))

FairSpec == Spec /\ Fairness

-------------------------------------------------------------------------------
(* Properties.                                                             *)

\* Types of the pool's state; the receiver's mutex is held exactly while a
\* worker waits in recv(), and a worker has a job exactly while it runs one.
TypeOK ==
  /\ queue \in Seq(Messages)
  /\ rxLock \in Workers \cup {Free}
  /\ pc \in [Workers -> {"ready", "receiving", "running"} \cup Gone]
  /\ task \in [Workers -> Jobs \cup {NoJob}]
  /\ status \in [Jobs -> Statuses]
  /\ stopPhase \in {"idle", "sending", "joining"}
  /\ stopNext \in Workers
  /\ handles \subseteq Workers
  /\ stops \in 0..MaxStops
  /\ \A w \in Workers : (rxLock = w) <=> (pc[w] = "receiving")
  /\ \A w \in Workers : (task[w] # NoJob) <=> (pc[w] = "running")

\* The outer mutex keeps run() out of a stop(): no job ever stands behind a
\* Terminate, where it could be left behind by the workers that exit.
NoJobBehindTerminate ==
  \A a, b \in 1..Len(queue) : a < b /\ queue[a] = Terminate => queue[b] = Terminate

\* Each accepted job is in exactly one place: once in the channel while it is
\* queued, with one worker while it runs, and nowhere before or after.
JobPlacement ==
  \A j \in Jobs :
    /\ Cardinality({i \in 1..Len(queue) : queue[i] = j}) = (IF status[j] = "queued" THEN 1 ELSE 0)
    /\ Cardinality({w \in Workers : task[w] = j}) = (IF status[j] = "running" THEN 1 ELSE 0)

\* A connection handed to the pool is dropped unserved only when every worker
\* died of a panic; a stop() never drops one that was accepted before it.
LostOnlyIfAllPanicked ==
  (\E j \in Jobs : status[j] = "lost") => \A w \in Workers : pc[w] = "panicked"

\* When stop() has returned every accepted job has been decided, no thread is
\* left to run another, and what run() is given afterwards is refused.
StoppedMeansDrained ==
  stops > 0 /\ PoolIsFree =>
    /\ ~ReceiverAlive /\ queue = <<>>
    /\ \A j \in Jobs : status[j] \notin {"queued", "running"}

\* During a stop() there is a Terminate, queued or still to be sent, for every
\* thread that has not ended, so that none waits in recv() for ever.
TerminateForEachWorker ==
  stopPhase # "idle" =>
    Cardinality({w \in Workers : pc[w] \notin Gone}) <=
      Cardinality({i \in 1..Len(queue) : queue[i] = Terminate})
        + (IF stopPhase = "sending" THEN PoolSize - stopNext + 1 ELSE 0)

\* While one worker is left that neither died nor is occupied for ever, a queued
\* job is started, whatever the others do: no job waits behind a long one.
Useless(w) == pc[w] \in Gone \/ (pc[w] = "running" /\ task[w] \in Endless)
EveryJobServed ==
  \A j \in Jobs :
    (status[j] = "queued") ~>
      (status[j] \in {"running", "done", "panicked"} \/ \A w \in Workers : Useless(w))

\* stop() returns, unless a worker runs an endless job for ever.
StopReturns ==
  \/ []<>PoolIsFree
  \/ <>[](\E w \in Workers : pc[w] \notin Gone /\ Useless(w))

\* The jobs of a channel in front of its first Terminate, and who is left to run them.
IsFront(q, n) ==
  /\ n \in 0..Len(q)
  /\ \A i \in 1..n : q[i] # Terminate
  /\ n < Len(q) => q[n + 1] = Terminate
JobsInFront(q) == SubSeq(q, 1, CHOOSE n \in 0..Len(q) : IsFront(q, n))
LiveWorkers == {w \in Workers : pc[w] \notin Gone}

\* The pool implements the abstract executor: what the workers will run is what
\* the executor has accepted, in its order.
Executor == INSTANCE JobExecutor WITH
  Slots <- PoolSize,
  backlog <- JobsInFront(queue),
  live <- Cardinality(LiveWorkers),
  phase <- IF PoolIsFree THEN "open" ELSE "closing"

ImplementsExecutor == Executor!Spec
===============================================================================
