----------------------------- MODULE JobExecutor -----------------------------
(***************************************************************************)
(* What a thread pool promises to its user, with no channel, no lock and   *)
(* no worker: jobs start in the order they were submitted, at most `live'  *)
(* at a time; closing lets every submitted job run before the last slot    *)
(* retires; a job is thrown away unstarted only when no slot is left, and  *)
(* a backlog can only be thrown away by a crash.                           *)
(***************************************************************************)
EXTENDS Naturals, Sequences, FiniteSets

CONSTANTS Slots,   \* how many jobs may run at a time in a new pool
          Jobs

VARIABLES backlog,  \* submitted jobs, oldest first
          status,   \* what became of each job
          live,     \* the slots that can still run jobs
          phase     \* "open": submissions are taken; "closing": stop is running

vars == <<backlog, status, live, phase>>

Running == {j \in Jobs : status[j] = "running"}

Init ==
  /\ backlog = <<>>
  /\ status = [j \in Jobs |-> "new"]
  /\ live = Slots
  /\ phase = "open"

Accept(j) ==
  /\ phase = "open" /\ live > 0 /\ status[j] = "new"
  /\ backlog' = Append(backlog, j)
  /\ status' = [status EXCEPT ![j] = "queued"]
  /\ UNCHANGED <<live, phase>>

Refuse(j) ==
  /\ phase = "open" /\ live = 0 /\ status[j] = "new"
  /\ status' = [status EXCEPT ![j] = "refused"]
  /\ UNCHANGED <<backlog, live, phase>>

Start ==
  /\ backlog # <<>> /\ Cardinality(Running) < live
  /\ status' = [status EXCEPT ![Head(backlog)] = "running"]
  /\ backlog' = Tail(backlog)
  /\ UNCHANGED <<live, phase>>

Finish(j) ==
  /\ status[j] = "running"
  /\ status' = [status EXCEPT ![j] = "done"]
  /\ UNCHANGED <<backlog, live, phase>>

\* A crashing job takes its slot with it; the last slot takes the backlog too.
Crash(j) ==
  /\ status[j] = "running"
  /\ live' = live - 1
  /\ backlog' = IF live = 1 THEN <<>> ELSE backlog
  /\ status' = [k \in Jobs |-> IF k = j THEN "panicked"
                             ELSE IF live = 1 /\ status[k] = "queued" THEN "lost"
                             ELSE status[k]]
  /\ UNCHANGED phase

BeginClose ==
  /\ phase = "open"
  /\ phase' = "closing"
  /\ UNCHANGED <<backlog, status, live>>

\* An idle slot retires only once nothing is waiting for it.
Retire ==
  /\ phase = "closing" /\ backlog = <<>> /\ Cardinality(Running) < live
  /\ live' = live - 1
  /\ UNCHANGED <<backlog, status, phase>>

Close ==
  /\ phase = "closing" /\ live = 0
  /\ phase' = "open"
  /\ UNCHANGED <<backlog, status, live>>

Next ==
  \/ \E j \in Jobs : Accept(j) \/ Refuse(j) \/ Finish(j) \/ Crash(j)
  \/ Start \/ BeginClose \/ Retire \/ Close

Spec == Init /\ [][Next]_vars
=============================================================================
