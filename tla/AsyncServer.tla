----------------------------- MODULE AsyncServer -----------------------------
(***************************************************************************)
(* The servers on tokio, async-std and smol (runtime/async): the accept    *)
(* loops, a task for each connection with its clones of the shared table,  *)
(* a shutdown that waits for no task, and the owner, who then may add      *)
(* routes, serve again or drop the runtime with the tasks in it.           *)
(***************************************************************************)
EXTENDS Integers, FiniteSets, SequencesExt

CONSTANTS Conns,       \* connections
          Endless,     \* those that go on for ever, upgraded ones for instance
          MaxServes    \* a bound of the model on the calls of run_until_shutdown

ASSUME AsyncAssumption ==
  /\ Endless \subseteq Conns
  /\ MaxServes \in Nat \ {0}

VARIABLES runtime,   \* "tokio", "async_std" or "smol": the feature that was chosen
          arrived,   \* history: the connections clients opened, in order
          waiting,   \* the listener's backlog
          mode,      \* "run" or "until": run() or run_until_shutdown()
          loop,      \* where that call is
          signal,    \* its shutdown channel: "open", "sent" or "dropped"
          serves,    \* history: how many such calls there were
          late,      \* history: connections accepted after the signal
          task,      \* each connection's task
          refs,      \* strong references to the table of routes
          reply      \* how the owner's last routes() ended

listenerVars == <<arrived, waiting>>
loopVars == <<runtime, mode, loop, signal, serves, late>>
taskVars == <<task, refs>>
vars == <<listenerVars, loopVars, taskVars, reply>>

Running == {c \in Conns : task[c] = "running"}

-------------------------------------------------------------------------------
(* Clients and the owner of the shutdown channel.                          *)

Arrive(c) ==
  /\ c \notin Range(arrived)
  /\ arrived' = Append(arrived, c) /\ waiting' = Append(waiting, c)
  /\ UNCHANGED <<loopVars, taskVars, reply>>

Signal ==
  /\ mode = "until" /\ loop # "returned" /\ signal = "open"
  /\ signal' \in {"sent", "dropped"}
  /\ UNCHANGED <<listenerVars, runtime, mode, loop, serves, late, taskVars, reply>>

-------------------------------------------------------------------------------
(* The accept loops.                                                       *)

\* try_recv().is_ok().  run() has no such check: its channel stays open here.
MutShutdownReceived == signal = "dropped"
ShutdownReceived == signal = "sent"

CheckShutdown ==
  /\ loop = "check"
  /\ loop' = IF ShutdownReceived THEN "returned" ELSE "accept"
  /\ UNCHANGED <<listenerVars, runtime, mode, signal, serves, late, taskVars, reply>>

\* handle_stream clones the table and spawns the task, without an await.
MutSpawn(c) == Running = {} /\ task' = [task EXCEPT ![c] = "running"] /\ refs' = refs + 1
Spawn(c) == task' = [task EXCEPT ![c] = "running"] /\ refs' = refs + 1

AcceptConnection ==
  /\ loop = "accept" /\ waiting # <<>>
  /\ waiting' = Tail(waiting)
  /\ Spawn(Head(waiting))
  /\ late' = IF signal = "sent" THEN late + 1 ELSE late
  /\ loop' = "check"
  /\ UNCHANGED <<arrived, runtime, mode, signal, serves, reply>>

\* Ten milliseconds are over and the pending accept() is dropped, maybe just as
\* a connection comes.
MutKept == IF waiting = <<>> THEN <<>> ELSE Tail(waiting)
Kept == waiting
AcceptTimeout ==
  /\ loop = "accept" /\ mode = "until"
  /\ loop' = "check"
  /\ waiting' = Kept
  /\ UNCHANGED <<arrived, runtime, mode, signal, serves, late, taskVars, reply>>

\* accept() fails: async-std's run() ends, the other loops go on.
ErrorEnds == mode = "run" /\ runtime = "async_std"
AcceptError ==
  /\ loop = "accept"
  /\ loop' = IF ErrorEnds THEN "returned" ELSE "check"
  /\ waiting' = Kept
  /\ UNCHANGED <<arrived, runtime, mode, signal, serves, late, taskVars, reply>>

-------------------------------------------------------------------------------
(* The tasks.                                                              *)

\* A task ends, by itself or of a panic, and drops its clones.
MutReleased(n) == refs
Released(n) == refs - n
TaskEnds(c) ==
  /\ task[c] = "running" /\ c \notin Endless
  /\ \E how \in {"done", "panicked"} : task' = [task EXCEPT ![c] = how]
  /\ refs' = Released(1)
  /\ UNCHANGED <<listenerVars, loopVars, reply>>

-------------------------------------------------------------------------------
(* The owner, once the call has returned.                                  *)

\* routes() unwraps Arc::get_mut, which wants the only reference.
Routes ==
  /\ loop = "returned" /\ reply # "panic"
  /\ reply' = IF refs = 1 THEN "added" ELSE "panic"
  /\ UNCHANGED <<listenerVars, loopVars, taskVars>>

Serve ==
  /\ loop = "returned" /\ reply # "panic" /\ serves < MaxServes
  /\ mode' \in {"run", "until"} /\ loop' = "check"
  /\ signal' = "open" /\ serves' = serves + 1 /\ late' = 0
  /\ UNCHANGED <<listenerVars, runtime, taskVars, reply>>

\* The runtime is dropped, with every task in it at its await.
DropRuntime ==
  /\ loop = "returned"
  /\ loop' = "dropped"
  /\ task' = [c \in Conns |-> IF c \in Running THEN "cancelled" ELSE task[c]]
  /\ refs' = Released(Cardinality(Running))
  /\ UNCHANGED <<listenerVars, runtime, mode, signal, serves, late, reply>>

\* Not a step of the code: the system may rest when nothing is served.
Rest == loop \in {"returned", "dropped"} /\ UNCHANGED vars

Init ==
  /\ runtime \in {"tokio", "async_std", "smol"}
  /\ arrived = <<>> /\ waiting = <<>>
  /\ mode = "until" /\ loop = "returned" /\ signal = "open" /\ serves = 0 /\ late = 0
  /\ task = [c \in Conns |-> "none"] /\ refs = 1
  /\ reply = "none"

Next ==
  \/ \E c \in Conns : Arrive(c) \/ TaskEnds(c)
  \/ Signal
  \/ CheckShutdown \/ AcceptConnection \/ AcceptTimeout \/ AcceptError
  \/ Routes \/ Serve \/ DropRuntime
  \/ Rest

Spec == Init /\ [][Next]_vars

\* The loop's task is scheduled, and a listener with a connection to accept
\* neither fails nor is late for ever.  Nothing is asked of clients, tasks or the
\* owner.
Fairness ==
  /\ WF_vars(CheckShutdown) /\ WF_vars(AcceptConnection \/ AcceptTimeout)
  /\ SF_vars(AcceptConnection)

FairSpec == Spec /\ Fairness

-------------------------------------------------------------------------------
(* Properties.                                                             *)

\* Types; the references to the table are the server's own and one for each
\* task that runs.
TypeOK ==
  /\ runtime \in {"tokio", "async_std", "smol"} /\ mode \in {"run", "until"}
  /\ arrived \in Seq(Conns) /\ waiting \in Seq(Conns)
  /\ loop \in {"check", "accept", "returned", "dropped"}
  /\ signal \in {"open", "sent", "dropped"}
  /\ serves \in 0..MaxServes /\ late \in Nat
  /\ task \in [Conns -> {"none", "running", "done", "panicked", "cancelled"}]
  /\ refs = 1 + Cardinality(Running)
  /\ reply \in {"none", "added", "panic"}

\* No connection is lost between the accepts that are given up after ten
\* milliseconds, the errors and the calls of run_until_shutdown: it waits in
\* the backlog or has its task.
NothingLost ==
  \A i \in DOMAIN arrived : arrived[i] \in Range(waiting) \/ task[arrived[i]] # "none"

\* The signal lets in one connection at most.
OneAcceptAfterSignal == late =< 1

\* A server goes on unless it was told to stop: neither a dropped sender nor an
\* accept error ends it, but for run() on async-std.
ReturnsOnlyWhenTold ==
  serves > 0 /\ loop = "returned" =>
    \/ mode = "until" /\ signal = "sent"
    \/ mode = "run" /\ runtime = "async_std"

\* routes() may be called again after a shutdown, but not while a connection of
\* the last time is still served: then, and only then, it panics.
RoutesOnlyWhenIdle ==
  [][Routes => (reply' = "added" <=> Running = {})]_vars

\* Whatever the connections do, each that waits is accepted while the server
\* runs: no task keeps the loop from its work.
EachIsAccepted ==
  \A c \in Conns :
    (c \in Range(waiting) /\ loop \in {"check", "accept"}) ~> (task[c] # "none" \/ loop = "returned")

\* The signal ends the loop, also when connections go on for ever.
ShutdownReturns == (signal = "sent") ~> (loop \in {"returned", "dropped"})
===============================================================================
