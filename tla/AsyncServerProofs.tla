-------------------------- MODULE AsyncServerProofs --------------------------
(***************************************************************************)
(* Theorems about AsyncServer, for every set of connections, every runtime *)
(* and any number of calls.                                                *)
(***************************************************************************)
EXTENDS AsyncServer, FiniteSetTheorems, TLAPS

\* A connection in the backlog is there once and has no task yet.
WaitingIsNew ==
  /\ \A i \in DOMAIN waiting : task[waiting[i]] = "none"
  /\ \A i, k \in DOMAIN waiting : i # k => waiting[i] # waiting[k]
  /\ \A i \in DOMAIN waiting : waiting[i] \in Range(arrived)

\* Only a connection that was opened has a task.
TasksArrived == \A c \in Conns : task[c] # "none" => c \in Range(arrived)

\* A connection accepted after the signal is the last.
LateMeansLast == late =< 1 /\ (late = 1 => signal = "sent" /\ loop # "accept")

\* Only run_until_shutdown has a channel.
OnlyUntilIsTold == signal # "open" => mode = "until"

TypeInv == TypeOK /\ IsFiniteSet(Running) /\ WaitingIsNew /\ TasksArrived
LoopInv == LateMeansLast /\ OnlyUntilIsTold /\ ReturnsOnlyWhenTold
IInv == TypeInv /\ NothingLost /\ LoopInv

-------------------------------------------------------------------------------
LEMMA InitOK == Init => IInv
  <1> SUFFICES ASSUME Init PROVE IInv
    OBVIOUS
  <1>1. Running = {}
    BY DEF Init, Running
  <1>2. IsFiniteSet(Running) /\ Cardinality(Running) = 0
    BY <1>1, FS_EmptySet
  <1>3. TypeOK
    BY <1>2, AsyncAssumption DEF Init, TypeOK
  <1>4. WaitingIsNew /\ TasksArrived /\ NothingLost
    BY DEF Init, WaitingIsNew, TasksArrived, NothingLost
  <1>5. LoopInv
    BY DEF Init, LoopInv, LateMeansLast, OnlyUntilIsTold, ReturnsOnlyWhenTold
  <1>6. QED
    BY <1>2, <1>3, <1>4, <1>5 DEF IInv, TypeInv

\* Steps that leave the tasks and the listener alone.
LEMMA QuietKeeps ==
  ASSUME IInv, UNCHANGED <<listenerVars, taskVars, runtime>>,
         mode' \in {"run", "until"}, loop' \in {"check", "accept", "returned", "dropped"},
         signal' \in {"open", "sent", "dropped"}, serves' \in 0..MaxServes, late' \in Nat,
         reply' \in {"none", "added", "panic"}
  PROVE  TypeInv' /\ NothingLost'
  <1> USE DEF listenerVars, taskVars
  <1>1. Running' = Running
    BY DEF Running
  <1>2. TypeOK' /\ IsFiniteSet(Running)'
    BY <1>1 DEF IInv, TypeInv, TypeOK
  <1>3. WaitingIsNew' /\ TasksArrived' /\ NothingLost'
    BY DEF IInv, TypeInv, WaitingIsNew, TasksArrived, NothingLost
  <1>4. QED
    BY <1>2, <1>3 DEF TypeInv

LEMMA LoopKeeps ==
  ASSUME IInv, Signal \/ CheckShutdown \/ AcceptTimeout \/ AcceptError \/ Routes \/ Serve
  PROVE  IInv'
  <1>1. TypeInv' /\ NothingLost'
    <2>1. UNCHANGED <<listenerVars, taskVars, runtime>>
      BY DEF Signal, CheckShutdown, AcceptTimeout, AcceptError, Kept, Routes, Serve, loopVars, listenerVars
    <2>2. mode' \in {"run", "until"} /\ loop' \in {"check", "accept", "returned", "dropped"}
          /\ signal' \in {"open", "sent", "dropped"} /\ reply' \in {"none", "added", "panic"}
      BY DEF IInv, TypeInv, TypeOK, Signal, CheckShutdown, AcceptTimeout, AcceptError, Routes, Serve, loopVars
    <2>3. serves' \in 0..MaxServes /\ late' \in Nat
      BY AsyncAssumption
      DEF IInv, TypeInv, TypeOK, Signal, CheckShutdown, AcceptTimeout, AcceptError, Routes, Serve, loopVars
    <2>4. QED
      BY <2>1, <2>2, <2>3, QuietKeeps
  <1>2. LoopInv'
    <2> USE DEF IInv, LoopInv, LateMeansLast, OnlyUntilIsTold, ReturnsOnlyWhenTold
    <2>1. CASE Signal
      BY <2>1 DEF Signal
    <2>2. CASE CheckShutdown
      BY <2>2 DEF CheckShutdown, ShutdownReceived
    <2>3. CASE AcceptTimeout
      BY <2>3 DEF AcceptTimeout
    <2>4. CASE AcceptError
      BY <2>4 DEF AcceptError, ErrorEnds
    <2>5. CASE Routes
      BY <2>5 DEF Routes, loopVars
    <2>6. CASE Serve
      BY <2>6 DEF Serve
    <2>7. QED
      BY <2>1, <2>2, <2>3, <2>4, <2>5, <2>6
  <1>3. QED
    BY <1>1, <1>2 DEF IInv

LEMMA ArriveKeeps ==
  ASSUME IInv, NEW c \in Conns, Arrive(c)
  PROVE  IInv'
  <1> USE DEF Arrive
  <1>0. TypeOK /\ WaitingIsNew /\ TasksArrived /\ NothingLost /\ task[c] = "none"
    BY DEF IInv, TypeInv, TasksArrived
  <1>1. arrived' \in Seq(Conns) /\ waiting' \in Seq(Conns)
    BY <1>0 DEF TypeOK
  <1>2. Running' = Running
    BY DEF Running, taskVars
  <1>3. TypeOK' /\ IsFiniteSet(Running)'
    BY <1>1, <1>2 DEF IInv, TypeInv, TypeOK, taskVars, loopVars
  <1>4. /\ Range(arrived') = Range(arrived) \cup {c}
        /\ Range(waiting') = Range(waiting) \cup {c}
    <2>1. ASSUME NEW s \in Seq(Conns) PROVE Range(Append(s, c)) = Range(s) \cup {c}
      <3>1. DOMAIN Append(s, c) = 1..(Len(s) + 1) /\ DOMAIN s = 1..Len(s) /\ Len(s) \in Nat
        BY <2>1
      <3>2. \A i \in 1..Len(s) : Append(s, c)[i] = s[i]
        BY <2>1
      <3>3. Append(s, c)[Len(s) + 1] = c
        BY <2>1
      <3>4. ASSUME NEW x \in Range(Append(s, c)) PROVE x \in Range(s) \cup {c}
        <4>1. PICK i \in 1..(Len(s) + 1) : x = Append(s, c)[i]
          BY <3>1 DEF Range
        <4>2. CASE i = Len(s) + 1
          BY <3>3, <4>1, <4>2
        <4>3. CASE i # Len(s) + 1
          BY <3>1, <3>2, <4>1, <4>3 DEF Range
        <4>4. QED
          BY <4>2, <4>3
      <3>5. ASSUME NEW x \in Range(s) PROVE x \in Range(Append(s, c))
        <4>1. PICK i \in 1..Len(s) : x = s[i]
          BY <3>1 DEF Range
        <4>2. i \in 1..(Len(s) + 1) /\ Append(s, c)[i] = x
          BY <3>1, <3>2, <4>1
        <4>3. QED
          BY <3>1, <4>2 DEF Range
      <3>6. c \in Range(Append(s, c))
        <4>1. Len(s) + 1 \in DOMAIN Append(s, c)
          BY <3>1
        <4>2. QED
          BY <3>3, <4>1 DEF Range
      <3>7. QED
        BY <3>4, <3>5, <3>6
    <2>2. QED
      BY <1>0, <2>1 DEF TypeOK
  <1>5. WaitingIsNew'
    <2>1. DOMAIN waiting' = 1..(Len(waiting) + 1) /\ DOMAIN waiting = 1..Len(waiting) /\ Len(waiting) \in Nat
          /\ waiting'[Len(waiting) + 1] = c
          /\ \A i \in DOMAIN waiting : waiting'[i] = waiting[i]
      BY <1>0 DEF TypeOK
    <2>2. \A i \in DOMAIN waiting : waiting[i] # c
      BY <1>0 DEF WaitingIsNew
    <2>3. \A i \in DOMAIN waiting' : i \in DOMAIN waiting \/ i = Len(waiting) + 1
      BY <2>1
    <2>4. \A i \in DOMAIN waiting' : task'[waiting'[i]] = "none" /\ waiting'[i] \in Range(arrived')
      BY <1>0, <1>4, <2>1, <2>3 DEF WaitingIsNew, taskVars
    <2>5. \A i, k \in DOMAIN waiting' : i # k => waiting'[i] # waiting'[k]
      BY <1>0, <2>1, <2>2, <2>3 DEF WaitingIsNew
    <2>6. QED
      BY <2>4, <2>5 DEF WaitingIsNew
  <1>6. NothingLost'
    <2>1. ASSUME NEW x \in Range(arrived') PROVE x \in Range(waiting') \/ task'[x] # "none"
      BY <1>0, <1>4, <2>1 DEF NothingLost, taskVars, Range
    <2>2. QED
      BY <2>1 DEF NothingLost, Range
  <1>7. LoopInv'
    BY DEF IInv, LoopInv, LateMeansLast, OnlyUntilIsTold, ReturnsOnlyWhenTold, loopVars
  <1>8. TasksArrived'
    BY <1>0, <1>4 DEF TasksArrived, taskVars
  <1>9. QED
    BY <1>3, <1>5, <1>6, <1>7, <1>8 DEF IInv, TypeInv

LEMMA AcceptKeeps ==
  ASSUME IInv, AcceptConnection
  PROVE  IInv'
  <1> DEFINE c == Head(waiting)
  <1>0. TypeOK /\ IsFiniteSet(Running) /\ WaitingIsNew /\ TasksArrived /\ NothingLost
    BY DEF IInv, TypeInv
  <1>1. /\ Len(waiting) \in Nat \ {0} /\ DOMAIN waiting = 1..Len(waiting)
        /\ c = waiting[1] /\ c \in Conns
        /\ waiting' = Tail(waiting) /\ waiting' \in Seq(Conns)
        /\ DOMAIN waiting' = 1..(Len(waiting) - 1)
        /\ \A i \in 1..(Len(waiting) - 1) : waiting'[i] = waiting[i + 1]
    BY <1>0 DEF AcceptConnection, TypeOK
  <1>2. task[c] = "none" /\ c \in Range(arrived)
    BY <1>0, <1>1 DEF WaitingIsNew
  <1>3. task' = [task EXCEPT ![c] = "running"] /\ refs' = refs + 1
    BY DEF AcceptConnection, Spawn
  <1> HIDE DEF c
  <1>4. Running' = Running \cup {c} /\ c \notin Running
    BY <1>0, <1>1, <1>2, <1>3 DEF Running, TypeOK
  <1>5. IsFiniteSet(Running)' /\ Cardinality(Running') = Cardinality(Running) + 1
    BY <1>0, <1>4, FS_AddElement
  <1>6. TypeOK'
    <2>1. refs' = 1 + Cardinality(Running')
      BY <1>0, <1>3, <1>5, FS_CardinalityType DEF TypeOK
    <2>2. task' \in [Conns -> {"none", "running", "done", "panicked", "cancelled"}]
      BY <1>0, <1>1, <1>3 DEF TypeOK
    <2>3. QED
      BY <1>0, <1>1, <2>1, <2>2 DEF TypeOK, AcceptConnection
  <1>7. WaitingIsNew'
    <2>1. \A i \in DOMAIN waiting' : i + 1 \in DOMAIN waiting /\ waiting'[i] = waiting[i + 1] /\ i + 1 # 1
      BY <1>1
    <2>2. \A i \in DOMAIN waiting' : waiting'[i] \in Conns /\ waiting'[i] # c
      BY <1>0, <1>1, <2>1 DEF WaitingIsNew, TypeOK
    <2>3. \A i \in DOMAIN waiting' : task'[waiting'[i]] = "none"
      BY <1>0, <1>3, <2>1, <2>2 DEF WaitingIsNew, TypeOK
    <2>4. \A i \in DOMAIN waiting' : waiting'[i] \in Range(arrived')
      BY <1>0, <2>1 DEF WaitingIsNew, AcceptConnection
    <2>5. \A i, k \in DOMAIN waiting' : i # k => waiting'[i] # waiting'[k]
      <3>1. \A i, k \in DOMAIN waiting' : i # k => i + 1 # k + 1
        BY <1>1
      <3>2. QED
        BY <1>0, <2>1, <3>1 DEF WaitingIsNew
    <2>6. QED
      BY <2>3, <2>4, <2>5 DEF WaitingIsNew
  <1>8. NothingLost'
    <2>1. \A x \in Range(waiting) : x = c \/ x \in Range(waiting')
      <3>1. TAKE x \in Range(waiting)
      <3>2. PICK i \in 1..Len(waiting) : x = waiting[i]
        BY <1>1 DEF Range
      <3>3. CASE i = 1
        BY <1>1, <3>2, <3>3
      <3>4. CASE i # 1
        <4>1. i - 1 \in DOMAIN waiting' /\ waiting'[i - 1] = x
          BY <1>1, <3>2, <3>4
        <4>2. QED
          BY <4>1 DEF Range
      <3>5. QED
        BY <3>3, <3>4
    <2>2. \A x \in Conns : task[x] # "none" => task'[x] # "none"
      BY <1>0, <1>1, <1>3 DEF TypeOK
    <2>3. task'[c] # "none"
      BY <1>0, <1>1, <1>3 DEF TypeOK
    <2>4. arrived' = arrived /\ \A i \in DOMAIN arrived : arrived[i] \in Conns
      BY <1>0 DEF AcceptConnection, TypeOK
    <2>5. QED
      BY <1>0, <2>1, <2>2, <2>3, <2>4 DEF NothingLost
  <1>9. TasksArrived'
    BY <1>0, <1>1, <1>2, <1>3 DEF TasksArrived, TypeOK, AcceptConnection
  <1>10. LoopInv'
    BY <1>0 DEF IInv, LoopInv, LateMeansLast, OnlyUntilIsTold, ReturnsOnlyWhenTold, TypeOK,
                AcceptConnection
  <1>11. QED
    BY <1>5, <1>6, <1>7, <1>8, <1>9, <1>10 DEF IInv, TypeInv

\* Steps that end tasks touch no connection that waits.
LEMMA EndsKeep ==
  ASSUME IInv, UNCHANGED <<listenerVars, runtime, mode, signal, serves, late, reply>>,
         loop' \in {loop, "dropped"},
         task' \in [Conns -> {"none", "running", "done", "panicked", "cancelled"}],
         \A c \in Conns : task[c] = "none" <=> task'[c] = "none",
         IsFiniteSet(Running)', refs' = 1 + Cardinality(Running')
  PROVE  IInv'
  <1> USE DEF listenerVars
  <1>0. TypeOK /\ WaitingIsNew /\ TasksArrived /\ NothingLost
    BY DEF IInv, TypeInv
  <1>1. TypeOK'
    BY <1>0 DEF TypeOK
  <1>2. \A i \in DOMAIN waiting : waiting[i] \in Conns
    BY <1>0 DEF TypeOK
  <1>3. \A i \in DOMAIN arrived : arrived[i] \in Conns
    BY <1>0 DEF TypeOK
  <1>4. WaitingIsNew'
    BY <1>0, <1>2 DEF WaitingIsNew
  <1>5. TasksArrived' /\ NothingLost'
    BY <1>0, <1>3 DEF TasksArrived, NothingLost
  <1>6. LoopInv'
    BY DEF IInv, LoopInv, LateMeansLast, OnlyUntilIsTold, ReturnsOnlyWhenTold
  <1>7. QED
    BY <1>1, <1>4, <1>5, <1>6 DEF IInv, TypeInv

LEMMA TaskEndsKeeps ==
  ASSUME IInv, NEW c \in Conns, TaskEnds(c)
  PROVE  IInv'
  <1>0. TypeOK /\ IsFiniteSet(Running)
    BY DEF IInv, TypeInv
  <1>1. PICK how \in {"done", "panicked"} : task' = [task EXCEPT ![c] = how]
    BY DEF TaskEnds
  <1>2. task[c] = "running" /\ c \in Running
    BY DEF TaskEnds, Running
  <1>3. task' \in [Conns -> {"none", "running", "done", "panicked", "cancelled"}]
        /\ \A d \in Conns : task[d] = "none" <=> task'[d] = "none"
    BY <1>0, <1>1, <1>2 DEF TypeOK
  <1>4. Running' = Running \ {c}
    BY <1>0, <1>1 DEF Running, TypeOK
  <1>5. IsFiniteSet(Running)' /\ Cardinality(Running') = Cardinality(Running) - 1
    BY <1>0, <1>2, <1>4, FS_RemoveElement
  <1>6. refs' = 1 + Cardinality(Running')
    BY <1>0, <1>5, FS_CardinalityType DEF TaskEnds, Released, TypeOK
  <1>7. UNCHANGED <<listenerVars, runtime, mode, loop, signal, serves, late, reply>>
    BY DEF TaskEnds, loopVars
  <1>8. QED
    BY <1>3, <1>5, <1>6, <1>7, EndsKeep

LEMMA DropKeeps ==
  ASSUME IInv, DropRuntime
  PROVE  IInv'
  <1>0. TypeOK /\ IsFiniteSet(Running)
    BY DEF IInv, TypeInv
  <1>1. task' = [c \in Conns |-> IF c \in Running THEN "cancelled" ELSE task[c]]
    BY DEF DropRuntime
  <1>2. task' \in [Conns -> {"none", "running", "done", "panicked", "cancelled"}]
        /\ \A d \in Conns : task[d] = "none" <=> task'[d] = "none"
    BY <1>0, <1>1 DEF Running, TypeOK
  <1>3. Running' = {}
    BY <1>0, <1>1 DEF Running, TypeOK
  <1>4. IsFiniteSet(Running)' /\ Cardinality(Running') = 0
    BY <1>3, FS_EmptySet
  <1>5. refs' = 1 + Cardinality(Running')
    BY <1>0, <1>4, FS_CardinalityType DEF DropRuntime, Released, TypeOK
  <1>6. UNCHANGED <<listenerVars, runtime, mode, signal, serves, late, reply>> /\ loop' = "dropped"
    BY DEF DropRuntime
  <1>7. QED
    BY <1>2, <1>4, <1>5, <1>6, EndsKeep

LEMMA StutterKeeps == IInv /\ UNCHANGED vars => IInv'
  <1> SUFFICES ASSUME IInv, UNCHANGED vars PROVE IInv'
    OBVIOUS
  <1> USE DEF vars, listenerVars, loopVars, taskVars
  <1>1. Running' = Running
    BY DEF Running
  <1>2. TypeInv'
    BY <1>1 DEF IInv, TypeInv, TypeOK, WaitingIsNew, TasksArrived
  <1>3. NothingLost' /\ LoopInv'
    BY DEF IInv, NothingLost, LoopInv, LateMeansLast, OnlyUntilIsTold, ReturnsOnlyWhenTold
  <1>4. QED
    BY <1>2, <1>3 DEF IInv

-------------------------------------------------------------------------------
\* Every step of clients, tasks, the loop and the owner keeps the invariant.
THEOREM Inductive == Spec => []IInv
  <1>1. IInv /\ [Next]_vars => IInv'
    <2> SUFFICES ASSUME IInv, [Next]_vars PROVE IInv'
      OBVIOUS
    <2>1. CASE \E c \in Conns : Arrive(c) \/ TaskEnds(c)
      BY <2>1, ArriveKeeps, TaskEndsKeeps
    <2>2. CASE Signal \/ CheckShutdown \/ AcceptTimeout \/ AcceptError \/ Routes \/ Serve
      BY <2>2, LoopKeeps
    <2>3. CASE AcceptConnection
      BY <2>3, AcceptKeeps
    <2>4. CASE DropRuntime
      BY <2>4, DropKeeps
    <2>5. CASE Rest \/ UNCHANGED vars
      BY <2>5, StutterKeeps DEF Rest
    <2>6. QED
      BY <2>1, <2>2, <2>3, <2>4, <2>5 DEF Next
  <1>2. QED
    BY <1>1, InitOK, PTL DEF Spec

\* The variables keep their types, and the table of routes has one reference for
\* the server and one for each task that runs, whatever ends a task.
THEOREM AsyncTypeCorrect == Spec => []TypeOK
  <1>1. IInv => TypeOK
    BY DEF IInv, TypeInv
  <1>2. QED
    BY <1>1, Inductive, PTL

\* Accepts given up after ten milliseconds, accept errors and calls of
\* run_until_shutdown that end lose no connection.
THEOREM NothingIsLost == Spec => []NothingLost
  <1>1. IInv => NothingLost
    BY DEF IInv
  <1>2. QED
    BY <1>1, Inductive, PTL

\* After the signal the loop accepts one more connection at most.
THEOREM SignalIsHeeded == Spec => []OneAcceptAfterSignal
  <1>1. IInv => OneAcceptAfterSignal
    BY DEF IInv, LoopInv, LateMeansLast, OneAcceptAfterSignal
  <1>2. QED
    BY <1>1, Inductive, PTL

\* The loops end when they are told to, but for run() on async-std.
THEOREM ReturnsAreTold == Spec => []ReturnsOnlyWhenTold
  <1>1. IInv => ReturnsOnlyWhenTold
    BY DEF IInv, LoopInv
  <1>2. QED
    BY <1>1, Inductive, PTL

\* routes() finds the table its own exactly when no task runs.
THEOREM RoutesWhenIdle == Spec => RoutesOnlyWhenIdle
  <1>1. IInv /\ [Next]_vars => [Routes => (reply' = "added" <=> Running = {})]_vars
    <2> SUFFICES ASSUME IInv, Routes PROVE reply' = "added" <=> Running = {}
      OBVIOUS
    <2>1. TypeOK /\ IsFiniteSet(Running)
      BY DEF IInv, TypeInv
    <2>2. Running = {} <=> Cardinality(Running) = 0
      BY <2>1, FS_EmptySet
    <2>3. Cardinality(Running) \in Nat
      BY <2>1, FS_CardinalityType
    <2>4. QED
      BY <2>1, <2>2, <2>3 DEF Routes, TypeOK
  <1>2. QED
    BY <1>1, Inductive, PTL DEF Spec, RoutesOnlyWhenIdle
===============================================================================
