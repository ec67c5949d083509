--------------------------- MODULE ExecutorProofs ---------------------------
(***************************************************************************)
(* The safety of Executor for any number of CPUs and tasks.  OnePoller     *)
(* rests on the executors' tables: an id is in at most one of them, since  *)
(* NEXT_ID only grows and a task never moves, and only a task of the       *)
(* polling CPU's own table is polled.                                      *)
(***************************************************************************)
EXTENDS Executor, FiniteSetTheorems, TLAPS

\* An id is in one table at most, and below NEXT_ID.
Owned ==
  /\ \A c \in Cpus : \A t \in tasks[c] : t < next
  /\ \A c, d \in Cpus : \A t \in tasks[c] \cap tasks[d] : c = d

\* What is polled is in the table of the CPU that polls, and only while it polls.
Polling ==
  /\ \A c \in Cpus : pc[c] = "poll" => cur[c] \in tasks[c]
  /\ \A c \in Cpus : pc[c] # "poll" => cur[c] = Nil

\* Only the owner of a queue pushes to it: a CPU that looks for work elsewhere
\* has none; a CPU that was not started has no tasks.
Idle ==
  /\ \A c \in Cpus : pc[c] = "idle" => queue[c] = <<>> /\ probe[c] \subseteq started
  /\ \A c \in Cpus \ started : tasks[c] = {}

IInv == TypeOK /\ Owned /\ Polling /\ Idle

\* What is started is a CPU.
LEMMA StartedCpus == TypeOK => started \subseteq Cpus
  BY ExecutorAssumption, Zenon DEF TypeOK

\* Nothing runs before the first spawn.
LEMMA InitIInv == Init => IInv
  BY ExecutorAssumption DEF Init, IInv, TypeOK, Tasks, Owned, Polling, Idle

\* The queue operations take and leave sequences of ids.
LEMMA QueueTypes ==
  ASSUME NEW q \in Seq(Tasks), NEW t \in Tasks, NEW k \in 0..Len(q)
  PROVE  /\ Append(q, t) \in Seq(Tasks)
         /\ SubSeq(q, 1, k) \in Seq(Tasks)
         /\ SubSeq(q, k + 1, Len(q)) \in Seq(Tasks)
         /\ q # <<>> => Head(q) \in Tasks /\ Tail(q) \in Seq(Tasks)
  BY DEF Tasks

\* The queues remain sequences of ids.
LEMMA StepQueues == TypeOK /\ Polling /\ [Next]_vars => queue' \in [Cpus -> Seq(Tasks)]
<1> SUFFICES ASSUME TypeOK, Polling, [Next]_vars PROVE queue' \in [Cpus -> Seq(Tasks)]
  BY Zenon
<1> USE DEF TypeOK
<1>1. ASSUME NEW c \in Cpus, NEW t \in Tasks, Enqueue(c, t) PROVE queue' \in [Cpus -> Seq(Tasks)]
  <2>1. Append(queue[c], t) \in Seq(Tasks)
    BY QueueTypes, queue[c] \in Seq(Tasks), 0 \in 0..Len(queue[c]), Zenon
  <2> QED
    BY <1>1, <2>1, Zenon DEF Enqueue
<1>2. ASSUME NEW c \in started, Spawn(c) PROVE queue' \in [Cpus -> Seq(Tasks)]
  BY <1>1, <1>2, StartedCpus, Zenon DEF Spawn, Tasks
<1>3. ASSUME NEW c \in started, PopTask(c) PROVE queue' \in [Cpus -> Seq(Tasks)]
  BY <1>3, StartedCpus DEF PopTask
<1>4. ASSUME NEW c \in started, NEW t \in held, WakeTask(c, t) PROVE queue' \in [Cpus -> Seq(Tasks)]
  BY <1>1, <1>4, StartedCpus, Zenon DEF WakeTask
<1>5. ASSUME NEW c \in started, Yield(c) PROVE queue' \in [Cpus -> Seq(Tasks)]
  BY <1>1, <1>5, StartedCpus, Zenon DEF Yield, Polling
<1>6. ASSUME NEW c \in started, NEW s \in probe[c], StealBatch(c, s)
      PROVE  queue' \in [Cpus -> Seq(Tasks)]
  <2> DEFINE k == (Len(queue[s]) + 1) \div 2
  <2>1. s \in Cpus /\ c \in Cpus
    BY StartedCpus, Zenon
  <2>2. Len(queue[s]) \in Nat /\ queue[s] \in Seq(Tasks)
    BY <2>1
  <2>3. k \in 0..Len(queue[s])
    BY <2>2, \A n \in Nat : (n + 1) \div 2 \in 0..n, Zenon
  <2>4. SubSeq(queue[s], 1, k) \in Seq(Tasks) /\ SubSeq(queue[s], k + 1, Len(queue[s])) \in Seq(Tasks)
    <3> HIDE DEF k
    <3>1. 0 \in Tasks
      BY Zenon DEF Tasks
    <3> QED
      BY <2>2, <2>3, <3>1, QueueTypes, Zenon
  <2> QED
    BY <1>6, <2>1, <2>4, ZenonT(40) DEF StealBatch
<1>7. CASE UNCHANGED queue
  BY <1>7, Zenon
<1> QED
  BY <1>2, <1>3, <1>4, <1>5, <1>6, <1>7, Zenon
     DEF Next, Cpu, Run, LeaveWaker, Wait, Ready, Disable, Halt, TimerIrq, vars

\* The other variables keep their types; a waker is cached with its task.
LEMMA StepTypeOK == TypeOK /\ Polling /\ Idle /\ [Next]_vars => TypeOK'
<1> SUFFICES ASSUME TypeOK, Polling, Idle, [Next]_vars PROVE TypeOK'
  BY Zenon
<1>q. queue' \in [Cpus -> Seq(Tasks)]
  BY StepQueues, Zenon
<1>c. started \subseteq Cpus
  BY StartedCpus, Zenon
<1> USE <1>q, <1>c DEF TypeOK, Tasks, Goto
<1>1. ASSUME NEW c \in started, Spawn(c) PROVE TypeOK'
  BY <1>1 DEF Spawn
<1>2. ASSUME NEW c \in started, Run(c) \/ Halt(c) \/ TimerIrq(c) PROVE TypeOK'
  BY <1>2, Zenon DEF Run, Halt, TimerIrq
<1>3. ASSUME NEW c \in started, PopTask(c) PROVE TypeOK'
  <2> DEFINE t == Head(queue[c])
  <2>1. t \in Nat
    BY <1>3 DEF PopTask
  <2> HIDE DEF t
  <2>2. CASE t \in tasks[c]
    <3>1. /\ cache' = [cache EXCEPT ![c] = @ \cup {t}]
          /\ cur' = [cur EXCEPT ![c] = t]
          /\ pc' = [pc EXCEPT ![c] = "poll"]
          /\ UNCHANGED <<started, next, tasks, intr, probe, held>>
      BY <1>3, <2>2, Zenon DEF PopTask, Resume, t
    <3> QED
      BY <2>1, <2>2, <3>1
  <2>3. CASE t \notin tasks[c]
    BY <1>3, <2>3, Zenon DEF PopTask, Resume, t
  <2> QED
    BY <2>2, <2>3, Zenon
<1>4. ASSUME NEW c \in started, LeaveWaker(c) PROVE TypeOK'
  BY <1>4, Zenon DEF LeaveWaker, Polling
<1>5. ASSUME NEW c \in started, NEW t \in held, WakeTask(c, t) PROVE TypeOK'
  BY <1>5, Zenon DEF WakeTask
<1>6. ASSUME NEW c \in started, Yield(c) \/ Wait(c) PROVE TypeOK'
  BY <1>6, Zenon DEF Yield, Wait, Polled
<1>7. ASSUME NEW c \in started, Ready(c) PROVE TypeOK'
  BY <1>7, Zenon DEF Ready, Polled
<1>8. ASSUME NEW c \in started, Disable(c) PROVE TypeOK'
  BY <1>8, Zenon DEF Disable
<1>9. ASSUME NEW c \in started, NEW s \in probe[c], StealBatch(c, s) PROVE TypeOK'
  <2>0. /\ pc \in [Cpus -> {"boot", "pop", "poll", "idle", "hlt"}]
        /\ probe \in [Cpus -> SUBSET Cpus]
    BY Zenon
  <2>1. UNCHANGED <<started, next, tasks, cache, cur, intr, held>>
    BY <1>9, Zenon DEF StealBatch
  <2>2. pc' = [pc EXCEPT ![c] = "pop"] \/ pc' = pc
    BY <1>9, Zenon DEF StealBatch
  <2>3. probe' = [probe EXCEPT ![c] = {}] \/ probe' = [probe EXCEPT ![c] = @ \ {s}]
    BY <1>9, Zenon DEF StealBatch
  <2>4. pc' \in [Cpus -> {"boot", "pop", "poll", "idle", "hlt"}] /\ probe' \in [Cpus -> SUBSET Cpus]
    <3> HIDE <1>q DEF TypeOK
    <3>1. pc' \in [Cpus -> {"boot", "pop", "poll", "idle", "hlt"}]
      BY <2>0, <2>2, Zenon
    <3>2. probe' \in [Cpus -> SUBSET Cpus]
      BY <2>0, <2>3, Zenon
    <3> QED
      BY <3>1, <3>2, Zenon
  <2> QED
    BY <2>1, <2>4, Zenon
<1>10. CASE UNCHANGED vars
  BY <1>10, Zenon DEF vars
<1> QED
  BY <1>1, <1>2, <1>3, <1>4, <1>5, <1>6, <1>7, <1>8, <1>9, <1>10, Zenon DEF Next, Cpu

\* A fresh id is in no table yet, and no task changes tables.
LEMMA StepOwned == IInv /\ [Next]_vars => Owned'
<1> SUFFICES ASSUME IInv, [Next]_vars PROVE Owned'
  BY Zenon
<1>c. started \subseteq Cpus
  BY StartedCpus, Zenon DEF IInv
<1> USE <1>c DEF IInv, TypeOK, Tasks, Owned
<1>1. ASSUME NEW c \in started, Spawn(c) PROVE Owned'
  BY <1>1 DEF Spawn
<1>2. ASSUME NEW c \in started, Ready(c) PROVE Owned'
  BY <1>2 DEF Ready
<1>3. CASE UNCHANGED <<tasks, next>>
  BY <1>3, Zenon
<1> QED
  BY <1>1, <1>2, <1>3, Zenon
     DEF Next, Cpu, Run, PopTask, Resume, LeaveWaker, WakeTask, Yield, Wait, Disable,
         StealBatch, Halt, TimerIrq, vars

\* A poll begins with a task of the CPU's own table and ends before the CPU
\* does anything else.
LEMMA StepPolling == IInv /\ [Next]_vars => Polling'
<1> SUFFICES ASSUME IInv, [Next]_vars PROVE Polling'
  BY Zenon
<1>c. started \subseteq Cpus
  BY StartedCpus, Zenon DEF IInv
<1> USE <1>c DEF IInv, TypeOK, Polling, Goto
<1>1. ASSUME NEW c \in started, Spawn(c) PROVE Polling'
  BY <1>1, Zenon DEF Spawn
<1>2. ASSUME NEW c \in started, Run(c) \/ Halt(c) \/ TimerIrq(c) \/ Disable(c) PROVE Polling'
  BY <1>2 DEF Run, Halt, TimerIrq, Disable
<1>3. ASSUME NEW c \in started, PopTask(c) PROVE Polling'
  BY <1>3, Zenon DEF PopTask, Resume
<1>4. ASSUME NEW c \in started, Yield(c) \/ Wait(c) PROVE Polling'
  BY <1>4, Zenon DEF Yield, Wait, Polled
<1>5. ASSUME NEW c \in started, Ready(c) PROVE Polling'
  BY <1>5 DEF Ready, Polled, Owned
<1>6. ASSUME NEW c \in started, NEW s \in probe[c], StealBatch(c, s) PROVE Polling'
  BY <1>6, Zenon DEF StealBatch
<1>7. CASE UNCHANGED <<tasks, cur, pc>>
  BY <1>7, Zenon
<1> QED
  BY <1>1, <1>2, <1>3, <1>4, <1>5, <1>6, <1>7, Zenon DEF Next, Cpu, LeaveWaker, WakeTask, vars

\* A CPU goes idle with an empty queue and has something in it only after it
\* stole, when it is no longer idle.
LEMMA StepIdle == IInv /\ [Next]_vars => Idle'
<1> SUFFICES ASSUME IInv, [Next]_vars PROVE Idle'
  BY Zenon
<1>c. started \subseteq Cpus
  BY StartedCpus, Zenon DEF IInv
<1> USE <1>c DEF IInv, TypeOK, Idle, Goto
<1>1. ASSUME NEW c \in started, Spawn(c) PROVE Idle'
  BY <1>1, Zenon DEF Spawn, Enqueue
<1>2. ASSUME NEW c \in started, Run(c) \/ Halt(c) \/ TimerIrq(c) \/ Disable(c) PROVE Idle'
  BY <1>2 DEF Run, Halt, TimerIrq, Disable
<1>3. ASSUME NEW c \in started, PopTask(c) PROVE Idle'
  BY <1>3 DEF PopTask, Resume
<1>4. ASSUME NEW c \in started, LeaveWaker(c) PROVE Idle'
  BY <1>4, Zenon DEF LeaveWaker
<1>5. ASSUME NEW c \in started, NEW t \in held, WakeTask(c, t) PROVE Idle'
  BY <1>5, Zenon DEF WakeTask, Enqueue
<1>6. ASSUME NEW c \in started, Yield(c) PROVE Idle'
  BY <1>6, Zenon DEF Yield, Polled, Enqueue
<1>9. ASSUME NEW c \in started, Wait(c) \/ Ready(c) PROVE Idle'
  BY <1>9, Zenon DEF Wait, Ready, Polled
<1>7. ASSUME NEW c \in started, NEW s \in probe[c], StealBatch(c, s) PROVE Idle'
  <2> DEFINE k == (Len(queue[s]) + 1) \div 2
  <2>1. s \in Cpus /\ Len(queue[s]) \in Nat
    OBVIOUS
  <2>2. k \in Nat
    BY <2>1, \A n \in Nat : (n + 1) \div 2 \in Nat, Zenon
  <2>3. pc[s] = "idle" => k = 0
    <3>1. pc[s] = "idle" => Len(queue[s]) = 0
      BY <2>1
    <3> QED
      BY <3>1, (0 + 1) \div 2 = 0, Zenon
  <2>6. /\ \/ /\ k > 0
              /\ queue' = [queue EXCEPT ![s] = SubSeq(@, k + 1, Len(@)),
                                        ![c] = SubSeq(queue[s], 1, k)]
              /\ probe' = [probe EXCEPT ![c] = {}]
              /\ pc' = [pc EXCEPT ![c] = "pop"]
           \/ /\ k = 0
              /\ probe' = [probe EXCEPT ![c] = @ \ {s}]
              /\ UNCHANGED <<queue, pc>>
        /\ UNCHANGED <<started, tasks>>
    BY <1>7, Zenon DEF StealBatch
  <2> HIDE DEF k
  <2>4. CASE k > 0
    <3>1. /\ queue' = [queue EXCEPT ![s] = SubSeq(@, k + 1, Len(@)),
                                    ![c] = SubSeq(queue[s], 1, k)]
          /\ probe' = [probe EXCEPT ![c] = {}]
          /\ pc' = [pc EXCEPT ![c] = "pop"]
          /\ UNCHANGED <<started, tasks>>
      BY <2>4, <2>6, 0 > 0 <=> FALSE, Zenon
    <3>2. \A d \in Cpus : pc'[d] = "idle" => d # c /\ d # s /\ pc[d] = "idle"
      BY <2>3, <2>4, <3>1
    <3>3. \A d \in Cpus : d # c /\ d # s => queue'[d] = queue[d] /\ probe'[d] = probe[d]
      BY <3>1, Zenon
    <3> QED
      BY <3>1, <3>2, <3>3
  <2>5. CASE k = 0
    <3>1. /\ probe' = [probe EXCEPT ![c] = @ \ {s}]
          /\ UNCHANGED <<queue, pc, started, tasks>>
      BY <2>5, <2>6, 0 > 0 <=> FALSE, Zenon
    <3> QED
      BY <3>1, Zenon
  <2> QED
    BY <2>2, <2>4, <2>5
<1>8. CASE UNCHANGED vars
  BY <1>8, Zenon DEF vars
<1> QED
  BY <1>1, <1>2, <1>3, <1>4, <1>5, <1>6, <1>7, <1>8, <1>9, Zenon DEF Next, Cpu

\* What the queue operations do to the ids in a queue.
LEMMA QueueSets ==
  ASSUME NEW q \in Seq(Tasks), NEW t \in Tasks
  PROVE  /\ ToSet(Append(q, t)) = ToSet(q) \cup {t}
         /\ q # <<>> => ToSet(q) = {Head(q)} \cup ToSet(Tail(q))
<1>1. ToSet(Append(q, t)) = ToSet(q) \cup {t}
  <2>1. DOMAIN Append(q, t) = 1..(Len(q) + 1) /\ DOMAIN q = 1..Len(q)
    OBVIOUS
  <2>2. /\ \A i \in 1..Len(q) : Append(q, t)[i] = q[i]
        /\ Append(q, t)[Len(q) + 1] = t
    OBVIOUS
  <2>3. 1..(Len(q) + 1) = 1..Len(q) \cup {Len(q) + 1}
    OBVIOUS
  <2> QED
    BY <2>1, <2>2, <2>3 DEF ToSet
<1>2. ASSUME q # <<>> PROVE ToSet(q) = {Head(q)} \cup ToSet(Tail(q))
  <2>1. /\ DOMAIN q = 1..Len(q) /\ Len(q) \in Nat \ {0} /\ Head(q) = q[1]
        /\ DOMAIN Tail(q) = 1..(Len(q) - 1)
        /\ \A i \in 1..(Len(q) - 1) : Tail(q)[i] = q[i + 1]
    BY <1>2
  <2>2. ToSet(Tail(q)) = {q[i + 1] : i \in 1..(Len(q) - 1)}
    BY <2>1, Zenon DEF ToSet
  <2>3. \A x : x \in ToSet(Tail(q)) <=> \E j \in 2..Len(q) : x = q[j]
    <3>1. \A j \in 2..Len(q) : j - 1 \in 1..(Len(q) - 1) /\ (j - 1) + 1 = j
      BY <2>1
    <3>2. \A j \in 1..(Len(q) - 1) : j + 1 \in 2..Len(q)
      BY <2>1
    <3> QED
      BY <2>2, <3>1, <3>2, Zenon
  <2>4. 1..Len(q) = {1} \cup 2..Len(q)
    BY <2>1
  <2>5. \A x : x \in ToSet(q) <=> \E j \in 1..Len(q) : x = q[j]
    BY <2>1, Zenon DEF ToSet
  <2>6. \A x : x \in ToSet(q) <=> x = q[1] \/ x \in ToSet(Tail(q))
    BY <2>3, <2>4, <2>5, Zenon
  <2> QED
    BY <2>1, <2>6, Zenon
<1> QED
  BY <1>1, <1>2, Zenon

\* The CPU that runs alone is the one that takes the step.
LEMMA OnlyCpu == ASSUME TypeOK, Alone, NEW c \in started PROVE started = {c}
  BY FS_Singleton, ExecutorAssumption DEF TypeOK, Alone

\* A task leaves the queue for cur, and cur for the queue or the table's end.
LEMMA StepNoTaskForgotten == IInv /\ NoTaskForgotten /\ [Next]_vars => NoTaskForgotten'
<1> DEFINE Kept(d, x) == x \in ToSet(queue[d]) \cup {cur[d]} \cup held
<1> SUFFICES ASSUME IInv, NoTaskForgotten, [Next]_vars, Alone',
                    NEW d \in Cpus, NEW x \in tasks'[d]
             PROVE  Kept(d, x)'
  BY Zenon DEF NoTaskForgotten
<1>0. started' = started /\ Alone
  BY ZenonT(40) DEF Next, Cpu, Spawn, Run, PopTask, Resume, LeaveWaker, WakeTask, Yield, Wait, Ready,
         Disable, StealBatch, Halt, TimerIrq, vars, Alone
<1>c. started \subseteq Cpus
  BY StartedCpus, Zenon DEF IInv
<1>d. \A c \in started : d = c /\ started = {c}
  BY <1>0, <1>c, OnlyCpu, StepIdle, Zenon DEF IInv, Idle
<1>k. x \in tasks[d] => Kept(d, x)
  BY <1>0, Zenon DEF NoTaskForgotten
<1> USE <1>c, <1>d DEF IInv, TypeOK
<1>1. ASSUME NEW c \in started, NEW t \in Tasks, Enqueue(c, t)
      PROVE  ToSet(queue'[c]) = ToSet(queue[c]) \cup {t}
  BY <1>1, QueueSets, Zenon DEF Enqueue
<1>2. ASSUME NEW c \in started, Spawn(c) PROVE Kept(d, x)'
  <2>1. ToSet(queue'[d]) = ToSet(queue[d]) \cup {next}
    BY <1>1, <1>2, Zenon DEF Spawn, Tasks
  <2>2. cur' = cur /\ held' = held /\ tasks'[d] = tasks[d] \cup {next}
    BY <1>2, Zenon DEF Spawn
  <2> QED
    BY <1>k, <2>1, <2>2, Zenon
<1>3. ASSUME NEW c \in started, PopTask(c) PROVE Kept(d, x)'
  <2>1. ToSet(queue[c]) = {Head(queue[c])} \cup ToSet(queue'[c])
    BY <1>3, QueueSets, Zenon DEF PopTask, Tasks
  <2>2. cur[c] = Nil /\ x # Nil
    BY <1>3, ExecutorAssumption DEF PopTask, Polling, Resume, Tasks
  <2>3. tasks' = tasks /\ held' = held
    BY <1>3, Zenon DEF PopTask, Resume
  <2>4. Head(queue[c]) \in tasks[c] => cur'[c] = Head(queue[c])
    BY <1>3, Zenon DEF PopTask, Resume
  <2> QED
    BY <1>k, <2>1, <2>2, <2>3, <2>4, Zenon
<1>4. ASSUME NEW c \in started, NEW t \in held, WakeTask(c, t) PROVE Kept(d, x)'
  <2>1. ToSet(queue'[d]) = ToSet(queue[d]) \cup {t}
    BY <1>1, <1>4, Zenon DEF WakeTask
  <2>2. tasks' = tasks /\ cur' = cur /\ held \subseteq held' \cup {t}
    BY <1>4, Zenon DEF WakeTask
  <2> QED
    BY <1>k, <2>1, <2>2, Zenon
<1>5. ASSUME NEW c \in started, Yield(c) PROVE Kept(d, x)'
  <2>1. cur[c] \in Tasks
    BY <1>5, Zenon DEF Yield, Polling
  <2>2. ToSet(queue'[d]) = ToSet(queue[d]) \cup {cur[d]}
    BY <1>1, <1>5, <2>1, ZenonT(40) DEF Yield
  <2>3. tasks' = tasks /\ held' = held
    BY <1>5, Zenon DEF Yield
  <2> QED
    BY <1>k, <2>2, <2>3, Zenon
<1>6. ASSUME NEW c \in started, Wait(c) PROVE Kept(d, x)'
  <2>1. tasks' = tasks /\ held' = held /\ queue' = queue /\ cur[d] \in held
    BY <1>6, Zenon DEF Wait
  <2> QED
    BY <1>k, <2>1, Zenon
<1>10. ASSUME NEW c \in started, Ready(c) PROVE Kept(d, x)'
  <2>1. held' = held /\ queue' = queue /\ tasks'[d] = tasks[d] \ {cur[d]}
    BY <1>10, Zenon DEF Ready
  <2> QED
    BY <1>k, <2>1, Zenon
<1>7. ASSUME NEW c \in started, NEW s \in probe[c], StealBatch(c, s) PROVE Kept(d, x)'
  <2>1. s = c /\ Len(queue[s]) = 0
    BY <1>7 DEF StealBatch, Idle
  <2>2. ~((0 + 1) \div 2 > 0)
    OBVIOUS
  <2>3. UNCHANGED <<queue, cur, held, tasks>>
    BY <1>7, <2>1, <2>2, Zenon DEF StealBatch
  <2> QED
    BY <1>k, <2>3, Zenon
<1>8. ASSUME NEW c \in started, LeaveWaker(c) PROVE Kept(d, x)'
  BY <1>8, <1>k, Zenon DEF LeaveWaker
<1>9. CASE UNCHANGED <<queue, tasks, cur, held>>
  BY <1>9, <1>k, Zenon
<1> QED
  BY <1>2, <1>3, <1>4, <1>5, <1>6, <1>7, <1>8, <1>9, <1>10, Zenon
     DEF Next, Cpu, Run, Disable, Halt, TimerIrq, vars

\* The inductive invariant holds in every reachable state.
LEMMA Inductive == Spec => []IInv
<1>1. IInv /\ [Next]_vars => IInv'
  BY StepTypeOK, StepOwned, StepPolling, StepIdle, Zenon DEF IInv
<1> QED
  BY InitIInv, <1>1, PTL DEF Spec

\* No future is polled by two CPUs at once, for any number of CPUs and tasks
\* (executor.rs:41-57).
THEOREM PolledOnce == Spec => []OnePoller
<1>1. IInv => OnePoller
  BY Zenon DEF IInv, TypeOK, Polling, Owned, OnePoller
<1> QED
  BY Inductive, <1>1, PTL

\* A cached waker's task exists (executor.rs:50-53), with the types.
THEOREM TypesKept == Spec => []TypeOK
<1>1. IInv => TypeOK
  BY Zenon DEF IInv
<1> QED
  BY Inductive, <1>1, PTL

\* With one CPU no task is forgotten, however many there are
\* (run_ready_tasks, Yield::poll, wake_task).
THEOREM TasksKept == Spec => []NoTaskForgotten
<1>1. Init => NoTaskForgotten
  BY Zenon DEF Init, NoTaskForgotten
<1> QED
  BY Inductive, StepNoTaskForgotten, <1>1, PTL DEF Spec
=============================================================================
