------------------------------ MODULE Executor ------------------------------
(***************************************************************************)
(* The executors of nacl/src/task/executor.rs, one per CPU: the run loop,  *)
(* sleep_if_idle, wakers, Yield (task/mod.rs), and the timer interrupt.    *)
(* The run queues are the FIFO sequences that module Deque is shown to     *)
(* implement; here every queue operation is one step.                      *)
(*                                                                         *)
(* A task's future is arbitrary: while it is polled it may wake tasks      *)
(* whose wakers are held somewhere (by dropping a mutex guard), and it     *)
(* ends the poll by yielding, by waiting with its waker left somewhere, or *)
(* by completing.                                                          *)
(***************************************************************************)
EXTENDS Integers, Sequences, FiniteSets, SequencesExt

CONSTANTS Cpus, Nil,
          Starts,    \* the sets of CPUs a boot may start; this build starts one
          NTasks,    \* bound: [Starts -> Nat], how many tasks are spawned
          MaxQueue   \* bound: [Starts -> Nat], a task does not wake or yield into a longer queue

ASSUME ExecutorAssumption ==
  /\ \A S \in Starts : S \subseteq Cpus /\ IsFiniteSet(S)
  /\ NTasks \in [Starts -> Nat]
  /\ MaxQueue \in [Starts -> Nat]
  /\ Nil \notin Nat

Tasks == Nat   \* TaskIds

VARIABLES
  started, \* the CPUs that run; only they have a stealer
  next,    \* NEXT_ID
  queue,   \* [Cpus -> Seq(Tasks)]      Cpu::worker, front first
  tasks,   \* [Cpus -> SUBSET Tasks]    keys of Executor::tasks
  cache,   \* [Cpus -> SUBSET Tasks]    keys of Executor::waker_cache
  pc,      \* where each CPU is
  cur,     \* [Cpus -> Tasks \cup {Nil}] the task being polled
  intr,    \* [Cpus -> BOOLEAN]         interrupts enabled
  probe,   \* [Cpus -> SUBSET Cpus]     stealers sleep_if_idle has still to try
  held     \* tasks whose waker is held outside the executor

vars == <<started, next, queue, tasks, cache, pc, cur, intr, probe, held>>

Goto(c, l) == pc' = [pc EXCEPT ![c] = l]

Enqueue(c, t) == queue' = [queue EXCEPT ![c] = Append(@, t)]
-----------------------------------------------------------------------------
(* Task::new, Executor::spawn and run; run never gives the RefCell borrow  *)
(* back, so only boot code can spawn.                                      *)

\* Mutant: two tasks get the same id.
SpawnSameId(c) ==
  /\ pc[c] = "boot"
  /\ next < NTasks[started]
  /\ tasks' = [tasks EXCEPT ![c] = @ \cup {next}]
  /\ Enqueue(c, next)
  /\ UNCHANGED <<started, next, cache, pc, cur, intr, probe, held>>

\* NEXT_ID gives every id once, so that insert finds none of that id and spawn
\* does not panic.
Spawn(c) ==
  /\ pc[c] = "boot"
  /\ next < NTasks[started]
  /\ next' = next + 1
  /\ tasks' = [tasks EXCEPT ![c] = @ \cup {next}]
  /\ Enqueue(c, next)
  /\ UNCHANGED <<started, cache, pc, cur, intr, probe, held>>

Run(c) ==
  /\ pc[c] = "boot"
  /\ Goto(c, "pop")
  /\ UNCHANGED <<started, next, queue, tasks, cache, cur, intr, probe, held>>
-----------------------------------------------------------------------------
(* Executor::run_ready_tasks *)

\* The id t was popped: poll its task, or drop an id without one.
Resume(c, t) ==
  /\ IF t \in tasks[c]
     THEN /\ cache' = [cache EXCEPT ![c] = @ \cup {t}]
          /\ cur' = [cur EXCEPT ![c] = t]
          /\ Goto(c, "poll")
     ELSE UNCHANGED <<cache, cur, pc>>
  /\ UNCHANGED <<started, next, tasks, intr, probe, held>>

\* Mutant: the queue of Cpu::new is LIFO.
PopTaskLifo(c) ==
  /\ pc[c] = "pop"
  /\ queue[c] # <<>>
  /\ queue' = [queue EXCEPT ![c] = Front(@)]
  /\ Resume(c, Last(queue[c]))

PopTask(c) ==
  /\ pc[c] = "pop"
  /\ queue[c] # <<>>
  /\ queue' = [queue EXCEPT ![c] = Tail(@)]
  /\ Resume(c, Head(queue[c]))

\* poll: the future leaves a clone of its waker somewhere and goes on.
LeaveWaker(c) ==
  /\ pc[c] = "poll"
  /\ held' = held \cup {cur[c]}
  /\ UNCHANGED <<started, next, queue, tasks, cache, pc, cur, intr, probe>>

\* poll: the future wakes t, by value or by reference; wake_task pushes to the
\* queue of the CPU that wakes.
WakeTask(c, t) ==
  /\ pc[c] = "poll"
  /\ t \in held
  /\ Len(queue[c]) < MaxQueue[started]
  /\ held' \in {held, held \ {t}}
  /\ Enqueue(c, t)
  /\ UNCHANGED <<started, next, tasks, cache, pc, cur, intr, probe>>

Polled(c) == cur' = [cur EXCEPT ![c] = Nil] /\ Goto(c, "pop")

\* Mutant: Yield is Pending and does not wake itself.
YieldSilent(c) ==
  /\ pc[c] = "poll"
  /\ Polled(c)
  /\ UNCHANGED <<started, next, queue, tasks, cache, intr, probe, held>>

\* poll: Yield wakes its own task and is Pending.
Yield(c) ==
  /\ pc[c] = "poll"
  /\ Len(queue[c]) < MaxQueue[started]
  /\ Enqueue(c, cur[c])
  /\ Polled(c)
  /\ UNCHANGED <<started, next, tasks, cache, intr, probe, held>>

\* poll: Pending, with the waker left somewhere.
Wait(c) ==
  /\ pc[c] = "poll"
  /\ cur[c] \in held
  /\ Polled(c)
  /\ UNCHANGED <<started, next, queue, tasks, cache, intr, probe, held>>

\* Mutant: the cached waker of a completed task stays.
ReadyLeak(c) ==
  /\ pc[c] = "poll"
  /\ tasks' = [tasks EXCEPT ![c] = @ \ {cur[c]}]
  /\ Polled(c)
  /\ UNCHANGED <<started, next, queue, cache, intr, probe, held>>

\* poll: Ready; the task and its cached waker are removed.
Ready(c) ==
  /\ pc[c] = "poll"
  /\ tasks' = [tasks EXCEPT ![c] = @ \ {cur[c]}]
  /\ cache' = [cache EXCEPT ![c] = @ \ {cur[c]}]
  /\ Polled(c)
  /\ UNCHANGED <<started, next, queue, intr, probe, held>>
-----------------------------------------------------------------------------
(* Executor::sleep_if_idle *)

\* pop returned None: interrupts are disabled, the queue is found (still)
\* empty, and every stealer is tried, this CPU's own included.  Only the owner
\* pushes to a queue, and no interrupt handler does, so that the queue cannot
\* fill up in between and the branch that only enables interrupts is not taken.
Disable(c) ==
  /\ pc[c] = "pop"
  /\ queue[c] = <<>>
  /\ intr' = [intr EXCEPT ![c] = FALSE]
  /\ probe' = [probe EXCEPT ![c] = started]
  /\ Goto(c, "idle")
  /\ UNCHANGED <<started, next, queue, tasks, cache, cur, held>>

\* steal_batch, repeated while it says Retry: half of the tasks of s, or Empty.
StealBatch(c, s) ==
  /\ pc[c] = "idle"
  /\ s \in probe[c]
  /\ LET k == (Len(queue[s]) + 1) \div 2 IN
       \/ /\ k > 0
          /\ queue' = [queue EXCEPT ![s] = SubSeq(@, k + 1, Len(@)), ![c] = SubSeq(queue[s], 1, k)]
          /\ probe' = [probe EXCEPT ![c] = {}]
          /\ Goto(c, "pop")
       \/ /\ k = 0
          /\ probe' = [probe EXCEPT ![c] = @ \ {s}]
          /\ UNCHANGED <<queue, pc>>
  /\ UNCHANGED <<started, next, tasks, cache, cur, intr, held>>

\* Mutant: the loop goes on without enabling interrupts.
HaltSkipped(c) ==
  /\ pc[c] = "idle"
  /\ probe[c] = {}
  /\ Goto(c, "pop")
  /\ UNCHANGED <<started, next, queue, tasks, cache, cur, intr, probe, held>>

\* enable_and_hlt: no interrupt can come between the two.
Halt(c) ==
  /\ pc[c] = "idle"
  /\ probe[c] = {}
  /\ intr' = [intr EXCEPT ![c] = TRUE]
  /\ Goto(c, "hlt")
  /\ UNCHANGED <<started, next, queue, tasks, cache, cur, probe, held>>

\* The timer interrupt ends hlt.  Elsewhere its handler changes nothing that
\* the executor reads: it counts a tick and wakes nobody.
TimerIrq(c) ==
  /\ pc[c] = "hlt"
  /\ intr[c]
  /\ Goto(c, "pop")
  /\ UNCHANGED <<started, next, queue, tasks, cache, cur, intr, probe, held>>
-----------------------------------------------------------------------------
Init ==
  /\ started \in Starts
  /\ next = 0
  /\ queue = [c \in Cpus |-> <<>>]
  /\ tasks = [c \in Cpus |-> {}]
  /\ cache = [c \in Cpus |-> {}]
  /\ pc = [c \in Cpus |-> "boot"]
  /\ cur = [c \in Cpus |-> Nil]
  /\ intr = [c \in Cpus |-> TRUE]
  /\ probe = [c \in Cpus |-> {}]
  /\ held = {}

Cpu(c) ==
  \/ Run(c) \/ PopTask(c)
  \/ LeaveWaker(c) \/ (\E t \in held : WakeTask(c, t)) \/ Yield(c) \/ Wait(c) \/ Ready(c)
  \/ Disable(c) \/ (\E s \in probe[c] : StealBatch(c, s)) \/ Halt(c) \/ TimerIrq(c)

Next == \E c \in started : Spawn(c) \/ Cpu(c)

Spec == Init /\ [][Next]_vars

\* Every CPU keeps executing, a poll ends, and the timer interrupts
\* periodically (time.rs:98-109).
FairSpec == Spec /\ \A c \in Cpus : WF_vars(c \in started /\ Cpu(c))
-----------------------------------------------------------------------------
\* Every variable keeps its type, and a waker is cached only for a task that
\* still exists (executor.rs:52).
TypeOK ==
  /\ started \in Starts
  /\ next \in Nat
  /\ queue \in [Cpus -> Seq(Tasks)]
  /\ tasks \in [Cpus -> SUBSET Tasks]
  /\ cache \in [Cpus -> SUBSET Tasks]
  /\ \A c \in Cpus : cache[c] \subseteq tasks[c]
  /\ pc \in [Cpus -> {"boot", "pop", "poll", "idle", "hlt"}]
  /\ cur \in [Cpus -> Tasks \cup {Nil}]
  /\ intr \in [Cpus -> BOOLEAN]
  /\ probe \in [Cpus -> SUBSET Cpus]
  /\ held \subseteq Tasks

Alone == Cardinality(started) = 1

\* On one CPU no task is forgotten: an unfinished task is in the run queue, is
\* being polled, or has left a waker that can put it back
\* (run_ready_tasks, Yield::poll, wake_task).
NoTaskForgotten ==
  Alone => \A c \in Cpus : \A t \in tasks[c] : t \in ToSet(queue[c]) \cup {cur[c]} \cup held

\* A future is never polled on two CPUs at once, nor twice at once on one, though
\* stealing and waking may put its id into several queues (executor.rs:41-57).
OnePoller == \A c, d \in Cpus : cur[c] # Nil /\ cur[c] = cur[d] => c = d

\* On one CPU a ready task is polled, however often others yield: the run
\* queue is FIFO (cores.rs:32, executor.rs:40).
ReadyRuns ==
  \A c \in Cpus, t \in UNION {0..(n - 1) : n \in Range(NTasks)} :
    Alone /\ t \in ToSet(queue[c]) \cap tasks[c] ~> (cur[c] = t \/ t \notin tasks[c])

\* On one CPU, sleep_if_idle never leaves interrupts off for good: the timer,
\* without which hlt would not end, is let in again (executor.rs:70-86).
InterruptsReturn == \A c \in Cpus : Alone /\ ~intr[c] ~> intr[c]

\* executor.rs:43, where an id without a task is dropped: "task no longer
\* exists".
DroppedIsGone ==
  \A c \in Cpus :
    pc[c] = "pop" /\ queue[c] # <<>> /\ Head(queue[c]) \notin tasks[c]
      => \A d \in Cpus : Head(queue[c]) \notin tasks[d]
=============================================================================
