------------------------------ MODULE FindTask ------------------------------
(***************************************************************************)
(* find_task of nacl/src/task/mod.rs: pop the worker's own queue, else     *)
(* steal a batch from the injector, else steal from the other workers, and *)
(* start over while any of these said Retry.  The results are combined by  *)
(* Steal::or_else and by collecting an iterator (crossbeam.rs:1864-2036).  *)
(*                                                                         *)
(* The queues are those of FifoQueue and TaskQueues, which Injector and    *)
(* Deque implement.  Here a steal is two steps, a look and a               *)
(* compare-exchange, so that it can fail.                                  *)
(***************************************************************************)
EXTENDS Integers, Sequences, FiniteSets, Functions

CONSTANTS N,          \* workers, in the order of the slice of stealers
          MAX_BATCH,
          NTasks      \* bound: tasks pushed in a behaviour

ASSUME FindTaskAssumption == N \in Nat /\ MAX_BATCH \in Nat /\ NTasks \in Nat

Workers == 1..N
Global == 0             \* the injector's place among the queues
Places == 0..N

VARIABLES
  queue,    \* [Places -> Seq(Nat)]  the injector and every worker's queue, front first
  front,    \* [Places -> Nat]       what a thief's compare-exchange depends on
  pushed,   \* tasks pushed so far; they are numbered from 1
  transit,  \* [Workers -> Seq(Nat)] a stolen batch on its way
  done,     \* tasks find_task returned
  pc, loc,  \* where each worker is in find_task, and its locals
  stay      \* history, [Workers -> SUBSET (Places \X Nat)]: what has been in
            \* its place since the worker's call began

vars == <<queue, front, pushed, transit, done, pc, loc, stay>>

Fresh == [place |-> Global, front |-> 0, first |-> "Empty", rest |-> {}]

Goto(c, l) == pc' = [pc EXCEPT ![c] = l]

\* Removing the k front tasks of place p.
TakeOff(p, k) ==
  /\ front' = [front EXCEPT ![p] = @ + k]
  /\ stay' = [c \in Workers |-> {x \in stay[c] : x[1] # p \/ x[2] \notin Range(SubSeq(queue[p], 1, k))}]
-----------------------------------------------------------------------------
(* Steal<T>: the parts that do not carry the task *)

\* Mutant: a Retry is forgotten when the second attempt is Empty.
OrElseForget(a, b) == IF a = "Success" THEN a ELSE b

OrElse(a, b) ==
  CASE a = "Empty"   -> b
    [] a = "Success" -> a
    [] a = "Retry"   -> IF b = "Success" THEN b ELSE "Retry"

\* FromIterator: the first Success, else Retry if there is one among the results.
Collect(results) ==
  IF "Success" \in results THEN "Success"
  ELSE IF "Retry" \in results THEN "Retry" ELSE "Empty"
-----------------------------------------------------------------------------
(* Others' doing: a worker fills its own queue between calls, and anyone   *)
(* the injector.  A push that grows the buffer makes thieves retry.        *)

Push(p) ==
  /\ p \in Workers => pc[p] = "idle"
  /\ pushed < NTasks
  /\ pushed' = pushed + 1
  /\ queue' = [queue EXCEPT ![p] = Append(@, pushed + 1)]
  /\ \/ UNCHANGED front
     \/ p # Global /\ front' = [front EXCEPT ![p] = @ + NTasks]
  /\ UNCHANGED <<transit, done, pc, loc, stay>>
-----------------------------------------------------------------------------
(* find_task *)

Pop(c) ==
  /\ pc[c] = "idle"
  /\ \/ /\ queue[c] # <<>>
        /\ queue' = [queue EXCEPT ![c] = Tail(@)]
        /\ TakeOff(c, 1)
        /\ done' = done \cup {Head(queue[c])}
        /\ UNCHANGED pc
     \/ /\ queue[c] = <<>>
        /\ stay' = [stay EXCEPT ![c] = UNION {{p} \X Range(queue[p]) : p \in Places}]
        /\ Goto(c, "look")
        /\ UNCHANGED <<queue, front, done>>
  /\ UNCHANGED <<pushed, transit, loc>>

\* The locals after the attempt at place said r: the next stealer's turn.
After(l, r) ==
  IF l.place = Global THEN [l EXCEPT !.place = 1, !.front = 0, !.first = r]
                      ELSE [l EXCEPT !.place = l.place + 1, !.front = 0, !.rest = l.rest \cup {r}]

Said(c, r) ==
  /\ loc' = [loc EXCEPT ![c] = After(@, r)]
  /\ Goto(c, IF loc[c].place = N THEN "decide" ELSE "look")

Look(c) ==
  /\ pc[c] = "look"
  /\ LET p == loc[c].place IN
       \/ queue[p] = <<>> /\ Said(c, "Empty")
       \/ /\ queue[p] # <<>>
          /\ loc' = [loc EXCEPT ![c].front = front[p]]
          /\ Goto(c, "cas")
  /\ UNCHANGED <<queue, front, pushed, transit, done, stay>>

\* steal_batch_and_pop takes one task beside the batch, steal just one.
Want(p) == IF p = Global THEN 1..(MAX_BATCH + 1) ELSE {1}

Cas(c) ==
  /\ pc[c] = "cas"
  /\ LET p == loc[c].place IN
       \/ /\ front[p] # loc[c].front
          /\ Said(c, "Retry")
          /\ UNCHANGED <<queue, front, transit, stay>>
       \/ /\ front[p] = loc[c].front
          /\ \E k \in Want(p) \cap 1..Len(queue[p]) :
               /\ queue' = [queue EXCEPT ![p] = SubSeq(@, k + 1, Len(@))]
               /\ transit' = [transit EXCEPT ![c] = SubSeq(queue[p], 1, k)]
               /\ TakeOff(p, k)
          /\ Goto(c, "deliver")
          /\ UNCHANGED loc
  /\ UNCHANGED <<pushed, done>>

\* Mutant: the results are collected eagerly, and the first Success is kept.
DeliverEager(c) ==
  /\ pc[c] = "deliver"
  /\ transit' = [transit EXCEPT ![c] = <<>>]
  /\ \/ /\ loc[c].place \in {Global, N}
        /\ queue' = [queue EXCEPT ![c] = @ \o Tail(transit[c])]
        /\ done' = done \cup {Head(transit[c])}
        /\ loc' = [loc EXCEPT ![c] = Fresh]
        /\ stay' = [stay EXCEPT ![c] = {}]
        /\ Goto(c, "idle")
     \/ /\ loc[c].place \notin {Global, N}
        /\ Said(c, "Success")
        /\ UNCHANGED <<queue, done, stay>>
  /\ UNCHANGED <<front, pushed>>

\* Success ends the call: or_else and collect look no further.
Deliver(c) ==
  /\ pc[c] = "deliver"
  /\ queue' = [queue EXCEPT ![c] = @ \o Tail(transit[c])]
  /\ done' = done \cup {Head(transit[c])}
  /\ transit' = [transit EXCEPT ![c] = <<>>]
  /\ loc' = [loc EXCEPT ![c] = Fresh]
  /\ stay' = [stay EXCEPT ![c] = {}]
  /\ Goto(c, "idle")
  /\ UNCHANGED <<front, pushed>>

\* Mutant: the loop goes on until a steal succeeds, find(|s| s.is_success()).
DecideInsists(c) ==
  /\ pc[c] = "decide"
  /\ Goto(c, "look")
  /\ loc' = [loc EXCEPT ![c] = Fresh]
  /\ UNCHANGED <<queue, front, pushed, transit, done, stay>>

\* repeat_with ... find(|s| !s.is_retry()), then success(): None.
Decide(c) ==
  /\ pc[c] = "decide"
  /\ LET retry == OrElse(loc[c].first, Collect(loc[c].rest)) = "Retry" IN
       Goto(c, IF retry THEN "look" ELSE "none")
  /\ loc' = [loc EXCEPT ![c] = Fresh]
  /\ UNCHANGED <<queue, front, pushed, transit, done, stay>>

ReturnNone(c) ==
  /\ pc[c] = "none"
  /\ Goto(c, "idle")
  /\ stay' = [stay EXCEPT ![c] = {}]
  /\ UNCHANGED <<queue, front, pushed, transit, done, loc>>
-----------------------------------------------------------------------------
Init ==
  /\ queue = [p \in Places |-> <<>>]
  /\ front = [p \in Places |-> 0]
  /\ pushed = 0
  /\ transit = [c \in Workers |-> <<>>]
  /\ done = {}
  /\ pc = [c \in Workers |-> "idle"]
  /\ loc = [c \in Workers |-> Fresh]
  /\ stay = [c \in Workers |-> {}]

\* The steps of a call in progress.
Step(c) == Look(c) \/ Cas(c) \/ Deliver(c) \/ Decide(c) \/ ReturnNone(c)

Next == (\E p \in Places : Push(p)) \/ \E c \in Workers : Pop(c) \/ Step(c)

Spec == Init /\ [][Next]_vars

\* Every CPU keeps executing.
FairSpec == Spec /\ \A c \in Workers : WF_vars(Step(c))
-----------------------------------------------------------------------------
\* find_task returns None only if no queue held on to a task all through the
\* call: whatever the thieves raced for, a Retry anywhere, in the injector or in
\* one of several stealers, is not mistaken for Empty (task/mod.rs:14-24,
\* crossbeam.rs:1988-1998, 2021-2034).
NothingOverlooked == \A c \in Workers : pc[c] = "none" => stay[c] = {}

\* A queue and the batch on its way into it.
Held(p) == queue[p] \o (IF p = Global THEN <<>> ELSE transit[p])

\* Every task is in one queue, on its way into one, or returned, and once only:
\* no combination of results drops a task that was stolen (or_else and collect
\* must stop at the first Success; crossbeam.rs:1990, 2025).
NoTaskDropped ==
  /\ \A p, q \in Places : \A i \in 1..Len(Held(p)), j \in 1..Len(Held(q)) :
       Held(p)[i] = Held(q)[j] => p = q /\ i = j
  /\ \A p \in Places : Range(Held(p)) \cap done = {}
  /\ (UNION {Range(Held(p)) : p \in Places}) \cup done = 1..pushed

\* find_task returns: it starts over only after another worker has made
\* progress (task/mod.rs:14-22).
FindReturns == \A c \in Workers : pc[c] # "idle" ~> pc[c] = "idle"
=============================================================================
