----------------------------- MODULE MCInjector -----------------------------
(***************************************************************************)
(* Injector implements FifoQueue, and its constants for TLC.               *)
(***************************************************************************)
EXTENDS Injector, TLC

CONSTANTS p1, p2, s1, s2

TwoFlavors == [p \in Threads |-> IF p = s1 THEN "Lifo" ELSE "Fifo"]

\* The injector as one queue (push, steal, steal_batch, steal_batch_and_pop):
\* tasks leave it in the order in which they were pushed, each once, and a
\* thief gets exactly the tasks it claimed, whenever they are written.
Abstract == INSTANCE FifoQueue WITH
  Tasks <- 1..NTasks,
  queue <- SubSeq(order, TasksBefore(head.i) + 1, Len(order)),
  transit <- [p \in Threads |->
    IF pc[p] \in ClaimedPcs
    THEN SubSeq(order, TasksBefore(loc[p].i) + 1, TasksBefore(loc[p].i) + loc[p].n)
    ELSE <<>>]

Implements == Abstract!Spec
=============================================================================
