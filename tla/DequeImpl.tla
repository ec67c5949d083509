----------------------------- MODULE DequeImpl ------------------------------
(***************************************************************************)
(* Deque implements TaskQueues: the refinement mapping.                    *)
(***************************************************************************)
EXTENDS Deque

\* The tasks of c's queue, front first.
Queue(c) == [j \in 1..Cardinality(Indices(c)) |-> At(buffer[c], front[c] + j - 1)]

\* The queues as one would describe them without buffers, indices and races:
\* crossbeam.rs implements the sequences of TaskQueues, in the order the
\* documentation of push, pop, steal and steal_batch gives (lines 422-436,
\* 613-627, 673-695, 873-894).
Abstract == INSTANCE TaskQueues WITH
  queue <- [c \in Cpus |-> Queue(c)],
  transit <- stolen,
  done <- {t \in Tasks : taken[t] > 0}

Implements == Abstract!Spec
=============================================================================
