----------------------------- MODULE FifoQueue ------------------------------
(***************************************************************************)
(* What the injector of nacl/src/task/crossbeam.rs promises: one FIFO      *)
(* queue; a steal removes tasks from its front in one step and hands them  *)
(* over in another.  Module Injector is shown to implement this one.       *)
(***************************************************************************)
EXTENDS Naturals, Sequences, SequencesExt

CONSTANTS Threads, Tasks, Flavor, MAX_BATCH

VARIABLES queue,     \* the tasks, front first
          transit,   \* transit[p]: stolen by p, front first, not yet handed over
          result     \* result[p]: what p's last steal brought, as it was arranged

vars == <<queue, transit, result>>

Init ==
  /\ queue = <<>>
  /\ transit = [p \in Threads |-> <<>>]
  /\ result = [p \in Threads |-> <<>>]

Push(t) ==
  /\ queue' = Append(queue, t)
  /\ UNCHANGED <<transit, result>>

\* steal_batch_and_pop returns one task beside the batch.
Take(p, k) ==
  /\ transit[p] = <<>>
  /\ k \in 1..Len(queue)
  /\ queue' = SubSeq(queue, k + 1, Len(queue))
  /\ transit' = [transit EXCEPT ![p] = SubSeq(queue, 1, k)]
  /\ UNCHANGED result

\* A LIFO destination is given the batch in reverse, so that it pops it in the
\* injector's order; the task that is returned is the oldest.
HandOver(p, pop) ==
  /\ transit[p] # <<>>
  /\ LET kept == IF pop THEN <<Head(transit[p])>> ELSE <<>>
         batch == IF pop THEN Tail(transit[p]) ELSE transit[p] IN
       result' = [result EXCEPT ![p] =
                    kept \o (IF Flavor[p] = "Fifo" THEN batch ELSE Reverse(batch))]
  /\ transit' = [transit EXCEPT ![p] = <<>>]
  /\ UNCHANGED queue

Next ==
  \/ \E t \in Tasks : Push(t)
  \/ \E p \in Threads : (\E k \in 1..(MAX_BATCH + 1) : Take(p, k))
                          \/ \E pop \in BOOLEAN : HandOver(p, pop)

Spec == Init /\ [][Next]_vars
=============================================================================
