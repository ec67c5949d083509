----------------------------- MODULE TaskQueues -----------------------------
(***************************************************************************)
(* What the work-stealing queues of nacl/src/task/crossbeam.rs promise,    *)
(* seen from outside: one sequence of tasks per CPU, every operation       *)
(* atomic.  A batch that has left its source and has not yet reached its   *)
(* destination is in `transit`; a task handed to a caller is in `done`.    *)
(* Module Deque is shown to implement this one.                            *)
(***************************************************************************)
EXTENDS Naturals, Sequences, SequencesExt

CONSTANTS Cpus,      \* CPUs; each owns one worker queue
          Tasks,     \* tasks, each pushed at most once
          Flavor,    \* [Cpus -> {"Fifo", "Lifo"}]
          MAX_BATCH  \* most tasks one steal may move

VARIABLES queue,     \* queue[c]: the tasks of c's queue, front first
          transit,   \* transit[c]: stolen by c, in stealing order, not yet published
          done       \* tasks returned to a caller

vars == <<queue, transit, done>>

Init ==
  /\ queue = [c \in Cpus |-> <<>>]
  /\ transit = [c \in Cpus |-> <<>>]
  /\ done = {}

\* A task nobody has pushed before goes to the back.
Push(c, t) ==
  /\ t \notin done
  /\ \A d \in Cpus : t \notin ToSet(queue[d]) \cup ToSet(transit[d])
  /\ queue' = [queue EXCEPT ![c] = Append(@, t)]
  /\ UNCHANGED <<transit, done>>

\* The owner pops: a FIFO queue at the front, a LIFO queue at the back.
Pop(c) ==
  /\ queue[c] # <<>>
  /\ \/ /\ Flavor[c] = "Fifo"
        /\ queue' = [queue EXCEPT ![c] = Tail(@)]
        /\ done' = done \cup {Head(queue[c])}
     \/ /\ Flavor[c] = "Lifo"
        /\ queue' = [queue EXCEPT ![c] = Front(@)]
        /\ done' = done \cup {Last(queue[c])}
  /\ UNCHANGED transit

\* Anyone may take the front task of a queue.
Steal(s) ==
  /\ queue[s] # <<>>
  /\ queue' = [queue EXCEPT ![s] = Tail(@)]
  /\ done' = done \cup {Head(queue[s])}
  /\ UNCHANGED transit

\* c removes the k front tasks of s.
Grab(c, s, k) ==
  /\ k \in 1..Len(queue[s])
  /\ Len(transit[c]) + k <= MAX_BATCH
  /\ queue' = [queue EXCEPT ![s] = SubSeq(@, k + 1, Len(@))]
  /\ transit' = [transit EXCEPT ![c] = @ \o SubSeq(queue[s], 1, k)]
  /\ UNCHANGED done

\* c moves what it stole from s to its own queue: in stealing order when both
\* queues have the same flavor, reversed otherwise.  With `pop` one task is
\* returned instead: the first stolen from a FIFO queue, the last from a LIFO.
Deliver(c, s, pop) ==
  /\ transit[c] # <<>>
  /\ LET fifo == Flavor[s] = "Fifo"
         batch == CASE pop /\ fifo  -> Tail(transit[c])
                    [] pop /\ ~fifo -> Front(transit[c])
                    [] OTHER        -> transit[c] IN
       /\ queue' = [queue EXCEPT ![c] =
                      @ \o (IF Flavor[s] = Flavor[c] THEN batch ELSE Reverse(batch))]
       /\ done' = CASE pop /\ fifo  -> done \cup {Head(transit[c])}
                    [] pop /\ ~fifo -> done \cup {Last(transit[c])}
                    [] OTHER        -> done
  /\ transit' = [transit EXCEPT ![c] = <<>>]

Next ==
  \E c \in Cpus :
     \/ \E t \in Tasks : Push(c, t)
     \/ Pop(c)
     \/ Steal(c)
     \/ \E s \in Cpus \ {c}, k \in 1..MAX_BATCH : Grab(c, s, k)
     \/ \E s \in Cpus \ {c}, pop \in BOOLEAN : Deliver(c, s, pop)

Spec == Init /\ [][Next]_vars
=============================================================================
