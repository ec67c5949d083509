------------------------------ MODULE MCDeque -------------------------------
(***************************************************************************)
(* Deque for TLC: two CPUs, tasks numbered in the order they are pushed.   *)
(***************************************************************************)
EXTENDS DequeImpl, TLC

CONSTANTS c1, c2,
          MaxBack,    \* [Cpus -> Nat]: how many tasks may pass through each queue
          Ops         \* [Cpus -> SUBSET ...]: the operations of each CPU

AllFifo == [c \in Cpus |-> "Fifo"]
AllLifo == [c \in Cpus |-> "Lifo"]
Mixed == c1 :> "Lifo" @@ c2 :> "Fifo"

BothSteal == c1 :> {"push", "pop", "steal", "batch"} @@ c2 :> {"pop", "batch", "batchpop"}
OwnerAndThief == c1 :> {"push", "pop"} @@ c2 :> {"batch", "batchpop"}

BackFive == c1 :> 5 @@ c2 :> 3
BackThree == [c \in Cpus |-> 3]

\* Tasks that have been handed to push.
Begun == pushed \cup {loc[c].task : c \in {d \in Cpus : loc[d].op = "push"}}

\* The bound of the run; renaming tasks so that they are pushed in order
\* loses no behaviour.
Bounded ==
  /\ \A c \in Cpus : /\ back[c] <= MaxBack[c]
                     /\ loc[c].op \in Ops[c] \cup {"none"}
  /\ Begun = 1..Cardinality(Begun)

Symmetry == Permutations(Bufs)
=============================================================================
