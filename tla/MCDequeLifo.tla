----------------------------- MODULE MCDequeLifo ----------------------------
(***************************************************************************)
(* Deque for TLC with a thief that uses one kind of batch steal throughout *)
(* a behaviour, which leaves room for more tasks.                          *)
(***************************************************************************)
EXTENDS MCDeque

VARIABLE thief   \* the operation of c2

MCSpec ==
  /\ Init /\ thief \in {"batch", "batchpop"}
  /\ [][Next /\ UNCHANGED thief]_<<vars, thief>>

\* steal_batch gets five tasks, still enough to grow and shrink.
OneKind ==
  /\ Bounded
  /\ loc[c2].op \in {"none", thief}
  /\ thief = "batch" => Cardinality(Begun) <= 5
=============================================================================
