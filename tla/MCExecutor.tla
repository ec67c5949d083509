----------------------------- MODULE MCExecutor -----------------------------
(***************************************************************************)
(* Executor for TLC: the one CPU this build runs, and two.                 *)
(***************************************************************************)
EXTENDS Executor, TLC

CONSTANT c1

OneOrTwo == {{c1}, Cpus}
Two == {Cpus}

Few == [S \in Starts |-> IF S = {c1} THEN 3 ELSE 2]
Short == [S \in Starts |-> IF S = {c1} THEN 4 ELSE 3]
=============================================================================
