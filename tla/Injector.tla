------------------------------ MODULE Injector ------------------------------
(***************************************************************************)
(* The injector of nacl/src/task/crossbeam.rs:1100-1856: an unbounded FIFO *)
(* queue of linked blocks.  `push` claims a position by moving the tail    *)
(* index, the steals claim positions by moving the head index; the slots   *)
(* are written and read afterwards, in any order, and the last reader of a *)
(* block frees it.                                                         *)
(*                                                                         *)
(* One step is one access to shared memory; accesses are sequentially      *)
(* consistent, compare_exchange_weak fails only when the value differs (as *)
(* on x86), and a wait loop is an action enabled once the wait is over.    *)
(* Index words are split into their parts: `index >> SHIFT`   *)
(* and the bit HAS_NEXT.  Blocks are numbered in the order of allocation   *)
(* and a number is not used again, so that any access to a freed block     *)
(* shows; the code never compares block pointers.  The destination worker  *)
(* belongs to the thief: what a thief puts there is one sequence.          *)
(***************************************************************************)
EXTENDS Integers, Sequences, FiniteSets

CONSTANTS Pushers, Stealers,   \* threads that push, threads that steal
          Ops,                 \* which steals: of {"steal", "batch", "batchpop"}
          Flavor,              \* [Threads -> {"Fifo", "Lifo"}]: of the thief's worker
          LAP, MAX_BATCH,      \* crossbeam.rs:1109 and 19
          NTasks,              \* bound: tasks pushed in a behaviour
          Nil

Threads == Pushers \cup Stealers
BLOCK_CAP == LAP - 1

ASSUME InjectorAssumption ==
  /\ Ops \subseteq {"steal", "batch", "batchpop"}
  /\ Flavor \in [Threads -> {"Fifo", "Lifo"}]
  /\ LAP \in Nat \ {0, 1} /\ MAX_BATCH \in Nat \ {0} /\ NTasks \in Nat
  /\ Nil \notin Nat

VARIABLES
  tail, tblock,   \* Injector::tail: index, block
  head, hblock,   \* Injector::head: [i, next], block
  alloc,          \* blocks allocated and not freed
  made,           \* number of blocks allocated so far
  next,           \* Block::next of each block
  task, state,    \* Slot::task and Slot::state of each block's slots
  pc, loc,        \* where each thread is; its locals
  order,          \* history: tasks in the order in which they claimed positions
  result          \* history: what each thread's last steal brought

tailvars == <<tail, tblock>>
headvars == <<head, hblock>>
blocks == <<alloc, made, next, task, state>>
history == <<order, result>>
vars == <<tail, tblock, head, hblock, alloc, made, next, task, state, pc, loc, order, result>>

Blocks == 0..(NTasks \div BLOCK_CAP)   \* a block is added when the last one is full

NoLoc == [op |-> "none", i |-> 0, next |-> FALSE, b |-> Nil, nb |-> Nil, task |-> Nil,
          n |-> 0, hasnext |-> FALSE, j |-> 0, dest |-> <<>>]

Goto(p, l) == pc' = [pc EXCEPT ![p] = l]
Return(p) == Goto(p, "idle") /\ loc' = [loc EXCEPT ![p] = NoLoc]

Offset(i) == i % LAP

\* Tasks at positions before index i: one index of every lap holds none.
TasksBefore(i) == i - i \div LAP
-----------------------------------------------------------------------------
(* Injector::push *)

\* Tasks are numbered in the order of the calls.
Begun == Len(order) + Cardinality({p \in Threads : pc[p] \in {"push", "push_block", "push_cas"}})

PushBegin(p) ==
  /\ pc[p] = "idle"
  /\ Begun < NTasks
  /\ loc' = [loc EXCEPT ![p] = [NoLoc EXCEPT !.op = "push", !.task = Begun + 1]]
  /\ Goto(p, "push")
  /\ UNCHANGED <<tailvars, headvars, blocks, history>>

\* Load the tail index, again and again while it is at the end of a block.
PushLoad(p) ==
  /\ pc[p] = "push"
  /\ Offset(tail) # BLOCK_CAP
  /\ loc' = [loc EXCEPT ![p].i = tail]
  /\ Goto(p, "push_block")
  /\ UNCHANGED <<tailvars, headvars, blocks, history>>

PushBlock(p) ==
  /\ pc[p] = "push_block"
  /\ loc' = [loc EXCEPT ![p].b = tblock]
  /\ Goto(p, "push_cas")
  /\ UNCHANGED <<tailvars, headvars, blocks, history>>

\* Mutant: a failed attempt is repeated with the old index.
PushCasStale(p) ==
  /\ pc[p] = "push_cas"
  /\ \/ /\ tail = loc[p].i
        /\ tail' = tail + 1
        /\ order' = Append(order, loc[p].task)
        /\ Goto(p, IF Offset(tail) + 1 = BLOCK_CAP THEN "install_block" ELSE "push_write")
     \/ /\ tail # loc[p].i
        /\ UNCHANGED <<pc, tail, order>>
  /\ UNCHANGED <<tblock, headvars, blocks, loc, result>>

\* Claim a position, or start over with the index that was found.
PushCas(p) ==
  /\ pc[p] = "push_cas"
  /\ \/ /\ tail = loc[p].i
        /\ tail' = tail + 1
        /\ order' = Append(order, loc[p].task)
        /\ Goto(p, IF Offset(tail) + 1 = BLOCK_CAP THEN "install_block" ELSE "push_write")
     \/ /\ tail # loc[p].i
        /\ Goto(p, "push")
        /\ UNCHANGED <<tail, order>>
  /\ UNCHANGED <<tblock, headvars, blocks, loc, result>>

\* Last position of the block: install the next one, in three stores.
InstallBlock(p) ==
  /\ pc[p] = "install_block"
  /\ made' = made + 1
  /\ alloc' = alloc \cup {made}
  /\ tblock' = made
  /\ loc' = [loc EXCEPT ![p].nb = made]
  /\ Goto(p, "install_index")
  /\ UNCHANGED <<tail, headvars, next, task, state, history>>

InstallIndex(p) ==
  /\ pc[p] = "install_index"
  /\ tail' = loc[p].i + 2
  /\ Goto(p, "install_next")
  /\ UNCHANGED <<tblock, headvars, blocks, loc, history>>

InstallNext(p) ==
  /\ pc[p] = "install_next"
  /\ next' = [next EXCEPT ![loc[p].b] = loc[p].nb]
  /\ Goto(p, "push_write")
  /\ UNCHANGED <<tailvars, headvars, alloc, made, task, state, loc, history>>

PushWrite(p) ==
  /\ pc[p] = "push_write"
  /\ LET b == loc[p].b  o == Offset(loc[p].i) IN
       /\ task' = [task EXCEPT ![b][o] = loc[p].task]
       /\ state' = [state EXCEPT ![b][o] = @ \cup {"WRITE"}]
  /\ Return(p)
  /\ UNCHANGED <<tailvars, headvars, alloc, made, next, history>>
-----------------------------------------------------------------------------
(* Injector::steal, steal_batch, steal_batch_and_pop: claim *)

StealBegin(p, op) ==
  /\ pc[p] = "idle"
  /\ loc' = [loc EXCEPT ![p] = [NoLoc EXCEPT !.op = op]]
  /\ Goto(p, "steal")
  /\ UNCHANGED <<tailvars, headvars, blocks, history>>

\* Mutant: the wait for the next block looks at the index loaded before it.
LoadHeadOnce(p) ==
  /\ pc[p] = "steal"
  /\ LET old == Offset(loc[p].i) = BLOCK_CAP
         i == IF old THEN loc[p].i ELSE head.i IN
       /\ loc' = [loc EXCEPT ![p].i = i, ![p].next = head.next]
       /\ Goto(p, IF Offset(i) = BLOCK_CAP THEN "steal" ELSE "load_block")
  /\ UNCHANGED <<tailvars, headvars, blocks, history>>

\* Load the head index, again and again while it is at the end of a block.
LoadHead(p) ==
  /\ pc[p] = "steal"
  /\ Offset(head.i) # BLOCK_CAP
  /\ loc' = [loc EXCEPT ![p].i = head.i, ![p].next = head.next]
  /\ Goto(p, "load_block")
  /\ UNCHANGED <<tailvars, headvars, blocks, history>>

Limit(op) == CASE op = "steal" -> 1 [] op = "batch" -> MAX_BATCH [] op = "batchpop" -> MAX_BATCH + 1

\* The minimum of what may be stolen and the operation's limit.
Advance(op, avail) == IF avail < Limit(op) THEN avail ELSE Limit(op)

\* Mutant: tasks of the block already stolen are counted again.
ToBlockEndWhole(p) == Advance(loc[p].op, BLOCK_CAP)

\* There is a next block: all tasks up to the end of this one.
ToBlockEnd(p) == Advance(loc[p].op, BLOCK_CAP - Offset(loc[p].i))

LoadBlock(p) ==
  /\ pc[p] = "load_block"
  /\ loc' = [loc EXCEPT ![p].b = hblock, ![p].n = ToBlockEnd(p), ![p].hasnext = loc[p].next]
  /\ Goto(p, IF loc[p].next THEN "cas" ELSE "load_tail")
  /\ UNCHANGED <<tailvars, headvars, blocks, history>>

\* HAS_NEXT is not set: is there a task, and is the tail in another block?  If
\* it is not, half of the tasks that are there.
LoadTail(p) ==
  /\ pc[p] = "load_tail"
  /\ LET i == loc[p].i IN
       \/ /\ i = tail
          /\ Return(p)
       \/ /\ i # tail
          /\ loc' = [loc EXCEPT
               ![p].hasnext = i \div LAP # tail \div LAP,
               ![p].n = IF i \div LAP # tail \div LAP THEN ToBlockEnd(p)
                        ELSE Advance(loc[p].op, (tail - i + 1) \div 2)]
          /\ Goto(p, "cas")
  /\ UNCHANGED <<tailvars, headvars, blocks, history>>

AtEnd(p) == Offset(loc[p].i) + loc[p].n = BLOCK_CAP

\* Claim the positions i..i+n-1, or Retry.
CasHead(p) ==
  /\ pc[p] = "cas"
  /\ \/ /\ head = [i |-> loc[p].i, next |-> loc[p].next]
        /\ head' = [i |-> loc[p].i + loc[p].n, next |-> loc[p].hasnext]
        /\ loc' = [loc EXCEPT ![p].dest = [k \in 1..loc[p].n |-> Nil]]
        /\ Goto(p, IF AtEnd(p) THEN "wait_next" ELSE "read")
     \/ /\ head # [i |-> loc[p].i, next |-> loc[p].next]
        /\ Return(p)
        /\ UNCHANGED head
  /\ UNCHANGED <<tailvars, hblock, blocks, history>>
-----------------------------------------------------------------------------
(* The end of the block was reached: move the head to the next one *)

WaitNext(p) ==
  /\ pc[p] = "wait_next"
  /\ next[loc[p].b] # Nil
  /\ loc' = [loc EXCEPT ![p].nb = next[loc[p].b]]
  /\ Goto(p, "next_next")
  /\ UNCHANGED <<tailvars, headvars, blocks, history>>

NextNext(p) ==
  /\ pc[p] = "next_next"
  /\ loc' = [loc EXCEPT ![p].hasnext = next[loc[p].nb] # Nil]
  /\ Goto(p, "move_block")
  /\ UNCHANGED <<tailvars, headvars, blocks, history>>

MoveBlock(p) ==
  /\ pc[p] = "move_block"
  /\ hblock' = loc[p].nb
  /\ Goto(p, "move_index")
  /\ UNCHANGED <<tailvars, head, blocks, loc, history>>

\* Mutant: the block is freed as soon as the head has left it.
MoveIndexFrees(p) ==
  /\ pc[p] = "move_index"
  /\ head' = [i |-> loc[p].i + loc[p].n + 1, next |-> loc[p].hasnext]
  /\ alloc' = alloc \ {loc[p].b}
  /\ Goto(p, "read")
  /\ UNCHANGED <<tailvars, hblock, made, next, task, state, loc, history>>

MoveIndex(p) ==
  /\ pc[p] = "move_index"
  /\ head' = [i |-> loc[p].i + loc[p].n + 1, next |-> loc[p].hasnext]
  /\ Goto(p, "read")
  /\ UNCHANGED <<tailvars, hblock, blocks, loc, history>>
-----------------------------------------------------------------------------
(* Read the claimed slots *)

\* Mutant: a LIFO worker is given the batch as it is.
PlaceInOrder(p, k) == k

\* Where the k-th stolen task goes: steal_batch_and_pop keeps the first, a LIFO
\* worker is given the others in reverse.
Place(p, k) ==
  LET keep == IF loc[p].op = "batch" THEN 0 ELSE 1
  IN  IF Flavor[p] = "Fifo" \/ k <= keep THEN k ELSE loc[p].n + keep + 1 - k

\* Mutant: the slot is read without waiting for its writer.
ReadSlotEarly(p) ==
  /\ pc[p] = "read"
  /\ LET o == Offset(loc[p].i) + loc[p].j IN
       loc' = [loc EXCEPT ![p].dest[Place(p, loc[p].j + 1)] = task[loc[p].b][o],
                          ![p].j = @ + 1]
  /\ Goto(p, IF loc[p].j + 1 = loc[p].n THEN "publish" ELSE "read")
  /\ UNCHANGED <<tailvars, headvars, blocks, history>>

\* wait_write, then read.
ReadSlot(p) ==
  /\ pc[p] = "read"
  /\ LET o == Offset(loc[p].i) + loc[p].j IN
       /\ "WRITE" \in state[loc[p].b][o]
       /\ loc' = [loc EXCEPT ![p].dest[Place(p, loc[p].j + 1)] = task[loc[p].b][o],
                             ![p].j = @ + 1]
  /\ Goto(p, IF loc[p].j + 1 = loc[p].n THEN "publish" ELSE "read")
  /\ UNCHANGED <<tailvars, headvars, blocks, history>>

\* Store the worker's back index; then start the destruction of the block if
\* this was its end, otherwise mark the slots.
Publish(p) ==
  /\ pc[p] = "publish"
  /\ result' = [result EXCEPT ![p] = loc[p].dest]
  /\ loc' = [loc EXCEPT ![p].dest = <<>>,
                        ![p].j = IF AtEnd(p) THEN Offset(loc[p].i) - 1 ELSE Offset(loc[p].i)]
  /\ Goto(p, IF AtEnd(p) THEN "destroy" ELSE "mark")
  /\ UNCHANGED <<tailvars, headvars, blocks, order>>
-----------------------------------------------------------------------------
(* The destruction of a block *)

MarkWith(p, wanted) ==
  /\ pc[p] = "mark"
  /\ LET b == loc[p].b  j == loc[p].j IN
       /\ state' = [state EXCEPT ![b][j] = @ \cup {"READ"}]
       /\ IF wanted
          THEN Goto(p, "destroy") /\ loc' = [loc EXCEPT ![p].j = Offset(loc[p].i) - 1]
          ELSE IF j + 1 = Offset(loc[p].i) + loc[p].n THEN Return(p)
          ELSE loc' = [loc EXCEPT ![p].j = j + 1] /\ UNCHANGED pc
  /\ UNCHANGED <<tailvars, headvars, alloc, made, next, task, history>>

\* Mutant: nobody continues a destruction that had to stop.
MarkOnly(p) == MarkWith(p, FALSE)

\* fetch_or(READ); continue a destruction that had to stop at this slot.
Mark(p) == MarkWith(p, "DESTROY" \in state[loc[p].b][loc[p].j])

\* Mutant: slots that are still being read do not stop the destruction.
DestroyEager(p) ==
  /\ pc[p] = "destroy"
  /\ alloc' = alloc \ {loc[p].b}
  /\ Return(p)
  /\ UNCHANGED <<tailvars, headvars, made, next, task, state, history>>

\* Block::destroy, from slot j down: skip a slot that was read, leave DESTROY
\* at one that was not and stop, or free the block.  (A slot that is read
\* between the load and the fetch_or keeps a DESTROY bit nobody looks at.)
Destroy(p) ==
  /\ pc[p] = "destroy"
  /\ LET b == loc[p].b  j == loc[p].j IN
       \/ /\ j < 0
          /\ alloc' = alloc \ {b}
          /\ Return(p)
          /\ UNCHANGED state
       \/ /\ j >= 0 /\ "READ" \in state[b][j]
          /\ loc' = [loc EXCEPT ![p].j = j - 1]
          /\ UNCHANGED <<alloc, state, pc>>
       \/ /\ j >= 0 /\ "READ" \notin state[b][j]
          /\ state' = [state EXCEPT ![b][j] = @ \cup {"DESTROY"}]
          /\ Return(p)
          /\ UNCHANGED alloc
  /\ UNCHANGED <<tailvars, headvars, made, next, task, history>>
-----------------------------------------------------------------------------
Init ==
  /\ tail = 0 /\ tblock = 0
  /\ head = [i |-> 0, next |-> FALSE] /\ hblock = 0
  /\ alloc = {0} /\ made = 1
  /\ next = [b \in Blocks |-> Nil]
  /\ task = [b \in Blocks |-> [o \in 0..(BLOCK_CAP - 1) |-> Nil]]
  /\ state = [b \in Blocks |-> [o \in 0..(BLOCK_CAP - 1) |-> {}]]
  /\ pc = [p \in Threads |-> "idle"]
  /\ loc = [p \in Threads |-> NoLoc]
  /\ order = <<>>
  /\ result = [p \in Threads |-> <<>>]

\* The steps of a call in progress.
Step(p) ==
  \/ PushLoad(p) \/ PushBlock(p) \/ PushCas(p)
  \/ InstallBlock(p) \/ InstallIndex(p) \/ InstallNext(p) \/ PushWrite(p)
  \/ LoadHead(p) \/ LoadBlock(p) \/ LoadTail(p) \/ CasHead(p)
  \/ WaitNext(p) \/ NextNext(p) \/ MoveBlock(p) \/ MoveIndex(p)
  \/ ReadSlot(p) \/ Publish(p) \/ Mark(p) \/ Destroy(p)

Next ==
  \/ \E p \in Pushers : PushBegin(p)
  \/ \E p \in Stealers, op \in Ops : StealBegin(p, op)
  \/ \E p \in Threads : Step(p)

Spec == Init /\ [][Next]_vars

\* Every thread keeps executing a call it has begun.
FairSpec == Spec /\ \A p \in Threads : WF_vars(Step(p))
-----------------------------------------------------------------------------
(* Injector::len and drop *)

\* len() computes this from the head and the tail index it found together
\* (1794-1816); LAP is a power of two there, & (LAP - 1) is % LAP.
FixUp(i) == IF Offset(i) = LAP - 1 THEN i + 1 ELSE i

\* Mutant: the indices are not rotated to the first block.
LenOfFar(h, t) == FixUp(t) - FixUp(h) - FixUp(t) \div LAP

LenOf(h, t) ==
  LET lap == FixUp(h) \div LAP
      t1 == FixUp(t) - lap * LAP
      h1 == FixUp(h) - lap * LAP
  IN  t1 - h1 - t1 \div LAP

\* drop (1822-1856) walks from the head's block along the links.
DropChain[k \in Blocks] ==
  IF k = 0 THEN hblock ELSE IF DropChain[k - 1] = Nil THEN Nil ELSE next[DropChain[k - 1]]

DropFrees == {DropChain[k] : k \in 0..(tail \div LAP - head.i \div LAP)}

DropTasks ==
  {task[DropChain[i \div LAP - head.i \div LAP]][Offset(i)] :
     i \in {m \in head.i..(tail - 1) : Offset(m) # BLOCK_CAP}}
-----------------------------------------------------------------------------
(* Properties *)

ClaimedPcs == {"wait_next", "next_next", "move_block", "move_index", "read", "publish"}

PushPcs == {"push", "push_block", "push_cas", "install_block", "install_index", "install_next",
            "push_write"}
StealPcs == {"steal", "load_block", "load_tail", "cas", "mark", "destroy"} \cup ClaimedPcs

\* Types of the state; and the slots a thread has claimed or is about to
\* claim lie inside one block, which the code relies on when it indexes the
\* slots unchecked (1320, 1412, 1537, 1575, 1700, 1739).
TypeOK ==
  /\ tail \in Nat /\ {tblock, hblock} \subseteq Blocks
  /\ head \in [i : Nat, next : BOOLEAN]
  /\ alloc \subseteq Blocks /\ made \in Nat
  /\ next \in [Blocks -> Blocks \cup {Nil}]
  /\ task \in [Blocks -> [0..(BLOCK_CAP - 1) -> 1..NTasks \cup {Nil}]]
  /\ state \in [Blocks -> [0..(BLOCK_CAP - 1) -> SUBSET {"WRITE", "READ", "DESTROY"}]]
  /\ pc \in [Threads -> PushPcs \cup StealPcs \cup {"idle"}]
  /\ \A p \in Threads :
       /\ loc[p].op = "push" <=> pc[p] \in PushPcs
       /\ loc[p].op \in Ops <=> pc[p] \in StealPcs
       /\ Offset(loc[p].i) + loc[p].n <= BLOCK_CAP
       /\ pc[p] \in {"cas"} \cup ClaimedPcs => loc[p].n >= 1
       /\ pc[p] \in {"read", "publish"} => loc[p].dest \in [1..loc[p].n -> 1..NTasks \cup {Nil}]
  /\ order \in [1..Len(order) -> 1..NTasks]

\* Every block a thread is about to write to or read from is allocated, and so
\* is the head's and the tail's: no reader or writer is overtaken by the
\* cooperative destruction (Block::destroy 1172-1189; push 1316-1322; the
\* steals 1401-1421, 1522-1582, 1680-1746), and no block is freed twice.
SafeBlocks ==
  /\ {hblock, tblock} \subseteq alloc
  /\ \A p \in Threads :
       /\ pc[p] \in {"install_next", "push_write", "mark", "destroy"} \cup ClaimedPcs
            => loc[p].b \in alloc
       /\ pc[p] \in {"next_next", "move_block", "move_index"} => loc[p].nb \in alloc

\* len() is the number of tasks not yet claimed by a steal, also while the
\* head or the tail is being moved from one block to the next.
LenExact == LenOf(head.i, tail) = Len(order) - TasksBefore(head.i)

\* When no call is in progress the blocks between head and tail are the only
\* ones left, whichever thread finished last with each of the others: drop
\* frees every block and drops every task that was not stolen.
NothingLeaks ==
  (\A p \in Threads : pc[p] = "idle") =>
    /\ DropFrees = alloc
    /\ DropTasks = {order[k] : k \in (TasksBefore(head.i) + 1)..Len(order)}

\* Every call returns: the waits for the next block (1285-1291, 1363-1366,
\* wait_next) and for a slot's writer (wait_write) end.
CallsReturn == \A p \in Threads : pc[p] # "idle" ~> pc[p] = "idle"
=============================================================================
