------------------------------- MODULE Deque --------------------------------
(***************************************************************************)
(* The worker queues and stealers of nacl/src/task/crossbeam.rs: one       *)
(* Chase-Lev deque per CPU, its owner pushing and popping, every other CPU *)
(* stealing from it with `steal`, `steal_batch` or `steal_batch_and_pop`.  *)
(*                                                                         *)
(* One step is one access to memory another CPU can reach; what a CPU does *)
(* to private memory is merged with the access next to it.  Accesses are   *)
(* sequentially consistent.  Retired buffers are freed, and their          *)
(* addresses reused, as early as crossbeam-epoch's contract permits.       *)
(***************************************************************************)
EXTENDS Integers, Sequences, FiniteSets

CONSTANTS Cpus,       \* CPUs; each owns one worker queue
          Tasks,      \* tasks, each pushed at most once
          Bufs,       \* addresses a buffer can be allocated at
          Nil,        \* no task / no buffer / an uninitialized slot
          Flavor,     \* [Cpus -> {"Fifo", "Lifo"}]
          MIN_CAP,    \* crossbeam.rs:17
          MAX_BATCH   \* crossbeam.rs:19

ASSUME ConstAssumption ==
  /\ Nil \notin Tasks \cup Bufs
  /\ Flavor \in [Cpus -> {"Fifo", "Lifo"}]
  /\ MIN_CAP \in Nat \ {0}
  /\ MAX_BATCH \in Nat \ {0}
  /\ MAX_BATCH <= MIN_CAP

VARIABLES
  front, back,  \* [Cpus -> Int]   Inner::front, Inner::back
  buffer,       \* [Cpus -> Bufs]  Inner::buffer and the owner's copy of it
  cap, slot,    \* contents of every buffer address
  garbage,      \* retired buffers, each with the pinned CPUs it waits for
  pinned,       \* CPUs holding an epoch guard
  pc, loc,      \* where each CPU is in its current operation; its locals
  pushed,       \* history: tasks whose push has taken effect
  taken,        \* history: how often each task was returned to a caller
  stolen        \* history: tasks each CPU has stolen and not yet published

queues == <<front, back, buffer>>
memory == <<cap, slot, garbage, pinned>>
history == <<pushed, taken, stolen>>
vars == <<front, back, buffer, cap, slot, garbage, pinned, pc, loc, pushed, taken, stolen>>

NoLoc == [op |-> "none", src |-> Nil, f |-> 0, len |-> 0, n |-> 0, i |-> 0,
          buf |-> Nil, task |-> Nil, held |-> Nil, ncap |-> 0, nbuf |-> Nil, ret |-> "idle"]
-----------------------------------------------------------------------------
(* Buffers and the epoch collector *)

At(b, i) == slot[b][i % cap[b]]

SlotWrite(b, i, t) == [slot EXCEPT ![b][i % cap[b]] = t]

InUse == {buffer[c] : c \in Cpus} \cup {g.buf : g \in garbage} \cup {loc[c].nbuf : c \in Cpus}

\* crossbeam-epoch: a guard delays the destruction of every buffer retired
\* while it is held.
Unpin(c) ==
  /\ pinned' = pinned \ {c}
  /\ garbage' = {[g EXCEPT !.waits = @ \ {c}] : g \in garbage}

\* Mutant: the buffer is freed without waiting for its readers.
RetireNow(b) == garbage' = garbage \cup {[buf |-> b, waits |-> {}]}

\* Defer the destruction of buffer b.
Retire(b) == garbage' = garbage \cup {[buf |-> b, waits |-> pinned]}

Collect ==
  \E g \in garbage :
    /\ g.waits = {}
    /\ garbage' = garbage \ {g}
    /\ cap' = [cap EXCEPT ![g.buf] = MIN_CAP]
    /\ slot' = [slot EXCEPT ![g.buf] = [k \in 0..(MIN_CAP - 1) |-> Nil]]
    /\ UNCHANGED <<queues, pinned, pc, loc, history>>

Goto(c, l) == pc' = [pc EXCEPT ![c] = l]

Return(c) == Goto(c, "idle") /\ loc' = [loc EXCEPT ![c] = NoLoc]

Take(t) == taken' = [taken EXCEPT ![t] = @ + 1]
-----------------------------------------------------------------------------
(* Worker::resize, entered from push, pop and reserve *)

\* Mutant: the caller does not continue after the resize.
CallResizeTail(c, l, newCap, ret) ==
  /\ loc' = [loc EXCEPT ![c] = [l EXCEPT !.ncap = newCap]]
  /\ Goto(c, "resize")

\* Set up the call: the locals of c, the new capacity, where to continue.
CallResize(c, l, newCap, ret) ==
  /\ loc' = [loc EXCEPT ![c] = [l EXCEPT !.ncap = newCap, !.ret = ret]]
  /\ Goto(c, "resize")

\* Load the front index, allocate, and copy the tasks front..back-1.
ResizeCopy(c) ==
  /\ pc[c] = "resize"
  /\ \E nb \in Bufs \ InUse :
       LET n == loc[c].ncap IN
       /\ cap' = [cap EXCEPT ![nb] = n]
       /\ slot' = [slot EXCEPT ![nb] =
            [k \in 0..(n - 1) |-> LET i == front[c] + ((k - front[c]) % n)
                                  IN  IF i < back[c] THEN At(buffer[c], i) ELSE Nil]]
       /\ loc' = [loc EXCEPT ![c].nbuf = nb]
  /\ Goto(c, "resize_swap")
  /\ UNCHANGED <<queues, garbage, pinned, history>>

\* Install the new buffer and defer the destruction of the old one.
ResizeSwap(c) ==
  /\ pc[c] = "resize_swap"
  /\ buffer' = [buffer EXCEPT ![c] = loc[c].nbuf]
  /\ Retire(buffer[c])
  /\ loc' = [loc EXCEPT ![c] = IF loc[c].ret = "idle" THEN NoLoc
                               ELSE [@ EXCEPT !.nbuf = Nil, !.ncap = 0]]
  /\ Goto(c, loc[c].ret)
  /\ UNCHANGED <<front, back, cap, slot, pinned, history>>
-----------------------------------------------------------------------------
(* Worker::push *)

Push(c, t) ==
  /\ pc[c] = "idle"
  /\ t \in Tasks \ pushed
  /\ \A d \in Cpus : loc[d].op = "push" => loc[d].task # t
  /\ LET l == [NoLoc EXCEPT !.op = "push", !.task = t] IN
       IF back[c] - front[c] >= cap[buffer[c]]
       THEN CallResize(c, l, 2 * cap[buffer[c]], "push_write")
       ELSE Goto(c, "push_write") /\ loc' = [loc EXCEPT ![c] = l]
  /\ UNCHANGED <<queues, memory, history>>

PushWrite(c) ==
  /\ pc[c] = "push_write"
  /\ slot' = SlotWrite(buffer[c], back[c], loc[c].task)
  /\ Goto(c, "push_store")
  /\ UNCHANGED <<queues, cap, garbage, pinned, loc, history>>

PushStore(c) ==
  /\ pc[c] = "push_store"
  /\ back' = [back EXCEPT ![c] = @ + 1]
  /\ pushed' = pushed \cup {loc[c].task}
  /\ Return(c)
  /\ UNCHANGED <<front, buffer, memory, taken, stolen>>
-----------------------------------------------------------------------------
(* Worker::pop; on an empty queue it returns None and changes nothing *)

Pop(c) ==
  /\ pc[c] = "idle"
  /\ back[c] - front[c] > 0
  /\ loc' = [loc EXCEPT ![c].op = "pop", ![c].len = back[c] - front[c]]
  /\ Goto(c, IF Flavor[c] = "Fifo" THEN "pop_fetch" ELSE "pop_dec")
  /\ UNCHANGED <<queues, memory, history>>

\* Return from pop, or shrink the buffer first.
PopReturn(c, shrink) ==
  IF cap[buffer[c]] > MIN_CAP /\ shrink
  THEN CallResize(c, NoLoc, cap[buffer[c]] \div 2, "idle")
  ELSE Return(c)

\* FIFO: front.fetch_add(1); the task is ours unless front passed back.
PopFetch(c) ==
  /\ pc[c] = "pop_fetch"
  /\ front' = [front EXCEPT ![c] = @ + 1]
  /\ \/ /\ back[c] - (front[c] + 1) < 0
        /\ loc' = [loc EXCEPT ![c].f = front[c]]
        /\ Goto(c, "pop_restore")
        /\ UNCHANGED taken
     \/ /\ back[c] - (front[c] + 1) >= 0
        /\ Take(At(buffer[c], front[c]))
        /\ PopReturn(c, loc[c].len <= cap[buffer[c]] \div 4)
  /\ UNCHANGED <<back, buffer, memory, pushed, stolen>>

PopRestore(c) ==
  /\ pc[c] = "pop_restore"
  /\ front' = [front EXCEPT ![c] = loc[c].f]
  /\ Return(c)
  /\ UNCHANGED <<back, buffer, memory, history>>

\* LIFO: claim the last task by decrementing back, then look at front.
PopDec(c) ==
  /\ pc[c] = "pop_dec"
  /\ back' = [back EXCEPT ![c] = @ - 1]
  /\ Goto(c, "pop_check")
  /\ UNCHANGED <<front, buffer, memory, loc, history>>

PopCheck(c) ==
  /\ pc[c] = "pop_check"
  /\ LET len == back[c] - front[c] IN
       \/ /\ len < 0
          /\ Goto(c, "pop_undo")
          /\ UNCHANGED <<loc, taken>>
       \/ /\ len = 0
          /\ loc' = [loc EXCEPT ![c].f = front[c], ![c].task = At(buffer[c], back[c])]
          /\ Goto(c, "pop_cas")
          /\ UNCHANGED taken
       \/ /\ len > 0
          /\ Take(At(buffer[c], back[c]))
          /\ PopReturn(c, len < cap[buffer[c]] \div 4)
  /\ UNCHANGED <<queues, memory, pushed, stolen>>

PopCas(c) ==
  /\ pc[c] = "pop_cas"
  /\ IF front[c] = loc[c].f
     THEN front' = [front EXCEPT ![c] = @ + 1] /\ Take(loc[c].task)
     ELSE UNCHANGED <<front, taken>>
  /\ Goto(c, "pop_undo")
  /\ UNCHANGED <<back, buffer, memory, loc, pushed, stolen>>

PopUndo(c) ==
  /\ pc[c] = "pop_undo"
  /\ back' = [back EXCEPT ![c] = @ + 1]
  /\ Return(c)
  /\ UNCHANGED <<front, buffer, memory, history>>
-----------------------------------------------------------------------------
(* Stealer::steal, steal_batch and steal_batch_and_pop *)

StealOps == {"steal", "batch", "batchpop"}

\* Stolen tasks returned to the caller; the others go to the caller's queue.
Keep(op) == IF op = "batch" THEN 0 ELSE 1

\* batch_size for a source holding len tasks.
BatchSize(op, len) ==
  LET m == CASE op = "steal"    -> 0
             [] op = "batch"    -> (len + 1) \div 2
             [] op = "batchpop" -> (len - 1) \div 2
      limit == MAX_BATCH - Keep(op)
  IN  IF m < limit THEN m ELSE limit

Src(c) == loc[c].src

\* A batch leaves a FIFO source with one compare-exchange, a LIFO source with
\* one compare-exchange per task.
OneByOne(c) == loc[c].op # "steal" /\ Flavor[Src(c)] = "Lifo"

\* Load the front index.  A batch steal of a CPU from itself returns without
\* touching the queue (steal_batch) or is a pop (steal_batch_and_pop).
StealBegin(c, s, op) ==
  /\ pc[c] = "idle"
  /\ op # "steal" => s # c
  /\ loc' = [loc EXCEPT ![c] = [NoLoc EXCEPT !.op = op, !.src = s, !.f = front[s]]]
  /\ Goto(c, "load_back")
  /\ UNCHANGED <<queues, memory, history>>

\* Pin, load the back index; Empty, or compute the batch size.
LoadBack(c) ==
  /\ pc[c] = "load_back"
  /\ LET len == back[Src(c)] - loc[c].f
         n == BatchSize(loc[c].op, len) IN
       \/ /\ len <= 0
          /\ Return(c)
          /\ UNCHANGED pinned
       \/ /\ len > 0
          /\ pinned' = pinned \cup {c}
          /\ loc' = [loc EXCEPT ![c].n = n]
          /\ Goto(c, IF n > 0 THEN "reserve" ELSE "load_buf")
  /\ UNCHANGED <<queues, cap, slot, garbage, history>>

\* Mutant: the tasks already in the queue are forgotten.
MustGrowEmpty(c, n) == cap[buffer[c]] < n

\* Is there too little capacity to push n more tasks?
MustGrow(c, n) == cap[buffer[c]] - (back[c] - front[c]) < n

\* Worker::reserve on the destination.
Reserve(c) ==
  /\ pc[c] = "reserve"
  /\ IF MustGrow(c, loc[c].n)
     THEN CallResize(c, loc[c], 2 * cap[buffer[c]], "load_buf")
     ELSE Goto(c, "load_buf") /\ UNCHANGED loc
  /\ UNCHANGED <<queues, memory, history>>

LoadBuf(c) ==
  /\ pc[c] = "load_buf"
  /\ loc' = [loc EXCEPT ![c].buf = buffer[Src(c)]]
  /\ Goto(c, IF loc[c].op = "batch" /\ ~OneByOne(c) THEN "copy" ELSE "read")
  /\ UNCHANGED <<queues, memory, history>>

\* Read the task at the front of the source.
Read(c) ==
  /\ pc[c] = "read"
  /\ loc' = [loc EXCEPT ![c].task = At(loc[c].buf, loc[c].f)]
  /\ Goto(c, CASE loc[c].op = "batchpop" /\ OneByOne(c) /\ loc[c].i = 0 -> "cas"
               [] loc[c].op = "batchpop" /\ ~OneByOne(c) /\ loc[c].n > 0 -> "copy"
               [] OTHER -> "check")
  /\ UNCHANGED <<queues, memory, history>>

\* Mutants: the batch is always, never reversed on the way to the destination.
CopyToReversed(c, i) == loc[c].n - 1 - i
CopyToInOrder(c, i) == i

\* Where the i-th task copied from a FIFO source goes, counted from dest's back.
CopyTo(c, i) == IF Flavor[c] = "Fifo" THEN i ELSE loc[c].n - 1 - i

\* FIFO source: copy the next task of the batch behind the destination's back.
Copy(c) ==
  /\ pc[c] = "copy"
  /\ LET i == loc[c].i IN
       /\ slot' = SlotWrite(buffer[c], back[c] + CopyTo(c, i),
                            At(loc[c].buf, loc[c].f + Keep(loc[c].op) + i))
       /\ loc' = [loc EXCEPT ![c].i = i + 1]
       /\ Goto(c, IF i + 1 = loc[c].n THEN "check" ELSE "copy")
  /\ UNCHANGED <<queues, cap, garbage, pinned, history>>

\* Nothing was stolen: Steal::Retry.
Retry(c) == Unpin(c) /\ Return(c)

\* The one-by-one loop ends early, with the i tasks stolen so far.
StopBatch(c) ==
  /\ loc' = [loc EXCEPT ![c].n = loc[c].i - Keep(loc[c].op)]
  /\ Goto(c, "publish")
  /\ UNCHANGED <<garbage, pinned>>

GiveUp(c) == IF OneByOne(c) /\ loc[c].i > 0 THEN StopBatch(c) ELSE Retry(c)

\* Mutant: a swapped buffer goes unnoticed.
CheckSkipped(c) ==
  /\ pc[c] = "check"
  /\ Goto(c, "cas")
  /\ UNCHANGED <<queues, memory, loc, history>>

\* Has the source's buffer been swapped?
Check(c) ==
  /\ pc[c] = "check"
  /\ IF buffer[Src(c)] # loc[c].buf
     THEN GiveUp(c)
     ELSE Goto(c, "cas") /\ UNCHANGED <<garbage, pinned, loc>>
  /\ UNCHANGED <<queues, cap, slot, history>>

CasFail(c) ==
  /\ pc[c] = "cas"
  /\ front[Src(c)] # loc[c].f
  /\ GiveUp(c)
  /\ UNCHANGED <<queues, cap, slot, history>>

\* The tasks the thief copied from a FIFO source, in the source's order.
Copied(c) ==
  (IF Keep(loc[c].op) = 1 THEN <<loc[c].task>> ELSE <<>>)
     \o [j \in 1..loc[c].n |-> At(buffer[c], back[c] + CopyTo(c, j - 1))]

CasSteal(c) ==
  /\ pc[c] = "cas"
  /\ loc[c].op = "steal"
  /\ front[Src(c)] = loc[c].f
  /\ front' = [front EXCEPT ![Src(c)] = @ + 1]
  /\ Take(loc[c].task)
  /\ Unpin(c)
  /\ Return(c)
  /\ UNCHANGED <<back, buffer, cap, slot, pushed, stolen>>

CasBatch(c) ==
  /\ pc[c] = "cas"
  /\ loc[c].op # "steal" /\ ~OneByOne(c)
  /\ front[Src(c)] = loc[c].f
  /\ front' = [front EXCEPT ![Src(c)] = @ + Keep(loc[c].op) + loc[c].n]
  /\ stolen' = [stolen EXCEPT ![c] = Copied(c)]
  /\ Goto(c, "publish")
  /\ UNCHANGED <<back, buffer, memory, loc, pushed, taken>>

CasOne(c) ==
  /\ pc[c] = "cas"
  /\ OneByOne(c)
  /\ front[Src(c)] = loc[c].f
  /\ front' = [front EXCEPT ![Src(c)] = @ + 1]
  /\ stolen' = [stolen EXCEPT ![c] = Append(@, loc[c].task)]
  /\ loc' = [loc EXCEPT ![c].f = @ + 1, ![c].i = @ + 1]
  /\ Goto(c, "put")
  /\ UNCHANGED <<back, buffer, memory, pushed, taken>>

\* LIFO source: write the stolen task to the destination buffer;
\* steal_batch_and_pop keeps it and writes the one it kept before.
Put(c) ==
  /\ pc[c] = "put"
  /\ LET i == loc[c].i IN
       /\ slot' = CASE loc[c].op = "batch" -> SlotWrite(buffer[c], back[c] + i - 1, loc[c].task)
                    [] loc[c].op # "batch" /\ i > 1
                                           -> SlotWrite(buffer[c], back[c] + i - 2, loc[c].held)
                    [] OTHER               -> slot
       /\ Goto(c, IF i = loc[c].n + Keep(loc[c].op) THEN "publish" ELSE "reload")
  /\ loc' = [loc EXCEPT ![c].held = loc[c].task]
  /\ UNCHANGED <<queues, cap, garbage, pinned, history>>

\* LIFO source: is there another task?
Reload(c) ==
  /\ pc[c] = "reload"
  /\ IF back[Src(c)] - loc[c].f <= 0
     THEN StopBatch(c)
     ELSE Goto(c, "read") /\ UNCHANGED <<garbage, pinned, loc>>
  /\ UNCHANGED <<queues, cap, slot, history>>

\* The n slots of buffer b from index f on, reversed.
Reversed(b, f, n) ==
  [slot EXCEPT ![b] = [k \in DOMAIN @ |->
     LET j == (k - f) % cap[b] IN IF j < n THEN At(b, f + n - 1 - j) ELSE @[k]]]

\* Mutant: a batch from a LIFO source is reversed whatever the destination.
MustReverseAny(c) == OneByOne(c)

\* From LIFO to FIFO.
MustReverse(c) == OneByOne(c) /\ Flavor[c] = "Fifo"

\* Reverse if necessary, store the destination's back index, return.
Publish(c) ==
  /\ pc[c] = "publish"
  /\ slot' = IF MustReverse(c)
             THEN Reversed(buffer[c], back[c], loc[c].n) ELSE slot
  /\ back' = [back EXCEPT ![c] = @ + loc[c].n]
  /\ stolen' = [stolen EXCEPT ![c] = <<>>]
  /\ CASE loc[c].op = "batch"    -> UNCHANGED taken
       [] loc[c].op = "batchpop" -> Take(IF OneByOne(c) THEN loc[c].held ELSE loc[c].task)
  /\ Unpin(c)
  /\ Return(c)
  /\ UNCHANGED <<front, buffer, cap, pushed>>
-----------------------------------------------------------------------------
\* Two workers never share a buffer: Worker::new_fifo and new_lifo allocate one.
Init ==
  /\ front = [c \in Cpus |-> 0]
  /\ back = [c \in Cpus |-> 0]
  /\ buffer \in [Cpus -> Bufs]
  /\ \A c, d \in Cpus : c # d => buffer[c] # buffer[d]
  /\ cap = [b \in Bufs |-> MIN_CAP]
  /\ slot = [b \in Bufs |-> [k \in 0..(MIN_CAP - 1) |-> Nil]]
  /\ garbage = {}
  /\ pinned = {}
  /\ pc = [c \in Cpus |-> "idle"]
  /\ loc = [c \in Cpus |-> NoLoc]
  /\ pushed = {}
  /\ taken = [t \in Tasks \cup {Nil} |-> 0]
  /\ stolen = [c \in Cpus |-> <<>>]

Worker(c) ==
  \/ \E t \in Tasks : Push(c, t)
  \/ PushWrite(c) \/ PushStore(c)
  \/ Pop(c) \/ PopFetch(c) \/ PopRestore(c)
  \/ PopDec(c) \/ PopCheck(c) \/ PopCas(c) \/ PopUndo(c)
  \/ ResizeCopy(c) \/ ResizeSwap(c)

Stealer(c) ==
  \/ \E s \in Cpus, op \in StealOps : StealBegin(c, s, op)
  \/ LoadBack(c) \/ Reserve(c) \/ LoadBuf(c) \/ Read(c) \/ Copy(c) \/ Check(c)
  \/ CasFail(c) \/ CasSteal(c) \/ CasBatch(c) \/ CasOne(c)
  \/ Put(c) \/ Reload(c) \/ Publish(c)

Next == Collect \/ \E c \in Cpus : Worker(c) \/ Stealer(c)

Spec == Init /\ [][Next]_vars
-----------------------------------------------------------------------------
(* Properties *)

PushPcs == {"push_write", "push_store"}
PopPcs == {"pop_fetch", "pop_restore", "pop_dec", "pop_check", "pop_cas", "pop_undo"}
ResizePcs == {"resize", "resize_swap"}
DerefPcs == {"read", "copy", "check", "cas", "put", "reload", "publish"}
StealPcs == {"load_back", "reserve", "load_buf"} \cup DerefPcs

Pcs == {"idle"} \cup PushPcs \cup PopPcs \cup ResizePcs \cup StealPcs

\* Where resize may return to.
Rets == {"idle", "push_write", "load_buf"}

LocType ==
  [op : StealOps \cup {"none", "push", "pop"}, src : Cpus \cup {Nil}, f : Int, len : Int,
   n : Int, i : Int, buf : Bufs \cup {Nil}, task : Tasks \cup {Nil},
   held : Tasks \cup {Nil}, ncap : Nat, nbuf : Bufs \cup {Nil},
   ret : Rets]

MemoryOK ==
  /\ front \in [Cpus -> Int]
  /\ back \in [Cpus -> Int]
  /\ buffer \in [Cpus -> Bufs]
  /\ cap \in [Bufs -> Nat \ {0}]
  /\ DOMAIN slot = Bufs
  /\ \A b \in Bufs : slot[b] \in [0..(cap[b] - 1) -> Tasks \cup {Nil}]
  /\ garbage \subseteq [buf : Bufs, waits : SUBSET Cpus]
  /\ pinned \subseteq Cpus

\* The locals l an operation has set by the time it reaches p.
LocOK(p, l) ==
  /\ p = "idle" => l = NoLoc
  /\ p \in PushPcs => l.op = "push" /\ l.task \in Tasks
  /\ p \in StealPcs => l.op \in StealOps /\ l.src \in Cpus
  /\ p \in {"put", "reload", "publish"} => l.op # "steal"
  /\ p \in DerefPcs => l.buf \in Bufs
  /\ p = "resize_swap" => l.nbuf \in Bufs
  /\ p \in ResizePcs =>
       /\ l.ncap > 0
       /\ l.ret = "idle" => l.op = "none"
       /\ l.ret = "push_write" => l.op = "push" /\ l.task \in Tasks
       /\ l.ret = "load_buf" => l.op \in StealOps /\ l.src \in Cpus

HistoryOK ==
  /\ pushed \subseteq Tasks
  /\ taken \in [Tasks \cup {Nil} -> Nat]
  /\ stolen \in [Cpus -> Seq(Tasks \cup {Nil})]

\* Every variable keeps its type, every capacity is positive, and an operation
\* never uses a local it has not set (crossbeam.rs, Worker and Stealer).
TypeOK ==
  /\ MemoryOK
  /\ pc \in [Cpus -> Pcs]
  /\ loc \in [Cpus -> LocType]
  /\ \A c \in Cpus : LocOK(pc[c], loc[c])
  /\ HistoryOK

\* While a LIFO pop has decremented back and not yet decided, the task behind
\* back is still in the queue.
LiveBack(c) == back[c] + (IF pc[c] \in {"pop_check", "pop_cas", "pop_undo"} THEN 1 ELSE 0)

Indices(c) == front[c]..(LiveBack(c) - 1)

Queued(c) == {At(buffer[c], i) : i \in Indices(c)}

Stolen(c) == {stolen[c][j] : j \in DOMAIN stolen[c]}

\* No task is lost, returned twice or held in two places, and no uninitialized
\* slot is ever returned, whatever the owner's push, pop and resize and the
\* others' steals do to a queue at the same time (push, pop, steal,
\* steal_batch, steal_batch_and_pop).
ExactlyOnce ==
  /\ pushed = (UNION {Queued(c) \cup Stolen(c) : c \in Cpus}) \cup {t \in Tasks : taken[t] > 0}
  /\ taken[Nil] = 0
  /\ \A t \in Tasks : taken[t] <= 1
  /\ \A t \in pushed : taken[t] = 1 => \A c \in Cpus : t \notin Queued(c) \cup Stolen(c)
  /\ \A c, d \in Cpus :
       /\ c # d => Queued(c) \cap Queued(d) = {} /\ Stolen(c) \cap Stolen(d) = {}
       /\ Queued(c) \cap Stolen(d) = {}
       /\ \A i, j \in Indices(c) : At(buffer[c], i) = At(buffer[c], j) => i = j

\* The buffer a stealer reads is the source's current one, or a retired one
\* the collector cannot free before this stealer unpins: resize's deferred
\* destruction (crossbeam.rs:306) never frees a buffer under a reader, and so
\* the comparison of buffer pointers (lines 657, 765, 812, 966, 1028) cannot
\* be fooled by a reused address.  No buffer is in use by two queues, in use
\* and retired, or retired twice.
SafeDeref ==
  /\ \A c \in Cpus : pc[c] \in DerefPcs =>
       /\ c \in pinned
       /\ \/ loc[c].buf = buffer[Src(c)]
          \/ \E g \in garbage : g.buf = loc[c].buf /\ c \in g.waits
  /\ \A c, d \in Cpus : c # d => buffer[c] # buffer[d]
  /\ \A g \in garbage : /\ \A c \in Cpus : g.buf # buffer[c]
                        /\ \A h \in garbage : g.buf = h.buf => g = h

\* resize's `while i != b` loop (line 291) starts at or before its end and
\* copies no two tasks to one slot; reserve never computes `cap - len` below
\* zero, needs no second doubling, and leaves room for the whole batch
\* (lines 328-338).
ResizeFits ==
  \A c \in Cpus :
    LET len == back[c] - front[c]
        room == cap[buffer[c]] - len IN
    /\ pc[c] \in ResizePcs => 0 <= len /\ len + loc[c].n <= loc[c].ncap
    /\ pc[c] = "reserve" => 0 <= len /\ 0 <= room
    /\ pc[c] \in {"load_buf"} \cup DerefPcs => loc[c].n <= room
=============================================================================
