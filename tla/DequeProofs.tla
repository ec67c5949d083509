---- MODULE DequeProofs ----
EXTENDS Deque, TLAPS

-----------------------------------------------------------------------------

\* The part of TypeOK about program counters and locals.
ControlOK ==
  /\ pc \in [Cpus -> Pcs]
  /\ loc \in [Cpus -> LocType]
  /\ \A c \in Cpus : LocOK(pc[c], loc[c])

-----------------------------------------------------------------------------

(* Locals: what an update of a record of locals leaves in LocType *)

\* An operation starts from NoLoc.
LEMMA NoLocType == NoLoc \in LocType
  BY DEF NoLoc, LocType, Rets

\* The call of resize sets the new capacity and the return address.
ResizeLoc(l, k, r) == [l EXCEPT !.ncap = k, !.ret = r]

\* resize returns to its caller without its own locals.
ClearLoc(l) == [l EXCEPT !.nbuf = Nil, !.ncap = 0]

\* push sets the operation and the task.
PushLoc(t) == [NoLoc EXCEPT !.op = "push", !.task = t]

\* pop sets the operation and the length.
PopLoc(l, k) == [l EXCEPT !.op = "pop", !.len = k]

\* A LIFO pop of the last task reads the front index and the task.
LastLoc(l, k, t) == [l EXCEPT !.f = k, !.task = t]

\* A steal starts with the operation, the source and its front index.
StealLoc(o, s, k) == [NoLoc EXCEPT !.op = o, !.src = s, !.f = k]

\* One more task has been stolen from a LIFO source.
StolenLoc(l) == [l EXCEPT !.f = @ + 1, !.i = @ + 1]

\* Its other locals stay.
LEMMA ResizeLocType ==
  ASSUME NEW l \in LocType, NEW k \in Nat, NEW r \in Rets
  PROVE  /\ ResizeLoc(l, k, r) \in LocType
         /\ ResizeLoc(l, k, r).ncap = k /\ ResizeLoc(l, k, r).ret = r /\ ResizeLoc(l, k, r).op = l.op
         /\ ResizeLoc(l, k, r).src = l.src /\ ResizeLoc(l, k, r).task = l.task /\ ResizeLoc(l, k, r).buf = l.buf
         /\ ResizeLoc(l, k, r).nbuf = l.nbuf
<1>1. PICK a : a = [l EXCEPT !.ncap = k]
  BY Zenon
<1>2. /\ a \in LocType /\ a.ncap = k /\ a.nbuf = l.nbuf
      /\ a.op = l.op /\ a.src = l.src /\ a.task = l.task /\ a.buf = l.buf
  BY <1>1, NoLocType, Zenon DEF LocType
<1>3. ResizeLoc(l, k, r) = [a EXCEPT !.ret = r]
  BY <1>1, <1>2, Zenon DEF ResizeLoc
<1> QED
  BY <1>2, <1>3, Zenon DEF LocType

\* The locals of a push.
LEMMA PushLocType ==
  ASSUME NEW t \in Tasks
  PROVE  /\ PushLoc(t) \in LocType
         /\ PushLoc(t).op = "push" /\ PushLoc(t).task = t /\ PushLoc(t).nbuf = Nil
<1>1. PICK a : a = [NoLoc EXCEPT !.op = "push"]
  BY Zenon
<1>2. a \in LocType /\ a.op = "push" /\ a.nbuf = Nil
  BY <1>1, NoLocType, Zenon DEF LocType, NoLoc
<1>3. PushLoc(t) = [a EXCEPT !.task = t]
  BY <1>1, <1>2, Zenon DEF PushLoc
<1> QED
  BY <1>2, <1>3, Zenon DEF LocType

-----------------------------------------------------------------------------

(* Control: the ways a step of CPU c moves its program counter *)

-----------------------------------------------------------------------------

(* Memory and history *)

\* Initially every queue is empty and every CPU idle.
LEMMA TypeInit == Init => TypeOK
<1> SUFFICES ASSUME Init PROVE TypeOK
  BY Zenon
<1>1. \A b \in Bufs : slot[b] \in [0..(cap[b] - 1) -> Tasks \cup {Nil}]
  BY ConstAssumption, Zenon DEF Init
<1>2. MemoryOK
  BY <1>1, ConstAssumption DEF Init, MemoryOK
<1>3. \A c \in Cpus : LocOK(pc[c], loc[c])
  BY Zenon DEF Init, LocOK, PushPcs, StealPcs, DerefPcs, ResizePcs
<1>4. HistoryOK
  BY DEF Init, HistoryOK
<1>5. pc \in [Cpus -> Pcs] /\ loc \in [Cpus -> LocType]
  BY NoLocType, Zenon DEF Init, Pcs
<1> QED
  BY <1>2, <1>3, <1>4, <1>5, Zenon DEF TypeOK

-----------------------------------------------------------------------------

(* The steps of a worker keep the types *)

-----------------------------------------------------------------------------

(* The steps of a stealer keep the types *)

\* Every step keeps the types.
LEMMA TypeNext == TypeOK /\ [Next]_vars => TypeOK'
<1> SUFFICES ASSUME TypeOK, [Next]_vars PROVE TypeOK'
  BY Zenon
\* The caller's locals stay.
<1>ClearLocType. ASSUME NEW l \in LocType
      PROVE  /\ ClearLoc(l) \in LocType
             /\ ClearLoc(l).nbuf = Nil /\ ClearLoc(l).op = l.op /\ ClearLoc(l).src = l.src
             /\ ClearLoc(l).task = l.task /\ ClearLoc(l).buf = l.buf
  <2> USE <1>ClearLocType
  <2>1. PICK a : a = [l EXCEPT !.nbuf = Nil]
    BY Zenon
  <2>2. /\ a \in LocType /\ a.nbuf = Nil
        /\ a.op = l.op /\ a.src = l.src /\ a.task = l.task /\ a.buf = l.buf
    BY <2>1, NoLocType, Zenon DEF LocType
  <2>3. ClearLoc(l) = [a EXCEPT !.ncap = 0]
    BY <2>1, <2>2, Zenon DEF ClearLoc
  <2> QED
    BY <2>2, <2>3 DEF LocType
\* The locals of a pop.
<1>PopLocType. ASSUME NEW l \in LocType, NEW k \in Int
      PROVE  /\ PopLoc(l, k) \in LocType
             /\ PopLoc(l, k).nbuf = l.nbuf
  <2> USE <1>PopLocType
  <2>1. PICK a : a = [l EXCEPT !.op = "pop"]
    BY Zenon
  <2>2. a \in LocType /\ a.nbuf = l.nbuf
    BY <2>1, NoLocType, Zenon DEF LocType
  <2>3. PopLoc(l, k) = [a EXCEPT !.len = k]
    BY <2>1, <2>2, Zenon DEF PopLoc
  <2> QED
    BY <2>2, <2>3, Zenon DEF LocType
\* The locals of a LIFO pop of the last task.
<1>LastLocType. ASSUME NEW l \in LocType, NEW k \in Int, NEW t \in Tasks \cup {Nil}
      PROVE  /\ LastLoc(l, k, t) \in LocType
             /\ LastLoc(l, k, t).nbuf = l.nbuf
  <2> USE <1>LastLocType
  <2>1. PICK a : a = [l EXCEPT !.f = k]
    BY Zenon
  <2>2. a \in LocType /\ a.nbuf = l.nbuf
    BY <2>1, NoLocType, Zenon DEF LocType
  <2>3. LastLoc(l, k, t) = [a EXCEPT !.task = t]
    BY <2>1, <2>2, Zenon DEF LastLoc
  <2> QED
    BY <2>2, <2>3, Zenon DEF LocType
\* The locals of a steal.
<1>StealLocType. ASSUME NEW o \in StealOps, NEW s \in Cpus, NEW k \in Int
      PROVE  /\ StealLoc(o, s, k) \in LocType
             /\ StealLoc(o, s, k).op = o /\ StealLoc(o, s, k).src = s
             /\ StealLoc(o, s, k).nbuf = Nil
  <2> USE <1>StealLocType
  <2>1. PICK a : a = [NoLoc EXCEPT !.op = o]
    BY Zenon
  <2>2. a \in LocType /\ a.op = o /\ a.nbuf = Nil
    BY <2>1, NoLocType, Zenon DEF LocType, NoLoc
  <2>3. PICK b : b = [a EXCEPT !.src = s]
    BY Zenon
  <2>4. b \in LocType /\ b.op = o /\ b.src = s /\ b.nbuf = Nil
    BY <2>2, <2>3 DEF LocType
  <2>5. StealLoc(o, s, k) = [b EXCEPT !.f = k]
    BY <2>1, <2>3, Zenon DEF StealLoc
  <2> QED
    BY <2>4, <2>5, Zenon DEF LocType
\* The locals of a steal one task further.
<1>StolenLocType. ASSUME NEW l \in LocType
      PROVE  /\ StolenLoc(l) \in LocType
             /\ StolenLoc(l).op = l.op /\ StolenLoc(l).src = l.src /\ StolenLoc(l).buf = l.buf
             /\ StolenLoc(l).nbuf = l.nbuf
  <2> USE <1>StolenLocType
  <2>1. PICK a : a = [l EXCEPT !.f = l.f + 1]
    BY Zenon
  <2>2. /\ a \in LocType /\ a.i = l.i
        /\ a.op = l.op /\ a.src = l.src /\ a.buf = l.buf /\ a.nbuf = l.nbuf
    BY <2>1, NoLocType DEF LocType
  <2>3. StolenLoc(l) = [a EXCEPT !.i = a.i + 1]
    BY <2>1, <2>2, Zenon DEF StolenLoc, LocType
  <2> QED
    BY <2>2, <2>3 DEF LocType
\* Only c's program counter and locals change, and the new ones fit.
<1>ControlStep. ASSUME ControlOK, NEW c \in Cpus, NEW p \in Pcs, NEW l \in LocType, LocOK(p, l),
                       pc' = [pc EXCEPT ![c] = p], loc' = [loc EXCEPT ![c] = l]
      PROVE  ControlOK'
  <2> USE <1>ControlStep
  <2>1. pc' \in [Cpus -> Pcs] /\ loc' \in [Cpus -> LocType]
    BY Zenon DEF ControlOK
  <2>2. ASSUME NEW d \in Cpus PROVE LocOK(pc'[d], loc'[d])
    BY Zenon DEF ControlOK
  <2>3. \A d \in Cpus : LocOK(pc[d], loc[d])'
    BY <2>2, Zenon DEF LocOK
  <2> QED
    BY <2>1, <2>3, Zenon DEF ControlOK
\* The same when the locals stay.
<1>GotoStep. ASSUME ControlOK, NEW c \in Cpus, NEW p \in Pcs, LocOK(p, loc[c]), Goto(c, p),
                    UNCHANGED loc
      PROVE  ControlOK'
  <2> USE <1>GotoStep
  <2>1. loc' = [loc EXCEPT ![c] = loc[c]] /\ loc[c] \in LocType
    BY Zenon DEF ControlOK
  <2> QED
    BY <2>1, <1>ControlStep, Zenon DEF Goto
\* An operation returns.
<1>ReturnStep. ASSUME ControlOK, NEW c \in Cpus, Return(c)
      PROVE  ControlOK'
  <2> USE <1>ReturnStep
  <2>1. "idle" \in Pcs /\ LocOK("idle", NoLoc)
    BY Zenon DEF Pcs, LocOK, PushPcs, StealPcs, DerefPcs, ResizePcs
  <2> QED
    BY <2>1, NoLocType, <1>ControlStep, Zenon DEF Return, Goto
\* resize is called with a positive capacity, by an operation that has set
\* the locals it will use afterwards.
<1>CallStep. ASSUME ControlOK, NEW c \in Cpus, NEW l \in LocType, NEW k \in Nat, k > 0,
                    NEW r \in Rets, CallResize(c, l, k, r), r = "idle" => l.op = "none",
                    r = "push_write" => l.op = "push" /\ l.task \in Tasks,
                    r = "load_buf" => l.op \in StealOps /\ l.src \in Cpus
      PROVE  ControlOK'
  <2> USE <1>CallStep
  <2>1. PICK m : m = ResizeLoc(l, k, r)
    BY Zenon
  <2>2. /\ m \in LocType /\ m.ncap = k /\ m.ret = r
        /\ m.op = l.op /\ m.src = l.src /\ m.task = l.task
    BY <2>1, ResizeLocType
  <2>3. LocOK("resize", m) /\ "resize" \in Pcs
    BY <2>2, Zenon DEF LocOK, Pcs, PushPcs, StealPcs, DerefPcs, ResizePcs
  <2>4. pc' = [pc EXCEPT ![c] = "resize"] /\ loc' = [loc EXCEPT ![c] = m]
    BY <2>1, Zenon DEF CallResize, Goto, ResizeLoc
  <2> QED
    BY <2>2, <2>3, <2>4, <1>ControlStep, Zenon
\* Reading a slot gives a task or what an uninitialized slot holds.
<1>AtType. ASSUME MemoryOK, NEW b \in Bufs, NEW i \in Int
      PROVE  At(b, i) \in Tasks \cup {Nil}
  <2> USE <1>AtType
  <2>1. cap[b] \in Nat \ {0} /\ slot[b] \in [0..(cap[b] - 1) -> Tasks \cup {Nil}]
    BY Zenon DEF MemoryOK
  <2>2. i % cap[b] \in 0..(cap[b] - 1)
    BY <2>1
  <2> QED
    BY <2>1, <2>2, Zenon DEF At
\* Writing a slot keeps every buffer a function on its slots.
<1>WriteType. ASSUME MemoryOK, NEW b \in Bufs, NEW i \in Int, NEW t \in Tasks \cup {Nil}
      PROVE  /\ DOMAIN SlotWrite(b, i, t) = Bufs
             /\ \A d \in Bufs : SlotWrite(b, i, t)[d] \in [0..(cap[d] - 1) -> Tasks \cup {Nil}]
    BY <1>WriteType, Zenon DEF MemoryOK, SlotWrite
\* Unpinning keeps the types of the collector's state.
<1>UnpinType. ASSUME MemoryOK, NEW c \in Cpus, Unpin(c)
      PROVE  pinned' \subseteq Cpus /\ garbage' \subseteq [buf : Bufs, waits : SUBSET Cpus]
  <2> USE <1>UnpinType
  <2>1. pinned' \subseteq Cpus
    BY Zenon DEF MemoryOK, Unpin
  <2>2. ASSUME NEW g \in garbage
        PROVE  [g EXCEPT !.waits = @ \ {c}] \in [buf : Bufs, waits : SUBSET Cpus]
    BY Zenon DEF MemoryOK
  <2> QED
    BY <2>1, <2>2, Zenon DEF Unpin
\* A step that leaves buffers and collector alone keeps the types of memory
\* if it keeps those of the indices.
<1>MemoryFrame. ASSUME MemoryOK, UNCHANGED <<buffer, cap, slot, garbage, pinned>>,
                       front' \in [Cpus -> Int], back' \in [Cpus -> Int]
      PROVE  MemoryOK'
    BY <1>MemoryFrame, Zenon DEF MemoryOK
\* The same for a step that writes a slot.
<1>MemoryWrite. ASSUME MemoryOK, UNCHANGED <<front, back, buffer, cap, garbage, pinned>>,
                       NEW b \in Bufs, NEW i \in Int, NEW t \in Tasks \cup {Nil},
                       slot' = SlotWrite(b, i, t)
      PROVE  MemoryOK'
    BY <1>MemoryWrite, <1>WriteType, Zenon DEF MemoryOK
\* The same for a step that ends a steal without touching a slot.
<1>MemoryUnpin. ASSUME MemoryOK, UNCHANGED <<back, buffer, cap, slot>>,
                       front' \in [Cpus -> Int], NEW c \in Cpus, Unpin(c)
      PROVE  MemoryOK'
    BY <1>MemoryUnpin, <1>UnpinType, Zenon DEF MemoryOK
\* Counting a returned task keeps the history's types.
<1>HistoryTake. ASSUME HistoryOK, NEW t \in Tasks \cup {Nil}, Take(t), pushed' = pushed,
                       stolen' \in [Cpus -> Seq(Tasks \cup {Nil})]
      PROVE  HistoryOK'
    BY <1>HistoryTake DEF HistoryOK, Take
\* Nothing is counted.
<1>HistoryFrame. ASSUME HistoryOK, UNCHANGED history
      PROVE  HistoryOK'
    BY <1>HistoryFrame, Zenon DEF HistoryOK, history
\* TypeOK in its three parts.
<1>Parts. /\ TypeOK => MemoryOK /\ ControlOK /\ HistoryOK
          /\ MemoryOK' /\ ControlOK' /\ HistoryOK' => TypeOK'
    BY Zenon DEF TypeOK, ControlOK
<1>Now. MemoryOK /\ ControlOK /\ HistoryOK
    BY <1>Parts, Zenon
<1>Ends. front \in [Cpus -> Int] /\ back \in [Cpus -> Int]
    BY <1>Now, Zenon DEF MemoryOK
\* Worker::push.
<1>Push. ASSUME NEW c \in Cpus, (\E t \in Tasks : Push(c, t)) \/ PushWrite(c) \/ PushStore(c)
      PROVE  TypeOK'
  <2> USE <1>Push
  <2> USE <1>Now
  <2>0. /\ front[c] \in Int /\ back[c] \in Int /\ buffer[c] \in Bufs
        /\ cap[buffer[c]] \in Nat /\ cap[buffer[c]] > 0
    BY DEF MemoryOK
  <2>1. ASSUME NEW t \in Tasks, Push(c, t) PROVE TypeOK'
    <3>1. MemoryOK'
      BY <2>1, <1>MemoryFrame, <1>Ends, Zenon DEF Push, queues, memory
    <3>2. HistoryOK'
      BY <2>1, <1>HistoryFrame, Zenon DEF Push
    <3>3. PICK l : l = PushLoc(t)
      BY Zenon
    <3>4. l \in LocType /\ l.op = "push" /\ l.task = t
      BY <3>3, PushLocType, Zenon
    <3>5. CASE back[c] - front[c] >= cap[buffer[c]]
      <4>1. PICK k \in Nat : k = 2 * cap[buffer[c]] /\ k > 0
        BY <2>0
      <4>2. CallResize(c, l, k, "push_write")
        BY <2>1, <3>3, <3>5, <4>1, Zenon DEF Push, PushLoc
      <4> QED
        BY <3>1, <3>2, <3>4, <4>1, <4>2, <1>CallStep, <1>Parts, Zenon DEF Rets
    <3>6. CASE ~(back[c] - front[c] >= cap[buffer[c]])
      <4>1. pc' = [pc EXCEPT ![c] = "push_write"] /\ loc' = [loc EXCEPT ![c] = l]
        BY <2>1, <3>3, <3>6, Zenon DEF Push, PushLoc, Goto
      <4>2. "push_write" \in Pcs /\ LocOK("push_write", l)
        BY <3>4, Zenon DEF Pcs, LocOK, PushPcs, StealPcs, DerefPcs, ResizePcs
      <4> QED
        BY <3>1, <3>2, <3>4, <4>1, <4>2, <1>ControlStep, <1>Parts, Zenon
    <3> QED
      BY <3>5, <3>6, <1>Parts, Zenon
  <2>2. ASSUME PushWrite(c) PROVE TypeOK'
    <3>1. LocOK("push_write", loc[c]) /\ loc[c] \in LocType
      BY <2>2, Zenon DEF PushWrite, ControlOK
    <3>2. loc[c].task \in Tasks /\ LocOK("push_store", loc[c]) /\ "push_store" \in Pcs
      BY <3>1, Zenon DEF Pcs, LocOK, PushPcs, StealPcs, DerefPcs, ResizePcs
    <3>3. MemoryOK'
      BY <2>0, <2>2, <3>2, <1>MemoryWrite, Zenon DEF PushWrite, queues
    <3>4. ControlOK'
      BY <2>2, <3>2, <1>GotoStep, Zenon DEF PushWrite
    <3> QED
      BY <2>2, <3>3, <3>4, <1>HistoryFrame, <1>Parts, Zenon DEF PushWrite
  <2>3. ASSUME PushStore(c) PROVE TypeOK'
    <3>1. MemoryOK'
      BY <2>0, <2>3, <1>MemoryFrame, <1>Ends DEF PushStore, memory
    <3>2. LocOK("push_store", loc[c])
      BY <2>3, Zenon DEF PushStore, ControlOK
    <3>3. HistoryOK'
      BY <2>3, <3>2, Zenon DEF PushStore, HistoryOK, LocOK, PushPcs
    <3> QED
      BY <2>3, <3>1, <3>3, <1>ReturnStep, <1>Parts, Zenon DEF PushStore
  <2> QED
    BY <2>1, <2>2, <2>3, <1>Parts, Zenon
\* A pop that got a task returns it, or shrinks the buffer first.
<1>PopReturn. ASSUME NEW c \in Cpus,
                     \/ cap[buffer[c]] > MIN_CAP /\ CallResize(c, NoLoc, cap[buffer[c]] \div 2, "idle")
                     \/ Return(c)
      PROVE  ControlOK'
  <2> USE <1>PopReturn
  <2> USE <1>Now
  <2>1. cap[buffer[c]] \in Nat /\ cap[buffer[c]] > 0
    BY DEF MemoryOK
  <2>2. CASE cap[buffer[c]] > MIN_CAP /\ CallResize(c, NoLoc, cap[buffer[c]] \div 2, "idle")
    <3>1. PICK k \in Nat : k = cap[buffer[c]] \div 2 /\ k > 0
      BY <2>1, <2>2, ConstAssumption
    <3>2. NoLoc.op = "none"
      BY Zenon DEF NoLoc
    <3> QED
      BY <2>2, <3>1, <3>2, NoLocType, <1>CallStep, Zenon DEF Rets
  <2>3. CASE Return(c)
    BY <2>3, <1>ReturnStep, Zenon
  <2> QED
    BY <2>2, <2>3, Zenon
\* Worker::pop, FIFO.
<1>PopFifo. ASSUME NEW c \in Cpus, Pop(c) \/ PopFetch(c) \/ PopRestore(c)
      PROVE  TypeOK'
  <2> USE <1>PopFifo
  <2> USE <1>Now
  <2>0. /\ front[c] \in Int /\ back[c] \in Int /\ buffer[c] \in Bufs /\ loc[c] \in LocType
        /\ loc[c].f \in Int
    BY Zenon DEF MemoryOK, ControlOK, LocType
  <2>1. ASSUME Pop(c) PROVE TypeOK'
    <3>1. MemoryOK'
      BY <2>1, <1>MemoryFrame, <1>Ends, Zenon DEF Pop, queues, memory
    <3>2. HistoryOK'
      BY <2>1, <1>HistoryFrame, Zenon DEF Pop
    <3>3. PICK l : l = PopLoc(loc[c], back[c] - front[c])
      BY Zenon
    <3>4. l \in LocType
      BY <2>0, <3>3, <1>PopLocType
    <3>5. PICK p \in {"pop_fetch", "pop_dec"} : Goto(c, p)
      BY <2>1, Zenon DEF Pop
    <3>6. pc' = [pc EXCEPT ![c] = p] /\ loc' = [loc EXCEPT ![c] = l]
      BY <2>1, <3>3, <3>5, Zenon DEF Pop, PopLoc, Goto
    <3>7. p \in Pcs /\ LocOK(p, l)
      BY Zenon DEF Pcs, LocOK, PushPcs, PopPcs, StealPcs, DerefPcs, ResizePcs
    <3> QED
      BY <3>1, <3>2, <3>4, <3>6, <3>7, <1>ControlStep, <1>Parts, Zenon
  <2>2. ASSUME PopFetch(c) PROVE TypeOK'
    <3>1. MemoryOK'
      BY <2>0, <2>2, <1>MemoryFrame, <1>Ends DEF PopFetch, memory
    <3>2. CASE back[c] - (front[c] + 1) < 0
      <4>1. PICK l : l = [loc[c] EXCEPT !.f = front[c]]
        BY Zenon
      <4>2. l \in LocType
        BY <2>0, <4>1, Zenon DEF LocType
      <4>3. pc' = [pc EXCEPT ![c] = "pop_restore"] /\ loc' = [loc EXCEPT ![c] = l]
        BY <2>0, <2>2, <3>2, <4>1 DEF PopFetch, Goto
      <4>4. "pop_restore" \in Pcs /\ LocOK("pop_restore", l)
        BY Zenon DEF Pcs, LocOK, PushPcs, PopPcs, StealPcs, DerefPcs, ResizePcs
      <4>5. HistoryOK'
        BY <2>0, <2>2, <3>2 DEF PopFetch, HistoryOK
      <4> QED
        BY <3>1, <4>2, <4>3, <4>4, <4>5, <1>ControlStep, <1>Parts, Zenon
    <3>3. CASE back[c] - (front[c] + 1) >= 0
      <4>1. PICK t \in Tasks \cup {Nil} : Take(t)
        BY <2>0, <2>2, <3>3, <1>AtType DEF PopFetch
      <4>2. HistoryOK'
        BY <2>2, <4>1, <1>HistoryTake, Zenon DEF PopFetch, HistoryOK
      <4>3. PopReturn(c, loc[c].len <= cap[buffer[c]] \div 4)
        BY <2>0, <2>2, <3>3 DEF PopFetch
      <4> QED
        BY <3>1, <4>2, <4>3, <1>PopReturn, <1>Parts, Zenon DEF PopReturn
    <3> QED
      BY <2>0, <3>2, <3>3, <1>Parts
  <2>3. ASSUME PopRestore(c) PROVE TypeOK'
    <3>1. MemoryOK'
      BY <2>0, <2>3, <1>MemoryFrame, <1>Ends, Zenon DEF PopRestore, memory
    <3> QED
      BY <2>3, <3>1, <1>ReturnStep, <1>HistoryFrame, <1>Parts, Zenon DEF PopRestore
  <2> QED
    BY <2>1, <2>2, <2>3, <1>Parts, Zenon
\* Worker::pop, LIFO.
<1>PopLifo. ASSUME NEW c \in Cpus, PopDec(c) \/ PopCheck(c) \/ PopCas(c) \/ PopUndo(c)
      PROVE  TypeOK'
  <2> USE <1>PopLifo
  <2> USE <1>Now
  <2>0. /\ front[c] \in Int /\ back[c] \in Int /\ buffer[c] \in Bufs /\ loc[c] \in LocType
        /\ loc[c].task \in Tasks \cup {Nil}
    BY Zenon DEF MemoryOK, ControlOK, LocType
  <2>a. ASSUME NEW l, NEW p \in {"pop_check", "pop_cas", "pop_undo"} PROVE p \in Pcs /\ LocOK(p, l)
    BY Zenon DEF Pcs, LocOK, PushPcs, PopPcs, StealPcs, DerefPcs, ResizePcs
  <2>1. ASSUME PopDec(c) PROVE TypeOK'
    <3>1. MemoryOK'
      BY <2>0, <2>1, <1>MemoryFrame, <1>Ends DEF PopDec, memory
    <3>2. ControlOK'
      BY <2>1, <2>a, <1>GotoStep, Zenon DEF PopDec
    <3> QED
      BY <2>1, <3>1, <3>2, <1>HistoryFrame, <1>Parts, Zenon DEF PopDec
  <2>2. ASSUME PopCheck(c) PROVE TypeOK'
    <3>1. MemoryOK'
      BY <2>2, <1>MemoryFrame, <1>Ends, Zenon DEF PopCheck, queues, memory
    <3>2. CASE back[c] - front[c] < 0
      <4>1. HistoryOK'
        BY <2>0, <2>2, <3>2 DEF PopCheck, HistoryOK
      <4>2. Goto(c, "pop_undo") /\ UNCHANGED loc
        BY <2>0, <2>2, <3>2 DEF PopCheck
      <4> QED
        BY <2>a, <3>1, <4>1, <4>2, <1>GotoStep, <1>Parts, Zenon
    <3>3. CASE back[c] - front[c] = 0
      <4>1. HistoryOK'
        BY <2>0, <2>2, <3>3 DEF PopCheck, HistoryOK
      <4>2. PICK l : l = LastLoc(loc[c], front[c], At(buffer[c], back[c]))
        BY Zenon
      <4>3. l \in LocType
        BY <2>0, <4>2, <1>AtType, <1>LastLocType, Zenon
      <4>4. /\ pc' = [pc EXCEPT ![c] = "pop_cas"]
            /\ loc' = [loc EXCEPT ![c].f = front[c], ![c].task = At(buffer[c], back[c])]
        BY <2>0, <2>2, <3>3 DEF PopCheck, Goto
      <4>5. loc' = [loc EXCEPT ![c] = l]
        BY <4>2, <4>4, Zenon DEF LastLoc, ControlOK
      <4> QED
        BY <2>a, <3>1, <4>1, <4>3, <4>4, <4>5, <1>ControlStep, <1>Parts, Zenon
    <3>4. CASE back[c] - front[c] > 0
      <4>1. PICK t \in Tasks \cup {Nil} : Take(t)
        BY <2>0, <2>2, <3>4, <1>AtType DEF PopCheck
      <4>2. HistoryOK'
        BY <2>2, <4>1, <1>HistoryTake, Zenon DEF PopCheck, HistoryOK
      <4>3. PopReturn(c, back[c] - front[c] < cap[buffer[c]] \div 4)
        BY <2>0, <2>2, <3>4 DEF PopCheck
      <4> QED
        BY <3>1, <4>2, <4>3, <1>PopReturn, <1>Parts, Zenon DEF PopReturn
    <3> QED
      BY <2>0, <3>2, <3>3, <3>4, <1>Parts, SMTT(30)
  <2>3. ASSUME PopCas(c) PROVE TypeOK'
    <3>1. MemoryOK'
      BY <2>0, <2>3, <1>MemoryFrame, <1>Ends DEF PopCas, memory
    <3>2. ControlOK'
      BY <2>3, <2>a, <1>GotoStep, Zenon DEF PopCas
    <3>3. HistoryOK'
      BY <2>0, <2>3, <1>HistoryTake, Zenon DEF PopCas, HistoryOK
    <3> QED
      BY <3>1, <3>2, <3>3, <1>Parts, Zenon
  <2>4. ASSUME PopUndo(c) PROVE TypeOK'
    <3>1. MemoryOK'
      BY <2>0, <2>4, <1>MemoryFrame, <1>Ends DEF PopUndo, memory
    <3> QED
      BY <2>4, <3>1, <1>ReturnStep, <1>HistoryFrame, <1>Parts, Zenon DEF PopUndo
  <2> QED
    BY <2>1, <2>2, <2>3, <2>4, <1>Parts, Zenon
\* Worker::resize: the copy is a function on the new buffer's slots.
<1>ResizeCopy. ASSUME NEW c \in Cpus, ResizeCopy(c)
      PROVE  TypeOK'
  <2> USE <1>ResizeCopy
  <2> USE <1>Now
  <2>1. /\ loc[c] \in LocType /\ LocOK("resize", loc[c]) /\ loc[c].ncap \in Nat
        /\ front[c] \in Int /\ back[c] \in Int /\ buffer[c] \in Bufs
    BY DEF ResizeCopy, ControlOK, MemoryOK, LocType
  <2>2. loc[c].ncap > 0
    BY <2>1, Zenon DEF LocOK, ResizePcs
  <2>3. PICK k \in Nat : k = loc[c].ncap /\ k > 0
    BY <2>1, <2>2, Zenon
  <2>4. PICK nb \in Bufs \ InUse :
          /\ cap' = [cap EXCEPT ![nb] = k]
          /\ slot' = [slot EXCEPT ![nb] =
               [j \in 0..(k - 1) |-> LET i == front[c] + ((j - front[c]) % k)
                                     IN  IF i < back[c] THEN At(buffer[c], i) ELSE Nil]]
          /\ loc' = [loc EXCEPT ![c].nbuf = nb]
    BY <2>3, Zenon DEF ResizeCopy
  <2>5. \A j \in 0..(k - 1) : front[c] + ((j - front[c]) % k) \in Int
    BY <2>1, <2>3
  <2>6. PICK new \in [0..(k - 1) -> Tasks \cup {Nil}] : slot' = [slot EXCEPT ![nb] = new]
    BY <2>1, <2>4, <2>5, <1>AtType, Zenon
  <2>7. MemoryOK'
    <3>1. \A b \in Bufs : slot'[b] \in [0..(cap'[b] - 1) -> Tasks \cup {Nil}]
      BY <2>3, <2>4, <2>6, Zenon DEF MemoryOK
    <3> QED
      <4>1. UNCHANGED <<front, back, buffer, garbage, pinned>>
        BY Zenon DEF ResizeCopy, queues
      <4>2. DOMAIN slot' = Bufs
        BY <2>6, Zenon DEF MemoryOK
      <4>3. k \in Nat \ {0}
        BY <2>3
      <4>4. cap' \in [Bufs -> Nat \ {0}]
        BY <2>4, <4>3, Zenon DEF MemoryOK
      <4> QED
        BY <3>1, <4>1, <4>2, <4>4, Zenon DEF MemoryOK
  <2>8. PICK l : l = [loc[c] EXCEPT !.nbuf = nb]
    BY Zenon
  <2>9. /\ l \in LocType /\ l.nbuf = nb /\ l.ncap = loc[c].ncap /\ l.ret = loc[c].ret
        /\ l.op = loc[c].op /\ l.src = loc[c].src /\ l.task = loc[c].task
    BY <2>1, <2>8, Zenon DEF LocType
  <2>10. pc' = [pc EXCEPT ![c] = "resize_swap"] /\ loc' = [loc EXCEPT ![c] = l]
    BY <2>4, <2>8, Zenon DEF ResizeCopy, Goto
  <2>11. "resize_swap" \in Pcs /\ LocOK("resize_swap", l)
    BY <2>1, <2>9, Zenon DEF Pcs, LocOK, PushPcs, StealPcs, DerefPcs, ResizePcs
  <2>12. HistoryOK'
    BY <1>HistoryFrame, Zenon DEF ResizeCopy
  <2> QED
    BY <2>7, <2>9, <2>10, <2>11, <2>12, <1>ControlStep, <1>Parts, Zenon
\* Worker::resize: the swap.
<1>ResizeSwap. ASSUME NEW c \in Cpus, ResizeSwap(c)
      PROVE  TypeOK'
  <2> USE <1>ResizeSwap
  <2> USE <1>Now
  <2>1. loc[c] \in LocType /\ LocOK("resize_swap", loc[c]) /\ loc[c].ret \in Rets
    BY Zenon DEF ResizeSwap, ControlOK, LocType
  <2>2. loc[c].nbuf \in Bufs
    BY <2>1, Zenon DEF LocOK
  <2>3. MemoryOK'
    BY <2>2 DEF MemoryOK, ResizeSwap, Retire
  <2>4. HistoryOK'
    BY <1>HistoryFrame, Zenon DEF ResizeSwap
  <2>5. CASE loc[c].ret = "idle"
    BY <2>3, <2>4, <2>5, <1>ReturnStep, <1>Parts, Zenon DEF ResizeSwap, Return
  <2>6. CASE loc[c].ret # "idle"
    <3>1. PICK l : l = ClearLoc(loc[c])
      BY Zenon
    <3>2. l \in LocType /\ l.op = loc[c].op /\ l.src = loc[c].src /\ l.task = loc[c].task
      BY <2>1, <3>1, <1>ClearLocType, Zenon
    <3>3. pc' = [pc EXCEPT ![c] = loc[c].ret] /\ loc' = [loc EXCEPT ![c] = l]
      BY <2>6, <3>1, Zenon DEF ResizeSwap, ClearLoc, Goto
    <3>4. PICK p \in Pcs : p = loc[c].ret
      BY <2>1, Zenon DEF Rets, Pcs, PushPcs, StealPcs
    <3>5. LocOK(p, l)
      BY <2>1, <2>6, <3>2, <3>4, Zenon DEF Rets, LocOK, PushPcs, StealPcs, DerefPcs, ResizePcs
    <3> QED
      BY <2>3, <2>4, <3>2, <3>3, <3>4, <3>5, <1>ControlStep, <1>Parts, Zenon
  <2> QED
    BY <2>5, <2>6, <1>Parts, Zenon
\* The locals a steal relies on at its program counter p.
<1>StealLocals. ASSUME NEW c \in Cpus, pc[c] \in StealPcs
      PROVE  /\ loc[c] \in LocType /\ loc[c].op \in StealOps /\ loc[c].src \in Cpus
             /\ loc[c].f \in Int /\ loc[c].n \in Int /\ loc[c].i \in Int
             /\ loc[c].task \in Tasks \cup {Nil} /\ loc[c].held \in Tasks \cup {Nil}
             /\ pc[c] \in DerefPcs => loc[c].buf \in Bufs
    BY <1>StealLocals, Zenon DEF TypeOK, LocType, LocOK
\* A step of a steal leaves its locals in order for any later program counter
\* before the publication.
<1>StealControl. ASSUME NEW l \in LocType, NEW p \in StealPcs, l.op \in StealOps,
                        l.src \in Cpus, p \in DerefPcs => l.buf \in Bufs,
                        p \in {"put", "reload", "publish"} => l.op # "steal"
      PROVE  p \in Pcs /\ LocOK(p, l)
    BY <1>StealControl, Zenon DEF Pcs, LocOK, PushPcs, StealPcs, DerefPcs, ResizePcs
\* Stealing starts, up to the load of the source's buffer.
<1>StealStart. ASSUME NEW c \in Cpus,
                      \/ \E s \in Cpus, op \in StealOps : StealBegin(c, s, op)
                      \/ LoadBack(c) \/ Reserve(c) \/ LoadBuf(c)
      PROVE  TypeOK'
  <2> USE <1>StealStart
  <2> USE <1>Now
  <2>1. ASSUME NEW s \in Cpus, NEW op \in StealOps, StealBegin(c, s, op) PROVE TypeOK'
    <3>1. MemoryOK' /\ HistoryOK'
      BY <2>1, <1>MemoryFrame, <1>Ends, <1>HistoryFrame, Zenon DEF StealBegin, queues, memory
    <3>2. PICK l : l = StealLoc(op, s, front[s])
      BY Zenon
    <3>3. front[s] \in Int
      BY Zenon DEF MemoryOK
    <3>4. l \in LocType /\ l.op = op /\ l.src = s
      BY <3>2, <3>3, <1>StealLocType
    <3>5. pc' = [pc EXCEPT ![c] = "load_back"] /\ loc' = [loc EXCEPT ![c] = l]
      BY <2>1, <3>2, Zenon DEF StealBegin, StealLoc, Goto
    <3>6. "load_back" \in Pcs /\ LocOK("load_back", l)
      BY <3>4, <1>StealControl, Zenon DEF StealPcs, DerefPcs
    <3> QED
      BY <3>1, <3>4, <3>5, <3>6, <1>ControlStep, <1>Parts, Zenon
  <2>2. ASSUME LoadBack(c) PROVE TypeOK'
    <3>0. pc[c] \in StealPcs
      BY <2>2, Zenon DEF LoadBack, StealPcs
    <3>1. MemoryOK' /\ HistoryOK'
      BY <2>2, <1>HistoryFrame, Zenon DEF LoadBack, MemoryOK, queues
    <3>2. back[Src(c)] - loc[c].f \in Int
      <4>1. loc[c].src \in Cpus /\ loc[c].f \in Int
        BY <3>0, <1>StealLocals, Zenon
      <4>2. back \in [Cpus -> Int]
        BY Zenon DEF MemoryOK
      <4> QED
        BY <4>1, <4>2 DEF Src
    <3>3. CASE back[Src(c)] - loc[c].f <= 0
      <4>1. Return(c)
        <5>1. ~(back[Src(c)] - loc[c].f > 0)
          BY <3>2, <3>3
        <5> QED
          BY <2>2, <5>1, Zenon DEF LoadBack
      <4> QED
        BY <3>1, <4>1, <1>ReturnStep, <1>Parts, Zenon
    <3>4. CASE back[Src(c)] - loc[c].f > 0
      <4>1. PICK n \in Int : n = BatchSize(loc[c].op, back[Src(c)] - loc[c].f)
        BY <3>0, <3>2, <1>StealLocals, ConstAssumption DEF BatchSize, Keep, StealOps
      <4>2. PICK l : l = [loc[c] EXCEPT !.n = n]
        BY Zenon
      <4>3. l \in LocType /\ l.op = loc[c].op /\ l.src = loc[c].src
        BY <3>0, <4>2, <1>StealLocals DEF LocType
      <4>4. PICK p \in {"reserve", "load_buf"} : Goto(c, p)
        BY <2>2, <3>2, <3>4 DEF LoadBack
      <4>5. pc' = [pc EXCEPT ![c] = p] /\ loc' = [loc EXCEPT ![c] = l]
        BY <2>2, <3>2, <3>4, <4>1, <4>2, <4>4 DEF LoadBack, Goto
      <4>6. p \in Pcs /\ LocOK(p, l)
        BY <3>0, <4>3, <1>StealLocals, <1>StealControl, Zenon DEF StealPcs, DerefPcs
      <4> QED
        BY <3>1, <4>3, <4>5, <4>6, <1>ControlStep, <1>Parts, Zenon
    <3> QED
      BY <3>2, <3>3, <3>4, <1>Parts
  <2>3. ASSUME Reserve(c) PROVE TypeOK'
    <3>0. pc[c] \in StealPcs
      BY <2>3, Zenon DEF Reserve, StealPcs
    <3>1. MemoryOK' /\ HistoryOK'
      BY <2>3, <1>MemoryFrame, <1>Ends, <1>HistoryFrame, Zenon DEF Reserve, queues, memory
    <3>2. CASE MustGrow(c, loc[c].n)
      <4>0. PICK n \in Nat \ {0} : n = cap[buffer[c]]
        <5>1. buffer \in [Cpus -> Bufs] /\ cap \in [Bufs -> Nat \ {0}]
          BY Zenon DEF MemoryOK
        <5> QED
          BY <5>1, Zenon
      <4>1. PICK k \in Nat : k = 2 * cap[buffer[c]] /\ k > 0
        BY <4>0, SMTT(30)
      <4>2. CallResize(c, loc[c], k, "load_buf")
        BY <2>3, <3>2, <4>1, Zenon DEF Reserve
      <4>3. PICK l \in LocType : l = loc[c] /\ l.op \in StealOps /\ l.src \in Cpus
        BY <3>0, <1>StealLocals, Zenon
      <4> QED
        BY <3>1, <4>1, <4>2, <4>3, <1>CallStep, <1>Parts, Zenon DEF Rets
    <3>3. CASE ~MustGrow(c, loc[c].n)
      <4>1. "load_buf" \in Pcs /\ LocOK("load_buf", loc[c])
        BY <3>0, <1>StealLocals, <1>StealControl, Zenon DEF StealPcs, DerefPcs
      <4> QED
        BY <2>3, <3>1, <3>3, <4>1, <1>GotoStep, <1>Parts, Zenon DEF Reserve
    <3> QED
      BY <3>2, <3>3, <1>Parts, Zenon
  <2>4. ASSUME LoadBuf(c) PROVE TypeOK'
    <3>0. pc[c] \in StealPcs
      BY <2>4, Zenon DEF LoadBuf, StealPcs
    <3>1. MemoryOK' /\ HistoryOK'
      BY <2>4, <1>MemoryFrame, <1>Ends, <1>HistoryFrame, Zenon DEF LoadBuf, queues, memory
    <3>2. PICK b \in Bufs : b = buffer[Src(c)]
      BY <3>0, <1>StealLocals, Zenon DEF MemoryOK, Src
    <3>3. PICK l : l = [loc[c] EXCEPT !.buf = b]
      BY Zenon
    <3>4. l \in LocType /\ l.op = loc[c].op /\ l.src = loc[c].src /\ l.buf = b
      BY <3>0, <3>3, <1>StealLocals DEF LocType
    <3>5. PICK p \in {"read", "copy"} : Goto(c, p)
      BY <2>4, Zenon DEF LoadBuf
    <3>6. pc' = [pc EXCEPT ![c] = p] /\ loc' = [loc EXCEPT ![c] = l]
      BY <2>4, <3>2, <3>3, <3>5, Zenon DEF LoadBuf, Goto
    <3>7. p \in Pcs /\ LocOK(p, l)
      BY <3>0, <3>4, <1>StealLocals, <1>StealControl, Zenon DEF StealPcs, DerefPcs
    <3> QED
      BY <3>1, <3>4, <3>6, <3>7, <1>ControlStep, <1>Parts, Zenon
  <2> QED
    BY <2>1, <2>2, <2>3, <2>4, <1>Parts, Zenon
\* A steal that gives up, whether it publishes what it has or nothing.
<1>GiveUp. ASSUME NEW c \in Cpus, pc[c] \in DerefPcs,
                  GiveUp(c) \/ (StopBatch(c) /\ loc[c].op # "steal")
      PROVE  /\ ControlOK'
             /\ pinned' \subseteq Cpus /\ garbage' \subseteq [buf : Bufs, waits : SUBSET Cpus]
  <2> USE <1>GiveUp
  <2> USE <1>Now
  <2>0. pc[c] \in StealPcs
    BY Zenon DEF StealPcs
  <2>1. CASE StopBatch(c) /\ loc[c].op # "steal"
    <3>1. PICK n \in Int : n = loc[c].i - Keep(loc[c].op)
      BY <2>0, <1>StealLocals DEF Keep
    <3>2. PICK l : l = [loc[c] EXCEPT !.n = n]
      BY Zenon
    <3>3. l \in LocType /\ l.op = loc[c].op /\ l.src = loc[c].src /\ l.buf = loc[c].buf
      BY <2>0, <3>2, <1>StealLocals DEF LocType
    <3>4. pc' = [pc EXCEPT ![c] = "publish"] /\ loc' = [loc EXCEPT ![c] = l]
      BY <2>1, <3>1, <3>2, Zenon DEF StopBatch, Goto
    <3>5. "publish" \in Pcs /\ LocOK("publish", l)
      BY <2>0, <2>1, <3>3, <1>StealLocals, <1>StealControl, Zenon DEF StealPcs, DerefPcs
    <3> QED
      BY <2>1, <3>3, <3>4, <3>5, <1>ControlStep, Zenon DEF StopBatch, MemoryOK
  <2>2. CASE Retry(c)
    BY <2>2, <1>ReturnStep, <1>UnpinType, Zenon DEF Retry
  <2> QED
    BY <2>1, <2>2, Zenon DEF GiveUp, OneByOne
\* Reading and copying tasks of the source.
<1>Read. ASSUME NEW c \in Cpus, Read(c) \/ Copy(c)
      PROVE  TypeOK'
  <2> USE <1>Read
  <2> USE <1>Now
  <2>0. pc[c] \in StealPcs /\ pc[c] \in DerefPcs
    BY Zenon DEF Read, Copy, StealPcs, DerefPcs
  <2>1. ASSUME Read(c) PROVE TypeOK'
    <3>1. MemoryOK' /\ HistoryOK'
      BY <2>1, <1>MemoryFrame, <1>Ends, <1>HistoryFrame, Zenon DEF Read, queues, memory
    <3>2. PICK t \in Tasks \cup {Nil} : t = At(loc[c].buf, loc[c].f)
      BY <2>0, <1>StealLocals, <1>AtType, Zenon
    <3>3. PICK l : l = [loc[c] EXCEPT !.task = t]
      BY Zenon
    <3>4. l \in LocType /\ l.op = loc[c].op /\ l.src = loc[c].src /\ l.buf = loc[c].buf
      BY <2>0, <3>3, <1>StealLocals DEF LocType
    <3>5. PICK p \in {"cas", "copy", "check"} : Goto(c, p)
      BY <2>1, Zenon DEF Read
    <3>6. pc' = [pc EXCEPT ![c] = p] /\ loc' = [loc EXCEPT ![c] = l]
      BY <2>1, <3>2, <3>3, <3>5, Zenon DEF Read, Goto
    <3>7. p \in Pcs /\ LocOK(p, l)
      BY <2>0, <3>4, <1>StealLocals, <1>StealControl, Zenon DEF StealPcs, DerefPcs
    <3> QED
      BY <3>1, <3>4, <3>6, <3>7, <1>ControlStep, <1>Parts, Zenon
  <2>2. ASSUME Copy(c) PROVE TypeOK'
    <3>1. PICK t \in Tasks \cup {Nil} : t = At(loc[c].buf, loc[c].f + Keep(loc[c].op) + loc[c].i)
      BY <2>0, <1>StealLocals, <1>AtType DEF Keep
    <3>2. PICK j \in Int : j = back[c] + CopyTo(c, loc[c].i)
      <4>1. back[c] \in Int /\ loc[c].n \in Int /\ loc[c].i \in Int
        BY <2>0, <1>StealLocals, Zenon DEF MemoryOK
      <4> QED
        BY <4>1 DEF CopyTo
    <3>3. slot' = SlotWrite(buffer[c], j, t)
      BY <2>2, <3>1, <3>2, Zenon DEF Copy
    <3>4. MemoryOK'
      <4>1. UNCHANGED <<front, back, buffer, cap, garbage, pinned>> /\ buffer[c] \in Bufs
        BY <2>2, Zenon DEF Copy, queues, MemoryOK
      <4> QED
        BY <3>3, <4>1, <1>MemoryWrite, Zenon
    <3>5. PICK l : l = [loc[c] EXCEPT !.i = loc[c].i + 1]
      BY Zenon
    <3>6. l \in LocType /\ l.op = loc[c].op /\ l.src = loc[c].src /\ l.buf = loc[c].buf
      BY <2>0, <3>5, <1>StealLocals DEF LocType
    <3>7. PICK p \in {"copy", "check"} : Goto(c, p)
      BY <2>2, Zenon DEF Copy
    <3>8. pc' = [pc EXCEPT ![c] = p] /\ loc' = [loc EXCEPT ![c] = l]
      BY <2>2, <3>5, <3>7, Zenon DEF Copy, Goto
    <3>9. p \in Pcs /\ LocOK(p, l)
      BY <2>0, <3>6, <1>StealLocals, <1>StealControl, Zenon DEF StealPcs, DerefPcs
    <3> QED
      BY <2>2, <3>4, <3>6, <3>8, <3>9, <1>ControlStep, <1>HistoryFrame, <1>Parts, Zenon DEF Copy
  <2> QED
    BY <2>1, <2>2, <1>Parts, Zenon
\* The comparison of the buffer and the failing compare-exchange.
<1>Check. ASSUME NEW c \in Cpus, Check(c) \/ CasFail(c)
      PROVE  TypeOK'
  <2> USE <1>Check
  <2> USE <1>Now
  <2>0. pc[c] \in StealPcs /\ pc[c] \in DerefPcs
    BY Zenon DEF Check, CasFail, StealPcs, DerefPcs
  <2>1. HistoryOK'
    BY <1>HistoryFrame, Zenon DEF Check, CasFail
  <2>2. CASE GiveUp(c)
    <3>1. MemoryOK'
      BY <2>0, <2>2, <1>GiveUp, Zenon DEF Check, CasFail, MemoryOK, queues
    <3> QED
      BY <2>0, <2>1, <2>2, <3>1, <1>GiveUp, <1>Parts, Zenon
  <2>3. CASE Check(c) /\ ~GiveUp(c)
    <3>1. MemoryOK'
      BY <2>3, <1>MemoryFrame, <1>Ends, Zenon DEF Check, queues
    <3>2. "cas" \in Pcs /\ LocOK("cas", loc[c])
      BY <2>0, <1>StealLocals, <1>StealControl, Zenon DEF StealPcs, DerefPcs
    <3> QED
      BY <2>1, <2>3, <3>1, <3>2, <1>GotoStep, <1>Parts, Zenon DEF Check
  <2> QED
    BY <2>2, <2>3, <1>Parts, Zenon DEF CasFail
\* What a thief copied is a sequence of tasks.
<1>CopiedType. ASSUME NEW c \in Cpus, pc[c] \in StealPcs
      PROVE  Copied(c) \in Seq(Tasks \cup {Nil})
  <2> USE <1>CopiedType
  <2> USE <1>Now
  <2>1. PICK n \in Nat : 1..loc[c].n = 1..n
    <3>1. CASE loc[c].n \in Nat
      BY <3>1, Zenon
    <3>2. CASE loc[c].n < 0
      <4>1. 1..loc[c].n = 1..0
        BY <3>2, <1>StealLocals
      <4> QED
        BY <4>1, Zenon
    <3> QED
      BY <3>1, <3>2, <1>StealLocals
  <2>2. \A j \in 1..n : back[c] + CopyTo(c, j - 1) \in Int
    <3>1. back[c] \in Int /\ loc[c].n \in Int
      BY <1>StealLocals, Zenon DEF MemoryOK
    <3> QED
      BY <3>1 DEF CopyTo
  <2>3. PICK q : q = [j \in 1..loc[c].n |-> At(buffer[c], back[c] + CopyTo(c, j - 1))]
    BY Zenon
  <2>4. q \in [1..n -> Tasks \cup {Nil}]
    BY <2>1, <2>2, <2>3, <1>AtType, Zenon DEF MemoryOK
  <2>5. q \in Seq(Tasks \cup {Nil})
    BY <2>4
  <2>6. PICK h \in Seq(Tasks \cup {Nil}) : h = IF Keep(loc[c].op) = 1 THEN <<loc[c].task>> ELSE <<>>
    <3>1. <<loc[c].task>> \in Seq(Tasks \cup {Nil}) /\ <<>> \in Seq(Tasks \cup {Nil})
      BY <1>StealLocals
    <3> QED
      BY <3>1, Zenon
  <2>7. h \o q \in Seq(Tasks \cup {Nil})
    BY <2>5, <2>6
  <2> QED
    BY <2>3, <2>6, <2>7, Zenon DEF Copied
\* The successful compare-exchanges.
<1>Cas. ASSUME NEW c \in Cpus, CasSteal(c) \/ CasBatch(c) \/ CasOne(c)
      PROVE  TypeOK'
  <2> USE <1>Cas
  <2> USE <1>Now
  <2>0. pc[c] = "cas" /\ pc[c] \in StealPcs /\ pc[c] \in DerefPcs
    BY Zenon DEF CasSteal, CasBatch, CasOne, StealPcs, DerefPcs
  <2>1. front[Src(c)] \in Int /\ loc[c].n \in Int /\ Src(c) \in Cpus
    BY <2>0, <1>StealLocals, Zenon DEF MemoryOK, Src
  <2>2. ASSUME CasSteal(c) PROVE TypeOK'
    <3>1. MemoryOK'
      <4>1. front \in [Cpus -> Int]
        BY Zenon DEF MemoryOK
      <4>2. front' \in [Cpus -> Int]
        BY <2>1, <2>2, <4>1 DEF CasSteal
      <4>3. Unpin(c) /\ UNCHANGED <<back, buffer, cap, slot>>
        BY <2>2, Zenon DEF CasSteal
      <4> QED
        BY <4>2, <4>3, <1>MemoryUnpin, Zenon
    <3>2. HistoryOK'
      BY <2>0, <2>2, <1>HistoryTake, <1>StealLocals, Zenon DEF CasSteal, HistoryOK
    <3> QED
      BY <2>2, <3>1, <3>2, <1>ReturnStep, <1>Parts, Zenon DEF CasSteal
  <2>3. ASSUME CasBatch(c) PROVE TypeOK'
    <3>1. front' \in [Cpus -> Int]
      BY <2>1, <2>3, <1>Ends DEF CasBatch, Keep
    <3>2. MemoryOK'
      BY <2>3, <3>1, <1>MemoryFrame, <1>Ends, Zenon DEF CasBatch, memory
    <3>3. HistoryOK'
      BY <2>0, <2>3, <1>CopiedType, Zenon DEF CasBatch, HistoryOK
    <3>4. "publish" \in Pcs /\ LocOK("publish", loc[c])
      BY <2>0, <2>3, <1>StealLocals, <1>StealControl, Zenon DEF StealPcs, DerefPcs, CasBatch
    <3> QED
      BY <2>3, <3>2, <3>3, <3>4, <1>GotoStep, <1>Parts, Zenon DEF CasBatch
  <2>4. ASSUME CasOne(c) PROVE TypeOK'
    <3>1. MemoryOK'
      BY <2>1, <2>4, <1>MemoryFrame, <1>Ends DEF CasOne, memory
    <3>2. HistoryOK'
      BY <2>0, <2>4, <1>StealLocals DEF CasOne, HistoryOK
    <3>3. PICK l : l = StolenLoc(loc[c])
      BY Zenon
    <3>4. l \in LocType /\ l.op = loc[c].op /\ l.src = loc[c].src /\ l.buf = loc[c].buf
      BY <2>0, <3>3, <1>StealLocals, <1>StolenLocType, Zenon
    <3>5. loc' = [loc EXCEPT ![c] = l]
      BY <2>4, <3>3, Zenon DEF CasOne, StolenLoc, ControlOK
    <3>6. "put" \in Pcs /\ LocOK("put", l)
      BY <2>0, <2>4, <3>4, <1>StealLocals, <1>StealControl, Zenon DEF StealPcs, DerefPcs, CasOne, OneByOne
    <3> QED
      BY <2>4, <3>1, <3>2, <3>4, <3>5, <3>6, <1>ControlStep, <1>Parts, Zenon DEF CasOne, Goto
  <2> QED
    BY <2>2, <2>3, <2>4, <1>Parts, Zenon
\* The rest of the one-by-one loop.
<1>Loop. ASSUME NEW c \in Cpus, Put(c) \/ Reload(c)
      PROVE  TypeOK'
  <2> USE <1>Loop
  <2> USE <1>Now
  <2>0. /\ pc[c] \in StealPcs /\ pc[c] \in DerefPcs /\ loc[c].op # "steal"
        /\ back[c] \in Int /\ buffer[c] \in Bufs
    BY Zenon DEF Put, Reload, StealPcs, DerefPcs, ControlOK, LocOK, MemoryOK
  <2>1. HistoryOK'
    BY <1>HistoryFrame, Zenon DEF Put, Reload
  <2>2. ASSUME Put(c) PROVE TypeOK'
    <3>1. PICK j \in Int, t \in Tasks \cup {Nil} :
            slot' = SlotWrite(buffer[c], j, t) \/ slot' = slot
      <4>1. back[c] + loc[c].i - 1 \in Int /\ back[c] + loc[c].i - 2 \in Int
        BY <2>0, <1>StealLocals
      <4> QED
        BY <2>0, <2>2, <4>1, <1>StealLocals, Zenon DEF Put
    <3>2. MemoryOK'
      BY <2>0, <2>2, <3>1, <1>MemoryWrite, <1>MemoryFrame, <1>Ends, Zenon DEF Put, queues
    <3>3. PICK l : l = [loc[c] EXCEPT !.held = loc[c].task]
      BY Zenon
    <3>4. l \in LocType /\ l.op = loc[c].op /\ l.src = loc[c].src /\ l.buf = loc[c].buf
      BY <2>0, <3>3, <1>StealLocals DEF LocType
    <3>5. PICK p \in {"publish", "reload"} : Goto(c, p)
      BY <2>2, Zenon DEF Put
    <3>6. pc' = [pc EXCEPT ![c] = p] /\ loc' = [loc EXCEPT ![c] = l]
      BY <2>2, <3>3, <3>5, Zenon DEF Put, Goto
    <3>7. p \in Pcs /\ LocOK(p, l)
      BY <2>0, <3>4, <1>StealLocals, <1>StealControl, Zenon DEF StealPcs, DerefPcs
    <3> QED
      BY <2>1, <3>2, <3>4, <3>6, <3>7, <1>ControlStep, <1>Parts, Zenon
  <2>3. ASSUME Reload(c) PROVE TypeOK'
    <3>1. CASE StopBatch(c)
      <4>1. /\ ControlOK' /\ pinned' \subseteq Cpus
            /\ garbage' \subseteq [buf : Bufs, waits : SUBSET Cpus]
        BY <2>0, <2>1, <3>1, <1>GiveUp, Zenon
      <4>2. UNCHANGED <<front, back, buffer, cap, slot>> /\ HistoryOK'
        BY <2>3, <3>1, <1>HistoryFrame, Zenon DEF Reload, StopBatch, queues
      <4>3. MemoryOK'
        BY <4>1, <4>2, Zenon DEF MemoryOK
      <4> QED
        BY <4>1, <4>2, <4>3, <1>Parts, Zenon
    <3>2. CASE ~StopBatch(c)
      <4>1. MemoryOK'
        BY <2>3, <3>2, <1>MemoryFrame, <1>Ends, Zenon DEF Reload, queues
      <4>2. "read" \in Pcs /\ LocOK("read", loc[c])
        BY <2>0, <1>StealLocals, <1>StealControl, Zenon DEF StealPcs, DerefPcs
      <4> QED
        BY <2>1, <2>3, <3>2, <4>1, <4>2, <1>GotoStep, <1>Parts, Zenon DEF Reload
    <3> QED
      BY <3>1, <3>2, <1>Parts, Zenon
  <2> QED
    BY <2>2, <2>3, <1>Parts, Zenon
\* The publication of a stolen batch.
<1>Publish. ASSUME NEW c \in Cpus, Publish(c)
      PROVE  TypeOK'
  <2> USE <1>Publish
  <2> USE <1>Now
  <2>0. /\ pc[c] \in StealPcs /\ loc[c].op \in {"batch", "batchpop"}
        /\ back[c] \in Int /\ buffer[c] \in Bufs
        /\ cap[buffer[c]] \in Nat \ {0} /\ loc[c].n \in Int
        /\ slot[buffer[c]] \in [0..(cap[buffer[c]] - 1) -> Tasks \cup {Nil}]
    BY <1>StealLocals, Zenon DEF Publish, StealPcs, DerefPcs, ControlOK, LocOK, MemoryOK, StealOps
  <2>1. /\ DOMAIN slot' = Bufs
        /\ \A b \in Bufs : slot'[b] \in [0..(cap[b] - 1) -> Tasks \cup {Nil}]
    <3>1. CASE slot' = slot
      BY <3>1, Zenon DEF MemoryOK
    <3>2. CASE slot' = Reversed(buffer[c], back[c], loc[c].n)
      <4> DEFINE J(k) == (k - back[c]) % cap[buffer[c]]
                 New(k) == IF J(k) < loc[c].n THEN At(buffer[c], back[c] + loc[c].n - 1 - J(k))
                           ELSE slot[buffer[c]][k]
      <4>1. ASSUME NEW k \in 0..(cap[buffer[c]] - 1) PROVE New(k) \in Tasks \cup {Nil}
        <5>0. back[c] \in Int /\ loc[c].n \in Int /\ cap[buffer[c]] \in Nat \ {0}
          BY <2>0, Zenon
        <5>1. J(k) \in Int
          BY <5>0
        <5>2. back[c] + loc[c].n - 1 - J(k) \in Int
          BY <5>0, <5>1
        <5> QED
          BY <2>0, <5>2, <1>AtType, Zenon
      <4>2. slot' = [slot EXCEPT ![buffer[c]] = [k \in 0..(cap[buffer[c]] - 1) |-> New(k)]]
        BY <2>0, <3>2, Zenon DEF Reversed, MemoryOK
      <4>3. PICK new \in [0..(cap[buffer[c]] - 1) -> Tasks \cup {Nil}] :
              slot' = [slot EXCEPT ![buffer[c]] = new]
        BY <4>1, <4>2, Zenon
      <4> QED
        BY <4>3, Zenon DEF MemoryOK
    <3> QED
      BY <3>1, <3>2, Zenon DEF Publish
  <2>2. MemoryOK'
    <3>1. back' \in [Cpus -> Int] /\ UNCHANGED <<front, buffer, cap>>
      BY <2>0 DEF Publish, MemoryOK
    <3>2. pinned' \subseteq Cpus /\ garbage' \subseteq [buf : Bufs, waits : SUBSET Cpus]
      BY <1>UnpinType, Zenon DEF Publish
    <3> QED
      BY <2>1, <3>1, <3>2, Zenon DEF MemoryOK
  <2>3. stolen' \in [Cpus -> Seq(Tasks \cup {Nil})]
    BY DEF Publish, HistoryOK
  <2>4. HistoryOK'
    <3>1. CASE loc[c].op = "batch"
      BY <2>3, <3>1, Zenon DEF Publish, HistoryOK
    <3>2. CASE loc[c].op = "batchpop"
      <4>1. PICK t \in Tasks \cup {Nil} : Take(t)
        BY <2>0, <3>2, <1>StealLocals, Zenon DEF Publish
      <4> QED
        BY <2>3, <4>1, <1>HistoryTake, Zenon DEF Publish
    <3> QED
      BY <2>0, <3>1, <3>2, Zenon
  <2> QED
    BY <2>2, <2>4, <1>ReturnStep, <1>Parts, Zenon DEF Publish
\* The collector frees a buffer.
<1>Collect. ASSUME Collect
      PROVE  TypeOK'
  <2> USE <1>Collect
  <2> USE <1>Now
  <2>1. PICK g \in garbage :
          /\ garbage' = garbage \ {g}
          /\ cap' = [cap EXCEPT ![g.buf] = MIN_CAP]
          /\ slot' = [slot EXCEPT ![g.buf] = [k \in 0..(MIN_CAP - 1) |-> Nil]]
    BY Zenon DEF Collect
  <2>2. g.buf \in Bufs
    BY Zenon DEF MemoryOK
  <2>3. \A b \in Bufs : slot'[b] \in [0..(cap'[b] - 1) -> Tasks \cup {Nil}]
    BY <2>1, <2>2, ConstAssumption, Zenon DEF MemoryOK
  <2>4. MemoryOK'
    BY <2>1, <2>2, <2>3, ConstAssumption, Zenon DEF MemoryOK, Collect, queues
  <2>5. ControlOK' /\ HistoryOK'
    BY <1>HistoryFrame, Zenon DEF Collect, ControlOK
  <2> QED
    BY <2>4, <2>5, <1>Parts, Zenon
<1>1. CASE UNCHANGED vars
  BY <1>1, Zenon DEF vars, TypeOK, MemoryOK, HistoryOK
<1>2. CASE Collect
  BY <1>2, <1>Collect, Zenon
<1>3. ASSUME NEW c \in Cpus, Worker(c) PROVE TypeOK'
  BY <1>3, <1>Push, <1>PopFifo, <1>PopLifo, <1>ResizeCopy, <1>ResizeSwap, Zenon DEF Worker
<1>4. ASSUME NEW c \in Cpus, Stealer(c) PROVE TypeOK'
  BY <1>4, <1>StealStart, <1>Read, <1>Check, <1>Cas, <1>Loop, <1>Publish, Zenon DEF Stealer
<1> QED
  BY <1>1, <1>2, <1>3, <1>4, Zenon DEF Next

\* In every behaviour of the worker queues every variable keeps its type, no
\* buffer has capacity zero and no operation of Worker or Stealer uses a local
\* it has not set.
THEOREM TypeCorrect == Spec => []TypeOK
  BY TypeInit, TypeNext, PTL DEF Spec

-----------------------------------------------------------------------------

\* A steal holds its guard from the load of the back index on, also while it
\* grows its own buffer.
Pinning(p, l) == p \in StealPcs \ {"load_back"} \/ (p \in ResizePcs /\ l.ret = "load_buf")

\* Buffer b of queue s is current, or cannot be freed before c unpins.
Protected(b, s, c) == b = buffer[s] \/ \E g \in garbage : g.buf = b /\ c \in g.waits

\* What a CPU may be holding.
HoldInv(c) ==
  /\ Pinning(pc[c], loc[c]) => c \in pinned
  /\ pc[c] \in DerefPcs => Protected(loc[c].buf, loc[c].src, c)

\* Every buffer has one role: current for one CPU, about to be installed by
\* one CPU, or retired once.
RoleInv ==
  /\ \A c, d \in Cpus : c # d => buffer[c] # buffer[d]
  /\ \A g \in garbage : \A c \in Cpus : g.buf # buffer[c]
  /\ \A g, h \in garbage : g.buf = h.buf => g = h
  /\ \A c \in Cpus : pc[c] = "resize_swap" =>
       /\ \A g \in garbage : g.buf # loc[c].nbuf
       /\ \A d \in Cpus : /\ buffer[d] # loc[c].nbuf
                          /\ pc[d] = "resize_swap" /\ d # c => loc[d].nbuf # loc[c].nbuf

\* The inductive invariant.
BufferInv == TypeOK /\ RoleInv /\ \A c \in Cpus : HoldInv(c)

\* The invariant implies what TLC checks.
LEMMA BufferSafe == BufferInv => SafeDeref
<1> SUFFICES ASSUME BufferInv PROVE SafeDeref
  BY Zenon
<1>1. ASSUME NEW c \in Cpus, pc[c] \in DerefPcs
      PROVE  /\ c \in pinned
             /\ \/ loc[c].buf = buffer[Src(c)]
                \/ \E g \in garbage : g.buf = loc[c].buf /\ c \in g.waits
  BY <1>1, Zenon DEF BufferInv, HoldInv, Protected, Pinning, StealPcs, DerefPcs, Src
<1> QED
  BY <1>1, Zenon DEF SafeDeref, BufferInv, RoleInv

\* Initially nothing is held or retired.
LEMMA BufferInit == Init => BufferInv
<1> SUFFICES ASSUME Init PROVE BufferInv
  BY Zenon
<1>1. RoleInv
  BY Zenon DEF Init, RoleInv
<1>2. \A c \in Cpus : HoldInv(c)
  BY Zenon DEF Init, HoldInv, Pinning, StealPcs, DerefPcs, ResizePcs
<1> QED
  BY <1>1, <1>2, TypeInit, Zenon DEF BufferInv

-----------------------------------------------------------------------------

\* A step of c leaves the program counters and locals of the others alone.
Others(c) == \A d \in Cpus \ {c} : pc'[d] = pc[d] /\ loc'[d] = loc[d]

\* Every step keeps the invariant.
LEMMA BufferNext == BufferInv /\ [Next]_vars => BufferInv'
<1> SUFFICES ASSUME BufferInv, [Next]_vars PROVE BufferInv'
  BY Zenon
<1> TypeOK'
  BY TypeNext, Zenon DEF BufferInv
\* A step of c that leaves buffers and guards alone.
<1>HoldFrame. ASSUME NEW c \in Cpus, UNCHANGED <<buffer, garbage, pinned>>, Others(c),
                     pc'[c] # "resize_swap", Pinning(pc'[c], loc'[c]) => c \in pinned,
                     pc'[c] \in DerefPcs => Protected(loc'[c].buf, loc'[c].src, c)
      PROVE  BufferInv'
  <2> USE <1>HoldFrame
  <2>1. RoleInv'
    BY DEF BufferInv, RoleInv, Others
  <2>2. ASSUME NEW d \in Cpus PROVE HoldInv(d)'
    <3>1. CASE d = c
      BY <3>1, Zenon DEF HoldInv, Pinning, Protected
    <3>2. CASE d # c
      BY <3>2, Zenon DEF BufferInv, HoldInv, Pinning, Protected, Others
    <3> QED
      BY <3>1, <3>2, Zenon
  <2> QED
    BY <2>1, <2>2, Zenon DEF BufferInv
\* A step of c that ends a steal: the guard goes, and with it c's claims.
<1>HoldUnpin. ASSUME NEW c \in Cpus, buffer' = buffer, Unpin(c), Return(c)
      PROVE  BufferInv'
  <2> USE <1>HoldUnpin
  <2>0. /\ pc \in [Cpus -> Pcs] /\ loc \in [Cpus -> LocType]
        /\ garbage \subseteq [buf : Bufs, waits : SUBSET Cpus]
    BY Zenon DEF BufferInv, TypeOK, MemoryOK
  <2>1. /\ pc'[c] = "idle"
        /\ \A d \in Cpus \ {c} : pc'[d] = pc[d] /\ loc'[d] = loc[d]
    BY <2>0, Zenon DEF Return, Goto
  <2>2. ASSUME NEW h \in garbage'
        PROVE  \E g \in garbage : h.buf = g.buf /\ h.waits = g.waits \ {c} /\ h = [g EXCEPT !.waits = @ \ {c}]
    BY <2>0, Zenon DEF Unpin
  <2>3. ASSUME NEW g \in garbage
        PROVE  \E h \in garbage' : h.buf = g.buf /\ h.waits = g.waits \ {c}
    <3>1. PICK h : h = [g EXCEPT !.waits = @ \ {c}]
      BY Zenon
    <3>2. h \in garbage'
      BY <3>1, Zenon DEF Unpin
    <3>3. h.buf = g.buf /\ h.waits = g.waits \ {c}
      BY <2>0, <3>1, Zenon
    <3> QED
      BY <3>2, <3>3, Zenon
  <2>4. RoleInv'
    <3>1. \A d, e \in Cpus : d # e => buffer'[d] # buffer'[e]
      BY Zenon DEF BufferInv, RoleInv
    <3>2. \A h \in garbage' : \A d \in Cpus : h.buf # buffer'[d]
      BY <2>2 DEF BufferInv, RoleInv
    <3>3. ASSUME NEW h \in garbage', NEW k \in garbage', h.buf = k.buf PROVE h = k
      <4>1. PICK g \in garbage : h.buf = g.buf /\ h = [g EXCEPT !.waits = @ \ {c}]
        BY <2>2, Zenon
      <4>2. PICK e \in garbage : k.buf = e.buf /\ k = [e EXCEPT !.waits = @ \ {c}]
        BY <2>2, Zenon
      <4>3. g = e
        BY <3>3, <4>1, <4>2, Zenon DEF BufferInv, RoleInv
      <4> QED
        BY <4>1, <4>2, <4>3, Zenon
    <3>4. ASSUME NEW d \in Cpus, pc'[d] = "resize_swap"
          PROVE  /\ \A h \in garbage' : h.buf # loc'[d].nbuf
                 /\ \A e \in Cpus : /\ buffer'[e] # loc'[d].nbuf
                                    /\ pc'[e] = "resize_swap" /\ e # d => loc'[e].nbuf # loc'[d].nbuf
      BY <2>1, <2>2, <3>4 DEF BufferInv, RoleInv
    <3> QED
      BY <3>1, <3>2, <3>3, <3>4, Zenon DEF RoleInv
  <2>5. ASSUME NEW d \in Cpus PROVE HoldInv(d)'
    <3>1. CASE d = c
      BY <2>1, <3>1, Zenon DEF HoldInv, Pinning, StealPcs, DerefPcs, ResizePcs
    <3>2. CASE d # c
      <4>1. Pinning(pc'[d], loc'[d]) => d \in pinned'
        BY <2>1, <3>2, Zenon DEF BufferInv, HoldInv, Unpin
      <4>2. pc'[d] \in DerefPcs => Protected(loc[d].buf, loc[d].src, d)'
        BY <2>1, <2>3, <3>2 DEF BufferInv, HoldInv, Protected
      <4> QED
        BY <4>1, <4>2, Zenon DEF HoldInv, Pinning, Protected
    <3> QED
      BY <3>1, <3>2, Zenon
  <2> QED
    BY <2>4, <2>5, Zenon DEF BufferInv
\* A worker's own operations, resize excepted, hold nothing.
<1>HoldWorker. ASSUME NEW c \in Cpus,
                      \/ \E t \in Tasks : Push(c, t)
                      \/ PushWrite(c) \/ PushStore(c)
                      \/ Pop(c) \/ PopFetch(c) \/ PopRestore(c)
                      \/ PopDec(c) \/ PopCheck(c) \/ PopCas(c) \/ PopUndo(c)
      PROVE  BufferInv'
  <2> USE <1>HoldWorker
  <2>0. pc \in [Cpus -> Pcs] /\ loc \in [Cpus -> LocType] /\ loc[c] \in LocType
    BY Zenon DEF BufferInv, TypeOK
  <2>1. UNCHANGED <<buffer, garbage, pinned>>
    BY Zenon DEF Push, PushWrite, PushStore, Pop, PopFetch, PopRestore, PopDec, PopCheck, PopCas,
           PopUndo, queues, memory
  <2>2. Others(c)
    BY <2>0, Zenon DEF Push, PushWrite, PushStore, Pop, PopFetch, PopRestore, PopDec, PopCheck, PopCas,
           PopUndo, Goto, Return, CallResize, PopReturn, Others
  <2>3. ASSUME NEW l \in LocType, NEW k \in Nat, NEW r \in Rets, r # "load_buf",
               CallResize(c, l, k, r)
        PROVE  pc'[c] = "resize" /\ loc'[c].ret # "load_buf"
    <3>1. loc'[c] = ResizeLoc(l, k, r) /\ pc'[c] = "resize"
      BY <2>0, <2>3, Zenon DEF CallResize, ResizeLoc, Goto
    <3> QED
      BY <2>3, <3>1, ResizeLocType, SMTT(30)
  <2>4. pc'[c] \in {"idle"} \cup PushPcs \cup PopPcs \/ (pc'[c] = "resize" /\ loc'[c].ret # "load_buf")
    <3>0. /\ 2 * cap[buffer[c]] \in Nat /\ cap[buffer[c]] \div 2 \in Nat
          /\ "idle" \in Rets /\ "push_write" \in Rets
      <4>1. cap[buffer[c]] \in Nat \ {0}
        BY Zenon DEF BufferInv, TypeOK, MemoryOK
      <4> QED
        BY <4>1 DEF Rets
    <3>1. CASE \E t \in Tasks : Push(c, t)
      <4>1. PICK t \in Tasks : Push(c, t)
        BY <3>1, Zenon
      <4>2. PICK l \in LocType : l = [NoLoc EXCEPT !.op = "push", !.task = t]
        BY PushLocType, Zenon DEF PushLoc
      <4>3. CallResize(c, l, 2 * cap[buffer[c]], "push_write") \/ Goto(c, "push_write")
        BY <4>1, <4>2, Zenon DEF Push
      <4> QED
        BY <2>0, <2>3, <3>0, <4>3, Zenon DEF Goto, PushPcs
    <3>2. CASE CallResize(c, NoLoc, cap[buffer[c]] \div 2, "idle")
      BY <2>3, <3>0, <3>2, NoLocType, Zenon
    <3>3. CASE /\ ~CallResize(c, NoLoc, cap[buffer[c]] \div 2, "idle")
               /\ ~ \E t \in Tasks : Push(c, t)
      BY <2>0, <3>3, Zenon DEF PushWrite, PushStore, Pop, PopFetch, PopRestore, PopDec, PopCheck, PopCas,
           PopUndo, Goto, Return, PopReturn, PushPcs, PopPcs
    <3> QED
      BY <3>1, <3>2, <3>3, Zenon
  <2>5. /\ pc'[c] # "resize_swap" /\ pc'[c] \notin DerefPcs /\ ~Pinning(pc'[c], loc'[c])
    BY <2>4, Zenon DEF PushPcs, PopPcs, DerefPcs, StealPcs, ResizePcs, Pinning
  <2> QED
    BY <2>1, <2>2, <2>5, <1>HoldFrame, Zenon
\* The steps of a steal that leave buffers and guards alone: the guard stays,
\* and the buffer read is the one loaded.
<1>HoldSteal. ASSUME NEW c \in Cpus,
                     \/ \E s \in Cpus, op \in StealOps : StealBegin(c, s, op)
                     \/ Reserve(c) \/ LoadBuf(c) \/ Read(c) \/ Copy(c)
                     \/ CasBatch(c) \/ CasOne(c) \/ Put(c) \/ Reload(c)
                     \/ (Check(c) \/ CasFail(c)) /\ ~Retry(c)
      PROVE  BufferInv'
  <2> USE <1>HoldSteal
  <2>0. pc \in [Cpus -> Pcs] /\ loc \in [Cpus -> LocType] /\ loc[c] \in LocType
    BY Zenon DEF BufferInv, TypeOK
  <2>1. UNCHANGED <<buffer, garbage, pinned>>
    BY Zenon DEF StealBegin, Reserve, LoadBuf, Read, Copy, CasBatch, CasOne, Put, Reload, Check, CasFail,
           GiveUp, StopBatch, queues, memory
  <2>2. Others(c)
    BY <2>0, Zenon DEF StealBegin, Reserve, LoadBuf, Read, Copy, CasBatch, CasOne, Put, Reload, Check,
           CasFail, GiveUp, StopBatch, Goto, CallResize, Others
  <2>3. CASE \E s \in Cpus, op \in StealOps : StealBegin(c, s, op)
    <3>1. pc'[c] = "load_back"
      BY <2>0, <2>3, Zenon DEF StealBegin, Goto
    <3> QED
      BY <2>1, <2>2, <3>1, <1>HoldFrame, Zenon DEF Pinning, StealPcs, DerefPcs, ResizePcs
  <2>4. CASE Reserve(c)
    <3>1. pc'[c] \in {"resize", "load_buf"} /\ pc[c] = "reserve"
      BY <2>0, <2>4, Zenon DEF Reserve, CallResize, Goto
    <3>2. c \in pinned
      BY <3>1, Zenon DEF BufferInv, HoldInv, Pinning, StealPcs, DerefPcs
    <3> QED
      BY <2>1, <2>2, <3>1, <3>2, <1>HoldFrame, Zenon DEF DerefPcs
  <2>5. CASE LoadBuf(c)
    <3>1. pc'[c] \in {"read", "copy"} /\ pc[c] = "load_buf"
      BY <2>0, <2>5, Zenon DEF LoadBuf, Goto
    <3>2. c \in pinned
      BY <3>1, Zenon DEF BufferInv, HoldInv, Pinning, StealPcs, DerefPcs
    <3>3. loc'[c].buf = buffer[loc[c].src] /\ loc'[c].src = loc[c].src
      BY <2>0, <2>5, Zenon DEF LoadBuf, Src, LocType
    <3> QED
      BY <2>1, <2>2, <3>1, <3>2, <3>3, <1>HoldFrame, Zenon DEF Protected
  <2>6. CASE \/ Read(c) \/ Copy(c) \/ CasBatch(c) \/ CasOne(c) \/ Put(c) \/ Reload(c)
             \/ (Check(c) \/ CasFail(c)) /\ ~Retry(c)
    <3>1. pc[c] \in DerefPcs /\ pc'[c] \in DerefPcs
      BY <2>0, <2>6, Zenon DEF Read, Copy, CasBatch, CasOne, Put, Reload, Check, CasFail, GiveUp,
           StopBatch, Goto, DerefPcs
    <3>2. c \in pinned /\ Protected(loc[c].buf, loc[c].src, c)
      BY <3>1, Zenon DEF BufferInv, HoldInv, Pinning, StealPcs, DerefPcs
    <3>3. loc'[c].buf = loc[c].buf /\ loc'[c].src = loc[c].src
      <4>1. CASE Read(c) \/ Copy(c) \/ CasBatch(c)
        BY <2>0, <4>1 DEF Read, Copy, CasBatch, LocType
      <4>2. CASE CasOne(c) \/ Put(c) \/ Reload(c)
        <5>1. CASE CasOne(c)
          BY <2>0, <5>1, Zenon DEF CasOne, LocType
        <5>2. CASE Put(c)
          BY <2>0, <5>2, Zenon DEF Put, LocType
        <5>3. CASE Reload(c)
          BY <2>0, <5>3, Zenon DEF Reload, GiveUp, StopBatch, LocType
        <5> QED
          BY <4>2, <5>1, <5>2, <5>3, Zenon
      <4>3. CASE (Check(c) \/ CasFail(c)) /\ ~Retry(c)
        BY <2>0, <4>3, Zenon DEF Check, CasFail, GiveUp, StopBatch, LocType
      <4> QED
        BY <2>6, <4>1, <4>2, <4>3, Zenon
    <3> QED
      BY <2>1, <2>2, <3>1, <3>2, <3>3, <1>HoldFrame, Zenon DEF DerefPcs
  <2> QED
    BY <2>3, <2>4, <2>5, <2>6, Zenon
\* LoadBack takes the guard.
<1>HoldLoadBack. ASSUME NEW c \in Cpus, LoadBack(c)
      PROVE  BufferInv'
  <2> USE <1>HoldLoadBack
  <2>0. pc \in [Cpus -> Pcs] /\ loc \in [Cpus -> LocType] /\ loc[c] \in LocType
    BY Zenon DEF BufferInv, TypeOK
  <2>1. UNCHANGED <<buffer, garbage>> /\ pinned \subseteq pinned'
    BY Zenon DEF LoadBack, queues
  <2>2. Others(c)
    BY <2>0, Zenon DEF LoadBack, Return, Goto, Others
  <2>3. pc'[c] \in {"idle", "reserve", "load_buf"} /\ (pc'[c] # "idle" => c \in pinned')
    BY <2>0, Zenon DEF LoadBack, Return, Goto
  <2>4. RoleInv'
    BY <2>1, <2>2, <2>3, SMTT(30) DEF BufferInv, RoleInv, Others
  <2>5. ASSUME NEW d \in Cpus PROVE HoldInv(d)'
    <3>1. CASE d = c
      BY <2>3, <3>1, Zenon DEF HoldInv, Pinning, StealPcs, DerefPcs, ResizePcs
    <3>2. CASE d # c
      BY <2>1, <2>2, <3>2, Zenon DEF BufferInv, HoldInv, Pinning, Protected, Others
    <3> QED
      BY <3>1, <3>2, Zenon
  <2> QED
    BY <2>4, <2>5, Zenon DEF BufferInv
\* resize allocates a buffer nobody uses.
<1>HoldResizeCopy. ASSUME NEW c \in Cpus, ResizeCopy(c)
      PROVE  BufferInv'
  <2> USE <1>HoldResizeCopy
  <2>0. pc \in [Cpus -> Pcs] /\ loc \in [Cpus -> LocType] /\ loc[c] \in LocType
    BY Zenon DEF BufferInv, TypeOK
  <2>1. PICK nb \in Bufs \ InUse : loc' = [loc EXCEPT ![c].nbuf = nb]
    BY Zenon DEF ResizeCopy
  <2>2. UNCHANGED <<buffer, garbage, pinned>> /\ Others(c)
    BY <2>0, <2>1, Zenon DEF ResizeCopy, queues, Goto, Others
  <2>3. pc[c] = "resize" /\ pc'[c] = "resize_swap" /\ loc'[c].nbuf = nb /\ loc'[c].ret = loc[c].ret
    BY <2>0, <2>1, Zenon DEF ResizeCopy, Goto, LocType
  <2>4. /\ \A g \in garbage : g.buf # nb
        /\ \A d \in Cpus : buffer[d] # nb /\ loc[d].nbuf # nb
    BY Zenon DEF InUse
  <2>5. RoleInv'
    <3>1. ASSUME NEW d \in Cpus, pc'[d] = "resize_swap"
          PROVE  /\ \A g \in garbage : g.buf # loc'[d].nbuf
                 /\ \A e \in Cpus : /\ buffer[e] # loc'[d].nbuf
                                    /\ pc'[e] = "resize_swap" /\ e # d => loc'[e].nbuf # loc'[d].nbuf
      <4>1. CASE d = c
        BY <2>2, <2>3, <2>4, <4>1, Zenon DEF Others
      <4>2. CASE d # c
        BY <2>2, <2>3, <2>4, <3>1, <4>2 DEF BufferInv, RoleInv, Others
      <4> QED
        BY <4>1, <4>2, Zenon
    <3> QED
      BY <2>2, <3>1, Zenon DEF BufferInv, RoleInv
  <2>6. ASSUME NEW d \in Cpus PROVE HoldInv(d)'
    <3>1. CASE d = c
      BY <2>2, <2>3, <3>1, Zenon DEF BufferInv, HoldInv, Pinning, StealPcs, DerefPcs, ResizePcs
    <3>2. CASE d # c
      BY <2>2, <3>2, Zenon DEF BufferInv, HoldInv, Pinning, Protected, Others
    <3> QED
      BY <3>1, <3>2, Zenon
  <2> QED
    BY <2>5, <2>6, Zenon DEF BufferInv
\* resize retires the old buffer on behalf of everyone who is pinned.
<1>HoldResizeSwap. ASSUME NEW c \in Cpus, ResizeSwap(c)
      PROVE  BufferInv'
  <2> USE <1>HoldResizeSwap
  <2>0. /\ pc \in [Cpus -> Pcs] /\ loc \in [Cpus -> LocType] /\ loc[c] \in LocType
        /\ buffer \in [Cpus -> Bufs] /\ LocOK("resize_swap", loc[c]) /\ loc[c].ret \in Rets
    <3>1. TypeOK
      BY Zenon DEF BufferInv
    <3>2. pc \in [Cpus -> Pcs] /\ loc \in [Cpus -> LocType] /\ MemoryOK /\ LocOK(pc[c], loc[c])
      BY <3>1, Zenon DEF TypeOK
    <3>3. buffer \in [Cpus -> Bufs]
      BY <3>2, Zenon DEF MemoryOK
    <3>4. pc[c] = "resize_swap"
      BY Zenon DEF ResizeSwap
    <3>5. loc[c] \in LocType
      BY <3>2, Zenon
    <3>6. loc[c].ret \in Rets
      BY <3>5, Zenon DEF LocType
    <3> QED
      BY <3>2, <3>3, <3>4, <3>5, <3>6, Zenon
  <2>1. PICK r : r = [buf |-> buffer[c], waits |-> pinned]
    BY Zenon
  <2>2. garbage' = garbage \cup {r} /\ r.buf = buffer[c] /\ r.waits = pinned
    BY <2>1, Zenon DEF ResizeSwap, Retire
  <2>3. /\ buffer'[c] = loc[c].nbuf /\ \A d \in Cpus \ {c} : buffer'[d] = buffer[d]
        /\ pinned' = pinned /\ Others(c) /\ pc[c] = "resize_swap" /\ pc'[c] = loc[c].ret
    BY <2>0, Zenon DEF ResizeSwap, Goto, Others
  <2>4. RoleInv'
    <3>1. \A d, e \in Cpus : d # e => buffer'[d] # buffer'[e]
      BY <2>3, SMTT(30) DEF BufferInv, RoleInv
    <3>2. \A g \in garbage' : \A d \in Cpus : g.buf # buffer'[d]
      BY <2>2, <2>3, SMTT(30) DEF BufferInv, RoleInv
    <3>3. \A g, h \in garbage' : g.buf = h.buf => g = h
      BY <2>2, SMTT(30) DEF BufferInv, RoleInv
    <3>4. pc'[c] # "resize_swap"
      BY <2>0, <2>3, Zenon DEF Rets
    <3>5. ASSUME NEW d \in Cpus, pc'[d] = "resize_swap"
          PROVE  /\ \A g \in garbage' : g.buf # loc'[d].nbuf
                 /\ \A e \in Cpus : /\ buffer'[e] # loc'[d].nbuf
                                    /\ pc'[e] = "resize_swap" /\ e # d => loc'[e].nbuf # loc'[d].nbuf
      <4>1. d # c /\ pc[d] = "resize_swap" /\ loc'[d] = loc[d]
        BY <2>3, <3>4, <3>5, Zenon DEF Others
      <4>2. \A g \in garbage' : g.buf # loc'[d].nbuf
        BY <2>2, <4>1, Zenon DEF BufferInv, RoleInv
      <4>3. \A e \in Cpus : buffer'[e] # loc'[d].nbuf
        BY <2>3, <4>1, SMTT(30) DEF BufferInv, RoleInv
      <4>4. ASSUME NEW e \in Cpus, pc'[e] = "resize_swap", e # d
            PROVE  loc'[e].nbuf # loc'[d].nbuf
        BY <2>3, <3>4, <4>1, <4>4 DEF BufferInv, RoleInv, Others
      <4> QED
        BY <4>2, <4>3, <4>4, Zenon
    <3> QED
      BY <3>1, <3>2, <3>3, <3>5, Zenon DEF RoleInv
  <2>5. ASSUME NEW d \in Cpus PROVE HoldInv(d)'
    <3>1. CASE d = c
      <4>1. pc'[c] \notin DerefPcs /\ pc'[c] \notin ResizePcs
        BY <2>0, <2>3, Zenon DEF Rets, DerefPcs, ResizePcs
      <4>2. pc'[c] \in StealPcs => c \in pinned
        BY <2>0, <2>3, Zenon DEF Rets, BufferInv, HoldInv, Pinning, StealPcs, DerefPcs, ResizePcs
      <4> QED
        BY <2>3, <3>1, <4>1, <4>2, Zenon DEF HoldInv, Pinning
    <3>2. CASE d # c
      <4>1. pc'[d] = pc[d] /\ loc'[d] = loc[d]
        BY <2>3, <3>2, Zenon DEF Others
      <4>2. ASSUME pc[d] \in DerefPcs
            PROVE  \/ loc[d].buf = buffer'[loc[d].src]
                   \/ \E g \in garbage' : g.buf = loc[d].buf /\ d \in g.waits
        <5>1. d \in pinned /\ Protected(loc[d].buf, loc[d].src, d) /\ loc[d].src \in Cpus
          BY <4>2, Zenon DEF BufferInv, HoldInv, Pinning, StealPcs, DerefPcs, TypeOK, LocOK
        <5> QED
          BY <2>2, <2>3, <5>1, Zenon DEF Protected
      <4> QED
        BY <2>3, <4>1, <4>2, Zenon DEF BufferInv, HoldInv, Pinning, Protected
    <3> QED
      BY <3>1, <3>2, Zenon
  <2> QED
    BY <2>4, <2>5, Zenon DEF BufferInv
\* The collector frees only what nobody waits for.
<1>HoldCollect. ASSUME Collect
      PROVE  BufferInv'
  <2> USE <1>HoldCollect
  <2>1. PICK g \in garbage : g.waits = {} /\ garbage' = garbage \ {g}
    BY Zenon DEF Collect
  <2>2. UNCHANGED <<buffer, pinned, pc, loc>>
    BY Zenon DEF Collect, queues
  <2>3. RoleInv'
    BY <2>1, <2>2, Zenon DEF BufferInv, RoleInv
  <2>4. \A c \in Cpus : HoldInv(c)'
    BY <2>1, <2>2, Zenon DEF BufferInv, HoldInv, Pinning, Protected
  <2> QED
    BY <2>3, <2>4, Zenon DEF BufferInv
<1>1. CASE UNCHANGED vars
  BY <1>1, Zenon DEF vars, BufferInv, RoleInv, HoldInv, Pinning, Protected
<1>2. CASE Collect
  BY <1>2, <1>HoldCollect, Zenon
<1>3. ASSUME NEW c \in Cpus, Worker(c) PROVE BufferInv'
  BY <1>3, <1>HoldWorker, <1>HoldResizeCopy, <1>HoldResizeSwap, Zenon DEF Worker
<1>4. ASSUME NEW c \in Cpus, Stealer(c) PROVE BufferInv'
  <2>1. CASE CasSteal(c) \/ Publish(c) \/ ((Check(c) \/ CasFail(c)) /\ Retry(c))
    <3>1. buffer' = buffer /\ Unpin(c) /\ Return(c)
      BY <2>1, Zenon DEF CasSteal, Publish, Check, CasFail, Retry, queues
    <3> QED
      BY <3>1, <1>HoldUnpin, Zenon
  <2> QED
    BY <1>4, <2>1, <1>HoldLoadBack, <1>HoldSteal, Zenon DEF Stealer
<1> QED
  BY <1>1, <1>2, <1>3, <1>4, Zenon DEF Next

\* Whatever the owners' resizes and the collector do, a stealer only reads a
\* buffer that has not been freed, and no buffer is freed twice or while it is
\* in use (Worker::resize, Stealer::steal, steal_batch, steal_batch_and_pop).
THEOREM NoUseAfterFree == Spec => []SafeDeref
  BY BufferInit, BufferNext, BufferSafe, PTL DEF Spec

-----------------------------------------------------------------------------

(* What each step does, field by field *)

Fields == {"op", "src", "f", "len", "n", "i", "buf", "task", "held", "ncap", "nbuf", "ret"}

\* Locals m and l differ in no field outside S.
Same(m, l, S) == \A x \in Fields \ S : m[x] = l[x]

\* The types of what belongs to one CPU.
LEMMA Typed ==
  ASSUME TypeOK, NEW c \in Cpus
  PROVE  /\ front[c] \in Int /\ back[c] \in Int /\ buffer[c] \in Bufs
         /\ cap[buffer[c]] \in Nat \ {0}
         /\ pc[c] \in Pcs /\ loc[c] \in LocType /\ LocOK(pc[c], loc[c])
         /\ loc[c].f \in Int /\ loc[c].n \in Int /\ loc[c].i \in Int /\ loc[c].len \in Int
         /\ loc[c].ncap \in Nat
         /\ loc[c].op \in StealOps \cup {"none", "push", "pop"}
         /\ loc[c].task \in Tasks \cup {Nil} /\ loc[c].held \in Tasks \cup {Nil}
<1>1. /\ front[c] \in Int /\ back[c] \in Int /\ buffer[c] \in Bufs
      /\ cap[buffer[c]] \in Nat \ {0}
      /\ pc[c] \in Pcs /\ loc[c] \in LocType /\ LocOK(pc[c], loc[c])
  BY Zenon DEF TypeOK, MemoryOK
<1> QED
  BY <1>1, Zenon DEF LocType

\* The state's functions, for computing with EXCEPT.
LEMMA Shapes ==
  ASSUME TypeOK
  PROVE  /\ front \in [Cpus -> Int] /\ back \in [Cpus -> Int] /\ buffer \in [Cpus -> Bufs]
         /\ pc \in [Cpus -> Pcs] /\ loc \in [Cpus -> LocType]
         /\ cap \in [Bufs -> Nat \ {0}] /\ DOMAIN slot = Bufs
         /\ \A b \in Bufs : slot[b] \in [0..(cap[b] - 1) -> Tasks \cup {Nil}]
         /\ garbage \subseteq [buf : Bufs, waits : SUBSET Cpus] /\ pinned \subseteq Cpus
         /\ taken \in [Tasks \cup {Nil} -> Nat] /\ stolen \in [Cpus -> Seq(Tasks \cup {Nil})]
         /\ pushed \subseteq Tasks
  BY Zenon DEF TypeOK, MemoryOK, HistoryOK

\* What a step of c that stays within its private state leaves alone.
Quiet == UNCHANGED <<front, back, buffer, cap, slot, garbage, pinned, pushed, taken, stolen>>

LEMMA CallDoes ==
  ASSUME TypeOK, NEW c \in Cpus, NEW l \in LocType, NEW k, NEW r, CallResize(c, l, k, r)
  PROVE  /\ Others(c) /\ pc'[c] = "resize"
         /\ Same(loc'[c], l, {"ncap", "ret"}) /\ loc'[c].ncap = k /\ loc'[c].ret = r
<1>1. pc \in [Cpus -> Pcs] /\ loc \in [Cpus -> LocType]
  BY Shapes, Zenon
<1>2. loc'[c] = [l EXCEPT !.ncap = k, !.ret = r] /\ pc'[c] = "resize" /\ Others(c)
  BY <1>1, Zenon DEF CallResize, Goto, Others
<1> QED
  BY <1>2, Zenon DEF Same, Fields, LocType

\* Returning.
LEMMA ReturnDoes ==
  ASSUME TypeOK, NEW c \in Cpus, Return(c)
  PROVE  Others(c) /\ pc'[c] = "idle" /\ loc'[c] = NoLoc
  BY Shapes, Zenon DEF Return, Goto, Others

\* How pop ends: it returns, or halves the buffer first.
LEMMA PopReturnDoes ==
  ASSUME TypeOK, NEW c \in Cpus, NEW shrink \in BOOLEAN, PopReturn(c, shrink)
  PROVE  /\ Others(c)
         /\ \/ pc'[c] = "idle" /\ loc'[c] = NoLoc
            \/ /\ pc'[c] = "resize" /\ Same(loc'[c], NoLoc, {"ncap", "ret"})
               /\ loc'[c].ncap = cap[buffer[c]] \div 2 /\ loc'[c].ret = "idle"
               /\ cap[buffer[c]] > MIN_CAP /\ shrink
<1>1. CASE cap[buffer[c]] > MIN_CAP /\ shrink
  <2>1. CallResize(c, NoLoc, cap[buffer[c]] \div 2, "idle") /\ NoLoc \in LocType
    BY <1>1, NoLocType, Zenon DEF PopReturn
  <2> QED
    BY <1>1, <2>1, CallDoes
<1>2. CASE ~(cap[buffer[c]] > MIN_CAP /\ shrink)
  BY <1>2, ReturnDoes, Zenon DEF PopReturn
<1> QED
  BY <1>1, <1>2, Zenon

\* A loop over a LIFO source ends.
LEMMA StopDoes ==
  ASSUME TypeOK, NEW c \in Cpus, StopBatch(c)
  PROVE  /\ Others(c) /\ pc'[c] = "publish" /\ UNCHANGED <<garbage, pinned>>
         /\ loc'[c].n = loc[c].i - Keep(loc[c].op) /\ Same(loc'[c], loc[c], {"n"})
<1>1. loc'[c] = [loc[c] EXCEPT !.n = loc[c].i - Keep(loc[c].op)]
  BY Shapes, Zenon DEF StopBatch
<1>2. loc'[c].n = loc[c].i - Keep(loc[c].op) /\ Same(loc'[c], loc[c], {"n"})
  BY <1>1, Typed, Zenon DEF Same, Fields, LocType
<1> QED
  BY <1>2, Shapes, Zenon DEF StopBatch, Goto, Others

\* A steal that cannot go on returns, or publishes what it has.
LEMMA GiveUpDoes ==
  ASSUME TypeOK, NEW c \in Cpus, GiveUp(c)
  PROVE  /\ Others(c)
         /\ \/ /\ OneByOne(c) /\ loc[c].i > 0 /\ pc'[c] = "publish" /\ UNCHANGED <<garbage, pinned>>
               /\ loc'[c].n = loc[c].i - Keep(loc[c].op) /\ Same(loc'[c], loc[c], {"n"})
            \/ /\ ~(OneByOne(c) /\ loc[c].i > 0)
               /\ pc'[c] = "idle" /\ loc'[c] = NoLoc /\ Unpin(c)
<1>1. CASE OneByOne(c) /\ loc[c].i > 0
  BY <1>1, StopDoes, Zenon DEF GiveUp
<1>2. CASE ~(OneByOne(c) /\ loc[c].i > 0)
  BY <1>2, ReturnDoes, Zenon DEF GiveUp, Retry
<1> QED
  BY <1>1, <1>2, Zenon

\* One if a LIFO pop at p has decremented back without having decided.
Live(p) == IF p \in {"pop_check", "pop_cas", "pop_undo"} THEN 1 ELSE 0

-----------------------------------------------------------------------------

(* Indices and capacities *)

\* MIN_CAP and its doubles.
Caps == {k \in Nat : \A S \in SUBSET Nat :
           MIN_CAP \in S /\ (\A m \in S : 2 * m \in S) => k \in S}

\* A steal is under way, also while it grows its own buffer.
Stealing(p, l) == p \in StealPcs \/ (p \in ResizePcs /\ l.ret = "load_buf")

\* The owner at p with locals l, front index f, back index b, capacity k:
\* front passes back only for the moment a FIFO pop has seen an empty queue;
\* the tasks fit the buffer, and so do those about to be added.
Own(p, l, f, b, k) ==
  /\ p = "pop_restore" => f = b + 1 /\ l.f = b
  /\ p # "pop_restore" => f <= b + Live(p)
  /\ b + Live(p) - f <= k
  /\ p = "pop_fetch" => b - f <= l.len
  /\ p = "pop_cas" => l.f = b /\ b <= f
  /\ p \in PushPcs => b - f < k
  /\ p \in ResizePcs => 0 <= l.n /\ b - f + l.n <= l.ncap /\ (l.ret = "push_write" => b - f < l.ncap)
  /\ p \in {"load_buf"} \cup DerefPcs => b - f + l.n <= k

\* pop has one way for each flavor.
Kind(p, v) ==
  /\ p \in {"pop_fetch", "pop_restore"} => v = "Fifo"
  /\ p \in {"pop_dec", "pop_check", "pop_cas", "pop_undo"} => v = "Lifo"

\* The locals of a thief that count tasks; v is the source's flavor.
Counts(p, l, v) ==
  LET k == Keep(l.op) IN
  /\ p \notin DerefPcs => l.i = 0
  /\ Pinning(p, l) =>
       /\ l.op = "steal" => l.n = 0
       /\ l.op = "batch" => l.n >= 1
       /\ 0 <= l.n /\ l.n <= MAX_BATCH - k
  /\ p = "reserve" => l.n > 0
  /\ p = "copy" => 0 <= l.i /\ l.i < l.n
  /\ v = "Fifo" =>
       /\ p = "read" => l.i = 0 /\ l.op # "batch"
       /\ p \in {"check", "cas"} => l.i = l.n
       /\ p \notin {"put", "reload"}
  /\ v = "Lifo" =>
       /\ p # "copy"
       /\ p \in {"read", "check", "cas"} => 0 <= l.i /\ l.i < l.n + k
       /\ p \in {"put", "reload", "publish"} => 1 <= l.i /\ l.i <= l.n + k
       /\ p = "reload" => l.i < l.n + k
       /\ p = "publish" => l.i = l.n + k

\* What the thief's indices say of the source's front index f, back index b
\* and back index e including a task being popped: a FIFO source still holds
\* all the tasks wanted or has lost the first, a LIFO source the first one.
Aim(p, l, v, f, b, e) ==
  /\ v = "Fifo" /\ Pinning(p, l) => l.f + Keep(l.op) + l.n <= b
  /\ v = "Lifo" => l.f <= f
  /\ v = "Lifo" /\ Pinning(p, l) /\ p \notin {"put", "reload", "publish"} /\ f = l.f => f < e

OwnI(c) == Own(pc[c], loc[c], front[c], back[c], cap[buffer[c]]) /\ Kind(pc[c], Flavor[c])

ThiefI(d) ==
  Stealing(pc[d], loc[d]) =>
    /\ loc[d].op # "steal" => loc[d].src # d
    /\ Counts(pc[d], loc[d], Flavor[loc[d].src])
    /\ Aim(pc[d], loc[d], Flavor[loc[d].src], front[loc[d].src], back[loc[d].src],
           back[loc[d].src] + Live(pc[loc[d].src]))

CapInv ==
  /\ \A b \in Bufs : cap[b] \in Caps
  /\ \A c \in Cpus : /\ pc[c] \in ResizePcs => loc[c].ncap \in Caps
                     /\ pc[c] = "resize_swap" => cap[loc[c].nbuf] = loc[c].ncap

\* The inductive invariant.
IndexInv == CapInv /\ \A c \in Cpus : OwnI(c) /\ ThiefI(c)

-----------------------------------------------------------------------------

\* Capacities start at MIN_CAP, double, and are halved only above MIN_CAP.
LEMMA CapsFacts ==
  /\ MIN_CAP \in Caps
  /\ \A k \in Caps : k \in Nat /\ k >= MIN_CAP /\ 2 * k \in Caps
  /\ \A k \in Caps : k > MIN_CAP => k \div 2 \in Caps /\ k = 2 * (k \div 2)
<1>0. MIN_CAP \in Nat \ {0}
  BY ConstAssumption, Zenon
<1>1. MIN_CAP \in Caps
  BY <1>0, Zenon DEF Caps
<1>2. ASSUME NEW k \in Caps PROVE 2 * k \in Caps
  <2>1. k \in Nat /\ 2 * k \in Nat
    BY DEF Caps
  <2>2. ASSUME NEW S \in SUBSET Nat, MIN_CAP \in S, \A m \in S : 2 * m \in S
        PROVE  2 * k \in S
    <3>1. k \in S
      BY <2>2, Zenon DEF Caps
    <3> QED
      BY <2>2, <3>1, Zenon
  <2> QED
    BY <2>1, <2>2, Zenon DEF Caps
<1> DEFINE H == {k \in Nat : k = MIN_CAP \/ \E h \in Caps : k = 2 * h}
<1>3. MIN_CAP \in H /\ H \in SUBSET Nat
  BY <1>0, Zenon
<1>4. ASSUME NEW m \in H PROVE 2 * m \in H
  <2>1. m \in Caps
    BY <1>1, <1>2, Zenon
  <2>2. 2 * m \in Nat
    OBVIOUS
  <2> QED
    BY <2>1, <2>2, Zenon
<1>5. ASSUME NEW k \in Caps PROVE k \in H
  BY <1>3, <1>4, Zenon DEF Caps
<1> DEFINE G == {k \in Nat : k >= MIN_CAP}
<1>6. MIN_CAP \in G /\ G \in SUBSET Nat /\ \A m \in G : 2 * m \in G
  BY <1>0
<1>7. ASSUME NEW k \in Caps PROVE k \in G
  BY <1>6, Zenon DEF Caps
<1>8. ASSUME NEW k \in Caps, k > MIN_CAP PROVE k \div 2 \in Caps /\ k = 2 * (k \div 2)
  <2>1. PICK h \in Caps : k = 2 * h
    BY <1>5, <1>8, <1>0
  <2>2. h \in Nat
    BY Zenon DEF Caps
  <2>3. k \div 2 = h
    BY <2>1, <2>2
  <2> QED
    BY <2>1, <2>3, Zenon
<1> QED
  BY <1>1, <1>2, <1>7, <1>8, Zenon

\* What front and back may do to a queue its owner is not working on.
Drift(e) ==
  /\ back'[e] = back[e] /\ buffer'[e] = buffer[e] /\ cap'[buffer[e]] = cap[buffer[e]]
  /\ \/ front'[e] = front[e]
     \/ /\ front[e] <= front'[e] /\ front'[e] <= back[e] + Live(pc[e])
        /\ pc[e] # "pop_restore"

\* What any step may do to the source of a steal.
Onward(e) ==
  /\ Flavor[e] = "Fifo" => back'[e] >= back[e]
  /\ Flavor[e] = "Lifo" =>
       /\ front'[e] >= front[e]
       /\ front'[e] = front[e] /\ front[e] < back[e] + Live(pc[e])
            => front[e] < back'[e] + Live(pc'[e])

\* Initially every queue is empty and every CPU idle.
LEMMA IndexInit == Init => IndexInv
<1> SUFFICES ASSUME Init PROVE IndexInv
  BY Zenon
<1>1. CapInv
  BY CapsFacts, Zenon DEF Init, CapInv, ResizePcs
<1>2. ASSUME NEW c \in Cpus PROVE OwnI(c) /\ ThiefI(c)
  BY ConstAssumption DEF Init, OwnI, Own, Kind, ThiefI, Stealing, Live, PushPcs, ResizePcs,
     DerefPcs, StealPcs
<1> QED
  BY <1>1, <1>2, Zenon DEF IndexInv

-----------------------------------------------------------------------------

\* The owner's facts, numbers only.
LEMMA OwnFacts ==
  ASSUME TypeOK, IndexInv, NEW c \in Cpus
  PROVE  /\ Own(pc[c], loc[c], front[c], back[c], cap[buffer[c]]) /\ Kind(pc[c], Flavor[c])
         /\ cap[buffer[c]] \in Caps /\ cap[buffer[c]] \in Nat /\ cap[buffer[c]] >= MIN_CAP
         /\ MIN_CAP \in Nat /\ MIN_CAP > 0
         /\ Flavor[c] \in {"Fifo", "Lifo"}
<1>1. MIN_CAP \in Nat /\ MIN_CAP > 0 /\ Flavor[c] \in {"Fifo", "Lifo"}
  BY ConstAssumption
<1>2. cap[buffer[c]] \in Caps
  BY Typed, Zenon DEF IndexInv, CapInv
<1> QED
  BY <1>1, <1>2, CapsFacts, Zenon DEF IndexInv, OwnI

-----------------------------------------------------------------------------

\* A thief's facts.
LEMMA ThiefFacts ==
  ASSUME TypeOK, IndexInv, NEW c \in Cpus, Stealing(pc[c], loc[c])
  PROVE  /\ loc[c].src \in Cpus /\ loc[c].op \in StealOps
         /\ loc[c].op # "steal" => loc[c].src # c
         /\ Counts(pc[c], loc[c], Flavor[loc[c].src])
         /\ Aim(pc[c], loc[c], Flavor[loc[c].src], front[loc[c].src], back[loc[c].src],
                back[loc[c].src] + Live(pc[loc[c].src]))
         /\ Flavor[loc[c].src] \in {"Fifo", "Lifo"}
<1>1. loc[c].src \in Cpus /\ loc[c].op \in StealOps
  BY Typed, Zenon DEF LocOK, Stealing
<1> QED
  BY <1>1, ConstAssumption, Zenon DEF IndexInv, ThiefI

-----------------------------------------------------------------------------

(* What the operations do to the owner's view *)

\* A FIFO pop that has advanced front: it found the queue empty, or it has
\* its task and may shrink the buffer.
LEMMA OwnFetch ==
  ASSUME NEW l, NEW m, NEW q, NEW f \in Int, NEW b \in Int, NEW k \in Nat \ {0},
         Own("pop_fetch", l, f, b, k), l.len \in Int,
         \/ b < f + 1 /\ q = "pop_restore" /\ m.f = f
         \/ b >= f + 1 /\ q = "idle"
         \/ /\ b >= f + 1 /\ q = "resize" /\ m.n = 0 /\ m.ncap = k \div 2 /\ m.ret = "idle"
            /\ l.len <= k \div 4
  PROVE  Own(q, m, f + 1, b, k)
<1>1. f <= b /\ b - f <= k /\ b - f <= l.len
  BY DEF Own, Live
<1>2. CASE b < f + 1 /\ q = "pop_restore" /\ m.f = f
  BY <1>1, <1>2 DEF Own, Live, PushPcs, ResizePcs, DerefPcs
<1>3. CASE b >= f + 1 /\ q = "idle"
  BY <1>1, <1>3 DEF Own, Live, PushPcs, ResizePcs, DerefPcs
<1>4. CASE /\ b >= f + 1 /\ q = "resize" /\ m.n = 0 /\ m.ncap = k \div 2 /\ m.ret = "idle"
           /\ l.len <= k \div 4
  <2>1. b - (f + 1) <= k \div 2
    BY <1>1, <1>4
  <2> QED
    BY <1>1, <1>4, <2>1 DEF Own, Live, PushPcs, ResizePcs, DerefPcs
<1> QED
  BY <1>2, <1>3, <1>4, Zenon

-----------------------------------------------------------------------------

\* A FIFO pop puts front back after it found the queue empty.
LEMMA OwnRestore ==
  ASSUME NEW l, NEW m, NEW f \in Int, NEW b \in Int, NEW k \in Nat \ {0},
         Own("pop_restore", l, f, b, k)
  PROVE  Own("idle", m, l.f, b, k)
BY DEF Own, Live, PushPcs, ResizePcs, DerefPcs

-----------------------------------------------------------------------------

\* A LIFO pop takes back down, and counts as holding the task it may take.
LEMMA OwnDec ==
  ASSUME NEW l, NEW m, NEW f \in Int, NEW b \in Int, NEW k \in Nat \ {0},
         Own("pop_dec", l, f, b, k)
  PROVE  Own("pop_check", m, f, b - 1, k)
BY DEF Own, Live, PushPcs, ResizePcs, DerefPcs

-----------------------------------------------------------------------------

\* A LIFO pop compares the indices: the queue was empty, or it holds one
\* task, or more of them.
LEMMA OwnCheck ==
  ASSUME NEW l, NEW m, NEW q, NEW f \in Int, NEW b \in Int, NEW k \in Nat \ {0},
         Own("pop_check", l, f, b, k),
         \/ b < f /\ q = "pop_undo"
         \/ b = f /\ q = "pop_cas" /\ m.f = f
         \/ b > f /\ q = "idle"
         \/ /\ b > f /\ q = "resize" /\ m.n = 0 /\ m.ncap = k \div 2 /\ b - f < k \div 4
            /\ m.ret = "idle"
  PROVE  Own(q, m, f, b, k)
<1>1. f <= b + 1 /\ b + 1 - f <= k
  BY DEF Own, Live
<1>2. CASE b < f /\ q = "pop_undo"
  BY <1>1, <1>2 DEF Own, Live, PushPcs, ResizePcs, DerefPcs
<1>3. CASE b = f /\ q = "pop_cas" /\ m.f = f
  BY <1>1, <1>3 DEF Own, Live, PushPcs, ResizePcs, DerefPcs
<1>4. CASE b > f /\ q = "idle"
  BY <1>1, <1>4 DEF Own, Live, PushPcs, ResizePcs, DerefPcs
<1>5. CASE /\ b > f /\ q = "resize" /\ m.n = 0 /\ m.ncap = k \div 2 /\ b - f < k \div 4
           /\ m.ret = "idle"
  BY <1>1, <1>5 DEF Own, Live, PushPcs, ResizePcs, DerefPcs
<1> QED
  BY <1>2, <1>3, <1>4, <1>5, Zenon

-----------------------------------------------------------------------------

\* A LIFO pop contends for the last task: the task is taken, by itself or by
\* a thief.
LEMMA OwnCas ==
  ASSUME NEW l, NEW f \in Int, NEW b \in Int, NEW k \in Nat \ {0}, Own("pop_cas", l, f, b, k)
  PROVE  /\ Own("pop_undo", l, f, b, k)
         /\ f = l.f => Own("pop_undo", l, f + 1, b, k)
BY DEF Own, Live, PushPcs, ResizePcs, DerefPcs

-----------------------------------------------------------------------------

\* A LIFO pop puts back up again.
LEMMA OwnUndo ==
  ASSUME NEW l, NEW m, NEW f \in Int, NEW b \in Int, NEW k \in Nat \ {0},
         Own("pop_undo", l, f, b, k)
  PROVE  Own("idle", m, f, b + 1, k)
BY DEF Own, Live, PushPcs, ResizePcs, DerefPcs

-----------------------------------------------------------------------------

\* An idle owner has only the bounds of its queue.
LEMMA OwnIdle ==
  ASSUME NEW m, NEW f \in Int, NEW b \in Int, NEW k \in Nat \ {0}, f <= b, b - f <= k
  PROVE  Own("idle", m, f, b, k)
BY DEF Own, Live, PushPcs, ResizePcs, DerefPcs

-----------------------------------------------------------------------------

\* A push that found the buffer full asks for twice the capacity.
LEMMA OwnPush ==
  ASSUME NEW l, NEW m, NEW q, NEW f \in Int, NEW b \in Int, NEW k \in Nat \ {0},
         Own("idle", l, f, b, k), m.n = 0,
         (q = "resize" /\ m.ncap = 2 * k) \/ (q = "push_write" /\ b - f < k)
  PROVE  Own(q, m, f, b, k)
<1>1. f <= b /\ b - f <= k
  BY DEF Own, Live
<1>2. CASE q = "resize" /\ m.ncap = 2 * k
  BY <1>1, <1>2 DEF Own, Live, PushPcs, ResizePcs, DerefPcs
<1>3. CASE q = "push_write" /\ b - f < k
  BY <1>1, <1>3 DEF Own, Live, PushPcs, ResizePcs, DerefPcs
<1> QED
  BY <1>2, <1>3, Zenon

-----------------------------------------------------------------------------

\* A push publishes its task.
LEMMA OwnStore ==
  ASSUME NEW l, NEW m, NEW f \in Int, NEW b \in Int, NEW k \in Nat \ {0},
         Own("push_store", l, f, b, k)
  PROVE  Own("idle", m, f, b + 1, k)
<1>1. f <= b /\ b - f < k
  BY DEF Own, Live, PushPcs
<1> QED
  BY <1>1 DEF Own, Live, PushPcs, ResizePcs, DerefPcs

-----------------------------------------------------------------------------

\* The owner steals n tasks of its own.
LEMMA OwnLoses ==
  ASSUME NEW l, NEW m, NEW f \in Int, NEW b \in Int, NEW k \in Nat \ {0},
         Own("cas", l, f, b, k), NEW n \in Nat, f + n <= b + Live("cas")
  PROVE  Own("idle", m, f + n, b, k)
<1>1. f <= b /\ b - f <= k /\ f + n <= b
  BY DEF Own, Live
<1> QED
  BY <1>1 DEF Own, Live, PushPcs, ResizePcs, DerefPcs

-----------------------------------------------------------------------------

\* Taking n tasks from f on: one task below b + x, or n tasks up to b.
LEMMA Reach ==
  ASSUME NEW f \in Int, NEW b \in Int, NEW x \in {0, 1}, NEW n \in Nat, n > 0
  PROVE  /\ n = 1 /\ f < b + x => f + n <= b + x
         /\ f + n <= b => f + n <= b + x /\ f # b + 1
         /\ f <= f + n /\ f + n >= f /\ f + n # f /\ b >= b
OBVIOUS

-----------------------------------------------------------------------------

\* Tasks kept and tasks for the queue, counted together.
LEMMA Regroup ==
  ASSUME NEW f \in Int, NEW x \in Int, NEW n \in Int, NEW b \in Int, f + x + n <= b
  PROVE  f + (x + n) <= b
OBVIOUS

-----------------------------------------------------------------------------

\* An operation begins.
LEMMA OwnBegin ==
  ASSUME NEW l, NEW m, NEW p, NEW q, NEW f \in Int, NEW b \in Int, NEW k \in Nat \ {0},
         Own(p, l, f, b, k), p \in {"idle", "load_back"},
         q \in {"load_back", "pop_dec", "reserve"} \/ (q = "pop_fetch" /\ m.len = b - f)
           \/ (q = "load_buf" /\ m.n = 0)
  PROVE  Own(q, m, f, b, k)
<1>1. f <= b /\ b - f <= k
  BY DEF Own, Live
<1> QED
  BY <1>1 DEF Own, Live, PushPcs, ResizePcs, DerefPcs

-----------------------------------------------------------------------------

\* A thief makes room for the batch it wants, in its buffer or in a larger one.
LEMMA OwnReserve ==
  ASSUME NEW l, NEW m, NEW q, NEW f \in Int, NEW b \in Int, NEW k \in Nat \ {0},
         Own("reserve", l, f, b, k), m.n \in Int, 0 < m.n, m.n <= k,
         \/ q = "resize" /\ m.ncap = 2 * k /\ m.ret = "load_buf"
         \/ q = "load_buf" /\ b - f + m.n <= k
  PROVE  Own(q, m, f, b, k)
<1>1. f <= b /\ b - f <= k
  BY DEF Own, Live
<1>2. CASE q = "resize" /\ m.ncap = 2 * k /\ m.ret = "load_buf"
  BY <1>1, <1>2 DEF Own, Live, PushPcs, ResizePcs, DerefPcs
<1>3. CASE q = "load_buf" /\ b - f + m.n <= k
  BY <1>1, <1>3 DEF Own, Live, PushPcs, ResizePcs, DerefPcs
<1> QED
  BY <1>2, <1>3, Zenon

-----------------------------------------------------------------------------

\* A thief settles for the tasks it has, fewer than it made room for.
LEMMA OwnStop ==
  ASSUME NEW l, NEW m, NEW p, NEW f \in Int, NEW b \in Int, NEW k \in Nat \ {0},
         Own(p, l, f, b, k), p \in {"check", "cas", "reload"},
         l.n \in Int, m.n \in Int, m.n <= l.n
  PROVE  Own("publish", m, f, b, k)
<1>1. f <= b /\ b - f <= k /\ b - f + l.n <= k
  BY DEF Own, Live, DerefPcs
<1>2. b - f + m.n <= k
  BY <1>1
<1> QED
  BY <1>1, <1>2 DEF Own, Live, PushPcs, ResizePcs, DerefPcs

-----------------------------------------------------------------------------

\* The owner swaps its buffer for one of the capacity asked for.
LEMMA OwnSwap ==
  ASSUME NEW l, NEW m, NEW q, NEW f \in Int, NEW b \in Int, NEW k \in Nat \ {0},
         Own("resize_swap", l, f, b, k), l.n \in Int, l.ncap \in Nat,
         q \in {"idle", "push_write", "load_buf"}, q = l.ret, q = "idle" \/ m.n = l.n
  PROVE  Own(q, m, f, b, l.ncap)
<1>1. /\ f <= b /\ b - f <= k /\ 0 <= l.n /\ b - f + l.n <= l.ncap
      /\ l.ret = "push_write" => b - f < l.ncap
  BY DEF Own, Live, ResizePcs
<1>2. b - f <= l.ncap
  BY <1>1
<1> QED
  BY <1>1, <1>2 DEF Own, Live, PushPcs, ResizePcs, DerefPcs

-----------------------------------------------------------------------------

\* A FIFO queue whose back index stays is as good a source as before.
LEMMA OnwardFifo ==
  ASSUME TypeOK, NEW c \in Cpus, Flavor[c] = "Fifo", back'[c] = back[c]
  PROVE  Onward(c)
<1>1. back[c] \in Int
  BY Typed, Zenon
<1>2. back'[c] >= back[c]
  BY <1>1
<1> QED
  BY <1>2, Zenon DEF Onward

-----------------------------------------------------------------------------

\* So is a queue whose front index stays, as long as back does not go down,
\* a task being popped included.
LEMMA OnwardStill ==
  ASSUME TypeOK, NEW c \in Cpus, front'[c] = front[c],
         \/ back'[c] = back[c] /\ Live(pc'[c]) = Live(pc[c])
         \/ back'[c] = back[c] - 1 /\ Live(pc'[c]) = 1 /\ Live(pc[c]) = 0 /\ Flavor[c] # "Fifo"
         \/ back'[c] = back[c] + 1 /\ Live(pc'[c]) = 0 /\ Live(pc[c]) = 1
         \/ /\ \E n \in Nat : back'[c] = back[c] + n
            /\ Live(pc'[c]) = 0 /\ Live(pc[c]) = 0
  PROVE  Onward(c)
<1>1. back[c] \in Int /\ front[c] \in Int /\ Live(pc[c]) \in {0, 1}
  BY Typed, Zenon DEF Live
<1>2. PICK b, f, d, x, y : b = back[c] /\ f = front[c] /\ d = back'[c] /\ x = Live(pc[c]) /\ y = Live(pc'[c])
  BY Zenon
<1>3. /\ Flavor[c] = "Fifo" => d >= b
      /\ f >= f /\ (f < b + x => f < d + y)
  <2>1. b \in Int /\ f \in Int /\ x \in {0, 1}
    BY <1>1, <1>2, Zenon
  <2>2. \/ d = b /\ y = x
        \/ d = b - 1 /\ y = 1 /\ x = 0 /\ Flavor[c] # "Fifo"
        \/ d = b + 1 /\ y = 0 /\ x = 1
        \/ (\E n \in Nat : d = b + n) /\ y = 0 /\ x = 0
    BY <1>2, Zenon
  <2> QED
    BY <2>1, <2>2
<1> QED
  BY <1>2, <1>3, Zenon DEF Onward

-----------------------------------------------------------------------------

\* So is a LIFO queue that lost its first task.
LEMMA OnwardStep ==
  ASSUME TypeOK, NEW c \in Cpus, Flavor[c] # "Fifo", front'[c] = front[c] + 1
  PROVE  Onward(c)
<1>1. front[c] \in Int
  BY Typed, Zenon
<1>2. front'[c] >= front[c] /\ front'[c] # front[c]
  BY <1>1
<1> QED
  BY <1>2, Zenon DEF Onward

-----------------------------------------------------------------------------

(* What the operations do to a thief's counts *)

\* stealing a task and a batch keeps one task for the caller.
LEMMA KeepFacts ==
  ASSUME NEW op
  PROVE  /\ Keep(op) \in {0, 1} /\ Keep(op) \in Int
         /\ op = "batch" => Keep(op) = 0
         /\ op # "batch" => Keep(op) = 1
BY DEF Keep

-----------------------------------------------------------------------------

\* A thief of a FIFO source that has copied one more task.
LEMMA CountsCopy ==
  ASSUME NEW l, NEW m, NEW q, l.n \in Int, l.i \in Int, 0 <= l.i, l.i < l.n,
         l.op = "steal" => l.n = 0, l.op = "batch" => l.n >= 1, l.n <= MAX_BATCH - Keep(l.op),
         m.op = l.op, m.n = l.n, m.i = l.i + 1,
         q = IF l.i + 1 = l.n THEN "check" ELSE "copy"
  PROVE  Counts(q, m, "Fifo")
<1>1. q \in {"check", "copy"} /\ (q = "check" => m.i = m.n) /\ (q = "copy" => m.i < m.n)
  OBVIOUS
<1> QED
  BY <1>1 DEF Counts, DerefPcs

-----------------------------------------------------------------------------

\* A thief of a FIFO source about to copy, or about to take what it has read.
LEMMA CountsFifo ==
  ASSUME NEW m, NEW q, q \in {"cas", "copy", "check", "read"}, m.i = 0, m.n \in Int, 0 <= m.n,
         m.op = "steal" => m.n = 0, m.op = "batch" => m.n >= 1, m.n <= MAX_BATCH - Keep(m.op),
         q = "copy" => m.n > 0, q \in {"check", "cas"} => m.n = 0, q = "read" => m.op # "batch"
  PROVE  Counts(q, m, "Fifo")
BY DEF Counts, DerefPcs

-----------------------------------------------------------------------------

\* A thief of a LIFO source stops early and publishes the tasks it has.
LEMMA CountsStop ==
  ASSUME NEW m, NEW q, q = "publish", m.i \in Int, m.i >= 1, m.n = m.i - Keep(m.op),
         m.op # "steal", m.i <= MAX_BATCH, MAX_BATCH \in Nat
  PROVE  Counts(q, m, "Lifo") /\ m.n \in Int
<1>1. PICK k : k = Keep(m.op)
  BY Zenon
<1>2. k \in {0, 1} /\ (m.op = "batch" => k = 0)
  BY <1>1, KeepFacts, Zenon
<1>3. m.n = m.i - k
  BY <1>1, Zenon
<1>4. /\ m.n \in Int /\ 0 <= m.n /\ m.n <= MAX_BATCH - k /\ m.i = m.n + k /\ m.i <= m.n + k
      /\ 1 <= m.i /\ (m.op = "batch" => m.n >= 1)
  BY <1>2, <1>3
<1> QED
  BY <1>1, <1>4, Zenon DEF Counts, DerefPcs

-----------------------------------------------------------------------------

\* A thief of a LIFO source has put away one task: that was the last one, or
\* it goes on.
LEMMA CountsPut ==
  ASSUME NEW m, NEW q, m.i \in Int, m.n \in Int, 1 <= m.i, m.i <= m.n + Keep(m.op), 0 <= m.n,
         m.op = "steal" => m.n = 0, m.op = "batch" => m.n >= 1, m.n <= MAX_BATCH - Keep(m.op),
         q = IF m.i = m.n + Keep(m.op) THEN "publish" ELSE "reload"
  PROVE  Counts(q, m, "Lifo")
<1>1. PICK k : k = Keep(m.op)
  BY Zenon
<1>2. k \in Int
  BY <1>1, KeepFacts, Zenon
<1>3. m.i <= m.n + k
  BY <1>1, Zenon
<1>4. m.i # m.n + k => m.i < m.n + k
  BY <1>2, <1>3
<1>5. (q = "reload" => m.i < m.n + k) /\ (q = "publish" => m.i = m.n + k) /\ q \in {"publish", "reload"}
  BY <1>1, <1>4, Zenon
<1> QED
  BY <1>1, <1>3, <1>5, Zenon DEF Counts, DerefPcs

-----------------------------------------------------------------------------

\* A thief of a LIFO source takes one more task.
LEMMA CountsOne ==
  ASSUME NEW l, NEW m, NEW q, q = "put", l.i \in Int, l.n \in Int, 0 <= l.i, l.i < l.n + Keep(l.op),
         0 <= l.n, l.op = "steal" => l.n = 0, l.op = "batch" => l.n >= 1,
         l.n <= MAX_BATCH - Keep(l.op), m.op = l.op, m.n = l.n, m.i = l.i + 1
  PROVE  Counts(q, m, "Lifo")
<1>1. PICK k : k = Keep(l.op)
  BY Zenon
<1>2. k \in Int
  BY <1>1, KeepFacts, Zenon
<1>3. l.i < l.n + k
  BY <1>1, Zenon
<1>4. 1 <= m.i /\ m.i <= l.n + k
  BY <1>2, <1>3
<1> QED
  BY <1>1, <1>4, Zenon DEF Counts, DerefPcs

-----------------------------------------------------------------------------

\* Every step keeps the invariant.
LEMMA IndexNext ==
  ASSUME BufferInv, TypeOK', IndexInv, [Next]_vars
  PROVE  IndexInv'
<1> TypeOK
  BY Zenon DEF BufferInv
\* The owner's view survives that.
<1>OwnDrift. ASSUME NEW p \in Pcs, NEW l \in LocType, NEW f \in Int, NEW b \in Int,
                    NEW k \in Nat \ {0}, NEW g \in Int, Own(p, l, f, b, k), f <= g, g <= b + Live(p),
                    p # "pop_restore"
      PROVE  Own(p, l, g, b, k)
    BY <1>OwnDrift DEF Own, Live, LocType, PushPcs
\* A thief's view survives that.
<1>AimOnward. ASSUME NEW p, NEW l \in LocType, NEW v, NEW f \in Int, NEW b \in Int,
                     NEW e \in Int, NEW g \in Int, NEW d \in Int, NEW h \in Int,
                     Aim(p, l, v, f, b, e), v = "Fifo" => d >= b,
                     v = "Lifo" => g >= f /\ (g = f /\ f < e => f < h)
      PROVE  Aim(p, l, v, g, d, h)
  <2> USE <1>AimOnward
  <2>1. l.f \in Int /\ l.n \in Int /\ Keep(l.op) \in Int
    BY DEF LocType, Keep
  <2> QED
    BY <2>1 DEF Aim
\* Drifting is one way of going on.
<1>DriftOnward. ASSUME NEW e \in Cpus, Drift(e), Live(pc'[e]) = Live(pc[e])
      PROVE  Onward(e)
    BY <1>DriftOnward, Typed DEF Drift, Onward
\* A step of c: the other queues drift, and c keeps the rest.
<1>IndexStep. ASSUME NEW c \in Cpus, Others(c), \A e \in Cpus \ {c} : Drift(e), Onward(c),
                     CapInv', OwnI(c)', ThiefI(c)'
      PROVE  IndexInv'
  <2> USE <1>IndexStep
  <2>1. ASSUME NEW e \in Cpus, e # c PROVE OwnI(e)'
    <3>0. pc'[e] = pc[e] /\ loc'[e] = loc[e] /\ Drift(e)
      BY <2>1, Zenon DEF Others
    <3>1. OwnI(e)
      BY Zenon DEF IndexInv
    <3>2. front'[e] \in Int
      BY Typed, TypeOK', Zenon DEF TypeOK, MemoryOK
    <3>3. CASE front'[e] = front[e]
      BY <3>0, <3>1, <3>3, Zenon DEF OwnI, Drift
    <3>4. CASE front'[e] # front[e]
      <4>1. Own(pc[e], loc[e], front'[e], back[e], cap[buffer[e]])
        <5>1. /\ pc[e] \in Pcs /\ loc[e] \in LocType /\ front[e] \in Int /\ back[e] \in Int
              /\ cap[buffer[e]] \in Nat \ {0}
          BY Typed, Zenon
        <5>2. /\ front[e] <= front'[e] /\ front'[e] <= back[e] + Live(pc[e])
              /\ pc[e] # "pop_restore"
          BY <3>0, <3>4, Zenon DEF Drift
        <5> QED
          BY <3>1, <3>2, <5>1, <5>2, <1>OwnDrift, Zenon DEF OwnI
      <4> QED
        BY <3>0, <3>1, <4>1, Zenon DEF OwnI, Drift
    <3> QED
      BY <3>3, <3>4, Zenon
  <2>2. ASSUME NEW e \in Cpus PROVE Onward(e)
    <3>1. CASE e = c
      BY <3>1, Zenon
    <3>2. CASE e # c
      BY <3>2, <1>DriftOnward, Zenon DEF Others
    <3> QED
      BY <3>1, <3>2, Zenon
  <2>3. ASSUME NEW d \in Cpus, d # c PROVE ThiefI(d)'
    <3>0. pc'[d] = pc[d] /\ loc'[d] = loc[d]
      BY <2>3, Zenon DEF Others
    <3>1. SUFFICES ASSUME Stealing(pc[d], loc[d]) PROVE ThiefI(d)'
      BY <3>0, Zenon DEF ThiefI, Stealing
    <3>2. PICK s : s = loc[d].src
      BY Zenon
    <3>3. s \in Cpus /\ loc[d] \in LocType
      BY <3>1, <3>2, Typed, Zenon DEF LocOK, Stealing
    <3>4. /\ loc[d].op # "steal" => s # d
          /\ Counts(pc[d], loc[d], Flavor[s])
          /\ Aim(pc[d], loc[d], Flavor[s], front[s], back[s], back[s] + Live(pc[s]))
      BY <3>1, <3>2, Zenon DEF IndexInv, ThiefI
    <3>5. /\ front[s] \in Int /\ back[s] \in Int /\ back[s] + Live(pc[s]) \in Int
          /\ front'[s] \in Int /\ back'[s] \in Int /\ back'[s] + Live(pc'[s]) \in Int
      <4>1. Live(pc[s]) \in Int /\ Live(pc'[s]) \in Int
        BY DEF Live
      <4>2. front' \in [Cpus -> Int] /\ back' \in [Cpus -> Int]
        BY Zenon DEF TypeOK, MemoryOK
      <4> QED
        <5>1. front[s] \in Int /\ back[s] \in Int /\ front'[s] \in Int /\ back'[s] \in Int
          BY <3>3, <4>2, Typed, Zenon
        <5> QED
          BY <4>1, <5>1
    <3>6. Aim(pc[d], loc[d], Flavor[s], front'[s], back'[s], back'[s] + Live(pc'[s]))
      <4>1. /\ Flavor[s] = "Fifo" => back'[s] >= back[s]
            /\ Flavor[s] = "Lifo" =>
                 /\ front'[s] >= front[s]
                 /\ front'[s] = front[s] /\ front[s] < back[s] + Live(pc[s])
                      => front[s] < back'[s] + Live(pc'[s])
        BY <2>2, <3>3, Zenon DEF Onward
      <4> QED
        BY <3>3, <3>4, <3>5, <4>1, <1>AimOnward
    <3> QED
      BY <3>0, <3>2, <3>4, <3>6, Zenon DEF ThiefI
  <2> QED
    BY <2>1, <2>3, Zenon DEF IndexInv
\* A step of c that leaves all indices and buffers alone.
<1>Local. ASSUME NEW c \in Cpus, Others(c), UNCHANGED <<front, back, buffer, cap>>, Onward(c),
                 pc'[c] # "resize_swap", pc'[c] = "resize" => loc'[c].ncap \in Caps, OwnI(c)',
                 ThiefI(c)'
      PROVE  IndexInv'
  <2> USE <1>Local
  <2>1. \A e \in Cpus \ {c} : Drift(e)
    BY Zenon DEF Drift
  <2>2. CapInv'
    <3>1. \A b \in Bufs : cap'[b] \in Caps
      BY Zenon DEF IndexInv, CapInv
    <3>2. ASSUME NEW d \in Cpus
          PROVE  /\ pc'[d] \in ResizePcs => loc'[d].ncap \in Caps
                 /\ pc'[d] = "resize_swap" => cap'[loc'[d].nbuf] = loc'[d].ncap
      <4>1. CASE d = c
        BY <4>1, Zenon DEF ResizePcs
      <4>2. CASE d # c
        BY <4>2, Zenon DEF IndexInv, CapInv, Others
      <4> QED
        BY <4>1, <4>2, Zenon
    <3> QED
      BY <3>1, <3>2, Zenon DEF CapInv
  <2> QED
    BY <2>1, <2>2, <1>IndexStep, Zenon
\* A step of c that moves an index of c, and no buffer.
<1>Move. ASSUME NEW c \in Cpus, Others(c), UNCHANGED <<buffer, cap>>,
                \A e \in Cpus \ {c} : front'[e] = front[e] /\ back'[e] = back[e], Onward(c),
                pc'[c] # "resize_swap", pc'[c] = "resize" => loc'[c].ncap \in Caps, OwnI(c)',
                ThiefI(c)'
      PROVE  IndexInv'
  <2> USE <1>Move
  <2>1. \A e \in Cpus \ {c} : Drift(e)
    BY Zenon DEF Drift
  <2>2. CapInv'
    <3>1. \A b \in Bufs : cap'[b] \in Caps
      BY Zenon DEF IndexInv, CapInv
    <3>2. ASSUME NEW d \in Cpus
          PROVE  /\ pc'[d] \in ResizePcs => loc'[d].ncap \in Caps
                 /\ pc'[d] = "resize_swap" => cap'[loc'[d].nbuf] = loc'[d].ncap
      <4>1. CASE d = c
        BY <4>1, Zenon DEF ResizePcs
      <4>2. CASE d # c
        BY <4>2, Zenon DEF IndexInv, CapInv, Others
      <4> QED
        BY <4>1, <4>2, Zenon
    <3> QED
      BY <3>1, <3>2, Zenon DEF CapInv
  <2> QED
    BY <2>1, <2>2, <1>IndexStep, Zenon
\* An operation that is not a steal has no thief's claims.
<1>NotStealing. ASSUME NEW p, NEW l,
                       p \in {"idle"} \cup PushPcs \cup PopPcs \/ (p \in ResizePcs /\ l.ret # "load_buf")
      PROVE  ~Stealing(p, l)
    BY <1>NotStealing, Zenon DEF Stealing, PushPcs, PopPcs, ResizePcs, StealPcs, DerefPcs
<1>Push. ASSUME NEW c \in Cpus, NEW t \in Tasks, Push(c, t)
      PROVE  IndexInv'
  <2> USE <1>Push
  <2>T. /\ front[c] \in Int /\ back[c] \in Int /\ cap[buffer[c]] \in Nat \ {0}
        /\ loc[c].f \in Int /\ loc[c].n \in Int /\ loc[c].i \in Int /\ loc[c].len \in Int
        /\ loc[c].ncap \in Nat
    BY Typed, Zenon
  <2>O. /\ Own(pc[c], loc[c], front[c], back[c], cap[buffer[c]]) /\ Kind(pc[c], Flavor[c])
        /\ cap[buffer[c]] >= MIN_CAP /\ MIN_CAP \in Nat /\ MIN_CAP > 0
        /\ Flavor[c] \in {"Fifo", "Lifo"}
    BY OwnFacts, Zenon
  <2>1. /\ Quiet /\ Others(c) /\ pc[c] = "idle"
        /\ Same(loc'[c], NoLoc, {"op", "task", "ncap", "ret"})
        /\ \/ /\ pc'[c] = "resize" /\ loc'[c].ncap = 2 * cap[buffer[c]]
              /\ loc'[c].ret = "push_write"
           \/ /\ back[c] - front[c] < cap[buffer[c]]
              /\ pc'[c] = "push_write"
    <3>1. PICK l : l = [NoLoc EXCEPT !.op = "push", !.task = t]
      BY Zenon
    <3>2. l \in LocType
      BY <3>1, PushLocType, Zenon DEF PushLoc
    <3>3. l.op = "push" /\ l.task = t /\ Same(l, NoLoc, {"op", "task"})
      BY <3>1, Zenon DEF Same, Fields, NoLoc
    <3>4. /\ Quiet /\ pc[c] = "idle" /\ t \notin pushed
          /\ \A d \in Cpus : loc[d].op = "push" => loc[d].task # t
      BY Zenon DEF Push, Quiet, queues, memory, history
    <3>5. IF back[c] - front[c] >= cap[buffer[c]]
          THEN CallResize(c, l, 2 * cap[buffer[c]], "push_write")
          ELSE Goto(c, "push_write") /\ loc' = [loc EXCEPT ![c] = l]
      BY <3>1, Zenon DEF Push
    <3>6. CASE back[c] - front[c] >= cap[buffer[c]]
      <4>1. /\ Others(c) /\ pc'[c] = "resize" /\ loc'[c].ncap = 2 * cap[buffer[c]]
            /\ loc'[c].ret = "push_write" /\ Same(loc'[c], l, {"ncap", "ret"})
        <5>1. CallResize(c, l, 2 * cap[buffer[c]], "push_write")
          BY <3>5, <3>6, Zenon
        <5> QED
          BY <3>2, <5>1, CallDoes
      <4>2. /\ loc'[c].op = "push" /\ loc'[c].task = t
            /\ Same(loc'[c], NoLoc, {"op", "task", "ncap", "ret"})
        BY <3>3, <4>1, Zenon DEF Same, Fields
      <4> QED
        BY <3>4, <3>6, <4>1, <4>2, Zenon
    <3>7. CASE ~(back[c] - front[c] >= cap[buffer[c]])
      <4>1. Others(c) /\ pc'[c] = "push_write" /\ loc'[c] = l
        BY <3>5, <3>7, Shapes, Zenon DEF Goto, Others
      <4>2. back[c] - front[c] < cap[buffer[c]]
        BY <3>7, <2>T
      <4>3. Same(loc'[c], NoLoc, {"op", "task", "ncap", "ret"})
        BY <3>3, <4>1, Zenon DEF Same, Fields
      <4> QED
        BY <3>3, <3>4, <4>1, <4>2, <4>3, Zenon
    <3> QED
      BY <3>6, <3>7, Zenon
  <2>2. loc'[c].n = 0
    BY <2>1, Zenon DEF Same, Fields, NoLoc
  <2>3. UNCHANGED <<front, back, buffer, cap>>
    BY <2>1, Zenon DEF Quiet
  <2>4. ~Stealing(pc'[c], loc'[c])
    BY <2>1, <1>NotStealing, Zenon DEF PushPcs, ResizePcs
  <2>5. Own(pc'[c], loc'[c], front[c], back[c], cap[buffer[c]])
    <3>1. /\ Own("idle", loc[c], front[c], back[c], cap[buffer[c]])
          /\ \/ pc'[c] = "resize" /\ loc'[c].ncap = 2 * cap[buffer[c]]
             \/ pc'[c] = "push_write" /\ back[c] - front[c] < cap[buffer[c]]
      BY <2>1, <2>O, Zenon
    <3> QED
      BY <2>2, <2>T, <3>1, OwnPush
  <2>6. Kind(pc'[c], Flavor[c])
    BY <2>1, Zenon DEF Kind
  <2>7. pc'[c] = "resize" => loc'[c].ncap \in Caps
    BY <2>1, OwnFacts, CapsFacts, Zenon
  <2>8. Onward(c)
    <3>1. front'[c] = front[c] /\ back'[c] = back[c] /\ Live(pc'[c]) = Live(pc[c])
      BY <2>1, <2>3, Zenon DEF Live
    <3> QED
      BY <3>1, OnwardStill, Zenon
  <2> QED
    BY <2>1, <2>3, <2>4, <2>5, <2>6, <2>7, <2>8, <1>Local, Zenon DEF OwnI, ThiefI, Stealing
<1>PushWrite. ASSUME NEW c \in Cpus, PushWrite(c)
      PROVE  IndexInv'
  <2> USE <1>PushWrite
  <2>T. /\ front[c] \in Int /\ back[c] \in Int /\ cap[buffer[c]] \in Nat \ {0}
        /\ loc[c].f \in Int /\ loc[c].n \in Int /\ loc[c].i \in Int /\ loc[c].len \in Int
        /\ loc[c].ncap \in Nat
    BY Typed, Zenon
  <2>1. /\ Others(c) /\ pc[c] = "push_write" /\ pc'[c] = "push_store" /\ loc'[c] = loc[c]
        /\ UNCHANGED <<front, back, buffer, cap>>
    BY Shapes, Zenon DEF PushWrite, Goto, Others, queues, history
  <2>2. Own(pc'[c], loc'[c], front[c], back[c], cap[buffer[c]]) /\ Kind(pc'[c], Flavor[c])
    BY <2>1, OwnFacts, Typed, Zenon DEF Own, Live, PushPcs, ResizePcs, DerefPcs, Kind
  <2>3. Onward(c) /\ ~Stealing(pc'[c], loc'[c])
    <3>1. front'[c] = front[c] /\ back'[c] = back[c] /\ Live(pc'[c]) = Live(pc[c])
      BY <2>1, Zenon DEF Live
    <3>2. ~Stealing(pc'[c], loc'[c])
      BY <2>1, <1>NotStealing, Zenon DEF PushPcs
    <3> QED
      BY <3>1, <3>2, OnwardStill, Zenon
  <2> QED
    BY <2>1, <2>2, <2>3, <1>Local, Zenon DEF OwnI, ThiefI, Stealing
<1>PushStore. ASSUME NEW c \in Cpus, PushStore(c)
      PROVE  IndexInv'
  <2> USE <1>PushStore
  <2>T. /\ front[c] \in Int /\ back[c] \in Int /\ cap[buffer[c]] \in Nat \ {0}
        /\ loc[c].f \in Int /\ loc[c].n \in Int /\ loc[c].i \in Int /\ loc[c].len \in Int
        /\ loc[c].ncap \in Nat
    BY Typed, Zenon
  <2>O. /\ Own(pc[c], loc[c], front[c], back[c], cap[buffer[c]]) /\ Kind(pc[c], Flavor[c])
        /\ cap[buffer[c]] >= MIN_CAP /\ MIN_CAP \in Nat /\ MIN_CAP > 0
        /\ Flavor[c] \in {"Fifo", "Lifo"}
    BY OwnFacts, Zenon
  <2>1. /\ Others(c) /\ pc[c] = "push_store" /\ pc'[c] = "idle" /\ loc'[c] = NoLoc
        /\ back' = [back EXCEPT ![c] = @ + 1] /\ UNCHANGED <<front, buffer, cap>>
    BY ReturnDoes, Zenon DEF PushStore, memory
  <2>2. back'[c] = back[c] + 1 /\ \A e \in Cpus \ {c} : front'[e] = front[e] /\ back'[e] = back[e]
    BY <2>1, Shapes, Zenon
  <2>3. Own(pc'[c], loc'[c], front[c], back'[c], cap[buffer[c]]) /\ Kind(pc'[c], Flavor[c])
    <3>1. Own("push_store", loc[c], front[c], back[c], cap[buffer[c]])
      BY <2>1, <2>O, Zenon
    <3>2. Own("idle", loc'[c], front[c], back[c] + 1, cap[buffer[c]])
      BY <2>T, <3>1, OwnStore, Zenon
    <3> QED
      BY <2>1, <2>2, <3>2, Zenon DEF Kind
  <2>4. Onward(c) /\ ~Stealing(pc'[c], loc'[c])
    <3>1. /\ front'[c] = front[c] /\ Live(pc'[c]) = 0 /\ Live(pc[c]) = 0
          /\ \E n \in Nat : back'[c] = back[c] + n
      BY <2>1, <2>2, Zenon DEF Live
    <3> QED
      BY <2>1, <3>1, <1>NotStealing, OnwardStill, Zenon
  <2> QED
    BY <2>1, <2>2, <2>3, <2>4, <1>Move, Zenon DEF OwnI, ThiefI, Stealing
<1>Pop. ASSUME NEW c \in Cpus, Pop(c)
      PROVE  IndexInv'
  <2> USE <1>Pop
  <2>T. /\ front[c] \in Int /\ back[c] \in Int /\ cap[buffer[c]] \in Nat \ {0}
        /\ loc[c].f \in Int /\ loc[c].n \in Int /\ loc[c].i \in Int /\ loc[c].len \in Int
        /\ loc[c].ncap \in Nat
    BY Typed, Zenon
  <2>O. /\ Own(pc[c], loc[c], front[c], back[c], cap[buffer[c]]) /\ Kind(pc[c], Flavor[c])
        /\ cap[buffer[c]] >= MIN_CAP /\ MIN_CAP \in Nat /\ MIN_CAP > 0
        /\ Flavor[c] \in {"Fifo", "Lifo"}
    BY OwnFacts, Zenon
  <2>1. /\ Quiet /\ Others(c) /\ pc[c] = "idle"
        /\ pc'[c] = IF Flavor[c] = "Fifo" THEN "pop_fetch" ELSE "pop_dec"
        /\ loc'[c].len = back[c] - front[c]
    <3>1. loc[c] = NoLoc
      BY Typed, Zenon DEF Pop, LocOK
    <3>2. loc'[c] = [loc[c] EXCEPT !.op = "pop", !.len = back[c] - front[c]]
      BY Shapes, Zenon DEF Pop
    <3>3. /\ loc'[c].op = "pop" /\ loc'[c].len = back[c] - front[c]
          /\ Same(loc'[c], NoLoc, {"op", "len"})
      BY <3>1, <3>2, Zenon DEF Same, Fields, NoLoc
    <3> QED
      BY <3>3, Shapes, Zenon DEF Pop, Goto, Others, Quiet, queues, memory, history
  <2>2. UNCHANGED <<front, back, buffer, cap>>
    BY <2>1, Zenon DEF Quiet
  <2>3. Own(pc'[c], loc'[c], front[c], back[c], cap[buffer[c]]) /\ Kind(pc'[c], Flavor[c])
    <3>1. /\ Own(pc[c], loc[c], front[c], back[c], cap[buffer[c]]) /\ pc[c] \in {"idle", "load_back"}
          /\ pc'[c] \in {"load_back", "pop_dec", "reserve"} \/ (pc'[c] = "pop_fetch" /\ loc'[c].len = back[c] - front[c])
      BY <2>1, <2>O, Zenon
    <3>2. Own(pc'[c], loc'[c], front[c], back[c], cap[buffer[c]])
      BY <2>T, <3>1, OwnBegin
    <3> QED
      BY <2>1, <2>O, <3>2, Zenon DEF Kind
  <2>4. Onward(c) /\ ~Stealing(pc'[c], loc'[c])
    <3>1. front'[c] = front[c] /\ back'[c] = back[c] /\ Live(pc'[c]) = Live(pc[c])
      BY <2>1, <2>2, Zenon DEF Live
    <3>2. ~Stealing(pc'[c], loc'[c])
      BY <2>1, <1>NotStealing, Zenon DEF PopPcs
    <3> QED
      BY <3>1, <3>2, OnwardStill, Zenon
  <2>5. pc'[c] # "resize_swap" /\ pc'[c] # "resize"
    BY <2>1, Zenon
  <2> QED
    BY <2>1, <2>2, <2>3, <2>4, <2>5, <1>Local, Zenon DEF OwnI, ThiefI, Stealing
<1>PopFetch. ASSUME NEW c \in Cpus, PopFetch(c)
      PROVE  IndexInv'
  <2> USE <1>PopFetch
  <2>T. /\ front[c] \in Int /\ back[c] \in Int /\ cap[buffer[c]] \in Nat \ {0}
        /\ loc[c].f \in Int /\ loc[c].n \in Int /\ loc[c].i \in Int /\ loc[c].len \in Int
        /\ loc[c].ncap \in Nat
    BY Typed, Zenon
  <2>O. /\ Own(pc[c], loc[c], front[c], back[c], cap[buffer[c]]) /\ Kind(pc[c], Flavor[c])
        /\ cap[buffer[c]] >= MIN_CAP /\ MIN_CAP \in Nat /\ MIN_CAP > 0
        /\ Flavor[c] \in {"Fifo", "Lifo"}
    BY OwnFacts, Zenon
  <2>1. /\ Others(c) /\ pc[c] = "pop_fetch" /\ front' = [front EXCEPT ![c] = @ + 1]
        /\ UNCHANGED <<back, buffer, cap>>
        /\ \/ /\ back[c] < front[c] + 1
              /\ pc'[c] = "pop_restore" /\ loc'[c].f = front[c]
           \/ /\ back[c] >= front[c] + 1
              /\ \/ pc'[c] = "idle" /\ loc'[c] = NoLoc
                 \/ /\ pc'[c] = "resize" /\ Same(loc'[c], NoLoc, {"ncap", "ret"})
                    /\ loc'[c].ncap = cap[buffer[c]] \div 2 /\ loc'[c].ret = "idle"
                    /\ cap[buffer[c]] > MIN_CAP /\ loc[c].len <= cap[buffer[c]] \div 4
    <3>0. /\ pc[c] = "pop_fetch" /\ front' = [front EXCEPT ![c] = @ + 1]
          /\ UNCHANGED <<back, buffer, cap, slot, garbage, pinned, pushed, stolen>>
      BY Zenon DEF PopFetch, memory
    <3>1. CASE /\ back[c] - (front[c] + 1) < 0
               /\ loc' = [loc EXCEPT ![c].f = front[c]]
               /\ Goto(c, "pop_restore")
               /\ UNCHANGED taken
      <4>1. loc'[c] = [loc[c] EXCEPT !.f = front[c]] /\ Others(c) /\ pc'[c] = "pop_restore"
        BY <3>1, Shapes, Zenon DEF Goto, Others
      <4>2. loc'[c].f = front[c] /\ Same(loc'[c], loc[c], {"f"})
        BY <4>1, Typed, Zenon DEF Same, Fields, LocType
      <4>3. back[c] < front[c] + 1
        BY <3>1, <2>T
      <4> QED
        BY <3>0, <3>1, <4>1, <4>2, <4>3, Zenon
    <3>2. CASE /\ back[c] - (front[c] + 1) >= 0
               /\ Take(At(buffer[c], front[c]))
               /\ PopReturn(c, loc[c].len <= cap[buffer[c]] \div 4)
      <4>1. (loc[c].len <= cap[buffer[c]] \div 4) \in BOOLEAN
        BY <2>T, SMTT(30)
      <4>2. back[c] >= front[c] + 1
        BY <3>2, <2>T, SMTT(30)
      <4> QED
        BY <3>0, <3>2, <4>1, <4>2, PopReturnDoes, Zenon
    <3> QED
      BY <3>1, <3>2, Zenon DEF PopFetch
  <2>2. front'[c] = front[c] + 1 /\ \A e \in Cpus \ {c} : front'[e] = front[e] /\ back'[e] = back[e]
    BY <2>1, Shapes, Zenon
  <2>3. pc'[c] = "resize" => loc'[c].n = 0
    BY <2>1, Zenon DEF Same, Fields, NoLoc
  <2>4. Own(pc'[c], loc'[c], front'[c], back[c], cap[buffer[c]]) /\ Kind(pc'[c], Flavor[c])
    <3>1. Own("pop_fetch", loc[c], front[c], back[c], cap[buffer[c]]) /\ Flavor[c] = "Fifo"
      BY <2>1, <2>O, Zenon DEF Kind
    <3>3. \/ back[c] < front[c] + 1 /\ pc'[c] = "pop_restore" /\ loc'[c].f = front[c]
          \/ back[c] >= front[c] + 1 /\ pc'[c] = "idle"
          \/ /\ back[c] >= front[c] + 1 /\ pc'[c] = "resize" /\ loc'[c].n = 0
             /\ loc'[c].ncap = cap[buffer[c]] \div 2 /\ loc'[c].ret = "idle"
             /\ loc[c].len <= cap[buffer[c]] \div 4
      BY <2>1, <2>3, Zenon
    <3>4. Own(pc'[c], loc'[c], front[c] + 1, back[c], cap[buffer[c]])
      BY <2>T, <3>1, <3>3, OwnFetch
    <3>5. Kind(pc'[c], Flavor[c])
      BY <3>1, <3>3, Zenon DEF Kind
    <3> QED
      BY <2>2, <3>4, <3>5, Zenon
  <2>5. Onward(c) /\ ~Stealing(pc'[c], loc'[c])
    <3>1. Flavor[c] = "Fifo" /\ back'[c] = back[c]
      BY <2>1, <2>O, Zenon DEF Kind
    <3>2. ~Stealing(pc'[c], loc'[c])
      BY <2>1, <1>NotStealing, Zenon DEF PopPcs, ResizePcs
    <3> QED
      BY <3>1, <3>2, OnwardFifo, Zenon
  <2>6. pc'[c] # "resize_swap" /\ (pc'[c] = "resize" => loc'[c].ncap \in Caps)
    BY <2>1, OwnFacts, CapsFacts, Zenon
  <2> QED
    BY <2>1, <2>2, <2>4, <2>5, <2>6, <1>Move, Zenon DEF OwnI, ThiefI, Stealing
<1>PopRestore. ASSUME NEW c \in Cpus, PopRestore(c)
      PROVE  IndexInv'
  <2> USE <1>PopRestore
  <2>T. /\ front[c] \in Int /\ back[c] \in Int /\ cap[buffer[c]] \in Nat \ {0}
        /\ loc[c].f \in Int /\ loc[c].n \in Int /\ loc[c].i \in Int /\ loc[c].len \in Int
        /\ loc[c].ncap \in Nat
    BY Typed, Zenon
  <2>O. /\ Own(pc[c], loc[c], front[c], back[c], cap[buffer[c]]) /\ Kind(pc[c], Flavor[c])
        /\ cap[buffer[c]] >= MIN_CAP /\ MIN_CAP \in Nat /\ MIN_CAP > 0
        /\ Flavor[c] \in {"Fifo", "Lifo"}
    BY OwnFacts, Zenon
  <2>1. /\ Others(c) /\ pc[c] = "pop_restore" /\ pc'[c] = "idle" /\ loc'[c] = NoLoc
        /\ front' = [front EXCEPT ![c] = loc[c].f] /\ UNCHANGED <<back, buffer, cap>>
    BY ReturnDoes, Zenon DEF PopRestore, memory, history
  <2>2. front'[c] = loc[c].f /\ \A e \in Cpus \ {c} : front'[e] = front[e] /\ back'[e] = back[e]
    BY <2>1, Shapes, Zenon
  <2>3. Own(pc'[c], loc'[c], front'[c], back[c], cap[buffer[c]]) /\ Kind(pc'[c], Flavor[c])
    <3>1. Own("pop_restore", loc[c], front[c], back[c], cap[buffer[c]])
      BY <2>1, <2>O, Zenon
    <3>2. Own("idle", loc'[c], loc[c].f, back[c], cap[buffer[c]])
      BY <2>T, <3>1, OwnRestore, Zenon
    <3> QED
      BY <2>1, <2>2, <3>2, Zenon DEF Kind
  <2>4. Onward(c) /\ ~Stealing(pc'[c], loc'[c])
    <3>1. Flavor[c] = "Fifo" /\ back'[c] = back[c]
      BY <2>1, <2>O, Zenon DEF Kind
    <3> QED
      BY <2>1, <3>1, <1>NotStealing, OnwardFifo, Zenon
  <2> QED
    BY <2>1, <2>2, <2>3, <2>4, <1>Move, Zenon DEF OwnI, ThiefI, Stealing
<1>PopDec. ASSUME NEW c \in Cpus, PopDec(c)
      PROVE  IndexInv'
  <2> USE <1>PopDec
  <2>T. /\ front[c] \in Int /\ back[c] \in Int /\ cap[buffer[c]] \in Nat \ {0}
        /\ loc[c].f \in Int /\ loc[c].n \in Int /\ loc[c].i \in Int /\ loc[c].len \in Int
        /\ loc[c].ncap \in Nat
    BY Typed, Zenon
  <2>O. /\ Own(pc[c], loc[c], front[c], back[c], cap[buffer[c]]) /\ Kind(pc[c], Flavor[c])
        /\ cap[buffer[c]] >= MIN_CAP /\ MIN_CAP \in Nat /\ MIN_CAP > 0
        /\ Flavor[c] \in {"Fifo", "Lifo"}
    BY OwnFacts, Zenon
  <2>1. /\ Others(c) /\ pc[c] = "pop_dec" /\ pc'[c] = "pop_check" /\ loc'[c] = loc[c]
        /\ back' = [back EXCEPT ![c] = @ - 1] /\ UNCHANGED <<front, buffer, cap>>
    BY Shapes, Zenon DEF PopDec, Goto, Others, memory, history
  <2>2. back'[c] = back[c] - 1 /\ \A e \in Cpus \ {c} : front'[e] = front[e] /\ back'[e] = back[e]
    BY <2>1, Shapes, Zenon
  <2>3. Own(pc'[c], loc'[c], front[c], back'[c], cap[buffer[c]]) /\ Kind(pc'[c], Flavor[c])
    <3>1. Own("pop_dec", loc[c], front[c], back[c], cap[buffer[c]]) /\ Flavor[c] = "Lifo"
      BY <2>1, <2>O, Zenon DEF Kind
    <3>2. Own("pop_check", loc'[c], front[c], back[c] - 1, cap[buffer[c]])
      BY <2>T, <3>1, OwnDec, Zenon
    <3> QED
      BY <2>1, <2>2, <3>1, <3>2, Zenon DEF Kind
  <2>4. Onward(c) /\ ~Stealing(pc'[c], loc'[c])
    <3>1. /\ Flavor[c] = "Lifo" /\ front'[c] = front[c] /\ back'[c] = back[c] - 1
          /\ Live(pc'[c]) = 1 /\ Live(pc[c]) = 0
      BY <2>1, <2>2, <2>O, Zenon DEF Kind, Live
    <3>2. ~Stealing(pc'[c], loc'[c])
      BY <2>1, <1>NotStealing, Zenon DEF PopPcs
    <3> QED
      BY <3>1, <3>2, OnwardStill, Zenon
  <2> QED
    BY <2>1, <2>2, <2>3, <2>4, <1>Move, Zenon DEF OwnI, ThiefI, Stealing
<1>PopCheck. ASSUME NEW c \in Cpus, PopCheck(c)
      PROVE  IndexInv'
  <2> USE <1>PopCheck
  <2>T. /\ front[c] \in Int /\ back[c] \in Int /\ cap[buffer[c]] \in Nat \ {0}
        /\ loc[c].f \in Int /\ loc[c].n \in Int /\ loc[c].i \in Int /\ loc[c].len \in Int
        /\ loc[c].ncap \in Nat
    BY Typed, Zenon
  <2>1. /\ Others(c) /\ pc[c] = "pop_check" /\ UNCHANGED <<front, back, buffer, cap>>
        /\ \/ /\ back[c] < front[c] /\ pc'[c] = "pop_undo" /\ loc'[c] = loc[c]
           \/ /\ back[c] = front[c] /\ pc'[c] = "pop_cas" /\ loc'[c].f = front[c]
           \/ /\ back[c] > front[c]
              /\ \/ pc'[c] = "idle" /\ loc'[c] = NoLoc
                 \/ /\ pc'[c] = "resize" /\ Same(loc'[c], NoLoc, {"ncap", "ret"})
                    /\ loc'[c].ncap = cap[buffer[c]] \div 2 /\ loc'[c].ret = "idle"
                    /\ cap[buffer[c]] > MIN_CAP /\ back[c] - front[c] < cap[buffer[c]] \div 4
    <3>0. /\ pc[c] = "pop_check"
          /\ UNCHANGED <<front, back, buffer, cap, slot, garbage, pinned, pushed, stolen>>
      BY Zenon DEF PopCheck, queues, memory
    <3>1. CASE /\ back[c] - front[c] < 0
               /\ Goto(c, "pop_undo")
               /\ UNCHANGED <<loc, taken>>
      <4>1. back[c] < front[c]
        BY <3>1, <2>T, SMTT(30)
      <4> QED
        BY <3>0, <3>1, <4>1, Shapes, Zenon DEF Goto, Others
    <3>2. CASE /\ back[c] - front[c] = 0
               /\ loc' = [loc EXCEPT ![c].f = front[c], ![c].task = At(buffer[c], back[c])]
               /\ Goto(c, "pop_cas")
               /\ UNCHANGED taken
      <4>1. /\ loc'[c] = [loc[c] EXCEPT !.f = front[c], !.task = At(buffer[c], back[c])]
            /\ Others(c) /\ pc'[c] = "pop_cas"
        BY <3>2, Shapes, Zenon DEF Goto, Others
      <4>2. /\ loc'[c].f = front[c] /\ loc'[c].task = At(buffer[c], back[c])
            /\ Same(loc'[c], loc[c], {"f", "task"})
        BY <4>1, Typed, Zenon DEF Same, Fields, LocType
      <4>3. back[c] = front[c]
        BY <3>2, <2>T
      <4> QED
        BY <3>0, <3>2, <4>1, <4>2, <4>3, Zenon
    <3>3. CASE /\ back[c] - front[c] > 0
               /\ Take(At(buffer[c], back[c]))
               /\ PopReturn(c, back[c] - front[c] < cap[buffer[c]] \div 4)
      <4>1. (back[c] - front[c] < cap[buffer[c]] \div 4) \in BOOLEAN /\ back[c] > front[c]
        BY <3>3, <2>T, SMTT(30)
      <4> QED
        BY <3>0, <3>3, <4>1, PopReturnDoes, Zenon
    <3> QED
      BY <3>1, <3>2, <3>3, Zenon DEF PopCheck
  <2>2. pc'[c] = "resize" => loc'[c].n = 0
    BY <2>1, Zenon DEF Same, Fields, NoLoc
  <2>3. Own("pop_check", loc[c], front[c], back[c], cap[buffer[c]]) /\ Flavor[c] = "Lifo"
    BY <2>1, OwnFacts, Zenon DEF Kind
  <2>4. /\ Own(pc'[c], loc'[c], front[c], back[c], cap[buffer[c]]) /\ Kind(pc'[c], Flavor[c])
        /\ Onward(c) /\ ~Stealing(pc'[c], loc'[c])
    <3>1. \/ back[c] < front[c] /\ pc'[c] = "pop_undo"
          \/ back[c] = front[c] /\ pc'[c] = "pop_cas" /\ loc'[c].f = front[c]
          \/ back[c] > front[c] /\ pc'[c] = "idle"
          \/ /\ back[c] > front[c] /\ pc'[c] = "resize" /\ loc'[c].n = 0
             /\ loc'[c].ncap = cap[buffer[c]] \div 2 /\ back[c] - front[c] < cap[buffer[c]] \div 4
             /\ loc'[c].ret = "idle"
      BY <2>1, <2>2, Zenon
    <3>2. Own(pc'[c], loc'[c], front[c], back[c], cap[buffer[c]])
      BY <2>T, <2>3, <3>1, OwnCheck
    <3>3. Kind(pc'[c], Flavor[c]) /\ ~Stealing(pc'[c], loc'[c])
      BY <2>3, <3>1, <1>NotStealing, Zenon DEF Kind, PopPcs, ResizePcs
    <3>4. Onward(c)
      <4>1. /\ front'[c] = front[c] /\ back'[c] = back[c] /\ Live(pc[c]) = 1
            /\ pc'[c] \in {"pop_undo", "pop_cas"} => Live(pc'[c]) = 1
        BY <2>1, Zenon DEF Live
      <4>2. back[c] > front[c] => front[c] < back[c] + Live(pc'[c]) /\ front[c] >= front[c]
        <5>1. Live(pc'[c]) \in {0, 1}
          BY Zenon DEF Live
        <5> QED
          BY <5>1, <2>T
      <4>3. CASE pc'[c] \in {"pop_undo", "pop_cas"}
        BY <4>1, <4>3, OnwardStill, Zenon
      <4>4. CASE back[c] > front[c]
        BY <2>3, <4>1, <4>2, <4>4, Zenon DEF Onward
      <4> QED
        BY <3>1, <4>3, <4>4, Zenon
    <3> QED
      BY <3>2, <3>3, <3>4, Zenon
  <2>5. pc'[c] # "resize_swap" /\ (pc'[c] = "resize" => loc'[c].ncap \in Caps)
    BY <2>1, OwnFacts, CapsFacts, Zenon
  <2> QED
    BY <2>1, <2>4, <2>5, <1>Local, Zenon DEF OwnI, ThiefI, Stealing
<1>PopCas. ASSUME NEW c \in Cpus, PopCas(c)
      PROVE  IndexInv'
  <2> USE <1>PopCas
  <2>T. /\ front[c] \in Int /\ back[c] \in Int /\ cap[buffer[c]] \in Nat \ {0}
        /\ loc[c].f \in Int /\ loc[c].n \in Int /\ loc[c].i \in Int /\ loc[c].len \in Int
        /\ loc[c].ncap \in Nat
    BY Typed, Zenon
  <2>O. /\ Own(pc[c], loc[c], front[c], back[c], cap[buffer[c]]) /\ Kind(pc[c], Flavor[c])
        /\ cap[buffer[c]] >= MIN_CAP /\ MIN_CAP \in Nat /\ MIN_CAP > 0
        /\ Flavor[c] \in {"Fifo", "Lifo"}
    BY OwnFacts, Zenon
  <2>1. /\ Others(c) /\ pc[c] = "pop_cas" /\ pc'[c] = "pop_undo" /\ loc'[c] = loc[c]
        /\ UNCHANGED <<back, buffer, cap>>
        /\ \/ front[c] = loc[c].f /\ front' = [front EXCEPT ![c] = @ + 1]
           \/ front[c] # loc[c].f /\ front' = front
    BY Shapes, Zenon DEF PopCas, Goto, Others, memory
  <2>2. /\ \A e \in Cpus \ {c} : front'[e] = front[e] /\ back'[e] = back[e]
        /\ \/ front[c] = loc[c].f /\ front'[c] = front[c] + 1
           \/ front'[c] = front[c]
    BY <2>1, Shapes, Zenon
  <2>3. Own(pc'[c], loc'[c], front'[c], back[c], cap[buffer[c]]) /\ Kind(pc'[c], Flavor[c])
    <3>1. Own("pop_cas", loc[c], front[c], back[c], cap[buffer[c]]) /\ Flavor[c] = "Lifo"
      BY <2>1, <2>O, Zenon DEF Kind
    <3>2. /\ Own("pop_undo", loc[c], front[c], back[c], cap[buffer[c]])
          /\ front[c] = loc[c].f => Own("pop_undo", loc[c], front[c] + 1, back[c], cap[buffer[c]])
      BY <2>T, <3>1, OwnCas, Zenon
    <3> QED
      BY <2>1, <2>2, <3>1, <3>2, Zenon DEF Kind
  <2>4. Onward(c) /\ ~Stealing(pc'[c], loc'[c])
    <3>1. Live(pc'[c]) = Live(pc[c]) /\ Flavor[c] # "Fifo" /\ back'[c] = back[c]
      BY <2>1, <2>O, Zenon DEF Kind, Live
    <3>2. ~Stealing(pc'[c], loc'[c])
      BY <2>1, <1>NotStealing, Zenon DEF PopPcs
    <3> QED
      BY <2>2, <3>1, <3>2, OnwardStep, OnwardStill, Zenon
  <2> QED
    BY <2>1, <2>2, <2>3, <2>4, <1>Move, Zenon DEF OwnI, ThiefI, Stealing
<1>PopUndo. ASSUME NEW c \in Cpus, PopUndo(c)
      PROVE  IndexInv'
  <2> USE <1>PopUndo
  <2>T. /\ front[c] \in Int /\ back[c] \in Int /\ cap[buffer[c]] \in Nat \ {0}
        /\ loc[c].f \in Int /\ loc[c].n \in Int /\ loc[c].i \in Int /\ loc[c].len \in Int
        /\ loc[c].ncap \in Nat
    BY Typed, Zenon
  <2>O. /\ Own(pc[c], loc[c], front[c], back[c], cap[buffer[c]]) /\ Kind(pc[c], Flavor[c])
        /\ cap[buffer[c]] >= MIN_CAP /\ MIN_CAP \in Nat /\ MIN_CAP > 0
        /\ Flavor[c] \in {"Fifo", "Lifo"}
    BY OwnFacts, Zenon
  <2>1. /\ Others(c) /\ pc[c] = "pop_undo" /\ pc'[c] = "idle" /\ loc'[c] = NoLoc
        /\ back' = [back EXCEPT ![c] = @ + 1] /\ UNCHANGED <<front, buffer, cap>>
    BY ReturnDoes, Zenon DEF PopUndo, memory, history
  <2>2. back'[c] = back[c] + 1 /\ \A e \in Cpus \ {c} : front'[e] = front[e] /\ back'[e] = back[e]
    BY <2>1, Shapes, Zenon
  <2>3. Own(pc'[c], loc'[c], front[c], back'[c], cap[buffer[c]]) /\ Kind(pc'[c], Flavor[c])
    <3>1. Own("pop_undo", loc[c], front[c], back[c], cap[buffer[c]])
      BY <2>1, <2>O, Zenon
    <3>2. Own("idle", loc'[c], front[c], back[c] + 1, cap[buffer[c]])
      BY <2>T, <3>1, OwnUndo, Zenon
    <3> QED
      BY <2>1, <2>2, <3>2, Zenon DEF Kind
  <2>4. Onward(c) /\ ~Stealing(pc'[c], loc'[c])
    <3>1. /\ front'[c] = front[c] /\ back'[c] = back[c] + 1
          /\ Live(pc'[c]) = 0 /\ Live(pc[c]) = 1
      BY <2>1, <2>2, Zenon DEF Live
    <3> QED
      BY <2>1, <3>1, <1>NotStealing, OnwardStill, Zenon
  <2> QED
    BY <2>1, <2>2, <2>3, <2>4, <1>Move, Zenon DEF OwnI, ThiefI, Stealing
\* A step of a thief c that leaves all indices and buffers alone: it is
\* enough to look at its locals.
<1>Thief. ASSUME NEW c \in Cpus, Others(c), UNCHANGED <<front, back, buffer, cap>>,
                 Live(pc'[c]) = Live(pc[c]), pc'[c] # "resize_swap",
                 pc'[c] = "resize" => loc'[c].ncap \in Caps,
                 Own(pc'[c], loc'[c], front[c], back[c], cap[buffer[c]]),
                 Kind(pc'[c], Flavor[c]), NEW s \in Cpus,
                 Stealing(pc'[c], loc'[c]) =>
                   /\ loc'[c].src = s /\ (loc'[c].op # "steal" => s # c)
                   /\ Counts(pc'[c], loc'[c], Flavor[s])
                   /\ Aim(pc'[c], loc'[c], Flavor[s], front[s], back[s], back[s] + Live(pc[s]))
      PROVE  IndexInv'
  <2> USE <1>Thief
  <2>T. /\ front[c] \in Int /\ back[c] \in Int /\ cap[buffer[c]] \in Nat \ {0}
        /\ loc[c].f \in Int /\ loc[c].n \in Int /\ loc[c].i \in Int /\ loc[c].len \in Int
        /\ loc[c].ncap \in Nat
    BY Typed, Zenon
  <2>1. OwnI(c)'
    BY Zenon DEF OwnI
  <2>2. Live(pc'[s]) = Live(pc[s])
    BY Zenon DEF Others
  <2>3. ThiefI(c)'
    <3>1. SUFFICES ASSUME Stealing(pc'[c], loc'[c]) PROVE ThiefI(c)'
      BY Zenon DEF ThiefI, Stealing
    <3> QED
      BY <2>2, <3>1, Zenon DEF ThiefI
  <2>4. Onward(c)
    <3>1. front'[c] = front[c] /\ back'[c] = back[c]
      BY Zenon
    <3> QED
      BY <3>1, OnwardStill, Zenon
  <2> QED
    BY <2>1, <2>3, <2>4, <1>Local, Zenon
<1>StealBegin. ASSUME NEW c \in Cpus, NEW s \in Cpus, NEW op \in StealOps, StealBegin(c, s, op)
      PROVE  IndexInv'
  <2> USE <1>StealBegin
  <2>T. /\ front[c] \in Int /\ back[c] \in Int /\ cap[buffer[c]] \in Nat \ {0}
        /\ loc[c].f \in Int /\ loc[c].n \in Int /\ loc[c].i \in Int /\ loc[c].len \in Int
        /\ loc[c].ncap \in Nat
    BY Typed, Zenon
  <2>1. /\ Quiet /\ Others(c) /\ pc[c] = "idle" /\ pc'[c] = "load_back"
        /\ op # "steal" => s # c
        /\ loc'[c].op = op /\ loc'[c].src = s /\ loc'[c].f = front[s]
        /\ Same(loc'[c], NoLoc, {"op", "src", "f"})
    <3>1. loc'[c] = [NoLoc EXCEPT !.op = op, !.src = s, !.f = front[s]]
      BY Shapes, Zenon DEF StealBegin
    <3>2. /\ loc'[c].op = op /\ loc'[c].src = s /\ loc'[c].f = front[s]
          /\ Same(loc'[c], NoLoc, {"op", "src", "f"})
      BY <3>1, Zenon DEF Same, Fields, NoLoc
    <3> QED
      BY <3>2, Shapes, Zenon DEF StealBegin, Goto, Others, Quiet, queues, memory, history
  <2>2. UNCHANGED <<front, back, buffer, cap>> /\ loc'[c].i = 0
    BY <2>1, Zenon DEF Quiet, Same, Fields, NoLoc
  <2>3. Own(pc'[c], loc'[c], front[c], back[c], cap[buffer[c]]) /\ Kind(pc'[c], Flavor[c])
    BY <2>1, OwnFacts, Typed, Zenon DEF Own, Live, PushPcs, ResizePcs, DerefPcs, Kind
  <2>4. ~Pinning(pc'[c], loc'[c]) /\ Live(pc'[c]) = Live(pc[c])
    BY <2>1, Zenon DEF Pinning, StealPcs, DerefPcs, ResizePcs, Live
  <2>5. Counts(pc'[c], loc'[c], Flavor[s])
    BY <2>1, <2>2, <2>4, Zenon DEF Counts
  <2>6. Aim(pc'[c], loc'[c], Flavor[s], front[s], back[s], back[s] + Live(pc[s]))
    <3>1. front[s] \in Int
      BY Typed, Zenon
    <3> QED
      BY <2>1, <2>4, <3>1 DEF Aim
  <2> QED
    BY <2>1, <2>2, <2>3, <2>4, <2>5, <2>6, <1>Thief, Zenon
\* How many tasks a batch is made of.
<1>BatchFacts. ASSUME NEW op \in StealOps, NEW len \in Int, len > 0, NEW n,
                      n = BatchSize(op, len)
      PROVE  /\ n \in Int /\ 0 <= n /\ n <= MAX_BATCH - Keep(op) /\ n + Keep(op) <= len
             /\ op = "steal" => n = 0
             /\ op = "batch" => n >= 1
  <2> USE <1>BatchFacts
  <2>0. MAX_BATCH \in Nat /\ MAX_BATCH > 0
    BY ConstAssumption
  <2>1. CASE op = "steal"
    BY <2>0, <2>1 DEF BatchSize, Keep
  <2>2. CASE op = "batch"
    BY <2>0, <2>2 DEF BatchSize, Keep
  <2>3. CASE op = "batchpop"
    BY <2>0, <2>3 DEF BatchSize, Keep
  <2> QED
    BY <2>1, <2>2, <2>3, Zenon DEF StealOps
<1>LoadBack. ASSUME NEW c \in Cpus, LoadBack(c)
      PROVE  IndexInv'
  <2> USE <1>LoadBack
  <2>T. /\ front[c] \in Int /\ back[c] \in Int /\ cap[buffer[c]] \in Nat \ {0}
        /\ loc[c].f \in Int /\ loc[c].n \in Int /\ loc[c].i \in Int /\ loc[c].len \in Int
        /\ loc[c].ncap \in Nat
    BY Typed, Zenon
  <2>O. /\ Own(pc[c], loc[c], front[c], back[c], cap[buffer[c]]) /\ Kind(pc[c], Flavor[c])
        /\ cap[buffer[c]] >= MIN_CAP /\ MIN_CAP \in Nat /\ MIN_CAP > 0
        /\ Flavor[c] \in {"Fifo", "Lifo"}
    BY OwnFacts, Zenon
  <2> DEFINE s == loc[c].src
             len == back[s] - loc[c].f
             n == BatchSize(loc[c].op, len)
  <2>1. /\ Others(c) /\ pc[c] = "load_back" /\ UNCHANGED <<front, back, buffer, cap>>
        /\ \/ len <= 0 /\ pc'[c] = "idle" /\ loc'[c] = NoLoc
           \/ /\ len > 0 /\ pc'[c] = IF n > 0 THEN "reserve" ELSE "load_buf"
              /\ loc'[c].n = n /\ Same(loc'[c], loc[c], {"n"})
    <3> DEFINE gap == back[loc[c].src] - loc[c].f
               size == BatchSize(loc[c].op, gap)
    <3>0. /\ pc[c] = "load_back"
          /\ UNCHANGED <<front, back, buffer, cap, slot, garbage, pushed, taken, stolen>>
      BY Zenon DEF LoadBack, queues, history
    <3>1. \/ gap <= 0 /\ Return(c) /\ UNCHANGED pinned
          \/ /\ gap > 0
             /\ pinned' = pinned \cup {c}
             /\ loc' = [loc EXCEPT ![c].n = size]
             /\ Goto(c, IF size > 0 THEN "reserve" ELSE "load_buf")
      BY Zenon DEF LoadBack, Src
    <3> HIDE DEF gap, size
    <3>2. CASE gap <= 0 /\ Return(c) /\ UNCHANGED pinned
      BY <3>0, <3>2, ReturnDoes, Zenon DEF gap
    <3>3. CASE /\ gap > 0
               /\ pinned' = pinned \cup {c}
               /\ loc' = [loc EXCEPT ![c].n = size]
               /\ Goto(c, IF size > 0 THEN "reserve" ELSE "load_buf")
      <4>1. /\ loc'[c] = [loc[c] EXCEPT !.n = size] /\ Others(c)
            /\ pc'[c] = IF size > 0 THEN "reserve" ELSE "load_buf"
        BY <3>3, Shapes, Zenon DEF Goto, Others
      <4>2. loc'[c].n = size /\ Same(loc'[c], loc[c], {"n"})
        BY <4>1, Typed, Zenon DEF Same, Fields, LocType
      <4> QED
        BY <3>0, <3>3, <4>1, <4>2, Zenon DEF size, gap
    <3> QED
      BY <3>1, <3>2, <3>3, Zenon
  <2>2. Stealing(pc[c], loc[c])
    BY <2>1, Zenon DEF Stealing, StealPcs
  <2>3. s \in Cpus /\ loc[c].op \in StealOps /\ len \in Int
    <3>1. s \in Cpus /\ loc[c].op \in StealOps
      BY <2>2, ThiefFacts, Zenon
    <3>2. back[s] \in Int
      BY <3>1, Typed, Zenon
    <3> QED
      BY <3>1, <3>2, <2>T
  <2> HIDE DEF n, len
  <2>4. CASE pc'[c] = "idle" /\ loc'[c] = NoLoc
    <3>1. Own(pc'[c], loc'[c], front[c], back[c], cap[buffer[c]]) /\ Kind(pc'[c], Flavor[c])
      BY <2>1, <2>4, OwnFacts, Typed, Zenon DEF Own, Live, PushPcs, ResizePcs, DerefPcs, Kind
    <3>2. ~Stealing(pc'[c], loc'[c]) /\ Live(pc'[c]) = Live(pc[c])
      BY <2>1, <2>4, <1>NotStealing, Zenon DEF Live
    <3> QED
      BY <2>1, <2>3, <2>4, <3>1, <3>2, <1>Thief, Zenon
  <2>5. CASE /\ len > 0 /\ pc'[c] = IF n > 0 THEN "reserve" ELSE "load_buf"
             /\ loc'[c].n = n /\ Same(loc'[c], loc[c], {"n"})
    <3>1. /\ n \in Int /\ 0 <= n /\ n <= MAX_BATCH - Keep(loc[c].op) /\ n + Keep(loc[c].op) <= len
          /\ loc[c].op = "steal" => n = 0
          /\ loc[c].op = "batch" => n >= 1
      BY <2>3, <2>5, <1>BatchFacts, Zenon DEF n
    <3>2. /\ loc'[c].op = loc[c].op /\ loc'[c].src = s /\ loc'[c].f = loc[c].f
          /\ loc'[c].i = loc[c].i /\ loc'[c].n = n
      BY <2>5, Zenon DEF Same, Fields
    <3>3. pc'[c] \in {"reserve", "load_buf"} /\ (pc'[c] = "load_buf" => n = 0) /\ (pc'[c] = "reserve" => n > 0)
      <4>1. CASE n > 0
        <5>1. n # 0
          BY <4>1, <3>1
        <5> QED
          BY <2>5, <4>1, <5>1, Zenon
      <4>2. CASE ~(n > 0)
        <5>1. n = 0
          BY <4>2, <3>1
        <5> QED
          BY <2>5, <4>2, <5>1, Zenon
      <4> QED
        BY <4>1, <4>2, Zenon
    <3>4. Own(pc'[c], loc'[c], front[c], back[c], cap[buffer[c]]) /\ Kind(pc'[c], Flavor[c])
      <4>1. /\ Own(pc[c], loc[c], front[c], back[c], cap[buffer[c]]) /\ pc[c] \in {"idle", "load_back"}
            /\ pc'[c] \in {"load_back", "pop_dec", "reserve"} \/ (pc'[c] = "load_buf" /\ loc'[c].n = 0)
        BY <2>1, <3>2, <3>3, <2>O, Zenon
      <4>2. Own(pc'[c], loc'[c], front[c], back[c], cap[buffer[c]])
        BY <2>T, <4>1, OwnBegin
      <4> QED
        BY <3>3, <4>2, Zenon DEF Kind
    <3>5. Pinning(pc'[c], loc'[c]) /\ Live(pc'[c]) = Live(pc[c])
      BY <2>1, <3>3, Zenon DEF Pinning, StealPcs, Live
    <3>6. Counts(pc[c], loc[c], Flavor[s]) /\ (loc[c].op # "steal" => s # c)
          /\ Aim(pc[c], loc[c], Flavor[s], front[s], back[s], back[s] + Live(pc[s]))
      BY <2>2, ThiefFacts, Zenon
    <3>7. Counts(pc'[c], loc'[c], Flavor[s])
      BY <2>1, <3>1, <3>2, <3>3, <3>6, Zenon DEF Counts, DerefPcs
    <3>8. Aim(pc'[c], loc'[c], Flavor[s], front[s], back[s], back[s] + Live(pc[s]))
      <4>1. front[s] \in Int /\ back[s] \in Int
        BY <2>3, Typed, Zenon
      <4> QED
        <5>1. Keep(loc[c].op) \in Int /\ Live(pc[s]) \in {0, 1}
          BY KeepFacts, Zenon DEF Live
        <5>2. back[s] - loc[c].f > 0 /\ n + Keep(loc[c].op) <= back[s] - loc[c].f
          BY <2>5, <3>1, Zenon DEF len
        <5>3. /\ loc[c].f + Keep(loc[c].op) + n <= back[s]
              /\ front[s] = loc[c].f => front[s] < back[s] + Live(pc[s])
          BY <3>1, <4>1, <5>1, <5>2, <2>T
        <5> QED
          BY <3>2, <3>6, <5>3, Zenon DEF Aim
    <3> QED
      BY <2>1, <2>3, <3>2, <3>3, <3>4, <3>5, <3>6, <3>7, <3>8, <1>Thief, Zenon
  <2> QED
    BY <2>1, <2>4, <2>5, Zenon
<1>Reserve. ASSUME NEW c \in Cpus, Reserve(c)
      PROVE  IndexInv'
  <2> USE <1>Reserve
  <2>T. /\ front[c] \in Int /\ back[c] \in Int /\ cap[buffer[c]] \in Nat \ {0}
        /\ loc[c].f \in Int /\ loc[c].n \in Int /\ loc[c].i \in Int /\ loc[c].len \in Int
        /\ loc[c].ncap \in Nat
    BY Typed, Zenon
  <2>O. /\ Own(pc[c], loc[c], front[c], back[c], cap[buffer[c]]) /\ Kind(pc[c], Flavor[c])
        /\ cap[buffer[c]] >= MIN_CAP /\ MIN_CAP \in Nat /\ MIN_CAP > 0
        /\ Flavor[c] \in {"Fifo", "Lifo"}
    BY OwnFacts, Zenon
  <2> DEFINE s == loc[c].src
  <2>1. /\ Quiet /\ Others(c) /\ pc[c] = "reserve"
        /\ \/ /\ MustGrow(c, loc[c].n) /\ pc'[c] = "resize"
              /\ loc'[c].ncap = 2 * cap[buffer[c]] /\ loc'[c].ret = "load_buf"
              /\ Same(loc'[c], loc[c], {"ncap", "ret"})
           \/ ~MustGrow(c, loc[c].n) /\ pc'[c] = "load_buf" /\ loc'[c] = loc[c]
    <3>0. Quiet /\ pc[c] = "reserve"
      BY Zenon DEF Reserve, Quiet, queues, memory, history
    <3>1. CASE MustGrow(c, loc[c].n)
      <4>1. CallResize(c, loc[c], 2 * cap[buffer[c]], "load_buf") /\ loc[c] \in LocType
        BY <3>1, Typed, Zenon DEF Reserve
      <4> QED
        <5>1. /\ Others(c) /\ pc'[c] = "resize" /\ loc'[c].ncap = 2 * cap[buffer[c]]
              /\ loc'[c].ret = "load_buf" /\ Same(loc'[c], loc[c], {"ncap", "ret"})
          BY <4>1, CallDoes
        <5> QED
          BY <3>0, <3>1, <5>1, Zenon
    <3>2. CASE ~MustGrow(c, loc[c].n)
      <4>1. Goto(c, "load_buf") /\ UNCHANGED loc
        BY <3>2, Zenon DEF Reserve
      <4> QED
        BY <3>0, <3>2, <4>1, Shapes, Zenon DEF Goto, Others
    <3> QED
      BY <3>1, <3>2, Zenon
  <2>2. /\ UNCHANGED <<front, back, buffer, cap>>
        /\ loc'[c].op = loc[c].op /\ loc'[c].src = s /\ loc'[c].f = loc[c].f
        /\ loc'[c].i = loc[c].i /\ loc'[c].n = loc[c].n
    BY <2>1, Zenon DEF Quiet, Same, Fields
  <2>3. Stealing(pc[c], loc[c]) /\ Pinning(pc[c], loc[c])
    BY <2>1, Zenon DEF Stealing, Pinning, StealPcs
  <2>4. /\ s \in Cpus /\ loc[c].op \in StealOps /\ (loc[c].op # "steal" => s # c)
        /\ Counts(pc[c], loc[c], Flavor[s])
        /\ Aim(pc[c], loc[c], Flavor[s], front[s], back[s], back[s] + Live(pc[s]))
    BY <2>3, ThiefFacts, Zenon
  <2>5. /\ 0 < loc[c].n /\ loc[c].n <= cap[buffer[c]]
    <3>1. loc[c].n <= MAX_BATCH - Keep(loc[c].op) /\ 0 < loc[c].n
      BY <2>1, <2>3, <2>4, Zenon DEF Counts
    <3> QED
      BY <3>1, <2>O, <2>T, ConstAssumption DEF Keep
  <2>6. pc'[c] = "resize" => loc'[c].ncap = 2 * cap[buffer[c]] /\ loc'[c].ret = "load_buf"
    BY <2>1, Zenon
  <2>7. pc'[c] = "load_buf" => back[c] - front[c] + loc[c].n <= cap[buffer[c]]
    <3>1. SUFFICES ASSUME pc'[c] = "load_buf" PROVE back[c] - front[c] + loc[c].n <= cap[buffer[c]]
      BY Zenon
    <3>2. ~(cap[buffer[c]] - (back[c] - front[c]) < loc[c].n)
      BY <2>1, <3>1, Zenon DEF MustGrow
    <3> QED
      BY <3>2, <2>T
  <2>8. pc'[c] \in {"resize", "load_buf"}
    BY <2>1, Zenon
  <2>9. Own(pc'[c], loc'[c], front[c], back[c], cap[buffer[c]]) /\ Kind(pc'[c], Flavor[c])
    <3>1. /\ Own("reserve", loc[c], front[c], back[c], cap[buffer[c]])
          /\ loc'[c].n \in Int /\ 0 < loc'[c].n /\ loc'[c].n <= cap[buffer[c]]
          /\ \/ /\ pc'[c] = "resize" /\ loc'[c].ncap = 2 * cap[buffer[c]]
                /\ loc'[c].ret = "load_buf"
             \/ pc'[c] = "load_buf" /\ back[c] - front[c] + loc'[c].n <= cap[buffer[c]]
      BY <2>1, <2>2, <2>5, <2>6, <2>7, <2>8, <2>O, <2>T, Zenon
    <3>2. Own(pc'[c], loc'[c], front[c], back[c], cap[buffer[c]])
      BY <2>T, <3>1, OwnReserve
    <3> QED
      BY <2>8, <3>2, Zenon DEF Kind
  <2>10. Pinning(pc'[c], loc'[c]) /\ Live(pc'[c]) = Live(pc[c])
    BY <2>1, <2>6, <2>8, Zenon DEF Pinning, StealPcs, ResizePcs, Live
  <2>11. Counts(pc'[c], loc'[c], Flavor[s])
    BY <2>1, <2>2, <2>3, <2>4, <2>8, Zenon DEF Counts, DerefPcs
  <2>12. Aim(pc'[c], loc'[c], Flavor[s], front[s], back[s], back[s] + Live(pc[s]))
    BY <2>1, <2>2, <2>3, <2>4, <2>8, Zenon DEF Aim
  <2>13. pc'[c] = "resize" => loc'[c].ncap \in Caps
    BY <2>6, OwnFacts, CapsFacts, Zenon
  <2> QED
    BY <2>1, <2>2, <2>4, <2>8, <2>9, <2>10, <2>11, <2>12, <2>13, <1>Thief, Zenon
<1>LoadBuf. ASSUME NEW c \in Cpus, LoadBuf(c)
      PROVE  IndexInv'
  <2> USE <1>LoadBuf
  <2>T. /\ front[c] \in Int /\ back[c] \in Int /\ cap[buffer[c]] \in Nat \ {0}
        /\ loc[c].f \in Int /\ loc[c].n \in Int /\ loc[c].i \in Int /\ loc[c].len \in Int
        /\ loc[c].ncap \in Nat
    BY Typed, Zenon
  <2> DEFINE s == loc[c].src
  <2>1. /\ Quiet /\ Others(c) /\ pc[c] = "load_buf"
        /\ pc'[c] = IF loc[c].op = "batch" /\ ~OneByOne(c) THEN "copy" ELSE "read"
        /\ Same(loc'[c], loc[c], {"buf"})
    <3>1. loc'[c] = [loc[c] EXCEPT !.buf = buffer[loc[c].src]]
      BY Shapes, Zenon DEF LoadBuf, Src
    <3>2. loc'[c].buf = buffer[loc[c].src] /\ Same(loc'[c], loc[c], {"buf"})
      BY <3>1, Typed, Zenon DEF Same, Fields, LocType
    <3> QED
      BY <3>2, Shapes, Zenon DEF LoadBuf, Goto, Others, Quiet, queues, memory, history
  <2>2. /\ UNCHANGED <<front, back, buffer, cap>>
        /\ loc'[c].op = loc[c].op /\ loc'[c].src = s /\ loc'[c].f = loc[c].f
        /\ loc'[c].i = loc[c].i /\ loc'[c].n = loc[c].n
    BY <2>1, Zenon DEF Quiet, Same, Fields
  <2>3. Stealing(pc[c], loc[c]) /\ Pinning(pc[c], loc[c])
    BY <2>1, Zenon DEF Stealing, Pinning, StealPcs
  <2>4. /\ s \in Cpus /\ loc[c].op \in StealOps /\ (loc[c].op # "steal" => s # c)
        /\ Counts(pc[c], loc[c], Flavor[s])
        /\ Aim(pc[c], loc[c], Flavor[s], front[s], back[s], back[s] + Live(pc[s]))
        /\ Flavor[s] \in {"Fifo", "Lifo"}
    BY <2>3, ThiefFacts, Zenon
  <2>5. pc'[c] \in {"copy", "read"}
    BY <2>1, Zenon
  <2>6. Own(pc'[c], loc'[c], front[c], back[c], cap[buffer[c]]) /\ Kind(pc'[c], Flavor[c])
    BY <2>1, <2>2, <2>5, OwnFacts, Typed, Zenon DEF Own, Live, PushPcs, ResizePcs, DerefPcs, Kind
  <2>7. Pinning(pc'[c], loc'[c]) /\ Live(pc'[c]) = Live(pc[c])
    BY <2>1, <2>5, Zenon DEF Pinning, StealPcs, DerefPcs, Live
  <2>8. /\ loc[c].i = 0 /\ 0 <= loc[c].n /\ (loc[c].op = "steal" => loc[c].n = 0)
        /\ (loc[c].op = "batch" => loc[c].n >= 1) /\ loc[c].n <= MAX_BATCH - Keep(loc[c].op)
    BY <2>1, <2>3, <2>4, Zenon DEF Counts, DerefPcs
  <2>9. Counts(pc'[c], loc'[c], Flavor[s])
    <3>1. CASE pc'[c] = "copy"
      <4>1. loc[c].op = "batch" /\ Flavor[s] = "Fifo"
        BY <2>1, <2>4, <3>1, Zenon DEF OneByOne, Src
      <4> QED
        <5>1. loc[c].n > 0
          BY <2>8, <4>1, <2>T
        <5>2. /\ loc'[c].i = 0 /\ loc'[c].n \in Int /\ 0 <= loc'[c].n /\ loc'[c].n > 0
              /\ (loc'[c].op = "steal" => loc'[c].n = 0) /\ (loc'[c].op = "batch" => loc'[c].n >= 1)
              /\ loc'[c].n <= MAX_BATCH - Keep(loc'[c].op)
          BY <2>2, <2>8, <2>T, <5>1, Zenon
        <5>3. Counts("copy", loc'[c], "Fifo")
          BY <5>2, CountsFifo
        <5> QED
          BY <3>1, <4>1, <5>3, Zenon
    <3>2. CASE pc'[c] = "read"
      <4>1. Keep(loc[c].op) \in Int /\ loc[c].i < loc[c].n + Keep(loc[c].op)
        <5>1. /\ Keep(loc[c].op) \in Int /\ (loc[c].op = "batch" => Keep(loc[c].op) = 0)
              /\ (loc[c].op # "batch" => Keep(loc[c].op) = 1)
          BY KeepFacts, Zenon
        <5> QED
          BY <2>8, <2>T, <5>1
      <4>2. Flavor[s] = "Fifo" => loc[c].op # "batch"
        BY <2>1, <3>2, Zenon DEF OneByOne, Src
      <4> QED
        BY <2>2, <2>8, <3>2, <4>1, <4>2 DEF Counts, DerefPcs
    <3> QED
      BY <2>5, <3>1, <3>2, Zenon
  <2>10. Aim(pc'[c], loc'[c], Flavor[s], front[s], back[s], back[s] + Live(pc[s]))
    BY <2>1, <2>2, <2>3, <2>4, <2>5, Zenon DEF Aim
  <2> QED
    BY <2>1, <2>2, <2>4, <2>5, <2>6, <2>7, <2>9, <2>10, <1>Thief, Zenon
<1>Read. ASSUME NEW c \in Cpus, Read(c)
      PROVE  IndexInv'
  <2> USE <1>Read
  <2>T. /\ front[c] \in Int /\ back[c] \in Int /\ cap[buffer[c]] \in Nat \ {0}
        /\ loc[c].f \in Int /\ loc[c].n \in Int /\ loc[c].i \in Int /\ loc[c].len \in Int
        /\ loc[c].ncap \in Nat
    BY Typed, Zenon
  <2> DEFINE s == loc[c].src
  <2>1. /\ Quiet /\ Others(c) /\ pc[c] = "read"
        /\ pc'[c] = CASE loc[c].op = "batchpop" /\ OneByOne(c) /\ loc[c].i = 0 -> "cas"
                      [] loc[c].op = "batchpop" /\ ~OneByOne(c) /\ loc[c].n > 0 -> "copy"
                      [] OTHER -> "check"
        /\ Same(loc'[c], loc[c], {"task"})
    <3>1. loc'[c] = [loc[c] EXCEPT !.task = At(loc[c].buf, loc[c].f)]
      BY Shapes, Zenon DEF Read
    <3>2. loc'[c].task = At(loc[c].buf, loc[c].f) /\ Same(loc'[c], loc[c], {"task"})
      BY <3>1, Typed, Zenon DEF Same, Fields, LocType
    <3>3. pc' = [pc EXCEPT ![c] =
                   CASE loc[c].op = "batchpop" /\ OneByOne(c) /\ loc[c].i = 0 -> "cas"
                     [] loc[c].op = "batchpop" /\ ~OneByOne(c) /\ loc[c].n > 0 -> "copy"
                     [] OTHER -> "check"]
      BY Zenon DEF Read, Goto
    <3>4. Quiet /\ pc[c] = "read"
      BY Zenon DEF Read, Quiet, queues, memory, history
    <3>5. Others(c)
      BY <3>3, Shapes, Zenon DEF Read, Others
    <3> QED
      BY <3>2, <3>3, <3>4, <3>5, Shapes, Zenon
  <2>2. /\ UNCHANGED <<front, back, buffer, cap>>
        /\ loc'[c].op = loc[c].op /\ loc'[c].src = s /\ loc'[c].f = loc[c].f
        /\ loc'[c].i = loc[c].i /\ loc'[c].n = loc[c].n
    BY <2>1, Zenon DEF Quiet, Same, Fields
  <2>3. Stealing(pc[c], loc[c]) /\ Pinning(pc[c], loc[c])
    BY <2>1, Zenon DEF Stealing, Pinning, StealPcs, DerefPcs
  <2>4. /\ s \in Cpus /\ loc[c].op \in StealOps /\ (loc[c].op # "steal" => s # c)
        /\ Counts(pc[c], loc[c], Flavor[s])
        /\ Aim(pc[c], loc[c], Flavor[s], front[s], back[s], back[s] + Live(pc[s]))
        /\ Flavor[s] \in {"Fifo", "Lifo"}
    BY <2>3, ThiefFacts, Zenon
  <2>5. pc'[c] \in {"cas", "copy", "check"}
    BY <2>1, Zenon
  <2>6. Own(pc'[c], loc'[c], front[c], back[c], cap[buffer[c]]) /\ Kind(pc'[c], Flavor[c])
    BY <2>1, <2>2, <2>5, OwnFacts, Typed, Zenon DEF Own, Live, PushPcs, ResizePcs, DerefPcs, Kind
  <2>7. Pinning(pc'[c], loc'[c]) /\ Live(pc'[c]) = Live(pc[c])
    BY <2>1, <2>5, Zenon DEF Pinning, StealPcs, DerefPcs, Live
  <2>8. /\ 0 <= loc[c].n /\ (loc[c].op = "steal" => loc[c].n = 0)
        /\ (loc[c].op = "batch" => loc[c].n >= 1) /\ loc[c].n <= MAX_BATCH - Keep(loc[c].op)
        /\ Flavor[s] = "Fifo" => loc[c].i = 0
        /\ Flavor[s] = "Lifo" => 0 <= loc[c].i /\ loc[c].i < loc[c].n + Keep(loc[c].op)
    BY <2>1, <2>3, <2>4, Zenon DEF Counts
  <2>9. Flavor[s] = "Fifo" => loc[c].op # "batch"
    BY <2>1, <2>4, Zenon DEF Counts
  <2>10. Counts(pc'[c], loc'[c], Flavor[s])
    <3>1. CASE Flavor[s] = "Lifo"
      <4>1. pc'[c] # "copy"
        BY <2>1, <3>1, Zenon DEF OneByOne, Src
      <4> QED
        BY <2>2, <2>5, <2>8, <3>1, <4>1, Zenon DEF Counts, DerefPcs
    <3>2. CASE Flavor[s] = "Fifo"
      <4>1. ~OneByOne(c)
        BY <3>2, Zenon DEF OneByOne, Src
      <4>2. /\ pc'[c] = "copy" => loc[c].n > 0
            /\ pc'[c] \in {"check", "cas"} => loc[c].n = 0
        <5>1. CASE loc[c].op = "steal"
          <6>1. pc'[c] = "check" /\ loc[c].n = 0
            BY <2>1, <2>8, <5>1, Zenon
          <6> QED
            BY <6>1, Zenon
        <5>2. CASE loc[c].op = "batchpop"
          <6>1. \/ loc[c].n > 0 /\ pc'[c] = "copy"
                \/ ~(loc[c].n > 0) /\ pc'[c] = "check"
            BY <2>1, <4>1, <5>2, Zenon
          <6>2. ~(loc[c].n > 0) => loc[c].n = 0
            BY <2>8, <2>T
          <6> QED
            BY <6>1, <6>2, Zenon
        <5> QED
          BY <2>4, <2>9, <3>2, <5>1, <5>2, Zenon DEF StealOps
      <4> QED
        <5>1. /\ loc'[c].i = 0 /\ loc'[c].n \in Int /\ 0 <= loc'[c].n
              /\ (loc'[c].op = "steal" => loc'[c].n = 0) /\ (loc'[c].op = "batch" => loc'[c].n >= 1)
              /\ loc'[c].n <= MAX_BATCH - Keep(loc'[c].op)
              /\ (pc'[c] = "copy" => loc'[c].n > 0) /\ (pc'[c] \in {"check", "cas"} => loc'[c].n = 0)
              /\ pc'[c] \in {"cas", "copy", "check", "read"} /\ pc'[c] # "read"
          BY <2>2, <2>5, <2>8, <2>T, <3>2, <4>2, Zenon
        <5>2. Counts(pc'[c], loc'[c], "Fifo")
          BY <5>1, CountsFifo
        <5> QED
          BY <3>2, <5>2, Zenon
    <3> QED
      BY <2>4, <3>1, <3>2, Zenon
  <2>11. Aim(pc'[c], loc'[c], Flavor[s], front[s], back[s], back[s] + Live(pc[s]))
    BY <2>1, <2>2, <2>3, <2>4, <2>5, Zenon DEF Aim
  <2> QED
    BY <2>1, <2>2, <2>4, <2>5, <2>6, <2>7, <2>10, <2>11, <1>Thief, Zenon
<1>Copy. ASSUME NEW c \in Cpus, Copy(c)
      PROVE  IndexInv'
  <2> USE <1>Copy
  <2>T. /\ front[c] \in Int /\ back[c] \in Int /\ cap[buffer[c]] \in Nat \ {0}
        /\ loc[c].f \in Int /\ loc[c].n \in Int /\ loc[c].i \in Int /\ loc[c].len \in Int
        /\ loc[c].ncap \in Nat
    BY Typed, Zenon
  <2> DEFINE s == loc[c].src
  <2>1. /\ Others(c) /\ pc[c] = "copy"
        /\ pc'[c] = IF loc[c].i + 1 = loc[c].n THEN "check" ELSE "copy"
        /\ loc'[c].i = loc[c].i + 1 /\ Same(loc'[c], loc[c], {"i"})
        /\ UNCHANGED <<front, back, buffer, cap>>
    <3>1. loc'[c] = [loc[c] EXCEPT !.i = loc[c].i + 1]
      BY Shapes, Zenon DEF Copy
    <3>2. loc'[c].i = loc[c].i + 1 /\ Same(loc'[c], loc[c], {"i"})
      BY <3>1, Typed, Zenon DEF Same, Fields, LocType
    <3>3. Others(c) /\ pc'[c] = IF loc[c].i + 1 = loc[c].n THEN "check" ELSE "copy"
      BY Shapes, Zenon DEF Copy, Goto, Others
    <3>4. /\ slot' = SlotWrite(buffer[c], back[c] + CopyTo(c, loc[c].i),
                                  At(loc[c].buf, loc[c].f + Keep(loc[c].op) + loc[c].i))
          /\ UNCHANGED <<front, back, buffer, cap, garbage, pinned, pushed, taken, stolen>>
          /\ pc[c] = "copy"
      BY Zenon DEF Copy, queues, history
    <3> QED
      BY <3>2, <3>3, <3>4, Zenon
  <2>2. /\ loc'[c].op = loc[c].op /\ loc'[c].src = s /\ loc'[c].f = loc[c].f
        /\ loc'[c].n = loc[c].n
    BY <2>1, Zenon DEF Same, Fields
  <2>3. Stealing(pc[c], loc[c]) /\ Pinning(pc[c], loc[c])
    BY <2>1, Zenon DEF Stealing, Pinning, StealPcs, DerefPcs
  <2>4. /\ s \in Cpus /\ loc[c].op \in StealOps /\ (loc[c].op # "steal" => s # c)
        /\ Counts(pc[c], loc[c], Flavor[s])
        /\ Aim(pc[c], loc[c], Flavor[s], front[s], back[s], back[s] + Live(pc[s]))
        /\ Flavor[s] \in {"Fifo", "Lifo"}
    BY <2>3, ThiefFacts, Zenon
  <2>5. pc'[c] \in {"copy", "check"}
    BY <2>1, Zenon
  <2>6. Own(pc'[c], loc'[c], front[c], back[c], cap[buffer[c]]) /\ Kind(pc'[c], Flavor[c])
    BY <2>1, <2>2, <2>5, OwnFacts, Typed, Zenon DEF Own, Live, PushPcs, ResizePcs, DerefPcs, Kind
  <2>7. Pinning(pc'[c], loc'[c]) /\ Live(pc'[c]) = Live(pc[c])
    BY <2>1, <2>5, Zenon DEF Pinning, StealPcs, DerefPcs, Live
  <2>8. /\ 0 <= loc[c].n /\ (loc[c].op = "steal" => loc[c].n = 0)
        /\ (loc[c].op = "batch" => loc[c].n >= 1) /\ loc[c].n <= MAX_BATCH - Keep(loc[c].op)
        /\ Flavor[s] = "Fifo" /\ 0 <= loc[c].i /\ loc[c].i < loc[c].n
    BY <2>1, <2>3, <2>4, Zenon DEF Counts
  <2>9. Counts(pc'[c], loc'[c], Flavor[s])
    <3>1. Counts(pc'[c], loc'[c], "Fifo")
      BY <2>1, <2>2, <2>8, <2>T, CountsCopy
    <3> QED
      BY <2>8, <3>1, Zenon
  <2>10. Aim(pc'[c], loc'[c], Flavor[s], front[s], back[s], back[s] + Live(pc[s]))
    BY <2>1, <2>2, <2>3, <2>4, <2>5, Zenon DEF Aim
  <2> QED
    BY <2>1, <2>2, <2>4, <2>5, <2>6, <2>7, <2>9, <2>10, <1>Thief, Zenon
\* A thief gives up.
<1>GiveUp. ASSUME NEW c \in Cpus, pc[c] \in {"check", "cas"}, GiveUp(c),
                  UNCHANGED <<front, back, buffer, cap>>
      PROVE  IndexInv'
  <2> USE <1>GiveUp
  <2>T. /\ front[c] \in Int /\ back[c] \in Int /\ cap[buffer[c]] \in Nat \ {0}
        /\ loc[c].f \in Int /\ loc[c].n \in Int /\ loc[c].i \in Int /\ loc[c].len \in Int
        /\ loc[c].ncap \in Nat
    BY Typed, Zenon
  <2>O. /\ Own(pc[c], loc[c], front[c], back[c], cap[buffer[c]]) /\ Kind(pc[c], Flavor[c])
        /\ cap[buffer[c]] >= MIN_CAP /\ MIN_CAP \in Nat /\ MIN_CAP > 0
        /\ Flavor[c] \in {"Fifo", "Lifo"}
    BY OwnFacts, Zenon
  <2> DEFINE s == loc[c].src
  <2>1. /\ Others(c)
        /\ \/ /\ OneByOne(c) /\ loc[c].i > 0 /\ pc'[c] = "publish"
              /\ loc'[c].n = loc[c].i - Keep(loc[c].op) /\ Same(loc'[c], loc[c], {"n"})
           \/ pc'[c] = "idle" /\ loc'[c] = NoLoc
    BY GiveUpDoes, Zenon
  <2>2. Stealing(pc[c], loc[c]) /\ Pinning(pc[c], loc[c])
    BY Zenon DEF Stealing, Pinning, StealPcs, DerefPcs
  <2>3. /\ s \in Cpus /\ loc[c].op \in StealOps /\ (loc[c].op # "steal" => s # c)
        /\ Counts(pc[c], loc[c], Flavor[s])
        /\ Aim(pc[c], loc[c], Flavor[s], front[s], back[s], back[s] + Live(pc[s]))
        /\ Flavor[s] \in {"Fifo", "Lifo"}
    BY <2>2, ThiefFacts, Zenon
  <2>4. CASE pc'[c] = "idle" /\ loc'[c] = NoLoc
    <3>1. Own(pc'[c], loc'[c], front[c], back[c], cap[buffer[c]]) /\ Kind(pc'[c], Flavor[c])
      BY <2>4, OwnFacts, Typed, Zenon DEF Own, Live, PushPcs, ResizePcs, DerefPcs, Kind
    <3>2. ~Stealing(pc'[c], loc'[c]) /\ Live(pc'[c]) = Live(pc[c])
      BY <2>4, <1>NotStealing, Zenon DEF Live
    <3> QED
      BY <2>1, <2>3, <2>4, <3>1, <3>2, <1>Thief, Zenon
  <2>5. CASE /\ OneByOne(c) /\ loc[c].i > 0 /\ pc'[c] = "publish"
             /\ loc'[c].n = loc[c].i - Keep(loc[c].op) /\ Same(loc'[c], loc[c], {"n"})
    <3>1. /\ loc'[c].op = loc[c].op /\ loc'[c].src = s /\ loc'[c].f = loc[c].f
          /\ loc'[c].i = loc[c].i
      BY <2>5, Zenon DEF Same, Fields
    <3>2. /\ Flavor[s] = "Lifo" /\ loc[c].op # "steal" /\ loc[c].i < loc[c].n + Keep(loc[c].op)
          /\ loc[c].n <= MAX_BATCH - Keep(loc[c].op) /\ loc[c].n \in Int /\ loc[c].i \in Int
          /\ loc[c].op = "batch" => Keep(loc[c].op) = 0
          /\ Keep(loc[c].op) \in 0..1 /\ loc[c].i > 0 /\ MAX_BATCH \in Nat
      <4>1. /\ Flavor[s] = "Lifo" /\ loc[c].op # "steal" /\ loc[c].i < loc[c].n + Keep(loc[c].op)
            /\ loc[c].n <= MAX_BATCH - Keep(loc[c].op)
        BY <2>2, <2>3, <2>5, Zenon DEF Counts, OneByOne, Src
      <4>2. MAX_BATCH \in Nat
        BY ConstAssumption
      <4>3. /\ loc[c].op = "batch" => Keep(loc[c].op) = 0
            /\ Keep(loc[c].op) \in 0..1
        BY DEF Keep
      <4> QED
        BY <2>5, <2>T, <4>1, <4>2, <4>3, Zenon
    <3>3. Own(pc'[c], loc'[c], front[c], back[c], cap[buffer[c]]) /\ Kind(pc'[c], Flavor[c])
      <4>1. /\ Own(pc[c], loc[c], front[c], back[c], cap[buffer[c]])
            /\ pc[c] \in {"check", "cas", "reload"}
        BY <2>O, Zenon
      <4>2. loc'[c].n \in Int /\ loc'[c].n <= loc[c].n
        <5>1. loc'[c].n = loc[c].i - Keep(loc[c].op) /\ Keep(loc[c].op) \in Int
          BY <2>5, KeepFacts, Zenon
        <5> QED
          BY <3>2, <5>1
      <4>3. Own("publish", loc'[c], front[c], back[c], cap[buffer[c]])
        BY <2>T, <4>1, <4>2, OwnStop
      <4> QED
        BY <2>5, <4>3, Zenon DEF Kind
    <3>4. Pinning(pc'[c], loc'[c]) /\ Live(pc'[c]) = Live(pc[c])
      BY <2>5, Zenon DEF Pinning, StealPcs, DerefPcs, Live
    <3>5. Counts(pc'[c], loc'[c], Flavor[s])
      <4>1. /\ loc'[c].i \in Int /\ loc'[c].i >= 1 /\ loc'[c].op # "steal" /\ MAX_BATCH \in Nat
            /\ loc'[c].n = loc'[c].i - Keep(loc'[c].op) /\ loc'[c].i <= MAX_BATCH
        <5>1. loc[c].i >= 1 /\ loc[c].i <= MAX_BATCH
          BY <3>2
        <5> QED
          BY <3>2, <2>5, <3>1, <5>1, Zenon
      <4>2. Counts("publish", loc'[c], "Lifo")
        BY <4>1, CountsStop, Zenon
      <4> QED
        BY <2>5, <3>2, <4>2, Zenon
    <3>6. Aim(pc'[c], loc'[c], Flavor[s], front[s], back[s], back[s] + Live(pc[s]))
      BY <2>3, <2>5, <3>1, <3>2, Zenon DEF Aim
    <3> QED
      BY <2>1, <2>3, <2>5, <3>1, <3>3, <3>4, <3>5, <3>6, <1>Thief, Zenon
  <2> QED
    BY <2>1, <2>4, <2>5, Zenon
<1>Check. ASSUME NEW c \in Cpus, Check(c)
      PROVE  IndexInv'
  <2> USE <1>Check
  <2> DEFINE s == loc[c].src
  <2>1. /\ Others(c) /\ pc[c] = "check" /\ UNCHANGED <<front, back, buffer, cap>>
        /\ GiveUp(c) \/ (pc'[c] = "cas" /\ loc'[c] = loc[c])
    <3>0. /\ pc[c] = "check"
          /\ UNCHANGED <<front, back, buffer, cap, slot, pushed, taken, stolen>>
      BY Zenon DEF Check, queues, history
    <3>1. CASE buffer[loc[c].src] # loc[c].buf
      BY <3>0, <3>1, GiveUpDoes, Zenon DEF Check, Src
    <3>2. CASE buffer[loc[c].src] = loc[c].buf
      BY <3>0, <3>2, Shapes, Zenon DEF Check, Src, Goto, Others
    <3> QED
      BY <3>1, <3>2, Zenon
  <2>2. CASE GiveUp(c)
    BY <2>1, <2>2, <1>GiveUp, Zenon
  <2>3. CASE pc'[c] = "cas" /\ loc'[c] = loc[c]
    <3>1. Stealing(pc[c], loc[c]) /\ Pinning(pc[c], loc[c])
      BY <2>1, Zenon DEF Stealing, Pinning, StealPcs, DerefPcs
    <3>2. /\ s \in Cpus /\ (loc[c].op # "steal" => s # c)
          /\ Counts(pc[c], loc[c], Flavor[s])
          /\ Aim(pc[c], loc[c], Flavor[s], front[s], back[s], back[s] + Live(pc[s]))
      BY <3>1, ThiefFacts, Zenon
    <3>3. Own(pc'[c], loc'[c], front[c], back[c], cap[buffer[c]]) /\ Kind(pc'[c], Flavor[c])
      BY <2>1, <2>3, OwnFacts, Typed, Zenon DEF Own, Live, PushPcs, ResizePcs, DerefPcs, Kind
    <3>4. Pinning(pc'[c], loc'[c]) /\ Live(pc'[c]) = Live(pc[c])
      BY <2>1, <2>3, Zenon DEF Pinning, StealPcs, DerefPcs, Live
    <3>5. Counts(pc'[c], loc'[c], Flavor[s])
      BY <2>1, <2>3, <3>1, <3>2, Zenon DEF Counts, DerefPcs
    <3>6. Aim(pc'[c], loc'[c], Flavor[s], front[s], back[s], back[s] + Live(pc[s]))
      BY <2>1, <2>3, <3>1, <3>2, Zenon DEF Aim
    <3> QED
      BY <2>1, <2>3, <3>2, <3>3, <3>4, <3>5, <3>6, <1>Thief, Zenon
  <2> QED
    BY <2>1, <2>2, <2>3, Zenon
<1>CasFail. ASSUME NEW c \in Cpus, CasFail(c)
      PROVE  IndexInv'
  <2> USE <1>CasFail
  <2>1. /\ pc[c] = "cas" /\ GiveUp(c) /\ UNCHANGED <<front, back, buffer, cap>>
    BY Zenon DEF CasFail, queues
  <2> QED
    BY <2>1, <1>GiveUp, Zenon
<1>Reload. ASSUME NEW c \in Cpus, Reload(c)
      PROVE  IndexInv'
  <2> USE <1>Reload
  <2>T. /\ front[c] \in Int /\ back[c] \in Int /\ cap[buffer[c]] \in Nat \ {0}
        /\ loc[c].f \in Int /\ loc[c].n \in Int /\ loc[c].i \in Int /\ loc[c].len \in Int
        /\ loc[c].ncap \in Nat
    BY Typed, Zenon
  <2>O. /\ Own(pc[c], loc[c], front[c], back[c], cap[buffer[c]]) /\ Kind(pc[c], Flavor[c])
        /\ cap[buffer[c]] >= MIN_CAP /\ MIN_CAP \in Nat /\ MIN_CAP > 0
        /\ Flavor[c] \in {"Fifo", "Lifo"}
    BY OwnFacts, Zenon
  <2> DEFINE s == loc[c].src
  <2>1. /\ Others(c) /\ pc[c] = "reload" /\ UNCHANGED <<front, back, buffer, cap>>
        /\ \/ /\ pc'[c] = "publish"
              /\ loc'[c].n = loc[c].i - Keep(loc[c].op) /\ Same(loc'[c], loc[c], {"n"})
           \/ ~(back[s] - loc[c].f <= 0) /\ pc'[c] = "read" /\ loc'[c] = loc[c]
    <3>0. /\ pc[c] = "reload"
          /\ UNCHANGED <<front, back, buffer, cap, slot, pushed, taken, stolen>>
      BY Zenon DEF Reload, queues, history
    <3>1. CASE back[loc[c].src] - loc[c].f <= 0
      BY <3>0, <3>1, StopDoes, Zenon DEF Reload, Src
    <3>2. CASE ~(back[loc[c].src] - loc[c].f <= 0)
      BY <3>0, <3>2, Shapes, Zenon DEF Reload, Src, Goto, Others
    <3> QED
      BY <3>1, <3>2, Zenon
  <2>2. Stealing(pc[c], loc[c]) /\ Pinning(pc[c], loc[c])
    BY <2>1, Zenon DEF Stealing, Pinning, StealPcs, DerefPcs
  <2>3. /\ s \in Cpus /\ loc[c].op \in StealOps /\ (loc[c].op # "steal" => s # c)
        /\ Counts(pc[c], loc[c], Flavor[s])
        /\ Aim(pc[c], loc[c], Flavor[s], front[s], back[s], back[s] + Live(pc[s]))
        /\ Flavor[s] \in {"Fifo", "Lifo"}
    BY <2>2, ThiefFacts, Zenon
  <2>4. /\ Flavor[s] = "Lifo" /\ loc[c].op # "steal" /\ loc[c].i < loc[c].n + Keep(loc[c].op)
        /\ loc[c].n <= MAX_BATCH - Keep(loc[c].op) /\ loc[c].n \in Int /\ loc[c].i \in Int
        /\ loc[c].op = "batch" => Keep(loc[c].op) = 0 /\ loc[c].n >= 1
        /\ Keep(loc[c].op) \in 0..1 /\ loc[c].i >= 1 /\ MAX_BATCH \in Nat /\ 0 <= loc[c].n
    <3>1. /\ Flavor[s] = "Lifo" /\ loc[c].i < loc[c].n + Keep(loc[c].op)
          /\ loc[c].n <= MAX_BATCH - Keep(loc[c].op) /\ loc[c].i >= 1 /\ 0 <= loc[c].n
          /\ (loc[c].op = "steal" => loc[c].n = 0) /\ (loc[c].op = "batch" => loc[c].n >= 1)
      <4>1. 1 <= loc[c].i => loc[c].i >= 1
        BY <2>T
      <4> QED
        BY <2>1, <2>2, <2>3, <4>1, Zenon DEF Counts
    <3>2. MAX_BATCH \in Nat
      BY ConstAssumption
    <3>3. /\ loc[c].op = "batch" => Keep(loc[c].op) = 0
          /\ Keep(loc[c].op) \in 0..1
      BY DEF Keep
    <3>4. loc[c].op # "steal"
      BY <3>1, <3>3, <2>T
    <3> QED
      BY <2>T, <3>1, <3>2, <3>3, <3>4, Zenon
  <2>5. CASE /\ pc'[c] = "publish"
             /\ loc'[c].n = loc[c].i - Keep(loc[c].op) /\ Same(loc'[c], loc[c], {"n"})
    <3>1. /\ loc'[c].op = loc[c].op /\ loc'[c].src = s /\ loc'[c].f = loc[c].f
          /\ loc'[c].i = loc[c].i
      BY <2>5, Zenon DEF Same, Fields
    <3>3. Own(pc'[c], loc'[c], front[c], back[c], cap[buffer[c]]) /\ Kind(pc'[c], Flavor[c])
      <4>1. /\ Own(pc[c], loc[c], front[c], back[c], cap[buffer[c]])
            /\ pc[c] \in {"check", "cas", "reload"}
        BY <2>1, <2>O, Zenon
      <4>2. loc'[c].n \in Int /\ loc'[c].n <= loc[c].n
        <5>1. loc'[c].n = loc[c].i - Keep(loc[c].op) /\ Keep(loc[c].op) \in Int
          BY <2>5, KeepFacts, Zenon
        <5> QED
          BY <2>4, <5>1
      <4>3. Own("publish", loc'[c], front[c], back[c], cap[buffer[c]])
        BY <2>T, <4>1, <4>2, OwnStop
      <4> QED
        BY <2>5, <4>3, Zenon DEF Kind
    <3>4. Pinning(pc'[c], loc'[c]) /\ Live(pc'[c]) = Live(pc[c])
      BY <2>1, <2>5, Zenon DEF Pinning, StealPcs, DerefPcs, Live
    <3>5. Counts(pc'[c], loc'[c], Flavor[s])
      <4>1. /\ loc'[c].i \in Int /\ loc'[c].i >= 1 /\ loc'[c].op # "steal" /\ MAX_BATCH \in Nat
            /\ loc'[c].n = loc'[c].i - Keep(loc'[c].op) /\ loc'[c].i <= MAX_BATCH
        <5>1. loc[c].i >= 1 /\ loc[c].i <= MAX_BATCH
          BY <2>4
        <5> QED
          BY <2>4, <2>5, <3>1, <5>1, Zenon
      <4>2. Counts("publish", loc'[c], "Lifo")
        BY <4>1, CountsStop, Zenon
      <4> QED
        BY <2>5, <2>4, <4>2, Zenon
    <3>6. Aim(pc'[c], loc'[c], Flavor[s], front[s], back[s], back[s] + Live(pc[s]))
      BY <2>3, <2>5, <3>1, <2>4, Zenon DEF Aim
    <3> QED
      BY <2>1, <2>3, <2>5, <3>1, <3>3, <3>4, <3>5, <3>6, <1>Thief, Zenon
  <2>6. CASE ~(back[s] - loc[c].f <= 0) /\ pc'[c] = "read" /\ loc'[c] = loc[c]
    <3>3. Own(pc'[c], loc'[c], front[c], back[c], cap[buffer[c]]) /\ Kind(pc'[c], Flavor[c])
      BY <2>1, <2>6, OwnFacts, Typed, Zenon DEF Own, Live, PushPcs, ResizePcs, DerefPcs, Kind
    <3>4. Pinning(pc'[c], loc'[c]) /\ Live(pc'[c]) = Live(pc[c])
      BY <2>1, <2>6, Zenon DEF Pinning, StealPcs, DerefPcs, Live
    <3>5. Counts(pc'[c], loc'[c], Flavor[s])
      <4>1. 0 <= loc[c].i
        BY <2>4
      <4> QED
        BY <2>4, <2>6, <4>1, Zenon DEF Counts, DerefPcs
    <3>6. Aim(pc'[c], loc'[c], Flavor[s], front[s], back[s], back[s] + Live(pc[s]))
      <4>1. front[s] \in Int /\ back[s] \in Int
        BY <2>3, Typed, Zenon
      <4> QED
        <5>1. Live(pc[s]) \in {0, 1}
          BY Zenon DEF Live
        <5>2. front[s] = loc[c].f => front[s] < back[s] + Live(pc[s])
          BY <2>6, <4>1, <5>1, <2>T
        <5> QED
          BY <2>3, <2>4, <2>6, <5>2, Zenon DEF Aim
    <3> QED
      BY <2>1, <2>3, <2>6, <3>3, <3>4, <3>5, <3>6, <1>Thief, Zenon
  <2> QED
    BY <2>1, <2>5, <2>6, Zenon
<1>Put. ASSUME NEW c \in Cpus, Put(c)
      PROVE  IndexInv'
  <2> USE <1>Put
  <2>T. /\ front[c] \in Int /\ back[c] \in Int /\ cap[buffer[c]] \in Nat \ {0}
        /\ loc[c].f \in Int /\ loc[c].n \in Int /\ loc[c].i \in Int /\ loc[c].len \in Int
        /\ loc[c].ncap \in Nat
    BY Typed, Zenon
  <2> DEFINE s == loc[c].src
  <2>1. /\ Others(c) /\ pc[c] = "put" /\ UNCHANGED <<front, back, buffer, cap>>
        /\ pc'[c] = IF loc[c].i = loc[c].n + Keep(loc[c].op) THEN "publish" ELSE "reload"
        /\ Same(loc'[c], loc[c], {"held"})
    <3>1. loc'[c] = [loc[c] EXCEPT !.held = loc[c].task]
      BY Shapes, Zenon DEF Put
    <3>2. loc'[c].held = loc[c].task /\ Same(loc'[c], loc[c], {"held"})
      BY <3>1, Typed, Zenon DEF Same, Fields, LocType
    <3>3. /\ Others(c)
          /\ pc'[c] = IF loc[c].i = loc[c].n + Keep(loc[c].op) THEN "publish" ELSE "reload"
      BY Shapes, Zenon DEF Put, Goto, Others
    <3>4. /\ slot' = CASE loc[c].op = "batch" ->
                               SlotWrite(buffer[c], back[c] + loc[c].i - 1, loc[c].task)
                          [] loc[c].op # "batch" /\ loc[c].i > 1 ->
                               SlotWrite(buffer[c], back[c] + loc[c].i - 2, loc[c].held)
                          [] OTHER -> slot
          /\ UNCHANGED <<front, back, buffer, cap, garbage, pinned, pushed, taken, stolen>>
          /\ pc[c] = "put"
      BY Zenon DEF Put, queues, history
    <3> QED
      BY <3>2, <3>3, <3>4, Zenon
  <2>2. /\ loc'[c].op = loc[c].op /\ loc'[c].src = s /\ loc'[c].f = loc[c].f
        /\ loc'[c].i = loc[c].i /\ loc'[c].n = loc[c].n
    BY <2>1, Zenon DEF Same, Fields
  <2>3. Stealing(pc[c], loc[c]) /\ Pinning(pc[c], loc[c])
    BY <2>1, Zenon DEF Stealing, Pinning, StealPcs, DerefPcs
  <2>4. /\ s \in Cpus /\ loc[c].op \in StealOps /\ (loc[c].op # "steal" => s # c)
        /\ Counts(pc[c], loc[c], Flavor[s])
        /\ Aim(pc[c], loc[c], Flavor[s], front[s], back[s], back[s] + Live(pc[s]))
        /\ Flavor[s] \in {"Fifo", "Lifo"}
    BY <2>3, ThiefFacts, Zenon
  <2>5. pc'[c] \in {"publish", "reload"}
    BY <2>1, Zenon
  <2>6. Own(pc'[c], loc'[c], front[c], back[c], cap[buffer[c]]) /\ Kind(pc'[c], Flavor[c])
    BY <2>1, <2>2, <2>5, OwnFacts, Typed, Zenon DEF Own, Live, PushPcs, ResizePcs, DerefPcs, Kind
  <2>7. Pinning(pc'[c], loc'[c]) /\ Live(pc'[c]) = Live(pc[c])
    BY <2>1, <2>5, Zenon DEF Pinning, StealPcs, DerefPcs, Live
  <2>8. /\ Flavor[s] = "Lifo" /\ 1 <= loc[c].i /\ loc[c].i <= loc[c].n + Keep(loc[c].op)
        /\ 0 <= loc[c].n /\ (loc[c].op = "steal" => loc[c].n = 0)
        /\ (loc[c].op = "batch" => loc[c].n >= 1) /\ loc[c].n <= MAX_BATCH - Keep(loc[c].op)
    BY <2>1, <2>3, <2>4, Zenon DEF Counts
  <2>9. Counts(pc'[c], loc'[c], Flavor[s])
    <3>1. Keep(loc[c].op) \in Int
      BY DEF Keep
    <3> QED
      <4>1. Counts(pc'[c], loc'[c], "Lifo")
        BY <2>1, <2>2, <2>8, <2>T, CountsPut
      <4> QED
        BY <2>8, <4>1, Zenon
  <2>10. Aim(pc'[c], loc'[c], Flavor[s], front[s], back[s], back[s] + Live(pc[s]))
    BY <2>2, <2>4, <2>5, <2>8, Zenon DEF Aim
  <2> QED
    BY <2>1, <2>2, <2>4, <2>5, <2>6, <2>7, <2>9, <2>10, <1>Thief, Zenon
\* A thief's compare-exchange succeeds: the front of its source moves by k,
\* over tasks that are there.
<1>Cas. ASSUME NEW c \in Cpus, Others(c), pc[c] = "cas", NEW s \in Cpus, s = loc[c].src,
               front[s] = loc[c].f, NEW k \in Nat, k > 0, Flavor[s] = "Lifo" => k = 1,
               Flavor[s] = "Fifo" => k = Keep(loc[c].op) + loc[c].n,
               front' = [front EXCEPT ![s] = @ + k], UNCHANGED <<back, buffer, cap>>,
               pc'[c] \in {"idle", "publish", "put"},
               pc'[c] = "idle" \/ (s # c /\ loc'[c].n = loc[c].n), Kind(pc'[c], Flavor[c]),
               ThiefI(c)'
      PROVE  IndexInv'
  <2> USE <1>Cas
  <2>T. /\ front[c] \in Int /\ back[c] \in Int /\ cap[buffer[c]] \in Nat \ {0}
        /\ loc[c].f \in Int /\ loc[c].n \in Int /\ loc[c].i \in Int /\ loc[c].len \in Int
        /\ loc[c].ncap \in Nat
    BY Typed, Zenon
  <2>1. Stealing(pc[c], loc[c]) /\ Pinning(pc[c], loc[c])
    BY Zenon DEF Stealing, Pinning, StealPcs, DerefPcs
  <2>2. /\ Aim(pc[c], loc[c], Flavor[s], front[s], back[s], back[s] + Live(pc[s]))
        /\ Flavor[s] \in {"Fifo", "Lifo"}
    BY <2>1, ThiefFacts, Zenon
  <2>3. Own(pc[s], loc[s], front[s], back[s], cap[buffer[s]]) /\ Kind(pc[s], Flavor[s])
    BY OwnFacts, Zenon
  <2>4. /\ front[s] + k <= back[s] + Live(pc[s]) /\ pc[s] # "pop_restore"
        /\ front'[s] = front[s] + k
    <3>1. front[s] \in Int /\ back[s] \in Int /\ front'[s] = front[s] + k
      BY Typed, Shapes, Zenon
    <3>2. CASE Flavor[s] = "Lifo"
      <4>1. front[s] < back[s] + Live(pc[s])
        BY <2>1, <2>2, <3>2, Zenon DEF Aim
      <4> QED
        <5>1. pc[s] # "pop_restore"
          BY <2>3, <3>2, Zenon DEF Kind
        <5>2. Live(pc[s]) \in {0, 1} /\ k = 1
          BY <3>2, Zenon DEF Live
        <5> QED
          BY <3>1, <4>1, <5>1, <5>2, Reach, Zenon
    <3>3. CASE Flavor[s] = "Fifo"
      <4>1. front[s] + k <= back[s]
        <5>1. loc[c].f + Keep(loc[c].op) + loc[c].n <= back[s] /\ Keep(loc[c].op) \in Int
          BY <2>1, <2>2, <3>3, KeepFacts, Zenon DEF Aim
        <5>2. loc[c].f + (Keep(loc[c].op) + loc[c].n) <= back[s]
          BY <3>1, <5>1, <2>T, Regroup, Zenon
        <5> QED
          BY <3>3, <5>1, <5>2, Zenon
      <4> QED
        <5>1. pc[s] = "pop_restore" => front[s] = back[s] + 1
          BY <2>3, Zenon DEF Own
        <5>2. Live(pc[s]) \in {0, 1}
          BY Zenon DEF Live
        <5> QED
          BY <3>1, <4>1, <5>1, <5>2, Reach, Zenon
    <3> QED
      BY <2>2, <3>2, <3>3, Zenon
  <2>5. ASSUME NEW e \in Cpus, e # c PROVE Drift(e)
    <3>1. CASE e = s
      <4>1. front[s] <= front[s] + k
        <5>1. front[s] \in Int
          BY Typed, Zenon
        <5> QED
          BY <5>1, Reach, Zenon
      <4> QED
        BY <2>4, <3>1, <4>1, Zenon DEF Drift
    <3>2. CASE e # s
      BY <3>2, Shapes, Zenon DEF Drift
    <3> QED
      BY <3>1, <3>2, Zenon
  <2>6. Live(pc'[c]) = Live(pc[c])
    BY Zenon DEF Live
  <2>7. Onward(c)
    <3>1. CASE c = s
      <4>1. front'[c] = front[c] + k /\ back'[c] = back[c]
        BY <2>4, <3>1, Zenon
      <4>2. front'[c] >= front[c] /\ front'[c] # front[c] /\ back'[c] >= back[c]
        <5>1. back[c] >= back[c] /\ front[c] + k >= front[c] /\ front[c] + k # front[c]
          BY <2>T, Reach, Zenon
        <5> QED
          BY <4>1, <5>1, Zenon
      <4> QED
        BY <4>2, Zenon DEF Onward
    <3>2. CASE c # s
      <4>1. front'[c] = front[c] /\ back'[c] = back[c]
        BY <3>2, Shapes, Zenon
      <4> QED
        BY <2>6, <4>1, OnwardStill, Zenon
    <3> QED
      BY <3>1, <3>2, Zenon
  <2>8. CapInv'
    <3>1. \A b \in Bufs : cap'[b] \in Caps
      BY Zenon DEF IndexInv, CapInv
    <3>2. \A d \in Cpus : /\ pc'[d] \in ResizePcs => loc'[d].ncap \in Caps
                          /\ pc'[d] = "resize_swap" => cap'[loc'[d].nbuf] = loc'[d].ncap
      BY Zenon DEF IndexInv, CapInv, Others, ResizePcs
    <3> QED
      BY <3>1, <3>2, Zenon DEF CapInv
  <2>9. Own(pc'[c], loc'[c], front'[c], back[c], cap[buffer[c]])
    <3>1. Own(pc[c], loc[c], front[c], back[c], cap[buffer[c]])
      BY OwnFacts, Zenon
    <3>2. CASE c = s
      <4>1. pc'[c] = "idle"
        BY <3>2, Zenon
      <4>2. /\ Own("cas", loc[c], front[c], back[c], cap[buffer[c]]) /\ front'[c] = front[c] + k
            /\ front[c] + k <= back[c] + Live("cas")
        BY <2>4, <3>1, <3>2, Zenon
      <4>3. Own("idle", loc'[c], front[c] + k, back[c], cap[buffer[c]])
        BY <2>T, <4>2, OwnLoses, Zenon
      <4> QED
        BY <4>1, <4>2, <4>3, Zenon
    <3>3. CASE c # s
      <4>1. front'[c] = front[c]
        BY <3>3, Shapes, Zenon
      <4> QED
        BY <3>1, <4>1, Typed, Zenon DEF Own, Live, PushPcs, ResizePcs, DerefPcs
    <3> QED
      BY <3>2, <3>3, Zenon
  <2> QED
    BY <2>5, <2>7, <2>8, <2>9, <1>IndexStep, Zenon DEF OwnI
<1>CasSteal. ASSUME NEW c \in Cpus, CasSteal(c)
      PROVE  IndexInv'
  <2> USE <1>CasSteal
  <2>1. /\ Others(c) /\ pc[c] = "cas" /\ pc'[c] = "idle" /\ loc'[c] = NoLoc
        /\ loc[c].op = "steal" /\ front[loc[c].src] = loc[c].f
        /\ front' = [front EXCEPT ![loc[c].src] = @ + 1] /\ UNCHANGED <<back, buffer, cap>>
    BY ReturnDoes, Zenon DEF CasSteal, Src
  <2>2. Stealing(pc[c], loc[c]) /\ Pinning(pc[c], loc[c])
    BY <2>1, Zenon DEF Stealing, Pinning, StealPcs, DerefPcs
  <2>3. loc[c].src \in Cpus /\ 1 = Keep(loc[c].op) + loc[c].n
    <3>1. loc[c].src \in Cpus /\ loc[c].n = 0 /\ Keep(loc[c].op) = 1
      BY <2>1, <2>2, ThiefFacts, KeepFacts, Zenon DEF Counts
    <3> QED
      BY <3>1
  <2>4. Kind(pc'[c], Flavor[c]) /\ ThiefI(c)'
    BY <2>1, <1>NotStealing, Zenon DEF Kind, ThiefI, Stealing
  <2>6. PICK s \in Cpus : s = loc[c].src
    BY <2>3, Zenon
  <2>7. PICK k \in Nat : k = 1
    BY Zenon
  <2>9. front' = [front EXCEPT ![s] = @ + k]
    <3>1. front' = [front EXCEPT ![loc[c].src] = @ + 1]
      BY <2>1, Zenon
    <3> QED
      BY <2>6, <2>7, <3>1, Zenon
  <2>8. front[s] = loc[c].f /\ k > 0 /\ s = loc[c].src
    BY <2>1, <2>6, <2>7
  <2>10. (Flavor[s] = "Lifo" => k = 1) /\ (Flavor[s] = "Fifo" => k = Keep(loc[c].op) + loc[c].n)
    BY <2>3, <2>7, Zenon
  <2>11. /\ Others(c) /\ pc[c] = "cas" /\ UNCHANGED <<back, buffer, cap>>
         /\ pc'[c] \in {"idle", "publish", "put"}
         /\ (pc'[c] = "idle" \/ (s # c /\ loc'[c].n = loc[c].n))
    BY <2>1, Zenon
  <2> QED
    BY <2>4, <2>8, <2>9, <2>10, <2>11, <1>Cas, Zenon
<1>CasBatch. ASSUME NEW c \in Cpus, CasBatch(c)
      PROVE  IndexInv'
  <2> USE <1>CasBatch
  <2>T. /\ front[c] \in Int /\ back[c] \in Int /\ cap[buffer[c]] \in Nat \ {0}
        /\ loc[c].f \in Int /\ loc[c].n \in Int /\ loc[c].i \in Int /\ loc[c].len \in Int
        /\ loc[c].ncap \in Nat
    BY Typed, Zenon
  <2> DEFINE s == loc[c].src
             k == Keep(loc[c].op) + loc[c].n
  <2>1. /\ Others(c) /\ pc[c] = "cas" /\ pc'[c] = "publish" /\ loc'[c] = loc[c]
        /\ loc[c].op # "steal" /\ ~OneByOne(c) /\ front[s] = loc[c].f
        /\ front' = [front EXCEPT ![s] = @ + Keep(loc[c].op) + loc[c].n]
        /\ UNCHANGED <<back, buffer, cap>>
    BY Shapes, Zenon DEF CasBatch, Src, Goto, Others, memory
  <2>2. Stealing(pc[c], loc[c]) /\ Pinning(pc[c], loc[c])
    BY <2>1, Zenon DEF Stealing, Pinning, StealPcs, DerefPcs
  <2>3. /\ s \in Cpus /\ loc[c].op \in StealOps /\ s # c
        /\ Counts(pc[c], loc[c], Flavor[s])
        /\ Aim(pc[c], loc[c], Flavor[s], front[s], back[s], back[s] + Live(pc[s]))
        /\ Flavor[s] = "Fifo"
    BY <2>1, <2>2, ThiefFacts, Zenon DEF OneByOne, Src
  <2>4. k \in Nat /\ k > 0
    <3>1. /\ Keep(loc[c].op) \in {0, 1} /\ 0 <= loc[c].n /\ (loc[c].op = "batch" => loc[c].n >= 1)
          /\ (loc[c].op # "batch" => Keep(loc[c].op) = 1)
      BY <2>2, <2>3, KeepFacts, Zenon DEF Counts
    <3> QED
      BY <3>1, <2>T
  <2>5. front' = [front EXCEPT ![s] = @ + k]
    <3>1. front[s] + Keep(loc[c].op) + loc[c].n = front[s] + k
      <4>1. front[s] \in Int
        BY <2>3, Typed, Zenon
      <4> QED
        <5>1. Keep(loc[c].op) \in Int
          BY KeepFacts, Zenon
        <5> QED
          BY <4>1, <5>1, <2>T
    <3> QED
      BY <2>1, <3>1, Zenon
  <2>6. Kind(pc'[c], Flavor[c])
    BY <2>1, Zenon DEF Kind
  <2>7. ThiefI(c)'
    <3>1. front'[s] \in Int /\ front'[s] >= front[s] /\ pc'[s] = pc[s]
      <4>1. front'[s] = front[s] + k /\ front[s] \in Int /\ pc'[s] = pc[s]
        BY <2>1, <2>3, <2>5, Shapes, Zenon DEF Others
      <4> QED
        BY <2>4, <4>1
    <3>2. Pinning(pc'[c], loc'[c])
      BY <2>1, Zenon DEF Pinning, StealPcs, DerefPcs
    <3>3. Counts(pc'[c], loc'[c], Flavor[s])
      BY <2>1, <2>2, <2>3, Zenon DEF Counts, DerefPcs
    <3>4. Aim(pc'[c], loc'[c], Flavor[s], front'[s], back'[s], back'[s] + Live(pc'[s]))
      BY <2>1, <2>2, <2>3, Zenon DEF Aim
    <3> QED
      BY <2>1, <2>3, <3>3, <3>4, Zenon DEF ThiefI
  <2> QED
    BY <2>1, <2>3, <2>4, <2>5, <2>6, <2>7, <1>Cas, Zenon
<1>CasOne. ASSUME NEW c \in Cpus, CasOne(c)
      PROVE  IndexInv'
  <2> USE <1>CasOne
  <2>T. /\ front[c] \in Int /\ back[c] \in Int /\ cap[buffer[c]] \in Nat \ {0}
        /\ loc[c].f \in Int /\ loc[c].n \in Int /\ loc[c].i \in Int /\ loc[c].len \in Int
        /\ loc[c].ncap \in Nat
    BY Typed, Zenon
  <2> DEFINE s == loc[c].src
  <2>1. /\ Others(c) /\ pc[c] = "cas" /\ pc'[c] = "put"
        /\ OneByOne(c) /\ front[s] = loc[c].f
        /\ front' = [front EXCEPT ![s] = @ + 1]
        /\ loc'[c].f = loc[c].f + 1 /\ loc'[c].i = loc[c].i + 1
        /\ Same(loc'[c], loc[c], {"f", "i"})
        /\ UNCHANGED <<back, buffer, cap>>
    <3>1. loc'[c] = [loc[c] EXCEPT !.f = @ + 1, !.i = @ + 1]
      BY Shapes, Zenon DEF CasOne
    <3>2. /\ loc'[c].f = loc[c].f + 1 /\ loc'[c].i = loc[c].i + 1
          /\ Same(loc'[c], loc[c], {"f", "i"})
      BY <3>1, Typed, Zenon DEF Same, Fields, LocType
    <3> QED
      BY <3>2, Shapes, Zenon DEF CasOne, Src, Goto, Others, memory
  <2>2. /\ loc'[c].op = loc[c].op /\ loc'[c].src = s /\ loc'[c].n = loc[c].n
    BY <2>1, Zenon DEF Same, Fields
  <2>3. Stealing(pc[c], loc[c]) /\ Pinning(pc[c], loc[c])
    BY <2>1, Zenon DEF Stealing, Pinning, StealPcs, DerefPcs
  <2>4. /\ s \in Cpus /\ loc[c].op \in StealOps /\ s # c
        /\ Counts(pc[c], loc[c], Flavor[s])
        /\ Aim(pc[c], loc[c], Flavor[s], front[s], back[s], back[s] + Live(pc[s]))
        /\ Flavor[s] = "Lifo"
    BY <2>1, <2>3, ThiefFacts, Zenon DEF OneByOne, Src
  <2>5. Kind(pc'[c], Flavor[c])
    BY <2>1, Zenon DEF Kind
  <2>6. ThiefI(c)'
    <3>1. front'[s] = front[s] + 1 /\ pc'[s] = pc[s]
      BY <2>1, <2>4, Shapes, Zenon DEF Others
    <3>2. Pinning(pc'[c], loc'[c])
      BY <2>1, Zenon DEF Pinning, StealPcs, DerefPcs
    <3>3. /\ 0 <= loc[c].n /\ (loc[c].op = "steal" => loc[c].n = 0)
          /\ (loc[c].op = "batch" => loc[c].n >= 1) /\ loc[c].n <= MAX_BATCH - Keep(loc[c].op)
          /\ 0 <= loc[c].i /\ loc[c].i < loc[c].n + Keep(loc[c].op) /\ Keep(loc[c].op) \in Int
      BY <2>1, <2>3, <2>4, KeepFacts, Zenon DEF Counts
    <3>4. Counts(pc'[c], loc'[c], Flavor[s])
      <4>1. Keep(loc'[c].op) = Keep(loc[c].op) /\ loc'[c].i >= 1
            /\ loc'[c].i <= loc[c].n + Keep(loc[c].op)
        <5>1. loc'[c].i = loc[c].i + 1
          BY <2>1, Zenon
        <5>2. loc'[c].i >= 1 /\ loc'[c].i <= loc[c].n + Keep(loc[c].op)
          BY <3>3, <5>1, <2>T
        <5> QED
          BY <2>2, <5>2, Zenon
      <4> QED
        <5>1. 1 <= loc'[c].i
          BY <4>1
        <5> QED
          BY <2>1, <2>2, <2>4, <3>3, <4>1, <5>1, Zenon DEF Counts, DerefPcs
    <3>5. Aim(pc'[c], loc'[c], Flavor[s], front'[s], back'[s], back'[s] + Live(pc'[s]))
      <4>1. loc'[c].f <= front'[s]
        <5>1. loc'[c].f = loc[c].f + 1 /\ front'[s] = loc[c].f + 1
          BY <2>1, <3>1, Zenon
        <5> QED
          BY <5>1, <2>T
      <4> QED
        BY <2>1, <2>4, <4>1, Zenon DEF Aim
    <3> QED
      BY <2>1, <2>2, <2>4, <3>4, <3>5, Zenon DEF ThiefI
  <2>7. PICK k \in Nat : k = 1
    BY Zenon
  <2>8. /\ front' = [front EXCEPT ![s] = @ + k] /\ k > 0
        /\ Flavor[s] = "Lifo" => k = 1
        /\ Flavor[s] = "Fifo" => k = Keep(loc[c].op) + loc[c].n
    <3>1. k > 0
      BY <2>7
    <3> QED
      BY <2>1, <2>4, <2>7, <3>1, Zenon
  <2> HIDE DEF s
  <2> QED
    BY <2>1, <2>2, <2>4, <2>5, <2>6, <2>8, <1>Cas, Zenon DEF s
<1>Publish. ASSUME NEW c \in Cpus, Publish(c)
      PROVE  IndexInv'
  <2> USE <1>Publish
  <2>T. /\ front[c] \in Int /\ back[c] \in Int /\ cap[buffer[c]] \in Nat \ {0}
        /\ loc[c].f \in Int /\ loc[c].n \in Int /\ loc[c].i \in Int /\ loc[c].len \in Int
        /\ loc[c].ncap \in Nat
    BY Typed, Zenon
  <2>O. /\ Own(pc[c], loc[c], front[c], back[c], cap[buffer[c]]) /\ Kind(pc[c], Flavor[c])
        /\ cap[buffer[c]] >= MIN_CAP /\ MIN_CAP \in Nat /\ MIN_CAP > 0
        /\ Flavor[c] \in {"Fifo", "Lifo"}
    BY OwnFacts, Zenon
  <2>1. /\ Others(c) /\ pc[c] = "publish" /\ pc'[c] = "idle" /\ loc'[c] = NoLoc
        /\ back' = [back EXCEPT ![c] = @ + loc[c].n] /\ UNCHANGED <<front, buffer, cap>>
    <3>1. loc[c].op \in {"batch", "batchpop"}
      BY Typed, Zenon DEF Publish, LocOK, StealPcs, DerefPcs, StealOps
    <3>3. \/ loc[c].op = "batch" /\ taken' = taken
          \/ /\ loc[c].op = "batchpop"
             /\ Take(IF OneByOne(c) THEN loc[c].held ELSE loc[c].task)
      BY <3>1, Zenon DEF Publish
    <3>4. Others(c) /\ pc'[c] = "idle" /\ loc'[c] = NoLoc
      BY ReturnDoes, Zenon DEF Publish
    <3>5. /\ slot' = IF MustReverse(c)
                      THEN Reversed(buffer[c], back[c], loc[c].n) ELSE slot
          /\ back' = [back EXCEPT ![c] = @ + loc[c].n]
          /\ stolen' = [stolen EXCEPT ![c] = <<>>]
          /\ Unpin(c) /\ UNCHANGED <<front, buffer, cap, pushed>> /\ pc[c] = "publish"
      BY Zenon DEF Publish
    <3> QED
      BY <3>3, <3>4, <3>5, Zenon
  <2>2. Stealing(pc[c], loc[c]) /\ Pinning(pc[c], loc[c])
    BY <2>1, Zenon DEF Stealing, Pinning, StealPcs, DerefPcs
  <2>3. 0 <= loc[c].n
    BY <2>2, ThiefFacts, Zenon DEF Counts
  <2>4. back'[c] = back[c] + loc[c].n /\ \A e \in Cpus \ {c} : front'[e] = front[e] /\ back'[e] = back[e]
    BY <2>1, Shapes, Zenon
  <2>5. Own(pc'[c], loc'[c], front[c], back'[c], cap[buffer[c]]) /\ Kind(pc'[c], Flavor[c])
    <3>1. front[c] <= back[c] /\ back[c] - front[c] + loc[c].n <= cap[buffer[c]]
      <4>1. /\ front[c] <= back[c] + Live(pc[c]) /\ Live(pc[c]) = 0
            /\ back[c] - front[c] + loc[c].n <= cap[buffer[c]]
        BY <2>1, <2>O, Zenon DEF Own, Live, DerefPcs
      <4> QED
        BY <4>1, <2>T
    <3>2. front[c] <= back'[c] /\ back'[c] - front[c] <= cap[buffer[c]]
      BY <2>3, <2>4, <3>1, <2>T
    <3> QED
      <4>1. back'[c] \in Int
        BY Zenon DEF TypeOK, MemoryOK
      <4>2. Own("idle", loc'[c], front[c], back'[c], cap[buffer[c]])
        BY <3>2, <4>1, <2>T, OwnIdle, Zenon
      <4> QED
        BY <2>1, <4>2, Zenon DEF Kind
  <2>6. Onward(c) /\ ~Stealing(pc'[c], loc'[c])
    <3>1. /\ front'[c] = front[c] /\ Live(pc'[c]) = 0 /\ Live(pc[c]) = 0
      BY <2>1, Zenon DEF Live
    <3>2. loc[c].n \in Nat
      BY <2>3, <2>T
    <3> QED
      BY <2>1, <2>4, <3>1, <3>2, <1>NotStealing, OnwardStill, Zenon
  <2> QED
    BY <2>1, <2>4, <2>5, <2>6, <1>Move, Zenon DEF OwnI, ThiefI, Stealing
<1>ResizeCopy. ASSUME NEW c \in Cpus, ResizeCopy(c)
      PROVE  IndexInv'
  <2> USE <1>ResizeCopy
  <2>T. /\ front[c] \in Int /\ back[c] \in Int /\ cap[buffer[c]] \in Nat \ {0}
        /\ loc[c].f \in Int /\ loc[c].n \in Int /\ loc[c].i \in Int /\ loc[c].len \in Int
        /\ loc[c].ncap \in Nat
    BY Typed, Zenon
  <2>1. PICK nb \in Bufs \ InUse :
           /\ Others(c) /\ pc[c] = "resize" /\ pc'[c] = "resize_swap"
           /\ loc'[c].nbuf = nb /\ Same(loc'[c], loc[c], {"nbuf"})
           /\ cap' = [cap EXCEPT ![nb] = loc[c].ncap]
           /\ UNCHANGED <<front, back, buffer>>
    <3>1. PICK nb \in Bufs \ InUse :
             /\ cap' = [cap EXCEPT ![nb] = loc[c].ncap]
             /\ slot' = [slot EXCEPT ![nb] =
                  [x \in 0..(loc[c].ncap - 1) |->
                     LET i == front[c] + ((x - front[c]) % loc[c].ncap)
                     IN  IF i < back[c] THEN At(buffer[c], i) ELSE Nil]]
             /\ loc' = [loc EXCEPT ![c].nbuf = nb]
      BY Zenon DEF ResizeCopy
    <3>2. loc'[c] = [loc[c] EXCEPT !.nbuf = nb] /\ Others(c) /\ pc'[c] = "resize_swap"
      BY <3>1, Shapes, ZenonT(40) DEF ResizeCopy, Goto, Others
    <3>3. loc'[c].nbuf = nb /\ Same(loc'[c], loc[c], {"nbuf"})
      BY <3>2, Typed, Zenon DEF Same, Fields, LocType
    <3>4. /\ UNCHANGED <<front, back, buffer, garbage, pinned, pushed, taken, stolen>>
          /\ pc[c] = "resize"
      BY Zenon DEF ResizeCopy, queues, history
    <3> QED
      BY <3>1, <3>2, <3>3, <3>4, Zenon
  <2>2. /\ loc'[c].op = loc[c].op /\ loc'[c].src = loc[c].src /\ loc'[c].f = loc[c].f
        /\ loc'[c].i = loc[c].i /\ loc'[c].n = loc[c].n /\ loc'[c].ncap = loc[c].ncap
        /\ loc'[c].ret = loc[c].ret
    BY <2>1, Zenon DEF Same, Fields
  <2>3. \A e \in Cpus : nb # buffer[e] /\ nb # loc[e].nbuf
    BY <2>1, Zenon DEF InUse
  <2>4. \A b \in Bufs \ {nb} : cap'[b] = cap[b]
    BY <2>1, Shapes, Zenon
  <2>5. \A e \in Cpus : cap'[buffer[e]] = cap[buffer[e]]
    BY <2>3, <2>4, Typed, Zenon
  <2>6. \A e \in Cpus \ {c} : Drift(e)
    BY <2>1, <2>5, Zenon DEF Drift
  <2>7. Onward(c)
    <3>1. front'[c] = front[c] /\ back'[c] = back[c] /\ Live(pc'[c]) = Live(pc[c])
      BY <2>1, Zenon DEF Live
    <3> QED
      BY <3>1, OnwardStill, Zenon
  <2>8. CapInv'
    <3>0. loc[c].ncap \in Caps
      BY <2>1, Zenon DEF IndexInv, CapInv, ResizePcs
    <3>1. \A b \in Bufs : cap'[b] \in Caps
      BY <2>1, <3>0, Shapes, Zenon DEF IndexInv, CapInv
    <3>2. ASSUME NEW d \in Cpus
          PROVE  /\ pc'[d] \in ResizePcs => loc'[d].ncap \in Caps
                 /\ pc'[d] = "resize_swap" => cap'[loc'[d].nbuf] = loc'[d].ncap
      <4>1. CASE d = c
        BY <2>1, <2>2, <3>0, <4>1, Shapes, Zenon
      <4>2. CASE d # c
        <5>1. pc[d] = "resize_swap" => loc[d].nbuf \in Bufs
          BY Typed, Zenon DEF LocOK
        <5> QED
          BY <2>1, <2>3, <2>4, <4>2, <5>1 DEF IndexInv, CapInv, Others
      <4> QED
        BY <4>1, <4>2, Zenon
    <3> QED
      BY <3>1, <3>2, Zenon DEF CapInv
  <2>9. Own(pc'[c], loc'[c], front[c], back[c], cap[buffer[c]]) /\ Kind(pc'[c], Flavor[c])
    BY <2>1, <2>2, OwnFacts, Zenon DEF Own, Live, PushPcs, ResizePcs, DerefPcs, Kind
  <2>10. ThiefI(c)'
    <3>1. SUFFICES ASSUME loc[c].ret = "load_buf" PROVE ThiefI(c)'
      BY <2>1, <2>2, Zenon DEF ThiefI, Stealing, StealPcs, DerefPcs
    <3>2. Stealing(pc[c], loc[c]) /\ Pinning(pc[c], loc[c]) /\ Pinning(pc'[c], loc'[c])
      BY <2>1, <2>2, <3>1, Zenon DEF Stealing, Pinning, ResizePcs
    <3> DEFINE s == loc[c].src
    <3>3. /\ s \in Cpus /\ loc[c].op \in StealOps /\ (loc[c].op # "steal" => s # c)
          /\ Counts(pc[c], loc[c], Flavor[s])
          /\ Aim(pc[c], loc[c], Flavor[s], front[s], back[s], back[s] + Live(pc[s]))
      BY <3>2, ThiefFacts, Zenon
    <3>4. Counts(pc'[c], loc'[c], Flavor[s])
      BY <2>1, <2>2, <3>2, <3>3, Zenon DEF Counts, DerefPcs
    <3>5. Aim(pc'[c], loc'[c], Flavor[s], front[s], back[s], back[s] + Live(pc[s]))
      BY <2>1, <2>2, <3>2, <3>3, Zenon DEF Aim
    <3>6. Live(pc'[s]) = Live(pc[s])
      BY <2>1, <3>3, Zenon DEF Others, Live
    <3> QED
      BY <2>1, <2>2, <3>3, <3>4, <3>5, <3>6, Zenon DEF ThiefI
  <2> QED
    BY <2>1, <2>5, <2>6, <2>7, <2>8, <2>9, <2>10, <1>IndexStep, Zenon DEF OwnI
<1>ResizeSwap. ASSUME NEW c \in Cpus, ResizeSwap(c)
      PROVE  IndexInv'
  <2> USE <1>ResizeSwap
  <2>T. /\ front[c] \in Int /\ back[c] \in Int /\ cap[buffer[c]] \in Nat \ {0}
        /\ loc[c].f \in Int /\ loc[c].n \in Int /\ loc[c].i \in Int /\ loc[c].len \in Int
        /\ loc[c].ncap \in Nat
    BY Typed, Zenon
  <2>1. /\ Others(c) /\ pc[c] = "resize_swap" /\ pc'[c] = loc[c].ret
        /\ buffer' = [buffer EXCEPT ![c] = loc[c].nbuf]
        /\ \/ loc[c].ret = "idle" /\ loc'[c] = NoLoc
           \/ loc[c].ret # "idle" /\ Same(loc'[c], loc[c], {"nbuf", "ncap"})
        /\ UNCHANGED <<front, back, cap>>
    <3>1. /\ pc[c] = "resize_swap" /\ buffer' = [buffer EXCEPT ![c] = loc[c].nbuf]
          /\ Retire(buffer[c])
          /\ UNCHANGED <<front, back, cap, slot, pinned, pushed, taken, stolen>>
      BY Zenon DEF ResizeSwap, history
    <3>2. /\ loc'[c] = IF loc[c].ret = "idle" THEN NoLoc
                       ELSE [loc[c] EXCEPT !.nbuf = Nil, !.ncap = 0]
          /\ Others(c) /\ pc'[c] = loc[c].ret
      BY Shapes, Zenon DEF ResizeSwap, Goto, Others
    <3>3. CASE loc[c].ret = "idle"
      BY <3>1, <3>2, <3>3, Zenon
    <3>4. CASE loc[c].ret # "idle"
      <4>1. /\ Same(loc'[c], loc[c], {"nbuf", "ncap"}) /\ loc'[c].nbuf = Nil /\ loc'[c].ncap = 0
        BY <3>2, <3>4, Typed, Zenon DEF Same, Fields, LocType
      <4> QED
        BY <3>1, <3>2, <3>4, <4>1, Zenon
    <3> QED
      BY <3>3, <3>4, Zenon
  <2>2. loc[c].ret # "idle" =>
          /\ loc'[c].op = loc[c].op /\ loc'[c].src = loc[c].src /\ loc'[c].f = loc[c].f
          /\ loc'[c].i = loc[c].i /\ loc'[c].n = loc[c].n
    BY <2>1, Zenon DEF Same, Fields
  <2>3. buffer'[c] = loc[c].nbuf /\ cap[loc[c].nbuf] = loc[c].ncap
    BY <2>1, Shapes, Zenon DEF IndexInv, CapInv
  <2>4. \A e \in Cpus \ {c} : Drift(e)
    BY <2>1, Shapes, Zenon DEF Drift
  <2>5. loc[c].ret \in {"idle", "push_write", "load_buf"}
    BY Typed, Zenon DEF LocType, Rets
  <2>6. Onward(c)
    <3>1. front'[c] = front[c] /\ back'[c] = back[c] /\ Live(pc'[c]) = Live(pc[c])
      BY <2>1, <2>5, Zenon DEF Live
    <3> QED
      BY <3>1, OnwardStill, Zenon
  <2>7. CapInv'
    <3>1. \A b \in Bufs : cap'[b] \in Caps
      BY <2>1, Zenon DEF IndexInv, CapInv
    <3>2. \A d \in Cpus : /\ pc'[d] \in ResizePcs => loc'[d].ncap \in Caps
                          /\ pc'[d] = "resize_swap" => cap'[loc'[d].nbuf] = loc'[d].ncap
      BY <2>1, <2>5, Zenon DEF IndexInv, CapInv, Others, ResizePcs
    <3> QED
      BY <3>1, <3>2, Zenon DEF CapInv
  <2>8. Own(pc'[c], loc'[c], front[c], back[c], loc[c].ncap) /\ Kind(pc'[c], Flavor[c])
    <3>1. /\ Own("resize_swap", loc[c], front[c], back[c], cap[buffer[c]])
          /\ pc'[c] \in {"idle", "push_write", "load_buf"} /\ pc'[c] = loc[c].ret
          /\ pc'[c] = "idle" \/ loc'[c].n = loc[c].n
      BY <2>1, <2>2, <2>5, OwnFacts, Zenon
    <3>2. Own(pc'[c], loc'[c], front[c], back[c], loc[c].ncap)
      BY <2>T, <3>1, OwnSwap
    <3> QED
      BY <3>1, <3>2, Zenon DEF Kind
  <2>9. ThiefI(c)'
    <3>1. SUFFICES ASSUME loc[c].ret = "load_buf" PROVE ThiefI(c)'
      BY <2>1, <2>5, Zenon DEF ThiefI, Stealing, StealPcs, DerefPcs, ResizePcs
    <3>2. Stealing(pc[c], loc[c]) /\ Pinning(pc[c], loc[c]) /\ Pinning(pc'[c], loc'[c])
      BY <2>1, <3>1, Zenon DEF Stealing, Pinning, ResizePcs, StealPcs
    <3> DEFINE s == loc[c].src
    <3>3. /\ s \in Cpus /\ loc[c].op \in StealOps /\ (loc[c].op # "steal" => s # c)
          /\ Counts(pc[c], loc[c], Flavor[s])
          /\ Aim(pc[c], loc[c], Flavor[s], front[s], back[s], back[s] + Live(pc[s]))
      BY <3>2, ThiefFacts, Zenon
    <3>4. Counts(pc'[c], loc'[c], Flavor[s])
      BY <2>1, <2>2, <3>1, <3>2, <3>3, Zenon DEF Counts, DerefPcs
    <3>5. Aim(pc'[c], loc'[c], Flavor[s], front[s], back[s], back[s] + Live(pc[s]))
      BY <2>1, <2>2, <3>1, <3>2, <3>3, Zenon DEF Aim
    <3>6. Live(pc'[s]) = Live(pc[s])
      BY <2>1, <3>1, <3>3, Zenon DEF Others, Live
    <3> QED
      BY <2>1, <2>2, <3>1, <3>3, <3>4, <3>5, <3>6, Zenon DEF ThiefI
  <2> QED
    BY <2>1, <2>3, <2>4, <2>6, <2>7, <2>8, <2>9, <1>IndexStep, Zenon DEF OwnI
<1>Collect. ASSUME Collect
      PROVE  IndexInv'
  <2> USE <1>Collect
  <2>1. PICK g \in garbage :
           /\ g.buf \in Bufs /\ cap' = [cap EXCEPT ![g.buf] = MIN_CAP]
           /\ UNCHANGED <<front, back, buffer, pc, loc>>
    <3>1. PICK g \in garbage :
             /\ g.waits = {} /\ garbage' = garbage \ {g}
             /\ cap' = [cap EXCEPT ![g.buf] = MIN_CAP]
             /\ slot' = [slot EXCEPT ![g.buf] = [k \in 0..(MIN_CAP - 1) |-> Nil]]
             /\ UNCHANGED <<queues, pinned, pc, loc, history>>
      BY Zenon DEF Collect
    <3>2. g.buf \in Bufs
      BY Shapes, Zenon
    <3> QED
      BY <3>1, <3>2, Zenon DEF queues, history
  <2>2. \A b \in Bufs \ {g.buf} : cap'[b] = cap[b]
    BY <2>1, Shapes, Zenon
  <2>3. \A e \in Cpus : /\ cap'[buffer[e]] = cap[buffer[e]]
                        /\ pc[e] = "resize_swap" => cap'[loc[e].nbuf] = cap[loc[e].nbuf]
    <3>1. \A e \in Cpus : buffer[e] \in Bufs /\ (pc[e] = "resize_swap" => loc[e].nbuf \in Bufs)
      BY Typed, Zenon DEF LocOK
    <3> QED
      BY <2>1, <2>2, <3>1, Zenon DEF BufferInv, RoleInv
  <2>4. CapInv'
    <3>1. \A b \in Bufs : cap'[b] \in Caps
      BY <2>1, Shapes, CapsFacts, Zenon DEF IndexInv, CapInv
    <3> QED
      BY <2>1, <2>3, <3>1, Zenon DEF IndexInv, CapInv
  <2>5. \A e \in Cpus : OwnI(e)' /\ ThiefI(e)'
    BY <2>1, <2>3, Zenon DEF IndexInv, OwnI, ThiefI
  <2> QED
    BY <2>4, <2>5, Zenon DEF IndexInv
<1>1. CASE UNCHANGED vars
  BY <1>1, Zenon DEF vars, IndexInv, CapInv, OwnI, ThiefI
<1>2. CASE Collect
  BY <1>2, <1>Collect, Zenon
<1>3. ASSUME NEW c \in Cpus, Worker(c) PROVE IndexInv'
  BY <1>3, <1>Push, <1>PushWrite, <1>PushStore, <1>Pop, <1>PopFetch,
     <1>PopRestore, <1>PopDec, <1>PopCheck, <1>PopCas, <1>PopUndo, <1>ResizeCopy,
     <1>ResizeSwap, Zenon DEF Worker
<1>4. ASSUME NEW c \in Cpus, Stealer(c) PROVE IndexInv'
  BY <1>4, <1>StealBegin, <1>LoadBack, <1>Reserve, <1>LoadBuf, <1>Read, <1>Copy,
     <1>Check, <1>CasFail, <1>CasSteal, <1>CasBatch, <1>CasOne, <1>Put, <1>Reload,
     <1>Publish, Zenon DEF Stealer
<1> QED
  BY <1>1, <1>2, <1>3, <1>4, Zenon DEF Next

\* The invariant implies what TLC checks.
LEMMA IndexFits == TypeOK /\ IndexInv => ResizeFits
<1> SUFFICES ASSUME TypeOK, IndexInv, NEW c \in Cpus
             PROVE  LET len == back[c] - front[c]
                        room == cap[buffer[c]] - len IN
                    /\ pc[c] \in ResizePcs => 0 <= len /\ len + loc[c].n <= loc[c].ncap
                    /\ pc[c] = "reserve" => 0 <= len /\ 0 <= room
                    /\ pc[c] \in {"load_buf"} \cup DerefPcs => loc[c].n <= room
  BY Zenon DEF ResizeFits
<1> QED
  BY OwnFacts, Typed DEF Own, Live, ResizePcs, DerefPcs

\* The index invariant holds in every state.
LEMMA IndexCorrect == Spec => [](BufferInv /\ IndexInv)
<1>1. Init => BufferInv /\ IndexInv
  BY BufferInit, IndexInit, Zenon
<1>2. BufferInv /\ IndexInv /\ [Next]_vars => (BufferInv /\ IndexInv)'
  <2> SUFFICES ASSUME BufferInv, IndexInv, [Next]_vars PROVE BufferInv' /\ IndexInv'
    BY Zenon
  <2>1. BufferInv'
    BY BufferNext, Zenon
  <2>2. TypeOK'
    BY <2>1, Zenon DEF BufferInv
  <2> QED
    BY <2>1, <2>2, IndexNext, Zenon
<1> QED
  BY <1>1, <1>2, PTL DEF Spec

\* Worker::resize is never asked for a buffer too small for what it must hold.
THEOREM BuffersFit == Spec => []ResizeFits
<1>1. BufferInv /\ IndexInv => ResizeFits
  BY IndexFits, Zenon DEF BufferInv
<1> QED
  BY <1>1, IndexCorrect, PTL

=============================================================================
