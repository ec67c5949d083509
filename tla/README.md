# Verification of NaCl

NaCl is an x86_64 kernel in Rust. This directory holds TLA+ models of its task
system, its boot and its output, the TLC configurations that check them on
small instances, and TLAPS proofs of the properties that matter most. Line
numbers refer to `src/nacl/src/` unless a longer path is given.

## The system

| Part | Source | Modules | State |
|---|---|---|---|
| Worker queues and stealers (Chase-Lev deques) | `task/crossbeam.rs:17-1100` | `TaskQueues`, `Deque`, `DequeImpl`, `DequeProofs` | modelled, except drop |
| Epoch collector | `task/gc.rs` (crossbeam-epoch) | contract in `Deque`, creation in `CpuLocal` | partly |
| Injector queue | `task/crossbeam.rs:1100-1856` | `FifoQueue`, `Injector` | modelled, except `is_empty`; drop as an operator |
| `Steal` combinators, `find_task` | `task/crossbeam.rs:1859-2036`, `task/mod.rs:10-26` | `FindTask`, `FindTaskProofs` | modelled |
| Executor, wakers, `Yield` | `task/executor.rs`, `task/mod.rs:34-77` | `Executor`, `ExecutorProofs` | modelled |
| Async mutex | `task/lock.rs` | `Lock`, `LockProofs` | modelled |
| CPU-local state | `cores.rs` | `CpuLocal` | modelled |
| Timer calibration, delays | `arch/x86_64/time.rs` | `Timer` | modelled |
| Interrupt handlers | `arch/x86_64/interrupts.rs` | timer in `Timer`, exceptions in `Output` | partly |
| Framebuffer console, glyph map | `font/mod.rs` | `Console`, `Output` | modelled, except colours |
| Serial output | `serial.rs` | `Output`, `OutputProofs` | modelled |
| Frames, heap | `arch/x86_64/memory/` | `Frames`, `BootProofs` | partly |
| PIC, APIC, I/O APIC | `arch/x86_64/apic.rs` | `IoApic` | partly |
| Boot sequence, GDT, ACPI | `main.rs`, `arch/x86_64/{mod,gdt,acpi,boot}.rs` | `Boot`, `BootProofs` | partly |
| Application processors | `arch/x86_64/smp.rs` | | not compiled |
| Image builder | `src/nacl_boot/`, `src/nacl/build.rs` | | host tool, not modelled |

At boot one CPU maps the heap, sets up the console, routes interrupts,
calibrates its timer, then runs its executor for ever. The executor pops task
ids from the CPU's worker queue and polls their futures; wakers push ids back;
an idle executor tries to steal ids from the queues of all CPUs and otherwise
halts until the next timer interrupt. Futures, boot code and fault handlers
share devices through the mutex of `task/lock.rs`. All of it reaches the CPU's
own state through `cpu()`, which creates that state on first use.

This build starts one CPU (`arch/x86_64/mod.rs:9` has `// mod smp;`). The
queues, the mutex, the idle loop and printing are written for several, and are
modelled with several; where a result needs a second CPU this document says so.

## Modules

**`TaskQueues`** is what the queues promise: one sequence per CPU, `Push`,
`Pop` (front for FIFO, back for LIFO), `Steal`, and a batch steal in two steps,
`Grab` and `Deliver`, with the order documented for each pair of flavors.

**`Deque`** is the code: `front`, `back`, the current `buffer` of each CPU, the
capacity and slots of every buffer address, and a program counter and locals
(`pc`, `loc`) per CPU. One step is one access to memory another CPU can reach.

- `Worker::push`: `Push`, `PushWrite`, `PushStore`. `pop`: `Pop`, then
  `PopFetch`/`PopRestore` (FIFO) or `PopDec`, `PopCheck`, `PopCas`, `PopUndo`
  (LIFO). `resize`: `ResizeCopy`, `ResizeSwap`, entered through `CallResize`.
- The three steals share their steps: `StealBegin`, `LoadBack`, `Reserve`,
  `LoadBuf`, `Read`; then `Copy`, `Check`, `CasBatch` from a FIFO source or
  `Check`, `CasOne`, `Put`, `Reload` from a LIFO one; `Publish` ends a batch,
  `CasSteal` a single steal. `steal_batch_and_pop` makes its first
  compare-exchange on a LIFO source without `Check`, as lines 986-998 do.
- crossbeam-epoch is external: `Retire` notes which CPUs are pinned, `Unpin`
  removes a CPU from those sets, and `Collect` frees a buffer nobody is noted
  for. Freed addresses are reused at once, so that a comparison of pointers
  could be fooled.
- Reading a slot nobody wrote gives `Nil`, and reading a slot while it is
  overwritten gives the old or the new task (the volatile accesses of lines
  61-79 are single machine words for task ids).

`DequeImpl` maps `Deque` to `TaskQueues`. A LIFO pop that has decremented
`back` and not decided yet still has its task in the queue (`LiveBack`).

**`FifoQueue`** is what the injector promises: one queue, from whose front a
steal removes tasks in one step and hands them over in another.

**`Injector`** is the code: the index and block of head and tail, the blocks
with their links, slots and state bits, and `pc` and `loc` per thread. The bit
`HAS_NEXT` of the head index is a field of `head`.

- `push`: `PushBegin`, `PushLoad`, `PushBlock`, `PushCas`; the producer that
  takes the last slot runs `InstallBlock`, `InstallIndex`, `InstallNext`; then
  `PushWrite`. The block allocated in advance is private until it is installed,
  and is allocated there.
- The three steals differ in how many tasks they want (`Limit`) and where they
  put them (`Place`), and share `StealBegin`, `LoadHead`, `LoadBlock`, `LoadTail`,
  `CasHead`; at the end of a block `WaitNext`, `NextNext`,
  `MoveBlock`, `MoveIndex`; then `ReadSlot` for each task and `Publish`.
- `Mark` is the `fetch_or(READ)` after reading, `Destroy` the loop of
  `Block::destroy`.
- `len` and `drop` change nothing a concurrent call could see (`drop` has
  exclusive access): `LenOf`, `DropFrees` and `DropTasks` are evaluated by the
  invariants. `len` accepts its indices only if the tail did not change around
  its load of the head, so that both are those of one state.
- `steal_batch_and_pop` takes up to `MAX_BATCH + 1` tasks (lines 1645-1653),
  because it returns one of them (see the disagreements below).
- Block numbers are not reused, so that an access to a freed block cannot be
  mistaken for one to its successor.

`MCInjector` maps `Injector` to `FifoQueue`: a push takes effect at `PushCas`, a
steal at `CasHead`, whether or not the slots have been written by then.

**`Lock`** has the flag, the `AtomicWaker` (a slot and the state word of
futures-util 0.3, external) and one program counter per user. `kind` says which
waker a guard holds: the mutex's for `lock().await`, the shared `NEW_WAKER`
otherwise. `woken` is the executor's side: a waiter is polled again only when
its waker was called. `missed` is a history variable: waiters whose waker was
replaced by another waiter's, was not stored because another registration was
in progress, or that a release through `NEW_WAKER` passed over. `Call` has the
steps inside a call of the mutex; `Spin`, `PollAgain` and `Drop` depend on other
code.

**`Executor`** has a queue, a task map, a waker cache, the interrupt flag and
the position in `run`/`sleep_if_idle` per CPU. Queue operations are atomic,
which is what `Deque` implementing `TaskQueues` permits. A future may do
anything a future can: leave its waker somewhere, wake others, yield, wait,
complete; it may not return Pending without its waker being held by someone.
That is an assumption on futures, and a mutex's second waiter breaks it: its
registration drops the first one's waker uncalled (`task/lock.rs:57`), which is
the subject of `Lock`. `spawn` panics if an id is in the map already
(`task/executor.rs:32-33`); ids come from `NEXT_ID`, each once, so that it does
not happen. The 32-task limit of a batch is left out: the modelled queues are shorter.

**`FindTask`** is `find_task` for `N` workers over the queues that `Deque` and
`Injector` implement: `Pop`, then for the injector and each stealer in turn
`Look` and `Cas`, `Deliver` after a success, and `Decide` at the end of a round.
`front` is what a compare-exchange compares, so that a steal can say `Retry`;
`OrElse` and `Collect` are the combinators. `stay` is a history variable: what
has not moved since the worker's call began.

**`CpuLocal`** is `cpu()` as run by boot code and, on top of it, by the timer
handler: the check, the collector's `Once`, the allocator's lock, the stores to
`STEALERS` and `CPUS`.

**`Frames`** is the boot-time memory: `Left` and `AllocateFrame` are the
iterator over the usable regions of the memory map, `PageFrame` and `MapTo` one
round of `init_heap`'s loop, `InitAllocator` its end, `OutOfFrames` its error.
`CreateTable` is external: `map_to` takes a frame for a page table that is
missing. Its other errors, for a page that is mapped already or lies in a huge
page, are taken as impossible: nothing but `init_heap` maps the heap's
addresses.

**`IoApic`** is the routing of interrupts, one step per register write:
`InitAndDisableOldPic`, `InitLapic`, and the loops of `init_ioapic`
(`WriteVector`, `WriteDestination`, `MaskOther`, `NextApic`, `FoundReg`). `redir`
holds the redirection entries of every I/O APIC. At first each of them, the old
PIC and the pins of the local APIC are masked or unmasked as the firmware left
them; so is the local APIC timer, which `init_lapic` masks too (`Boot`). An
interrupt model other than the APIC panics. Register numbers and entry counts
are 8 bits wide.

**`Timer`** extends `CpuLocal` with `time.rs`: an action for each register
access of `calibrate_apic_timer`, the two loops that wait for the tick counter to
move (`Saved`, `FirstIrq`, `SecondIrq`, each the end of a call of `cpu()` whose
steps are `CallStep`), and `Udelay`, `UdelaySpin`, `Mdelay`, `MdelayStart`,
`MdelayWait`, `Hlt`. Comparing the counter and halting are two steps, with room
for an interrupt in between; an interrupt ends `hlt` only once it has begun.
`Tick` is time: it moves the PIT and the local APIC timer, which
make the interrupt pending. `Lag` is how long the processor may take for a
step, so durations are statements about code and devices together.

**`Boot`** composes the three: `InitMemory`, then `InitInterrupts`, `InitTime`
and `Time`. Masking the PIT at the end of the calibration (`Mask`) is a write to
the redirection entry that `init_ioapic` found.

**`Console`** is `FrameBufferManager`: the glyph table scanned by
`unicode_mapping`, the grid `chars`, the cursor `idx`, and `fb`, which maps byte
offsets to the pixel of the glyph drawn there; `fb_len` is the length of the
slice those offsets go into. `Put` is the whole of `put`, with
its `Newline` and its `Redraw` or `Putc`.

**`Output`** extends it with printing. Each CPU has a stack of prints in
progress: ordinary code or `insert_fbman` at the bottom, and on top of it
handlers of panics and exceptions, which may strike in ordinary code and in the
formatting code that `write_fmt` runs under the lock (`Fault`). `Swap`, `Lock`,
`InitPort`, `Some`, `Write` (one character) and `Unlock` are the steps of a
print. A double fault prints as a panic does. `out` is a history variable: which
print each device had characters from.

## Runs

| Run | Instance | Shows |
|---|---|---|
| `deque_fifo` | 2 FIFO queues, 3 tasks | `TypeOK`, `ResizeFits`, `Implements` |
| `deque_mixed` | LIFO and FIFO queue, 3 tasks | `SafeDeref`, `Implements` |
| `deque_lifo` | LIFO queue and a LIFO thief of either batch steal, 6 tasks, batches of up to 3 | `ExactlyOnce`, `Implements` |
| `injector` | 1 producer, 2 thieves (`steal`, `steal_batch_and_pop`), 4 tasks, blocks of 3 | `TypeOK`, `SafeBlocks`, `LenExact`, `NothingLeaks`, `Implements`, `CallsReturn` |
| `injector_push` | 2 producers, 1 thief (all steals), 4 tasks, blocks of 2 | `SafeBlocks`, `Implements`, `CallsReturn` |
| `find_task` | 3 workers, 2 tasks | `NothingOverlooked`, `NoTaskDropped`, `FindReturns` |
| `lock` | 3 users, all three ways to lock | `TypeOK`, `MutualExclusion`, `NoWakeupLost`, `WaiterWakes` |
| `executor` | 1 CPU with 3 tasks, or 2 CPUs with 2 | `TypeOK`, `NoTaskForgotten`, `OnePoller`, `ReadyRuns`, `InterruptsReturn` |
| `executor_gone` | 2 CPUs | violation of `DroppedIsGone` |
| `cpu_local_unique` | `cpu()` alone, 5 interrupts | violation of `UniqueAccess` |
| `boot` | 5 machines, PIT period of 20 ticks | `HeapSound`, `HeapFits`, `TickSource`, `Calibrated`, `DelaysLast`, `TicksCounted`, `Settled`, `BootEnds` |
| `output` | 2 CPUs, up to 3 prints and faults, 2 by 2 characters | `PrintsWhole`, `ScreenIsText`, `PortReady`, `Reported` |

*Queues.* `ExactlyOnce`: no task is lost, returned twice or in two places, and
no unwritten slot is returned. `SafeDeref`: a thief reads only buffers that
cannot be freed under it. `ResizeFits`: the copy loop of `resize` ends and
loses nothing, `cap - len` in `reserve` does not go below zero, and a batch
always fits. `Implements`: every step is a step of `TaskQueues` or changes
nothing there, so the queues are linearizable apart from the two halves of a
batch steal, and keep the documented order.

*Injector.* `Implements`: tasks leave in the order in which they were pushed,
each once, and a thief gets exactly the tasks it claimed. `SafeBlocks`: no
thread touches a freed block, and none is freed twice, however readers and
writers of a block overtake each other. `NothingLeaks`: when all calls have
returned, `drop` frees every block there is and drops exactly the tasks left.
`LenExact`: `len` is right also while head or tail stand on the unused last
position of a block. `CallsReturn`: none of the waits (for a block to be
installed, for its link, for a slot to be written) is for ever. `TypeOK`
includes that no unchecked slot index leaves its block.

*find_task.* `None` means that no task stayed in a queue all through the call,
so a CPU does not go idle over a lost race; no result is thrown away with a
task in it; and the loop over `Retry` ends, because a retry means that another
worker got something, or that an owner grew its queue.

*Mutex.* There is at most one guard. The register-then-check of `poll` and the
store-then-wake of `drop` lose no wakeup by themselves. What the code does
lose, `NoWakeupLost` spells out: with two waiters the second replaces the
first's waker or, if both register at once, is not registered (line 57), and a
guard of `lock_or_spin` or `try_lock` wakes no waiter of the mutex (lines 93,
102). `NoWakeupLost` and `WaiterWakes` exempt these waiters and no others.
`WaiterWakes` says that the waker of any other waiter is called once the mutex
is free; that the guard is dropped, or the woken task polled, it neither says nor
assumes. The commented-out tasks of `main.rs:95-99` are safe from all three on
one CPU, because they hold the guard within one poll.

*Executor.* With one CPU, tasks are neither forgotten nor starved and
`sleep_if_idle` always lets interrupts in again. With two, no future is polled
twice at once; the other three are not claimed there, where they fail
(`executor_gone`).

*Boot.* The heap is made of distinct usable frames and covers exactly its
bytes (`HeapSound`), and setting it up fails only for want of frames
(`HeapFits`). Whenever interrupts are enabled exactly one source can raise one:
the PIT's entry, wherever ACPI puts it, then the local APIC timer
(`TickSource`). The moment when that entry is unmasked and its destination not
yet written is not looked at: interrupts are disabled then, on the only CPU that
runs. The calibration measures a PIT period up to the time of its own
steps, whatever its interrupts hit and with one left over from the firmware
(`Calibrated`). `DelaysLast` says what the delays are worth, up to the time
of their steps: `udelay` never lasts too long, and returns early only if the
timer reloads meanwhile, where `current_tick - get_tick()` wraps around (the
kernel is built with `--release`, `src/nacl_boot/src/main.rs:20`, so that
overflow does not panic); `mdelay` drops a remainder below ten milliseconds and
waits for its tens or up to one period less. A tick between the comparison and
`hlt` makes the round last until the next tick, which is no longer than its ten
milliseconds. An interrupt in the first call of `cpu()` can stop the CPU for good or create a second `Cpu`
(see below), but after that call `CPUS` is final and no tick is lost
(`Settled`, `TicksCounted`), and `BootEnds` has that standstill as its only
exception beside panics for want of memory, of an APIC or of the PIT.

*Output.* No print is interrupted by another on the same device
(`PrintsWhole`), though handlers print on top of half-finished prints. The
screen shows the text that was printed, wrapped, scrolled and looked up in the
font's table, no pixel outside the grid of characters is touched, and every
write is inside the framebuffer and the visible part of its line
(`ScreenIsText`, against a definition of the text's layout that does not follow
the code). Panics and exceptions get their report out wherever they strike,
unless it is inside a print to the serial port: then `SERIAL1` stays locked and
the handler spins (`Reported`). With several CPUs one can print to the port
before another has initialized it, between that one's swap of `INIT` and its
lock, and in no other way (`PortReady`).

*Disagreements with comments.* `executor_gone`: `executor.rs:43` takes an id
without a task to mean "task no longer exists"; with two CPUs it also means
that the id was stolen from, or the task woken on, a CPU other than its own,
and the task then is not resumed. `cpu_local_unique`: `cores.rs:87` claims "the
key guarantees unique access of the CPU"; the first call is made with
interrupts enabled (`arch/x86_64/time.rs:59-62`), and the timer handler can
enter it a second time. The handler then spins for ever on the collector's
`Once` or on the heap lock, or a second `Cpu` is created and one of the two is
lost, with `STEALERS` possibly left pointing at the lost one. Two more are not
runs of their own; the properties above say by how much the code departs from
the comment. `arch/x86_64/time.rs:124` and `:142` promise a "precision
microsecond delay" and a "precision millis delay"; by `DelaysLast` the first can
end at once if the timer reloads, and the second can be a whole period short and
drops the remainder, so that 19 ms may last hardly any time at all.
`task/crossbeam.rs:18` calls `MAX_BATCH` the "Maximum number of tasks that can be
stolen in `steal_batch()` and `steal_batch_and_pop()`"; the injector's
`steal_batch_and_pop` takes `MAX_BATCH + 1` (lines 1645-1653), which `FifoQueue`
permits.

Because the standstill of `cpu()` is real, `boot` and `cpu_local_unique` do not
check deadlock; nor does `output`, where CPUs halt after a panic.

### Bounds

- `Deque`: `MIN_CAP` and `MAX_BATCH` are 2, in `deque_lifo` 4 and 3, instead of
  64 and 32, keeping `MAX_BATCH <= MIN_CAP`; growing, shrinking, wrapping around
  and batches shorter than what is available all happen. `MaxBack` limits how many tasks
  pass through a queue, `Ops` which operations a CPU uses in a run; `Bufs` = 4
  addresses leave room for both queues, a copy in progress and a retired
  buffer. Tasks are pushed in numeric order and addresses are symmetric. The
  indices do not reach 2^63, so `wrapping_add` is `+`.
- `deque_lifo` has six tasks, a queue that grows to capacity 8 and shrinks to 4,
  and batches of several tasks for both batch steals. A thief that skipped the
  buffer check would return a stale task here, after the shrinking. The thief of `MCDequeLifo` uses one of
  the two batch steals throughout a behaviour, `steal_batch` with five tasks; the
  FIFO and mixed runs mix them.
- `Injector`: `LAP` is 4 or 3 instead of 64 and `MAX_BATCH` 2 instead of 32, so
  that batches end before, at, and because of the end of a block.
  `NTasks` is the number of pushes in a behaviour. `injector` has two blocks;
  `injector_push` has three, so that the block a thief moves to can be followed
  by another already and `HAS_NEXT` is set for it. A thief
  waits for another to move the head in `injector`, a producer for another's
  installation in `injector_push`, thieves for links and writers in both.
  Indices do not reach 2^63.
- `FindTask`: `NTasks` pushes. Three workers and two tasks are enough for a
  retry in the injector and in one of several stealers, with a task elsewhere.
  A push that grows a buffer moves `front` by `NTasks`, which no steal undoes.
- `Executor`: `MaxQueue` keeps a future from waking into a longer queue: 4 with
  one CPU and 3 with two. Ids occur twice in a queue in both.
- `Boot`: memory is counted in frames. The heap starts on a page boundary, as
  the code's does, and ends one byte into its third page; up to `TABLES` = 2 page
  tables are missing. The
  machines of `MCBoot` have enough memory in pieces, just enough or too little,
  two I/O APICs, one or none. `PERIOD` = 20 ticks and `Lag` = 1 leave the steps of
  a handler well inside a period; `MaxIrqs` = 12 covers the calibration and a
  delay of 20 ms. After the calibration one delay is made, at any point of a
  period (`OtherWork`). `MAX` is 1000 for `u32::MAX`: the calibration never
  counts down that far in either. The allocations of `Cpu::new` are one critical
  section of the heap lock.
- `Output`: `MaxPrints` = 2 and `MaxJobs` = 3 prints and faults. Two CPUs can print
  while a fault strikes, and a fault can strike a handler. The screen is large
  enough to wrap and to scroll, with pixels to spare on the right, and the text
  reaches the bottom right corner. One font has a character listed twice and
  an entry that does not end, the other has no table.

### Fairness

`Lock`: weak fairness of the steps inside a call of the mutex: a CPU finishes
the call it is in. Nothing else is fair: guards need not be dropped, woken tasks
need not be polled, and `lock_or_spin` may lose every race. `Executor`: weak fairness
of every CPU. That a poll ends (tasks are cooperative) is not an assumption of
its own: a future can wake and leave its waker only finitely often before
`MaxQueue` and the set of wakers are exhausted, and must then return. The
timer, programmed in periodic mode at `arch/x86_64/time.rs:98-109`, ends every
`hlt`. `Injector` and `FindTask`: weak fairness of every thread's steps in a
call; making calls is not fair. Producers may fail `PushCas` as often as others
succeed, which `NTasks` bounds; thieves return `Retry` instead. `Boot`: time
passes and the processor keeps executing. `Output`: every CPU keeps executing
the print it is in; printing and faults are not fair.

## Proofs

The proofs hold for every value of the constants that satisfies the named
assumptions of the modules. TLC evaluates these assumptions for the instances.

| Module | Theorems |
|---|---|
| `DequeProofs` | `TypeCorrect`: `TypeOK`; `NoUseAfterFree`: `SafeDeref`; `BuffersFit`: `ResizeFits` |
| `FindTaskProofs` | `NoneMeansNothing`: `NothingOverlooked`; `TasksKept`: `NoTaskDropped` |
| `LockProofs` | `MutexExcludes`: `MutualExclusion`; `WakeupsArrive`: `NoWakeupLost`; `TypesKept`: `TypeOK` |
| `ExecutorProofs` | `PolledOnce`: `OnePoller`; `TasksKept`: `NoTaskForgotten`; `TypesKept`: `TypeOK` |
| `BootProofs` | `HeapIsSound`: `HeapSound`; `HeapFitsIfItCan`: `HeapFits`; `BootHeap`: both of these for the boot; `CpuSettles`: `Settled`; `NoTickLost`: `TicksCounted`; `OneTickSource`: `TickSource` |
| `OutputProofs` | `WholePrints`: `PrintsWhole`; `PortReadyOrOvertaken`: `PortReady` |

*Deques.* `TypeOK` is inductive by itself because it says which locals are set
at which program counter (`LocOK`). Its proof has a lemma per record update of
`loc`, a lemma per part of the state (`ControlStep`, `MemoryWrite`,
`HistoryTake`, ...) and one step per action. `SafeDeref` is not inductive:
nothing in it says that a thief is pinned before it loads the buffer, or that a
buffer about to be installed is nobody else's. `BufferInv` adds both: `HoldInv`
(a CPU is pinned from `LoadBack` on, also while it grows its own buffer in
`Reserve`, and its buffer is current or waits for it) and `RoleInv` (every
address has one role: current of one queue, about to be installed by one, or
retired once). The interesting step is `ResizeSwap`: the buffer a thief holds
stops being current, and is protected from then on because the thief was pinned
when it was retired. `ResizeFits` needs to know what thieves may do to an owner's
`front`. `IndexInv` says of every owner how far its indices can be apart at each
program counter (`Own`: `front` passes `back` only while a FIFO pop restores it,
and a LIFO pop's task counts until it is decided), of every thief how many tasks
it has and wants (`Counts`), and of both together that a compare-exchange that
succeeds claims tasks that are there (`Aim`). Capacities are `MIN_CAP` and its
doubles (`Caps`, defined as the smallest such set), so that halving a buffer is
exact. `MAX_BATCH <= MIN_CAP` is used for one doubling in `reserve` to be enough.

*find_task.* `Ahead` adds to `NothingOverlooked` what a call knows half-way: a
task that has stayed where it was is in a place still to be looked at, or one of
the results so far is `Retry`. A `Retry` therefore has to survive `OrElse` and
`Collect`. For `NoTaskDropped` the proof regards all queues and all batches on
their way as one function from places to tasks (`Holds`), with `TaskInv` saying
that it is injective and holds exactly the tasks pushed and not returned. An
action then moves cells (`OnceMove`), takes one (`OnceTake`) or adds one
(`OncePush`), and what is left per action is which cell moves where.

*Mutex.* `InSlot` says that a user that has registered is in the slot, unless it
was woken already or is one of those the code overlooks. With it
`NoWakeupLost` is inductive; the step that needs it is the taking of the waker,
which wakes whom it finds in the slot and nobody else.

*Executor.* A task is polled at most once at a time because it is in the map of
one CPU only (`Owned`: ids are below `NEXT_ID` and in one map) and is polled
where its map is (`Polling`). `Idle` says that a CPU that tries the stealers has
an empty queue, so that what it steals can replace it and a CPU that is alone
finds nothing to steal from itself.

*Frames.* The frames the iterator has given are exactly those in the mapping,
in the page tables and in hand (`Given = Placed`), they are distinct
(`Distinct`), and their number is that of the steps taken (`Counted`), from
which `HeapFits` follows when none is left.

*Boot.* `BootSpec` implies `FramesSpec` and `CpuLocal`'s `Spec`, step by step, so
that the heap's theorems carry over. `CInv` bounds what interrupts do to the
first call of `cpu()`: at most two `Cpu`s are created, and none once a context
can see one. `TInv` follows the walk over the redirection tables (`Walked`:
what is behind the index is masked, except the PIT's entry) and ties the phase
of the calibration to the interrupt flag and the two timers (`Phase`). That no
two registers of an I/O APIC coincide in 8 bits is an assumption on platforms,
and is used.

*Output.* A print is whole because whoever writes holds the mutex of the device
(`Held`), and a device's last character is of an unfinished print only while
that print holds it (`Fresh`). That needs the numbers of prints to be distinct
and new (`Counted`, `Unique`, `Known`). `Quiet` and `Serial` say which prints can be
where. `Port` says that, once `INIT` is set, the port is initialized or a print on
top of its stack is on the way to do it, from which `PortReady` follows.

Only model-checked: `ExactlyOnce` and the refinements of the
queues; the whole of `Injector`; `Calibrated` and `DelaysLast`;
`ScreenIsText`, whose operators fold over a font and over a text; and the
liveness properties, since the prover does no reasoning about fairness.

## Not modelled

- Weak memory. Accesses are sequentially consistent. The code's fences restore
  that order where Chase-Lev deques need it, and x86_64 only delays stores
  behind later loads, which the `SeqCst` fence of a LIFO pop (line 482) and the
  read-modify-writes rule out at the critical places; neither fact is checked.
- Dropping a worker queue, its read-only `len` and `is_empty`, the injector's
  `is_empty`. Nothing in the kernel drops a worker.
- The bits of glyphs and colours: what a pixel shows is which pixel of which
  glyph was drawn. The reading of a glyph's row (`font/mod.rs:274-287`) is
  therefore outside the model.
- The scratch timer's handler (`arch/x86_64/interrupts.rs:64-74`). Its vector is
  programmed only while the count runs down from `u32::MAX`, and nothing reads
  its counter.
- The processor number. `cores.rs:53` takes it from `Lapic::id()` and indexes
  `CPUS` with it; the models name CPUs and assume that the index is in bounds.
- GDT, IDT and ACPI: static tables and library glue without state that anything
  else depends on. The heap's allocator, page tables, `HashMap`, the UART and
  crossbeam-epoch are libraries, modelled by what their callers rely on.
- `RefCell` and allocation failure, apart from running out of frames at boot.
- `smp.rs`, which is not compiled; the image builder, which runs cargo and QEMU.
