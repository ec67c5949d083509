------------------------------ MODULE CpuLocal ------------------------------
(***************************************************************************)
(* cpu() of nacl/src/cores.rs, which creates the CPU-local state on first  *)
(* use, while the boot CPU calibrates its timer (arch/x86_64/time.rs:59-71 *)
(* calls it first, with interrupts just enabled) and the timer interrupt   *)
(* handler (interrupts.rs:56-62) calls it too.  A handler runs on top of   *)
(* the code it interrupts: while it is active, "main" takes no step.       *)
(***************************************************************************)
EXTENDS Integers, FiniteSets

CONSTANTS Nil,
          MaxIrqs   \* bound: timer interrupts in a behaviour

ASSUME CpuLocalAssumption == MaxIrqs \in Nat /\ Nil \notin Nat

Contexts == {"main", "irq"}

VARIABLES
  cpus,       \* CPUS[k]: the Cpu, Nil before it is created
  stealer,    \* STEALERS[k]: the Cpu whose worker is stolen from
  made,       \* Cpus allocated so far; they are numbered from 1
  timer,      \* Cpu::timer of each
  collector,  \* gc.rs COLLECTOR, a spin Once: "new", "running" or "done"
  heap,       \* the context holding the allocator's spin lock, or Nil
  pc, cpu,    \* where each context is in cpu(); the Cpu it made or was given
  irqs,       \* history: timer interrupts taken
  settled     \* history: irqs when main's first cpu() returned, or Nil

vars == <<cpus, stealer, made, timer, collector, heap, pc, cpu, irqs, settled>>

Goto(x, l) == pc' = [pc EXCEPT ![x] = l]

\* Context x runs; main only when no handler is active.
Running(x, l) == pc[x] = l /\ (x = "main" => pc["irq"] = "off")
-----------------------------------------------------------------------------
(* cpu(): get_or_insert_with *)

\* Mutant: a Cpu is created on every call.
GetAlways(x) ==
  /\ Running(x, "get")
  /\ Goto(x, "collector")
  /\ UNCHANGED <<cpus, stealer, made, timer, collector, heap, cpu, irqs, settled>>

Get(x) ==
  /\ Running(x, "get")
  /\ \/ /\ cpus # Nil
        /\ cpu' = [cpu EXCEPT ![x] = cpus]
        /\ Goto(x, "use")
     \/ /\ cpus = Nil
        /\ Goto(x, "collector")
        /\ UNCHANGED cpu
  /\ UNCHANGED <<cpus, stealer, made, timer, collector, heap, irqs, settled>>

\* default_collector(): who comes first initializes it, the others spin until
\* it is done.
DefaultCollector(x) ==
  /\ Running(x, "collector")
  /\ \/ /\ collector = "new"
        /\ collector' = "running"
        /\ Goto(x, "collector_new")
     \/ /\ collector = "done"
        /\ Goto(x, "cpu_new")
        /\ UNCHANGED collector
  /\ UNCHANGED <<cpus, stealer, made, timer, heap, cpu, irqs, settled>>

\* The allocator's spin lock, for the collector and for the Cpu (its epoch
\* participant, its worker and its box).
LockHeap(x) ==
  /\ Running(x, "collector_new") \/ Running(x, "cpu_new")
  /\ heap = Nil
  /\ heap' = x
  /\ Goto(x, IF pc[x] = "collector_new" THEN "collector_alloc" ELSE "cpu_alloc")
  /\ UNCHANGED <<cpus, stealer, made, timer, collector, cpu, irqs, settled>>

CollectorNew(x) ==
  /\ Running(x, "collector_alloc")
  /\ heap' = Nil
  /\ collector' = "done"
  /\ Goto(x, "cpu_new")
  /\ UNCHANGED <<cpus, stealer, made, timer, cpu, irqs, settled>>

CpuNew(x) ==
  /\ Running(x, "cpu_alloc")
  /\ heap' = Nil
  /\ made' = made + 1
  /\ cpu' = [cpu EXCEPT ![x] = made + 1]
  /\ Goto(x, "stealer")
  /\ UNCHANGED <<cpus, stealer, timer, collector, irqs, settled>>

SetStealer(x) ==
  /\ Running(x, "stealer")
  /\ stealer' = cpu[x]
  /\ Goto(x, "insert")
  /\ UNCHANGED <<cpus, made, timer, collector, heap, cpu, irqs, settled>>

Insert(x) ==
  /\ Running(x, "insert")
  /\ cpus' = cpu[x]
  /\ Goto(x, "use")
  /\ UNCHANGED <<stealer, made, timer, collector, heap, cpu, irqs, settled>>
-----------------------------------------------------------------------------
(* The callers *)

\* get_irq_cnt, and the next call of the calibration's loop.
ReadTimer ==
  /\ Running("main", "use")
  /\ settled' = IF settled = Nil THEN irqs ELSE settled
  /\ Goto("main", "get")
  /\ UNCHANGED <<cpus, stealer, made, timer, collector, heap, cpu, irqs>>

TimerIrq ==
  /\ pc["irq"] = "off"
  /\ irqs < MaxIrqs
  /\ irqs' = irqs + 1
  /\ Goto("irq", "get")
  /\ UNCHANGED <<cpus, stealer, made, timer, collector, heap, cpu, settled>>

\* Mutant: the handler counts on the Cpu the stealers know.
CountStealer ==
  /\ Running("irq", "use")
  /\ timer' = [timer EXCEPT ![stealer] = @ + 1]
  /\ Goto("irq", "off")
  /\ UNCHANGED <<cpus, stealer, made, collector, heap, cpu, irqs, settled>>

\* The handler counts the tick and returns.
Count ==
  /\ Running("irq", "use")
  /\ timer' = [timer EXCEPT ![cpu["irq"]] = @ + 1]
  /\ Goto("irq", "off")
  /\ UNCHANGED <<cpus, stealer, made, collector, heap, cpu, irqs, settled>>
-----------------------------------------------------------------------------
Init ==
  /\ cpus = Nil
  /\ stealer = Nil
  /\ made = 0
  /\ timer = [n \in 1..2 |-> 0]
  /\ collector = "new"
  /\ heap = Nil
  /\ pc = [x \in Contexts |-> IF x = "main" THEN "get" ELSE "off"]
  /\ cpu = [x \in Contexts |-> Nil]
  /\ irqs = 0
  /\ settled = Nil

Call(x) ==
  \/ Get(x) \/ DefaultCollector(x) \/ LockHeap(x) \/ CollectorNew(x) \/ CpuNew(x)
  \/ SetStealer(x) \/ Insert(x)

Next == (\E x \in Contexts : Call(x)) \/ ReadTimer \/ TimerIrq \/ Count

Spec == Init /\ [][Next]_vars
-----------------------------------------------------------------------------
\* Once the first call of cpu() has returned to the calibration, the CPU-local
\* state is final: no handler that was on its way, and none that comes later,
\* replaces it (cores.rs:89-95).
Settled == [][settled # Nil => cpus' = cpus]_vars

\* From then on no tick is lost: the counter the calibration polls has every
\* interrupt since (interrupts.rs:57, time.rs:24).
TicksCounted ==
  settled # Nil /\ pc["irq"] = "off" => timer[cpus] >= irqs - settled

\* cores.rs:87, on the `&mut CPUS[k]` that get_or_insert_with is given: "the
\* key guarantees unique access of the CPU".
UniqueAccess == \E x \in Contexts : pc[x] \in {"off", "get", "use"}
=============================================================================
