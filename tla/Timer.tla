-------------------------------- MODULE Timer --------------------------------
(***************************************************************************)
(* nacl/src/arch/x86_64/time.rs on the boot processor: the local APIC      *)
(* timer is calibrated against the PIT, takes over its ticks, and is what  *)
(* delay waits for.  The tick counter is the CPU-local state of CpuLocal:  *)
(* each look at it is a call of cpu(), and each interrupt calls it too.    *)
(*                                                                         *)
(* Time passes in ticks of the local APIC timer.  A processor that can     *)
(* take a step takes one within Lag ticks; an interrupt that is pending    *)
(* while they are enabled is taken before the interrupted code goes on.    *)
(***************************************************************************)
EXTENDS CpuLocal

CONSTANTS PERIOD,   \* ticks of the local APIC timer between interrupts of the PIT
          Lag,
          MAX,      \* u32::MAX, the count the calibration starts from
          Micros,   \* what udelay is called with
          Millis    \* what mdelay is called with

ASSUME TimerAssumption ==
  /\ PERIOD \in Nat \ {0} /\ Lag \in Nat /\ MAX \in Nat
  /\ Micros \subseteq 0..1000 /\ Millis \subseteq Nat

VARIABLES
  at,             \* where the boot code is
  enabled,        \* the processor's interrupt flag
  pending,        \* the local APIC holds a Timer interrupt
  pit,            \* ticks until the PIT's next interrupt
  route,          \* the PIT's redirection entry: "on" or "masked"
  lvt,            \* LVT timer register: "masked", "scratch" or "periodic"
  initcnt, count, \* initial and current count registers
  saved, curr,    \* saved_pit_cnt, and curr_pit_cnt or curr_irq_cnt
  ticks10ms,      \* APIC_TICKS_IN_10MS
  left,           \* what remains of millis, or delay_ticks
  slack,          \* ticks since the processor's last step
  elapsed,        \* history: ticks since the delay began
  reloaded,       \* history: the timer has started over since
  ask             \* history: the delay asked for, in milliseconds

regs == <<route, lvt, initcnt>>

locals == <<saved, curr, ticks10ms, left>>

timerVars == <<at, enabled, pending, pit, regs, count, locals, slack, elapsed, reloaded, ask>>

\* The boot code may go on: no handler is active and none is due.
Main(l) == at = l /\ pc["irq"] = "off" /\ ~(enabled /\ pending)

\* The boot code takes a step to l, without a call of cpu().
Step(l) == at' = l /\ slack' = 0 /\ UNCHANGED vars

\* Registers and memory as they were.
Same == UNCHANGED <<pending, pit, regs, count, locals, elapsed, reloaded, ask>>
-----------------------------------------------------------------------------
(* The devices *)

\* After hlt, until an interrupt wakes the processor.
Halted == at = "halted" /\ pc["irq"] = "off" /\ ~pending

\* One tick: the PIT and the local APIC timer count down; a PIT interrupt
\* reaches the local APIC if its redirection is on, the timer's own one if it
\* is not masked.  The count goes on under a masked LVT; what a masked PIT does
\* is of no concern.
Tick ==
  /\ at \notin {"off", "pit", "idle"}
  /\ slack < Lag \/ Halted
  /\ slack' = IF Halted THEN 0 ELSE slack + 1
  /\ LET edge == pit = 1
         zero == count = 1 IN
       /\ pit' = IF route = "masked" THEN 0 ELSE IF edge THEN PERIOD ELSE pit - 1
       /\ count' = IF zero /\ lvt = "periodic" THEN initcnt ELSE IF count = 0 THEN 0 ELSE count - 1
       /\ pending' = (pending \/ (edge /\ route = "on") \/ (zero /\ lvt = "periodic"))
       /\ reloaded' = (reloaded \/ zero)
  /\ elapsed' = IF at \in {"udelay", "mdelay", "mwait", "hlt", "halted"} THEN elapsed + 1 ELSE elapsed
  /\ UNCHANGED <<at, enabled, regs, locals, ask, vars>>

\* The timer interrupt: it stays disabled until the handler returns.
Interrupt ==
  /\ enabled /\ pending
  /\ TimerIrq
  /\ pending' = FALSE
  /\ slack' = 0
  /\ UNCHANGED <<at, enabled, pit, regs, count, locals, elapsed, reloaded, ask>>

HandlerStep ==
  /\ pc["irq"] # "off"
  /\ Call("irq")
  /\ slack' = 0
  /\ UNCHANGED <<at, enabled, pending, pit, regs, count, locals, elapsed, reloaded, ask>>

\* The handler counts and returns: to the instruction after hlt if the processor
\* was halted, to hlt itself if it was about to be.
HandlerReturn ==
  /\ Count
  /\ at' = IF at = "halted" THEN "mwait" ELSE at
  /\ slack' = 0
  /\ UNCHANGED <<enabled, pending, pit, regs, count, locals, elapsed, reloaded, ask>>
-----------------------------------------------------------------------------
(* calibrate_apic_timer *)

\* The PIT is set to interrupt every 10 ms; until now it has interrupted as the
\* firmware set it, and one such interrupt may be waiting.  How long the code up
\* to the first call of cpu() takes is left open: the next one may come any time.
ConfigurePit ==
  /\ Main("pit")
  /\ Step("lvt")
  /\ pit' \in 1..PERIOD
  /\ pending' \in BOOLEAN
  /\ UNCHANGED <<enabled, regs, count, locals, elapsed, reloaded, ask>>

PrepareTimer ==
  /\ Main("lvt")
  /\ Step("sti")
  /\ lvt' = "scratch"
  /\ UNCHANGED <<enabled, pending, pit, route, initcnt, count, locals, elapsed, reloaded, ask>>

Enable ==
  /\ Main("sti")
  /\ Step("saved")
  /\ enabled' = TRUE
  /\ Same

Polls == {"saved", "first", "second", "mdelay", "mwait"}

\* Inside a call of cpu().
CallStep ==
  /\ at \in Polls /\ Main(at)
  /\ Call("main")
  /\ slack' = 0
  /\ UNCHANGED <<at, enabled>>
  /\ Same

\* get_irq_cnt returns n to the code at l.
GetIrqCnt(l, n) ==
  /\ Main(l)
  /\ ReadTimer
  /\ n = timer[cpu["main"]]
  /\ slack' = 0

Saved ==
  \E n \in 0..MaxIrqs :
    /\ GetIrqCnt("saved", n)
    /\ saved' = n
    /\ at' = "first"
    /\ UNCHANGED <<enabled, pending, pit, regs, count, curr, ticks10ms, left, elapsed, reloaded, ask>>

\* Mutant: the timer is started without waiting for an interrupt of the PIT.
FirstIrqUnawaited ==
  \E n \in 0..MaxIrqs :
    /\ GetIrqCnt("first", n)
    /\ curr' = n
    /\ at' = "start"
    /\ UNCHANGED <<enabled, pending, pit, regs, count, saved, ticks10ms, left, elapsed, reloaded, ask>>

FirstIrq ==
  \E n \in 0..MaxIrqs :
    /\ GetIrqCnt("first", n)
    /\ curr' = n
    /\ at' = IF n - saved >= 1 THEN "start" ELSE "first"
    /\ UNCHANGED <<enabled, pending, pit, regs, count, saved, ticks10ms, left, elapsed, reloaded, ask>>

StartTimer ==
  /\ Main("start")
  /\ Step("second")
  /\ initcnt' = MAX /\ count' = MAX
  /\ UNCHANGED <<enabled, pending, pit, route, lvt, locals, elapsed, reloaded, ask>>

SecondIrq ==
  \E n \in 0..MaxIrqs :
    /\ GetIrqCnt("second", n)
    /\ at' = IF n - curr < 1 THEN "second" ELSE "stop"
    /\ UNCHANGED enabled
    /\ Same

StopTimer ==
  /\ Main("stop")
  /\ Step("measure")
  /\ lvt' = "masked"
  /\ UNCHANGED <<enabled, pending, pit, route, initcnt, count, locals, elapsed, reloaded, ask>>

Measure ==
  /\ Main("measure")
  /\ Step("cli")
  /\ ticks10ms' = MAX - count
  /\ UNCHANGED <<enabled, pending, pit, regs, count, saved, curr, left, elapsed, reloaded, ask>>

Disable ==
  /\ Main("cli")
  /\ Step("mask")
  /\ enabled' = FALSE
  /\ Same

\* Mutant: the PIT goes on interrupting.
MaskPitSkipped == Main("mask") /\ Step("periodic") /\ UNCHANGED enabled /\ Same

MaskPit ==
  /\ Main("mask")
  /\ Step("periodic")
  /\ route' = "masked"
  /\ UNCHANGED <<enabled, pending, pit, lvt, initcnt, count, locals, elapsed, reloaded, ask>>

SetPeriodic ==
  /\ Main("periodic")
  /\ Step("initcnt")
  /\ lvt' = "periodic"
  /\ UNCHANGED <<enabled, pending, pit, route, initcnt, count, locals, elapsed, reloaded, ask>>

\* ... and return: the locals are gone.
SetInitCnt ==
  /\ Main("initcnt")
  /\ Step("done")
  /\ initcnt' = ticks10ms /\ count' = ticks10ms
  /\ saved' = 0 /\ curr' = 0
  /\ UNCHANGED <<enabled, pending, pit, route, lvt, ticks10ms, left, elapsed, reloaded, ask>>

\* Mutant: interrupts stay disabled.
EnableAtLastSkipped ==
  /\ Main("done")
  /\ Step("up")
  /\ reloaded' = FALSE
  /\ UNCHANGED <<enabled, pending, pit, regs, count, locals, elapsed, ask>>

\* The end of arch::init.
EnableAtLast ==
  /\ Main("done")
  /\ Step("up")
  /\ enabled' = TRUE
  /\ reloaded' = FALSE
  /\ UNCHANGED <<pending, pit, regs, count, locals, elapsed, ask>>

\* The kernel does something else.  Bound: until the timer first starts over,
\* so that a delay may begin anywhere in its period.
OtherWork ==
  /\ Main("up") /\ ~reloaded
  /\ Step("up")
  /\ UNCHANGED enabled
  /\ Same
-----------------------------------------------------------------------------
(* delay *)

Udelay(us) ==
  /\ Main("up")
  /\ Step("udelay")
  /\ left' = (ticks10ms * us) \div 10000
  /\ curr' = count
  /\ elapsed' = 0 /\ reloaded' = FALSE /\ ask' = 0
  /\ UNCHANGED <<enabled, pending, pit, regs, count, saved, ticks10ms>>

\* Mutant: current and later count are the wrong way around.
UdelaySpinSwapped ==
  /\ Main("udelay")
  /\ Step(IF count - curr >= 0 /\ count - curr < left THEN "udelay" ELSE "back")
  /\ UNCHANGED enabled
  /\ Same

\* A count above the first one makes the difference, a usize, wrap around.
UdelaySpin ==
  /\ Main("udelay")
  /\ Step(IF curr - count >= 0 /\ curr - count < left THEN "udelay" ELSE "back")
  /\ UNCHANGED enabled
  /\ Same

Mdelay(ms) ==
  /\ Main("up")
  /\ Step(IF ms >= 10 THEN "mdelay" ELSE "back")
  /\ left' = ms
  /\ elapsed' = 0 /\ reloaded' = FALSE /\ ask' = ms
  /\ UNCHANGED <<enabled, pending, pit, regs, count, saved, curr, ticks10ms>>

MdelayStart ==
  \E n \in 0..MaxIrqs :
    /\ GetIrqCnt("mdelay", n)
    /\ curr' = n
    /\ at' = "mwait"
    /\ UNCHANGED <<enabled, pending, pit, regs, count, saved, ticks10ms, left, elapsed, reloaded, ask>>

\* Another 10 ms, or on to hlt.
MdelayWait ==
  \E n \in 0..MaxIrqs :
    /\ GetIrqCnt("mwait", n)
    /\ \/ /\ n - curr < 1
          /\ at' = "hlt"
          /\ UNCHANGED left
       \/ /\ n - curr >= 1
          /\ left' = left - 10
          /\ at' = IF left - 10 >= 10 THEN "mdelay" ELSE "back"
    /\ UNCHANGED <<enabled, pending, pit, regs, count, saved, curr, ticks10ms, elapsed, reloaded, ask>>

\* Until the next interrupt: one that came since the comparison is not it.
Hlt ==
  /\ Main("hlt")
  /\ Step("halted")
  /\ UNCHANGED enabled
  /\ Same

Return ==
  /\ Main("back")
  /\ Step("idle")
  /\ UNCHANGED enabled
  /\ Same
-----------------------------------------------------------------------------
\* The firmware may have used the local APIC timer.
TimerInit ==
  /\ Init
  /\ at = "off" /\ enabled = FALSE /\ pending = FALSE
  /\ pit = PERIOD /\ route = "masked" /\ lvt \in {"masked", "periodic"}
  /\ initcnt = 0 /\ count = 0
  /\ saved = 0 /\ curr = 0 /\ ticks10ms = 0 /\ left = 0
  /\ slack = 0 /\ elapsed = 0 /\ reloaded = FALSE /\ ask = 0

Calibrate ==
  \/ ConfigurePit \/ PrepareTimer \/ Enable \/ CallStep \/ Saved \/ FirstIrq \/ StartTimer
  \/ SecondIrq \/ StopTimer \/ Measure \/ Disable \/ MaskPit \/ SetPeriodic \/ SetInitCnt

Delay ==
  \/ (\E us \in Micros : Udelay(us)) \/ UdelaySpin
  \/ (\E ms \in Millis : Mdelay(ms)) \/ MdelayStart \/ MdelayWait \/ Hlt \/ Return

Processor == Interrupt \/ HandlerStep \/ HandlerReturn \/ Calibrate \/ EnableAtLast
             \/ OtherWork \/ Delay

TimerNext == Tick \/ Processor
-----------------------------------------------------------------------------
\* The calibration's result is the number of ticks between two interrupts of
\* the PIT, up to the time its own steps take: whatever the interrupts hit, a
\* stale one of the firmware's included, the timer is started and read within
\* seven steps of an interrupt each (the interrupt, the handler's two, a look at
\* the counter that takes two, and one or two register accesses; time.rs:62-87).
Calibrated ==
  ticks10ms # 0 => ticks10ms \in (PERIOD - 7 * Lag)..(PERIOD + 7 * Lag)

\* How long the delays take, up to the time their own steps do.  udelay lasts
\* the ticks it computed, unless the timer starts over meanwhile: then the
\* difference wraps around and it returns early (time.rs:133-139).  mdelay drops
\* a remainder under 10 ms, and lasts the tens of milliseconds or up to one
\* period less, because the first period has begun when it is called
\* (time.rs:144-152).  A tick between the comparison and hlt is slept through,
\* but cannot make mdelay last longer than that: such a tick comes at the
\* beginning of a wait, when the next one is a period away.
DelaysLast ==
  at = "back" =>
    IF ask = 0 THEN elapsed <= left + 7 * Lag /\ (elapsed >= left \/ reloaded)
    ELSE LET n == ask \div 10 IN
           elapsed \in ((n - 1) * initcnt - 4 * Lag)..(n * initcnt + 10 * Lag)

\* The handler waits for what the code it interrupted holds: the collector
\* being initialized or the allocator's lock, in the first call of cpu().
Standstill ==
  \/ pc["irq"] = "collector" /\ collector = "running"
  \/ pc["irq"] \in {"collector_new", "cpu_new"} /\ heap = "main"
=============================================================================
