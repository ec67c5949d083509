-------------------------------- MODULE Boot --------------------------------
(***************************************************************************)
(* The boot processor's way from main.rs's init through arch::init         *)
(* (nacl/src/arch/x86_64/mod.rs): the heap, the routing of interrupts, the *)
(* timer, and the first delays.  The screen, set up in between, is Output. *)
(***************************************************************************)
EXTENDS Frames, IoApic, Timer

CONSTANT Machines   \* bound: the memory maps and platforms that go together

bootVars == <<frameVars, ioApicVars, vars, timerVars>>

\* memory_init
InitMemory == allocator = "off" /\ FramesNext /\ UNCHANGED <<ioApicVars, vars, timerVars>>

\* arch::init up to init_ioapic: only with a heap.  With the local APIC's
\* pins init_lapic masks its timer.
InitInterrupts ==
  /\ allocator = "on"
  /\ IoApicNext
  /\ lvt' = IF routing = "lapic" /\ platform.model = "apic" THEN "masked" ELSE lvt
  /\ UNCHANGED <<frameVars, vars, at, enabled, pending, pit, route, initcnt, count, locals,
                 slack, elapsed, reloaded, ask>>

\* time::init is given the register found, whose entry is the PIT's.
InitTime ==
  /\ routing = "done" /\ at = "off"
  /\ at' = "pit"
  /\ route' = "on"
  /\ UNCHANGED <<frameVars, ioApicVars, vars, enabled, pending, pit, lvt, initcnt, count,
                 locals, slack, elapsed, reloaded, ask>>

\* The mask of the PIT's entry is a write to the I/O APIC.
Mask == redir' = [redir EXCEPT ![found.apic][Low(found.reg)].masked = TRUE]

Time ==
  /\ at # "off"
  /\ TimerNext
  /\ IF route' # route THEN Mask ELSE UNCHANGED redir
  /\ UNCHANGED <<frameVars, platform, pic, lint, walk, found, routing>>

BootInit == FramesInit /\ IoApicInit /\ TimerInit /\ <<memory, platform>> \in Machines

BootNext == InitMemory \/ InitInterrupts \/ InitTime \/ Time

BootSpec == BootInit /\ [][BootNext]_bootVars

\* Time passes, and the processor keeps executing.
FairBootSpec ==
  /\ BootSpec
  /\ WF_bootVars(InitMemory \/ InitInterrupts \/ InitTime)
  /\ WF_bootVars(Time /\ Tick)
  /\ WF_bootVars(Time /\ Processor)
-----------------------------------------------------------------------------
LAPIC == <<0, 1>>

\* What can raise the Timer interrupt, and any other source that is not masked.
Sources == Routed \cup {s \in {LAPIC} : lvt = "periodic"}

\* Whenever interrupts are enabled exactly one source can interrupt: the PIT's
\* redirection entry, to the boot processor, until the calibration has ended,
\* and the local APIC timer from then on.  A second one would count 10 ms twice
\* (apic.rs:127-133, 154-162, 211-233, time.rs:95-105).
TickSource ==
  enabled =>
    \/ /\ route = "on"
       /\ \E k \in DOMAIN redir : \E i \in DOMAIN redir[k] :
            /\ Sources = {<<k, i>>}
            /\ platform.apics[k].base + i = platform.pit
            /\ redir[k][i].vector = TIMER /\ redir[k][i].dest = Bsp
    \/ route = "masked" /\ Sources = {LAPIC}

\* The boot ends: it panics for want of memory, of an APIC or of the PIT, or the
\* timer is calibrated and a delay returns, except for one thing the code does
\* not exclude: an interrupt inside the first call of cpu() that waits for what it
\* interrupted (time.rs:59-62, cores.rs:89).
BootEnds ==
  <>(allocator = "failed" \/ routing = "panic" \/ at = "idle" \/ Standstill)
=============================================================================
