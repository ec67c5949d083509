------------------------------- MODULE IoApic -------------------------------
(***************************************************************************)
(* The interrupt routing of nacl/src/arch/x86_64/apic.rs: the old PIC is   *)
(* disabled, the local APIC's own sources are masked, and init_ioapic      *)
(* walks the redirection tables of every I/O APIC to route the PIT, and    *)
(* nothing else, to the boot processor.  Interrupts are disabled           *)
(* throughout.  One step is one write to a device register.                *)
(***************************************************************************)
EXTENDS Integers, Sequences, FiniteSets

CONSTANTS Platforms,  \* what ACPI may describe
          Bsp         \* local_apic_id of the boot processor

CONSTANT Absent       \* "none", for an override or a register not found

TIMER == 32           \* InterruptIndex::Timer

\* An I/O APIC has redirections for the interrupts from base on, ver is bits 16
\* to 23 of IOAPICVER; pit is the interrupt that overrides ISA interrupt 0.
Platform == [model : {"apic", "unknown"}, apics : Seq([base : Nat, ver : 0..255]),
             pit : Nat \cup {Absent}]

Entries(a) == 0..a.ver

\* Interrupt numbers of different I/O APICs differ, and their redirection
\* registers (two per entry, from 0x10) have numbers of 8 bits.
ASSUME IoApicAssumption ==
  /\ Absent \notin Nat
  /\ \A p \in Platforms :
       /\ p \in Platform
       /\ \A k \in DOMAIN p.apics : 16 + 2 * p.apics[k].ver + 1 <= 255
       /\ \A k, l \in DOMAIN p.apics : k # l =>
            {p.apics[k].base + i : i \in Entries(p.apics[k])}
              \cap {p.apics[l].base + i : i \in Entries(p.apics[l])} = {}

VARIABLES
  platform,   \* platform_info
  pic, lint,  \* the old PIC and the pin it is wired to: "on" or "masked"
  redir,      \* redirection entries: redir[k][i] is entry i of I/O APIC k
  walk,       \* the loops: I/O APIC, index, and whether the destination is next
  found,      \* found_reg: the I/O APIC and the register, or Absent
  routing     \* "pic", "lapic", "ioapic", "done" or "panic"

ioApicVars == <<platform, pic, lint, redir, walk, found, routing>>

Start(k) == [apic |-> k, idx |-> 0, dest |-> FALSE]

\* The low word of the redirection entry with register r.
Low(r) == (r - 16) \div 2
-----------------------------------------------------------------------------
InitAndDisableOldPic ==
  /\ routing = "pic"
  /\ pic' = "masked"
  /\ routing' = "lapic"
  /\ UNCHANGED <<platform, lint, redir, walk, found>>

\* init_lapic masks LINT0 and LINT1, and the timer, which module Boot adds; then
\* init_ioapic looks for the override of ISA interrupt 0.
InitLapic ==
  /\ routing = "lapic"
  /\ \/ /\ platform.model = "apic"
        /\ lint' = "masked"
        /\ routing' = IF platform.pit = Absent THEN "panic" ELSE "ioapic"
     \/ /\ platform.model # "apic"
        /\ routing' = "panic"
        /\ UNCHANGED lint
  /\ UNCHANGED <<platform, pic, redir, walk, found>>
-----------------------------------------------------------------------------
(* init_ioapic *)

Apic == platform.apics[walk.apic]

Idx == walk.idx

\* reg, and max_redir_count, are u8.
Reg == (16 + Idx * 2) % 256

MaxRedirCount == (Apic.ver + 1) % 256

InLoop == routing = "ioapic" /\ walk.apic <= Len(platform.apics)

IsPit == Idx + Apic.base = platform.pit

Advance == walk' = [walk EXCEPT !.idx = @ + 1, !.dest = FALSE]

NextApic ==
  /\ InLoop /\ Idx >= MaxRedirCount
  /\ walk' = Start(walk.apic + 1)
  /\ UNCHANGED <<platform, pic, lint, redir, found, routing>>

WriteVector ==
  /\ InLoop /\ Idx < MaxRedirCount /\ IsPit /\ ~walk.dest
  /\ redir' = [redir EXCEPT ![walk.apic][Low(Reg)].vector = TIMER,
                            ![walk.apic][Low(Reg)].masked = FALSE]
  /\ walk' = [walk EXCEPT !.dest = TRUE]
  /\ UNCHANGED <<platform, pic, lint, found, routing>>

WriteDestination ==
  /\ InLoop /\ walk.dest
  /\ redir' = [redir EXCEPT ![walk.apic][Low(Reg)].dest = Bsp]
  /\ found' = [apic |-> walk.apic, reg |-> Reg]
  /\ Advance
  /\ UNCHANGED <<platform, pic, lint, routing>>

MaskOther ==
  /\ InLoop /\ Idx < MaxRedirCount /\ ~IsPit
  /\ redir' = [redir EXCEPT ![walk.apic][Low(Reg)].masked = TRUE]
  /\ Advance
  /\ UNCHANGED <<platform, pic, lint, found, routing>>

FoundReg ==
  /\ routing = "ioapic" /\ ~InLoop
  /\ routing' = IF found = Absent THEN "panic" ELSE "done"
  /\ UNCHANGED <<platform, pic, lint, redir, walk, found>>
-----------------------------------------------------------------------------
\* The firmware may have left any of the sources masked and any unmasked.
IoApicInit ==
  /\ platform \in Platforms
  /\ pic \in {"on", "masked"} /\ lint \in {"on", "masked"}
  /\ \E open \in SUBSET UNION {{<<k, i>> : i \in Entries(platform.apics[k])}
                                 : k \in DOMAIN platform.apics} :
       redir = [k \in DOMAIN platform.apics |->
                  [i \in Entries(platform.apics[k]) |->
                     [vector |-> i, masked |-> <<k, i>> \notin open, dest |-> Absent]]]
  /\ walk = Start(1)
  /\ found = Absent
  /\ routing = "pic"

IoApicNext ==
  \/ InitAndDisableOldPic \/ InitLapic
  \/ NextApic \/ WriteVector \/ WriteDestination \/ MaskOther \/ FoundReg

PIC == <<0, 0>>

\* The sources that can interrupt a processor: the old PIC through its pin, and
\* the redirection entries.
Routed ==
  {s \in {PIC} : pic = "on" /\ lint = "on"}
    \cup UNION {{<<k, i>> : i \in {j \in DOMAIN redir[k] : ~redir[k][j].masked}} : k \in DOMAIN redir}
=============================================================================
