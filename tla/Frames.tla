------------------------------- MODULE Frames -------------------------------
(***************************************************************************)
(* The boot-time memory of nacl/src/arch/x86_64/memory: BootInfoFrame-     *)
(* Allocator, an iterator over the usable regions of the bootloader's      *)
(* memory map, and init_heap, which maps the heap page by page with it.    *)
(*                                                                         *)
(* Physical memory is counted in frames: the bootloader page-aligns usable *)
(* regions and lets them overlap no other region.  The map_to of the       *)
(* x86_64 crate is external: it takes a frame for each page table it finds *)
(* missing, which can be up to three, on the way to the first page only    *)
(* (the heap of the code lies in one level-1 table).  Nothing is mapped in *)
(* the heap's range before, neither a page nor a huge page around it, so   *)
(* that the other errors of map_to (allocator.rs:29) do not occur.         *)
(***************************************************************************)
EXTENDS Integers, Sequences, FiniteSets

CONSTANTS HEAP_START, HEAP_SIZE,
          MemoryMaps,   \* the memory maps a boot may be given
          TABLES        \* page tables that may be missing
CONSTANT NoFrame

PAGE == 4096

Regions == [usable : BOOLEAN, base : Nat, length : Nat]

\* The frames of a region.
Span(r) == r.base..(r.base + r.length - 1)

ASSUME FramesAssumption ==
  /\ HEAP_START \in Nat /\ HEAP_SIZE \in Nat \ {0}
  /\ TABLES \in Nat
  /\ NoFrame \notin Nat
  /\ \A m \in MemoryMaps :
       /\ m \in Seq(Regions)
       /\ \A i, j \in 1..Len(m) :
            i # j /\ m[i].usable /\ m[j].usable => Span(m[i]) \cap Span(m[j]) = {}

VARIABLES
  memory,      \* memory_regions
  region, off, \* the iterator: the region it is in, and what it has taken of it
  page,        \* the next page of page_range
  frame,       \* the frame allocated for it, or NoFrame
  missing,     \* page tables that map_to will find missing
  tables,      \* frames that became page tables
  mapping,     \* the pages mapped so far
  allocator,        \* "off", "on" once ALLOCATOR is initialized, or "failed"
  needed       \* history: page tables that were missing at first

frameVars == <<memory, region, off, page, frame, missing, tables, mapping, allocator, needed>>

FirstPage == HEAP_START \div PAGE

LastPage == (HEAP_START + HEAP_SIZE - 1) \div PAGE
-----------------------------------------------------------------------------
(* BootInfoFrameAllocator: filter, flat_map, next *)

\* What the iterator has taken of region i.
Taken(i) == IF i = region THEN off ELSE IF i < region THEN memory[i].length ELSE 0

\* Mutant: the filter is missing.
LeftUnfiltered == {i \in region..Len(memory) : Taken(i) < memory[i].length}

\* The regions that still have frames to give.
Left == {i \in region..Len(memory) : memory[i].usable /\ Taken(i) < memory[i].length}

\* f is the next frame, out of region i.
AllocateFrame(i, f) ==
  /\ i \in Left
  /\ \A j \in Left : i <= j
  /\ f = memory[i].base + Taken(i)
  /\ region' = i
  /\ off' = Taken(i) + 1

\* Mutant: frames at the end of the memory map count as used up.
OutOfFramesEarly ==
  /\ \A i \in Left : i = Len(memory)
  /\ allocator' = "failed"
  /\ UNCHANGED <<memory, region, off, page, frame, missing, tables, mapping, needed>>

\* allocate_frame is None: init_heap returns the error and init panics.
OutOfFrames ==
  /\ Left = {}
  /\ allocator' = "failed"
  /\ UNCHANGED <<memory, region, off, page, frame, missing, tables, mapping, needed>>
-----------------------------------------------------------------------------
(* init_heap *)

PageFrame ==
  /\ allocator = "off" /\ frame = NoFrame /\ page <= LastPage
  /\ \/ OutOfFrames
     \/ /\ \E i \in 1..Len(memory) : \E f \in Span(memory[i]) : AllocateFrame(i, f) /\ frame' = f
        /\ UNCHANGED <<memory, page, missing, tables, mapping, allocator, needed>>

CreateTable ==
  /\ allocator = "off" /\ frame # NoFrame /\ missing > 0
  /\ \/ OutOfFrames
     \/ /\ \E i \in 1..Len(memory) : \E f \in Span(memory[i]) :
             AllocateFrame(i, f) /\ tables' = tables \cup {f}
        /\ missing' = missing - 1
        /\ UNCHANGED <<memory, page, frame, mapping, allocator, needed>>

MapTo ==
  /\ allocator = "off" /\ frame # NoFrame /\ missing = 0
  /\ mapping' = [p \in FirstPage..page |-> IF p = page THEN frame ELSE mapping[p]]
  /\ frame' = NoFrame
  /\ page' = page + 1
  /\ UNCHANGED <<memory, region, off, missing, tables, allocator, needed>>

InitAllocator ==
  /\ allocator = "off" /\ frame = NoFrame /\ page > LastPage
  /\ allocator' = "on"
  /\ UNCHANGED <<memory, region, off, page, frame, missing, tables, mapping, needed>>
-----------------------------------------------------------------------------
FramesInit ==
  /\ memory \in MemoryMaps
  /\ region = 1 /\ off = 0
  /\ page = FirstPage
  /\ frame = NoFrame
  /\ missing \in 0..TABLES
  /\ tables = {}
  /\ mapping = <<>>
  /\ allocator = "off"
  /\ needed = missing

FramesNext == PageFrame \/ CreateTable \/ MapTo \/ InitAllocator

FramesSpec == FramesInit /\ [][FramesNext]_frameVars
-----------------------------------------------------------------------------
Usable == UNION {Span(memory[i]) : i \in {j \in 1..Len(memory) : memory[j].usable}}

\* Every page has a frame of its own, no page table is also a heap page, and
\* all of them are memory the bootloader said is usable; the allocator gets the
\* heap only when exactly the pages that hold a byte of it are mapped
\* (memory/allocator.rs:16-34, memory/mod.rs:63-79).
HeapSound ==
  /\ \A p \in DOMAIN mapping : mapping[p] \in Usable \ tables
  /\ \A p, q \in DOMAIN mapping : mapping[p] = mapping[q] => p = q
  /\ tables \subseteq Usable
  /\ allocator = "on" =>
       \A p \in 0..((HEAP_START + HEAP_SIZE) \div PAGE + 1) :
         p \in DOMAIN mapping
           <=> p * PAGE < HEAP_START + HEAP_SIZE /\ HEAP_START < (p + 1) * PAGE

\* The boot gives up on the heap only if there are too few usable frames for
\* it: the iterator passes none over, across unusable, empty and used up
\* regions (memory/mod.rs:64-72).
HeapFits ==
  allocator = "failed" => Cardinality(Usable) < (LastPage - FirstPage + 1) + needed
=============================================================================
