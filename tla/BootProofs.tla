----------------------------- MODULE BootProofs -----------------------------
(***************************************************************************)
(* The safety of Boot for every machine: the heap, the CPU-local state and *)
(* its tick counter, and the one source of ticks.                          *)
(***************************************************************************)
EXTENDS Boot, FiniteSetTheorems, TLAPS

-----------------------------------------------------------------------------
(* HeapSound and HeapFits for every memory map and every heap.  The iterator
   is the key: what it has passed over is what was given away, no frame more
   and none less. *)

\* The usable frames the iterator has passed.
Placed ==
  {g \in Nat : \E i \in 1..Len(memory) :
     memory[i].usable /\ memory[i].base <= g /\ g < memory[i].base + Taken(i)}

Mapped == {mapping[p] : p \in DOMAIN mapping}

Given == tables \cup Mapped \cup ({frame} \ {NoFrame})

Types ==
  /\ memory \in MemoryMaps
  /\ region \in Nat \ {0} /\ off \in Nat
  /\ region <= Len(memory) => off <= memory[region].length
  /\ page \in Nat /\ FirstPage <= page /\ page <= LastPage + 1
  /\ frame \in Nat \cup {NoFrame}
  /\ frame # NoFrame => page <= LastPage
  /\ missing \in Nat /\ needed \in Nat
  /\ tables \subseteq Nat
  /\ DOMAIN mapping = FirstPage..(page - 1)
  /\ allocator \in {"off", "on", "failed"}
  /\ allocator = "on" => page = LastPage + 1

\* No frame was given away twice.
Distinct ==
  /\ tables \cap Mapped = {}
  /\ frame \notin tables \cup Mapped
  /\ \A p, q \in DOMAIN mapping : mapping[p] = mapping[q] => p = q

\* What was given away, counted.
Counted ==
  /\ IsFiniteSet(tables) /\ Cardinality(tables) <= needed - missing
  /\ IsFiniteSet(Mapped) /\ Cardinality(Mapped) <= page - FirstPage

IInv == Types /\ Given = Placed /\ Distinct /\ Counted /\ HeapFits

\* Pages are counted as the code counts them.
LEMMA Pages == /\ FirstPage \in Nat /\ LastPage \in Nat /\ FirstPage <= LastPage
               /\ \A p \in Nat : p <= LastPage <=> p * PAGE < HEAP_START + HEAP_SIZE
               /\ \A p \in Nat : FirstPage <= p <=> HEAP_START < (p + 1) * PAGE
  BY FramesAssumption DEF FirstPage, LastPage, PAGE

\* The usable regions of the memory map are intervals apart from each other.
LEMMA Map ==
  ASSUME Types
  PROVE  /\ Len(memory) \in Nat
         /\ \A i \in 1..Len(memory) : /\ memory[i].usable \in BOOLEAN
                                      /\ memory[i].base \in Nat
                                      /\ memory[i].length \in Nat
         /\ \A i, j \in 1..Len(memory) :
              i # j /\ memory[i].usable /\ memory[j].usable
                => Span(memory[i]) \cap Span(memory[j]) = {}
<1>1. /\ memory \in Seq(Regions)
      /\ \A i, j \in 1..Len(memory) :
              i # j /\ memory[i].usable /\ memory[j].usable
                => Span(memory[i]) \cap Span(memory[j]) = {}
  BY FramesAssumption, Zenon DEF Types
<1>2. Len(memory) \in Nat /\ \A i \in 1..Len(memory) : memory[i] \in Regions
  BY <1>1
<1>3. \A r \in Regions : r.usable \in BOOLEAN /\ r.base \in Nat /\ r.length \in Nat
  BY Zenon DEF Regions
<1> QED
  BY <1>1, <1>2, <1>3, Zenon

\* The iterator takes of a region what the region has.
LEMMA TakenBound ==
  ASSUME Types, NEW i \in 1..Len(memory)
  PROVE  Taken(i) \in Nat /\ Taken(i) <= memory[i].length /\ (i > region => Taken(i) = 0)
  BY Map DEF Types, Taken

\* The iterator's next frame is new, and the only one passed by the step.
LEMMA NextFrame ==
  ASSUME Types, NEW i \in 1..Len(memory), NEW f, AllocateFrame(i, f), memory' = memory
  PROVE  /\ f \in Nat /\ f \notin Placed
         /\ Placed' = Placed \cup {f}
         /\ region' \in Nat \ {0} /\ off' \in Nat
         /\ region' <= Len(memory') => off' <= memory'[region'].length
<1>0. /\ Len(memory) \in Nat /\ region \in Nat \ {0}
      /\ \A j \in 1..Len(memory) : /\ memory[j].base \in Nat /\ memory[j].length \in Nat
                                   /\ Taken(j) \in Nat /\ Taken(j) <= memory[j].length
  BY Map, TakenBound, Zenon DEF Types
<1>1. /\ i \in region..Len(memory) /\ memory[i].usable /\ Taken(i) < memory[i].length
      /\ f = memory[i].base + Taken(i) /\ region' = i /\ off' = Taken(i) + 1
      /\ \A j \in Left : i <= j
  BY Zenon DEF AllocateFrame, Left
<1>7. \A j \in 1..Len(memory) :
        region <= j /\ j < i /\ memory[j].usable => Taken(j) = memory[j].length
  BY <1>0, <1>1, SMTT(30) DEF Left
<1>2. f \in Nat /\ f \in Span(memory[i])
  BY <1>0, <1>1, SMTT(30) DEF Span
<1>4. f \notin Placed
  <2> SUFFICES ASSUME NEW j \in 1..Len(memory), memory[j].usable, memory[j].base <= f,
                      f < memory[j].base + Taken(j)
               PROVE  FALSE
    BY Zenon DEF Placed
  <2>1. CASE j = i
    BY <1>0, <1>1, <2>1
  <2>2. CASE j # i
    <3>0. /\ memory[j].base \in Nat /\ memory[j].length \in Nat
          /\ Taken(j) \in Nat /\ Taken(j) <= memory[j].length
      BY <1>0, Zenon
    <3>1. f \in Span(memory[j])
      BY <1>2, <3>0, SMTT(30) DEF Span
    <3> QED
      BY <1>1, <1>2, <2>2, <3>1, Map, Zenon
  <2> QED
    BY <2>1, <2>2, Zenon
<1>5. \A j \in 1..Len(memory) :
        Taken(j)' = IF j = i THEN Taken(i) + 1 ELSE IF j < i THEN memory[j].length ELSE 0
  BY <1>1, Zenon DEF Taken
<1>6. Placed' = Placed \cup {f}
  <2>1. ASSUME NEW g \in Nat, NEW j \in 1..Len(memory), memory[j].usable
        PROVE  memory[j].base <= g /\ g < memory[j].base + Taken(j)'
                 <=> \/ memory[j].base <= g /\ g < memory[j].base + Taken(j)
                     \/ j = i /\ g = f
    <3>1. CASE j = i
      <4>1. /\ memory[i].base \in Nat /\ Taken(i) \in Nat
            /\ Taken(j)' = Taken(i) + 1 /\ Taken(j) = Taken(i)
            /\ f = memory[i].base + Taken(i)
        BY <1>0, <1>1, <1>5, <3>1, Zenon
      <4> QED
        BY <3>1, <4>1
    <3>2. CASE j < i
      <4>1. Taken(j) = memory[j].length
        BY <1>0, <1>7, <2>1, <3>2 DEF Taken
      <4> QED
        BY <1>5, <3>2, <4>1
    <3>3. CASE j > i
      <4>1. Taken(j) = 0 /\ Taken(j)' = 0
        BY <1>0, <1>1, <1>5, <3>3 DEF Taken
      <4> QED
        BY <1>0, <3>3, <4>1
    <3> QED
      BY <1>0, <3>1, <3>2, <3>3
  <2> QED
    BY <1>1, <1>2, <2>1, Zenon DEF Placed
<1> QED
  BY <1>0, <1>1, <1>2, <1>4, <1>6

\* Nothing is given away at first.
LEMMA InitIInv == FramesInit => IInv
<1> SUFFICES ASSUME FramesInit PROVE IInv
  BY Zenon
<1> USE Pages DEF FramesInit
<1>0. \A i \in 1..Len(memory) : memory[i].length \in Nat /\ memory[i].base \in Nat
  <2>1. memory \in Seq(Regions)
    BY FramesAssumption, Zenon
  <2>2. \A i \in 1..Len(memory) : memory[i] \in Regions
    BY <2>1
  <2>3. \A r \in Regions : r.length \in Nat /\ r.base \in Nat
    BY Zenon DEF Regions
  <2> QED
    BY <2>2, <2>3, Zenon
<1>1. DOMAIN mapping = {} /\ Mapped = {}
  <2>1. <<>> \in Seq({}) /\ Len(<<>>) = 0
    OBVIOUS
  <2>2. DOMAIN mapping = {}
    BY <2>1
  <2> QED
    BY <2>2, Zenon DEF Mapped
<1>2. FirstPage..(page - 1) = {}
  OBVIOUS
<1>3. Types
  BY <1>0, <1>1, <1>2, FramesAssumption DEF Types
<1>4. Placed = {}
  <2>1. \A i \in 1..Len(memory) : Taken(i) = 0
    BY DEF Taken
  <2> QED
    BY <1>0, <2>1 DEF Placed
<1>5. Distinct /\ Given = {}
  BY <1>1, FramesAssumption, Zenon DEF Distinct, Given
<1>6. Counted
  BY <1>1, FS_EmptySet, FramesAssumption DEF Counted
<1> QED
  BY <1>3, <1>4, <1>5, <1>6, Zenon DEF IInv, HeapFits

\* When the iterator is at its end, every usable frame was given away.
LEMMA AtEnd == ASSUME Types, Left = {} PROVE Usable \subseteq Placed
<1> SUFFICES ASSUME NEW i \in 1..Len(memory), memory[i].usable, NEW g \in Span(memory[i])
             PROVE  g \in Placed
  BY Zenon DEF Usable
<1>1. /\ memory[i].base \in Nat /\ memory[i].length \in Nat /\ Len(memory) \in Nat
      /\ Taken(i) \in Nat /\ Taken(i) <= memory[i].length /\ region \in Nat
  BY Map, TakenBound, Zenon DEF Types
<1>2. Taken(i) = memory[i].length
  <2>1. CASE i < region
    BY <1>1, <2>1 DEF Taken
  <2>2. CASE i >= region
    BY <1>1, <2>2 DEF Left
  <2> QED
    BY <1>1, <2>1, <2>2
<1> QED
  BY <1>1, <1>2 DEF Span, Placed

\* What is given away is usable.
LEMMA PlacedUsable == Types => Placed \subseteq Usable
<1> SUFFICES ASSUME Types, NEW g \in Nat, NEW i \in 1..Len(memory), memory[i].usable,
                    memory[i].base <= g, g < memory[i].base + Taken(i)
             PROVE  g \in Usable
  BY Zenon DEF Placed
<1>1. /\ memory[i].base \in Nat /\ memory[i].length \in Nat
      /\ Taken(i) \in Nat /\ Taken(i) <= memory[i].length
  BY Map, TakenBound, Zenon
<1>2. g \in Span(memory[i])
  BY <1>1 DEF Span
<1> QED
  BY <1>2, Zenon DEF Usable

\* allocate_frame is None only if the usable frames do not suffice.
LEMMA Shortage ==
  ASSUME IInv, OutOfFrames, \/ frame = NoFrame /\ page <= LastPage
                            \/ frame # NoFrame /\ missing > 0
  PROVE  Cardinality(Usable) < (LastPage - FirstPage + 1) + needed
<1> DEFINE F == {frame} \ {NoFrame}
<1>1. Usable \subseteq Given
  BY AtEnd, Zenon DEF IInv, OutOfFrames
<1>2. IsFiniteSet(F) /\ Cardinality(F) = IF frame = NoFrame THEN 0 ELSE 1
  <2>1. F = IF frame = NoFrame THEN {} ELSE {frame}
    BY Zenon
  <2> QED
    BY <2>1, FS_Singleton, FS_EmptySet
<1>3. IsFiniteSet(tables \cup Mapped) /\ Cardinality(tables \cup Mapped) <= (needed - missing) + (page - FirstPage)
  <2>1. /\ IsFiniteSet(tables \cup Mapped) /\ IsFiniteSet(tables \cap Mapped)
        /\ Cardinality(tables \cup Mapped)
             = Cardinality(tables) + Cardinality(Mapped) - Cardinality(tables \cap Mapped)
    BY FS_Union, FS_Subset, Zenon DEF IInv, Counted
  <2>2. /\ Cardinality(tables) \in Nat /\ Cardinality(Mapped) \in Nat
        /\ Cardinality(tables \cap Mapped) \in Nat
    BY <2>1, FS_CardinalityType, Zenon DEF IInv, Counted
  <2> QED
    BY <2>1, <2>2, Pages DEF IInv, Counted, Types
<1>4. IsFiniteSet(Given) /\ Cardinality(Given) <= Cardinality(tables \cup Mapped) + Cardinality(F)
  <2> HIDE DEF F
  <2> DEFINE TM == tables \cup Mapped
  <2>0. Given = TM \cup F
    BY Zenon DEF Given, F
  <2> HIDE DEF TM
  <2>1. /\ IsFiniteSet(TM \cup F) /\ IsFiniteSet(TM \cap F)
        /\ Cardinality(TM \cup F) = Cardinality(TM) + Cardinality(F) - Cardinality(TM \cap F)
    BY <1>2, <1>3, FS_Union, FS_Subset, Zenon DEF TM
  <2>2. Cardinality(TM) \in Nat /\ Cardinality(F) \in Nat /\ Cardinality(TM \cap F) \in Nat
    BY <1>2, <1>3, <2>1, FS_CardinalityType, Zenon DEF TM
  <2> QED
    BY <2>0, <2>1, <2>2 DEF TM
<1>5. IsFiniteSet(Usable) /\ Cardinality(Usable) <= Cardinality(Given)
  BY <1>1, <1>4, FS_Subset, Zenon
<1>6. /\ Cardinality(Usable) \in Nat /\ Cardinality(Given) \in Nat
      /\ Cardinality(tables \cup Mapped) \in Nat
  BY <1>3, <1>4, <1>5, FS_CardinalityType, Zenon
<1> QED
  BY <1>2, <1>3, <1>4, <1>5, <1>6, Pages DEF IInv, Types

\* The heap's error: only the shortage above ends in it.
LEMMA StepOutOfFrames ==
  ASSUME IInv, allocator = "off", OutOfFrames,
         \/ frame = NoFrame /\ page <= LastPage
         \/ frame # NoFrame /\ missing > 0
  PROVE  IInv'
<1>1. UNCHANGED <<memory, region, off, page, frame, missing, tables, mapping, needed>>
      /\ allocator' = "failed"
  BY Zenon DEF OutOfFrames
<1>2. UNCHANGED <<Placed, Given, Mapped, Usable>>
  BY <1>1, Zenon DEF Placed, Given, Mapped, Usable, Taken
<1>3. Types'
  BY <1>1, Zenon DEF IInv, Types
<1>4. Distinct' /\ Counted'
  BY <1>1, <1>2, Zenon DEF IInv, Distinct, Counted
<1>5. HeapFits'
  BY <1>1, <1>2, Shortage, Zenon DEF HeapFits
<1> QED
  BY <1>2, <1>3, <1>4, <1>5, Zenon DEF IInv

\* A page's frame: it was free until now.
LEMMA StepPageFrame == ASSUME IInv, PageFrame PROVE IInv'
<1>1. CASE OutOfFrames
  BY <1>1, StepOutOfFrames, Zenon DEF PageFrame
<1>2. ASSUME NEW i \in 1..Len(memory), NEW f, AllocateFrame(i, f), frame' = f,
             UNCHANGED <<memory, page, missing, tables, mapping, allocator, needed>>
      PROVE  IInv'
  <2>0. Types /\ frame = NoFrame /\ page <= LastPage /\ allocator = "off"
    BY Zenon DEF IInv, PageFrame
  <2>1. /\ f \in Nat /\ f \notin Placed /\ Placed' = Placed \cup {f}
        /\ region' \in Nat \ {0} /\ off' \in Nat
        /\ region' <= Len(memory') => off' <= memory'[region'].length
    BY <1>2, <2>0, NextFrame, Zenon
  <2>2. Mapped' = Mapped /\ Given' = Given \cup {f}
    BY <1>2, <2>0, <2>1, FramesAssumption, Zenon DEF Mapped, Given
  <2>3. f \notin tables \cup Mapped
    BY <2>1, Zenon DEF IInv, Given
  <2>4. Types'
    BY <1>2, <2>0, <2>1, Zenon DEF Types
  <2>5. Distinct' /\ Counted' /\ HeapFits'
    BY <1>2, <2>0, <2>2, <2>3, Zenon DEF IInv, Distinct, Counted, HeapFits
  <2> QED
    BY <2>1, <2>2, <2>4, <2>5, Zenon DEF IInv
<1> QED
  BY <1>1, <1>2, Zenon DEF PageFrame

\* A page table's frame: it was free until now.
LEMMA StepCreateTable == ASSUME IInv, CreateTable PROVE IInv'
<1>1. CASE OutOfFrames
  BY <1>1, StepOutOfFrames, Zenon DEF CreateTable
<1>2. ASSUME NEW i \in 1..Len(memory), NEW f, AllocateFrame(i, f), tables' = tables \cup {f},
             missing' = missing - 1,
             UNCHANGED <<memory, page, frame, mapping, allocator, needed>>
      PROVE  IInv'
  <2>0. Types /\ frame # NoFrame /\ missing > 0 /\ allocator = "off"
    BY Zenon DEF IInv, CreateTable
  <2>1. /\ f \in Nat /\ f \notin Placed /\ Placed' = Placed \cup {f}
        /\ region' \in Nat \ {0} /\ off' \in Nat
        /\ region' <= Len(memory') => off' <= memory'[region'].length
    BY <1>2, <2>0, NextFrame, Zenon
  <2>2. Mapped' = Mapped /\ Given' = Given \cup {f}
    BY <1>2, Zenon DEF Mapped, Given
  <2>3. f \notin tables \cup Mapped /\ f # frame
    BY <2>0, <2>1, Zenon DEF IInv, Given
  <2>4. Types'
    BY <1>2, <2>0, <2>1 DEF Types
  <2>5. IsFiniteSet(tables') /\ Cardinality(tables') = Cardinality(tables) + 1
    BY <1>2, <2>3, FS_AddElement, Zenon DEF IInv, Counted
  <2>6. Cardinality(tables) \in Nat
    BY FS_CardinalityType, Zenon DEF IInv, Counted
  <2>7. Counted'
    BY <1>2, <2>0, <2>2, <2>5, <2>6 DEF IInv, Counted, Types
  <2>8. Distinct' /\ HeapFits'
    BY <1>2, <2>0, <2>2, <2>3, Zenon DEF IInv, Distinct, HeapFits
  <2> QED
    BY <2>1, <2>2, <2>4, <2>7, <2>8, Zenon DEF IInv
<1> QED
  BY <1>1, <1>2, Zenon DEF CreateTable

\* The frame becomes the page's.
LEMMA StepMapTo == ASSUME IInv, MapTo PROVE IInv'
<1>0. Types /\ frame \in Nat /\ page <= LastPage /\ allocator = "off"
  BY Zenon DEF IInv, MapTo, Types
<1>1. /\ mapping' = [p \in FirstPage..page |-> IF p = page THEN frame ELSE mapping[p]]
      /\ frame' = NoFrame /\ page' = page + 1
      /\ UNCHANGED <<memory, region, off, missing, tables, allocator, needed>>
  BY Zenon DEF MapTo
<1>2. /\ FirstPage..page = (FirstPage..(page - 1)) \cup {page}
      /\ page \notin FirstPage..(page - 1)
      /\ FirstPage..(page' - 1) = FirstPage..page
  <2>1. page \in Nat /\ FirstPage \in Nat /\ FirstPage <= page /\ page' = page + 1
    BY <1>0, <1>1, Pages, Zenon DEF Types
  <2>2. page' - 1 = page
    BY <2>1
  <2> QED
    BY <2>1, <2>2
<1>3. /\ DOMAIN mapping' = DOMAIN mapping \cup {page} /\ page \notin DOMAIN mapping
      /\ mapping'[page] = frame
      /\ \A p \in DOMAIN mapping : mapping'[p] = mapping[p]
  BY <1>0, <1>1, <1>2, Zenon DEF Types
<1>4. Mapped' = Mapped \cup {frame}
  BY <1>3 DEF Mapped
<1>5. Given' = Given /\ Placed' = Placed
  BY <1>0, <1>1, <1>4, FramesAssumption, Zenon DEF Given, Placed, Taken
<1>6. Types'
  <2>1. DOMAIN mapping' = FirstPage..(page' - 1)
    BY <1>1, <1>2, Zenon
  <2>2. page' \in Nat /\ FirstPage <= page' /\ page' <= LastPage + 1
    BY <1>0, <1>1, Pages DEF Types
  <2> QED
    BY <1>0, <1>1, <2>1, <2>2, Zenon DEF Types
<1>7. Distinct'
  <2>1. frame \notin tables \cup Mapped
    BY Zenon DEF IInv, Distinct
  <2>2. NoFrame \notin tables \cup Mapped \cup {frame}
    <3>1. Given \subseteq Nat
      BY Zenon DEF IInv, Placed
    <3> QED
      BY <1>0, <3>1, FramesAssumption, Zenon DEF Given
  <2>3. \A p, q \in DOMAIN mapping' : mapping'[p] = mapping'[q] => p = q
    <3>1. \A p \in DOMAIN mapping : mapping[p] # frame
      BY <2>1, Zenon DEF Mapped
    <3> QED
      BY <1>3, <3>1, Zenon DEF IInv, Distinct
  <2> QED
    BY <1>1, <1>4, <2>1, <2>2, <2>3 DEF IInv, Distinct
<1>8. Counted'
  <2>1. frame \notin Mapped /\ IsFiniteSet(Mapped)
    BY Zenon DEF IInv, Distinct, Counted
  <2>2. IsFiniteSet(Mapped') /\ Cardinality(Mapped') = Cardinality(Mapped) + 1
    BY <1>4, <2>1, FS_AddElement, Zenon
  <2>3. Cardinality(Mapped) \in Nat
    BY <2>1, FS_CardinalityType, Zenon
  <2> QED
    BY <1>0, <1>1, <2>2, <2>3, Pages DEF IInv, Counted, Types
<1>9. HeapFits'
  BY <1>0, <1>1, Zenon DEF HeapFits
<1> QED
  BY <1>5, <1>6, <1>7, <1>8, <1>9, Zenon DEF IInv

\* The inductive invariant holds in every reachable state.
LEMMA Inductive == FramesSpec => []IInv
<1>1. ASSUME IInv, InitAllocator PROVE IInv'
  <2>1. /\ UNCHANGED <<memory, region, off, page, frame, missing, tables, mapping, needed>>
        /\ allocator' = "on" /\ page > LastPage
    BY <1>1, Zenon DEF InitAllocator
  <2>2. UNCHANGED <<Placed, Given, Mapped>>
    BY <2>1, Zenon DEF Placed, Given, Mapped, Taken
  <2>3. Types'
    BY <1>1, <2>1, Pages DEF IInv, Types
  <2> QED
    BY <1>1, <2>1, <2>2, <2>3, Zenon DEF IInv, Distinct, Counted, HeapFits
<1>2. ASSUME IInv, UNCHANGED frameVars PROVE IInv'
  BY <1>2, SMTT(30) DEF IInv, Types, Distinct, Counted, HeapFits, Usable, Placed, Given, Mapped, Taken, frameVars
<1>3. IInv /\ [FramesNext]_frameVars => IInv'
  BY <1>1, <1>2, StepPageFrame, StepCreateTable, StepMapTo, Zenon DEF FramesNext
<1> QED
  BY <1>3, InitIInv, PTL DEF FramesSpec

\* Every memory map and every heap: the mapped pages have frames of their own,
\* usable ones, apart from the page tables; the allocator gets exactly the
\* pages of the heap (memory/allocator.rs:16-34, memory/mod.rs:63-79).
THEOREM HeapIsSound == FramesSpec => []HeapSound
<1>1. IInv => HeapSound
  <2> SUFFICES ASSUME IInv PROVE HeapSound
    BY Zenon
  <2>1. tables \subseteq Usable /\ Mapped \subseteq Usable
    BY PlacedUsable, Zenon DEF IInv, Given
  <2>2. \A p \in DOMAIN mapping : mapping[p] \in Mapped
    BY Zenon DEF Mapped
  <2>3. ASSUME allocator = "on", NEW p \in Nat
        PROVE  p \in DOMAIN mapping
                 <=> p * PAGE < HEAP_START + HEAP_SIZE /\ HEAP_START < (p + 1) * PAGE
    <3>1. DOMAIN mapping = FirstPage..LastPage
      <4>1. page = LastPage + 1 /\ DOMAIN mapping = FirstPage..(page - 1)
        BY <2>3, Zenon DEF IInv, Types
      <4> QED
        BY <4>1, Pages
    <3>2. p \in DOMAIN mapping <=> FirstPage <= p /\ p <= LastPage
      BY <3>1, Pages
    <3> QED
      BY <3>2, Pages, Zenon
  <2> QED
    BY <2>1, <2>2, <2>3 DEF HeapSound, IInv, Distinct
<1> QED
  BY <1>1, Inductive, PTL

\* Every memory map and every heap: the boot gives up only for want of usable
\* frames (memory/mod.rs:64-72, memory/allocator.rs:25-27).
THEOREM HeapFitsIfItCan == FramesSpec => []HeapFits
<1>1. IInv => HeapFits
  BY Zenon DEF IInv
<1> QED
  BY <1>1, Inductive, PTL

-----------------------------------------------------------------------------
(* The components' specifications hold of the boot. *)

\* The boot is, to the memory, one of its behaviours.
LEMMA BootFrames == BootSpec => FramesSpec
<1>1. BootInit => FramesInit
  BY Zenon DEF BootInit
<1>2. [BootNext]_bootVars => [FramesNext]_frameVars
  BY Zenon DEF BootNext, InitMemory, InitInterrupts, InitTime, Time, bootVars
<1> QED
  BY <1>1, <1>2, PTL DEF BootSpec, FramesSpec

\* Every step of the processor is a step of cpu()'s callers or none of theirs.
LEMMA BootCpuLocal == BootSpec => Spec
<1>1. BootInit => Init
  BY Zenon DEF BootInit, TimerInit
<1>2. TimerNext => [Next]_vars
  <2>1. \A l : Step(l) => UNCHANGED vars
    BY Zenon DEF Step
  <2>2. \A l, n : GetIrqCnt(l, n) => ReadTimer
    BY Zenon DEF GetIrqCnt
  <2>3. Calibrate => ReadTimer \/ Call("main") \/ UNCHANGED vars
    BY <2>1, <2>2, Zenon
       DEF Calibrate, ConfigurePit, PrepareTimer, Enable, CallStep, Saved, FirstIrq, StartTimer,
           SecondIrq, StopTimer, Measure, Disable, MaskPit, SetPeriodic, SetInitCnt
  <2>4. Delay => ReadTimer \/ UNCHANGED vars
    <3>1. (\E us \in Micros : Udelay(us)) \/ (\E ms \in Millis : Mdelay(ms)) \/ Hlt \/ Return => UNCHANGED vars
      BY DEF Udelay, Mdelay, Hlt, Return, Step
    <3>2. UdelaySpin => UNCHANGED vars
      BY Zenon DEF UdelaySpin, Step
    <3>3. MdelayStart \/ MdelayWait => ReadTimer
      BY <2>2, Zenon DEF MdelayStart, MdelayWait
    <3> QED
      BY <3>1, <3>2, <3>3, Zenon DEF Delay
  <2>5. EnableAtLast \/ OtherWork => UNCHANGED vars
    BY <2>1, Zenon DEF EnableAtLast, OtherWork
  <2>6. Interrupt \/ HandlerStep \/ HandlerReturn => TimerIrq \/ Call("irq") \/ Count
    BY Zenon DEF Interrupt, HandlerStep, HandlerReturn
  <2>7. Tick => UNCHANGED vars
    BY Zenon DEF Tick
  <2> QED
    BY <2>3, <2>4, <2>5, <2>6, <2>7, "main" \in Contexts, "irq" \in Contexts, Zenon
       DEF TimerNext, Processor, Next, Contexts
<1>3. [BootNext]_bootVars => [Next]_vars
  BY <1>2, Zenon DEF BootNext, InitMemory, InitInterrupts, InitTime, Time, bootVars
<1> QED
  BY <1>1, <1>3, PTL DEF BootSpec, Spec

\* For every machine the heap is sound when the rest of the boot uses it
\* (memory/allocator.rs:16-36, main.rs:117-125).
THEOREM BootHeap == BootSpec => [](HeapSound /\ HeapFits)
  BY BootFrames, HeapIsSound, HeapFitsIfItCan, PTL
-----------------------------------------------------------------------------
(* The CPU-local state *)

Creating == {"collector", "collector_new", "collector_alloc", "cpu_new", "cpu_alloc"}
Created == {"stealer", "insert"}

Bit(b) == IF b THEN 1 ELSE 0

CpuTypes ==
  /\ pc \in [Contexts -> {"off", "get", "use"} \cup Creating \cup Created]
  /\ cpu \in [Contexts -> 1..2 \cup {Nil}]
  /\ cpus \in 1..2 \cup {Nil}
  /\ made \in Nat /\ irqs \in Nat /\ settled \in Nat \cup {Nil}
  /\ timer \in [1..2 -> Nat]
  /\ \A x \in Contexts : pc[x] \in Created => cpu[x] # Nil
  /\ \A x \in Contexts : pc[x] = "use" => cpus # Nil /\ cpu[x] # Nil

\* Each context creates at most one Cpu, and only one that found none.
AtMostTwo ==
  /\ cpus = Nil => made = Bit(pc["main"] \in Created) + Bit(pc["irq"] \in Created)
  /\ cpus # Nil => made + Bit(pc["main"] \in Creating) + Bit(pc["irq"] \in Creating) <= 2

\* After main's first call nobody creates any more, and every handler has the
\* one Cpu that counts.
Quiet ==
  settled # Nil =>
    /\ cpus # Nil
    /\ \A x \in Contexts : pc[x] \in {"off", "get", "use"}
    /\ pc["irq"] = "use" => cpu["irq"] = cpus
    /\ timer[cpus] + Bit(pc["irq"] # "off") >= irqs - settled

CInv == CpuTypes /\ AtMostTwo /\ Quiet

\* No CPU has called cpu() yet.
LEMMA InitCInv == Init => CInv
  BY CpuLocalAssumption
     DEF Init, CInv, CpuTypes, AtMostTwo, Quiet, Contexts, Creating, Created, Bit

\* Every step of the CPU and of its handler keeps the invariant.
LEMMA StepCInv == CInv /\ [Next]_vars => CInv'
<1> SUFFICES ASSUME CInv, [Next]_vars PROVE CInv'
  BY Zenon
<1>n. Nil \notin Nat /\ Nil \notin 1..2
  BY CpuLocalAssumption
<1> USE <1>n DEF CInv, CpuTypes, AtMostTwo, Quiet, Contexts, Creating, Created, Bit, Goto, Running
<1>1. ASSUME NEW x \in Contexts, Get(x) PROVE CInv'
  BY <1>1 DEF Get
<1>2. ASSUME NEW x \in Contexts, DefaultCollector(x) PROVE CInv'
  BY <1>2 DEF DefaultCollector
<1>3. ASSUME NEW x \in Contexts, LockHeap(x) PROVE CInv'
  BY <1>3 DEF LockHeap
<1>4. ASSUME NEW x \in Contexts, CollectorNew(x) PROVE CInv'
  BY <1>4, Zenon DEF CollectorNew
<1>5. ASSUME NEW x \in Contexts, CpuNew(x) PROVE CInv'
  BY <1>5 DEF CpuNew
<1>6. ASSUME NEW x \in Contexts, SetStealer(x) PROVE CInv'
  BY <1>6 DEF SetStealer
<1>7. ASSUME NEW x \in Contexts, Insert(x) PROVE CInv'
  BY <1>7 DEF Insert
<1>8. CASE ReadTimer
  BY <1>8 DEF ReadTimer
<1>9. CASE TimerIrq
  BY <1>9 DEF TimerIrq
<1>10. CASE Count
  BY <1>10 DEF Count
<1>11. CASE UNCHANGED vars
  BY <1>11, Zenon DEF vars
<1> QED
  BY <1>1, <1>2, <1>3, <1>4, <1>5, <1>6, <1>7, <1>8, <1>9, <1>10, <1>11, Zenon DEF Next, Call

\* For every number of interrupts: once the calibration's first cpu() has
\* returned, no handler replaces the CPU-local state (cores.rs:89-95).
THEOREM CpuSettles == BootSpec => Settled
<1>1. CInv /\ [Next]_vars => [settled # Nil => cpus' = cpus]_vars
  BY Zenon DEF CInv, Quiet, Next, Call, Get, DefaultCollector, LockHeap, CollectorNew, CpuNew,
         SetStealer, Insert, ReadTimer, TimerIrq, Count, Running, vars
<1> QED
  BY <1>1, InitCInv, StepCInv, BootCpuLocal, PTL DEF Spec, Settled

\* ... and no tick is lost to the counter the calibration and mdelay poll
\* (interrupts.rs:57, time.rs:24).
THEOREM NoTickLost == BootSpec => []TicksCounted
<1>1. CInv => TicksCounted
  <2> SUFFICES ASSUME CInv, settled # Nil, pc["irq"] = "off"
               PROVE  timer[cpus] >= irqs - settled
    BY Zenon DEF TicksCounted
  <2>1. timer[cpus] + 0 >= irqs - settled /\ timer[cpus] \in Nat
    BY Zenon DEF CInv, Quiet, Bit, CpuTypes
  <2> QED
    BY <2>1
<1> QED
  BY <1>1, InitCInv, StepCInv, BootCpuLocal, PTL DEF Spec
-----------------------------------------------------------------------------
(* The one source of ticks.  The walk over the I/O APICs leaves what it has *)
(* passed as it should be; the timer's phases decide which source is left. *)

A(k) == platform.apics[k]

Apics == 1..Len(platform.apics)

Entry == [vector : Nat, masked : BOOLEAN, dest : {Absent, Bsp}]

IsPitOf(k, i) == A(k).base + i = platform.pit

WalkTypes ==
  /\ platform \in Platforms
  /\ walk \in [apic : Nat \ {0}, idx : Nat, dest : BOOLEAN]
  /\ walk.apic \in Apics => walk.idx <= A(walk.apic).ver + 1
  /\ DOMAIN redir = Apics
  /\ \A k \in Apics : DOMAIN redir[k] = Entries(A(k))
  /\ \A k \in Apics : \A i \in Entries(A(k)) : redir[k][i] \in Entry
  /\ routing \in {"pic", "lapic", "ioapic", "done", "panic"}
  /\ routing # "pic" => pic = "masked"
  /\ routing = "done" => walk.apic \notin Apics /\ found # Absent
  /\ walk.dest => walk.apic \in Apics /\ walk.idx \in Entries(A(walk.apic))
                   /\ IsPitOf(walk.apic, walk.idx)

Passed(k, i) == k < walk.apic \/ (k = walk.apic /\ i < walk.idx)

\* The PIT's entry, complete, and any other masked.
Right(k, i) ==
  IF IsPitOf(k, i)
  THEN redir[k][i].vector = TIMER /\ ~redir[k][i].masked /\ redir[k][i].dest = Bsp
  ELSE redir[k][i].masked

Walked ==
  /\ \A k \in Apics : \A i \in Entries(A(k)) : Passed(k, i) => Right(k, i)
  /\ walk.dest => /\ redir[walk.apic][walk.idx].vector = TIMER
                  /\ ~redir[walk.apic][walk.idx].masked
  /\ found # Absent => \E k \in Apics : \E i \in Entries(A(k)) :
       IsPitOf(k, i) /\ Passed(k, i) /\ found = [apic |-> k, reg |-> 16 + 2 * i]

\* What the platforms have in common.
LEMMA PlatformFacts ==
  ASSUME platform \in Platforms
  PROVE  /\ Len(platform.apics) \in Nat /\ DOMAIN platform.apics = Apics
         /\ \A k \in Apics : A(k).base \in Nat /\ A(k).ver \in 0..119
         /\ \A k, l \in Apics : \A i \in Entries(A(k)), j \in Entries(A(l)) :
              IsPitOf(k, i) /\ IsPitOf(l, j) => k = l /\ i = j
<1>0. platform \in Platform
  BY IoApicAssumption, Zenon
<1>1. \A k \in DOMAIN platform.apics : 16 + 2 * platform.apics[k].ver + 1 <= 255
  BY IoApicAssumption, Zenon
<1>R. PICK R : R = [base : Nat, ver : 0..255]
  BY Zenon
<1>2. platform.apics \in Seq(R)
  BY <1>0, <1>R, Zenon DEF Platform
<1>3. Len(platform.apics) \in Nat /\ DOMAIN platform.apics = Apics
      /\ \A k \in Apics : platform.apics[k] \in R
  <2>1. ASSUME NEW S, NEW q \in Seq(S)
        PROVE  Len(q) \in Nat /\ DOMAIN q = 1..Len(q) /\ \A k \in 1..Len(q) : q[k] \in S
    OBVIOUS
  <2> QED
    <3>1. /\ Len(platform.apics) \in Nat /\ DOMAIN platform.apics = 1..Len(platform.apics)
          /\ \A k \in 1..Len(platform.apics) : platform.apics[k] \in R
      BY <1>2, <2>1, Zenon
    <3> QED
      BY <3>1, Zenon DEF Apics
<1>4. \A k \in Apics : A(k).base \in Nat /\ A(k).ver \in 0..119
  <2> SUFFICES ASSUME NEW k \in Apics PROVE A(k).base \in Nat /\ A(k).ver \in 0..119
    BY Zenon
  <2>1. A(k) \in R /\ 16 + 2 * A(k).ver + 1 <= 255
    <3>1. A(k) = platform.apics[k] /\ k \in DOMAIN platform.apics
      BY <1>3, Zenon DEF A
    <3> QED
      BY <1>1, <1>3, <3>1, Zenon
  <2>2. A(k).base \in Nat /\ A(k).ver \in 0..255
    BY <2>1, <1>R, Zenon
  <2> QED
    BY <2>1, <2>2
<1>5. ASSUME NEW k \in Apics, NEW l \in Apics, NEW i \in Entries(A(k)), NEW j \in Entries(A(l)),
             IsPitOf(k, i), IsPitOf(l, j)
      PROVE  k = l /\ i = j
  <2>1. A(k).base + i = A(l).base + j
    BY <1>5, Zenon DEF IsPitOf
  <2>2. k = l
    <3> SUFFICES ASSUME k # l PROVE FALSE
      BY Zenon
    <3>1. {A(k).base + m : m \in Entries(A(k))} \cap {A(l).base + m : m \in Entries(A(l))} = {}
      <4>1. {platform.apics[k].base + m : m \in Entries(platform.apics[k])}
              \cap {platform.apics[l].base + m : m \in Entries(platform.apics[l])} = {}
        <5>1. k \in DOMAIN platform.apics /\ l \in DOMAIN platform.apics
          BY <1>3, Zenon
        <5> QED
          BY <5>1, IoApicAssumption, Zenon
      <4> QED
        BY <4>1, Zenon DEF A
    <3> QED
      BY <2>1, <3>1, Zenon
  <2>3. A(k).base \in Nat /\ i \in Nat /\ j \in Nat
    BY <1>4, <2>2 DEF Entries
  <2> QED
    BY <2>1, <2>2, <2>3
<1>6. \A k, l \in Apics : \A i \in Entries(A(k)), j \in Entries(A(l)) :
        IsPitOf(k, i) /\ IsPitOf(l, j) => k = l /\ i = j
  BY <1>5, Zenon
<1> QED
  BY <1>3, <1>4, <1>6, Zenon

\* The u8 arithmetic of reg and max_redir_count does not wrap.
LEMMA Registers ==
  ASSUME WalkTypes, walk.apic \in Apics
  PROVE  /\ MaxRedirCount = A(walk.apic).ver + 1
         /\ walk.idx \in Entries(A(walk.apic)) <=> walk.idx < A(walk.apic).ver + 1
         /\ walk.idx \in Entries(A(walk.apic)) => Reg = 16 + 2 * walk.idx /\ Low(Reg) = walk.idx
<1>1. /\ A(walk.apic).ver \in 0..119 /\ walk.idx \in Nat /\ Apic = A(walk.apic)
  BY PlatformFacts, Zenon DEF WalkTypes, Apic, A
<1>0. \A n \in 0..255 : n % 256 = n
  OBVIOUS
<1>2. \A n \in 0..119 : /\ (16 + n * 2) % 256 = 16 + 2 * n
                        /\ ((16 + 2 * n) - 16) \div 2 = n
  <2>1. \A n \in 0..119 : 16 + n * 2 \in 0..255 /\ 16 + n * 2 = 16 + 2 * n
    OBVIOUS
  <2>2. \A n \in 0..119 : ((16 + 2 * n) - 16) \div 2 = n
    OBVIOUS
  <2> QED
    BY <1>0, <2>1, <2>2
<1>3. MaxRedirCount = A(walk.apic).ver + 1
  <2>1. A(walk.apic).ver + 1 \in 0..255
    BY <1>1, SMTT(30)
  <2> QED
    BY <1>0, <1>1, <2>1, SMTT(30) DEF MaxRedirCount
<1>4. walk.idx \in Entries(A(walk.apic)) <=> walk.idx < A(walk.apic).ver + 1
  BY <1>1 DEF Entries
<1>5. ASSUME walk.idx \in Entries(A(walk.apic))
      PROVE  Reg = 16 + 2 * walk.idx /\ Low(Reg) = walk.idx
  <2>1. walk.idx \in 0..119
    BY <1>1, <1>5 DEF Entries
  <2> QED
    BY <1>2, <2>1 DEF Reg, Idx, Low
<1> QED
  BY <1>3, <1>4, <1>5, Zenon

\* One entry changes, the others do not.
LEMMA Update ==
  ASSUME WalkTypes, NEW k \in Apics, NEW i \in Entries(A(k)), NEW e \in Entry,
         DOMAIN redir' = DOMAIN redir,
         \A l \in Apics : DOMAIN redir'[l] = DOMAIN redir[l],
         \A l \in Apics : \A j \in Entries(A(l)) :
           redir'[l][j] = IF l = k /\ j = i THEN e ELSE redir[l][j]
  PROVE  /\ DOMAIN redir' = Apics
         /\ \A l \in Apics : DOMAIN redir'[l] = Entries(A(l))
         /\ \A l \in Apics : \A j \in Entries(A(l)) : redir'[l][j] \in Entry
  BY DEF WalkTypes

AllMasked == \A k \in Apics : \A i \in Entries(A(k)) : redir[k][i].masked

\* What has been walked is a matter of platform, redir, walk and found.
LEMMA Frozen ==
  ASSUME UNCHANGED <<platform, redir, walk, found>>
  PROVE  (Walked' <=> Walked) /\ (AllMasked' <=> AllMasked)
<1>1. Apics' = Apics /\ \A k : A(k)' = A(k)
  BY Zenon DEF Apics, A
<1>2. \A k, i : (IsPitOf(k, i)' <=> IsPitOf(k, i)) /\ (Passed(k, i)' <=> Passed(k, i))
  BY <1>1, Zenon DEF IsPitOf, Passed
<1>3. \A k, i : Right(k, i)' <=> Right(k, i)
  BY <1>2, Zenon DEF Right
<1>4. Walked' <=> Walked
  <2>1. (\A k \in Apics : \A i \in Entries(A(k)) : Passed(k, i) => Right(k, i))'
          <=> \A k \in Apics : \A i \in Entries(A(k)) : Passed(k, i) => Right(k, i)
    BY <1>1, <1>2, <1>3, Zenon
  <2>2. (\E k \in Apics : \E i \in Entries(A(k)) :
            IsPitOf(k, i) /\ Passed(k, i) /\ found = [apic |-> k, reg |-> 16 + 2 * i])'
          <=> \E k \in Apics : \E i \in Entries(A(k)) :
                IsPitOf(k, i) /\ Passed(k, i) /\ found = [apic |-> k, reg |-> 16 + 2 * i]
    BY <1>1, <1>2, Zenon
  <2> QED
    BY <2>1, <2>2, Zenon DEF Walked
<1>5. AllMasked' <=> AllMasked
  BY <1>1, Zenon DEF AllMasked
<1> QED
  BY <1>4, <1>5, Zenon

\* So are the types, but for the state of the routing.
LEMMA FrozenTypes ==
  ASSUME UNCHANGED <<platform, pic, redir, walk, found, routing>>, WalkTypes
  PROVE  WalkTypes'
<1>1. Apics' = Apics /\ \A k : A(k)' = A(k)
  BY Zenon DEF Apics, A
<1>2. \A k, i : IsPitOf(k, i)' <=> IsPitOf(k, i)
  BY <1>1, Zenon DEF IsPitOf
<1> QED
  BY <1>1, <1>2, Zenon DEF WalkTypes

\* A step that leaves redir, found and walk.dest and moves on.
LEMMA StepNextApic == ASSUME WalkTypes, Walked, NextApic PROVE WalkTypes' /\ Walked'
<1>0. /\ UNCHANGED <<platform, pic, redir, found, routing>> /\ walk' = Start(walk.apic + 1)
      /\ walk.apic \in Nat \ {0} /\ walk.idx \in Nat /\ routing = "ioapic"
  BY Zenon DEF NextApic, WalkTypes, InLoop
<1>1. walk.apic \in Apics /\ walk.idx = A(walk.apic).ver + 1 /\ A(walk.apic).ver \in Nat
  <2>1. walk.apic \in Apics
    BY <1>0, PlatformFacts DEF NextApic, InLoop, Apics, WalkTypes
  <2>2. walk.idx <= A(walk.apic).ver + 1 /\ A(walk.apic).ver \in 0..119
    BY <2>1, PlatformFacts, Zenon DEF WalkTypes
  <2>3. walk.idx >= A(walk.apic).ver + 1
    BY <2>1, Registers, Zenon DEF NextApic, Idx
  <2> QED
    BY <1>0, <2>1, <2>2, <2>3
<1>2. walk'.apic = walk.apic + 1 /\ walk'.idx = 0 /\ walk'.dest = FALSE
      /\ walk' \in [apic : Nat \ {0}, idx : Nat, dest : BOOLEAN]
  BY <1>0 DEF Start
<1>3. Apics' = Apics /\ \A k : A(k)' = A(k)
  BY <1>0, Zenon DEF Apics, A
<1>4. WalkTypes'
  <2>1. walk'.apic \in Apics => walk'.idx <= A(walk'.apic).ver + 1
    <3>1. \A k \in Apics : 0 <= A(k).ver + 1
      <4>1. \A k \in Apics : A(k).ver \in 0..119
        BY PlatformFacts, Zenon DEF WalkTypes
      <4>2. \A v \in 0..119 : 0 <= v + 1
        OBVIOUS
      <4> QED
        BY <4>1, <4>2, Zenon
    <3> QED
      BY <1>2, <3>1, Zenon
  <2> QED
    BY <1>0, <1>2, <1>3, <2>1, Zenon DEF WalkTypes, A, Apics, IsPitOf
<1>5. \A k \in Apics : \A i \in Entries(A(k)) : Passed(k, i)' <=> Passed(k, i)
  <2> SUFFICES ASSUME NEW k \in Apics, NEW i \in Entries(A(k)) PROVE Passed(k, i)' <=> Passed(k, i)
    BY Zenon
  <2>1. k \in Nat /\ i \in Nat /\ (k = walk.apic => i < walk.idx)
    BY <1>1, PlatformFacts DEF Entries, Apics, WalkTypes
  <2> QED
    BY <1>0, <1>2, <2>1 DEF Passed
<1>6. Walked'
  <2>1. \A k \in Apics : \A i \in Entries(A(k)) :
          (IsPitOf(k, i)' <=> IsPitOf(k, i)) /\ (Right(k, i)' <=> Right(k, i))
    BY <1>0, <1>3, Zenon DEF Right, IsPitOf
  <2>2. (\A k \in Apics : \A i \in Entries(A(k)) : Passed(k, i) => Right(k, i))'
    BY <1>3, <1>5, <2>1, Zenon DEF Walked
  <2>3. found' # Absent => (\E k \in Apics : \E i \in Entries(A(k)) :
          IsPitOf(k, i) /\ Passed(k, i) /\ found = [apic |-> k, reg |-> 16 + 2 * i])'
    BY <1>0, <1>3, <1>5, <2>1, Zenon DEF Walked
  <2> QED
    BY <1>2, <2>2, <2>3, Zenon DEF Walked
<1> QED
  BY <1>4, <1>6, Zenon

\* Where the walk is while it writes.
LEMMA InTheLoop ==
  ASSUME WalkTypes, InLoop, Idx < MaxRedirCount \/ walk.dest
  PROVE  /\ walk.apic \in Apics /\ walk.idx \in Entries(A(walk.apic)) /\ routing = "ioapic"
         /\ walk.apic \in Nat /\ walk.idx \in Nat
         /\ Low(Reg) = walk.idx /\ Reg = 16 + 2 * walk.idx
         /\ IsPit <=> IsPitOf(walk.apic, walk.idx)
         /\ walk.idx + 1 <= A(walk.apic).ver + 1
         /\ redir[walk.apic][walk.idx] \in Entry
<1>1. walk.apic \in Apics /\ walk.apic \in Nat /\ walk.idx \in Nat /\ routing = "ioapic"
  BY PlatformFacts DEF InLoop, WalkTypes, Apics
<1>2. A(walk.apic).ver \in 0..119 /\ A(walk.apic).base \in Nat
  BY <1>1, PlatformFacts, Zenon DEF WalkTypes
<1>3. walk.idx \in Entries(A(walk.apic))
  BY <1>1, Registers, Zenon DEF Idx, WalkTypes
<1>4. IsPit <=> IsPitOf(walk.apic, walk.idx)
  <2>1. Apic = A(walk.apic) /\ Idx = walk.idx
    BY Zenon DEF Apic, A, Idx
  <2>2. walk.idx + A(walk.apic).base = A(walk.apic).base + walk.idx
    BY <1>1, <1>2
  <2> QED
    BY <2>1, <2>2, Zenon DEF IsPit, IsPitOf
<1>5. walk.idx + 1 <= A(walk.apic).ver + 1
  BY <1>1, <1>2, <1>3 DEF Entries
<1> QED
  BY <1>1, <1>3, <1>4, <1>5, Registers, Zenon DEF WalkTypes

\* The vector of an entry is written; the PIT's is unmasked, and its destination follows.
LEMMA StepWriteVector == ASSUME WalkTypes, Walked, WriteVector PROVE WalkTypes' /\ Walked'
<1> DEFINE k == walk.apic
           i == walk.idx
           e == [redir[k][i] EXCEPT !.vector = TIMER, !.masked = FALSE]
<1>0. /\ k \in Apics /\ i \in Entries(A(k)) /\ Low(Reg) = i /\ IsPitOf(k, i) /\ redir[k][i] \in Entry
      /\ routing = "ioapic" /\ k \in Nat /\ i \in Nat
  BY InTheLoop, Zenon DEF WriteVector
<1>1. /\ redir' = [redir EXCEPT ![k][i].vector = TIMER, ![k][i].masked = FALSE]
      /\ walk' = [walk EXCEPT !.dest = TRUE] /\ UNCHANGED <<platform, pic, found, routing>>
  BY <1>0, Zenon DEF WriteVector
<1>2. e \in Entry /\ e.vector = TIMER /\ ~e.masked
  BY <1>0, Zenon DEF Entry, TIMER
<1>3. /\ DOMAIN redir' = DOMAIN redir
      /\ \A l \in Apics : DOMAIN redir'[l] = DOMAIN redir[l]
      /\ \A l \in Apics : \A j \in Entries(A(l)) :
           redir'[l][j] = IF l = k /\ j = i THEN e ELSE redir[l][j]
  BY <1>0, <1>1, Zenon DEF WalkTypes, Entry
<1>4. /\ walk' \in [apic : Nat \ {0}, idx : Nat, dest : BOOLEAN]
      /\ walk'.apic = k /\ walk'.idx = i /\ walk'.dest
  BY <1>1, Zenon DEF WalkTypes
<1> HIDE DEF e
<1>5. /\ DOMAIN redir' = Apics
      /\ \A l \in Apics : DOMAIN redir'[l] = Entries(A(l))
      /\ \A l \in Apics : \A j \in Entries(A(l)) : redir'[l][j] \in Entry
  BY <1>0, <1>2, <1>3, Update
<1>6. WalkTypes'
  BY <1>0, <1>1, <1>4, <1>5, Zenon DEF WalkTypes, A, Apics, IsPitOf
<1>7. ASSUME NEW l \in Apics, NEW j \in Entries(A(l)), Passed(l, j)' PROVE Right(l, j)'
  <2>1. Passed(l, j) /\ ~(l = k /\ j = i)
    BY <1>0, <1>4, <1>7 DEF Passed
  <2>2. Right(l, j) /\ redir'[l][j] = redir[l][j]
    BY <1>3, <2>1, Zenon DEF Walked
  <2> QED
    BY <1>1, <2>2, Zenon DEF Right, IsPitOf, A
<1>8. Walked'
  <2>1. redir'[k][i] = e
    BY <1>0, <1>3, Zenon
  <2> QED
    BY <1>1, <1>2, <1>4, <1>7, <2>1 DEF Walked, A, Apics, IsPitOf, Passed
<1> QED
  BY <1>6, <1>8, Zenon

\* One more entry is passed.
LEMMA PassedOne ==
  ASSUME WalkTypes, walk.apic \in Apics, walk.idx \in Entries(A(walk.apic)),
         NEW l \in Apics, NEW j \in Entries(A(l)),
         walk'.apic = walk.apic, walk'.idx = walk.idx + 1
  PROVE  Passed(l, j)' <=> Passed(l, j) \/ (l = walk.apic /\ j = walk.idx)
<1>1. walk.apic \in Nat /\ walk.idx \in Nat /\ l \in Nat /\ j \in Nat
  BY PlatformFacts DEF WalkTypes, Apics, Entries
<1> QED
  BY <1>1 DEF Passed

\* The destination of the PIT's entry completes it.
LEMMA StepWriteDestination == ASSUME WalkTypes, Walked, WriteDestination PROVE WalkTypes' /\ Walked'
<1> SUFFICES ASSUME NEW CONSTANT k, NEW CONSTANT i, k = walk.apic, i = walk.idx
             PROVE  WalkTypes' /\ Walked'
  BY Zenon
<1> DEFINE e == [redir[k][i] EXCEPT !.dest = Bsp]
<1>0. /\ k \in Apics /\ i \in Entries(A(k)) /\ Low(Reg) = i /\ Reg = 16 + 2 * i
      /\ redir[k][i] \in Entry /\ routing = "ioapic" /\ k \in Nat /\ i \in Nat
      /\ i + 1 <= A(k).ver + 1
  BY InTheLoop, Zenon DEF WriteDestination
<1>1. /\ redir' = [redir EXCEPT ![k][i].dest = Bsp]
      /\ walk' = [walk EXCEPT !.idx = @ + 1, !.dest = FALSE]
      /\ found' = [apic |-> k, reg |-> 16 + 2 * i]
      /\ UNCHANGED <<platform, pic, routing>>
  BY <1>0, Zenon DEF WriteDestination, Advance
<1>p. IsPitOf(k, i) /\ redir[k][i].vector = TIMER /\ ~redir[k][i].masked
  BY Zenon DEF WriteDestination, WalkTypes, Walked
<1>2. e \in Entry /\ e.vector = TIMER /\ ~e.masked /\ e.dest = Bsp
  BY <1>0, <1>p, Zenon DEF Entry
<1>3. /\ DOMAIN redir' = DOMAIN redir
      /\ \A l \in Apics : DOMAIN redir'[l] = DOMAIN redir[l]
      /\ \A l \in Apics : \A j \in Entries(A(l)) :
           redir'[l][j] = IF l = k /\ j = i THEN e ELSE redir[l][j]
  BY <1>0, <1>1 DEF WalkTypes, Entry
<1>4. /\ walk' \in [apic : Nat \ {0}, idx : Nat, dest : BOOLEAN]
      /\ walk'.apic = k /\ walk'.idx = i + 1 /\ ~walk'.dest
  <2>1. walk \in [apic : Nat \ {0}, idx : Nat, dest : BOOLEAN] /\ i + 1 \in Nat
    BY <1>0 DEF WalkTypes
  <2>2. walk' = [walk EXCEPT !.idx = i + 1, !.dest = FALSE]
    BY <1>1, Zenon
  <2> QED
    BY <2>1, <2>2, Zenon
<1> HIDE DEF e
<1>5. /\ DOMAIN redir' = Apics
      /\ \A l \in Apics : DOMAIN redir'[l] = Entries(A(l))
      /\ \A l \in Apics : \A j \in Entries(A(l)) : redir'[l][j] \in Entry
  BY <1>0, <1>2, <1>3, Update
<1>6. WalkTypes'
  BY <1>0, <1>1, <1>4, <1>5, Zenon DEF WalkTypes, A, Apics, IsPitOf
<1>7. ASSUME NEW l \in Apics, NEW j \in Entries(A(l)), Passed(l, j)' PROVE Right(l, j)'
  <2>1. CASE l = k /\ j = i
    <3>1. redir'[l][j] = e
      BY <1>3, <2>1, Zenon
    <3> QED
      BY <1>1, <1>2, <1>p, <2>1, <3>1, Zenon DEF Right, IsPitOf, A
  <2>2. CASE ~(l = k /\ j = i)
    <3>1. Passed(l, j)
      BY <1>0, <1>4, <1>7, <2>2, PassedOne, Zenon
    <3>2. Right(l, j) /\ redir'[l][j] = redir[l][j]
      BY <1>3, <2>2, <3>1, Zenon DEF Walked
    <3> QED
      BY <1>1, <3>2, Zenon DEF Right, IsPitOf, A
  <2> QED
    BY <2>1, <2>2, Zenon
<1>8. Passed(k, i)' /\ IsPitOf(k, i)' /\ k \in Apics' /\ i \in Entries(A(k))'
  BY <1>0, <1>1, <1>4, <1>p DEF Passed, IsPitOf, A, Apics, Entries
<1>9. Walked'
  <2>1. \A l \in Apics' : \A j \in Entries(A(l))' : Passed(l, j)' => Right(l, j)'
    BY <1>1, <1>7, Zenon DEF A, Apics, Entries
  <2> QED
    BY <1>1, <1>4, <1>8, <2>1, Zenon DEF Walked
<1> QED
  BY <1>6, <1>9, Zenon

\* An entry of another interrupt is masked.
LEMMA StepMaskOther == ASSUME WalkTypes, Walked, MaskOther PROVE WalkTypes' /\ Walked'
<1> SUFFICES ASSUME NEW CONSTANT k, NEW CONSTANT i, k = walk.apic, i = walk.idx
             PROVE  WalkTypes' /\ Walked'
  BY Zenon
<1> DEFINE e == [redir[k][i] EXCEPT !.masked = TRUE]
<1>0. /\ k \in Apics /\ i \in Entries(A(k)) /\ Low(Reg) = i /\ ~IsPitOf(k, i)
      /\ redir[k][i] \in Entry /\ routing = "ioapic" /\ k \in Nat /\ i \in Nat
      /\ i + 1 <= A(k).ver + 1
  BY InTheLoop, Zenon DEF MaskOther
<1>1. /\ redir' = [redir EXCEPT ![k][i].masked = TRUE]
      /\ walk' = [walk EXCEPT !.idx = @ + 1, !.dest = FALSE]
      /\ UNCHANGED <<platform, pic, found, routing>>
  BY <1>0, Zenon DEF MaskOther, Advance
<1>2. e \in Entry /\ e.masked
  BY <1>0, Zenon DEF Entry
<1>3. /\ DOMAIN redir' = DOMAIN redir
      /\ \A l \in Apics : DOMAIN redir'[l] = DOMAIN redir[l]
      /\ \A l \in Apics : \A j \in Entries(A(l)) :
           redir'[l][j] = IF l = k /\ j = i THEN e ELSE redir[l][j]
  BY <1>0, <1>1 DEF WalkTypes, Entry
<1>4. /\ walk' \in [apic : Nat \ {0}, idx : Nat, dest : BOOLEAN]
      /\ walk'.apic = k /\ walk'.idx = i + 1 /\ ~walk'.dest
  <2>1. walk \in [apic : Nat \ {0}, idx : Nat, dest : BOOLEAN] /\ i + 1 \in Nat
    BY <1>0 DEF WalkTypes
  <2>2. walk' = [walk EXCEPT !.idx = i + 1, !.dest = FALSE]
    BY <1>1, Zenon
  <2> QED
    BY <2>1, <2>2, Zenon
<1> HIDE DEF e
<1>5. /\ DOMAIN redir' = Apics
      /\ \A l \in Apics : DOMAIN redir'[l] = Entries(A(l))
      /\ \A l \in Apics : \A j \in Entries(A(l)) : redir'[l][j] \in Entry
  BY <1>0, <1>2, <1>3, Update
<1>6. WalkTypes'
  BY <1>0, <1>1, <1>4, <1>5, Zenon DEF WalkTypes, A, Apics, IsPitOf
<1>7. ASSUME NEW l \in Apics, NEW j \in Entries(A(l)), Passed(l, j)' PROVE Right(l, j)'
  <2>1. CASE l = k /\ j = i
    <3>1. redir'[l][j] = e
      BY <1>3, <2>1, Zenon
    <3> QED
      BY <1>0, <1>1, <1>2, <2>1, <3>1, Zenon DEF Right, IsPitOf, A
  <2>2. CASE ~(l = k /\ j = i)
    <3>1. Passed(l, j)
      BY <1>0, <1>4, <1>7, <2>2, PassedOne, Zenon
    <3>2. Right(l, j) /\ redir'[l][j] = redir[l][j]
      BY <1>3, <2>2, <3>1, Zenon DEF Walked
    <3> QED
      BY <1>1, <3>2, Zenon DEF Right, IsPitOf, A
  <2> QED
    BY <2>1, <2>2, Zenon
<1>8. \A l \in Apics : \A j \in Entries(A(l)) : Passed(l, j) => Passed(l, j)'
  BY <1>0, <1>4, PassedOne, Zenon
<1>9. Walked'
  <2>1. \A l \in Apics' : \A j \in Entries(A(l))' : Passed(l, j)' => Right(l, j)'
    BY <1>1, <1>7, Zenon DEF A, Apics, Entries
  <2>2. found' # Absent => \E l \in Apics' : \E j \in Entries(A(l))' :
          IsPitOf(l, j)' /\ Passed(l, j)' /\ found' = [apic |-> l, reg |-> 16 + 2 * j]
    BY <1>1, <1>8, Zenon DEF Walked, A, Apics, Entries, IsPitOf
  <2> QED
    BY <1>4, <2>1, <2>2, Zenon DEF Walked
<1> QED
  BY <1>6, <1>9, Zenon

\* The routing: every step of it keeps what has been walked.
LEMMA StepIoApic == ASSUME WalkTypes, Walked, IoApicNext PROVE WalkTypes' /\ Walked'
<1>1. ASSUME InitAndDisableOldPic \/ InitLapic \/ FoundReg PROVE WalkTypes' /\ Walked'
  <2>1. UNCHANGED <<platform, redir, walk, found>>
    BY <1>1, Zenon DEF InitAndDisableOldPic, InitLapic, FoundReg
  <2>2. Walked'
    BY <2>1, Frozen, Zenon
  <2>3. /\ routing' \in {"lapic", "ioapic", "done", "panic"} /\ pic' = "masked"
        /\ routing' = "done" => walk.apic \notin Apics /\ found # Absent
    BY <1>1 DEF InitAndDisableOldPic, InitLapic, FoundReg, InLoop, WalkTypes, Apics
  <2>4. WalkTypes'
    BY <2>1, <2>3, Zenon DEF WalkTypes, Apics, A, IsPitOf
  <2> QED
    BY <2>2, <2>4, Zenon
<1> QED
  BY <1>1, StepNextApic, StepWriteVector, StepWriteDestination, StepMaskOther, Zenon DEF IoApicNext

Setup == {"pit", "lvt", "sti", "mask"}
Calibrating == {"saved", "first", "start", "second", "stop", "measure", "cli"}
Up == {"up", "udelay", "mdelay", "mwait", "hlt", "halted", "back", "idle"}

\* Which timer ticks, by where the boot code is.
Phase ==
  \/ at = "off" /\ ~enabled /\ route = "masked"
  \/ at \in Setup /\ ~enabled /\ route = "on" /\ lvt \in {"masked", "scratch"}
  \/ at \in Calibrating /\ enabled /\ route = "on" /\ lvt \in {"masked", "scratch"}
  \/ at = "periodic" /\ ~enabled /\ route = "masked" /\ lvt \in {"masked", "scratch"}
  \/ at \in {"initcnt", "done"} /\ ~enabled /\ route = "masked" /\ lvt = "periodic"
  \/ at \in Up /\ enabled /\ route = "masked" /\ lvt = "periodic"

\* init_lapic masks the local APIC timer before the I/O APICs are walked.
TInv ==
  /\ WalkTypes /\ Phase
  /\ at # "off" => routing = "done"
  /\ at = "off" /\ routing \in {"ioapic", "done"} => lvt = "masked"
  /\ IF at = "off" \/ route = "on" THEN Walked ELSE AllMasked

\* The timer's steps stay in their phases; only mask_pit changes the routing.
LEMMA StepPhase ==
  ASSUME Phase, at # "off", TimerNext
  PROVE  Phase' /\ at' # "off" /\ (route' # route => route = "on" /\ route' = "masked")
<1> DEFINE Goal == Phase' /\ at' # "off" /\ (route' # route => route = "on" /\ route' = "masked")
<1> USE DEF Phase, Setup, Calibrating, Up, Main, Step, Same, regs, locals
<1>1. CASE Tick \/ Interrupt \/ HandlerStep \/ HandlerReturn
  BY <1>1 DEF Tick, Interrupt, HandlerStep, HandlerReturn
<1>2. CASE ConfigurePit \/ PrepareTimer \/ Enable \/ CallStep
  BY <1>2 DEF ConfigurePit, PrepareTimer, Enable, CallStep
<1>3. CASE Saved \/ FirstIrq \/ SecondIrq
  BY <1>3, Zenon DEF Saved, FirstIrq, SecondIrq, GetIrqCnt
<1>4. CASE StartTimer \/ StopTimer \/ Measure \/ Disable
  BY <1>4, Zenon DEF StartTimer, StopTimer, Measure, Disable
<1>5. CASE MaskPit \/ SetPeriodic \/ SetInitCnt
  BY <1>5 DEF MaskPit, SetPeriodic, SetInitCnt
<1>6. CASE EnableAtLast \/ OtherWork
  BY <1>6, Zenon DEF EnableAtLast, OtherWork
<1>7. CASE UdelaySpin \/ Hlt \/ Return \/ \E us \in Micros : Udelay(us)
  BY <1>7 DEF UdelaySpin, Hlt, Return, Udelay
<1>8. CASE \E ms \in Millis : Mdelay(ms)
  BY <1>8 DEF Mdelay
<1>9. CASE MdelayStart \/ MdelayWait
  BY <1>9, Zenon DEF MdelayStart, MdelayWait, GetIrqCnt
<1> QED
  BY <1>1, <1>2, <1>3, <1>4, <1>5, <1>6, <1>7, <1>8, <1>9, Zenon DEF TimerNext, Processor, Calibrate, Delay

\* Nothing is routed by the boot yet.
LEMMA InitTInv == BootInit => TInv
<1> SUFFICES ASSUME BootInit PROVE TInv
  BY Zenon
<1>1. /\ platform \in Platforms /\ walk = Start(1) /\ found = Absent /\ routing = "pic"
  BY Zenon DEF BootInit, IoApicInit
<1>r. PICK open : redir = [k \in DOMAIN platform.apics |->
                             [i \in Entries(platform.apics[k]) |->
                                [vector |-> i, masked |-> <<k, i>> \notin open, dest |-> Absent]]]
  BY Zenon DEF BootInit, IoApicInit
<1>2. /\ Len(platform.apics) \in Nat /\ DOMAIN platform.apics = Apics
      /\ \A k \in Apics : A(k).ver \in 0..119
  BY <1>1, PlatformFacts, Zenon
<1>3. walk.apic = 1 /\ walk.idx = 0 /\ walk.dest = FALSE
      /\ walk \in [apic : Nat \ {0}, idx : Nat, dest : BOOLEAN]
  BY <1>1 DEF Start
<1>4. /\ DOMAIN redir = Apics /\ \A k \in Apics : DOMAIN redir[k] = Entries(A(k))
      /\ \A k \in Apics : \A i \in Entries(A(k)) : redir[k][i] \in Entry
  <2>1. DOMAIN redir = Apics
    BY <1>r, <1>2, Zenon
  <2> SUFFICES ASSUME NEW k \in Apics
               PROVE  /\ DOMAIN redir[k] = Entries(A(k))
                      /\ \A i \in Entries(A(k)) : redir[k][i] \in Entry
    BY <2>1, Zenon
  <2>2. redir[k] = [i \in Entries(A(k)) |->
                      [vector |-> i, masked |-> <<k, i>> \notin open, dest |-> Absent]]
    BY <1>r, <1>2, Zenon DEF A
  <2>3. \A i \in Entries(A(k)) : i \in Nat
    BY <1>2 DEF Entries
  <2> QED
    BY <1>2, <2>2, <2>3 DEF Entry
<1>5. walk.apic \in Apics => walk.idx <= A(walk.apic).ver + 1
  <2>1. \A n \in 0..119 : 0 <= n + 1
    OBVIOUS
  <2> QED
    BY <1>2, <1>3, <2>1, Zenon
<1>6. WalkTypes
  BY <1>1, <1>3, <1>4, <1>5, Zenon DEF WalkTypes
<1>7. \A k \in Apics : \A i \in Entries(A(k)) : ~Passed(k, i)
  <2>1. \A k \in Apics : k \in Nat /\ ~(k < 1) /\ \A i \in Entries(A(k)) : i \in Nat /\ ~(i < 0)
    BY <1>2 DEF Entries, Apics
  <2> QED
    BY <1>3, <2>1, Zenon DEF Passed
<1>8. Walked
  BY <1>1, <1>3, <1>7, Zenon DEF Walked
<1>9. Phase /\ at = "off"
  BY Zenon DEF BootInit, TimerInit, Phase
<1> QED
  BY <1>1, <1>6, <1>8, <1>9, Zenon DEF TInv

\* The walk is over: every entry was passed.
LEMMA AllPassed ==
  ASSUME WalkTypes, routing = "done", NEW k \in Apics, NEW i \in Entries(A(k))
  PROVE  Passed(k, i)
<1>1. walk.apic \in Nat \ {0} /\ walk.apic \notin Apics /\ k \in 1..Len(platform.apics)
      /\ Len(platform.apics) \in Nat
  BY PlatformFacts, Zenon DEF WalkTypes, Apics
<1> QED
  BY <1>1 DEF Passed, Apics

\* Masking the entry that was found leaves no other.
LEMMA StepMask ==
  ASSUME WalkTypes, Walked, routing = "done", Mask, UNCHANGED <<platform, pic, walk, found, routing>>
  PROVE  WalkTypes' /\ AllMasked'
<1>1. PICK k \in Apics : \E i \in Entries(A(k)) :
        IsPitOf(k, i) /\ Passed(k, i) /\ found = [apic |-> k, reg |-> 16 + 2 * i]
  BY Zenon DEF WalkTypes, Walked
<1>2. PICK i \in Entries(A(k)) : IsPitOf(k, i) /\ found = [apic |-> k, reg |-> 16 + 2 * i]
  BY <1>1, Zenon
<1>3. found.apic = k /\ Low(found.reg) = i
  <2>1. A(k).ver \in 0..119
    BY PlatformFacts, Zenon DEF WalkTypes
  <2>2. i \in Nat /\ found.reg = 16 + 2 * i
    BY <1>2, <2>1 DEF Entries
  <2>3. \A n \in Nat : ((16 + 2 * n) - 16) \div 2 = n
    OBVIOUS
  <2> QED
    BY <1>2, <2>2, <2>3, Zenon DEF Low
<1>4. redir' = [redir EXCEPT ![k][i].masked = TRUE] /\ redir[k][i] \in Entry
  BY <1>3, Zenon DEF Mask, WalkTypes
<1> DEFINE e == [redir[k][i] EXCEPT !.masked = TRUE]
<1>5. e \in Entry /\ e.masked
  BY <1>4, Zenon DEF Entry
<1>6. /\ DOMAIN redir' = DOMAIN redir
      /\ \A l \in Apics : DOMAIN redir'[l] = DOMAIN redir[l]
      /\ \A l \in Apics : \A j \in Entries(A(l)) :
           redir'[l][j] = IF l = k /\ j = i THEN e ELSE redir[l][j]
  BY <1>4, Zenon DEF WalkTypes, Entry
<1> HIDE DEF e
<1>7. /\ DOMAIN redir' = Apics
      /\ \A l \in Apics : DOMAIN redir'[l] = Entries(A(l))
      /\ \A l \in Apics : \A j \in Entries(A(l)) : redir'[l][j] \in Entry
  BY <1>5, <1>6, Update, Zenon
<1>8. WalkTypes'
  BY <1>7, Zenon DEF WalkTypes, A, Apics, IsPitOf
<1>9. ASSUME NEW l \in Apics, NEW j \in Entries(A(l)) PROVE redir'[l][j].masked
  <2>1. CASE l = k /\ j = i
    BY <1>5, <1>6, <2>1, Zenon
  <2>2. CASE ~(l = k /\ j = i)
    <3>1. ~IsPitOf(l, j)
      BY <1>2, <2>2, PlatformFacts, Zenon DEF WalkTypes
    <3>2. Right(l, j)
      BY AllPassed, Zenon DEF Walked
    <3> QED
      BY <1>6, <2>2, <3>1, <3>2, Zenon DEF Right
  <2> QED
    BY <2>1, <2>2, Zenon
<1>10. AllMasked'
  BY <1>9, Zenon DEF AllMasked, A, Apics, Entries
<1> QED
  BY <1>8, <1>10, Zenon

\* Every step of the boot keeps the invariant.
LEMMA StepTInv == TInv /\ [BootNext]_bootVars => TInv'
<1> SUFFICES ASSUME TInv, [BootNext]_bootVars PROVE TInv'
  BY Zenon
<1>1. ASSUME UNCHANGED <<ioApicVars, timerVars>> PROVE TInv'
  <2>1. UNCHANGED <<platform, pic, redir, walk, found, routing, at, enabled, route, lvt>>
    BY <1>1, Zenon DEF ioApicVars, timerVars, regs
  <2> QED
    <3>1. (WalkTypes => WalkTypes') /\ (Walked' <=> Walked) /\ (AllMasked' <=> AllMasked)
      BY <2>1, Frozen, FrozenTypes, Zenon
    <3>2. Phase' <=> Phase
      BY <2>1, Zenon DEF Phase
    <3> QED
      BY <2>1, <3>1, <3>2, Zenon DEF TInv
<1>2. CASE InitInterrupts
  <2>1. /\ UNCHANGED <<at, enabled, route>> /\ IoApicNext
        /\ lvt' = IF routing = "lapic" /\ platform.model = "apic" THEN "masked" ELSE lvt
    BY <1>2, Zenon DEF InitInterrupts
  <2>2. at = "off"
    BY <2>1, Zenon DEF TInv, IoApicNext, InitAndDisableOldPic, InitLapic, NextApic, WriteVector,
                WriteDestination, MaskOther, FoundReg, InLoop
  <2>3. WalkTypes' /\ Walked'
    BY <2>1, <2>2, StepIoApic, Zenon DEF TInv
  <2>4. ASSUME routing' \in {"ioapic", "done"} PROVE lvt' = "masked"
    <3>1. \/ routing = "lapic" /\ platform.model = "apic"
          \/ routing = "ioapic"
      BY <2>1, <2>4, Zenon DEF IoApicNext, InitAndDisableOldPic, InitLapic, NextApic, WriteVector,
                  WriteDestination, MaskOther, FoundReg, InLoop
    <3> QED
      BY <2>1, <2>2, <3>1, Zenon DEF TInv
  <2>5. Phase' /\ at' = "off"
    <3>1. ~enabled /\ route = "masked"
      BY <2>2, Zenon DEF TInv, Phase, Setup, Calibrating, Up
    <3> QED
      BY <2>1, <2>2, <3>1, Zenon DEF Phase
  <2> QED
    BY <2>3, <2>4, <2>5, Zenon DEF TInv
<1>3. CASE InitTime
  <2>1. /\ UNCHANGED <<platform, pic, redir, walk, found, routing, enabled, lvt>>
        /\ routing = "done" /\ at = "off" /\ at' = "pit" /\ route' = "on"
    BY <1>3, Zenon DEF InitTime, ioApicVars
  <2>2. WalkTypes' /\ Walked'
    BY <2>1, Frozen, FrozenTypes, Zenon DEF TInv
  <2> QED
    <3>1. ~enabled /\ lvt = "masked"
      BY <2>1, Zenon DEF TInv, Phase, Setup, Calibrating, Up
    <3>2. Phase'
      BY <2>1, <3>1, Zenon DEF Phase, Setup
    <3> QED
      BY <2>1, <2>2, <3>2, Zenon DEF TInv
<1>4. CASE Time
  <2>1. /\ at # "off" /\ TimerNext /\ UNCHANGED <<platform, pic, walk, found, routing>>
        /\ IF route' # route THEN Mask ELSE UNCHANGED redir
    BY <1>4, Zenon DEF Time
  <2>2. Phase' /\ at' # "off" /\ (route' # route => route = "on" /\ route' = "masked")
    BY <2>1, StepPhase, Zenon DEF TInv
  <2>3. CASE route' # route
    <3>1. WalkTypes /\ Walked /\ routing = "done" /\ Mask
      BY <2>1, <2>2, <2>3, Zenon DEF TInv
    <3>2. WalkTypes' /\ AllMasked'
      BY <2>1, <3>1, StepMask, Zenon
    <3> QED
      BY <2>1, <2>2, <2>3, <3>1, <3>2, Zenon DEF TInv
  <2>4. CASE route' = route
    <3>1. redir' = redir
      BY <2>1, <2>4, Zenon
    <3>2. WalkTypes' /\ (Walked => Walked') /\ (AllMasked => AllMasked')
      BY <2>1, <3>1, Frozen, FrozenTypes, Zenon DEF TInv
    <3> QED
      BY <2>1, <2>2, <2>4, <3>2, Zenon DEF TInv
  <2> QED
    BY <2>3, <2>4, Zenon
<1> QED
  BY <1>1, <1>2, <1>3, <1>4, Zenon DEF BootNext, InitMemory, bootVars

\* On every platform exactly one source of Timer interrupts is on while
\* interrupts are enabled: the PIT's own entry, to the boot processor, and then
\* the local APIC timer (apic.rs:127-133, 154-162, 188-233, time.rs:95-105).
THEOREM OneTickSource == BootSpec => []TickSource
<1>1. TInv => TickSource
  <2> SUFFICES ASSUME TInv, enabled PROVE TickSource
    BY Zenon DEF TickSource
  <2>0. /\ WalkTypes /\ Phase /\ at # "off" /\ routing = "done" /\ pic = "masked"
    BY Zenon DEF TInv, Phase, WalkTypes, Calibrating, Up
  <2>1. \A x : x \in Routed <=> \E k \in Apics : \E i \in Entries(A(k)) : x = <<k, i>> /\ ~redir[k][i].masked
    BY <2>0 DEF Routed, WalkTypes
  <2>2. CASE route = "on"
    <3>1. Walked /\ lvt # "periodic"
      BY <2>0, <2>2, Zenon DEF TInv, Phase
    <3>2. PICK k \in Apics : \E i \in Entries(A(k)) : IsPitOf(k, i)
      BY <2>0, <3>1, Zenon DEF WalkTypes, Walked
    <3>3. PICK i \in Entries(A(k)) : IsPitOf(k, i)
      BY <3>2, Zenon
    <3>4. redir[k][i].vector = TIMER /\ ~redir[k][i].masked /\ redir[k][i].dest = Bsp
      BY <2>0, <3>1, <3>3, AllPassed, Zenon DEF Walked, Right
    <3>5. ASSUME NEW l \in Apics, NEW j \in Entries(A(l)), ~redir[l][j].masked PROVE l = k /\ j = i
      <4>1. Right(l, j)
        BY <2>0, <3>1, AllPassed, Zenon DEF Walked
      <4>2. IsPitOf(l, j)
        BY <3>5, <4>1, Zenon DEF Right
      <4> QED
        BY <2>0, <3>3, <4>2, PlatformFacts, Zenon DEF WalkTypes
    <3>6. Sources = {<<k, i>>}
      BY <2>1, <3>1, <3>4, <3>5, Zenon DEF Sources
    <3>7. k \in DOMAIN redir /\ i \in DOMAIN redir[k]
      BY <2>0, Zenon DEF WalkTypes
    <3> QED
      BY <2>2, <3>3, <3>4, <3>6, <3>7, Zenon DEF TickSource, IsPitOf, A
  <2>3. CASE route # "on"
    <3>1. AllMasked /\ route = "masked" /\ lvt = "periodic"
      BY <2>0, <2>3, Zenon DEF TInv, Phase
    <3>2. Sources = {LAPIC}
      BY <2>1, <3>1, Zenon DEF Sources, AllMasked
    <3> QED
      BY <3>1, <3>2, Zenon DEF TickSource
  <2> QED
    BY <2>2, <2>3, Zenon
<1> QED
  BY <1>1, InitTInv, StepTInv, PTL DEF BootSpec
=============================================================================
