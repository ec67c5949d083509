------------------------------- MODULE Output -------------------------------
(***************************************************************************)
(* Printing: sprintln (nacl/src/serial.rs) and println (font/mod.rs) take  *)
(* a mutex with lock_or_spin and hold it while core::fmt runs formatting   *)
(* code.  A panic or an exception there, or anywhere else, is reported on  *)
(* the serial port by a handler that runs on top of what it struck         *)
(* (main.rs:140-151, arch/x86_64/interrupts.rs:32-54), so a CPU has a      *)
(* stack of prints in progress.  CPUs run in parallel.                     *)
(***************************************************************************)
EXTENDS Console, FiniteSets

CONSTANTS Cpus, Boot,   \* Boot is the CPU that runs main.rs's init
          Messages,     \* what println and sprintln are given, for each device
          Report,       \* what a handler prints with one sprintln
          MaxPrints,    \* bound: prints begun by ordinary code
          MaxJobs,      \* bound: those, and panics and exceptions
          Nil

Devices == {"serial", "screen"}

ASSUME OutputAssumption ==
  /\ Boot \in Cpus /\ MaxPrints \in Nat /\ MaxJobs \in Nat
  /\ Report \in Seq(Nat) /\ \A d \in Devices : Messages[d] \subseteq Seq(Nat)
  /\ Nil \notin Cpus \X Nat /\ Nil \notin Nat \X Nat

VARIABLES
  stack,   \* the prints in progress on each CPU, the running one last
  holder,  \* who holds SERIAL1 and FBMAN: <<CPU, depth>>, or Nil
  INIT,    \* serial.rs INIT
  ready,   \* the port is initialized
  fbman,   \* FBMAN is Some
  out,     \* history: the print each device had its last character from, and
           \* those it had characters from before
  text,    \* history: the characters put on the screen
  prints, faults

outputVars == <<stack, holder, INIT, ready, fbman, out, text, prints, faults>>

allVars == <<consoleVars, outputVars>>

Depth(c) == Len(stack[c])

Top(c) == stack[c][Depth(c)]

SetTop(c, f) == stack' = [stack EXCEPT ![c][Depth(c)] = f]

Goto(c, l) == SetTop(c, [Top(c) EXCEPT !.pc = l])

Running(c, l) == stack[c] # <<>> /\ Top(c).pc = l

\* A print by `by`, which is ordinary code or a handler; lines counts the
\* sprintlns the handler has still to do.
Printing(by, dev, msg, lines) ==
  [by |-> by, dev |-> dev, rest |-> msg, lines |-> lines, id |-> prints + faults,
   pc |-> IF dev = "serial" THEN "swap" ELSE "lock"]

\* A character of print id, after those of o.
Sent(o, id) == [now |-> id, before |-> IF id = o.now THEN o.before ELSE o.before \cup {o.now}]

\* Lines of report: breakpoint_handler and panic_handler print one, and
\* page_fault_handler four.
Lines(by) == IF by = "page_fault" THEN 4 ELSE 1
-----------------------------------------------------------------------------
(* Who prints *)

Begin(c, dev, msg) ==
  /\ stack[c] = <<>>
  /\ prints < MaxPrints /\ prints + faults < MaxJobs
  /\ prints' = prints + 1
  /\ stack' = [stack EXCEPT ![c] = <<Printing("code", dev, msg, 1)>>]
  /\ UNCHANGED <<consoleVars, holder, INIT, ready, fbman, out, text, faults>>

\* insert_fbman
Insert ==
  /\ stack[Boot] = <<>> /\ ~fbman
  /\ stack' = [stack EXCEPT ![Boot] = <<Printing("insert", "screen", <<>>, 1)>>]
  /\ UNCHANGED <<consoleVars, holder, INIT, ready, fbman, out, text, prints, faults>>

\* The handler of a panic or an exception starts on top of what it struck.
Strike(c, by) ==
  /\ prints + faults < MaxJobs
  /\ faults' = faults + 1
  /\ stack' = [stack EXCEPT ![c] = Append(@, Printing(by, "serial", Report, Lines(by)))]
  /\ UNCHANGED <<consoleVars, holder, INIT, ready, fbman, out, text, prints>>

\* In ordinary code, or in formatting code that write_fmt runs; a formatter
\* that returns an error is a panic too, while the guard is still held.
Fault(c, by) == (stack[c] = <<>> \/ Running(c, "write")) /\ Strike(c, by)
-----------------------------------------------------------------------------
(* serial1, lock_or_spin *)

\* INIT.swap(true): who finds it false is to initialize the port.
Swap(c) ==
  /\ Running(c, "swap")
  /\ INIT' = TRUE
  /\ Goto(c, IF INIT THEN "lock" ELSE "lock_init")
  /\ UNCHANGED <<consoleVars, holder, ready, fbman, out, text, prints, faults>>

Lock(c) ==
  /\ Running(c, "lock") \/ Running(c, "lock_init")
  /\ holder[Top(c).dev] = Nil
  /\ holder' = [holder EXCEPT ![Top(c).dev] = <<c, Depth(c)>>]
  /\ Goto(c, IF Top(c).pc = "lock_init" THEN "init"
             ELSE IF Top(c).dev = "serial" THEN "write" ELSE "some")
  /\ UNCHANGED <<consoleVars, INIT, ready, fbman, out, text, prints, faults>>

\* Mutant: the port is left as the firmware set it.
InitPortSkipped(c) ==
  /\ Running(c, "init")
  /\ Goto(c, "write")
  /\ UNCHANGED <<consoleVars, holder, INIT, ready, fbman, out, text, prints, faults>>

InitPort(c) ==
  /\ Running(c, "init")
  /\ ready' = TRUE
  /\ Goto(c, "write")
  /\ UNCHANGED <<consoleVars, holder, INIT, fbman, out, text, prints, faults>>

\* FBMAN's content: set, or expected to be there.
Some(c) ==
  /\ Running(c, "some")
  /\ \/ /\ Top(c).by = "insert"
        /\ fbman' = TRUE
        /\ Goto(c, "write")
        /\ UNCHANGED <<consoleVars, holder, INIT, ready, out, text, prints, faults>>
     \/ /\ Top(c).by # "insert" /\ fbman
        /\ Goto(c, "write")
        /\ UNCHANGED <<consoleVars, holder, INIT, ready, fbman, out, text, prints, faults>>
     \/ Top(c).by # "insert" /\ ~fbman /\ Strike(c, "panic")
-----------------------------------------------------------------------------
(* write_fmt, the guard's drop, and what a handler does then *)

\* Mutant: every piece of the output takes the lock anew.
WritePiecewise(c) ==
  /\ Running(c, "write") /\ Top(c).rest # <<>>
  /\ LET f == Top(c)
         more == Len(f.rest) > 1 IN
       /\ SetTop(c, [f EXCEPT !.rest = Tail(@), !.pc = IF more THEN "lock" ELSE @])
       /\ holder' = IF more THEN [holder EXCEPT ![f.dev] = Nil] ELSE holder
       /\ out' = [out EXCEPT ![f.dev] = Sent(@, <<f.id, f.lines>>)]
       /\ \/ f.dev = "serial" /\ UNCHANGED <<consoleVars, text>>
          \/ f.dev = "screen" /\ Put(Head(f.rest)) /\ text' = Append(text, Head(f.rest))
  /\ UNCHANGED <<INIT, ready, fbman, prints, faults>>

Write(c) ==
  /\ Running(c, "write") /\ Top(c).rest # <<>>
  /\ LET f == Top(c) IN
       /\ SetTop(c, [f EXCEPT !.rest = Tail(@)])
       /\ out' = [out EXCEPT ![f.dev] = Sent(@, <<f.id, f.lines>>)]
       /\ \/ f.dev = "serial" /\ UNCHANGED <<consoleVars, text>>
          \/ f.dev = "screen" /\ Put(Head(f.rest)) /\ text' = Append(text, Head(f.rest))
  /\ UNCHANGED <<holder, INIT, ready, fbman, prints, faults>>

\* Mutant: page_fault_handler waits inside its last print.
UnlockHeld(c) ==
  /\ Running(c, "write") /\ Top(c).rest = <<>>
  /\ LET f == Top(c) IN
       \/ /\ f.lines = 1 /\ f.by \in {"code", "insert", "breakpoint"}
          /\ holder' = [holder EXCEPT ![f.dev] = Nil]
          /\ stack' = [stack EXCEPT ![c] = Front(@)]
       \/ /\ f.lines = 1 /\ f.by \in {"panic", "page_fault"}
          /\ Goto(c, "hlt")
          /\ UNCHANGED holder
       \/ /\ f.lines > 1
          /\ holder' = [holder EXCEPT ![f.dev] = Nil]
          /\ SetTop(c, [f EXCEPT !.lines = @ - 1, !.rest = Report, !.pc = "swap"])
  /\ UNCHANGED <<consoleVars, INIT, ready, fbman, out, text, prints, faults>>

\* The print is complete: ordinary code and breakpoint_handler go on, a page
\* fault has more to say, and in the end it halts as a panic does.
Unlock(c) ==
  /\ Running(c, "write") /\ Top(c).rest = <<>>
  /\ holder' = [holder EXCEPT ![Top(c).dev] = Nil]
  /\ LET f == Top(c) IN
       \/ /\ f.lines = 1 /\ f.by \in {"code", "insert", "breakpoint"}
          /\ stack' = [stack EXCEPT ![c] = Front(@)]
       \/ /\ f.lines = 1 /\ f.by \in {"panic", "page_fault"}
          /\ Goto(c, "hlt")
       \/ /\ f.lines > 1
          /\ SetTop(c, [f EXCEPT !.lines = @ - 1, !.rest = Report, !.pc = "swap"])
  /\ UNCHANGED <<consoleVars, INIT, ready, fbman, out, text, prints, faults>>
-----------------------------------------------------------------------------
Init ==
  /\ ConsoleInit
  /\ stack = [c \in Cpus |-> <<>>]
  /\ holder = [d \in Devices |-> Nil]
  /\ INIT = FALSE /\ ready = FALSE /\ fbman = FALSE
  /\ out = [d \in Devices |-> [now |-> Nil, before |-> {}]]
  /\ text = <<>>
  /\ prints = 0 /\ faults = 0

\* The steps of a print in progress.
Step(c) ==
  Swap(c) \/ Lock(c) \/ InitPort(c) \/ Some(c) \/ Write(c) \/ Unlock(c)

Next ==
  \/ Insert
  \/ \E c \in Cpus :
       \/ \E d \in Devices : \E m \in Messages[d] : Begin(c, d, m)
       \/ \E by \in {"panic", "breakpoint", "page_fault"} : Fault(c, by)
       \/ Step(c)

Spec == Init /\ [][Next]_allVars

\* Every CPU keeps executing.
FairSpec == Spec /\ \A c \in Cpus : WF_allVars(Step(c))
-----------------------------------------------------------------------------
\* What comes out of a device are whole prints: no other CPU, and no handler on
\* the same one, writes in the middle of a print (serial.rs:27-31,
\* font/mod.rs:28-35).
PrintsWhole == \A d \in Devices : out[d].now \notin out[d].before

\* Nothing is sent to a port that is not initialized, except what the code does
\* not exclude: between a CPU's swap of INIT and its lock, another one takes the
\* lock first (serial.rs:12-17).
PortReady ==
  [][(\E c \in Cpus : Write(c) /\ Top(c).dev = "serial") =>
       ready \/ \E c \in Cpus : stack[c] # <<>> /\ Top(c).pc = "lock_init"]_allVars

\* A panic or an exception gets its report out, wherever it struck, a print to
\* the screen that holds FBMAN included; unless a print to the serial port was
\* struck, on this CPU or another: SERIAL1 then stays locked, and the handlers
\* spin for good (serial.rs:28-30, lock.rs:89-96, main.rs:140-144).
Struck == holder["serial"] # Nil /\ Depth(holder["serial"][1]) > holder["serial"][2]

Handling(c) == stack[c] # <<>> /\ Top(c).by \in {"panic", "breakpoint", "page_fault"} /\ Top(c).pc # "hlt"

Reported == \A c \in Cpus : Handling(c) ~> ~Handling(c) \/ Struck
-----------------------------------------------------------------------------
(* The text as it should look: lines are broken where they are full *)

\* Place of text[k] in its line, from 0.
InLine(k) == k - 1 - (CHOOSE m \in 0..(k - 1) :
                        /\ m = 0 \/ text[m] = NL
                        /\ \A j \in (m + 1)..(k - 1) : text[j] # NL)

\* The rows above the one text[k] is in (or, a newline, begins).
Row(k) == Cardinality({j \in 1..k : text[j] = NL \/ (InLine(j) > 0 /\ InLine(j) % horiz_chars = 0)})

\* The last rows are on the screen.
Shown(x, y) ==
  LET ks == {k \in 1..Len(text) :
               /\ text[k] # NL
               /\ InLine(k) % horiz_chars = x
               /\ Row(k) = Row(Len(text)) - (vert_chars - 1 - y)} IN
    IF ks = {} THEN SP ELSE text[CHOOSE k \in ks : TRUE]

\* The glyph of a character: that of the last complete entry that lists it.
GlyphOf(c) ==
  LET ends == {e \in DOMAIN table : table[e] = END}
      in == {s \in DOMAIN table : table[s] = c /\ \E e \in ends : e > s}
      g == IF table = NoTable THEN c
           ELSE IF in = {} THEN 0
           ELSE Cardinality({e \in ends : \E s \in in : e < s}) IN
    IF g < GLYPHS THEN g ELSE 0

\* Every pixel shows what the text printed so far puts there, wrapped, scrolled
\* and looked up in the font, and no pixel outside of the grid is touched.  Until
\* the first line is complete the rest of the screen is as it was found
\* (font/mod.rs:76-102, 175-305).  The four bytes of a pixel, written through a
\* raw pointer, are inside the frame buffer and on a visible place of its line
\* (font/mod.rs:159, 270-290).
ScreenIsText ==
  LET first == Row(Len(text)) = 0
      Place(cx, cy, p) == (cy * FONT_HEIGHT + p[2]) * STRIDE + (cx * FONT_WIDTH + p[1]) * BPP IN
    /\ DOMAIN fb \subseteq {Place(g[1], g[2], p) : g \in Grid, p \in Box}
    /\ \A o \in DOMAIN fb : o + BPP <= fb_len /\ (o % STRIDE) + BPP <= WIDTH * BPP
    /\ \A cx \in 0..(horiz_chars - 1), cy \in 0..(vert_chars - 1) :
         \/ first /\ (cy < vert_chars - 1 \/ cx >= Len(text))
         \/ LET glyph == GlyphOf(Shown(cx, cy)) IN
              \A p \in Box : fb[Place(cx, cy, p)] = <<glyph, p>>
=============================================================================
