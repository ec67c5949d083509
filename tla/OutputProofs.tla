---------------------------- MODULE OutputProofs ----------------------------
(***************************************************************************)
(* Prints come out whole, and the serial port is initialized before it is  *)
(* used, for any number of CPUs, any messages, any screen and font, and    *)
(* handlers that strike at any depth.                                      *)
(***************************************************************************)
EXTENDS Output, TLAPS

Frame == [by : {"code", "insert", "panic", "breakpoint", "page_fault"}, dev : Devices,
          rest : Seq(Nat), lines : Nat, id : Nat,
          pc : {"swap", "lock", "lock_init", "init", "some", "write", "hlt"}]

Tokens == (Nat \X Nat) \cup {Nil}

Types ==
  /\ stack \in [Cpus -> Seq(Frame)]
  /\ holder \in [Devices -> (Cpus \X Nat) \cup {Nil}]
  /\ out \in [Devices -> [now : Tokens, before : SUBSET Tokens]]
  /\ prints \in Nat /\ faults \in Nat
  /\ INIT \in BOOLEAN /\ ready \in BOOLEAN

D(c) == 1..Len(stack[c])

F(c, n) == stack[c][n]

\* Who is past lock_or_spin and before the guard's drop holds the mutex.
Held ==
  \A c \in Cpus : \A n \in D(c) :
    F(c, n).pc \in {"init", "some", "write"} => holder[F(c, n).dev] = <<c, n>>

\* insert_fbman writes no character.
Quiet ==
  \A c \in Cpus : \A n \in D(c) : F(c, n).by = "insert" => F(c, n).rest = <<>> /\ F(c, n).lines = 1

\* Only prints to the serial port initialize it, or have several lines.
OfSerial(f) == f.pc \in {"swap", "lock_init", "init"} \/ f.lines > 1 => f.dev = "serial"

Serial == \A c \in Cpus : \A n \in D(c) : OfSerial(F(c, n))

\* Prints in progress have numbers that were given out, each its own, and so
\* have those that devices have characters of.
Counted == \A c \in Cpus : \A n \in D(c) : F(c, n).by # "insert" => F(c, n).id < prints + faults

Unique ==
  \A c, e \in Cpus : \A n \in D(c), m \in D(e) :
    F(c, n).by # "insert" /\ F(e, m).by # "insert" /\ F(c, n).id = F(e, m).id => c = e /\ n = m

Known == \A d \in Devices : \A t \in out[d].before \cup {out[d].now} : t # Nil => t[1] < prints + faults

\* A print that is not over was never cut: the device's last character is of
\* it only while it holds the mutex.
FreshAt(f) ==
  \A d \in Devices : \A k \in 0..f.lines :
    /\ <<f.id, k>> \notin out[d].before
    /\ <<f.id, k>> = out[d].now => k = f.lines /\ d = f.dev /\ f.pc = "write"

Fresh ==
  \A c \in Cpus : \A n \in D(c) : F(c, n).by # "insert" /\ F(c, n).pc # "hlt" => FreshAt(F(c, n))

\* Who found INIT false is still to initialize the port, and nothing covers it.
Port ==
  /\ \A c \in Cpus : \A n \in D(c) : F(c, n).dev = "serial" /\ F(c, n).pc # "swap" => INIT
  /\ INIT /\ ~ready =>
       \E c \in Cpus : /\ stack[c] # <<>> /\ Top(c).dev = "serial"
                       /\ Top(c).pc \in {"lock_init", "init"}

IInv == Types /\ Held /\ Quiet /\ Serial /\ Counted /\ Unique /\ Known /\ Fresh /\ Port /\ PrintsWhole
-----------------------------------------------------------------------------
(* The three ways the stacks change *)

\* What is on a stack is a frame.
LEMMA Frames == ASSUME Types, NEW c \in Cpus, NEW n \in D(c) PROVE F(c, n) \in Frame
<1>1. stack[c] \in Seq(Frame)
  BY Zenon DEF Types
<1> QED
  BY <1>1 DEF D, F

\* A print starts on top of a CPU's stack.
LEMMA PushStack ==
  ASSUME Types, NEW c \in Cpus, NEW f \in Frame, stack' = [stack EXCEPT ![c] = Append(stack[c], f)]
  PROVE  /\ stack' \in [Cpus -> Seq(Frame)]
         /\ Len(stack[c]) \in Nat /\ stack'[c] # <<>>
         /\ \A e \in Cpus : D(e)' = IF e = c THEN D(e) \cup {Len(stack[c]) + 1} ELSE D(e)
         /\ \A e \in Cpus : \A n \in D(e) : F(e, n)' = F(e, n)
         /\ stack'[c][Len(stack[c]) + 1] = f /\ Len(stack[c]) + 1 \notin D(c)
         /\ \A e \in Cpus \ {c} : stack'[e] = stack[e]
<1>1. stack[c] \in Seq(Frame) /\ stack'[c] = Append(stack[c], f)
  BY Zenon DEF Types
<1>2. stack' \in [Cpus -> Seq(Frame)]
  BY <1>1 DEF Types
<1>3. /\ Len(stack'[c]) = Len(stack[c]) + 1 /\ Len(stack[c]) \in Nat
      /\ \A n \in 1..Len(stack[c]) : stack'[c][n] = stack[c][n]
      /\ stack'[c][Len(stack[c]) + 1] = f
  BY <1>1
<1>4. \A e \in Cpus \ {c} : stack'[e] = stack[e]
  BY Zenon DEF Types
<1>5. \A e \in Cpus : D(e)' = IF e = c THEN D(e) \cup {Len(stack[c]) + 1} ELSE D(e)
  <2>1. 1..(Len(stack[c]) + 1) = (1..Len(stack[c])) \cup {Len(stack[c]) + 1}
    BY <1>3
  <2> QED
    BY <1>3, <1>4, <2>1, Zenon DEF D
<1>6. \A e \in Cpus : \A n \in D(e) : F(e, n)' = F(e, n)
  BY <1>3, <1>4, Zenon DEF D, F
<1>7. stack'[c] # <<>> /\ Len(stack[c]) + 1 \notin D(c)
  BY <1>1, <1>3 DEF D
<1> QED
  BY <1>2, <1>3, <1>4, <1>5, <1>6, <1>7, Zenon DEF F

\* The running print changes.
LEMMA SetStack ==
  ASSUME Types, NEW c \in Cpus, stack[c] # <<>>, NEW f \in Frame, SetTop(c, f)
  PROVE  /\ stack' \in [Cpus -> Seq(Frame)]
         /\ Depth(c) \in D(c) /\ Top(c) = F(c, Depth(c)) /\ Top(c) \in Frame
         /\ Depth(c)' = Depth(c) /\ Top(c)' = f
         /\ \A e \in Cpus : D(e)' = D(e)
         /\ \A e \in Cpus : \A n \in D(e) :
              F(e, n)' = IF e = c /\ n = Depth(c) THEN f ELSE F(e, n)
         /\ \A e \in Cpus \ {c} : stack'[e] = stack[e]
<1>1. stack[c] \in Seq(Frame) /\ Len(stack[c]) \in Nat \ {0}
  BY DEF Types
<1>2. stack'[c] = [stack[c] EXCEPT ![Len(stack[c])] = f]
  BY Zenon DEF Types, SetTop, Depth
<1>3. /\ stack'[c] \in Seq(Frame) /\ Len(stack'[c]) = Len(stack[c])
      /\ \A n \in 1..Len(stack[c]) : stack'[c][n] = IF n = Len(stack[c]) THEN f ELSE stack[c][n]
  BY <1>1, <1>2
<1>4. \A e \in Cpus \ {c} : stack'[e] = stack[e]
  BY Zenon DEF Types, SetTop
<1>5. stack' \in [Cpus -> Seq(Frame)]
  BY <1>3, <1>4, Zenon DEF Types, SetTop
<1>6. Depth(c) \in D(c) /\ Top(c) = F(c, Depth(c)) /\ Top(c) \in Frame
  BY <1>1 DEF Depth, D, F, Top
<1> QED
  BY <1>1, <1>3, <1>4, <1>5, <1>6, Zenon DEF Depth, D, F, Top

\* The running print is over.
LEMMA PopStack ==
  ASSUME Types, NEW c \in Cpus, stack[c] # <<>>, stack' = [stack EXCEPT ![c] = Front(stack[c])]
  PROVE  /\ stack' \in [Cpus -> Seq(Frame)]
         /\ Depth(c) \in D(c) /\ Top(c) = F(c, Depth(c)) /\ Top(c) \in Frame
         /\ \A e \in Cpus : D(e)' = IF e = c THEN D(e) \ {Depth(c)} ELSE D(e)
         /\ \A e \in Cpus : \A n \in D(e)' : F(e, n)' = F(e, n)
         /\ \A e \in Cpus \ {c} : stack'[e] = stack[e]
<1>1. stack[c] \in Seq(Frame) /\ Len(stack[c]) \in Nat \ {0}
  BY DEF Types
<1>2. stack'[c] = SubSeq(stack[c], 1, Len(stack[c]) - 1)
  BY Zenon DEF Types, Front
<1>3. /\ stack'[c] \in Seq(Frame) /\ Len(stack'[c]) = Len(stack[c]) - 1
      /\ \A n \in 1..(Len(stack[c]) - 1) : stack'[c][n] = stack[c][n]
  BY <1>1, <1>2
<1>4. \A e \in Cpus \ {c} : stack'[e] = stack[e]
  BY Zenon DEF Types
<1>5. stack' \in [Cpus -> Seq(Frame)]
  BY <1>3, <1>4, Zenon DEF Types
<1>6. Depth(c) \in D(c) /\ Top(c) = F(c, Depth(c)) /\ Top(c) \in Frame
  BY <1>1 DEF Depth, D, F, Top
<1>7. \A e \in Cpus : D(e)' = IF e = c THEN D(e) \ {Depth(c)} ELSE D(e)
  <2>1. 1..(Len(stack[c]) - 1) = (1..Len(stack[c])) \ {Len(stack[c])}
    BY <1>1
  <2> QED
    BY <1>3, <1>4, <2>1, Zenon DEF D, Depth
<1>8. \A e \in Cpus : \A n \in D(e)' : F(e, n)' = F(e, n)
  BY <1>1, <1>3, <1>4, Zenon DEF D, F
<1> QED
  BY <1>4, <1>5, <1>6, <1>7, <1>8, Zenon
-----------------------------------------------------------------------------
(* What the steps preserve *)

\* f is put on top of c's stack.
Pushes(c, f) ==
  /\ stack' = [stack EXCEPT ![c] = Append(stack[c], f)]
  /\ UNCHANGED <<holder, INIT, ready, out>>
  /\ stack[c] # <<>> => Top(c).pc \notin {"lock_init", "init"}

\* f is as Printing makes it, and its number, if it will write, is used up.
Starts(f) ==
  /\ f.pc = IF f.dev = "serial" THEN "swap" ELSE "lock"
  /\ f.lines > 1 => f.dev = "serial"
  /\ prints' \in Nat /\ faults' \in Nat
  /\ \/ /\ f.by # "insert" /\ f.id = prints + faults
        /\ prints' + faults' = prints + faults + 1
     \/ /\ f.by = "insert" /\ f.rest = <<>> /\ f.lines = 1
        /\ prints' + faults' = prints + faults

\* A print, or a handler's, begins: its number is new.
LEMMA StepPush ==
  ASSUME IInv, NEW c \in Cpus, NEW f \in Frame, Pushes(c, f), Starts(f)
  PROVE  IInv'
<1>0. /\ UNCHANGED <<holder, INIT, ready, out>>
      /\ stack[c] # <<>> => Top(c).pc \notin {"lock_init", "init"}
  BY Zenon DEF Pushes
<1> DEFINE p == Len(stack[c]) + 1
<1>1. /\ stack' \in [Cpus -> Seq(Frame)] /\ stack'[c] # <<>>
      /\ \A e \in Cpus : D(e)' = IF e = c THEN D(e) \cup {p} ELSE D(e)
      /\ \A e \in Cpus : \A n \in D(e) : F(e, n)' = F(e, n)
      /\ stack'[c][p] = f /\ p \notin D(c)
      /\ \A e \in Cpus \ {c} : stack'[e] = stack[e]
  BY PushStack, Zenon DEF IInv, Pushes
<1> HIDE DEF p
<1>2. ASSUME NEW e \in Cpus, NEW n \in D(e)'
      PROVE  (e = c /\ n = p /\ F(e, n)' = f) \/ (n \in D(e) /\ F(e, n)' = F(e, n) /\ ~(e = c /\ n = p))
  <2>1. CASE e # c
    BY <1>1, <2>1, Zenon DEF D, F
  <2>2. CASE e = c
    <3>1. n \in D(c) \cup {p}
      BY <1>1, <2>2, Zenon
    <3> QED
      BY <1>1, <2>2, <3>1, Zenon DEF F
  <2> QED
    BY <2>1, <2>2, Zenon
<1>3. prints + faults \in Nat /\ prints' + faults' \in Nat /\ prints' + faults' >= prints + faults
  <2>1. prints \in Nat /\ faults \in Nat /\ prints' \in Nat /\ faults' \in Nat
    BY Zenon DEF IInv, Types, Starts
  <2>2. prints' + faults' = prints + faults + 1 \/ prints' + faults' = prints + faults
    BY Zenon DEF Starts
  <2>3. prints + faults \in Nat /\ prints' + faults' \in Nat
    <3>1. \A a, b \in Nat : a + b \in Nat
      OBVIOUS
    <3> QED
      BY <2>1, <3>1, Zenon
  <2>4. \A a, b \in Nat : a = b + 1 \/ a = b => a >= b
    OBVIOUS
  <2> QED
    BY <2>2, <2>3, <2>4, Zenon
<1>4. Types'
  <2>1. /\ holder' \in [Devices -> (Cpus \X Nat) \cup {Nil}]
        /\ out' \in [Devices -> [now : Tokens, before : SUBSET Tokens]]
    BY <1>0, Zenon DEF IInv, Types
  <2>2. INIT' \in BOOLEAN /\ ready' \in BOOLEAN
    <3>1. INIT' = INIT /\ ready' = ready
      BY <1>0, Zenon
    <3> QED
      BY <3>1, Zenon DEF IInv, Types
  <2> QED
    BY <1>1, <2>1, <2>2, Zenon DEF Types, Starts
<1>5. Held'
  <2> SUFFICES ASSUME NEW e \in Cpus, NEW n \in D(e)', F(e, n)'.pc \in {"init", "some", "write"}
               PROVE  holder[F(e, n)'.dev] = <<e, n>>
    BY <1>0, Zenon DEF Held
  <2>1. f.pc \in {"swap", "lock"}
    BY Zenon DEF Starts
  <2>2. n \in D(e) /\ F(e, n)' = F(e, n)
    BY <1>2, <2>1, Zenon
  <2> QED
    BY <2>2, Zenon DEF IInv, Held
<1>6. Quiet'
  <2> SUFFICES ASSUME NEW e \in Cpus, NEW n \in D(e)', F(e, n)'.by = "insert"
               PROVE  F(e, n)'.rest = <<>> /\ F(e, n)'.lines = 1
    BY Zenon DEF Quiet
  <2> QED
    BY <1>2 DEF IInv, Quiet, Starts
<1>7. Counted' /\ Unique' /\ Known'
  <2>1. ASSUME NEW e \in Cpus, NEW n \in D(e) PROVE F(e, n).id \in Nat
    BY Frames, Zenon DEF IInv, Frame
  <2>2. ASSUME NEW e \in Cpus, NEW n \in D(e)', F(e, n)'.by # "insert"
        PROVE  F(e, n)'.id < prints' + faults'
    <3>1. CASE F(e, n)' = f
      BY <1>3, <2>2, <3>1, SMTT(30) DEF Starts
    <3>2. CASE n \in D(e) /\ F(e, n)' = F(e, n)
      BY <1>3, <2>1, <2>2, <3>2 DEF IInv, Counted
    <3> QED
      BY <1>2, <3>1, <3>2, Zenon
  <2>3. ASSUME NEW e \in Cpus, NEW g \in Cpus, NEW n \in D(e)', NEW m \in D(g)',
               F(e, n)'.by # "insert", F(g, m)'.by # "insert", F(e, n)'.id = F(g, m)'.id
        PROVE  e = g /\ n = m
    <3>1. \A a \in Cpus : \A k \in D(a) : F(a, k).by # "insert" /\ f.by # "insert" => F(a, k).id # f.id
      BY <1>3, <2>1 DEF IInv, Counted, Starts
    <3> QED
      BY <1>2, <2>3, <3>1 DEF IInv, Unique
  <2>4. ASSUME NEW d \in Devices, NEW t \in out[d].before \cup {out[d].now}, t # Nil
        PROVE  t[1] < prints' + faults'
    <3>1. t \in Nat \X Nat /\ t[1] < prints + faults
      BY <2>4, Zenon DEF IInv, Types, Known, Tokens
    <3>2. t[1] \in Nat
      BY <3>1, Zenon
    <3> QED
      BY <1>3, <3>1, <3>2
  <2>5. Counted'
    BY <2>2, Zenon DEF Counted
  <2>6. Unique'
    BY <2>3 DEF Unique
  <2>7. Known'
    BY <1>0, <2>4, Zenon DEF Known
  <2> QED
    BY <2>5, <2>6, <2>7, Zenon
<1>8. Fresh'
  <2> SUFFICES ASSUME NEW e \in Cpus, NEW n \in D(e)', F(e, n)'.by # "insert", F(e, n)'.pc # "hlt"
               PROVE  FreshAt(F(e, n))'
    BY Zenon DEF Fresh
  <2>1. CASE n \in D(e) /\ F(e, n)' = F(e, n)
    BY <1>0, <2>1 DEF IInv, Fresh, FreshAt
  <2>2. CASE F(e, n)' = f
    <3> SUFFICES ASSUME NEW d \in Devices, NEW k \in 0..f.lines
                 PROVE  <<f.id, k>> \notin out[d].before /\ <<f.id, k>> # out[d].now
      BY <1>0, <2>2, Zenon DEF FreshAt
    <3>1. f.id = prints + faults /\ f.id \in Nat /\ f.lines \in Nat
      BY <2>2, Zenon DEF Frame, Starts
    <3>2. <<f.id, k>> \in Nat \X Nat /\ <<f.id, k>> # Nil /\ ~(<<f.id, k>>[1] < prints + faults)
      BY <3>1, OutputAssumption
    <3> QED
      BY <3>2, Zenon DEF IInv, Known
  <2> QED
    BY <1>2, <2>1, <2>2, Zenon
<1>9. Port'
  <2>1. ASSUME NEW e \in Cpus, NEW n \in D(e)', F(e, n)'.dev = "serial", F(e, n)'.pc # "swap"
        PROVE  INIT
    BY <1>2, <2>1 DEF IInv, Port, Starts
  <2>2. ASSUME INIT, ~ready
        PROVE  \E e \in Cpus : /\ stack'[e] # <<>> /\ Top(e)'.dev = "serial"
                               /\ Top(e)'.pc \in {"lock_init", "init"}
    <3>1. PICK e \in Cpus : /\ stack[e] # <<>> /\ Top(e).dev = "serial"
                            /\ Top(e).pc \in {"lock_init", "init"}
      BY <2>2, Zenon DEF IInv, Port
    <3>2. e # c /\ stack'[e] = stack[e]
      BY <1>0, <1>1, <3>1, Zenon
    <3>3. Top(e)' = Top(e)
      BY <3>2, Zenon DEF Top, Depth
    <3> QED
      BY <3>1, <3>2, <3>3, Zenon
  <2> QED
    BY <1>0, <2>1, <2>2, Zenon DEF Port
<1>10. PrintsWhole'
  BY <1>0, Zenon DEF IInv, PrintsWhole
<1>11. Serial'
  <2> SUFFICES ASSUME NEW e \in Cpus, NEW n \in D(e)' PROVE OfSerial(F(e, n))'
    BY Zenon DEF Serial
  <2>1. OfSerial(f)
    BY Zenon DEF OfSerial, Starts
  <2>2. CASE F(e, n)' = f
    BY <2>1, <2>2, Zenon DEF OfSerial
  <2>3. CASE n \in D(e) /\ F(e, n)' = F(e, n)
    BY <2>3, Zenon DEF IInv, Serial, OfSerial
  <2> QED
    BY <1>2, <2>2, <2>3, Zenon
<1> QED
  BY <1>4, <1>5, <1>6, <1>7, <1>8, <1>9, <1>10, <1>11, Zenon DEF IInv

\* The running print of c becomes g, and no device has a character from it.
Sets(c, g) ==
  /\ stack[c] # <<>> /\ SetTop(c, g) /\ UNCHANGED <<out, prints, faults>>
  /\ g.by = Top(c).by /\ g.dev = Top(c).dev /\ g.id = Top(c).id /\ g.lines <= Top(c).lines
  /\ g.by = "insert" => g.rest = <<>> /\ g.lines = 1
  /\ OfSerial(g)

\* The others keep what they hold, and a print that has written ends or goes on
\* to its next line.
Holds(c, g) ==
  /\ holder' \in [Devices -> (Cpus \X Nat) \cup {Nil}]
  /\ \A d \in Devices : holder[d] # Nil /\ holder[d] # <<c, Depth(c)>> => holder'[d] = holder[d]
  /\ g.pc \in {"init", "some", "write"} => holder'[g.dev] = <<c, Depth(c)>>
  /\ Top(c).pc # "hlt"
  /\ Top(c).pc = "write" => g.pc = "hlt" \/ g.lines < Top(c).lines

\* What becomes of the port.
Ports(c, g) ==
  /\ INIT' \in BOOLEAN /\ ready' \in BOOLEAN /\ (INIT => INIT') /\ (ready => ready')
  /\ g.dev = "serial" /\ g.pc # "swap" => INIT'
  /\ INIT' /\ ~ready' =>
       \/ g.dev = "serial" /\ g.pc \in {"lock_init", "init"}
       \/ INIT /\ ~ready /\ Top(c).pc \notin {"lock_init", "init"}

\* A step of a print other than a write.
LEMMA StepSet ==
  ASSUME IInv, NEW c \in Cpus, NEW g \in Frame, Sets(c, g), Holds(c, g), Ports(c, g)
  PROVE  IInv'
<1> DEFINE p == Depth(c)
           f == Top(c)
<1>1. /\ stack' \in [Cpus -> Seq(Frame)] /\ p \in D(c) /\ f = F(c, p) /\ f \in Frame
      /\ stack'[c] # <<>> /\ Top(c)' = g
      /\ \A e \in Cpus : D(e)' = D(e)
      /\ \A e \in Cpus : \A n \in D(e) : F(e, n)' = IF e = c /\ n = p THEN g ELSE F(e, n)
      /\ \A e \in Cpus \ {c} : stack'[e] = stack[e]
  <2>1. stack[c] # <<>> /\ SetTop(c, g)
    BY Zenon DEF Sets
  <2>2. Depth(c)' = Depth(c) /\ Depth(c) \in D(c)
    BY <2>1, SetStack, Zenon DEF IInv
  <2>3. stack'[c] # <<>>
    BY <2>2 DEF Depth, D
  <2> QED
    BY <2>1, <2>3, SetStack DEF IInv
<1> HIDE DEF p, f
<1>2. ASSUME NEW e \in Cpus, NEW n \in D(e)'
      PROVE  n \in D(e) /\ ((e = c /\ n = p /\ F(e, n)' = g) \/ (F(e, n)' = F(e, n) /\ ~(e = c /\ n = p)))
  BY <1>1, Zenon DEF D, F
<1>3. /\ UNCHANGED <<out, prints, faults>>
      /\ g.by = f.by /\ g.dev = f.dev /\ g.id = f.id /\ g.lines <= f.lines
      /\ g.by = "insert" => g.rest = <<>> /\ g.lines = 1
      /\ OfSerial(g)
  BY Zenon DEF Sets, f
<1>4. Types'
  BY <1>1, <1>3, Zenon DEF IInv, Types, Holds, Ports
<1>5. Held'
  <2> SUFFICES ASSUME NEW e \in Cpus, NEW n \in D(e)', F(e, n)'.pc \in {"init", "some", "write"}
               PROVE  holder'[F(e, n)'.dev] = <<e, n>>
    BY Zenon DEF Held
  <2>1. CASE e = c /\ n = p /\ F(e, n)' = g
    BY <2>1, Zenon DEF Holds, p
  <2>2. CASE n \in D(e) /\ F(e, n)' = F(e, n) /\ ~(e = c /\ n = p)
    <3>1. F(e, n) \in Frame /\ holder[F(e, n).dev] = <<e, n>>
      BY <2>2, Frames, Zenon DEF IInv, Held
    <3>2. F(e, n).dev \in Devices /\ n \in Nat /\ <<e, n>> \in Cpus \X Nat /\ <<e, n>> # <<c, p>>
      BY <2>2, <3>1 DEF Frame, D
    <3> QED
      BY <2>2, <3>1, <3>2, OutputAssumption, Zenon DEF Holds, p
  <2> QED
    BY <1>2, <2>1, <2>2, Zenon
<1>6. Quiet'
  <2> SUFFICES ASSUME NEW e \in Cpus, NEW n \in D(e)', F(e, n)'.by = "insert"
               PROVE  F(e, n)'.rest = <<>> /\ F(e, n)'.lines = 1
    BY Zenon DEF Quiet
  <2> QED
    BY <1>2, <1>3 DEF IInv, Quiet
<1>7. Counted' /\ Unique' /\ Known'
  <2>1. ASSUME NEW e \in Cpus, NEW n \in D(e)'
        PROVE  n \in D(e) /\ F(e, n)'.by = F(e, n).by /\ F(e, n)'.id = F(e, n).id
    BY <1>1, <1>2, <1>3, Zenon
  <2>2. ASSUME NEW e \in Cpus, NEW n \in D(e)', F(e, n)'.by # "insert"
        PROVE  F(e, n)'.id < prints + faults
    BY <2>1, <2>2, Zenon DEF IInv, Counted
  <2>3. ASSUME NEW e \in Cpus, NEW h \in Cpus, NEW n \in D(e)', NEW m \in D(h)',
               F(e, n)'.by # "insert", F(h, m)'.by # "insert", F(e, n)'.id = F(h, m)'.id
        PROVE  e = h /\ n = m
    BY <2>1, <2>3 DEF IInv, Unique
  <2>4. Counted'
    BY <1>3, <2>2, Zenon DEF Counted
  <2>5. Unique'
    BY <2>3 DEF Unique
  <2>6. Known'
    BY <1>3, Zenon DEF IInv, Known
  <2> QED
    BY <2>4, <2>5, <2>6, Zenon
<1>8. Fresh'
  <2> SUFFICES ASSUME NEW e \in Cpus, NEW n \in D(e)', F(e, n)'.by # "insert", F(e, n)'.pc # "hlt"
               PROVE  FreshAt(F(e, n))'
    BY Zenon DEF Fresh
  <2>1. CASE n \in D(e) /\ F(e, n)' = F(e, n)
    BY <1>3, <2>1 DEF IInv, Fresh, FreshAt
  <2>2. CASE F(e, n)' = g
    <3>1. FreshAt(f) /\ f.lines \in Nat /\ g.lines \in Nat
      BY <1>1, <1>3, <2>2, ZenonT(40) DEF IInv, Fresh, Holds, f, Frame
    <3>2. f.pc = "write" => g.lines < f.lines
      BY <2>2, Zenon DEF Holds, f
    <3> SUFFICES ASSUME NEW d \in Devices, NEW k \in 0..g.lines
                 PROVE  <<g.id, k>> \notin out[d].before /\ <<g.id, k>> # out[d].now
      BY <1>3, <2>2, Zenon DEF FreshAt
    <3>3. k \in 0..f.lines /\ (k = f.lines => f.pc # "write")
      BY <1>3, <3>1, <3>2
    <3> QED
      BY <1>3, <3>1, <3>3, Zenon DEF FreshAt
  <2> QED
    BY <1>2, <2>1, <2>2, Zenon
<1>9. Port'
  <2>1. ASSUME NEW e \in Cpus, NEW n \in D(e)', F(e, n)'.dev = "serial", F(e, n)'.pc # "swap"
        PROVE  INIT'
    BY <1>2, <2>1 DEF IInv, Port, Ports
  <2>2. ASSUME INIT', ~ready'
        PROVE  \E e \in Cpus : /\ stack'[e] # <<>> /\ Top(e)'.dev = "serial"
                               /\ Top(e)'.pc \in {"lock_init", "init"}
    <3>1. CASE g.dev = "serial" /\ g.pc \in {"lock_init", "init"}
      <4>1. /\ stack'[c] # <<>> /\ Top(c)'.dev = "serial" /\ Top(c)'.pc \in {"lock_init", "init"}
        BY <1>1, <3>1, Zenon
      <4> QED
        BY <4>1, Zenon
    <3>2. CASE INIT /\ ~ready /\ f.pc \notin {"lock_init", "init"}
      <4>1. PICK e \in Cpus : /\ stack[e] # <<>> /\ Top(e).dev = "serial"
                              /\ Top(e).pc \in {"lock_init", "init"}
        BY <3>2, Zenon DEF IInv, Port
      <4>2. e # c /\ stack'[e] = stack[e]
        BY <1>1, <3>2, <4>1, Zenon DEF f
      <4>3. Top(e)' = Top(e)
        BY <4>2, Zenon DEF Top, Depth
      <4> QED
        BY <4>1, <4>2, <4>3, Zenon
    <3> QED
      BY <2>2, <3>1, <3>2, Zenon DEF Ports, f
  <2> QED
    BY <2>1, <2>2, Zenon DEF Port
<1>10. Serial'
  <2> SUFFICES ASSUME NEW e \in Cpus, NEW n \in D(e)' PROVE OfSerial(F(e, n))'
    BY Zenon DEF Serial
  <2>1. CASE F(e, n)' = g
    BY <1>3, <2>1, Zenon DEF OfSerial
  <2>2. CASE n \in D(e) /\ F(e, n)' = F(e, n)
    BY <2>2, Zenon DEF IInv, Serial, OfSerial
  <2> QED
    BY <1>2, <2>1, <2>2, Zenon
<1>11. PrintsWhole'
  BY <1>3, Zenon DEF IInv, PrintsWhole
<1> QED
  BY <1>4, <1>5, <1>6, <1>7, <1>8, <1>9, <1>10, <1>11, Zenon DEF IInv

\* The guard is dropped and the print is over.
Pops(c) ==
  /\ stack[c] # <<>> /\ Top(c).pc = "write"
  /\ stack' = [stack EXCEPT ![c] = Front(stack[c])]
  /\ holder' = [holder EXCEPT ![Top(c).dev] = Nil]
  /\ UNCHANGED <<INIT, ready, out, prints, faults>>

\* What is left is as it was.
LEMMA StepPop == ASSUME IInv, NEW c \in Cpus, Pops(c) PROVE IInv'
<1> DEFINE p == Depth(c)
           f == Top(c)
<1>0. /\ stack[c] # <<>> /\ f.pc = "write" /\ UNCHANGED <<INIT, ready, out, prints, faults>>
      /\ holder' = [holder EXCEPT ![f.dev] = Nil]
  BY Zenon DEF Pops
<1>1. /\ stack' \in [Cpus -> Seq(Frame)] /\ p \in D(c) /\ f = F(c, p) /\ f \in Frame
      /\ \A e \in Cpus : D(e)' = IF e = c THEN D(e) \ {p} ELSE D(e)
      /\ \A e \in Cpus : \A n \in D(e)' : F(e, n)' = F(e, n)
      /\ \A e \in Cpus \ {c} : stack'[e] = stack[e]
  BY PopStack, Zenon DEF IInv, Pops
<1> HIDE DEF p, f
<1>2. ASSUME NEW e \in Cpus, NEW n \in D(e)'
      PROVE  n \in D(e) /\ F(e, n)' = F(e, n) /\ ~(e = c /\ n = p)
  <2>1. n \in IF e = c THEN D(e) \ {p} ELSE D(e)
    BY <1>1, Zenon
  <2> QED
    BY <1>1, <2>1, Zenon
<1>3. f.dev \in Devices /\ holder[f.dev] = <<c, p>>
  BY <1>0, <1>1, Zenon DEF IInv, Held, Frame
<1>4. Types'
  BY <1>0, <1>1, Zenon DEF IInv, Types
<1>5. Held'
  <2> SUFFICES ASSUME NEW e \in Cpus, NEW n \in D(e)', F(e, n)'.pc \in {"init", "some", "write"}
               PROVE  holder'[F(e, n)'.dev] = <<e, n>>
    BY Zenon DEF Held
  <2>1. /\ F(e, n) \in Frame /\ holder[F(e, n).dev] = <<e, n>> /\ ~(e = c /\ n = p)
        /\ F(e, n)' = F(e, n)
    BY <1>2, Frames, Zenon DEF IInv, Held
  <2>2. F(e, n).dev \in Devices /\ F(e, n).dev # f.dev
    BY <1>3, <2>1 DEF Frame
  <2>3. holder'[F(e, n).dev] = holder[F(e, n).dev]
    BY <1>0, <2>2, Zenon DEF IInv, Types
  <2> QED
    BY <2>1, <2>3, Zenon
<1>6. Quiet'
  <2> SUFFICES ASSUME NEW e \in Cpus, NEW n \in D(e)', F(e, n)'.by = "insert"
               PROVE  F(e, n)'.rest = <<>> /\ F(e, n)'.lines = 1
    BY Zenon DEF Quiet
  <2> QED
    BY <1>2 DEF IInv, Quiet
<1>7. Counted' /\ Unique' /\ Known'
  <2>1. ASSUME NEW e \in Cpus, NEW n \in D(e)', F(e, n)'.by # "insert"
        PROVE  F(e, n)'.id < prints + faults
    BY <1>2, <2>1, Zenon DEF IInv, Counted
  <2>2. ASSUME NEW e \in Cpus, NEW h \in Cpus, NEW n \in D(e)', NEW m \in D(h)',
               F(e, n)'.by # "insert", F(h, m)'.by # "insert", F(e, n)'.id = F(h, m)'.id
        PROVE  e = h /\ n = m
    BY <1>2, <2>2 DEF IInv, Unique
  <2>3. Counted'
    BY <1>0, <2>1, Zenon DEF Counted
  <2>4. Unique'
    BY <2>2 DEF Unique
  <2>5. Known'
    BY <1>0, Zenon DEF IInv, Known
  <2> QED
    BY <2>3, <2>4, <2>5, Zenon
<1>8. Fresh'
  <2> SUFFICES ASSUME NEW e \in Cpus, NEW n \in D(e)', F(e, n)'.by # "insert", F(e, n)'.pc # "hlt"
               PROVE  FreshAt(F(e, n))'
    BY Zenon DEF Fresh
  <2> QED
    BY <1>0, <1>2 DEF IInv, Fresh, FreshAt
<1>9. Port'
  <2>1. ASSUME NEW e \in Cpus, NEW n \in D(e)', F(e, n)'.dev = "serial", F(e, n)'.pc # "swap"
        PROVE  INIT
    BY <1>2, <2>1, Zenon DEF IInv, Port
  <2>2. ASSUME INIT, ~ready
        PROVE  \E e \in Cpus : /\ stack'[e] # <<>> /\ Top(e)'.dev = "serial"
                               /\ Top(e)'.pc \in {"lock_init", "init"}
    <3>1. PICK e \in Cpus : /\ stack[e] # <<>> /\ Top(e).dev = "serial"
                            /\ Top(e).pc \in {"lock_init", "init"}
      BY <2>2, Zenon DEF IInv, Port
    <3>2. e # c /\ stack'[e] = stack[e]
      BY <1>0, <1>1, <3>1, Zenon DEF f
    <3>3. Top(e)' = Top(e)
      BY <3>2, Zenon DEF Top, Depth
    <3> QED
      BY <3>1, <3>2, <3>3, Zenon
  <2> QED
    BY <1>0, <2>1, <2>2, Zenon DEF Port
<1>10. Serial'
  <2> SUFFICES ASSUME NEW e \in Cpus, NEW n \in D(e)' PROVE OfSerial(F(e, n))'
    BY Zenon DEF Serial
  <2> QED
    BY <1>2 DEF IInv, Serial, OfSerial
<1>11. PrintsWhole'
  BY <1>0, Zenon DEF IInv, PrintsWhole
<1> QED
  BY <1>4, <1>5, <1>6, <1>7, <1>8, <1>9, <1>10, <1>11, Zenon DEF IInv

\* A character: no print that is not over had the one before it, but this one.
LEMMA StepWrite == ASSUME IInv, NEW c \in Cpus, Write(c) PROVE IInv'
<1> DEFINE p == Depth(c)
           f == Top(c)
           g == [f EXCEPT !.rest = Tail(f.rest)]
           tok == <<f.id, f.lines>>
<1>0. /\ stack[c] # <<>> /\ f.pc = "write" /\ f.rest # <<>> /\ SetTop(c, g)
      /\ UNCHANGED <<holder, INIT, ready, prints, faults>>
      /\ out' = [out EXCEPT ![f.dev] = Sent(out[f.dev], tok)]
  BY Zenon DEF Write, Running
<1>a. f \in Frame
  <2>1. stack[c] \in Seq(Frame) /\ Len(stack[c]) \in Nat \ {0}
    BY <1>0 DEF IInv, Types
  <2> QED
    BY <2>1 DEF Top, Depth
<1>b. g \in Frame
  <2>1. Tail(f.rest) \in Seq(Nat)
    BY <1>0, <1>a DEF Frame
  <2> QED
    BY <1>a, <2>1, Zenon DEF Frame
<1>c. g.by = f.by /\ g.dev = f.dev /\ g.id = f.id /\ g.lines = f.lines /\ g.pc = f.pc
  BY <1>a, Zenon DEF Frame
<1>1. /\ stack' \in [Cpus -> Seq(Frame)] /\ p \in D(c) /\ f = F(c, p) /\ Top(c)' = g
      /\ \A e \in Cpus : D(e)' = D(e)
      /\ \A e \in Cpus : \A n \in D(e) : F(e, n)' = IF e = c /\ n = p THEN g ELSE F(e, n)
      /\ \A e \in Cpus \ {c} : stack'[e] = stack[e]
  BY <1>0, <1>b, SetStack, Zenon DEF IInv
<1> HIDE DEF p, f, g, tok
<1>2. ASSUME NEW e \in Cpus, NEW n \in D(e)'
      PROVE  n \in D(e) /\ ((e = c /\ n = p /\ F(e, n)' = g) \/ (F(e, n)' = F(e, n) /\ ~(e = c /\ n = p)))
  BY <1>1, Zenon DEF D, F
<1>3. ASSUME NEW e \in Cpus, NEW n \in D(e)'
      PROVE  /\ F(e, n)'.by = F(e, n).by /\ F(e, n)'.dev = F(e, n).dev /\ F(e, n)'.id = F(e, n).id
             /\ F(e, n)'.lines = F(e, n).lines /\ F(e, n)'.pc = F(e, n).pc
  BY <1>1, <1>2, <1>c, Zenon
<1>4. /\ f.dev \in Devices /\ f.id \in Nat /\ f.lines \in Nat /\ tok \in Nat \X Nat /\ tok # Nil
      /\ holder[f.dev] = <<c, p>> /\ f.by # "insert" /\ tok[1] = f.id
  <2>1. f.dev \in Devices /\ f.id \in Nat /\ f.lines \in Nat
    BY <1>a, Zenon DEF Frame
  <2>2. holder[f.dev] = <<c, p>> /\ f.by # "insert"
    BY <1>0, <1>1, Zenon DEF IInv, Held, Quiet
  <2> QED
    BY <2>1, <2>2, OutputAssumption DEF tok
<1>5. FreshAt(f) /\ f.id < prints + faults
  BY <1>0, <1>1, <1>4, Zenon DEF IInv, Fresh, Counted
<1>6. /\ out \in [Devices -> [now : Tokens, before : SUBSET Tokens]]
      /\ \A d \in Devices \ {f.dev} : out'[d] = out[d]
      /\ out'[f.dev].now = tok
      /\ out'[f.dev].before = IF tok = out[f.dev].now THEN out[f.dev].before
                              ELSE out[f.dev].before \cup {out[f.dev].now}
      /\ out'[f.dev] = Sent(out[f.dev], tok)
  <2>1. out \in [Devices -> [now : Tokens, before : SUBSET Tokens]]
    BY Zenon DEF IInv, Types
  <2>2. out'[f.dev] = Sent(out[f.dev], tok) /\ \A d \in Devices \ {f.dev} : out'[d] = out[d]
    BY <1>0, <1>4, <2>1, Zenon
  <2> QED
    BY <2>1, <2>2 DEF Sent
<1>7. Types'
  <2>1. tok \in Tokens /\ out[f.dev].now \in Tokens /\ out[f.dev].before \in SUBSET Tokens
    BY <1>4, <1>6, Zenon DEF Tokens
  <2>2. Sent(out[f.dev], tok) \in [now : Tokens, before : SUBSET Tokens]
    BY <2>1, Zenon DEF Sent
  <2>3. out' \in [Devices -> [now : Tokens, before : SUBSET Tokens]]
    BY <1>0, <1>6, <2>2, Zenon
  <2> QED
    BY <1>0, <1>1, <2>3, Zenon DEF IInv, Types
<1>8. Held'
  <2> SUFFICES ASSUME NEW e \in Cpus, NEW n \in D(e)', F(e, n)'.pc \in {"init", "some", "write"}
               PROVE  holder'[F(e, n)'.dev] = <<e, n>>
    BY Zenon DEF Held
  <2> QED
    BY <1>0, <1>2, <1>3 DEF IInv, Held
<1>9. Quiet'
  <2> SUFFICES ASSUME NEW e \in Cpus, NEW n \in D(e)', F(e, n)'.by = "insert"
               PROVE  F(e, n)'.rest = <<>> /\ F(e, n)'.lines = 1
    BY Zenon DEF Quiet
  <2>1. ~(e = c /\ n = p)
    BY <1>1, <1>3, <1>4
  <2> QED
    BY <1>2, <2>1 DEF IInv, Quiet
<1>10. Serial'
  <2> SUFFICES ASSUME NEW e \in Cpus, NEW n \in D(e)' PROVE OfSerial(F(e, n))'
    BY Zenon DEF Serial
  <2> QED
    BY <1>2, <1>3 DEF IInv, Serial, OfSerial
<1>11. Counted' /\ Unique' /\ Known'
  <2>1. ASSUME NEW e \in Cpus, NEW n \in D(e)', F(e, n)'.by # "insert"
        PROVE  F(e, n)'.id < prints + faults
    BY <1>2, <1>3, <2>1 DEF IInv, Counted
  <2>2. ASSUME NEW e \in Cpus, NEW h \in Cpus, NEW n \in D(e)', NEW m \in D(h)',
               F(e, n)'.by # "insert", F(h, m)'.by # "insert", F(e, n)'.id = F(h, m)'.id
        PROVE  e = h /\ n = m
    BY <1>2, <1>3, <2>2 DEF IInv, Unique
  <2>3. ASSUME NEW d \in Devices, NEW t \in out'[d].before \cup {out'[d].now}, t # Nil
        PROVE  t[1] < prints + faults
    <3>1. t = tok \/ t \in out[d].before \cup {out[d].now}
      BY <1>6, Zenon
    <3> QED
      BY <1>4, <1>5, <2>3, <3>1, Zenon DEF IInv, Known
  <2>4. Counted'
    BY <1>0, <2>1, Zenon DEF Counted
  <2>5. Unique'
    BY <2>2 DEF Unique
  <2>6. Known'
    BY <1>0, <2>3, Zenon DEF Known
  <2> QED
    BY <2>4, <2>5, <2>6, Zenon
<1>12. Fresh'
  <2> SUFFICES ASSUME NEW e \in Cpus, NEW n \in D(e)', F(e, n)'.by # "insert", F(e, n)'.pc # "hlt",
                      NEW d \in Devices, NEW k \in 0..F(e, n)'.lines
               PROVE  /\ <<F(e, n)'.id, k>> \notin out'[d].before
                      /\ <<F(e, n)'.id, k>> = out'[d].now =>
                           k = F(e, n)'.lines /\ d = F(e, n)'.dev /\ F(e, n)'.pc = "write"
    BY Zenon DEF Fresh, FreshAt
  <2> DEFINE q == F(e, n)
  <2>1. /\ n \in D(e) /\ q.by # "insert" /\ q.pc # "hlt" /\ k \in 0..q.lines
        /\ F(e, n)'.id = q.id /\ F(e, n)'.lines = q.lines /\ F(e, n)'.dev = q.dev /\ F(e, n)'.pc = q.pc
    BY <1>2, <1>3, Zenon
  <2>2. /\ <<q.id, k>> \notin out[d].before
        /\ <<q.id, k>> = out[d].now => k = q.lines /\ d = q.dev /\ q.pc = "write"
    BY <2>1, Zenon DEF IInv, Fresh, FreshAt
  <2>3. CASE e = c /\ n = p
    <3>1. q = f /\ (d = f.dev => (<<q.id, k>> = tok <=> k = f.lines))
      BY <1>1, <2>3, Zenon DEF tok
    <3>2. CASE d = f.dev
      BY <1>0, <1>6, <2>1, <2>2, <3>1, <3>2, ZenonT(40) DEF tok
    <3>3. CASE d # f.dev
      BY <1>6, <2>1, <2>2, <3>3, Zenon
    <3> QED
      BY <3>2, <3>3, Zenon
  <2>4. CASE ~(e = c /\ n = p)
    <3>1. q.id # f.id
      BY <1>1, <1>4, <2>1, <2>4, Zenon DEF IInv, Unique
    <3>2. <<q.id, k>> # tok
      BY <3>1, Zenon DEF tok
    <3>3. CASE d = f.dev
      <4>1. <<q.id, k>> # out[d].now
        <5> SUFFICES ASSUME <<q.id, k>> = out[d].now PROVE FALSE
          BY Zenon
        <5>1. holder[f.dev] = <<e, n>>
          BY <2>1, <2>2, <3>3, Zenon DEF IInv, Held
        <5> QED
          BY <1>4, <2>4, <5>1
      <4> QED
        BY <1>6, <2>1, <2>2, <3>2, <3>3, <4>1, ZenonT(30)
    <3>4. CASE d # f.dev
      BY <1>6, <2>1, <2>2, <3>4, Zenon
    <3> QED
      BY <3>3, <3>4, Zenon
  <2> QED
    BY <2>3, <2>4, Zenon
<1>13. Port'
  <2>1. ASSUME NEW e \in Cpus, NEW n \in D(e)', F(e, n)'.dev = "serial", F(e, n)'.pc # "swap"
        PROVE  INIT
    BY <1>2, <1>3, <2>1 DEF IInv, Port
  <2>2. ASSUME INIT, ~ready
        PROVE  \E e \in Cpus : /\ stack'[e] # <<>> /\ Top(e)'.dev = "serial"
                               /\ Top(e)'.pc \in {"lock_init", "init"}
    <3>1. PICK e \in Cpus : /\ stack[e] # <<>> /\ Top(e).dev = "serial"
                            /\ Top(e).pc \in {"lock_init", "init"}
      BY <2>2, Zenon DEF IInv, Port
    <3>2. e # c /\ stack'[e] = stack[e]
      BY <1>0, <1>1, <3>1, Zenon DEF f
    <3>3. Top(e)' = Top(e)
      BY <3>2, Zenon DEF Top, Depth
    <3> QED
      BY <3>1, <3>2, <3>3, Zenon
  <2> QED
    BY <1>0, <2>1, <2>2, Zenon DEF Port
<1>14. PrintsWhole'
  <2> SUFFICES ASSUME NEW d \in Devices PROVE out'[d].now \notin out'[d].before
    BY Zenon DEF PrintsWhole
  <2>1. tok \notin out[f.dev].before
    BY <1>4, <1>5 DEF FreshAt, tok
  <2> QED
    BY <1>6, <2>1, Zenon DEF IInv, PrintsWhole
<1> QED
  BY <1>7, <1>8, <1>9, <1>10, <1>11, <1>12, <1>13, <1>14, Zenon DEF IInv

\* What Printing makes is a frame.
LEMMA PrintingFrame ==
  ASSUME IInv, NEW by \in {"code", "insert", "panic", "breakpoint", "page_fault"}, NEW dev \in Devices,
         NEW msg \in Seq(Nat), NEW lines \in Nat
  PROVE  LET f == Printing(by, dev, msg, lines) IN
           /\ f \in Frame /\ f.by = by /\ f.dev = dev /\ f.rest = msg /\ f.lines = lines
           /\ f.id = prints + faults /\ f.pc = IF dev = "serial" THEN "swap" ELSE "lock"
<1>1. prints + faults \in Nat
  BY DEF IInv, Types
<1> QED
  BY <1>1, Zenon DEF Printing, Frame

\* Code of a CPU that prints nothing begins a print.
LEMMA StepBegin ==
  ASSUME IInv, NEW c \in Cpus, NEW d \in Devices, NEW m \in Messages[d], Begin(c, d, m)
  PROVE  IInv'
<1> DEFINE f == Printing("code", d, m, 1)
<1>1. /\ f \in Frame /\ f.by = "code" /\ f.lines = 1 /\ f.id = prints + faults
      /\ f.dev = d /\ f.pc = IF d = "serial" THEN "swap" ELSE "lock"
  BY PrintingFrame, OutputAssumption
<1>2. Pushes(c, f)
  <2>1. stack[c] = <<>> /\ stack' = [stack EXCEPT ![c] = <<f>>] /\ UNCHANGED <<holder, INIT, ready, out>>
    BY Zenon DEF Begin
  <2>2. <<f>> = Append(stack[c], f)
    BY <2>1
  <2> QED
    BY <2>1, <2>2, Zenon DEF Pushes
<1>3. Starts(f)
  <2>1. prints \in Nat /\ faults \in Nat /\ prints' = prints + 1 /\ faults' = faults
    BY Zenon DEF Begin, IInv, Types
  <2> HIDE DEF f
  <2> QED
    BY <1>1, <2>1 DEF Starts
<1> QED
  BY <1>1, <1>2, <1>3, StepPush, Zenon

\* insert_fbman begins.
LEMMA StepInsert == ASSUME IInv, Insert PROVE IInv'
<1> DEFINE f == Printing("insert", "screen", <<>>, 1)
<1>1. /\ f \in Frame /\ f.by = "insert" /\ f.lines = 1 /\ f.rest = <<>>
      /\ f.dev = "screen" /\ f.pc = "lock"
  <2>1. prints + faults \in Nat
    BY DEF IInv, Types
  <2> QED
    BY <2>1 DEF Printing, Frame, Devices
<1>2. Pushes(Boot, f)
  <2>1. /\ stack[Boot] = <<>> /\ stack' = [stack EXCEPT ![Boot] = <<f>>]
        /\ UNCHANGED <<holder, INIT, ready, out>>
    BY Zenon DEF Insert
  <2>2. <<f>> = Append(stack[Boot], f)
    BY <2>1
  <2> QED
    BY <2>1, <2>2, Zenon DEF Pushes
<1>3. Starts(f)
  <2>1. prints \in Nat /\ faults \in Nat /\ prints' = prints /\ faults' = faults
    BY Zenon DEF Insert, IInv, Types
  <2> HIDE DEF f
  <2> QED
    BY <1>1, <2>1 DEF Starts
<1> QED
  BY <1>1, <1>2, <1>3, StepPush, OutputAssumption, Zenon

\* A handler begins on top of ordinary code, of formatting code, or of a print
\* that found FBMAN empty.
LEMMA StepStrike ==
  ASSUME IInv, NEW c \in Cpus, NEW by \in {"panic", "breakpoint", "page_fault"}, Strike(c, by),
         stack[c] = <<>> \/ Top(c).pc \in {"write", "some"}
  PROVE  IInv'
<1> DEFINE f == Printing(by, "serial", Report, Lines(by))
<1>1. /\ f \in Frame /\ f.by = by /\ f.id = prints + faults /\ f.dev = "serial" /\ f.pc = "swap"
  <2>1. Lines(by) \in Nat
    BY Zenon DEF Lines
  <2> QED
    BY <2>1, PrintingFrame, OutputAssumption DEF Devices
<1>2. Pushes(c, f)
  BY Zenon DEF Strike, Pushes
<1>3. Starts(f)
  <2>1. prints \in Nat /\ faults \in Nat /\ prints' = prints /\ faults' = faults + 1
    BY Zenon DEF Strike, IInv, Types
  <2> HIDE DEF f
  <2> QED
    BY <1>1, <2>1 DEF Starts
<1> QED
  BY <1>1, <1>2, <1>3, StepPush, Zenon

\* A step of a print that only moves it on.
LEMMA StepGoto ==
  ASSUME IInv, NEW c \in Cpus, stack[c] # <<>>,
         NEW l \in {"swap", "lock", "lock_init", "init", "some", "write", "hlt"},
         Goto(c, l), UNCHANGED <<out, prints, faults>>,
         l \in {"swap", "lock_init", "init"} => Top(c).dev = "serial"
  PROVE  \E g \in Frame : /\ Sets(c, g) /\ g.pc = l /\ g.dev = Top(c).dev /\ g.lines = Top(c).lines
                          /\ g.by = Top(c).by
<1> DEFINE f == Top(c)
           g == [f EXCEPT !.pc = l]
<1>1. f \in Frame /\ Depth(c) \in D(c) /\ f = F(c, Depth(c))
  <2>1. stack[c] \in Seq(Frame) /\ Len(stack[c]) \in Nat \ {0}
    BY DEF IInv, Types
  <2> QED
    BY <2>1 DEF Top, Depth, D, F
<1>2. /\ g \in Frame /\ g.pc = l /\ g.by = f.by /\ g.dev = f.dev /\ g.id = f.id
      /\ g.lines = f.lines /\ g.rest = f.rest /\ f.lines \in Nat
  BY <1>1, Zenon DEF Frame
<1>3. SetTop(c, g)
  BY Zenon DEF Goto
<1> HIDE DEF f, g
<1>4. /\ f.by = "insert" => f.rest = <<>> /\ f.lines = 1
      /\ OfSerial(f)
  BY <1>1, Zenon DEF IInv, Quiet, Serial
<1>5. OfSerial(g)
  BY <1>2, <1>4, Zenon DEF OfSerial, f
<1>6. g.lines <= f.lines
  BY <1>2
<1>7. Sets(c, g)
  BY <1>2, <1>3, <1>4, <1>5, <1>6, Zenon DEF Sets, f
<1> QED
  BY <1>2, <1>7, Zenon DEF f

\* A print's step keeps the invariant.
LEMMA StepPrint == ASSUME IInv, NEW c \in Cpus, Step(c) PROVE IInv'
<1> DEFINE f == Top(c)
<1>0. stack[c] # <<>> /\ f \in Frame /\ Depth(c) \in D(c) /\ f = F(c, Depth(c))
  <2>1. stack[c] # <<>>
    BY Zenon DEF Step, Swap, Lock, InitPort, Some, Write, Unlock, Running
  <2>2. stack[c] \in Seq(Frame) /\ Len(stack[c]) \in Nat \ {0}
    BY <2>1 DEF IInv, Types
  <2> QED
    BY <2>1, <2>2 DEF Top, Depth, D, F
<1>1. /\ f.pc \in {"init", "some", "write"} => holder[f.dev] = <<c, Depth(c)>>
      /\ f.by = "insert" => f.rest = <<>> /\ f.lines = 1
      /\ OfSerial(f) /\ (f.dev = "serial" /\ f.pc # "swap" => INIT)
      /\ f.dev \in Devices /\ f.lines \in Nat
  BY <1>0, ZenonT(30) DEF IInv, Held, Quiet, Serial, Port, Frame
<1>2. /\ holder \in [Devices -> (Cpus \X Nat) \cup {Nil}] /\ Depth(c) \in Nat
      /\ INIT \in BOOLEAN /\ ready \in BOOLEAN
  BY <1>0 DEF IInv, Types, D
<1>3. CASE Swap(c)
  <2>1. /\ f.pc = "swap" /\ INIT' /\ UNCHANGED <<holder, ready, out, prints, faults>>
        /\ Goto(c, IF INIT THEN "lock" ELSE "lock_init")
    BY <1>3, Zenon DEF Swap, Running
  <2>2. f.dev = "serial"
    BY <1>1, <2>1, Zenon DEF OfSerial
  <2>3. PICK g \in Frame : /\ Sets(c, g) /\ g.pc = (IF INIT THEN "lock" ELSE "lock_init")
                           /\ g.dev = "serial"
    BY <1>0, <2>1, <2>2, StepGoto
  <2>4. Holds(c, g)
    BY <1>2, <2>1, <2>3, Zenon DEF Holds
  <2>5. Ports(c, g)
    BY <1>2, <2>1, <2>3, Zenon DEF Ports
  <2> QED
    BY <2>3, <2>4, <2>5, StepSet, Zenon
<1>4. CASE Lock(c)
  <2> DEFINE l == IF f.pc = "lock_init" THEN "init" ELSE IF f.dev = "serial" THEN "write" ELSE "some"
  <2>1. /\ f.pc \in {"lock", "lock_init"} /\ UNCHANGED <<INIT, ready, out, prints, faults>>
        /\ Goto(c, l) /\ holder[f.dev] = Nil
        /\ holder' = [holder EXCEPT ![f.dev] = <<c, Depth(c)>>]
    BY <1>4, Zenon DEF Lock, Running
  <2>2. l \in {"init", "write", "some"} /\ (l = "init" => f.pc = "lock_init" /\ f.dev = "serial")
    BY <1>1, Zenon DEF OfSerial
  <2>3. PICK g \in Frame : Sets(c, g) /\ g.pc = l /\ g.dev = f.dev
    BY <1>0, <2>1, <2>2, StepGoto
  <2>4. Holds(c, g)
    <3>1. /\ holder' \in [Devices -> (Cpus \X Nat) \cup {Nil}]
          /\ holder'[f.dev] = <<c, Depth(c)>>
          /\ \A d \in Devices : holder[d] # Nil => holder'[d] = holder[d]
      BY <1>1, <1>2, <2>1, Zenon
    <3> QED
      BY <2>1, <2>3, <3>1, Zenon DEF Holds
  <2>5. Ports(c, g)
    <3>1. f.pc = "lock_init" => g.pc = "init" /\ g.dev = "serial"
      BY <2>2, <2>3, Zenon
    <3>2. f.pc # "init" /\ (g.dev = "serial" => INIT)
      BY <1>1, <2>1, <2>3, Zenon
    <3> QED
      BY <1>2, <2>1, <3>1, <3>2, Zenon DEF Ports
  <2> QED
    BY <2>3, <2>4, <2>5, StepSet, Zenon
<1>5. CASE InitPort(c)
  <2>1. /\ f.pc = "init" /\ ready' /\ UNCHANGED <<holder, INIT, out, prints, faults>> /\ Goto(c, "write")
        /\ ready' \in BOOLEAN
    BY <1>5, Zenon DEF InitPort, Running
  <2>2. PICK g \in Frame : Sets(c, g) /\ g.pc = "write" /\ g.dev = f.dev
    BY <1>0, <2>1, StepGoto
  <2>3. Holds(c, g)
    BY <1>1, <1>2, <2>1, <2>2, Zenon DEF Holds
  <2>4. Ports(c, g)
    BY <1>1, <1>2, <2>1, <2>2, Zenon DEF Ports
  <2> QED
    BY <2>2, <2>3, <2>4, StepSet, Zenon
<1>6. CASE Some(c)
  <2>1. CASE Strike(c, "panic")
    <3>1. f.pc = "some"
      BY <1>6, Zenon DEF Some, Running
    <3> QED
      BY <2>1, <3>1, StepStrike, Zenon
  <2>2. CASE Goto(c, "write") /\ UNCHANGED <<holder, INIT, ready, out, prints, faults>>
    <3>1. f.pc = "some"
      BY <1>6, Zenon DEF Some, Running
    <3>2. PICK g \in Frame : Sets(c, g) /\ g.pc = "write" /\ g.dev = f.dev
      BY <1>0, <2>2, StepGoto
    <3>3. Holds(c, g)
      BY <1>1, <1>2, <2>2, <3>1, <3>2, Zenon DEF Holds
    <3>4. Ports(c, g)
      BY <1>1, <1>2, <2>2, <3>1, <3>2, Zenon DEF Ports
    <3> QED
      BY <3>2, <3>3, <3>4, StepSet, Zenon
  <2> QED
    BY <1>6, <2>1, <2>2, Zenon DEF Some
<1>7. CASE Write(c)
  BY <1>7, StepWrite, Zenon
<1>8. CASE Unlock(c)
  <2>1. /\ f.pc = "write" /\ UNCHANGED <<INIT, ready, out, prints, faults>>
        /\ holder' = [holder EXCEPT ![f.dev] = Nil]
    BY <1>8, Zenon DEF Unlock, Running
  <2>2. /\ holder' \in [Devices -> (Cpus \X Nat) \cup {Nil}]
        /\ \A d \in Devices : holder[d] # <<c, Depth(c)>> => holder'[d] = holder[d]
    BY <1>1, <1>2, <2>1, Zenon
  <2>3. CASE stack' = [stack EXCEPT ![c] = Front(stack[c])]
    <3>1. Pops(c)
      BY <1>0, <2>1, <2>3, Zenon DEF Pops
    <3> QED
      BY <3>1, StepPop, Zenon
  <2>4. CASE Goto(c, "hlt")
    <3>1. PICK g \in Frame : Sets(c, g) /\ g.pc = "hlt" /\ g.dev = f.dev
      BY <1>0, <2>1, <2>4, StepGoto, ZenonT(40)
    <3>2. Holds(c, g)
      BY <2>1, <2>2, <3>1, Zenon DEF Holds
    <3>3. Ports(c, g)
      BY <1>1, <1>2, <2>1, <3>1, Zenon DEF Ports
    <3> QED
      BY <3>1, <3>2, <3>3, StepSet, Zenon
  <2>5. CASE f.lines > 1 /\ SetTop(c, [f EXCEPT !.lines = f.lines - 1, !.rest = Report, !.pc = "swap"])
    <3> DEFINE g == [f EXCEPT !.lines = f.lines - 1, !.rest = Report, !.pc = "swap"]
    <3>1. f.lines - 1 \in Nat /\ f.lines - 1 < f.lines /\ f.lines - 1 <= f.lines /\ f.lines # 1
      BY <1>1, <2>5
    <3>2. /\ g \in Frame /\ g.by = f.by /\ g.dev = f.dev /\ g.id = f.id /\ g.lines = f.lines - 1
          /\ g.pc = "swap"
      BY <1>0, <3>1, OutputAssumption, Zenon DEF Frame
    <3>3. f.dev = "serial" /\ f.by # "insert"
      BY <1>1, <2>5, <3>1, Zenon DEF OfSerial
    <3>4. SetTop(c, g)
      BY <2>5, Zenon
    <3> HIDE DEF g
    <3>5. Sets(c, g)
      BY <1>0, <2>1, <3>1, <3>2, <3>3, <3>4, Zenon DEF Sets, OfSerial
    <3>6. Holds(c, g)
      BY <2>1, <2>2, <3>1, <3>2, Zenon DEF Holds
    <3>7. Ports(c, g)
      BY <1>2, <2>1, <3>2, Zenon DEF Ports
    <3> QED
      BY <3>2, <3>5, <3>6, <3>7, StepSet, Zenon
  <2> QED
    BY <1>8, <2>3, <2>4, <2>5, Zenon DEF Unlock
<1> QED
  BY <1>3, <1>4, <1>5, <1>6, <1>7, <1>8, Zenon DEF Step
-----------------------------------------------------------------------------
\* Nothing is printed yet.
LEMMA InitIInv == Init => IInv
<1> SUFFICES ASSUME Init PROVE IInv
  BY Zenon
<1>1. /\ stack = [c \in Cpus |-> <<>>] /\ holder = [d \in Devices |-> Nil]
      /\ out = [d \in Devices |-> [now |-> Nil, before |-> {}]]
      /\ INIT = FALSE /\ ready = FALSE /\ prints = 0 /\ faults = 0
  BY Zenon DEF Init
<1>2. \A c \in Cpus : D(c) = {}
  BY <1>1 DEF D
<1>3. \A d \in Devices : out[d].now = Nil /\ out[d].before = {}
  BY <1>1, Zenon
<1>4. Types
  <2>1. <<>> \in Seq(Frame) /\ [now |-> Nil, before |-> {}] \in [now : Tokens, before : SUBSET Tokens]
    BY DEF Tokens
  <2> QED
    BY <1>1, <2>1, Zenon DEF Types
<1> QED
  BY <1>1, <1>2, <1>3, <1>4, Zenon DEF IInv, Held, Quiet, Serial, Counted, Unique, Known, Fresh, Port, PrintsWhole

\* Every step keeps the invariant.
LEMMA StepIInv == IInv /\ [Next]_allVars => IInv'
<1> SUFFICES ASSUME IInv, [Next]_allVars PROVE IInv'
  BY Zenon
<1>1. CASE Insert
  BY <1>1, StepInsert, Zenon
<1>2. CASE \E c \in Cpus : \E d \in Devices : \E m \in Messages[d] : Begin(c, d, m)
  BY <1>2, StepBegin, Zenon
<1>3. CASE \E c \in Cpus : \E by \in {"panic", "breakpoint", "page_fault"} : Fault(c, by)
  BY <1>3, StepStrike, Zenon DEF Fault, Running
<1>4. CASE \E c \in Cpus : Step(c)
  BY <1>4, StepPrint, Zenon
<1>5. CASE UNCHANGED allVars
  <2>1. UNCHANGED <<stack, holder, INIT, ready, out, prints, faults>>
    BY <1>5, Zenon DEF allVars, outputVars
  <2>2. ASSUME NEW c \in Cpus, NEW n \in D(c)'
        PROVE  n \in D(c) /\ F(c, n)' = F(c, n)
    BY <2>1, Zenon DEF D, F
  <2>3. Types'
    BY <2>1, Zenon DEF IInv, Types
  <2>4. Held'
    BY <2>1, <2>2, Zenon DEF IInv, Held
  <2>5. Quiet'
    BY <2>2, Zenon DEF IInv, Quiet
  <2>6. Serial'
    BY <2>2 DEF IInv, Serial, OfSerial
  <2>7. Counted' /\ Unique' /\ Known'
    <3>1. ASSUME NEW c \in Cpus, NEW e \in Cpus, NEW n \in D(c)', NEW m \in D(e)',
                 F(c, n)'.by # "insert", F(e, m)'.by # "insert", F(c, n)'.id = F(e, m)'.id
          PROVE  c = e /\ n = m
      BY <2>2, <3>1 DEF IInv, Unique
    <3>2. Counted'
      BY <2>1, <2>2, Zenon DEF IInv, Counted
    <3>3. Known'
      BY <2>1, Zenon DEF IInv, Known
    <3>4. Unique'
      BY <3>1 DEF Unique
    <3> QED
      BY <3>2, <3>3, <3>4, Zenon
  <2>8. Fresh'
    <3> SUFFICES ASSUME NEW e \in Cpus, NEW n \in D(e)', F(e, n)'.by # "insert", F(e, n)'.pc # "hlt"
                 PROVE  FreshAt(F(e, n))'
      BY Zenon DEF Fresh
    <3> QED
      BY <2>1, <2>2 DEF IInv, Fresh, FreshAt
  <2>9. Port'
    <3>1. \A c \in Cpus : stack'[c] = stack[c] /\ Top(c)' = Top(c)
      BY <2>1, Zenon DEF Top, Depth
    <3> QED
      BY <2>1, <2>2, <3>1, Zenon DEF IInv, Port
  <2>10. PrintsWhole'
    BY <2>1, Zenon DEF IInv, PrintsWhole
  <2> QED
    BY <2>3, <2>4, <2>5, <2>6, <2>7, <2>8, <2>9, <2>10, Zenon DEF IInv
<1> QED
  BY <1>1, <1>2, <1>3, <1>4, <1>5, Zenon DEF Next

\* For any number of CPUs, any messages and faults anywhere, a device never gets
\* a character of one print between two of another (serial.rs:27-31,
\* font/mod.rs:28-35).
THEOREM WholePrints == Spec => []PrintsWhole
<1>1. IInv => PrintsWhole
  BY Zenon DEF IInv
<1> QED
  BY <1>1, InitIInv, StepIInv, PTL DEF Spec

\* The port is initialized before a character is sent to it, but for a CPU that
\* swapped INIT and was overtaken on the way to the lock (serial.rs:12-17).
THEOREM PortReadyOrOvertaken == Spec => PortReady
<1> DEFINE A == (\E c \in Cpus : Write(c) /\ Top(c).dev = "serial") =>
                  ready \/ \E c \in Cpus : stack[c] # <<>> /\ Top(c).pc = "lock_init"
<1>1. IInv => A
  <2> SUFFICES ASSUME IInv, ~ready, NEW c \in Cpus, Write(c), Top(c).dev = "serial"
               PROVE  \E e \in Cpus : stack[e] # <<>> /\ Top(e).pc = "lock_init"
    BY Zenon
  <2>1. ASSUME NEW e \in Cpus, stack[e] # <<>> PROVE Depth(e) \in D(e) /\ Top(e) = F(e, Depth(e))
    <3>1. stack[e] \in Seq(Frame) /\ Len(stack[e]) \in Nat \ {0}
      BY <2>1 DEF IInv, Types
    <3> QED
      BY <3>1 DEF Top, Depth, D, F
  <2>2. stack[c] # <<>> /\ Top(c).pc = "write"
    BY Zenon DEF Write, Running
  <2>3. INIT /\ holder["serial"] = <<c, Depth(c)>>
    BY <2>1, <2>2, Zenon DEF IInv, Port, Held
  <2>4. PICK e \in Cpus : stack[e] # <<>> /\ Top(e).dev = "serial" /\ Top(e).pc \in {"lock_init", "init"}
    BY <2>3, Zenon DEF IInv, Port
  <2>5. Top(e).pc # "init"
    <3> SUFFICES ASSUME Top(e).pc = "init" PROVE FALSE
      BY Zenon
    <3>1. holder["serial"] = <<e, Depth(e)>>
      BY <2>1, <2>4, Zenon DEF IInv, Held
    <3> QED
      BY <2>2, <2>3, <3>1
  <2> QED
    BY <2>4, <2>5, Zenon
<1>2. IInv /\ [Next]_allVars => [A]_allVars
  BY <1>1, Zenon
<1> QED
  BY <1>2, InitIInv, StepIInv, PTL DEF Spec, PortReady
=============================================================================
