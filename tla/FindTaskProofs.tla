--------------------------- MODULE FindTaskProofs ---------------------------
(***************************************************************************)
(* NothingOverlooked and NoTaskDropped for any number of workers.  For the *)
(* first, what a call remembers of its round is enough: each queue it has  *)
(* passed was empty when it looked, or a Retry is among the results.       *)
(***************************************************************************)
EXTENDS FindTask, TLAPS

Locals == [place : Nat, front : Nat, first : {"Empty", "Retry"}, rest : SUBSET {"Empty", "Retry"}]

Types ==
  /\ queue \in [Places -> Seq(Nat)]
  /\ front \in [Places -> Nat]
  /\ pushed \in Nat
  /\ transit \in [Workers -> Seq(Nat)]
  /\ pc \in [Workers -> {"idle", "look", "cas", "deliver", "decide", "none"}]
  /\ loc \in [Workers -> Locals]
  /\ stay \in [Workers -> SUBSET (Places \X Nat)]
  /\ \A c \in Workers : pc[c] \in {"look", "cas"} => loc[c].place \in Places
  /\ \A c \in Workers : loc[c].place = Global => loc[c].first = "Empty" /\ loc[c].rest = {}
  /\ \A c \in Workers : pc[c] \in {"idle", "none"} => loc[c] = Fresh
  /\ \A c \in Workers : pc[c] = "deliver" => transit[c] # <<>>

\* What stayed is still there.
Stays == \A c \in Workers : \A x \in stay[c] : x[2] \in Range(queue[x[1]])

Retried(c) == loc[c].first = "Retry" \/ "Retry" \in loc[c].rest

\* What stayed lies ahead of the round, unless there was a Retry.
Ahead ==
  \A c \in Workers :
    /\ pc[c] \in {"look", "cas"} => Retried(c) \/ \A x \in stay[c] : x[1] >= loc[c].place
    /\ pc[c] = "decide" => Retried(c) \/ stay[c] = {}
    /\ pc[c] = "none" => stay[c] = {}

IInv == Types /\ Stays /\ Ahead

\* Nothing was looked at yet.
LEMMA InitIInv == Init => IInv
  BY FindTaskAssumption
     DEF Init, IInv, Types, Stays, Ahead, Locals, Fresh, Places, Workers, Global

\* The members of a sequence after a push, a removal of k, and an append.
LEMMA Members ==
  ASSUME NEW q \in Seq(Nat)
  PROVE  /\ \A t \in Nat : Range(q) \subseteq Range(Append(q, t))
         /\ \A r \in Seq(Nat) : Range(q) \subseteq Range(q \o r)
         /\ \A k \in 0..Len(q) : Range(q) \subseteq Range(SubSeq(q, 1, k)) \cup Range(SubSeq(q, k + 1, Len(q)))
         /\ q # <<>> => Tail(q) = SubSeq(q, 2, Len(q)) /\ Len(q) >= 1
         /\ Range(q) = {} <=> q = <<>>
<1>0. /\ \A r \in Seq(Nat) : \A i \in 1..Len(r) : r[i] \in Range(r)
      /\ \A x \in Range(q) : \E i \in 1..Len(q) : x = q[i]
  BY DEF Range
<1>1. ASSUME NEW t \in Nat, NEW i \in 1..Len(q) PROVE q[i] \in Range(Append(q, t))
  <2>1. Append(q, t) \in Seq(Nat) /\ i \in 1..Len(Append(q, t)) /\ Append(q, t)[i] = q[i]
    OBVIOUS
  <2> QED
    BY <1>0, <2>1, Zenon
<1>2. ASSUME NEW r \in Seq(Nat), NEW i \in 1..Len(q) PROVE q[i] \in Range(q \o r)
  <2>1. q \o r \in Seq(Nat) /\ i \in 1..Len(q \o r) /\ (q \o r)[i] = q[i]
    OBVIOUS
  <2> QED
    BY <1>0, <2>1, Zenon
<1>3. ASSUME NEW k \in 0..Len(q), NEW i \in 1..Len(q)
      PROVE  q[i] \in Range(SubSeq(q, 1, k)) \cup Range(SubSeq(q, k + 1, Len(q)))
  <2>1. CASE i <= k
    <3> DEFINE r == SubSeq(q, 1, k)
    <3>1. r \in Seq(Nat) /\ i \in 1..Len(r) /\ r[i] = q[i]
      BY <2>1
    <3> QED
      BY <1>0, <3>1, Zenon
  <2>2. CASE i > k
    <3> DEFINE r == SubSeq(q, k + 1, Len(q))
    <3>1. r \in Seq(Nat) /\ Len(r) = Len(q) - k
      OBVIOUS
    <3>2. \A j \in 1..(Len(q) - k) : r[j] = q[k + j]
      OBVIOUS
    <3> HIDE DEF r
    <3>3. i - k \in 1..(Len(q) - k) /\ k + (i - k) = i
      BY <2>2
    <3>4. i - k \in 1..Len(r) /\ r[i - k] = q[i]
      BY <3>1, <3>2, <3>3, Zenon
    <3>5. r[i - k] \in Range(r)
      BY <1>0, <3>1, <3>4, Zenon
    <3> QED
      BY <3>4, <3>5, Zenon DEF r
  <2> QED
    BY <2>1, <2>2
<1>4. ASSUME q # <<>> PROVE Tail(q) = SubSeq(q, 2, Len(q)) /\ Len(q) >= 1
  BY <1>4
<1>5. Range(q) = {} <=> q = <<>>
  <2>1. q # <<>> => 1 \in 1..Len(q)
    OBVIOUS
  <2>2. q = <<>> => 1..Len(q) = {}
    OBVIOUS
  <2> QED
    BY <1>0, <2>1, <2>2, Zenon
<1> QED
  BY <1>0, <1>1, <1>2, <1>3, <1>4, <1>5, Zenon

\* Removing the k front tasks of a place.
LEMMA Removal ==
  ASSUME Types, Stays, NEW p \in Places, NEW k \in 1..Len(queue[p]), TakeOff(p, k),
         queue' = [queue EXCEPT ![p] = SubSeq(@, k + 1, Len(@))]
  PROVE  /\ queue' \in [Places -> Seq(Nat)] /\ front' \in [Places -> Nat]
         /\ stay' \in [Workers -> SUBSET (Places \X Nat)]
         /\ \A c \in Workers : stay'[c] \subseteq stay[c]
         /\ Stays'
<1>0. queue[p] \in Seq(Nat) /\ Len(queue[p]) \in Nat
  BY DEF Types
<1>1. SubSeq(queue[p], k + 1, Len(queue[p])) \in Seq(Nat)
  BY <1>0
<1>2. queue' \in [Places -> Seq(Nat)] /\ front' \in [Places -> Nat]
  BY <1>0, <1>1 DEF Types, TakeOff
<1>3. stay' \in [Workers -> SUBSET (Places \X Nat)] /\ \A c \in Workers : stay'[c] \subseteq stay[c]
  BY Zenon DEF Types, TakeOff
<1>4. ASSUME NEW c \in Workers, NEW x \in stay'[c] PROVE x[2] \in Range(queue'[x[1]])
  <2>1. x \in stay[c] /\ x[1] \in Places /\ x[2] \in Range(queue[x[1]])
        /\ (x[1] # p \/ x[2] \notin Range(SubSeq(queue[p], 1, k)))
    BY <1>4 DEF Types, Stays, TakeOff
  <2>2. CASE x[1] # p
    BY <2>1, <2>2, Zenon DEF Types
  <2>3. CASE x[1] = p
    <3>1. Range(queue[p]) \subseteq Range(SubSeq(queue[p], 1, k))
                                   \cup Range(SubSeq(queue[p], k + 1, Len(queue[p])))
      BY <1>0, Members
    <3>2. queue'[p] = SubSeq(queue[p], k + 1, Len(queue[p]))
      BY Zenon DEF Types
    <3> QED
      BY <2>1, <2>3, <3>1, <3>2, Zenon
  <2> QED
    BY <2>2, <2>3, Zenon
<1> QED
  BY <1>2, <1>3, <1>4, Zenon DEF Stays

\* One attempt further: what it said is remembered.
LEMMA OneFurther ==
  ASSUME Types, NEW c \in Workers, NEW r \in {"Empty", "Retry"}, pc[c] \in {"look", "cas"}, Said(c, r)
  PROVE  /\ loc' \in [Workers -> Locals]
         /\ loc'[c].place = loc[c].place + 1
         /\ Retried(c)' <=> Retried(c) \/ r = "Retry"
         /\ pc' = [pc EXCEPT ![c] = IF loc[c].place = N THEN "decide" ELSE "look"]
         /\ \A d \in Workers : d # c => loc'[d] = loc[d]
<1>1. /\ loc[c] \in Locals /\ loc[c].place \in Nat
      /\ loc[c].place = Global => loc[c].first = "Empty" /\ loc[c].rest = {}
  BY Zenon DEF Types, Locals
<1>2. CASE loc[c].place = Global
  <2>1. loc' = [loc EXCEPT ![c] = After(loc[c], r)]
    BY Zenon DEF Said
  <2>2. [loc[c] EXCEPT !.place = 1, !.front = 0, !.first = r] \in Locals
    BY <1>1, Zenon DEF Locals
  <2>3. loc'[c] = [loc[c] EXCEPT !.place = 1, !.front = 0, !.first = r]
    BY <1>2, <2>1, Zenon DEF Types, After
  <2>4. loc'[c].place = 1 /\ loc'[c].first = r /\ loc'[c].rest = loc[c].rest
    BY <1>1, <2>3, Zenon DEF Locals
  <2>5. loc' \in [Workers -> Locals] /\ \A d \in Workers : d # c => loc'[d] = loc[d]
    BY <2>1, <2>2, <2>3, Zenon DEF Types
  <2> QED
    BY <1>1, <1>2, <2>4, <2>5 DEF Said, Goto, Retried, Global
<1>3. CASE loc[c].place # Global
  <2>1. loc' = [loc EXCEPT ![c] = After(loc[c], r)]
    BY Zenon DEF Said
  <2>2. [loc[c] EXCEPT !.place = loc[c].place + 1, !.front = 0, !.rest = loc[c].rest \cup {r}] \in Locals
    <3>1. loc[c].place + 1 \in Nat /\ loc[c].rest \cup {r} \in SUBSET {"Empty", "Retry"}
      BY <1>1 DEF Locals
    <3> QED
      BY <1>1, <3>1, Zenon DEF Locals
  <2>3. loc'[c] = [loc[c] EXCEPT !.place = loc[c].place + 1, !.front = 0, !.rest = loc[c].rest \cup {r}]
    BY <1>3, <2>1, Zenon DEF Types, After
  <2>4. /\ loc'[c].place = loc[c].place + 1 /\ loc'[c].first = loc[c].first
        /\ loc'[c].rest = loc[c].rest \cup {r}
    BY <1>1, <2>3, Zenon DEF Locals
  <2>5. loc' \in [Workers -> Locals] /\ \A d \in Workers : d # c => loc'[d] = loc[d]
    BY <2>1, <2>2, <2>3, Zenon DEF Types
  <2> QED
    BY <1>1, <2>4, <2>5, Zenon DEF Said, Goto, Retried
<1> QED
  BY <1>2, <1>3, Zenon

\* Push: nothing moves.
LEMMA StepPush == ASSUME IInv, NEW p \in Places, Push(p) PROVE IInv'
<1>0. /\ queue[p] \in Seq(Nat) /\ pushed + 1 \in Nat
      /\ queue' = [queue EXCEPT ![p] = Append(@, pushed + 1)]
      /\ UNCHANGED <<transit, pc, loc, stay>>
  BY DEF IInv, Types, Push
<1>1. front' \in [Places -> Nat]
  <2>1. front \in [Places -> Nat] /\ front[p] + NTasks \in Nat
    BY FindTaskAssumption DEF IInv, Types
  <2>2. front' = front \/ front' = [front EXCEPT ![p] = front[p] + NTasks]
    BY Zenon DEF Push
  <2> QED
    BY <2>1, <2>2, Zenon
<1>2. \A q \in Places : queue'[q] \in Seq(Nat) /\ Range(queue[q]) \subseteq Range(queue'[q])
  <2>1. Append(queue[p], pushed + 1) \in Seq(Nat)
        /\ Range(queue[p]) \subseteq Range(Append(queue[p], pushed + 1))
    BY <1>0, Members
  <2> QED
    BY <1>0, <2>1, Zenon DEF IInv, Types
<1>3. Types'
  BY <1>0, <1>1, <1>2, Zenon DEF IInv, Types, Push
<1>4. Stays'
  BY <1>0, <1>2 DEF IInv, Types, Stays
<1>5. Ahead'
  BY <1>0, Zenon DEF IInv, Ahead, Retried
<1> QED
  BY <1>3, <1>4, <1>5, Zenon DEF IInv

\* Pop: a task of one's own, or the call begins its first round.
LEMMA StepPop == ASSUME IInv, NEW c \in Workers, Pop(c) PROVE IInv'
<1>0. c \in Places /\ pc[c] = "idle" /\ UNCHANGED <<pushed, transit, loc>> /\ loc[c] = Fresh
  BY FindTaskAssumption DEF IInv, Types, Pop, Workers, Places
<1>1. CASE queue[c] # <<>>
  <2>1. /\ queue' = [queue EXCEPT ![c] = Tail(@)] /\ TakeOff(c, 1) /\ pc' = pc
    BY <1>1, Zenon DEF Pop
  <2>2. Tail(queue[c]) = SubSeq(queue[c], 1 + 1, Len(queue[c])) /\ 1 \in 1..Len(queue[c])
    BY <1>0, <1>1, Members DEF IInv, Types
  <2>3. queue' = [queue EXCEPT ![c] = SubSeq(@, 1 + 1, Len(@))]
    BY <2>1, <2>2, Zenon
  <2>4. /\ queue' \in [Places -> Seq(Nat)] /\ front' \in [Places -> Nat]
        /\ stay' \in [Workers -> SUBSET (Places \X Nat)]
        /\ \A d \in Workers : stay'[d] \subseteq stay[d]
        /\ Stays'
    BY <1>0, <2>1, <2>2, <2>3, Removal, Zenon DEF IInv
  <2>5. Types' /\ Ahead'
    BY <1>0, <2>1, <2>4, Zenon DEF IInv, Types, Ahead, Retried
  <2> QED
    BY <2>4, <2>5, Zenon DEF IInv
<1>2. CASE queue[c] = <<>>
  <2>1. /\ stay' = [stay EXCEPT ![c] = UNION {{p} \X Range(queue[p]) : p \in Places}]
        /\ pc' = [pc EXCEPT ![c] = "look"] /\ UNCHANGED <<queue, front>>
    BY <1>2, Zenon DEF Pop, Goto
  <2>2. \A x \in stay'[c] : x \in Places \X Nat /\ x[2] \in Range(queue[x[1]])
    <3>1. \A p \in Places : Range(queue[p]) \subseteq Nat
      BY DEF Range, IInv, Types
    <3> QED
      BY <2>1, <3>1 DEF IInv, Types
  <2>3. stay' \in [Workers -> SUBSET (Places \X Nat)] /\ \A d \in Workers : d # c => stay'[d] = stay[d]
    BY <2>1, <2>2, Zenon DEF IInv, Types
  <2>4. Fresh.place = 0 /\ 0 \in Places
    BY FindTaskAssumption DEF Fresh, Global, Places
  <2>5. Types'
    BY <1>0, <2>1, <2>3, <2>4, Zenon DEF IInv, Types
  <2>6. Stays'
    BY <2>1, <2>2, <2>3, Zenon DEF IInv, Stays
  <2>7. Ahead'
    <3>1. \A x \in stay'[c] : x[1] >= loc'[c].place
      BY <1>0, <2>2, <2>4, FindTaskAssumption DEF Places
    <3> QED
      BY <1>0, <2>1, <2>3, <3>1, Zenon DEF IInv, Types, Ahead, Retried
  <2> QED
    BY <2>5, <2>6, <2>7, Zenon DEF IInv
<1> QED
  BY <1>1, <1>2, Zenon

\* An attempt that took nothing: the place was empty, or there was a Retry.
LEMMA StepSaid ==
  ASSUME IInv, NEW c \in Workers, NEW r \in {"Empty", "Retry"}, pc[c] \in {"look", "cas"},
         Said(c, r), r = "Retry" \/ queue[loc[c].place] = <<>>,
         UNCHANGED <<queue, front, pushed, transit, stay>>
  PROVE  IInv'
<1>0. loc[c].place \in 0..N /\ N \in Nat
  BY FindTaskAssumption, Zenon DEF IInv, Types, Places
<1>1. /\ loc' \in [Workers -> Locals]
      /\ loc'[c].place = loc[c].place + 1
      /\ Retried(c)' <=> Retried(c) \/ r = "Retry"
      /\ pc' = [pc EXCEPT ![c] = IF loc[c].place = N THEN "decide" ELSE "look"]
      /\ \A d \in Workers : d # c => loc'[d] = loc[d]
  BY OneFurther, Zenon DEF IInv
<1>2. pc[c] # "idle" /\ pc'[c] = IF loc[c].place = N THEN "decide" ELSE "look"
  BY <1>1, Zenon DEF IInv, Types
<1>3. \A d \in Workers : d # c => pc'[d] = pc[d]
  BY <1>1, Zenon DEF IInv, Types
<1>4. Types'
  <2>1. pc' \in [Workers -> {"idle", "look", "cas", "deliver", "decide", "none"}]
    BY <1>1, Zenon DEF IInv, Types
  <2>2. loc'[c].place # Global /\ (pc'[c] = "look" => loc'[c].place \in Places)
    BY <1>0, <1>1, <1>2 DEF Global, Places
  <2>3. ASSUME NEW d \in Workers
        PROVE  /\ pc'[d] \in {"look", "cas"} => loc'[d].place \in Places
               /\ loc'[d].place = Global => loc'[d].first = "Empty" /\ loc'[d].rest = {}
               /\ pc'[d] \in {"idle", "none"} => loc'[d] = Fresh
               /\ pc'[d] = "deliver" => transit'[d] # <<>>
    <3>1. CASE d = c
      BY <1>2, <2>2, <3>1, Zenon
    <3>2. CASE d # c
      BY <1>1, <1>3, <3>2 DEF IInv, Types
    <3> QED
      BY <3>1, <3>2, Zenon
  <2>4. /\ queue' \in [Places -> Seq(Nat)] /\ front' \in [Places -> Nat] /\ pushed' \in Nat
        /\ transit' \in [Workers -> Seq(Nat)] /\ stay' \in [Workers -> SUBSET (Places \X Nat)]
    BY Zenon DEF IInv, Types
  <2> QED
    BY <1>1, <2>1, <2>3, <2>4, Zenon DEF Types
<1>5. Stays'
  BY Zenon DEF IInv, Stays
<1>6. ASSUME ~Retried(c)' PROVE \A x \in stay[c] : x[1] >= loc[c].place + 1
  <2>1. r = "Empty" /\ queue[loc[c].place] = <<>> /\ \A x \in stay[c] : x[1] >= loc[c].place
    <3>1. ~Retried(c) /\ r # "Retry"
      BY <1>1, <1>6, Zenon
    <3> QED
      BY <3>1, Zenon DEF IInv, Ahead
  <2>2. Range(queue[loc[c].place]) = {}
    BY <1>0, <2>1, Members, Zenon DEF IInv, Types, Places
  <2>3. \A x \in stay[c] : x[1] \in 0..N /\ x[1] # loc[c].place
    <3>1. stay[c] \subseteq Places \X Nat /\ \A x \in stay[c] : x[2] \in Range(queue[x[1]])
      BY Zenon DEF IInv, Types, Stays
    <3>2. \A x \in stay[c] : x[1] \in Places /\ x[1] # loc[c].place
      BY <2>2, <3>1, Zenon
    <3> QED
      BY <3>2, Zenon DEF Places
  <2> QED
    BY <1>0, <2>1, <2>3
<1>7. Ahead'
  <2>1. Retried(c)' \/ \A x \in stay'[c] : x[1] >= loc'[c].place
    <3>1. stay'[c] = stay[c] /\ loc'[c].place = loc[c].place + 1
      BY <1>1, Zenon
    <3> QED
      BY <1>6, <3>1, Zenon
  <2>2. pc'[c] = "decide" => Retried(c)' \/ stay'[c] = {}
    <3>1. \A x \in stay[c] : x[1] \in 0..N
      BY DEF IInv, Types, Places
    <3> QED
      BY <1>0, <1>2, <1>6, <3>1
  <2>3. ASSUME NEW d \in Workers, d # c PROVE Retried(d)' <=> Retried(d)
    BY <1>1, <2>3, Zenon DEF Retried
  <2> QED
    BY <1>1, <1>2, <1>3, <2>1, <2>2, <2>3 DEF IInv, Ahead
<1> QED
  BY <1>4, <1>5, <1>7, Zenon DEF IInv

\* Look: at an empty place, or with a front to compare.
LEMMA StepLook == ASSUME IInv, NEW c \in Workers, Look(c) PROVE IInv'
<1>0. pc[c] = "look" /\ UNCHANGED <<queue, front, pushed, transit, stay>> /\ loc[c].place \in Places
  BY Zenon DEF Look, IInv, Types
<1>1. CASE queue[loc[c].place] = <<>>
  BY <1>0, <1>1, StepSaid, Zenon DEF Look
<1>2. CASE queue[loc[c].place] # <<>>
  <2>1. /\ loc' = [loc EXCEPT ![c].front = front[loc[c].place]]
        /\ pc' = [pc EXCEPT ![c] = "cas"]
    BY <1>2, Zenon DEF Look, Goto
  <2>2. front[loc[c].place] \in Nat /\ loc[c] \in Locals
    BY <1>0, Zenon DEF IInv, Types
  <2>3. /\ loc'[c] = [loc[c] EXCEPT !.front = front[loc[c].place]]
        /\ \A d \in Workers : d # c => loc'[d] = loc[d] /\ pc'[d] = pc[d]
        /\ pc'[c] = "cas"
    BY <2>1, Zenon DEF IInv, Types
  <2>4. /\ loc'[c] \in Locals /\ loc'[c].place = loc[c].place
        /\ loc'[c].first = loc[c].first /\ loc'[c].rest = loc[c].rest
    BY <2>2, <2>3, Zenon DEF Locals
  <2>5. \A d \in Workers : /\ loc'[d] \in Locals /\ loc'[d].place = loc[d].place
                           /\ loc'[d].first = loc[d].first /\ loc'[d].rest = loc[d].rest
    BY <2>3, <2>4, Zenon DEF IInv, Types
  <2>6. loc' \in [Workers -> Locals] /\ pc' \in [Workers -> {"idle", "look", "cas", "deliver", "decide", "none"}]
    BY <2>1, <2>5, Zenon DEF IInv, Types
  <2>7. Types'
    BY <1>0, <2>3, <2>5, <2>6, ZenonT(40) DEF IInv, Types
  <2>8. Stays' /\ Ahead'
    BY <1>0, <2>3, <2>5 DEF IInv, Stays, Ahead, Retried
  <2> QED
    BY <2>7, <2>8, Zenon DEF IInv
<1> QED
  BY <1>1, <1>2, Zenon

\* Cas: Retry, or a batch is on its way.
LEMMA StepCas == ASSUME IInv, NEW c \in Workers, Cas(c) PROVE IInv'
<1> DEFINE p == loc[c].place
<1>0. pc[c] = "cas" /\ pushed' = pushed /\ p \in Places /\ queue[p] \in Seq(Nat)
  BY Zenon DEF Cas, IInv, Types
<1>1. CASE front[p] # loc[c].front
  BY <1>0, <1>1, StepSaid, Zenon DEF Cas
<1>2. ASSUME NEW k \in Want(p) \cap 1..Len(queue[p]),
             queue' = [queue EXCEPT ![p] = SubSeq(@, k + 1, Len(@))],
             transit' = [transit EXCEPT ![c] = SubSeq(queue[p], 1, k)],
             TakeOff(p, k), Goto(c, "deliver"), UNCHANGED loc
      PROVE  IInv'
  <2>1. /\ queue' \in [Places -> Seq(Nat)] /\ front' \in [Places -> Nat]
        /\ stay' \in [Workers -> SUBSET (Places \X Nat)]
        /\ \A d \in Workers : stay'[d] \subseteq stay[d]
        /\ Stays'
    BY <1>0, <1>2, Removal, Zenon DEF IInv
  <2>2. SubSeq(queue[p], 1, k) \in Seq(Nat) /\ SubSeq(queue[p], 1, k) # <<>>
    <3>1. SubSeq(queue[p], 1, k) \in Seq(Nat) /\ Len(SubSeq(queue[p], 1, k)) = k
      BY <1>0, SMTT(30)
    <3> QED
      BY <3>1
  <2>3. /\ transit' \in [Workers -> Seq(Nat)] /\ transit'[c] # <<>>
        /\ \A d \in Workers : d # c => transit'[d] = transit[d]
    BY <1>2, <2>2, Zenon DEF IInv, Types
  <2>4. /\ pc' \in [Workers -> {"idle", "look", "cas", "deliver", "decide", "none"}]
        /\ pc'[c] = "deliver" /\ \A d \in Workers : d # c => pc'[d] = pc[d]
    BY <1>2, Zenon DEF IInv, Types, Goto
  <2>5. Types'
    BY <1>0, <1>2, <2>1, <2>3, <2>4, Zenon DEF IInv, Types
  <2>6. Ahead'
    BY <1>2, <2>1, <2>4, Zenon DEF IInv, Ahead, Retried
  <2> QED
    BY <2>1, <2>5, <2>6, Zenon DEF IInv
<1> QED
  BY <1>1, <1>2, Zenon DEF Cas

\* What ends a call or a round: the locals are fresh.
LEMMA FreshLocals == Fresh \in Locals /\ Fresh.place = Global /\ Global \in Places
                     /\ Fresh.first = "Empty" /\ Fresh.rest = {}
  BY FindTaskAssumption DEF Fresh, Locals, Global, Places

\* Deliver: the batch joins the worker's own queue.
LEMMA StepDeliver == ASSUME IInv, NEW c \in Workers, Deliver(c) PROVE IInv'
<1>0. /\ pc[c] = "deliver" /\ c \in Places
      /\ transit[c] \in Seq(Nat) /\ transit[c] # <<>> /\ queue[c] \in Seq(Nat)
  BY FindTaskAssumption DEF Deliver, IInv, Types, Workers, Places
<1>1. /\ queue' = [queue EXCEPT ![c] = @ \o Tail(transit[c])]
      /\ transit' = [transit EXCEPT ![c] = <<>>]
      /\ loc' = [loc EXCEPT ![c] = Fresh]
      /\ stay' = [stay EXCEPT ![c] = {}]
      /\ pc' = [pc EXCEPT ![c] = "idle"]
      /\ UNCHANGED <<front, pushed>>
  BY Zenon DEF Deliver, Goto
<1>2. \A q \in Places : queue'[q] \in Seq(Nat) /\ Range(queue[q]) \subseteq Range(queue'[q])
  <2>1. Tail(transit[c]) \in Seq(Nat)
    BY <1>0
  <2>2. queue[c] \o Tail(transit[c]) \in Seq(Nat)
        /\ Range(queue[c]) \subseteq Range(queue[c] \o Tail(transit[c]))
    <3>1. ASSUME NEW q \in Seq(Nat), NEW r \in Seq(Nat)
          PROVE  q \o r \in Seq(Nat) /\ Range(q) \subseteq Range(q \o r)
      BY Members
    <3> QED
      BY <1>0, <2>1, <3>1, Zenon
  <2> QED
    BY <1>0, <1>1, <2>2, Zenon DEF IInv, Types
<1>3. /\ pc'[c] = "idle" /\ loc'[c] = Fresh /\ stay'[c] = {}
      /\ \A d \in Workers : d # c => /\ pc'[d] = pc[d] /\ loc'[d] = loc[d] /\ stay'[d] = stay[d]
                                     /\ transit'[d] = transit[d]
  BY <1>1, Zenon DEF IInv, Types
<1>4. Types'
  <2>1. /\ pc' \in [Workers -> {"idle", "look", "cas", "deliver", "decide", "none"}]
        /\ loc' \in [Workers -> Locals] /\ stay' \in [Workers -> SUBSET (Places \X Nat)]
        /\ transit' \in [Workers -> Seq(Nat)] /\ queue' \in [Places -> Seq(Nat)]
        /\ front' \in [Places -> Nat] /\ pushed' \in Nat
    <3>1. queue' \in [Places -> Seq(Nat)]
      BY <1>1, <1>2, Zenon DEF IInv, Types
    <3>2. transit' \in [Workers -> Seq(Nat)]
      BY <1>1 DEF IInv, Types
    <3> QED
      BY <1>1, <3>1, <3>2, FreshLocals, Zenon DEF IInv, Types
  <2> QED
    BY <1>3, <2>1, FreshLocals, ZenonT(40) DEF IInv, Types
<1>5. ASSUME NEW d \in Workers, NEW x \in stay'[d] PROVE x[2] \in Range(queue'[x[1]])
  <2>1. x \in stay[d]
    BY <1>3, <1>5, Zenon
  <2>2. x[1] \in Places /\ x[2] \in Range(queue[x[1]])
    BY <2>1 DEF IInv, Types, Stays
  <2> QED
    BY <1>2, <2>2, Zenon
<1>6. Ahead'
  BY <1>3 DEF IInv, Ahead, Retried
<1> QED
  BY <1>4, <1>5, <1>6, Zenon DEF IInv, Stays

\* Decide: another round after a Retry, None otherwise.
LEMMA StepDecide == ASSUME IInv, NEW c \in Workers, Decide(c) PROVE IInv'
<1>1. /\ pc[c] = "decide" /\ loc' = [loc EXCEPT ![c] = Fresh]
      /\ UNCHANGED <<queue, front, pushed, transit, stay>>
  BY Zenon DEF Decide
<1>2. PICK l \in {"look", "none"} : pc' = [pc EXCEPT ![c] = l] /\ (l = "none" => ~Retried(c))
  <2>1. loc[c] \in Locals
    BY Zenon DEF IInv, Types
  <2>2. loc[c].first \in {"Empty", "Retry"} /\ loc[c].rest \subseteq {"Empty", "Retry"}
    BY <2>1, Zenon DEF Locals
  <2>3. Retried(c) => OrElse(loc[c].first, Collect(loc[c].rest)) = "Retry"
    BY <2>2, Zenon DEF Retried, OrElse, Collect
  <2> QED
    BY <2>3, Zenon DEF Decide, Goto
<1>3. /\ pc'[c] = l /\ loc'[c] = Fresh
      /\ \A d \in Workers : d # c => pc'[d] = pc[d] /\ loc'[d] = loc[d]
  BY <1>1, <1>2, Zenon DEF IInv, Types
<1>4. Types'
  <2>1. /\ pc' \in [Workers -> {"idle", "look", "cas", "deliver", "decide", "none"}]
        /\ loc' \in [Workers -> Locals]
    BY <1>1, <1>2, FreshLocals, Zenon DEF IInv, Types
  <2> QED
    BY <1>1, <1>3, <2>1, FreshLocals DEF IInv, Types
<1>5. Stays'
  BY <1>1, Zenon DEF IInv, Stays
<1>6. Ahead'
  <2>1. \A x \in stay'[c] : x[1] >= loc'[c].place
    <3>1. \A x \in stay[c] : x[1] \in 0..N
      BY DEF IInv, Types, Places
    <3> QED
      BY <1>1, <1>3, <3>1, FreshLocals, FindTaskAssumption DEF Global
  <2>2. pc'[c] = "none" => stay'[c] = {}
    BY <1>1, <1>2, <1>3, Zenon DEF IInv, Ahead
  <2> QED
    BY <1>1, <1>3, <2>1, <2>2, Zenon DEF IInv, Ahead, Retried
<1> QED
  BY <1>4, <1>5, <1>6, Zenon DEF IInv

\* A worker gives up: it saw every queue empty.
LEMMA StepReturnNone == ASSUME IInv, NEW c \in Workers, ReturnNone(c) PROVE IInv'
<1>1. /\ pc[c] = "none" /\ pc' = [pc EXCEPT ![c] = "idle"] /\ stay' = [stay EXCEPT ![c] = {}]
      /\ UNCHANGED <<queue, front, pushed, transit, loc>>
  BY Zenon DEF ReturnNone, Goto
<1>2. /\ pc'[c] = "idle" /\ stay'[c] = {}
      /\ \A d \in Workers : d # c => pc'[d] = pc[d] /\ stay'[d] = stay[d]
  BY <1>1, Zenon DEF IInv, Types
<1>3. Types'
  <2>1. /\ pc' \in [Workers -> {"idle", "look", "cas", "deliver", "decide", "none"}]
        /\ stay' \in [Workers -> SUBSET (Places \X Nat)]
    BY <1>1, Zenon DEF IInv, Types
  <2> QED
    BY <1>1, <1>2, <2>1 DEF IInv, Types
<1>4. Stays' /\ Ahead'
  BY <1>1, <1>2 DEF IInv, Stays, Ahead, Retried
<1> QED
  BY <1>3, <1>4, Zenon DEF IInv

\* The inductive invariant holds in every reachable state.
LEMMA Inductive == Spec => []IInv
<1>1. ASSUME IInv, UNCHANGED vars PROVE IInv'
  BY <1>1, Zenon DEF IInv, Types, Stays, Ahead, Retried, vars
<1>2. IInv /\ [Next]_vars => IInv'
  BY <1>1, StepPush, StepPop, StepLook, StepCas, StepDeliver, StepDecide, StepReturnNone, Zenon
     DEF Next, Step
<1> QED
  BY <1>2, InitIInv, PTL DEF Spec

\* None is returned only if no task stayed in its queue throughout the call, for
\* any number of workers, any batch size and any number of tasks
\* (task/mod.rs:14-24, crossbeam.rs:1988-1998, 2021-2034).
THEOREM NoneMeansNothing == Spec => []NothingOverlooked
<1>1. IInv => NothingOverlooked
  BY Zenon DEF IInv, Ahead, NothingOverlooked
<1> QED
  BY <1>1, Inductive, PTL

-----------------------------------------------------------------------------
(***************************************************************************)
(* NoTaskDropped.  The queues and the batches on their way are a table of  *)
(* cells, and every step is a move of the table: a push adds a cell, a     *)
(* call that returns a task empties one, and a steal and its delivery      *)
(* rename cells.  The renaming m of a step says from which cell the task   *)
(* of each new cell came.                                                  *)
(***************************************************************************)
\* K says which task is in which cell, P are the tasks pushed, D those returned:
\* a pushed task is in one cell or was returned.
Once(K, P, D) ==
  /\ \A x \in DOMAIN K : K[x] \in P /\ K[x] \notin D
  /\ \A x, y \in DOMAIN K : K[x] = K[y] => x = y
  /\ \A t \in P : t \notin D => \E x \in DOMAIN K : K[x] = t
  /\ D \subseteq P

\* Every task of K2 was in K, cell x being filled from cell m[x].
Came(K2, K, m) ==
  /\ \A x \in DOMAIN K2 : m[x] \in DOMAIN K /\ K2[x] = K[m[x]]
  /\ \A x, y \in DOMAIN K2 : m[x] = m[y] => x = y

\* All came, or all but the one in cell x0.
All(K2, K, m) == \A y \in DOMAIN K : \E x \in DOMAIN K2 : m[x] = y
AllBut(K2, K, m, x0) ==
  /\ x0 \in DOMAIN K
  /\ \A x \in DOMAIN K2 : m[x] # x0
  /\ \A y \in DOMAIN K : y # x0 => \E x \in DOMAIN K2 : m[x] = y

\* Moving tasks about keeps them all.
LEMMA OnceMove ==
  ASSUME NEW K, NEW K2, NEW m, NEW P, NEW D, Once(K, P, D), Came(K2, K, m), All(K2, K, m)
  PROVE  Once(K2, P, D)
<1>1. ASSUME NEW x \in DOMAIN K2, NEW y \in DOMAIN K2, K2[x] = K2[y] PROVE x = y
  <2>1. m[x] \in DOMAIN K /\ m[y] \in DOMAIN K /\ K[m[x]] = K[m[y]]
    BY <1>1, Zenon DEF Came
  <2>2. m[x] = m[y]
    BY <2>1 DEF Once
  <2> QED
    BY <2>2, Zenon DEF Came
<1>2. ASSUME NEW t \in P, t \notin D PROVE \E x \in DOMAIN K2 : K2[x] = t
  <2>1. PICK y \in DOMAIN K : K[y] = t
    BY <1>2, Zenon DEF Once
  <2>2. PICK x \in DOMAIN K2 : m[x] = y
    BY Zenon DEF All
  <2> QED
    BY <2>1, <2>2, Zenon DEF Came
<1>3. \A x \in DOMAIN K2 : K2[x] \in P /\ K2[x] \notin D
  BY Zenon DEF Once, Came
<1> QED
  BY <1>1, <1>2, <1>3, Zenon DEF Once

\* Returning one task and moving the others about.
LEMMA OnceTake ==
  ASSUME NEW K, NEW K2, NEW m, NEW x0, NEW P, NEW D, NEW D2, Once(K, P, D), Came(K2, K, m),
         AllBut(K2, K, m, x0), D2 = D \cup {K[x0]}
  PROVE  Once(K2, P, D2)
<1>0. x0 \in DOMAIN K /\ K[x0] \in P
  BY Zenon DEF Once, AllBut
<1>1. ASSUME NEW x \in DOMAIN K2, NEW y \in DOMAIN K2, K2[x] = K2[y] PROVE x = y
  <2>1. m[x] \in DOMAIN K /\ m[y] \in DOMAIN K /\ K[m[x]] = K[m[y]]
    BY <1>1, Zenon DEF Came
  <2>2. m[x] = m[y]
    BY <2>1 DEF Once
  <2> QED
    BY <2>2, Zenon DEF Came
<1>2. ASSUME NEW t \in P, t \notin D2 PROVE \E x \in DOMAIN K2 : K2[x] = t
  <2>1. PICK y \in DOMAIN K : K[y] = t
    BY <1>2, Zenon DEF Once
  <2>2. PICK x \in DOMAIN K2 : m[x] = y
    BY <1>2, <2>1, Zenon DEF AllBut
  <2> QED
    BY <2>1, <2>2, Zenon DEF Came
<1>3. ASSUME NEW x \in DOMAIN K2 PROVE K2[x] \in P /\ K2[x] \notin D2
  <2>1. m[x] \in DOMAIN K /\ K2[x] = K[m[x]] /\ m[x] # x0
    BY Zenon DEF Came, AllBut
  <2> QED
    BY <1>0, <2>1, Zenon DEF Once
<1>4. D2 \subseteq P
  BY <1>0, Zenon DEF Once
<1> QED
  BY <1>1, <1>2, <1>3, <1>4, Zenon DEF Once

\* K2 is K with t in the new cell x0.
Added(K2, K, x0, t) ==
  /\ x0 \notin DOMAIN K /\ DOMAIN K2 = DOMAIN K \cup {x0}
  /\ K2[x0] = t /\ \A x \in DOMAIN K : K2[x] = K[x]

\* Pushing a new task.
LEMMA OncePush ==
  ASSUME NEW K, NEW K2, NEW x0, NEW P, NEW P2, NEW D, NEW t, t \notin P, P2 = P \cup {t},
         Once(K, P, D), Added(K2, K, x0, t)
  PROVE  Once(K2, P2, D)
<1>0. t \notin D
  BY Zenon DEF Once
<1>1. \A x \in DOMAIN K2 : K2[x] \in P2 /\ K2[x] \notin D
  BY <1>0, Zenon DEF Once, Added
<1>2. \A x \in DOMAIN K : K2[x] # t
  BY Zenon DEF Once, Added
<1>3. \A x, y \in DOMAIN K2 : K2[x] = K2[y] => x = y
  BY <1>2, Zenon DEF Once, Added
<1>4. ASSUME NEW u \in P2, u \notin D PROVE \E x \in DOMAIN K2 : K2[x] = u
  <2>1. CASE u = t
    BY <2>1, Zenon DEF Added
  <2>2. CASE u \in P
    <3>1. PICK x \in DOMAIN K : K[x] = u
      BY <1>4, <2>2, Zenon DEF Once
    <3> QED
      BY <3>1, Zenon DEF Added
  <2> QED
    BY <2>1, <2>2, Zenon
<1>5. D \subseteq P2
  BY Zenon DEF Once
<1> QED
  BY <1>1, <1>3, <1>4, <1>5, Zenon DEF Once

-----------------------------------------------------------------------------
\* The cells a task can be in: number i of p's queue is <<p, "q", i>>, number i
\* of the batch on its way to p is <<p, "t", i>>.
Line(p, s) == IF s = "q" THEN queue[p] ELSE IF p = Global THEN <<>> ELSE transit[p]
Cells == {x \in Places \X {"q", "t"} \X Int : 1 <= x[3] /\ x[3] <= Len(Line(x[1], x[2]))}
Holds == [x \in Cells |-> Line(x[1], x[2])[x[3]]]

\* A batch is on its way only in Deliver.
Waiting == \A c \in Workers : pc[c] # "deliver" => transit[c] = <<>>

TaskInv == Waiting /\ Once(Holds, 1..pushed, done)

\* A cell is given by its three parts.
LEMMA Cell ==
  ASSUME NEW p \in Places, NEW s \in {"q", "t"}, NEW i \in Int
  PROVE  /\ <<p, s, i>> \in DOMAIN Holds <=> 1 <= i /\ i <= Len(Line(p, s))
         /\ 1 <= i /\ i <= Len(Line(p, s)) => Holds[<<p, s, i>>] = Line(p, s)[i]
         /\ <<p, s, i>> \in DOMAIN Holds' <=> 1 <= i /\ i <= Len(Line(p, s)')
         /\ 1 <= i /\ i <= Len(Line(p, s)') => Holds'[<<p, s, i>>] = Line(p, s)'[i]
<1>1. /\ <<p, s, i>> \in Cells <=> 1 <= i /\ i <= Len(Line(p, s))
      /\ <<p, s, i>> \in Cells' <=> 1 <= i /\ i <= Len(Line(p, s)')
  BY Zenon DEF Cells
<1> QED
  BY <1>1, Zenon DEF Holds

\* And there are no others.
LEMMA CellCases ==
  /\ \A x \in DOMAIN Holds : \E p \in Places, s \in {"q", "t"}, i \in Int :
       x = <<p, s, i>> /\ 1 <= i /\ i <= Len(Line(p, s))
  /\ \A x \in DOMAIN Holds' : \E p \in Places, s \in {"q", "t"}, i \in Int :
       x = <<p, s, i>> /\ 1 <= i /\ i <= Len(Line(p, s)')
<1>1. ASSUME NEW x \in Cells PROVE \E p \in Places, s \in {"q", "t"}, i \in Int :
         x = <<p, s, i>> /\ 1 <= i /\ i <= Len(Line(p, s))
  <2>1. x \in Places \X {"q", "t"} \X Int /\ x = <<x[1], x[2], x[3]>>
    BY DEF Cells
  <2> QED
    BY <2>1, Zenon DEF Cells
<1>2. ASSUME NEW x \in Cells' PROVE \E p \in Places, s \in {"q", "t"}, i \in Int :
         x = <<p, s, i>> /\ 1 <= i /\ i <= Len(Line(p, s)')
  <2>1. x \in Places \X {"q", "t"} \X Int /\ x = <<x[1], x[2], x[3]>>
    BY DEF Cells
  <2> QED
    BY <2>1, Zenon DEF Cells
<1> QED
  BY <1>1, <1>2, Zenon DEF Holds

\* Nothing moves.
LEMMA OnceSame ==
  ASSUME \A p \in Places, s \in {"q", "t"} : Line(p, s)' = Line(p, s)
  PROVE  Holds' = Holds
<1>1. Cells' = Cells
  BY Zenon DEF Cells
<1> QED
  BY <1>1, Zenon DEF Holds, Cells

\* The lines are sequences.
LEMMA Lines ==
  ASSUME Types, NEW p \in Places, NEW s \in {"q", "t"}
  PROVE  Line(p, s) \in Seq(Nat) /\ Len(Line(p, s)) \in Nat
<1>1. p # Global => p \in Workers
  BY FindTaskAssumption DEF Places, Workers, Global
<1>2. Line(p, s) \in Seq(Nat)
  BY <1>1 DEF Types, Line
<1> QED
  BY <1>2

\* Every line other than (p, s) is as before.
Rest(p, s) == \A q \in Places, r \in {"q", "t"} : <<q, r>> # <<p, s>> => Line(q, r)' = Line(q, r)

\* A push adds a cell.
LEMMA TaskPush ==
  ASSUME IInv, TaskInv, NEW p \in Places, Push(p)
  PROVE  TaskInv'
<1>0. /\ queue' = [queue EXCEPT ![p] = Append(@, pushed + 1)] /\ pushed' = pushed + 1
      /\ UNCHANGED <<transit, done, pc>>
  BY Zenon DEF Push
<1>1. /\ Line(p, "q") \in Seq(Nat) /\ Line(p, "q")' = Append(Line(p, "q"), pushed + 1) /\ Rest(p, "q")
      /\ pushed \in Nat
  <2>1. queue \in [Places -> Seq(Nat)] /\ pushed \in Nat
    BY Zenon DEF IInv, Types
  <2>2. Line(p, "q") = queue[p] /\ Line(p, "q")' = queue'[p]
    BY Zenon DEF Line
  <2>3. Rest(p, "q")
    BY <1>0, <2>1, Zenon DEF Rest, Line
  <2> QED
    BY <1>0, <2>1, <2>2, <2>3, Zenon
<1>2. PICK z \in Nat : z = Len(Line(p, "q")) + 1
  BY <1>1
<1>3. /\ Len(Line(p, "q")') = z /\ Line(p, "q")'[z] = pushed + 1 /\ Len(Line(p, "q")) = z - 1
      /\ \A i \in Int : 1 <= i /\ i < z => Line(p, "q")'[i] = Line(p, "q")[i]
  BY <1>1, <1>2, SMTT(30)
<1> DEFINE x0 == <<p, "q", z>>
<1>4. Added(Holds', Holds, x0, pushed + 1)
  <2>1. x0 \notin DOMAIN Holds /\ x0 \in DOMAIN Holds' /\ Holds'[x0] = pushed + 1
    BY <1>2, <1>3, Cell
  <2>2. ASSUME NEW x \in DOMAIN Holds PROVE x \in DOMAIN Holds' /\ Holds'[x] = Holds[x]
    <3>1. PICK q \in Places, s \in {"q", "t"}, i \in Int :
            x = <<q, s, i>> /\ 1 <= i /\ i <= Len(Line(q, s))
      BY CellCases, Zenon
    <3>2. CASE q = p /\ s = "q"
      <4>1. 1 <= i /\ i < z /\ i <= Len(Line(p, "q")')
        BY <1>2, <1>3, <3>1, <3>2
      <4> QED
        BY <1>3, <3>1, <3>2, <4>1, Cell, Zenon
    <3>3. CASE ~(q = p /\ s = "q")
      <4>1. Line(q, s)' = Line(q, s)
        BY <1>1, <3>3, Zenon DEF Rest
      <4> QED
        BY <3>1, <4>1, Cell
    <3> QED
      BY <3>2, <3>3, Zenon
  <2>3. ASSUME NEW x \in DOMAIN Holds', x # x0 PROVE x \in DOMAIN Holds
    <3>1. PICK q \in Places, s \in {"q", "t"}, i \in Int :
            x = <<q, s, i>> /\ 1 <= i /\ i <= Len(Line(q, s)')
      BY CellCases, Zenon
    <3>2. CASE q = p /\ s = "q"
      <4>1. i # z
        BY <2>3, <3>1, <3>2, Zenon
      <4>2. 1 <= i /\ i <= Len(Line(p, "q"))
        BY <1>2, <1>3, <3>1, <3>2, <4>1
      <4> QED
        BY <3>1, <3>2, <4>2, Cell, Zenon
    <3>3. CASE ~(q = p /\ s = "q")
      <4>1. Line(q, s)' = Line(q, s)
        BY <1>1, <3>3, Zenon DEF Rest
      <4> QED
        BY <3>1, <4>1, Cell, Zenon
    <3> QED
      BY <3>2, <3>3, Zenon
  <2> HIDE DEF x0
  <2> QED
    BY <2>1, <2>2, <2>3, Zenon DEF Added
<1>5. 1..pushed' = (1..pushed) \cup {pushed + 1} /\ pushed + 1 \notin 1..pushed
  BY <1>0, <1>1
<1>6. Once(Holds', 1..pushed', done)
  <2>1. PICK P : P = 1..pushed
    BY Zenon
  <2>2. PICK P2 : P2 = 1..pushed'
    BY Zenon
  <2>3. PICK t : t = pushed + 1
    BY Zenon
  <2>4. t \notin P /\ P2 = P \cup {t} /\ Once(Holds, P, done) /\ Added(Holds', Holds, x0, t)
    BY <1>4, <1>5, <2>1, <2>2, <2>3, Zenon DEF TaskInv
  <2> HIDE DEF x0
  <2>5. Once(Holds', P2, done)
    BY <2>4, OncePush, Zenon
  <2> QED
    BY <2>2, <2>5, Zenon
<1> QED
  BY <1>0, <1>6, Zenon DEF TaskInv, Waiting

\* The cells after the first k tasks left p's queue for c's batch: what was
\* where.  With no batch, c is Global.
Left(p, k, c) ==
  [x \in DOMAIN Holds' |-> IF x[1] = p /\ x[2] = "q" THEN <<p, "q", x[3] + k>>
                           ELSE IF x[1] = c /\ x[2] = "t" THEN <<p, "q", x[3]>> ELSE x]

\* p's first k tasks left its queue, and those of them that c's batch has are
\* all it has.
Leaves(p, k, c, n) ==
  /\ p \in Places /\ c \in Places /\ k \in Int /\ n \in Int /\ 0 <= n /\ n <= k
  /\ k <= Len(Line(p, "q"))
  /\ Line(p, "q") \in Seq(Nat)
  /\ Line(p, "q")' = SubSeq(Line(p, "q"), k + 1, Len(Line(p, "q")))
  /\ Line(c, "t") = <<>> /\ Line(c, "t")' = SubSeq(Line(p, "q"), 1, n)
  /\ \A q \in Places, r \in {"q", "t"} : <<q, r>> \notin {<<p, "q">>, <<c, "t">>} =>
       Line(q, r)' = Line(q, r)

\* The cells of the two lines.
LEMMA LeftCells ==
  ASSUME NEW p, NEW k, NEW c, NEW n, Leaves(p, k, c, n), NEW i \in Int
  PROVE  /\ <<p, "q", i>> \in DOMAIN Holds' <=> 1 <= i /\ i + k <= Len(Line(p, "q"))
         /\ 1 <= i /\ i + k <= Len(Line(p, "q")) => Holds'[<<p, "q", i>>] = Line(p, "q")[i + k]
         /\ <<c, "t", i>> \in DOMAIN Holds' <=> 1 <= i /\ i <= n
         /\ 1 <= i /\ i <= n => Holds'[<<c, "t", i>>] = Line(p, "q")[i]
         /\ <<c, "t", i>> \notin DOMAIN Holds
<1>0. /\ p \in Places /\ c \in Places /\ k \in Int /\ n \in Int /\ 0 <= n /\ n <= k
      /\ k <= Len(Line(p, "q")) /\ Line(p, "q") \in Seq(Nat)
      /\ Line(p, "q")' = SubSeq(Line(p, "q"), k + 1, Len(Line(p, "q")))
      /\ Line(c, "t") = <<>> /\ Line(c, "t")' = SubSeq(Line(p, "q"), 1, n)
  BY Zenon DEF Leaves
<1>1. PICK z : z = Line(p, "q")
  BY Zenon
<1>2. z \in Seq(Nat) /\ k <= Len(z) /\ Len(z) \in Nat
  BY <1>0, <1>1
<1>3. /\ Len(SubSeq(z, k + 1, Len(z))) = Len(z) - k
      /\ 1 <= i /\ i <= Len(z) - k => SubSeq(z, k + 1, Len(z))[i] = z[i + k]
  BY <1>0, <1>2
<1>4. Len(SubSeq(z, 1, n)) = n /\ (1 <= i /\ i <= n => SubSeq(z, 1, n)[i] = z[i])
  BY <1>0, <1>2
<1>5. i + k <= Len(z) <=> i <= Len(z) - k
  BY <1>0, <1>2
<1>6. /\ <<p, "q", i>> \in DOMAIN Holds' <=> 1 <= i /\ i + k <= Len(Line(p, "q"))
      /\ 1 <= i /\ i + k <= Len(Line(p, "q")) => Holds'[<<p, "q", i>>] = Line(p, "q")[i + k]
  <2>1. /\ i <= Len(Line(p, "q")') <=> i + k <= Len(Line(p, "q"))
        /\ 1 <= i /\ i <= Len(Line(p, "q")') => Line(p, "q")'[i] = Line(p, "q")[i + k]
    BY <1>0, <1>1, <1>3, <1>5, Zenon
  <2>2. p \in Places /\ "q" \in {"q", "t"}
    BY <1>0, Zenon
  <2> QED
    BY <2>1, <2>2, Cell, Zenon
<1>7. /\ <<c, "t", i>> \in DOMAIN Holds' <=> 1 <= i /\ i <= n
      /\ 1 <= i /\ i <= n => Holds'[<<c, "t", i>>] = Line(p, "q")[i]
  <2>1. Len(Line(c, "t")') = n /\ (1 <= i /\ i <= n => Line(c, "t")'[i] = Line(p, "q")[i])
    BY <1>0, <1>1, <1>4, Zenon
  <2>2. c \in Places /\ "t" \in {"q", "t"}
    BY <1>0, Zenon
  <2> QED
    BY <2>1, <2>2, Cell, Zenon
<1>8. <<c, "t", i>> \notin DOMAIN Holds
  BY <1>0, Cell
<1> QED
  BY <1>6, <1>7, <1>8, Zenon

\* Everything that is in a cell was in one before.
LEMMA LeavesCame ==
  ASSUME NEW p, NEW k, NEW c, NEW n, Leaves(p, k, c, n), NEW m, m = Left(p, k, c)
  PROVE  Came(Holds', Holds, m)
<1>0. /\ p \in Places /\ c \in Places /\ k \in Int /\ n \in Int /\ 0 <= n /\ n <= k
      /\ k <= Len(Line(p, "q")) /\ Len(Line(p, "q")) \in Nat
      /\ \A q \in Places, r \in {"q", "t"} : <<q, r>> \notin {<<p, "q">>, <<c, "t">>} =>
           Line(q, r)' = Line(q, r)
  BY DEF Leaves
<1>1. ASSUME NEW x \in DOMAIN Holds'
      PROVE  /\ \/ \E i \in Int : x = <<p, "q", i>> /\ m[x] = <<p, "q", i + k>> /\ 1 <= i
                \/ \E i \in Int : x = <<c, "t", i>> /\ m[x] = <<p, "q", i>> /\ 1 <= i /\ i <= n
                \/ m[x] = x /\ \A i \in Int : x # <<p, "q", i>>
             /\ m[x] \in DOMAIN Holds /\ Holds'[x] = Holds[m[x]]
  <2>1. PICK q \in Places, s \in {"q", "t"}, i \in Int :
           x = <<q, s, i>> /\ 1 <= i /\ i <= Len(Line(q, s)')
    BY CellCases, Zenon
  <2>2. CASE q = p /\ s = "q"
    <3>1. m[x] = <<p, "q", i + k>>
      BY <2>1, <2>2, Zenon DEF Left
    <3>2. i + k <= Len(Line(p, "q")) /\ Holds'[x] = Line(p, "q")[i + k]
      BY <2>1, <2>2, LeftCells, Zenon
    <3>4. i + k \in Int /\ 1 <= i + k
      BY <1>0, <2>1
    <3>3. m[x] \in DOMAIN Holds /\ Holds[m[x]] = Line(p, "q")[i + k]
      BY <1>0, <3>1, <3>2, <3>4, Cell
    <3> QED
      BY <2>1, <2>2, <3>1, <3>2, <3>3, Zenon
  <2>3. CASE q = c /\ s = "t"
    <3>1. m[x] = <<p, "q", i>>
      BY <2>1, <2>3, Zenon DEF Left
    <3>5. x \in DOMAIN Holds' /\ x = <<c, "t", i>>
      BY <2>1, <2>3, Zenon
    <3>6. /\ <<c, "t", i>> \in DOMAIN Holds' <=> 1 <= i /\ i <= n
          /\ 1 <= i /\ i <= n => Holds'[<<c, "t", i>>] = Line(p, "q")[i]
      BY LeftCells, Zenon
    <3>4. 1 <= i /\ i <= n /\ Holds'[x] = Line(p, "q")[i]
      BY <3>5, <3>6, Zenon
    <3>2. 1 <= i /\ i <= n /\ i <= Len(Line(p, "q")) /\ Holds'[x] = Line(p, "q")[i]
      BY <1>0, <3>4
    <3>3. m[x] \in DOMAIN Holds /\ Holds[m[x]] = Line(p, "q")[i]
      BY <1>0, <3>1, <3>2, Cell
    <3> QED
      BY <2>1, <2>3, <3>1, <3>2, <3>3, Zenon
  <2>4. CASE ~(q = p /\ s = "q") /\ ~(q = c /\ s = "t")
    <3>1. m[x] = x
      BY <2>1, <2>4, Zenon DEF Left
    <3>2. Line(q, s)' = Line(q, s)
      BY <1>0, <2>4, Zenon
    <3>3. m[x] \in DOMAIN Holds /\ Holds'[x] = Holds[m[x]]
      BY <2>1, <3>1, <3>2, Cell
    <3> QED
      BY <2>1, <2>4, <3>1, <3>3, Zenon
  <2> QED
    BY <2>2, <2>3, <2>4, Zenon
<1>2. ASSUME NEW x \in DOMAIN Holds', NEW y \in DOMAIN Holds', m[x] = m[y] PROVE x = y
  <2>1. CASE \E i \in Int : x = <<p, "q", i>> /\ m[x] = <<p, "q", i + k>> /\ 1 <= i
    <3>1. PICK i \in Int : x = <<p, "q", i>> /\ m[x] = <<p, "q", i + k>> /\ 1 <= i
      BY <2>1, Zenon
    <3>2. ~\E j \in Int : y = <<c, "t", j>> /\ m[y] = <<p, "q", j>> /\ 1 <= j /\ j <= n
      BY <1>0, <1>2, <3>1
    <3>3. m[y] # y \/ \E j \in Int : y = <<p, "q", j>>
      BY <1>0, <1>2, <3>1
    <3>4. PICK j \in Int : y = <<p, "q", j>> /\ m[y] = <<p, "q", j + k>>
      BY <1>1, <3>2, <3>3, Zenon
    <3>5. i + k = j + k
      BY <1>2, <3>1, <3>4
    <3> QED
      BY <1>0, <3>1, <3>4, <3>5
  <2>2. CASE \E i \in Int : x = <<c, "t", i>> /\ m[x] = <<p, "q", i>> /\ 1 <= i /\ i <= n
    <3>1. PICK i \in Int : x = <<c, "t", i>> /\ m[x] = <<p, "q", i>> /\ 1 <= i /\ i <= n
      BY <2>2, Zenon
    <3>2. ~\E j \in Int : y = <<p, "q", j>> /\ m[y] = <<p, "q", j + k>> /\ 1 <= j
      BY <1>0, <1>2, <3>1
    <3>3. m[y] # y \/ \E j \in Int : y = <<p, "q", j>>
      BY <1>0, <1>2, <3>1, Zenon
    <3>4. PICK j \in Int : y = <<c, "t", j>> /\ m[y] = <<p, "q", j>>
      BY <1>1, <3>2, <3>3, Zenon
    <3> QED
      BY <1>2, <3>1, <3>4
  <2>3. CASE m[x] = x /\ \A i \in Int : x # <<p, "q", i>>
    <3>1. \A i \in Int : m[y] # <<p, "q", i>>
      BY <1>2, <2>3, Zenon
    <3>2. \A i \in Int : i + k \in Int
      BY <1>0
    <3>3. m[y] = y
      BY <1>1, <3>1, <3>2, Zenon
    <3> QED
      BY <1>2, <2>3, <3>3, Zenon
  <2> QED
    BY <1>1, <2>1, <2>2, <2>3, Zenon
<1> QED
  BY <1>1, <1>2, Zenon DEF Came

\* What was in a cell still is, except the tasks n + 1 to k of p's queue.
LEMMA LeavesBack ==
  ASSUME NEW p, NEW k, NEW c, NEW n, Leaves(p, k, c, n), NEW m, m = Left(p, k, c),
         NEW y \in DOMAIN Holds, \A i \in Int : n < i /\ i <= k => y # <<p, "q", i>>
  PROVE  \E x \in DOMAIN Holds' : m[x] = y
<1>0. /\ p \in Places /\ c \in Places /\ k \in Int /\ n \in Int /\ 0 <= n /\ n <= k
      /\ k <= Len(Line(p, "q")) /\ Len(Line(p, "q")) \in Nat
      /\ \A q \in Places, r \in {"q", "t"} : <<q, r>> \notin {<<p, "q">>, <<c, "t">>} =>
           Line(q, r)' = Line(q, r)
  BY DEF Leaves
<1>1. PICK q \in Places, s \in {"q", "t"}, i \in Int : y = <<q, s, i>> /\ 1 <= i /\ i <= Len(Line(q, s))
  BY CellCases, Zenon
<1>2. CASE q = p /\ s = "q" /\ i > k
  <2>1. PICK j \in Int : j = i - k
    BY <1>0
  <2>2. 1 <= j /\ j + k = i /\ i <= Len(Line(p, "q"))
    BY <1>0, <1>1, <1>2, <2>1
  <2>3. <<p, "q", j>> \in DOMAIN Holds'
    BY <1>0, <2>2, LeftCells, Zenon
  <2>4. m[<<p, "q", j>>] = <<p, "q", j + k>>
    BY <2>3, Zenon DEF Left
  <2> QED
    BY <1>1, <1>2, <2>2, <2>3, <2>4, Zenon
<1>3. CASE q = p /\ s = "q" /\ i <= k
  <2>1. i <= n
    BY <1>0, <1>1, <1>3
  <2>2. <<c, "t", i>> \in DOMAIN Holds'
    BY <1>0, <1>1, <2>1, LeftCells, Zenon
  <2>3. m[<<c, "t", i>>] = <<p, "q", i>>
    BY <2>2, Zenon DEF Left
  <2> QED
    BY <1>1, <1>3, <2>2, <2>3, Zenon
<1>4. CASE ~(q = p /\ s = "q")
  <2>1. ~(q = c /\ s = "t")
    BY <1>1, LeftCells, Zenon
  <2>2. Line(q, s)' = Line(q, s)
    BY <1>0, <1>4, <2>1, Zenon
  <2>3. y \in DOMAIN Holds'
    BY <1>1, <2>2, Cell, Zenon
  <2>4. m[y] = y
    BY <1>1, <1>4, <2>1, <2>3, Zenon DEF Left
  <2> QED
    BY <2>3, <2>4, Zenon
<1> QED
  BY <1>0, <1>1, <1>2, <1>3, <1>4

\* A worker takes the front task of its own queue, or begins to look around.
LEMMA TaskPop ==
  ASSUME IInv, TaskInv, NEW c \in Workers, Pop(c)
  PROVE  TaskInv'
<1>0. pc[c] = "idle" /\ UNCHANGED <<pushed, transit>> /\ c \in Places /\ Global \in Places /\ c # Global
  BY FindTaskAssumption DEF Pop, Workers, Places, Global
<1>1. CASE queue[c] # <<>>
  <2>1. queue' = [queue EXCEPT ![c] = Tail(@)] /\ done' = done \cup {Head(queue[c])} /\ pc' = pc
    BY <1>1, Zenon DEF Pop
  <2>2. queue \in [Places -> Seq(Nat)] /\ queue[c] \in Seq(Nat) /\ Len(queue[c]) \in Nat
    BY <1>0 DEF IInv, Types
  <2>3. /\ Len(queue[c]) >= 1 /\ Tail(queue[c]) = SubSeq(queue[c], 1 + 1, Len(queue[c]))
        /\ SubSeq(queue[c], 1, 0) = <<>> /\ Head(queue[c]) = queue[c][1]
    BY <1>1, <2>2
  <2>4. Leaves(c, 1, Global, 0)
    <3>1. /\ Line(c, "q") = queue[c] /\ Line(c, "q")' = Tail(queue[c])
          /\ Line(Global, "t") = <<>> /\ Line(Global, "t")' = <<>>
      BY <1>0, <2>1, <2>2, Zenon DEF Line
    <3>2. ASSUME NEW q \in Places, NEW r \in {"q", "t"}, <<q, r>> \notin {<<c, "q">>, <<Global, "t">>}
          PROVE  Line(q, r)' = Line(q, r)
      <4>1. CASE r = "q"
        <5>1. q # c
          BY <3>2, <4>1, Zenon
        <5> QED
          BY <2>1, <2>2, <4>1, <5>1, Zenon DEF Line
      <4>2. CASE r = "t"
        BY <1>0, <4>2, Zenon DEF Line
      <4> QED
        BY <4>1, <4>2, Zenon
    <3> QED
      <4>1. /\ Line(c, "q")' = SubSeq(Line(c, "q"), 1 + 1, Len(Line(c, "q")))
            /\ Line(Global, "t")' = SubSeq(Line(c, "q"), 1, 0)
            /\ Line(c, "q") \in Seq(Nat) /\ 1 <= Len(Line(c, "q"))
        BY <2>2, <2>3, <3>1, Zenon
      <4> QED
        BY <1>0, <3>1, <3>2, <4>1 DEF Leaves
  <2>5. PICK m : m = Left(c, 1, Global)
    BY Zenon
  <2>6. Came(Holds', Holds, m)
    BY <2>4, <2>5, LeavesCame, Zenon
  <2>7. PICK x0 : x0 = <<c, "q", 1>>
    BY Zenon
  <2>8. x0 \in DOMAIN Holds /\ Holds[x0] = Head(queue[c])
    <3>1. Line(c, "q") = queue[c]
      BY Zenon DEF Line
    <3> QED
      BY <1>0, <2>2, <2>3, <2>7, <3>1, Cell
  <2>9. ASSUME NEW x \in DOMAIN Holds' PROVE m[x] # x0
    <3>1. PICK q \in Places, s \in {"q", "t"}, i \in Int :
             x = <<q, s, i>> /\ 1 <= i /\ i <= Len(Line(q, s)')
      BY CellCases, Zenon
    <3>2. CASE q = c /\ s = "q"
      <4>1. m[x] = <<c, "q", i + 1>>
        BY <2>5, <3>1, <3>2, Zenon DEF Left
      <4> QED
        BY <2>7, <3>1, <4>1
    <3>3. CASE q = Global /\ s = "t"
      <4>1. Len(Line(q, s)') = 0
        BY <3>3, Zenon DEF Line
      <4> QED
        BY <3>1, <4>1
    <3>4. CASE ~(q = c /\ s = "q") /\ ~(q = Global /\ s = "t")
      <4>1. m[x] = x
        BY <2>5, <3>1, <3>4, Zenon DEF Left
      <4> QED
        BY <2>7, <3>1, <3>4, <4>1
    <3> QED
      BY <3>2, <3>3, <3>4, Zenon
  <2>10. ASSUME NEW y \in DOMAIN Holds, y # x0 PROVE \E x \in DOMAIN Holds' : m[x] = y
    <3>1. \A i \in Int : 0 < i /\ i <= 1 => y # <<c, "q", i>>
      BY <2>7, <2>10
    <3> QED
      BY <2>4, <2>5, <3>1, LeavesBack
  <2>11. AllBut(Holds', Holds, m, x0)
    BY <2>8, <2>9, <2>10, Zenon DEF AllBut
  <2>12. done' = done \cup {Holds[x0]}
    BY <2>1, <2>8, Zenon
  <2>13. Once(Holds', 1..pushed, done')
    <3>1. PICK P : P = 1..pushed
      BY Zenon
    <3>2. Once(Holds, P, done)
      BY <3>1, Zenon DEF TaskInv
    <3>3. Once(Holds', P, done')
      BY <2>6, <2>11, <2>12, <3>2, OnceTake, Zenon
    <3> QED
      BY <3>1, <3>3, Zenon
  <2> QED
    BY <1>0, <2>1, <2>13, Zenon DEF TaskInv, Waiting
<1>2. CASE queue[c] = <<>>
  <2>1. UNCHANGED <<queue, done>> /\ pc' = [pc EXCEPT ![c] = "look"]
    BY <1>2, Zenon DEF Pop, Goto
  <2>2. Holds' = Holds
    BY <1>0, <2>1, OnceSame, Zenon DEF Line
  <2>3. Waiting'
    BY <1>0, <2>1, Zenon DEF TaskInv, Waiting, IInv, Types
  <2> QED
    BY <1>0, <2>1, <2>2, <2>3, Zenon DEF TaskInv
<1> QED
  BY <1>1, <1>2, Zenon

\* A batch leaves the queue it is taken from.
LEMMA TaskCas ==
  ASSUME IInv, TaskInv, NEW c \in Workers, Cas(c)
  PROVE  TaskInv'
<1>p. PICK p \in Places : p = loc[c].place
  BY Zenon DEF Cas, IInv, Types
<1>0. /\ pc[c] = "cas" /\ p \in Places /\ UNCHANGED <<pushed, done>> /\ c \in Places /\ c # Global
      /\ transit[c] = <<>> /\ queue[p] \in Seq(Nat) /\ Len(queue[p]) \in Nat
  <2>1. pc[c] = "cas" /\ UNCHANGED <<pushed, done>>
    BY Zenon DEF Cas
  <2>2. queue[p] \in Seq(Nat) /\ transit[c] = <<>>
    BY <2>1, Zenon DEF IInv, Types, TaskInv, Waiting
  <2>3. c \in Places /\ c # Global
    BY FindTaskAssumption DEF Workers, Places, Global
  <2> QED
    BY <2>1, <2>2, <2>3
<1>1. CASE front[p] # loc[c].front
  <2>1. UNCHANGED <<queue, transit>> /\ \E l \in {"decide", "look"} : pc' = [pc EXCEPT ![c] = l]
    BY <1>p, <1>1, Zenon DEF Cas, Said, Goto
  <2>2. Holds' = Holds
    BY <2>1, OnceSame, Zenon DEF Line
  <2>3. Waiting'
    BY <1>0, <2>1, Zenon DEF TaskInv, Waiting, IInv, Types
  <2> QED
    BY <1>0, <2>2, <2>3, Zenon DEF TaskInv
<1>2. ASSUME NEW k \in Want(p) \cap 1..Len(queue[p]),
             queue' = [queue EXCEPT ![p] = SubSeq(@, k + 1, Len(@))],
             transit' = [transit EXCEPT ![c] = SubSeq(queue[p], 1, k)], Goto(c, "deliver")
      PROVE  TaskInv'
  <2>1. k \in Int /\ 1 <= k /\ k <= Len(queue[p])
    BY <1>0, <1>2
  <2>2. Leaves(p, k, c, k)
    <3>1. /\ Line(p, "q") = queue[p] /\ Line(p, "q")' = SubSeq(queue[p], k + 1, Len(queue[p]))
          /\ Line(c, "t") = <<>> /\ Line(c, "t")' = SubSeq(queue[p], 1, k)
      <4>1. queue'[p] = SubSeq(queue[p], k + 1, Len(queue[p]))
        BY <1>0, <1>2, Zenon DEF IInv, Types
      <4>2. transit'[c] = SubSeq(queue[p], 1, k)
        BY <1>2, Zenon DEF IInv, Types
      <4>3. Line(p, "q") = queue[p] /\ Line(p, "q")' = queue'[p]
        BY Zenon DEF Line
      <4>4. Line(c, "t") = transit[c] /\ Line(c, "t")' = transit'[c]
        BY <1>0, Zenon DEF Line
      <4> QED
        BY <1>0, <4>1, <4>2, <4>3, <4>4, Zenon
    <3>2. ASSUME NEW q \in Places, NEW r \in {"q", "t"}, <<q, r>> \notin {<<p, "q">>, <<c, "t">>}
          PROVE  Line(q, r)' = Line(q, r)
      <4>1. q # Global => q \in Workers
        BY FindTaskAssumption DEF Places, Workers, Global
      <4>2. CASE r = "q"
        <5>1. q # p
          BY <3>2, <4>2, Zenon
        <5> QED
          BY <1>2, <4>2, <5>1, Zenon DEF Line, IInv, Types
      <4>3. CASE r = "t"
        <5>1. q # c
          BY <3>2, <4>3, Zenon
        <5> QED
          BY <1>2, <4>1, <4>3, <5>1, Zenon DEF Line, IInv, Types
      <4> QED
        BY <4>2, <4>3, Zenon
    <3> QED
      BY <1>0, <2>1, <3>1, <3>2 DEF Leaves
  <2>3. PICK m : m = Left(p, k, c)
    BY Zenon
  <2>4. Came(Holds', Holds, m)
    BY <2>2, <2>3, LeavesCame, Zenon
  <2>5. All(Holds', Holds, m)
    <3>1. \A i \in Int : ~(k < i /\ i <= k)
      BY <2>1
    <3> QED
      BY <2>2, <2>3, <3>1, LeavesBack DEF All
  <2>6. Once(Holds', 1..pushed, done)
    <3>1. PICK P : P = 1..pushed
      BY Zenon
    <3>2. Once(Holds, P, done)
      BY <3>1, Zenon DEF TaskInv
    <3>3. Once(Holds', P, done)
      BY <2>4, <2>5, <3>2, OnceMove, Zenon
    <3> QED
      BY <3>1, <3>3, Zenon
  <2>7. Waiting'
    BY <1>2, Zenon DEF TaskInv, Waiting, IInv, Types, Goto
  <2> QED
    BY <1>0, <2>6, <2>7, Zenon DEF TaskInv
<1> QED
  BY <1>p, <1>1, <1>2, Zenon DEF Cas

\* Where the tasks of c's queue, n long before, were before Deliver.
Joined(c, n) ==
  [x \in DOMAIN Holds' |-> IF x[1] = c /\ x[2] = "q" /\ x[3] > n THEN <<c, "t", x[3] - n + 1>> ELSE x]

\* The members of a concatenation.
LEMMA Concat ==
  ASSUME NEW a \in Seq(Nat), NEW b \in Seq(Nat)
  PROVE  /\ a \o b \in Seq(Nat) /\ Len(a \o b) = Len(a) + Len(b)
         /\ \A i \in Int : 1 <= i /\ i <= Len(a) => (a \o b)[i] = a[i]
         /\ \A i \in Int : Len(a) < i /\ i <= Len(a) + Len(b) => (a \o b)[i] = b[i - Len(a)]
  OBVIOUS

\* The members of a tail.
LEMMA Tails ==
  ASSUME NEW z \in Seq(Nat), z # <<>>
  PROVE  /\ Len(z) \in Nat /\ Len(z) >= 1 /\ Head(z) = z[1] /\ Tail(z) \in Seq(Nat)
         /\ Len(Tail(z)) = Len(z) - 1
         /\ \A j \in Int : 1 <= j /\ j <= Len(z) - 1 => Tail(z)[j] = z[j + 1]
<1>1. Len(z) \in Nat /\ Len(z) >= 1 /\ Head(z) = z[1] /\ Tail(z) \in Seq(Nat)
  OBVIOUS
<1> QED
  BY <1>1

\* A batch joins the worker's own queue, except its first task.
LEMMA TaskDeliver ==
  ASSUME IInv, TaskInv, NEW c \in Workers, Deliver(c)
  PROVE  TaskInv'
<1>0. /\ pc[c] = "deliver" /\ c \in Places /\ c # Global /\ UNCHANGED pushed
      /\ transit[c] \in Seq(Nat) /\ transit[c] # <<>> /\ queue[c] \in Seq(Nat)
      /\ queue \in [Places -> Seq(Nat)] /\ transit \in [Workers -> Seq(Nat)]
  <2>1. c \in Places /\ c # Global
    BY FindTaskAssumption DEF Workers, Places, Global
  <2> QED
    BY <2>1, Zenon DEF Deliver, IInv, Types
<1>1. /\ queue' = [queue EXCEPT ![c] = @ \o Tail(transit[c])]
      /\ done' = done \cup {Head(transit[c])}
      /\ transit' = [transit EXCEPT ![c] = <<>>]
      /\ pc' = [pc EXCEPT ![c] = "idle"]
  BY Zenon DEF Deliver, Goto
<1>2. PICK z \in Seq(Nat) : z = transit[c]
  BY <1>0, Zenon
<1>3. PICK q0 \in Seq(Nat) : q0 = queue[c]
  BY <1>0, Zenon
<1>4. PICK n \in Nat : n = Len(q0)
  OBVIOUS
<1>5. PICK k \in Nat : k = Len(z) /\ k >= 1
  BY <1>0, <1>2, Tails, Zenon
<1>6. /\ Len(q0 \o Tail(z)) = n + k - 1 /\ Head(z) = z[1]
      /\ \A i \in Int : 1 <= i /\ i <= n => (q0 \o Tail(z))[i] = q0[i]
      /\ \A i \in Int : n < i /\ i <= n + k - 1 => (q0 \o Tail(z))[i] = z[i - n + 1]
  <2>1. PICK r \in Seq(Nat) : r = Tail(z)
    BY <1>0, <1>2, Tails, Zenon
  <2>2. /\ Len(r) = k - 1 /\ Head(z) = z[1]
        /\ \A j \in Int : 1 <= j /\ j <= k - 1 => r[j] = z[j + 1]
    BY <1>0, <1>2, <1>5, <2>1, Tails, Zenon
  <2>3. /\ Len(q0 \o r) = n + (k - 1)
        /\ \A i \in Int : 1 <= i /\ i <= n => (q0 \o r)[i] = q0[i]
        /\ \A i \in Int : n < i /\ i <= n + (k - 1) => (q0 \o r)[i] = r[i - n]
    <3>1. /\ Len(q0 \o r) = Len(q0) + Len(r)
          /\ \A i \in Int : 1 <= i /\ i <= Len(q0) => (q0 \o r)[i] = q0[i]
          /\ \A i \in Int : Len(q0) < i /\ i <= Len(q0) + Len(r) => (q0 \o r)[i] = r[i - Len(q0)]
      BY Concat, Zenon
    <3> QED
      BY <1>4, <2>2, <3>1, Zenon
  <2>4. ASSUME NEW i \in Int, n < i, i <= n + k - 1 PROVE (q0 \o r)[i] = z[i - n + 1]
    <3>1. PICK j \in Int : j = i - n
      OBVIOUS
    <3>2. 1 <= j /\ j <= k - 1 /\ (q0 \o r)[i] = r[j] /\ j + 1 = i - n + 1
      BY <2>3, <2>4, <3>1
    <3> QED
      BY <2>2, <3>2, Zenon
  <2> QED
    BY <2>1, <2>2, <2>3, <2>4, Zenon
<1>7. /\ Line(c, "q") = q0 /\ Line(c, "q")' = q0 \o Tail(z)
      /\ Line(c, "t") = z /\ Line(c, "t")' = <<>>
  BY <1>0, <1>1, <1>2, <1>3, Zenon DEF Line
<1>8. ASSUME NEW q \in Places, q # c, NEW s \in {"q", "t"} PROVE Line(q, s)' = Line(q, s)
  <2>1. q # Global => q \in Workers
    BY FindTaskAssumption DEF Places, Workers, Global
  <2> QED
    BY <1>0, <1>1, <1>8, <2>1, Zenon DEF Line
<1>9. ASSUME NEW i \in Int
      PROVE  /\ <<c, "q", i>> \in DOMAIN Holds' <=> 1 <= i /\ i <= n + k - 1
             /\ 1 <= i /\ i <= n => Holds'[<<c, "q", i>>] = q0[i]
             /\ n < i /\ i <= n + k - 1 => Holds'[<<c, "q", i>>] = z[i - n + 1]
             /\ <<c, "t", i>> \notin DOMAIN Holds'
             /\ <<c, "q", i>> \in DOMAIN Holds <=> 1 <= i /\ i <= n
             /\ 1 <= i /\ i <= n => Holds[<<c, "q", i>>] = q0[i]
             /\ <<c, "t", i>> \in DOMAIN Holds <=> 1 <= i /\ i <= k
             /\ 1 <= i /\ i <= k => Holds[<<c, "t", i>>] = z[i]
  <2>1. /\ <<c, "q", i>> \in DOMAIN Holds' <=> 1 <= i /\ i <= n + k - 1
        /\ 1 <= i /\ i <= n + k - 1 => Holds'[<<c, "q", i>>] = (q0 \o Tail(z))[i]
    <3>1. Len(Line(c, "q")') = n + k - 1 /\ Line(c, "q")'[i] = (q0 \o Tail(z))[i]
      BY <1>6, <1>7, Zenon
    <3>2. c \in Places /\ "q" \in {"q", "t"}
      BY <1>0, Zenon
    <3> QED
      BY <3>1, <3>2, Cell, Zenon
  <2>2. <<c, "t", i>> \notin DOMAIN Holds'
    <3>1. Len(<<>>) = 0 /\ ~(1 <= i /\ i <= 0)
      OBVIOUS
    <3>2. c \in Places /\ "t" \in {"q", "t"} /\ Line(c, "t")' = <<>>
      BY <1>0, <1>7, Zenon
    <3> QED
      BY <3>1, <3>2, Cell, Zenon
  <2>3. /\ <<c, "q", i>> \in DOMAIN Holds <=> 1 <= i /\ i <= n
        /\ 1 <= i /\ i <= n => Holds[<<c, "q", i>>] = q0[i]
    BY <1>0, <1>4, <1>7, Cell, Zenon
  <2>4. /\ <<c, "t", i>> \in DOMAIN Holds <=> 1 <= i /\ i <= k
        /\ 1 <= i /\ i <= k => Holds[<<c, "t", i>>] = z[i]
    BY <1>0, <1>5, <1>7, Cell, Zenon
  <2> QED
    BY <1>5, <1>6, <2>1, <2>2, <2>3, <2>4, SMTT(30)
<1>10. PICK m : m = Joined(c, n)
  BY Zenon
<1>11. ASSUME NEW x \in DOMAIN Holds'
       PROVE  /\ \/ \E i \in Int : x = <<c, "q", i>> /\ m[x] = <<c, "t", i - n + 1>> /\ i > n
                 \/ m[x] = x /\ \A i \in Int : x # <<c, "t", i>>
              /\ m[x] \in DOMAIN Holds /\ Holds'[x] = Holds[m[x]] /\ m[x] # <<c, "t", 1>>
  <2>1. PICK q \in Places, s \in {"q", "t"}, i \in Int :
           x = <<q, s, i>> /\ 1 <= i /\ i <= Len(Line(q, s)')
    BY CellCases, Zenon
  <2>2. CASE q = c /\ s = "q" /\ i > n
    <3>1. m[x] = <<c, "t", i - n + 1>>
      BY <1>10, <2>1, <2>2, Zenon DEF Joined
    <3>2. PICK j \in Int : j = i - n + 1
      OBVIOUS
    <3>3. i <= n + k - 1 /\ Holds'[x] = z[j]
      BY <1>9, <2>1, <2>2, <3>2, Zenon
    <3>4. 1 <= j /\ j <= k /\ j # 1
      BY <2>2, <3>2, <3>3
    <3>5. <<c, "t", j>> \in DOMAIN Holds /\ Holds[<<c, "t", j>>] = z[j]
      BY <1>9, <3>4, Zenon
    <3>6. x = <<c, "q", i>> /\ m[x] = <<c, "t", j>> /\ <<c, "t", j>> # <<c, "t", 1>>
      BY <2>1, <2>2, <3>1, <3>2, <3>4, Zenon
    <3>7. \E l \in Int : x = <<c, "q", l>> /\ m[x] = <<c, "t", l - n + 1>> /\ l > n
      BY <2>2, <3>1, <3>6, Zenon
    <3> QED
      BY <3>3, <3>5, <3>6, <3>7, Zenon
  <2>3. CASE q = c /\ s = "q" /\ i <= n
    <3>1. m[x] = x
      BY <1>10, <2>1, <2>3 DEF Joined
    <3>2. x = <<c, "q", i>> /\ \A l \in Int : x # <<c, "t", l>>
      BY <2>1, <2>3, Zenon
    <3>3. x \in DOMAIN Holds /\ Holds'[x] = Holds[x]
      BY <1>9, <2>1, <2>3, <3>2, Zenon
    <3> QED
      BY <3>1, <3>2, <3>3
  <2>4. CASE q = c /\ s = "t"
    BY <1>9, <2>1, <2>4, Zenon
  <2>5. CASE q # c
    <3>1. m[x] = x
      BY <1>10, <2>1, <2>5, Zenon DEF Joined
    <3>2. Line(q, s)' = Line(q, s)
      BY <1>8, <2>5, Zenon
    <3>3. x \in DOMAIN Holds /\ Holds'[x] = Holds[x]
      <4>1. 1 <= i /\ i <= Len(Line(q, s)) /\ Line(q, s)'[i] = Line(q, s)[i]
        BY <2>1, <3>2, Zenon
      <4>2. <<q, s, i>> \in DOMAIN Holds /\ Holds[<<q, s, i>>] = Line(q, s)[i]
        BY <4>1, Cell, Zenon
      <4>3. Holds'[<<q, s, i>>] = Line(q, s)'[i]
        BY <2>1, Cell, Zenon
      <4> QED
        BY <2>1, <4>1, <4>2, <4>3, Zenon
    <3> QED
      BY <2>1, <2>5, <3>1, <3>3
  <2> QED
    BY <2>2, <2>3, <2>4, <2>5
<1>12. ASSUME NEW x \in DOMAIN Holds', NEW y \in DOMAIN Holds', m[x] = m[y] PROVE x = y
  <2>1. CASE \E i \in Int : x = <<c, "q", i>> /\ m[x] = <<c, "t", i - n + 1>> /\ i > n
    <3>1. PICK i \in Int : x = <<c, "q", i>> /\ m[x] = <<c, "t", i - n + 1>>
      BY <2>1, Zenon
    <3>2. i - n + 1 \in Int
      OBVIOUS
    <3>3. PICK j \in Int : y = <<c, "q", j>> /\ m[y] = <<c, "t", j - n + 1>>
      <4>1. \/ \E j \in Int : y = <<c, "q", j>> /\ m[y] = <<c, "t", j - n + 1>> /\ j > n
            \/ m[y] = y /\ \A j \in Int : y # <<c, "t", j>>
        BY <1>11, Zenon
      <4>2. m[y] = <<c, "t", i - n + 1>>
        BY <1>12, <3>1, Zenon
      <4> QED
        BY <3>2, <4>1, <4>2, Zenon
    <3>4. i - n + 1 = j - n + 1
      BY <1>12, <3>1, <3>3
    <3> QED
      BY <3>1, <3>3, <3>4
  <2>2. CASE m[x] = x /\ \A i \in Int : x # <<c, "t", i>>
    <3>1. \A j \in Int : j - n + 1 \in Int
      OBVIOUS
    <3>2. m[y] = y
      <4>1. \/ \E j \in Int : y = <<c, "q", j>> /\ m[y] = <<c, "t", j - n + 1>> /\ j > n
            \/ m[y] = y /\ \A j \in Int : y # <<c, "t", j>>
        BY <1>11, Zenon
      <4>2. \A i \in Int : m[y] # <<c, "t", i>>
        BY <1>12, <2>2, Zenon
      <4> QED
        BY <3>1, <4>1, <4>2, Zenon
    <3> QED
      BY <1>12, <2>2, <3>2, Zenon
  <2> QED
    BY <1>11, <2>1, <2>2, Zenon
<1>13. ASSUME NEW y \in DOMAIN Holds, y # <<c, "t", 1>> PROVE \E x \in DOMAIN Holds' : m[x] = y
  <2>1. PICK q \in Places, s \in {"q", "t"}, i \in Int : y = <<q, s, i>> /\ 1 <= i /\ i <= Len(Line(q, s))
    BY CellCases, Zenon
  <2>2. CASE q = c /\ s = "t"
    <3>1. PICK j \in Int : j = n + i - 1
      OBVIOUS
    <3>2. 1 <= i /\ i <= k /\ i # 1
      BY <1>9, <1>13, <2>1, <2>2, Zenon
    <3>3. j > n /\ 1 <= j /\ j <= n + k - 1 /\ j - n + 1 = i
      BY <3>1, <3>2
    <3>4. <<c, "q", j>> \in DOMAIN Holds'
      BY <1>9, <3>3, Zenon
    <3>5. m[<<c, "q", j>>] = <<c, "t", j - n + 1>>
      BY <1>10, <3>3, <3>4, Zenon DEF Joined
    <3> QED
      BY <2>1, <2>2, <3>3, <3>4, <3>5, Zenon
  <2>3. CASE q = c /\ s = "q"
    <3>1. 1 <= i /\ i <= n
      BY <1>9, <2>1, <2>3, Zenon
    <3>2. i <= n + k - 1 /\ ~(i > n)
      BY <1>5, <3>1
    <3>3. y \in DOMAIN Holds'
      BY <1>9, <2>1, <2>3, <3>1, <3>2, Zenon
    <3>4. m[y] = y
      BY <1>10, <2>1, <2>3, <3>2, <3>3, Zenon DEF Joined
    <3> QED
      BY <3>3, <3>4, Zenon
  <2>4. CASE q # c
    <3>1. Line(q, s)' = Line(q, s)
      BY <1>8, <2>4, Zenon
    <3>2. y \in DOMAIN Holds'
      BY <2>1, <3>1, Cell, Zenon
    <3>3. m[y] = y
      BY <1>10, <2>1, <2>4, <3>2, Zenon DEF Joined
    <3> QED
      BY <3>2, <3>3, Zenon
  <2> QED
    BY <2>2, <2>3, <2>4, Zenon
<1>14. PICK x0 : x0 = <<c, "t", 1>>
  BY Zenon
<1>15. x0 \in DOMAIN Holds /\ Holds[x0] = Head(transit[c])
  <2>1. /\ <<c, "t", 1>> \in DOMAIN Holds <=> 1 <= 1 /\ 1 <= k
        /\ 1 <= 1 /\ 1 <= k => Holds[<<c, "t", 1>>] = z[1]
    <3>1. PICK i \in Int : i = 1
      OBVIOUS
    <3>2. /\ <<c, "t", i>> \in DOMAIN Holds <=> 1 <= i /\ i <= k
          /\ 1 <= i /\ i <= k => Holds[<<c, "t", i>>] = z[i]
      BY <1>9, Zenon
    <3> QED
      BY <3>1, <3>2, Zenon
  <2> QED
    BY <1>2, <1>5, <1>6, <1>14, <2>1
<1>16. Came(Holds', Holds, m) /\ AllBut(Holds', Holds, m, x0)
  BY <1>11, <1>12, <1>13, <1>14, <1>15, Zenon DEF Came, AllBut
<1>17. Once(Holds', 1..pushed, done')
  <2>1. PICK P : P = 1..pushed
    BY Zenon
  <2>2. Once(Holds, P, done) /\ done' = done \cup {Holds[x0]}
    BY <1>1, <1>15, <2>1, Zenon DEF TaskInv
  <2>3. Once(Holds', P, done')
    BY <1>16, <2>2, OnceTake, Zenon
  <2> QED
    BY <2>1, <2>3, Zenon
<1>18. Waiting'
  <2>1. transit'[c] = <<>> /\ \A d \in Workers : d # c => transit'[d] = transit[d] /\ pc'[d] = pc[d]
    BY <1>1, Zenon DEF IInv, Types
  <2> QED
    BY <2>1, Zenon DEF TaskInv, Waiting
<1> QED
  BY <1>0, <1>17, <1>18, Zenon DEF TaskInv

\* The other steps move no task.
LEMMA TaskStill ==
  ASSUME IInv, TaskInv, NEW c \in Workers, Look(c) \/ Decide(c) \/ ReturnNone(c)
  PROVE  TaskInv'
<1>1. /\ UNCHANGED <<queue, transit, pushed, done>>
      /\ \E l \in {"decide", "look", "cas", "none", "idle"} : pc' = [pc EXCEPT ![c] = l]
      /\ pc[c] # "deliver"
  BY Zenon DEF Look, Decide, ReturnNone, Said, Goto
<1>2. Holds' = Holds
  BY <1>1, OnceSame, Zenon DEF Line
<1>3. Waiting'
  BY <1>1, Zenon DEF TaskInv, Waiting, IInv, Types
<1> QED
  BY <1>1, <1>2, <1>3, Zenon DEF TaskInv

\* Initially there are no tasks.
LEMMA TaskInit == Init => TaskInv
<1> SUFFICES ASSUME Init PROVE TaskInv
  BY Zenon
<1>1. \A p \in Places, s \in {"q", "t"} : Line(p, s) = <<>>
  <2>1. \A p \in Places : p # Global => p \in Workers
    BY FindTaskAssumption DEF Places, Workers, Global
  <2> QED
    BY <2>1, Zenon DEF Init, Line
<1>2. DOMAIN Holds = {}
  <2>1. ASSUME NEW x \in DOMAIN Holds PROVE FALSE
    <3>1. PICK p \in Places, s \in {"q", "t"}, i \in Int :
             x = <<p, s, i>> /\ 1 <= i /\ i <= Len(Line(p, s))
      BY CellCases, Zenon
    <3>2. Len(Line(p, s)) = 0
      BY <1>1
    <3> QED
      BY <3>1, <3>2
  <2> QED
    BY <2>1, Zenon
<1>3. 1..pushed = {} /\ done = {}
  BY DEF Init
<1>4. Waiting
  BY Zenon DEF Init, Waiting
<1> QED
  BY <1>2, <1>3, <1>4, Zenon DEF TaskInv, Once

\* Every task is in one cell or was returned.
LEMMA TaskInductive == Spec => []TaskInv
<1>1. IInv /\ TaskInv /\ [Next]_vars => TaskInv'
  <2> SUFFICES ASSUME IInv, TaskInv, [Next]_vars PROVE TaskInv'
    BY Zenon
  <2>1. CASE UNCHANGED vars
    <3>1. Holds' = Holds
      BY <2>1, OnceSame, Zenon DEF Line, vars
    <3> QED
      BY <2>1, <3>1, Zenon DEF vars, TaskInv, Waiting
  <2> QED
    BY <2>1, TaskPush, TaskPop, TaskCas, TaskDeliver, TaskStill, Zenon DEF Next, Step
<1> QED
  BY <1>1, TaskInit, Inductive, PTL DEF Spec

\* A queue and the batch on its way into it, cell by cell.
LEMMA HeldCells ==
  ASSUME Types, NEW p \in Places
  PROVE  /\ Held(p) \in Seq(Nat)
         /\ \A i \in 1..Len(Held(p)) : \E s \in {"q", "t"}, j \in Int :
              /\ 1 <= j /\ j <= Len(Line(p, s)) /\ Held(p)[i] = Line(p, s)[j]
              /\ i = IF s = "q" THEN j ELSE Len(Line(p, "q")) + j
         /\ \A s \in {"q", "t"} : \A j \in Int : 1 <= j /\ j <= Len(Line(p, s)) =>
              \E i \in 1..Len(Held(p)) : Held(p)[i] = Line(p, s)[j]
<1>1. PICK a \in Seq(Nat) : a = Line(p, "q")
  BY Lines, Zenon
<1>2. PICK b \in Seq(Nat) : b = Line(p, "t")
  BY Lines, Zenon
<1>3. Held(p) = a \o b
  BY <1>1, <1>2, Zenon DEF Held, Line
<1>4. /\ a \o b \in Seq(Nat) /\ Len(a \o b) = Len(a) + Len(b)
      /\ \A i \in Int : 1 <= i /\ i <= Len(a) => (a \o b)[i] = a[i]
      /\ \A i \in Int : Len(a) < i /\ i <= Len(a) + Len(b) => (a \o b)[i] = b[i - Len(a)]
  BY Concat, Zenon
<1>5. ASSUME NEW i \in 1..Len(Held(p))
      PROVE  \E s \in {"q", "t"}, j \in Int :
               /\ 1 <= j /\ j <= Len(Line(p, s)) /\ Held(p)[i] = Line(p, s)[j]
               /\ i = IF s = "q" THEN j ELSE Len(Line(p, "q")) + j
  <2>1. CASE i <= Len(a)
    <3>1. i \in Int /\ 1 <= i /\ i <= Len(Line(p, "q")) /\ Held(p)[i] = Line(p, "q")[i]
      BY <1>1, <1>3, <1>4, <2>1
    <3> QED
      BY <3>1, Zenon
  <2>2. CASE i > Len(a)
    <3>1. PICK j \in Int : j = i - Len(a)
      BY SMTT(30)
    <3>2. 1 <= j /\ j <= Len(Line(p, "t")) /\ Held(p)[i] = Line(p, "t")[j] /\ i = Len(Line(p, "q")) + j
      BY <1>1, <1>2, <1>3, <1>4, <2>2, <3>1
    <3> QED
      BY <3>2, Zenon
  <2> QED
    BY <2>1, <2>2
<1>6. ASSUME NEW j \in Int, 1 <= j, j <= Len(Line(p, "q"))
      PROVE  \E i \in 1..Len(Held(p)) : Held(p)[i] = Line(p, "q")[j]
  <2>1. j \in 1..Len(Held(p)) /\ Held(p)[j] = Line(p, "q")[j]
    BY <1>1, <1>3, <1>4, <1>6
  <2> QED
    BY <2>1, Zenon
<1>7. ASSUME NEW j \in Int, 1 <= j, j <= Len(Line(p, "t"))
      PROVE  \E i \in 1..Len(Held(p)) : Held(p)[i] = Line(p, "t")[j]
  <2>1. PICK i \in Int : i = Len(a) + j
    OBVIOUS
  <2>2. i \in 1..Len(Held(p)) /\ i - Len(a) = j /\ Held(p)[i] = b[i - Len(a)]
    BY <1>2, <1>3, <1>4, <1>7, <2>1
  <2> QED
    BY <1>2, <2>2, Zenon
<1>8. ASSUME NEW s \in {"q", "t"}, NEW j \in Int, 1 <= j, j <= Len(Line(p, s))
      PROVE  \E i \in 1..Len(Held(p)) : Held(p)[i] = Line(p, s)[j]
  <2>1. CASE s = "q"
    BY <1>6, <1>8, <2>1, Zenon
  <2>2. CASE s = "t"
    BY <1>7, <1>8, <2>2, Zenon
  <2> QED
    BY <2>1, <2>2, Zenon
<1>9. Held(p) \in Seq(Nat)
  BY <1>3, <1>4, Zenon
<1> QED
  BY <1>5, <1>8, <1>9, Zenon

\* find_task drops no task.
THEOREM TasksKept == Spec => []NoTaskDropped
<1>1. ASSUME IInv, TaskInv PROVE NoTaskDropped
  <2>0. Types
    BY <1>1, Zenon DEF IInv
  <2>1. /\ \A x \in DOMAIN Holds : Holds[x] \in 1..pushed /\ Holds[x] \notin done
        /\ \A x, y \in DOMAIN Holds : Holds[x] = Holds[y] => x = y
        /\ \A t \in 1..pushed : t \notin done => \E x \in DOMAIN Holds : Holds[x] = t
        /\ done \subseteq 1..pushed
    BY <1>1, Zenon DEF TaskInv, Once
  <2>2. ASSUME NEW p \in Places, NEW q \in Places, NEW i \in 1..Len(Held(p)), NEW j \in 1..Len(Held(q)),
               Held(p)[i] = Held(q)[j]
        PROVE  p = q /\ i = j
    <3>1. PICK s \in {"q", "t"}, a \in Int :
             /\ 1 <= a /\ a <= Len(Line(p, s)) /\ Held(p)[i] = Line(p, s)[a]
             /\ i = IF s = "q" THEN a ELSE Len(Line(p, "q")) + a
      BY <2>0, HeldCells, Zenon
    <3>2. PICK r \in {"q", "t"}, b \in Int :
             /\ 1 <= b /\ b <= Len(Line(q, r)) /\ Held(q)[j] = Line(q, r)[b]
             /\ j = IF r = "q" THEN b ELSE Len(Line(q, "q")) + b
      BY <2>0, HeldCells, Zenon
    <3>3. <<p, s, a>> \in DOMAIN Holds /\ Holds[<<p, s, a>>] = Line(p, s)[a]
      BY <3>1, Cell, Zenon
    <3>4. <<q, r, b>> \in DOMAIN Holds /\ Holds[<<q, r, b>>] = Line(q, r)[b]
      BY <3>2, Cell, Zenon
    <3>5. <<p, s, a>> = <<q, r, b>>
      <4>1. PICK x : x = <<p, s, a>>
        BY Zenon
      <4>2. PICK y : y = <<q, r, b>>
        BY Zenon
      <4>3. x \in DOMAIN Holds /\ y \in DOMAIN Holds /\ Holds[x] = Holds[y]
        BY <2>2, <3>1, <3>2, <3>3, <3>4, <4>1, <4>2, Zenon
      <4> QED
        BY <2>1, <4>1, <4>2, <4>3, Zenon
    <3>6. p = q /\ s = r /\ a = b
      BY <3>5, Zenon
    <3> QED
      BY <3>1, <3>2, <3>6, Zenon
  <2>3. ASSUME NEW p \in Places, NEW t \in Range(Held(p)) PROVE t \in 1..pushed /\ t \notin done
    <3>1. PICK i \in 1..Len(Held(p)) : t = Held(p)[i]
      <4>1. Held(p) \in Seq(Nat)
        BY <2>0, HeldCells, Zenon
      <4>2. DOMAIN Held(p) = 1..Len(Held(p))
        BY <4>1
      <4> QED
        BY <4>2, Zenon DEF Range
    <3>2. PICK s \in {"q", "t"}, a \in Int :
             /\ 1 <= a /\ a <= Len(Line(p, s)) /\ Held(p)[i] = Line(p, s)[a]
      BY <2>0, HeldCells, Zenon
    <3>3. <<p, s, a>> \in DOMAIN Holds /\ Holds[<<p, s, a>>] = Line(p, s)[a]
      BY <3>2, Cell, Zenon
    <3> QED
      BY <2>1, <3>1, <3>2, <3>3, Zenon
  <2>4. ASSUME NEW t \in 1..pushed, t \notin done PROVE \E p \in Places : t \in Range(Held(p))
    <3>1. PICK x \in DOMAIN Holds : Holds[x] = t
      BY <2>1, <2>4, Zenon
    <3>2. PICK p \in Places, s \in {"q", "t"}, a \in Int :
             x = <<p, s, a>> /\ 1 <= a /\ a <= Len(Line(p, s))
      BY CellCases, Zenon
    <3>3. t = Line(p, s)[a]
      BY <3>1, <3>2, Cell, Zenon
    <3>4. PICK i \in 1..Len(Held(p)) : Held(p)[i] = t
      BY <2>0, <3>2, <3>3, HeldCells
    <3>5. t \in Range(Held(p))
      BY <2>0, <3>4, HeldCells DEF Range
    <3> QED
      BY <3>5, Zenon
  <2>5. (UNION {Range(Held(p)) : p \in Places}) \cup done = 1..pushed
    <3> DEFINE W == {Range(Held(p)) : p \in Places}
    <3>1. \A w : w \in W <=> \E p \in Places : w = Range(Held(p))
      BY Zenon
    <3> HIDE DEF W
    <3>2. ASSUME NEW t \in 1..pushed PROVE t \in (UNION W) \cup done
      BY <2>4, <3>1, Zenon
    <3>3. ASSUME NEW t \in UNION W PROVE t \in 1..pushed
      BY <2>3, <3>1
    <3>4. (UNION W) \cup done = 1..pushed
      BY <2>1, <3>2, <3>3, Zenon
    <3> QED
      BY <3>4, Zenon DEF W
  <2>6. \A p \in Places : Range(Held(p)) \cap done = {}
    BY <2>3, Zenon
  <2> QED
    BY <2>2, <2>5, <2>6, Zenon DEF NoTaskDropped
<1> QED
  BY <1>1, Inductive, TaskInductive, PTL
=============================================================================
