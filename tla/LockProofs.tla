----------------------------- MODULE LockProofs -----------------------------
(***************************************************************************)
(* The safety of Lock for any number of users.  NoWakeupLost is not        *)
(* inductive: a wake reaches only the user in the slot, so one has to know *)
(* that every waiter the code does not overlook is the one in the slot.    *)
(***************************************************************************)
EXTENDS Lock, TLAPS

\* A user that has registered is in the slot, unless its wake was already
\* called or it is one of those the code overlooks.
InSlot ==
  \A u \in Users : pc[u] \in {"second", "pending"} => u \in woken \cup missed \cup {slot}

IInv == TypeOK /\ MutualExclusion /\ NoWakeupLost /\ InSlot

USE LockAssumption

\* The mutex starts out free, without users.
LEMMA InitIInv == Init => IInv
  BY Zenon DEF Init, IInv, TypeOK, Pcs, MutualExclusion, NoWakeupLost, Waiting, InSlot

\* Every step keeps the types and the limits of lock_or_spin and try_lock.
LEMMA StepTypeOK == TypeOK /\ [Next]_vars => TypeOK'
<1> SUFFICES ASSUME TypeOK, [Next]_vars PROVE TypeOK'
  BY Zenon
<1> USE DEF TypeOK, Pcs, Goto, waker
<1>1. ASSUME NEW u \in Users, NEW k \in Kinds, Begin(u, k) PROVE TypeOK'
  BY <1>1, Zenon DEF Begin
<1>2. ASSUME NEW u \in Users, FastPath(u) PROVE TypeOK'
  BY <1>2, Zenon DEF FastPath, Acquired, Refused
<1>3. ASSUME NEW u \in Users, SecondCheck(u) PROVE TypeOK'
  BY <1>3, Zenon DEF SecondCheck, Acquired, Refused
<1>4. ASSUME NEW u \in Users, Spin(u) PROVE TypeOK'
  BY <1>4, Zenon DEF Spin, Acquired
<1>5. ASSUME NEW u \in Users, TryLock(u) PROVE TypeOK'
  BY <1>5, ZenonT(40) DEF TryLock, Acquired, Refused
<1>6. ASSUME NEW u \in Users, PollAgain(u) PROVE TypeOK'
  BY <1>6, Zenon DEF PollAgain
<1>7. ASSUME NEW u \in Users, Register(u) PROVE TypeOK'
  BY <1>7, Zenon DEF Register
<1>8. ASSUME NEW u \in Users, Store(u) PROVE TypeOK'
  BY <1>8, Zenon DEF Store
<1>9. ASSUME NEW u \in Users, Wake(u) PROVE TypeOK'
  BY <1>9, Zenon DEF Wake
<1>10. ASSUME NEW u \in Users, TakeWaker(u) PROVE TypeOK'
  BY <1>10, Zenon DEF TakeWaker
<1>11. ASSUME NEW u \in Users, Drop(u) PROVE TypeOK'
  BY <1>11, Zenon DEF Drop, Waiting
<1>12. CASE UNCHANGED vars
  BY <1>12, Zenon DEF vars
<1> QED
  BY <1>1, <1>2, <1>3, <1>4, <1>5, <1>6, <1>7, <1>8, <1>9, <1>10, <1>11, <1>12, Zenon DEF Next, Step, Call

\* One guard at a time: it is handed out only while the flag is clear, and the
\* flag is cleared only by the one guard there is.
LEMMA StepMutualExclusion == IInv /\ [Next]_vars => MutualExclusion'
<1> SUFFICES ASSUME IInv, [Next]_vars PROVE MutualExclusion'
  BY Zenon
<1> USE DEF IInv, TypeOK, MutualExclusion, Goto, waker
<1>a. ASSUME NEW u \in Users, Acquired(u) PROVE MutualExclusion'
  BY <1>a, Zenon DEF Acquired
<1>b. ASSUME NEW u \in Users, NEW l, l # "guard", pc[u] # "guard", Refused(u, l)
      PROVE  MutualExclusion'
  BY <1>b, Zenon DEF Refused
<1>1. ASSUME NEW u \in Users, NEW k \in Kinds, Begin(u, k) PROVE MutualExclusion'
  BY <1>1, Zenon DEF Begin
<1>2. ASSUME NEW u \in Users, FastPath(u) \/ SecondCheck(u) \/ Spin(u) \/ TryLock(u)
      PROVE  MutualExclusion'
  BY <1>2, <1>a, <1>b, Zenon DEF FastPath, SecondCheck, Spin, TryLock
<1>3. ASSUME NEW u \in Users, PollAgain(u) PROVE MutualExclusion'
  BY <1>3, Zenon DEF PollAgain
<1>4. ASSUME NEW u \in Users, Register(u) PROVE MutualExclusion'
  BY <1>4 DEF Register
<1>5. ASSUME NEW u \in Users, Store(u) PROVE MutualExclusion'
  BY <1>5 DEF Store
<1>6. ASSUME NEW u \in Users, Wake(u) \/ TakeWaker(u) PROVE MutualExclusion'
  BY <1>6 DEF Wake, TakeWaker
<1>7. ASSUME NEW u \in Users, Drop(u) PROVE MutualExclusion'
  BY <1>7 DEF Drop
<1>8. CASE UNCHANGED vars
  BY <1>8, Zenon DEF vars
<1> QED
  BY <1>1, <1>2, <1>3, <1>4, <1>5, <1>6, <1>7, <1>8, Zenon DEF Next, Step, Call

\* Whoever leaves the slot was woken or is overlooked.
LEMMA StepInSlot == IInv /\ [Next]_vars => InSlot'
<1> SUFFICES ASSUME IInv, [Next]_vars, NEW w \in Users, pc'[w] \in {"second", "pending"}
             PROVE  w \in woken' \cup missed' \cup {slot'}
  BY Zenon DEF InSlot
<1> DEFINE Goal == w \in woken' \cup missed' \cup {slot'}
<1> USE DEF IInv, TypeOK, InSlot, Goto, waker
<1>a. ASSUME NEW u \in Users, Acquired(u) PROVE Goal
  BY <1>a, Zenon DEF Acquired
<1>1. ASSUME NEW u \in Users, NEW k \in Kinds, Begin(u, k) PROVE Goal
  BY <1>1, Zenon DEF Begin
<1>2. ASSUME NEW u \in Users, FastPath(u) PROVE Goal
  BY <1>2, <1>a, Zenon DEF FastPath, Refused
<1>3. ASSUME NEW u \in Users, SecondCheck(u) PROVE Goal
  BY <1>3, <1>a, Zenon DEF SecondCheck, Refused
<1>4. ASSUME NEW u \in Users, Spin(u) \/ TryLock(u) PROVE Goal
  BY <1>4, <1>a, Zenon DEF Spin, TryLock, Refused
<1>5. ASSUME NEW u \in Users, PollAgain(u) PROVE Goal
  BY <1>5, Zenon DEF PollAgain
<1>6. ASSUME NEW u \in Users, Register(u) PROVE Goal
  BY <1>6, Zenon DEF Register
<1>7. ASSUME NEW u \in Users, Store(u) PROVE Goal
  BY <1>7 DEF Store
<1>8. ASSUME NEW u \in Users, Wake(u) PROVE Goal
  BY <1>8, Zenon DEF Wake
<1>9. ASSUME NEW u \in Users, TakeWaker(u) PROVE Goal
  BY <1>9, Zenon DEF TakeWaker
<1>10. ASSUME NEW u \in Users, Drop(u) PROVE Goal
  BY <1>10, Zenon DEF Drop
<1>11. CASE UNCHANGED vars
  BY <1>11, Zenon DEF vars
<1> QED
  BY <1>1, <1>2, <1>3, <1>4, <1>5, <1>6, <1>7, <1>8, <1>9, <1>10, <1>11, Zenon DEF Next, Step, Call

\* A wake on its way is spent only on the slot, hence on the waiter.
LEMMA StepNoWakeupLost == IInv /\ [Next]_vars => NoWakeupLost'
<1> DEFINE OnTheWay == locked \/ "WAKING" \in wstate \/ \E v \in Users : pc[v] = "wake"
<1> SUFFICES ASSUME IInv, [Next]_vars,
                    NEW w \in Users, pc'[w] = "pending", w \notin woken' \cup missed'
             PROVE  OnTheWay'
  BY Zenon DEF NoWakeupLost, Waiting
<1> USE DEF IInv, TypeOK, Goto, waker
<1>0. pc[w] = "pending" /\ w \notin woken \cup missed => OnTheWay
  BY Zenon DEF NoWakeupLost, Waiting
<1>a. ASSUME NEW u \in Users, Acquired(u) \/ Refused(u, "pending") PROVE OnTheWay'
  BY <1>a, Zenon DEF Acquired, Refused
<1>1. ASSUME NEW u \in Users, NEW k \in Kinds, Begin(u, k) PROVE OnTheWay'
  BY <1>0, <1>1, Zenon DEF Begin
<1>2. ASSUME NEW u \in Users, FastPath(u) PROVE OnTheWay'
  BY <1>2, <1>a, Zenon DEF FastPath, Refused
<1>3. ASSUME NEW u \in Users, SecondCheck(u) PROVE OnTheWay'
  BY <1>3, <1>a, Zenon DEF SecondCheck
<1>4. ASSUME NEW u \in Users, Spin(u) \/ TryLock(u) PROVE OnTheWay'
  BY <1>4, <1>a, Zenon DEF Spin, TryLock, Refused
<1>5. ASSUME NEW u \in Users, PollAgain(u) PROVE OnTheWay'
  BY <1>0, <1>5, Zenon DEF PollAgain
<1>6. ASSUME NEW u \in Users, Register(u) PROVE OnTheWay'
  BY <1>0, <1>6, Zenon DEF Register
<1>7. ASSUME NEW u \in Users, Store(u) PROVE OnTheWay'
  BY <1>0, <1>7, Zenon DEF Store, InSlot
<1>8. ASSUME NEW u \in Users, Wake(u) PROVE OnTheWay'
  BY <1>8, Zenon DEF Wake
<1>9. ASSUME NEW u \in Users, TakeWaker(u) PROVE OnTheWay'
  BY <1>0, <1>9, Zenon DEF TakeWaker, InSlot
<1>10. ASSUME NEW u \in Users, Drop(u) PROVE OnTheWay'
  BY <1>10, Zenon DEF Drop, Waiting
<1>11. CASE UNCHANGED vars
  BY <1>0, <1>11, Zenon DEF vars
<1> QED
  BY <1>1, <1>2, <1>3, <1>4, <1>5, <1>6, <1>7, <1>8, <1>9, <1>10, <1>11, Zenon DEF Next, Step, Call

\* The inductive invariant holds in every reachable state.
LEMMA Inductive == Spec => []IInv
<1>1. IInv /\ [Next]_vars => IInv'
  BY StepTypeOK, StepMutualExclusion, StepInSlot, StepNoWakeupLost, Zenon DEF IInv
<1> QED
  BY InitIInv, <1>1, PTL DEF Spec

\* At most one guard exists and the flag says so, for any number of users and
\* any mix of lock, lock_or_spin and try_lock (lock.rs:49-66, 89-117).
THEOREM MutexExcludes == Spec => []MutualExclusion
<1>1. IInv => MutualExclusion
  BY Zenon DEF IInv
<1> QED
  BY Inductive, <1>1, PTL

\* No sleeping waiter is left without a wake, the three exceptions of
\* NoWakeupLost aside, for any number of users (lock.rs:57-65, 112-116).
THEOREM WakeupsArrive == Spec => []NoWakeupLost
<1>1. IInv => NoWakeupLost
  BY Zenon DEF IInv
<1> QED
  BY Inductive, <1>1, PTL

\* lock_or_spin and try_lock never register, wait or wake (lock.rs:89-109).
THEOREM TypesKept == Spec => []TypeOK
<1>1. IInv => TypeOK
  BY Zenon DEF IInv
<1> QED
  BY Inductive, <1>1, PTL
=============================================================================
