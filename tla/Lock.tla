-------------------------------- MODULE Lock --------------------------------
(***************************************************************************)
(* The mutex of nacl/src/task/lock.rs: one atomic flag and one AtomicWaker *)
(* shared by every waiter.  A user is a task (or boot code, a panic) that  *)
(* takes the mutex with `lock().await`, `lock_or_spin` or `try_lock`.      *)
(* Mutex is Sync, so users run in parallel: one step is one atomic access. *)
(***************************************************************************)
EXTENDS Integers, FiniteSets

CONSTANTS Users,
          Kinds,   \* how the users take the mutex: a subset of {"lock", "spin", "try"}
          Nil

ASSUME LockAssumption == Kinds \subseteq {"lock", "spin", "try"} /\ Nil \notin Users

VARIABLES
  locked,   \* Mutex::locked
  slot,     \* the user whose waker Mutex::waker holds, or Nil
  wstate,   \* the state word of Mutex::waker: a subset of {"REGISTERING", "WAKING"}
  pc,       \* where each user is
  kind,     \* how each user takes the mutex; a "lock" guard holds Mutex::waker,
            \* any other guard NEW_WAKER, which nobody registers with
  woken,    \* users whose waker was called and who were not polled since
  missed    \* history: waiters whose waker was not stored or was replaced, or
            \* that a release through NEW_WAKER has passed over

vars == <<locked, slot, wstate, pc, kind, woken, missed>>

waker == <<slot, wstate, woken, missed>>

Goto(u, l) == pc' = [pc EXCEPT ![u] = l]

Begin(u, k) ==
  /\ pc[u] = "idle"
  /\ kind' = [kind EXCEPT ![u] = k]
  /\ Goto(u, k)
  /\ UNCHANGED <<locked, waker>>
-----------------------------------------------------------------------------
(* MutexLockFuture::poll, lock_or_spin, try_lock *)

\* Mutant: the flag is set by a plain store.
AcquiredBlind(u) ==
  /\ locked' = TRUE
  /\ missed' = missed \ {u}
  /\ Goto(u, "guard")
  /\ UNCHANGED <<slot, wstate, kind, woken>>

\* check(): compare_exchange(false, true).
Acquired(u) ==
  /\ ~locked
  /\ locked' = TRUE
  /\ missed' = missed \ {u}
  /\ Goto(u, "guard")
  /\ UNCHANGED <<slot, wstate, kind, woken>>

Refused(u, l) == locked /\ Goto(u, l) /\ UNCHANGED <<locked, kind, waker>>

FastPath(u) == pc[u] = "lock" /\ (Acquired(u) \/ Refused(u, "register"))

\* Mutant: the future is Pending without a second look at the flag.
SecondCheckSkipped(u) ==
  /\ pc[u] = "second"
  /\ Goto(u, "pending")
  /\ UNCHANGED <<locked, kind, waker>>

SecondCheck(u) == pc[u] = "second" /\ (Acquired(u) \/ Refused(u, "pending"))

Spin(u) == pc[u] = "spin" /\ Acquired(u)

\* Mutant: try_lock waits for a mutex it cannot have.
TryLockWaits(u) == pc[u] = "try" /\ (Acquired(u) \/ Refused(u, "register"))

TryLock(u) == pc[u] = "try" /\ (Acquired(u) \/ Refused(u, "idle"))

\* The executor may poll a waiter again once its waker was called.  It need not:
\* the waker pushes the task's id to the queue of the CPU that calls it, which
\* drops an id of another CPU's task, and a CPU in lock_or_spin polls nobody.
PollAgain(u) ==
  /\ pc[u] = "pending"
  /\ u \in woken
  /\ woken' = woken \ {u}
  /\ Goto(u, "lock")
  /\ UNCHANGED <<locked, slot, wstate, kind, missed>>
-----------------------------------------------------------------------------
(* AtomicWaker::register and wake, futures-util 0.3 *)

\* REGISTERING is taken; a concurrent wake wakes the caller instead, and a
\* concurrent register makes this one do nothing.
Register(u) ==
  /\ pc[u] = "register"
  /\ \/ /\ wstate = {}
        /\ wstate' = {"REGISTERING"}
        /\ Goto(u, "store")
        /\ UNCHANGED <<woken, missed>>
     \/ /\ wstate = {"WAKING"}
        /\ woken' = woken \cup {u}
        /\ Goto(u, "second")
        /\ UNCHANGED <<wstate, missed>>
     \/ /\ "REGISTERING" \in wstate
        /\ missed' = missed \cup {u}
        /\ Goto(u, "second")
        /\ UNCHANGED <<wstate, woken>>
  /\ UNCHANGED <<locked, slot, kind>>

\* Mutant: a wake that arrives during the registration goes unnoticed.
StoreUnnoticed(u) ==
  /\ pc[u] = "store"
  /\ missed' = (missed \cup ({slot} \ {Nil})) \ {u}
  /\ wstate' = wstate \ {"REGISTERING"}
  /\ slot' = u
  /\ Goto(u, "second")
  /\ UNCHANGED <<locked, kind, woken>>

\* The waker is stored, over the one that was there; if a wake arrived
\* meanwhile it is taken out again and called.
Store(u) ==
  /\ pc[u] = "store"
  /\ missed' = (missed \cup ({slot} \ {Nil})) \ {u}
  /\ wstate' = {}
  /\ \/ /\ "WAKING" \notin wstate
        /\ slot' = u
        /\ UNCHANGED woken
     \/ /\ "WAKING" \in wstate
        /\ slot' = Nil
        /\ woken' = woken \cup {u}
  /\ Goto(u, "second")
  /\ UNCHANGED <<locked, kind>>

\* Whoever finds the state word clear takes the waker; otherwise the WAKING
\* bit is left for the registration, or the wake, in progress.
Wake(u) ==
  /\ pc[u] = "wake"
  /\ wstate' = wstate \cup {"WAKING"}
  /\ Goto(u, IF wstate = {} THEN "take" ELSE "idle")
  /\ UNCHANGED <<locked, slot, kind, woken, missed>>

TakeWaker(u) ==
  /\ pc[u] = "take"
  /\ slot' = Nil
  /\ wstate' = wstate \ {"WAKING"}
  /\ woken' = woken \cup ({slot} \ {Nil})
  /\ Goto(u, "idle")
  /\ UNCHANGED <<locked, kind, missed>>
-----------------------------------------------------------------------------
(* Drop for MutexGuard: clear the flag, then wake *)

Waiting == {w \in Users : pc[w] = "pending"}

Drop(u) ==
  /\ pc[u] = "guard"
  /\ locked' = FALSE
  /\ \/ /\ kind[u] = "lock"
        /\ Goto(u, "wake")
        /\ UNCHANGED missed
     \/ /\ kind[u] # "lock"
        /\ Goto(u, "idle")
        /\ missed' = missed \cup Waiting
  /\ UNCHANGED <<slot, wstate, kind, woken>>
-----------------------------------------------------------------------------
Init ==
  /\ locked = FALSE
  /\ slot = Nil
  /\ wstate = {}
  /\ pc = [u \in Users |-> "idle"]
  /\ kind = [u \in Users |-> "lock"]
  /\ woken = {}
  /\ missed = {}

\* The steps inside a poll, a try_lock or a drop.
Call(u) ==
  \/ FastPath(u) \/ SecondCheck(u) \/ TryLock(u)
  \/ Register(u) \/ Store(u) \/ Wake(u) \/ TakeWaker(u)

\* The steps of a user that has begun.
Step(u) == Call(u) \/ Spin(u) \/ PollAgain(u) \/ Drop(u)

Next == \E u \in Users : (\E k \in Kinds : Begin(u, k)) \/ Step(u)

Spec == Init /\ [][Next]_vars

\* A CPU finishes the call it is in.  Nothing is assumed of the rest: nobody need
\* begin an operation or drop a guard, lock_or_spin need not win a race, and the
\* executor need not poll anyone.
FairSpec == Spec /\ \A u \in Users : WF_vars(Call(u))
-----------------------------------------------------------------------------
Pcs == {"idle", "lock", "spin", "try", "register", "store", "second", "pending",
        "guard", "wake", "take"}

\* Every variable keeps its type, and only `lock().await` registers, waits or
\* touches the mutex's waker: lock_or_spin and try_lock never suspend their
\* caller (lock.rs:89-109).
TypeOK ==
  /\ locked \in BOOLEAN
  /\ slot \in Users \cup {Nil}
  /\ wstate \subseteq {"REGISTERING", "WAKING"}
  /\ pc \in [Users -> Pcs]
  /\ kind \in [Users -> {"lock", "spin", "try"}]
  /\ \A u \in Users : pc[u] \in {"lock", "register", "store", "second", "pending", "wake", "take"}
                         => kind[u] = "lock"
  /\ woken \subseteq Users
  /\ missed \subseteq Users

\* At most one MutexGuard exists, and the flag is set exactly while one does:
\* no guard's drop frees the mutex under another, and an abandoned attempt
\* never leaves it locked (lock.rs:49-66, 89-108, 112-117).
MutualExclusion ==
  /\ \A u, v \in Users : pc[u] = "guard" /\ pc[v] = "guard" => u = v
  /\ locked <=> \E u \in Users : pc[u] = "guard"

\* The register-then-check-again of poll (lines 57-65) against the
\* store-then-wake of drop (lines 114-115): a waiter that is asleep while the
\* mutex is free has its wake on the way.  Three kinds of waiter are excepted,
\* because the code does overlook them: one whose waker another waiter's
\* replaced, one that registered while another was registering (line 57: there
\* is one AtomicWaker for all), and one the mutex was released past through
\* NEW_WAKER (lines 93, 102).
NoWakeupLost ==
  \A u \in Waiting \ (woken \cup missed) :
    locked \/ "WAKING" \in wstate \/ \E v \in Users : pc[v] = "wake"

\* Once the mutex is free, a waiter's waker is called, with the same exceptions,
\* also when registrations and wakes keep meeting (lines 57, 115).  Whether the
\* guard is ever dropped, and whether the task woken is polled, is not for the
\* mutex to say: a CPU that spins in lock_or_spin polls neither the holder nor
\* the waiter, and an id woken on a CPU other than its task's is dropped
\* (executor.rs:43, 96).
WaiterWakes ==
  \A u \in Users :
    pc[u] = "pending" /\ ~locked ~> pc[u] # "pending" \/ u \in woken \cup missed
=============================================================================
