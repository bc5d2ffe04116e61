------------------------------ MODULE MutexCond ------------------------------
(***************************************************************************)
(* A pthread mutex of hle_pthread.cpp and a condition variable used with   *)
(* it.  HostMutex keeps the same fact twice: in the host's                 *)
(* recursive_timed_mutex (host_owner, host_count) and in two atomics of    *)
(* its own (owner_thread, lock_count) that decide between success, EPERM   *)
(* and EDEADLK.  They are updated one after the other, so each update is a *)
(* step; steps that no other thread can tell apart are merged.             *)
(***************************************************************************)
EXTENDS Integers, FiniteSets

CONSTANTS Threads,    \* guest threads, one host thread each (get_current_sync_thread_id)
          NoThread,   \* 0 in owner_thread and pi_owner_tid
          MaxCalls,   \* bound: lock, stray unlock, wait and notify calls per thread
          WaitDepth   \* bound: the deepest hold with which a guest waits

ASSUME MutexAssumption ==
  /\ IsFiniteSet(Threads)
  /\ NoThread \notin Threads
  /\ MaxCalls \in Nat /\ WaitDepth \in Nat \ {0}

VARIABLES
  type, inherit,              \* the mutex type; protocol = PTHREAD_PRIO_INHERIT
  host_owner, host_count,     \* mtx, the std::recursive_timed_mutex
  owner_thread, lock_count,   \* the atomics of HostMutex
  pi_waiters,                 \* hle_sched: the boosts each thread has received
  pc, mode,                   \* where each thread is in its call, and the kind of call
  held_count, pi_owner,       \* locals of wait_cond_with_clock and of the lock calls
  holds,                      \* history: the locks minus the unlocks that succeeded
  calls

attrs == <<type, inherit>>
host == <<host_owner, host_count>>
book == <<owner_thread, lock_count>>
boosts == <<pi_waiters, pi_owner>>
vars == <<attrs, host, book, boosts, pc, mode, held_count, holds, calls>>

Types == {"NORMAL", "RECURSIVE", "ERRORCHECK"}

\* The lock calls: pthread_mutex_lock, trylock, and the timed variants with no
\* abstime, one in the future, or one that prepare_rwlock_deadline refuses.
LockModes == {"lock", "try", "null", "future", "past"}
WaitModes == {"wait", "future", "past"}

Labels == {"idle", "boost", "block", "acquired", "owned", "unboost",
           "drop", "unlock", "clear", "park", "waiting", "woken", "restore", "recount"}

Init ==
  /\ type \in Types /\ inherit \in BOOLEAN
  /\ host_owner = NoThread /\ host_count = 0
  /\ owner_thread = NoThread /\ lock_count = 0
  /\ pi_waiters = [t \in Threads |-> 0]
  /\ pi_owner = [t \in Threads |-> NoThread]
  /\ pc = [t \in Threads |-> "idle"]
  /\ mode = [t \in Threads |-> "lock"]
  /\ held_count = [t \in Threads |-> 0]
  /\ holds = [t \in Threads |-> 0]
  /\ calls = [t \in Threads |-> MaxCalls]
-----------------------------------------------------------------------------
Owns(t) == owner_thread = t /\ lock_count > 0

Goto(t, label) == pc' = [pc EXCEPT ![t] = label]
Go(t, from, to) == pc[t] = from /\ Goto(t, to)

Call(t) == pc[t] = "idle" /\ calls[t] > 0 /\ calls' = [calls EXCEPT ![t] = @ - 1]

\* The std::recursive_timed_mutex: a lock by its owner nests.
HostFree(t) == host_owner \in {NoThread, t}
HostLock(t) == HostFree(t) /\ host_owner' = t /\ host_count' = host_count + 1
HostUnlock ==
  /\ host_owner' = IF host_count = 1 THEN NoThread ELSE host_owner
  /\ host_count' = host_count - 1

\* hle_sched_pi_boost_begin of the owner read now, and hle_sched_pi_boost_end
\* of the owner read then.
BeginBoost(t) ==
  /\ pi_owner' = [pi_owner EXCEPT ![t] = owner_thread]
  /\ pi_waiters' = [u \in Threads |-> IF u = owner_thread THEN pi_waiters[u] + 1 ELSE pi_waiters[u]]
EndBoost(t) ==
  /\ pi_owner' = [pi_owner EXCEPT ![t] = NoThread]
  /\ pi_waiters' = [u \in Threads |->
       IF u = pi_owner[t] /\ pi_waiters[u] > 0 THEN pi_waiters[u] - 1 ELSE pi_waiters[u]]
-----------------------------------------------------------------------------
\* A lock call of the thread that owns the mutex.  Only the blocking call on a
\* NORMAL mutex goes on to mtx.lock(), which nests.
Relock(t, m) ==
  /\ Owns(t)
  /\ CASE type = "RECURSIVE" -> /\ HostLock(t)
                                /\ lock_count' = lock_count + 1
                                /\ holds' = [holds EXCEPT ![t] = @ + 1]
                                /\ UNCHANGED <<owner_thread, pc>>
       [] type = "NORMAL" /\ m = "lock" -> Goto(t, "block") /\ UNCHANGED <<host, book, holds>>
       [] OTHER -> UNCHANGED <<host, book, pc, holds>>          \* EDEADLK, EBUSY, ETIMEDOUT

\* A lock call of another thread: it looks at lock_count to decide on a boost.
FirstLock(t) ==
  /\ ~Owns(t)
  /\ Goto(t, IF inherit /\ lock_count > 0 THEN "boost" ELSE "block")
  /\ UNCHANGED <<host, book, holds>>

TryLockUnchecked(t) ==                                          \* mutant of TryLock
  /\ ~Owns(t)
  /\ Goto(t, "acquired")
  /\ UNCHANGED <<host, book, holds>>
TryLock(t) ==
  /\ ~Owns(t)
  /\ IF HostFree(t)
     THEN HostLock(t) /\ Goto(t, "acquired")
     ELSE UNCHANGED <<host, pc>>                                \* EBUSY
  /\ UNCHANGED <<book, holds>>

Lock(t, m) ==
  /\ Call(t)
  /\ mode' = [mode EXCEPT ![t] = m]
  /\ Relock(t, m) \/ (m # "try" /\ FirstLock(t)) \/ (m = "try" /\ TryLock(t))
  /\ UNCHANGED <<attrs, boosts, held_count>>

Boost(t) ==
  /\ Go(t, "boost", "block")
  /\ BeginBoost(t)
  /\ UNCHANGED <<attrs, host, book, mode, held_count, holds, calls>>

Acquire(t) ==
  /\ Go(t, "block", "acquired")
  /\ mode[t] # "past"
  /\ HostLock(t)
  /\ UNCHANGED <<attrs, book, boosts, mode, held_count, holds, calls>>

\* try_lock_until times out, or there was no valid deadline.
GiveUpBoosted(t) ==                                             \* mutant of GiveUp
  /\ Go(t, "block", "idle")
  /\ mode[t] \in {"future", "past"}
  /\ UNCHANGED <<attrs, host, book, boosts, mode, held_count, holds, calls>>
GiveUp(t) ==
  /\ Go(t, "block", "unboost")
  /\ mode[t] \in {"future", "past"}
  /\ UNCHANGED <<attrs, host, book, boosts, mode, held_count, holds, calls>>

\* pthread_mutex_lock ends the boost as soon as it has the mutex, the timed
\* calls once they are done.
StoreOwner(t) ==
  /\ Go(t, "acquired", "owned")
  /\ owner_thread' = t
  /\ IF mode[t] = "lock" THEN EndBoost(t) ELSE UNCHANGED boosts
  /\ UNCHANGED <<attrs, host, lock_count, mode, held_count, holds, calls>>

Count(t) ==
  /\ Go(t, "owned", IF mode[t] \in {"lock", "try"} THEN "idle" ELSE "unboost")
  /\ lock_count' = lock_count + 1
  /\ holds' = [holds EXCEPT ![t] = @ + 1]
  /\ UNCHANGED <<attrs, host, owner_thread, boosts, mode, held_count, calls>>

Unboost(t) ==
  /\ Go(t, "unboost", "idle")
  /\ EndBoost(t)
  /\ UNCHANGED <<attrs, host, book, mode, held_count, holds, calls>>
-----------------------------------------------------------------------------
\* pthread_mutex_unlock by the owner, and by anyone else (EPERM).
Unlock(t) ==
  /\ Owns(t)
  /\ Go(t, "idle", "drop")
  /\ lock_count' = lock_count - 1
  /\ holds' = [holds EXCEPT ![t] = @ - 1]
  /\ UNCHANGED <<attrs, host, owner_thread, boosts, mode, held_count, calls>>

UncheckedUnlock(t) ==                                           \* mutant of StrayUnlock
  /\ Call(t)
  /\ lock_count > 0 /\ owner_thread # t
  /\ Goto(t, "drop")
  /\ lock_count' = lock_count - 1
  /\ UNCHANGED <<attrs, host, owner_thread, boosts, mode, held_count, holds>>
StrayUnlock(t) ==
  /\ Call(t)
  /\ ~Owns(t)
  /\ UNCHANGED <<attrs, host, book, boosts, pc, mode, held_count, holds>>

KeepOwner(t) ==                                                 \* mutant of DropOwner
  /\ Go(t, "drop", "unlock")
  /\ UNCHANGED <<attrs, host, book, boosts, mode, held_count, holds, calls>>
DropOwner(t) ==
  /\ Go(t, "drop", "unlock")
  /\ owner_thread' = IF lock_count = 0 THEN NoThread ELSE owner_thread
  /\ UNCHANGED <<attrs, host, lock_count, boosts, mode, held_count, holds, calls>>

Release(t) ==
  /\ Go(t, "unlock", "idle")
  /\ HostUnlock
  /\ UNCHANGED <<attrs, book, boosts, mode, held_count, holds, calls>>
-----------------------------------------------------------------------------
\* wait_cond_with_clock: the bookkeeping is cleared, the condition variable
\* unlocks the host mutex once and parks the thread in one step, and locks it
\* once on the way out.
CondWait(t, m) ==
  /\ Call(t)
  /\ mode' = [mode EXCEPT ![t] = m]
  /\ IF Owns(t)
     THEN /\ lock_count <= WaitDepth
          /\ Goto(t, "clear")
          /\ owner_thread' = NoThread
          /\ held_count' = [held_count EXCEPT ![t] = lock_count]
          /\ holds' = [holds EXCEPT ![t] = 0]
     ELSE UNCHANGED <<pc, owner_thread, held_count, holds>>     \* EPERM
  /\ UNCHANGED <<attrs, host, lock_count, boosts>>

ClearCount(t) ==
  /\ Go(t, "clear", IF mode[t] = "past" THEN "restore" ELSE "park")
  /\ lock_count' = 0
  /\ UNCHANGED <<attrs, host, owner_thread, boosts, mode, held_count, holds, calls>>

Park(t) ==
  /\ Go(t, "park", "waiting")
  /\ HostUnlock
  /\ UNCHANGED <<attrs, book, boosts, mode, held_count, holds, calls>>

\* A deadline or a spurious wakeup.
Wake(t) ==
  /\ Go(t, "waiting", "woken")
  /\ UNCHANGED <<attrs, host, book, boosts, mode, held_count, holds, calls>>
Timeout(t) == mode[t] = "future" /\ Wake(t)

Reacquire(t) ==
  /\ Go(t, "woken", "restore")
  /\ HostLock(t)
  /\ UNCHANGED <<attrs, book, boosts, mode, held_count, holds, calls>>

\* restore_ownership
RestoreNothing(t) ==                                            \* mutant of RestoreOwner
  /\ Go(t, "restore", "idle")
  /\ holds' = [holds EXCEPT ![t] = held_count[t]]
  /\ UNCHANGED <<attrs, host, book, boosts, mode, held_count, calls>>
RestoreOwner(t) ==
  /\ Go(t, "restore", "recount")
  /\ owner_thread' = t
  /\ UNCHANGED <<attrs, host, lock_count, boosts, mode, held_count, holds, calls>>
RestoreCount(t) ==
  /\ Go(t, "recount", "idle")
  /\ lock_count' = held_count[t]
  /\ holds' = [holds EXCEPT ![t] = held_count[t]]
  /\ UNCHANGED <<attrs, host, owner_thread, boosts, mode, held_count, calls>>

Waiting == {t \in Threads : pc[t] = "waiting"}

\* pthread_cond_signal and pthread_cond_broadcast.
Notify(t) ==
  /\ Call(t)
  /\ \E woken \in {{w} : w \in Waiting} \cup {Waiting} :
       pc' = [w \in Threads |-> IF w \in woken THEN "woken" ELSE pc[w]]
  /\ UNCHANGED <<attrs, host, book, boosts, mode, held_count, holds>>
-----------------------------------------------------------------------------
\* What a thread does by itself once it is in a call.
Inside(t) ==
  \/ Boost(t) \/ Acquire(t) \/ GiveUp(t) \/ StoreOwner(t) \/ Count(t) \/ Unboost(t)
  \/ DropOwner(t) \/ Release(t)
  \/ ClearCount(t) \/ Park(t) \/ Timeout(t) \/ Reacquire(t) \/ RestoreOwner(t) \/ RestoreCount(t)

Step(t) ==
  \/ \E m \in LockModes : Lock(t, m)
  \/ \E m \in WaitModes : CondWait(t, m)
  \/ Unlock(t) \/ StrayUnlock(t) \/ Notify(t)
  \/ Inside(t) \/ Wake(t)

\* The threads have made their calls; some may wait for a signal for ever.
AllDone ==
  /\ \A t \in Threads : \/ pc[t] = "idle" /\ calls[t] = 0 /\ ~Owns(t)
                        \/ pc[t] = "waiting"
  /\ UNCHANGED vars

Next == (\E t \in Threads : Step(t)) \/ AllDone

Spec == Init /\ [][Next]_vars

\* A host thread inside a call keeps running, deadlines pass, and guests
\* unlock what they hold.
FairSpec == Spec /\ \A t \in Threads : WF_vars(Inside(t)) /\ WF_vars(Unlock(t))
-----------------------------------------------------------------------------
\* The atomics and the host mutex keep their types.
TypeOK ==
  /\ type \in Types /\ inherit \in BOOLEAN
  /\ host_owner \in Threads \cup {NoThread} /\ host_count \in Nat
  /\ owner_thread \in Threads \cup {NoThread} /\ lock_count \in Nat
  /\ pi_waiters \in [Threads -> Nat] /\ pi_owner \in [Threads -> Threads \cup {NoThread}]
  /\ pc \in [Threads -> Labels] /\ mode \in [Threads -> LockModes \cup WaitModes]
  /\ held_count \in [Threads -> Nat] /\ holds \in [Threads -> Nat]
  /\ calls \in [Threads -> 0..MaxCalls]

\* Mutual exclusion as the guest sees it: a thread whose lock calls succeeded
\* more often than its unlocks, and that is not waiting on the condition
\* variable, is alone.
MutualExclusion == \A t, u \in Threads : holds[t] > 0 /\ holds[u] > 0 => t = u

\* A holder is never refused: between calls, owner_thread and lock_count say
\* exactly what the guest holds, so its pthread_mutex_unlock and
\* pthread_cond_wait cannot return EPERM.
HolderIsKnown ==
  \A t \in Threads : pc[t] = "idle" => (Owns(t) <=> holds[t] > 0) /\ (Owns(t) => lock_count = holds[t])

\* The bookkeeping mirrors the host mutex whenever no thread is between two
\* steps of a call, also while threads wait on the condition variable.
Quiescent == \A t \in Threads : pc[t] \in {"idle", "block", "waiting", "woken"}
BookkeepingMirrors == Quiescent => owner_thread = host_owner /\ lock_count = host_count

\* Every priority boost is taken back: a thread is boosted once for each lock
\* call in progress that saw it as the owner.
BoostsBalanced ==
  \A u \in Threads :
    pi_waiters[u] = Cardinality({t \in Threads : pc[t] # "idle" /\ pi_owner[t] = u})

\* Every call returns or parks: a thread blocked in a lock call, or woken from
\* a wait, gets the mutex if the holders unlock it.
EveryCallReturns ==
  \A t \in Threads : pc[t] \notin {"idle", "waiting"} ~> pc[t] \in {"idle", "waiting"}
=============================================================================
