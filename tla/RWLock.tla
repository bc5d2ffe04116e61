------------------------------- MODULE RWLock -------------------------------
(***************************************************************************)
(* The writer-preferring read-write lock of hle_pthread.cpp: the           *)
(* HostRWLock state and lock_writer_pref_reader, lock_writer_pref_writer   *)
(* and unlock_rwlock.  Every access to the state happens under             *)
(* state_mutex, so the stretch of code between two acquisitions of that    *)
(* mutex is one step.  A wait on state_cv is three steps: park, be woken   *)
(* (notify_all, a spurious wakeup, or the deadline), and re-evaluate the   *)
(* predicate once the mutex is held again.                                 *)
(***************************************************************************)
EXTENDS Integers, FiniteSets

CONSTANTS Threads,      \* guest threads (get_current_host_thread_token)
          NoThread,     \* writer_tid when nobody writes (0 in the code)
          MaxCalls      \* bound: lock and stray unlock calls per thread

ASSUME ThreadsAssumption ==
  /\ IsFiniteSet(Threads)
  /\ NoThread \notin Threads
  /\ MaxCalls \in Nat

VARIABLES
  \* the fields of HostRWLock
  reader_counts,        \* read holds of each thread; 0 is "no entry"
  active_readers,
  waiting_writers,
  writer_active,
  writer_tid,
  \* the threads inside a lock call
  blocked,              \* which wait loop each thread is in: "no", "rd", "wr"
  timed,                \* the blocked threads that passed an abstime
  asleep,               \* the threads parked on state_cv
  expired,              \* the threads whose wait_until returned timeout
  calls                 \* calls each thread may still make

lockVars == <<reader_counts, active_readers, waiting_writers, writer_active, writer_tid>>
waitVars == <<blocked, timed, asleep, expired>>
vars == <<lockVars, waitVars, calls>>

\* "expired": an abstime that prepare_rwlock_deadline refuses, because it has
\* passed (ETIMEDOUT) or is malformed (EINVAL).
Modes == {"try", "block", "timed", "expired"}

Init ==
  /\ reader_counts = [t \in Threads |-> 0]
  /\ active_readers = 0
  /\ waiting_writers = 0
  /\ writer_active = FALSE
  /\ writer_tid = NoThread
  /\ blocked = [t \in Threads |-> "no"]
  /\ timed = {}
  /\ asleep = {}
  /\ expired = {}
  /\ calls = [t \in Threads |-> MaxCalls]
-----------------------------------------------------------------------------
IsWriter(t) == writer_active /\ writer_tid = t
IsReader(t) == reader_counts[t] > 0

CanReadAnyTime(t) == ~writer_active                             \* mutant of CanRead
CanRead(t) == ~writer_active /\ (waiting_writers > 0 => IsReader(t))

CanWriteOverReaders == ~writer_active                           \* mutant of CanWrite
CanWrite == ~writer_active /\ active_readers = 0

AcquireReaderOnce(t) ==                                         \* mutant of AcquireReader
  /\ reader_counts' = [reader_counts EXCEPT ![t] = @ + 1]
  /\ active_readers' = IF IsReader(t) THEN active_readers ELSE active_readers + 1
  /\ UNCHANGED <<waiting_writers, writer_active, writer_tid>>
AcquireReader(t) ==
  /\ reader_counts' = [reader_counts EXCEPT ![t] = @ + 1]
  /\ active_readers' = active_readers + 1
  /\ UNCHANGED <<waiting_writers, writer_active, writer_tid>>

AcquireWriter(t) ==
  /\ writer_active' = TRUE
  /\ writer_tid' = t
  /\ UNCHANGED <<reader_counts, active_readers>>

Call(t) ==
  /\ blocked[t] = "no"
  /\ calls[t] > 0
  /\ calls' = [calls EXCEPT ![t] = @ - 1]

\* The wait loop begins: the predicate was false, the thread parks.
Park(t, loop, mode) ==
  /\ blocked' = [blocked EXCEPT ![t] = loop]
  /\ timed' = IF mode = "timed" THEN timed \cup {t} ELSE timed
  /\ asleep' = asleep \cup {t}
  /\ UNCHANGED expired

\* The wait loop ends for t; sleepers stay parked, or all wake on notify_all.
Leave(t, stillAsleep) ==
  /\ blocked' = [blocked EXCEPT ![t] = "no"]
  /\ timed' = timed \ {t}
  /\ asleep' = stillAsleep
  /\ expired' = expired \ {t}

NotifyAll == asleep' = {} /\ UNCHANGED <<blocked, timed, expired>>
-----------------------------------------------------------------------------
\* pthread_rwlock_rdlock, tryrdlock, timedrdlock and clockrdlock.
RdLock(t, mode) ==
  /\ Call(t)
  /\ \/ /\ \/ IsWriter(t)                                       \* EDEADLK
           \/ ~IsReader(t) /\ mode = "expired"                  \* ETIMEDOUT, EINVAL
           \/ ~IsReader(t) /\ mode = "try" /\ ~CanRead(t)       \* EBUSY
        /\ UNCHANGED <<lockVars, waitVars>>
     \/ /\ ~IsWriter(t)
        /\ IsReader(t) \/ (mode # "expired" /\ CanRead(t))
        /\ AcquireReader(t)
        /\ UNCHANGED waitVars
     \/ /\ ~IsWriter(t) /\ ~IsReader(t)
        /\ mode \in {"block", "timed"} /\ ~CanRead(t)
        /\ Park(t, "rd", mode)
        /\ UNCHANGED lockVars

\* pthread_rwlock_wrlock, trywrlock, timedwrlock and clockwrlock.  A caller
\* that need not wait still counts itself in and out of waiting_writers, and
\* clear_waiter wakes every sleeper.
WrLock(t, mode) ==
  /\ Call(t)
  /\ \/ /\ IsWriter(t) \/ IsReader(t)                           \* EDEADLK
           \/ (mode = "try" /\ ~CanWrite)                       \* EBUSY
        /\ UNCHANGED <<lockVars, waitVars>>
     \/ /\ ~IsWriter(t) /\ ~IsReader(t)
        /\ mode = "try" /\ CanWrite
        /\ AcquireWriter(t)
        /\ UNCHANGED <<waiting_writers, waitVars>>
     \/ /\ ~IsWriter(t) /\ ~IsReader(t)
        /\ mode = "expired"                                     \* ETIMEDOUT, EINVAL
        /\ NotifyAll
        /\ UNCHANGED lockVars
     \/ /\ ~IsWriter(t) /\ ~IsReader(t)
        /\ mode \in {"block", "timed"} /\ CanWrite
        /\ AcquireWriter(t)
        /\ NotifyAll
        /\ UNCHANGED waiting_writers
     \/ /\ ~IsWriter(t) /\ ~IsReader(t)
        /\ mode \in {"block", "timed"} /\ ~CanWrite
        /\ waiting_writers' = waiting_writers + 1
        /\ Park(t, "wr", mode)
        /\ UNCHANGED <<reader_counts, active_readers, writer_active, writer_tid>>

\* A parked thread wakes up without a notify.
SpuriousWake(t) ==
  /\ t \in asleep
  /\ asleep' = asleep \ {t}
  /\ UNCHANGED <<lockVars, blocked, timed, expired, calls>>

\* The deadline passes: wait_until will report timeout once it has the mutex.
Expire(t) ==
  /\ t \in asleep \cap timed
  /\ asleep' = asleep \ {t}
  /\ expired' = expired \cup {t}
  /\ UNCHANGED <<lockVars, blocked, timed, calls>>

\* A woken reader has state_mutex again and re-evaluates its predicate.
ResumeReader(t) ==
  /\ blocked[t] = "rd" /\ t \notin asleep
  /\ \/ /\ CanRead(t)
        /\ AcquireReader(t)
        /\ Leave(t, asleep)
     \/ /\ ~CanRead(t) /\ t \in expired                         \* ETIMEDOUT
        /\ Leave(t, asleep)
        /\ UNCHANGED lockVars
     \/ /\ ~CanRead(t) /\ t \notin expired
        /\ asleep' = asleep \cup {t}
        /\ UNCHANGED <<lockVars, blocked, timed, expired>>
  /\ UNCHANGED calls

\* The deadline of a waiting writer has passed: clear_waiter, ETIMEDOUT.
GiveUpUncounted(t) ==                                           \* mutant of GiveUpWriter
  Leave(t, {}) /\ UNCHANGED waiting_writers
GiveUpSilently(t) ==                                            \* mutant of GiveUpWriter
  Leave(t, asleep) /\ waiting_writers' = waiting_writers - 1
GiveUpWriter(t) ==
  Leave(t, {}) /\ waiting_writers' = waiting_writers - 1

\* A woken writer has state_mutex again.  Whether it takes the lock or gives
\* up, clear_waiter runs: the count drops and every sleeper wakes.
ResumeWriter(t) ==
  /\ blocked[t] = "wr" /\ t \notin asleep
  /\ \/ /\ CanWrite
        /\ AcquireWriter(t)
        /\ waiting_writers' = waiting_writers - 1
        /\ Leave(t, {})
     \/ /\ ~CanWrite /\ t \in expired
        /\ GiveUpWriter(t)
        /\ UNCHANGED <<reader_counts, active_readers, writer_active, writer_tid>>
     \/ /\ ~CanWrite /\ t \notin expired
        /\ asleep' = asleep \cup {t}
        /\ UNCHANGED <<lockVars, blocked, timed, expired>>
  /\ UNCHANGED calls

\* Who still sleeps after a read unlock: the last reader wakes everyone.
NobodyWoken == asleep                                           \* mutant of AsleepAfterRead
AsleepAfterRead == IF active_readers = 1 THEN {} ELSE asleep

\* pthread_rwlock_unlock by a thread that holds the lock.
Unlock(t) ==
  /\ blocked[t] = "no"
  /\ \/ /\ IsWriter(t)
        /\ writer_active' = FALSE
        /\ writer_tid' = NoThread
        /\ NotifyAll
        /\ UNCHANGED <<reader_counts, active_readers, waiting_writers>>
     \/ /\ ~IsWriter(t) /\ IsReader(t)
        /\ reader_counts' = [reader_counts EXCEPT ![t] = @ - 1]
        /\ active_readers' = active_readers - 1
        /\ asleep' = AsleepAfterRead
        /\ UNCHANGED <<waiting_writers, writer_active, writer_tid, blocked, timed, expired>>
  /\ UNCHANGED calls

\* pthread_rwlock_unlock by a thread that holds nothing: EINVAL.
StrayUnlockCounted(t) ==                                        \* mutant of StrayUnlock
  /\ Call(t)
  /\ ~IsWriter(t) /\ ~IsReader(t)
  /\ reader_counts' = [reader_counts EXCEPT ![t] = @ - 1]
  /\ active_readers' = active_readers - 1
  /\ UNCHANGED <<waiting_writers, writer_active, writer_tid, waitVars>>
StrayUnlock(t) ==
  /\ Call(t)
  /\ ~IsWriter(t) /\ ~IsReader(t)
  /\ UNCHANGED <<lockVars, waitVars>>

\* Every thread has made its calls and holds nothing.
AllDone ==
  /\ \A t \in Threads : calls[t] = 0 /\ blocked[t] = "no" /\ ~IsReader(t) /\ ~IsWriter(t)
  /\ UNCHANGED vars

Step(t) ==
  \/ \E mode \in Modes : RdLock(t, mode) \/ WrLock(t, mode)
  \/ SpuriousWake(t)
  \/ Expire(t)
  \/ ResumeReader(t)
  \/ ResumeWriter(t)
  \/ Unlock(t)
  \/ StrayUnlock(t)

Next == (\E t \in Threads : Step(t)) \/ AllDone

Spec == Init /\ [][Next]_vars

\* A runnable thread runs, a deadline that has been set passes, and a guest
\* that holds the lock eventually unlocks it.
Fairness ==
  \A t \in Threads :
    /\ WF_vars(ResumeReader(t))
    /\ WF_vars(ResumeWriter(t))
    /\ WF_vars(Expire(t))
    /\ WF_vars(Unlock(t))

FairSpec == Spec /\ Fairness
-----------------------------------------------------------------------------
ReadHolds == UNION {{t} \X (1..reader_counts[t]) : t \in Threads}
WaitingWriters == {t \in Threads : blocked[t] = "wr"}

\* The fields of HostRWLock and of the wait loops keep their types.
TypeOK ==
  /\ reader_counts \in [Threads -> Nat]
  /\ active_readers \in Nat
  /\ waiting_writers \in Nat
  /\ writer_active \in BOOLEAN
  /\ writer_tid \in Threads \cup {NoThread}
  /\ blocked \in [Threads -> {"no", "rd", "wr"}]
  /\ timed \subseteq Threads
  /\ asleep \subseteq Threads
  /\ expired \subseteq timed
  /\ calls \in [Threads -> 0..MaxCalls]

\* unlock_rwlock and acquire_writer_pref_reader_locked keep two counts of the
\* read holds: active_readers is the total of the per-thread counts, whatever
\* order threads enter, re-enter and leave in.
ReadersCounted == active_readers = Cardinality(ReadHolds)

\* waiting_writers counts exactly the threads inside the writer wait loop:
\* every exit of lock_writer_pref_writer, timeouts included, runs clear_waiter.
WritersCounted == waiting_writers = Cardinality(WaitingWriters)

\* A writer and a reader never hold the lock together, although the re-entry
\* path of lock_writer_pref_reader takes the lock without looking at
\* writer_active.
Exclusion == writer_active => \A t \in Threads : ~IsReader(t)

\* No missed wakeup: a thread is parked on state_cv only while its predicate
\* is false, so every change that makes a predicate true is followed by
\* notify_all (unlock by the writer, by the last reader, clear_waiter).
NoMissedWakeup ==
  \A t \in asleep : \/ blocked[t] = "rd" /\ ~CanRead(t)
                    \/ blocked[t] = "wr" /\ ~CanWrite

\* Writer preference: while a writer waits, no thread that is not a reader
\* already becomes one (can_acquire_writer_pref_reader_locked).
NoNewReader == \A t \in Threads : waiting_writers > 0 /\ ~IsReader(t) => ~IsReader(t)'
WriterPreference == [][NoNewReader]_vars

\* The lock implements the abstract readers-writer lock.
Abstract == INSTANCE ReadersWriter WITH holds <- reader_counts, writer <- writer_tid
ImplementsReadersWriter == Abstract!AbsSpec

\* Every lock call returns: a thread in a wait loop leaves it, whichever
\* writers time out and whichever readers re-enter meanwhile.
EveryCallReturns == \A t \in Threads : (blocked[t] # "no") ~> (blocked[t] = "no")
=============================================================================
