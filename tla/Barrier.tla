------------------------------- MODULE Barrier -------------------------------
(***************************************************************************)
(* pthread barriers of hle_pthread.cpp: one guest barrier address, the     *)
(* HostBarrier objects that live there one after the other, and the        *)
(* threads that wait on them.  pthread_barrier_wait looks the object up    *)
(* under g_barriers_lock and uses the raw pointer after releasing it; the  *)
(* map owns the object, so erasing the entry frees it under such a thread. *)
(***************************************************************************)
EXTENDS Integers, FiniteSets

CONSTANTS Threads,
          Counts,        \* bound: the counts guests initialise a barrier with
          MaxInits,      \* bound: HostBarrier objects
          MaxCalls,      \* bound: waits per thread
          EarlyDestroy   \* do guests destroy a barrier others are still leaving?

ASSUME BarrierAssumption ==
  /\ IsFiniteSet(Threads) /\ Counts \subseteq Nat \ {0}
  /\ MaxInits \in Nat /\ MaxCalls \in Nat /\ EarlyDestroy \in BOOLEAN

Objects == 1..MaxInits
None == 0

VARIABLES
  entry,                                     \* g_host_barriers[addr]: an object or None
  count, waiting, generation, initialized,   \* the fields of each HostBarrier
  created,                                   \* objects created so far
  destroying,                                \* destroy_barrier is about to erase the entry
  pc, ptr, gen,                              \* each thread in pthread_barrier_wait
  arrived,                                   \* history: arrivals per object and generation
  results,                                   \* history: how those arrivals returned
  calls

object == <<count, waiting, generation, initialized>>
vars == <<entry, object, created, destroying, pc, ptr, gen, arrived, results, calls>>

Generations == 0..(MaxCalls * Cardinality(Threads))
Results == {"SERIAL", "ZERO", "EINVAL"}

Init ==
  /\ entry = None /\ created = 0 /\ destroying = FALSE
  /\ count = [i \in Objects |-> 0]
  /\ waiting = [i \in Objects |-> 0]
  /\ generation = [i \in Objects |-> 0]
  /\ initialized = [i \in Objects |-> FALSE]
  /\ pc = [t \in Threads |-> "idle"]
  /\ ptr = [t \in Threads |-> None]
  /\ gen = [t \in Threads |-> 0]
  /\ arrived = [i \in Objects |-> [g \in Generations |-> 0]]
  /\ results = [i \in Objects, g \in Generations, r \in Results |-> 0]
  /\ calls = [t \in Threads |-> MaxCalls]
-----------------------------------------------------------------------------
Goto(t, label) == pc' = [pc EXCEPT ![t] = label]

\* The map held the only reference to the object t points to, and it is gone.
Freed(t) == ptr[t] # None /\ ptr[t] # entry

\* pthread_barrier_init: get_or_create_barrier keeps an object that exists.
BarrierInit(n) ==
  /\ ~destroying
  /\ entry = None /\ created < MaxInits
  /\ created' = created + 1
  /\ entry' = created + 1
  /\ count' = [count EXCEPT ![created + 1] = n]
  /\ initialized' = [initialized EXCEPT ![created + 1] = TRUE]
  /\ UNCHANGED <<waiting, generation, destroying, pc, ptr, gen, arrived, results, calls>>

\* No thread is in pthread_barrier_wait, or the guest does not care.
MayDestroy == EarlyDestroy \/ \A t \in Threads : pc[t] = "idle"

\* destroy_barrier: EBUSY while threads wait, else mark the object and, still
\* under g_barriers_lock, erase it.
DestroyBusy ==                                                  \* mutant of Destroy
  /\ ~destroying /\ MayDestroy
  /\ entry # None
  /\ initialized' = [initialized EXCEPT ![entry] = FALSE]
  /\ destroying' = TRUE
  /\ UNCHANGED <<entry, count, waiting, generation, created, pc, ptr, gen, arrived, results, calls>>
Destroy ==
  /\ ~destroying /\ MayDestroy
  /\ entry # None
  /\ waiting[entry] = 0
  /\ initialized' = [initialized EXCEPT ![entry] = FALSE]
  /\ destroying' = TRUE
  /\ UNCHANGED <<entry, count, waiting, generation, created, pc, ptr, gen, arrived, results, calls>>

Erase ==
  /\ destroying
  /\ destroying' = FALSE
  /\ entry' = None
  /\ UNCHANGED <<object, created, pc, ptr, gen, arrived, results, calls>>

\* pthread_barrier_wait finds the object, or there is none (EINVAL).
Lookup(t) ==
  /\ pc[t] = "idle" /\ calls[t] > 0 /\ ~destroying
  /\ calls' = [calls EXCEPT ![t] = @ - 1]
  /\ IF entry = None
     THEN UNCHANGED <<pc, ptr>>
     ELSE Goto(t, "found") /\ ptr' = [ptr EXCEPT ![t] = entry]
  /\ UNCHANGED <<entry, object, created, destroying, gen, arrived, results>>

\* A thread that arrived in generation g leaves.
Return(t, g, result) ==
  /\ results' = [results EXCEPT ![ptr[t], g, result] = @ + 1]
  /\ ptr' = [ptr EXCEPT ![t] = None]

Sleepers(i) == {t \in Threads : pc[t] = "asleep" /\ ptr[t] = i}

\* The last to arrive opens the next generation and wakes the sleepers.
LastKeepsCount(t, i) ==                                         \* mutant of Last
  /\ waiting' = [waiting EXCEPT ![i] = @ + 1]
  /\ generation' = [generation EXCEPT ![i] = @ + 1]
  /\ pc' = [u \in Threads |-> IF u = t THEN "idle" ELSE IF u \in Sleepers(i) THEN "woken" ELSE pc[u]]
LastWakesNobody(t, i) ==                                        \* mutant of Last
  /\ waiting' = [waiting EXCEPT ![i] = 0]
  /\ generation' = [generation EXCEPT ![i] = @ + 1]
  /\ pc' = [pc EXCEPT ![t] = "idle"]
Last(t, i) ==
  /\ waiting' = [waiting EXCEPT ![i] = 0]
  /\ generation' = [generation EXCEPT ![i] = @ + 1]
  /\ pc' = [u \in Threads |-> IF u = t THEN "idle" ELSE IF u \in Sleepers(i) THEN "woken" ELSE pc[u]]

\* wait_on_barrier up to the wait.
Arrive(t) ==
  LET i == ptr[t]
      g == generation[i]
  IN /\ pc[t] = "found" /\ ~Freed(t)
     /\ \/ /\ ~initialized[i]                                   \* EINVAL
           /\ Goto(t, "idle") /\ ptr' = [ptr EXCEPT ![t] = None]
           /\ UNCHANGED <<waiting, generation, gen, arrived, results>>
        \/ /\ initialized[i] /\ waiting[i] + 1 = count[i]
           /\ arrived' = [arrived EXCEPT ![i][g] = @ + 1]
           /\ Last(t, i) /\ Return(t, g, "SERIAL")
           /\ UNCHANGED gen
        \/ /\ initialized[i] /\ waiting[i] + 1 # count[i]
           /\ arrived' = [arrived EXCEPT ![i][g] = @ + 1]
           /\ waiting' = [waiting EXCEPT ![i] = @ + 1]
           /\ gen' = [gen EXCEPT ![t] = g]
           /\ Goto(t, "asleep")
           /\ UNCHANGED <<generation, ptr, results>>
     /\ UNCHANGED <<entry, count, initialized, created, destroying, calls>>

SpuriousWake(t) ==
  /\ pc[t] = "asleep"
  /\ Goto(t, "woken")
  /\ UNCHANGED <<entry, object, created, destroying, ptr, gen, arrived, results, calls>>

\* The predicate of cv.wait, then the result.
AnyWakeup(t) == TRUE                                            \* mutant of Released
Released(t) == ~initialized[ptr[t]] \/ generation[ptr[t]] # gen[t]

Resume(t) ==
  /\ pc[t] = "woken" /\ ~Freed(t)
  /\ IF Released(t)
     THEN /\ Goto(t, "idle")
          /\ Return(t, gen[t], IF initialized[ptr[t]] THEN "ZERO" ELSE "EINVAL")
     ELSE /\ Goto(t, "asleep")
          /\ UNCHANGED <<ptr, results>>
  /\ UNCHANGED <<entry, object, created, destroying, gen, arrived, calls>>

\* A thread that locks, or wakes up on, a freed object reads whatever is there:
\* it returns with some result, or, if a later pthread_barrier_init got the
\* same memory, arrives at that barrier; or it never gets the lock, or sleeps
\* on (no step, and no fairness).
UseFreed(t) ==
  /\ pc[t] \in {"found", "woken"} /\ Freed(t)
  /\ \/ Goto(t, "idle") /\ ptr' = [ptr EXCEPT ![t] = None]
     \/ /\ pc[t] = "found" /\ entry # None
        /\ ptr' = [ptr EXCEPT ![t] = entry]
        /\ UNCHANGED pc
  /\ UNCHANGED <<entry, object, created, destroying, gen, arrived, results, calls>>

\* A guest may leave threads waiting for arrivals that never come.
AllDone ==
  /\ ~destroying
  /\ \A t \in Threads : \/ pc[t] = "idle" /\ calls[t] = 0
                        \/ pc[t] = "asleep" /\ ~Released(t)
                        \/ Freed(t)
  /\ UNCHANGED vars

Next ==
  \/ \E n \in Counts : BarrierInit(n)
  \/ Destroy
  \/ Erase
  \/ \E t \in Threads : Lookup(t) \/ Arrive(t) \/ SpuriousWake(t) \/ Resume(t) \/ UseFreed(t)
  \/ AllDone

Spec == Init /\ [][Next]_vars

\* A thread inside pthread_barrier_wait or destroy_barrier keeps running.
FairSpec == Spec /\ WF_vars(Erase) /\ \A t \in Threads : WF_vars(Arrive(t)) /\ WF_vars(Resume(t))
-----------------------------------------------------------------------------
\* The fields of the barrier objects and of the waits keep their types.
TypeOK ==
  /\ entry \in Objects \cup {None} /\ created \in 0..MaxInits /\ destroying \in BOOLEAN
  /\ count \in [Objects -> Counts \cup {0}] /\ waiting \in [Objects -> Nat]
  /\ generation \in [Objects -> Generations] /\ initialized \in [Objects -> BOOLEAN]
  /\ pc \in [Threads -> {"idle", "found", "asleep", "woken"}]
  /\ ptr \in [Threads -> Objects \cup {None}] /\ gen \in [Threads -> Generations]
  /\ \A i \in Objects : arrived[i] \in [Generations -> Nat]
  /\ results \in [Objects \X Generations \X Results -> Nat]
  /\ \A i \in Objects : initialized[i] => waiting[i] < count[i]

\* pthread_barrier_wait lets nobody through early: a thread returns from a
\* generation only if all count threads arrived in it, and exactly one of
\* them gets PTHREAD_BARRIER_SERIAL_THREAD.  (What a thread gets from a freed
\* object is no return from a generation.)
RoundsAreWhole ==
  \A i \in Objects, g \in Generations :
    /\ arrived[i][g] <= count[i]
    /\ results[i, g, "SERIAL"] + results[i, g, "ZERO"] > 0
         => arrived[i][g] = count[i] /\ results[i, g, "SERIAL"] = 1

\* waiting, which destroy_barrier trusts for EBUSY, counts exactly the threads
\* that wait for the current generation of the barrier.
WaitingCounted ==
  entry # None =>
    waiting[entry] = Cardinality({t \in Threads : /\ pc[t] \in {"asleep", "woken"}
                                                  /\ ptr[t] = entry /\ gen[t] = generation[entry]})

\* The EBUSY test protects a round that is not complete: destroy_barrier
\* neither marks nor frees the object of a thread still waiting for arrivals,
\* however early the guest destroys the barrier.
BusyUntilReleased ==
  \A t \in Threads :
    pc[t] \in {"asleep", "woken"} /\ gen[t] = generation[ptr[t]]
      => ~Freed(t) /\ initialized[ptr[t]]

\* Once all have arrived, every waiter leaves the barrier, unless the guest
\* destroys it before the waiter is out: destroy_barrier then frees the object
\* under the waiter, and nothing is promised.
EveryoneLeaves ==
  \A t \in Threads :
    (pc[t] \in {"asleep", "woken"} /\ generation[ptr[t]] # gen[t]) ~> (pc[t] = "idle" \/ Freed(t))

\* "One thread gets PTHREAD_BARRIER_SERIAL_THREAD, others get 0": nobody who
\* arrived in a complete round is refused with EINVAL.
OthersGetZero ==
  \A i \in Objects, g \in Generations :
    arrived[i][g] = count[i] => results[i, g, "EINVAL"] = 0
=============================================================================
