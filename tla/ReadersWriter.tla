--------------------------- MODULE ReadersWriter ---------------------------
(***************************************************************************)
(* What a guest program may rely on when it uses a pthread_rwlock_t: any   *)
(* number of recursive read holds, or one writer, never both.  This is the *)
(* abstract specification that RWLock.tla implements; it says nothing of   *)
(* waiting, deadlines or preference.                                       *)
(***************************************************************************)
EXTENDS Naturals

CONSTANTS Threads,      \* the threads of the guest program
          NoThread      \* "nobody", distinct from every thread

VARIABLES holds,        \* how many read holds each thread has
          writer        \* the thread that holds the lock for writing

absVars == <<holds, writer>>

AbsInit ==
  /\ holds = [t \in Threads |-> 0]
  /\ writer = NoThread

AbsAcquireRead(t) ==
  /\ writer = NoThread
  /\ holds' = [holds EXCEPT ![t] = @ + 1]
  /\ UNCHANGED writer

AbsAcquireWrite(t) ==
  /\ writer = NoThread
  /\ \A u \in Threads : holds[u] = 0
  /\ writer' = t
  /\ UNCHANGED holds

AbsReleaseRead(t) ==
  /\ holds[t] > 0
  /\ holds' = [holds EXCEPT ![t] = @ - 1]
  /\ UNCHANGED writer

AbsReleaseWrite(t) ==
  /\ writer = t
  /\ writer' = NoThread
  /\ UNCHANGED holds

AbsNext ==
  \E t \in Threads :
    AbsAcquireRead(t) \/ AbsAcquireWrite(t) \/ AbsReleaseRead(t) \/ AbsReleaseWrite(t)

AbsSpec == AbsInit /\ [][AbsNext]_absVars
=============================================================================
