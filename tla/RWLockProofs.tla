---------------------------- MODULE RWLockProofs ----------------------------
(***************************************************************************)
(* Proofs about the writer-preferring lock of RWLock.tla, for any finite   *)
(* set of threads and any number of calls.                                 *)
(***************************************************************************)
EXTENDS RWLock, FiniteSetTheorems, TLAPS

\* The inductive invariant.  Exclusion alone is not inductive: the re-entry
\* path relies on the per-thread counts, the writer on their total, so the two
\* must agree; the missed-wakeup argument needs both kinds of waiters.
IInv ==
  /\ TypeOK
  /\ IsFiniteSet(ReadHolds)
  /\ ReadersCounted
  /\ WritersCounted
  /\ Exclusion
  /\ NoMissedWakeup
  /\ writer_active <=> writer_tid # NoThread
-----------------------------------------------------------------------------
\* One more read hold of t is one more element of ReadHolds
\* (acquire_writer_pref_reader_locked keeps both counts in step).
LEMMA AcquireReaderCounts ==
  ASSUME TypeOK, IsFiniteSet(ReadHolds), ReadersCounted, NEW t \in Threads, AcquireReader(t)
  PROVE  IsFiniteSet(ReadHolds') /\ ReadersCounted'
<1> DEFINE new == <<t, reader_counts[t] + 1>>
<1>1. ReadHolds' = ReadHolds \cup {new}
  <2>1. \A u \in Threads : reader_counts'[u] = IF u = t THEN reader_counts[u] + 1 ELSE reader_counts[u]
    BY DEF AcquireReader, TypeOK
  <2>2. ASSUME NEW e \in ReadHolds' PROVE e \in ReadHolds \cup {new}
    <3>1. PICK u \in Threads, i \in Nat : i \in 1..reader_counts'[u] /\ e = <<u, i>>
      BY <2>2 DEF ReadHolds
    <3>2. reader_counts[u] \in Nat
      BY DEF TypeOK
    <3>3. CASE i \in 1..reader_counts[u]
      BY <3>1, <3>3 DEF ReadHolds
    <3>4. CASE i \notin 1..reader_counts[u]
      <4>1. u = t /\ i = reader_counts[t] + 1
        BY <2>1, <3>1, <3>2, <3>4
      <4> QED BY <3>1, <4>1
    <3> QED BY <3>3, <3>4
  <2>3. ASSUME NEW e \in ReadHolds \cup {new} PROVE e \in ReadHolds'
    <3>1. CASE e \in ReadHolds
      <4>1. PICK u \in Threads, i \in Nat : i \in 1..reader_counts[u] /\ e = <<u, i>>
        BY <3>1 DEF ReadHolds
      <4>2. i \in 1..reader_counts'[u]
        BY <2>1, <4>1 DEF TypeOK
      <4> QED BY <4>1, <4>2 DEF ReadHolds
    <3>2. CASE e = new
      <4>1. reader_counts[t] + 1 \in 1..reader_counts'[t]
        BY <2>1 DEF TypeOK
      <4> QED BY <3>2, <4>1 DEF ReadHolds
    <3> QED BY <3>1, <3>2
  <2> QED BY <2>2, <2>3
<1>2. new \notin ReadHolds
  BY DEF ReadHolds, TypeOK
<1>3. IsFiniteSet(ReadHolds') /\ Cardinality(ReadHolds') = Cardinality(ReadHolds) + 1
  BY <1>1, <1>2, FS_AddElement
<1> QED BY <1>3 DEF ReadersCounted, AcquireReader

\* One read hold fewer of t is one element of ReadHolds fewer (the reader
\* branch of unlock_rwlock).
LEMMA ReleaseReaderCounts ==
  ASSUME TypeOK, IsFiniteSet(ReadHolds), ReadersCounted, NEW t \in Threads, IsReader(t),
         reader_counts' = [reader_counts EXCEPT ![t] = @ - 1],
         active_readers' = active_readers - 1
  PROVE  IsFiniteSet(ReadHolds') /\ ReadersCounted' /\ active_readers' \in Nat
<1> DEFINE old == <<t, reader_counts[t]>>
<1>0. reader_counts[t] \in Nat /\ reader_counts[t] > 0
  BY DEF TypeOK, IsReader
<1>1. ReadHolds' = ReadHolds \ {old}
  <2>1. \A u \in Threads : reader_counts'[u] = IF u = t THEN reader_counts[u] - 1 ELSE reader_counts[u]
    BY DEF TypeOK
  <2>2. ASSUME NEW e \in ReadHolds' PROVE e \in ReadHolds \ {old}
    <3>1. PICK u \in Threads, i \in Nat : i \in 1..reader_counts'[u] /\ e = <<u, i>>
      BY <2>2 DEF ReadHolds
    <3>2. reader_counts[u] \in Nat
      BY DEF TypeOK
    <3>3. i \in 1..reader_counts[u] /\ (u = t => i # reader_counts[t])
      BY <2>1, <3>1, <3>2
    <3> QED BY <3>1, <3>3 DEF ReadHolds
  <2>3. ASSUME NEW e \in ReadHolds \ {old} PROVE e \in ReadHolds'
    <3>1. PICK u \in Threads, i \in Nat : i \in 1..reader_counts[u] /\ e = <<u, i>>
      BY <2>3 DEF ReadHolds
    <3>2. reader_counts[u] \in Nat /\ (u = t => i # reader_counts[t])
      BY <2>3, <3>1 DEF TypeOK
    <3>3. i \in 1..reader_counts'[u]
      BY <2>1, <3>1, <3>2
    <3> QED BY <3>1, <3>3 DEF ReadHolds
  <2> QED BY <2>2, <2>3
<1>2. old \in ReadHolds
  BY <1>0 DEF ReadHolds
<1>3. IsFiniteSet(ReadHolds') /\ Cardinality(ReadHolds') = Cardinality(ReadHolds) - 1
  BY <1>1, <1>2, FS_RemoveElement
<1>4. Cardinality(ReadHolds') \in Nat
  BY <1>3, FS_CardinalityType
<1> QED BY <1>3, <1>4 DEF ReadersCounted

\* An active_readers of zero means that no thread has a read hold: what the
\* writer's predicate tests is what exclusion needs.
LEMMA NoActiveReaders ==
  ASSUME TypeOK, IsFiniteSet(ReadHolds), ReadersCounted, active_readers = 0
  PROVE  \A t \in Threads : ~IsReader(t)
<1>1. ReadHolds = {}
  BY FS_EmptySet DEF ReadersCounted
<1> SUFFICES ASSUME NEW t \in Threads, IsReader(t) PROVE FALSE
  OBVIOUS
<1>2. <<t, 1>> \in ReadHolds
  BY DEF ReadHolds, TypeOK, IsReader
<1> QED BY <1>1, <1>2

\* A thread entering the writer wait loop is one more waiting writer.
LEMMA WriterEnters ==
  ASSUME TypeOK, WritersCounted, NEW t \in Threads, blocked[t] # "wr",
         blocked' = [blocked EXCEPT ![t] = "wr"], waiting_writers' = waiting_writers + 1
  PROVE  WritersCounted'
<1>1. WaitingWriters' = WaitingWriters \cup {t} /\ t \notin WaitingWriters
  BY DEF WaitingWriters, TypeOK
<1>2. IsFiniteSet(WaitingWriters)
  BY FS_Subset, ThreadsAssumption DEF WaitingWriters
<1> QED BY <1>1, <1>2, FS_AddElement DEF WritersCounted

\* A thread leaving the writer wait loop is one waiting writer fewer.
LEMMA WriterLeaves ==
  ASSUME TypeOK, WritersCounted, NEW t \in Threads, blocked[t] = "wr",
         blocked' = [blocked EXCEPT ![t] = "no"], waiting_writers' = waiting_writers - 1
  PROVE  WritersCounted' /\ waiting_writers' \in Nat
<1>1. WaitingWriters' = WaitingWriters \ {t} /\ t \in WaitingWriters
  BY DEF WaitingWriters, TypeOK
<1>2. IsFiniteSet(WaitingWriters)
  BY FS_Subset, ThreadsAssumption DEF WaitingWriters
<1>3. IsFiniteSet(WaitingWriters') /\ Cardinality(WaitingWriters') = Cardinality(WaitingWriters) - 1
  BY <1>1, <1>2, FS_RemoveElement
<1>4. Cardinality(WaitingWriters') \in Nat
  BY <1>3, FS_CardinalityType
<1> QED BY <1>3, <1>4 DEF WritersCounted

\* A step that leaves the read counts alone leaves their total alone.
LEMMA ReadersUntouched ==
  ASSUME IsFiniteSet(ReadHolds), ReadersCounted, UNCHANGED <<reader_counts, active_readers>>
  PROVE  IsFiniteSet(ReadHolds') /\ ReadersCounted'
BY DEF ReadHolds, ReadersCounted

\* A step in which nobody enters or leaves the writer wait loop keeps its count.
LEMMA WritersUntouched ==
  ASSUME WritersCounted, UNCHANGED waiting_writers,
         \A t \in Threads : blocked'[t] = "wr" <=> blocked[t] = "wr"
  PROVE  WritersCounted'
<1>1. WaitingWriters' = WaitingWriters
  BY DEF WaitingWriters
<1> QED BY <1>1 DEF WritersCounted
-----------------------------------------------------------------------------
\* An unused lock satisfies the invariant.
LEMMA InitIInv == Init => IInv
<1> SUFFICES ASSUME Init PROVE IInv
  OBVIOUS
<1>1. ReadHolds = {} /\ WaitingWriters = {}
  BY DEF Init, ReadHolds, WaitingWriters
<1>2. IsFiniteSet(ReadHolds) /\ Cardinality(ReadHolds) = 0 /\ Cardinality(WaitingWriters) = 0
  BY <1>1, FS_EmptySet
<1>3. TypeOK
  <2>1. calls \in [Threads -> 0..MaxCalls]
    BY ThreadsAssumption DEF Init
  <2>2. reader_counts \in [Threads -> Nat] /\ blocked \in [Threads -> {"no", "rd", "wr"}]
    BY DEF Init
  <2> QED BY <2>1, <2>2 DEF Init, TypeOK
<1>4. Exclusion /\ NoMissedWakeup /\ (writer_active <=> writer_tid # NoThread)
  BY DEF Init, Exclusion, NoMissedWakeup
<1> QED BY <1>2, <1>3, <1>4 DEF IInv, ReadersCounted, WritersCounted, Init

\* lock_writer_pref_reader, up to its return or its wait, keeps the invariant.
LEMMA RdLockKeepsIInv ==
  ASSUME IInv, NEW t \in Threads, NEW mode \in Modes, RdLock(t, mode)
  PROVE  IInv'
<1> USE DEF IInv
<1>0. blocked[t] = "no" /\ t \notin asleep
  BY DEF RdLock, Call, NoMissedWakeup
<1>1. calls' \in [Threads -> 0..MaxCalls]
  BY ThreadsAssumption DEF RdLock, Call, TypeOK
<1>2. CASE UNCHANGED <<lockVars, waitVars>>
  <2>1. IsFiniteSet(ReadHolds') /\ ReadersCounted'
    BY <1>2, ReadersUntouched DEF lockVars
  <2>2. WritersCounted'
    BY <1>2, WritersUntouched DEF lockVars, waitVars
  <2> QED
    BY <1>1, <1>2, <2>1, <2>2
    DEF lockVars, waitVars, TypeOK, Exclusion, NoMissedWakeup, IsReader, CanRead, CanWrite
<1>3. CASE /\ ~IsWriter(t)
           /\ IsReader(t) \/ (mode # "expired" /\ CanRead(t))
           /\ AcquireReader(t)
           /\ UNCHANGED waitVars
  <2>1. IsFiniteSet(ReadHolds') /\ ReadersCounted'
    BY <1>3, AcquireReaderCounts
  <2>2. WritersCounted'
    BY <1>3, WritersUntouched DEF AcquireReader, waitVars
  <2>3. TypeOK'
    BY <1>1, <1>3 DEF TypeOK, AcquireReader, waitVars
  <2>4. ~writer_active
    BY <1>3 DEF Exclusion, CanRead
  <2>5. Exclusion'
    BY <1>3, <2>4 DEF Exclusion, AcquireReader
  <2>6. NoMissedWakeup'
    BY <1>0, <1>3 DEF NoMissedWakeup, AcquireReader, waitVars, CanRead, CanWrite, IsReader, TypeOK
  <2> QED BY <1>3, <2>1, <2>2, <2>3, <2>5, <2>6 DEF AcquireReader
<1>4. CASE /\ ~IsWriter(t) /\ ~IsReader(t)
           /\ mode \in {"block", "timed"} /\ ~CanRead(t)
           /\ Park(t, "rd", mode)
           /\ UNCHANGED lockVars
  <2>1. IsFiniteSet(ReadHolds') /\ ReadersCounted'
    BY <1>4, ReadersUntouched DEF lockVars
  <2>2. WritersCounted'
    BY <1>0, <1>4, WritersUntouched DEF Park, lockVars, TypeOK
  <2>3. TypeOK'
    BY <1>1, <1>4 DEF TypeOK, Park, lockVars
  <2>4. NoMissedWakeup'
    BY <1>0, <1>4 DEF NoMissedWakeup, Park, lockVars, CanRead, CanWrite, IsReader, TypeOK
  <2> QED BY <1>4, <2>1, <2>2, <2>3, <2>4 DEF lockVars, Exclusion, IsReader
<1> QED BY <1>2, <1>3, <1>4 DEF RdLock

\* lock_writer_pref_writer, up to its return or its wait, keeps the invariant.
LEMMA WrLockKeepsIInv ==
  ASSUME IInv, NEW t \in Threads, NEW mode \in Modes, WrLock(t, mode)
  PROVE  IInv'
<1> USE DEF IInv
<1>0. blocked[t] = "no" /\ t \notin asleep
  BY DEF WrLock, Call, NoMissedWakeup
<1>1. calls' \in [Threads -> 0..MaxCalls]
  BY ThreadsAssumption DEF WrLock, Call, TypeOK
<1>2. UNCHANGED <<reader_counts, active_readers>>
  BY DEF WrLock, AcquireWriter, lockVars
<1>3. IsFiniteSet(ReadHolds') /\ ReadersCounted'
  BY <1>2, ReadersUntouched
<1>4. CASE UNCHANGED lockVars /\ (UNCHANGED waitVars \/ NotifyAll)
  <2>1. WritersCounted'
    BY <1>4, WritersUntouched DEF lockVars, waitVars, NotifyAll
  <2> QED
    BY <1>1, <1>3, <1>4, <2>1
    DEF lockVars, waitVars, NotifyAll, TypeOK, Exclusion, NoMissedWakeup, IsReader, CanRead, CanWrite
<1>5. CASE /\ CanWrite
           /\ AcquireWriter(t)
           /\ UNCHANGED waiting_writers
           /\ UNCHANGED waitVars \/ NotifyAll
  <2>1. WritersCounted'
    BY <1>5, WritersUntouched DEF waitVars, NotifyAll
  <2>2. Exclusion'
    BY <1>5, NoActiveReaders DEF CanWrite, AcquireWriter, Exclusion, IsReader
  <2>3. TypeOK'
    BY <1>1, <1>5 DEF TypeOK, AcquireWriter, waitVars, NotifyAll
  <2>4. NoMissedWakeup'
    BY <1>5 DEF NoMissedWakeup, AcquireWriter, waitVars, NotifyAll, CanRead, CanWrite
  <2> QED BY <1>3, <1>5, <2>1, <2>2, <2>3, <2>4, ThreadsAssumption DEF AcquireWriter
<1>6. CASE /\ ~CanWrite
           /\ waiting_writers' = waiting_writers + 1
           /\ Park(t, "wr", mode)
           /\ UNCHANGED <<reader_counts, active_readers, writer_active, writer_tid>>
  <2>1. WritersCounted'
    BY <1>0, <1>6, WriterEnters DEF Park
  <2>2. TypeOK'
    BY <1>1, <1>6 DEF TypeOK, Park
  <2>3. NoMissedWakeup'
    BY <1>0, <1>6 DEF NoMissedWakeup, Park, CanRead, CanWrite, IsReader, TypeOK
  <2> QED BY <1>3, <1>6, <2>1, <2>2, <2>3 DEF Exclusion, IsReader
<1> QED BY <1>4, <1>5, <1>6 DEF WrLock

\* A thread that wakes, for no reason or at its deadline, keeps the invariant.
LEMMA WakeKeepsIInv ==
  ASSUME IInv, NEW t \in Threads, SpuriousWake(t) \/ Expire(t)
  PROVE  IInv'
<1> USE DEF IInv
<1>1. UNCHANGED <<lockVars, blocked, timed, calls>>
  BY DEF SpuriousWake, Expire
<1>2. IsFiniteSet(ReadHolds') /\ ReadersCounted'
  BY <1>1, ReadersUntouched DEF lockVars
<1>3. WritersCounted'
  BY <1>1, WritersUntouched DEF lockVars
<1>4. TypeOK'
  BY <1>1 DEF TypeOK, lockVars, SpuriousWake, Expire
<1>5. NoMissedWakeup'
  BY <1>1 DEF NoMissedWakeup, SpuriousWake, Expire, lockVars, CanRead, CanWrite, IsReader
<1> QED BY <1>1, <1>2, <1>3, <1>4, <1>5 DEF Exclusion, IsReader, lockVars

\* A reader that re-evaluates its predicate keeps the invariant.
LEMMA ResumeReaderKeepsIInv ==
  ASSUME IInv, NEW t \in Threads, ResumeReader(t)
  PROVE  IInv'
<1> USE DEF IInv
<1>0. blocked[t] = "rd" /\ t \notin asleep /\ UNCHANGED <<calls, waiting_writers>>
  BY DEF ResumeReader, AcquireReader, lockVars
<1>1. WritersCounted'
  BY <1>0, WritersUntouched DEF ResumeReader, Leave, TypeOK
<1>2. CASE CanRead(t) /\ AcquireReader(t) /\ Leave(t, asleep)
  <2>1. IsFiniteSet(ReadHolds') /\ ReadersCounted'
    BY <1>2, AcquireReaderCounts
  <2>2. TypeOK'
    BY <1>0, <1>2 DEF TypeOK, AcquireReader, Leave
  <2>3. Exclusion'
    BY <1>2 DEF Exclusion, AcquireReader, CanRead
  <2>4. NoMissedWakeup'
    <3>1. active_readers' # 0 /\ asleep' = asleep
      BY <1>2 DEF AcquireReader, Leave, TypeOK
    <3>2. \A u \in Threads : u # t => reader_counts'[u] = reader_counts[u] /\ blocked'[u] = blocked[u]
      BY <1>2 DEF AcquireReader, Leave, TypeOK
    <3>3. NoMissedWakeup /\ asleep \subseteq Threads
      BY DEF TypeOK
    <3> HIDE DEF IInv
    <3> QED BY <1>0, <1>2, <3>1, <3>2, <3>3 DEF NoMissedWakeup, AcquireReader, CanRead, CanWrite, IsReader
  <2> QED BY <1>1, <1>2, <2>1, <2>2, <2>3, <2>4 DEF AcquireReader
<1>3. CASE Leave(t, asleep) /\ UNCHANGED lockVars
  <2>1. IsFiniteSet(ReadHolds') /\ ReadersCounted'
    BY <1>3, ReadersUntouched DEF lockVars
  <2>2. TypeOK'
    BY <1>0, <1>3 DEF TypeOK, Leave, lockVars
  <2>3. NoMissedWakeup'
    BY <1>0, <1>3 DEF NoMissedWakeup, Leave, lockVars, CanRead, CanWrite, IsReader, TypeOK
  <2> QED BY <1>1, <1>3, <2>1, <2>2, <2>3 DEF Exclusion, IsReader, lockVars
<1>4. CASE /\ ~CanRead(t)
           /\ asleep' = asleep \cup {t}
           /\ UNCHANGED <<lockVars, blocked, timed, expired>>
  <2>1. IsFiniteSet(ReadHolds') /\ ReadersCounted'
    BY <1>4, ReadersUntouched DEF lockVars
  <2>2. TypeOK'
    BY <1>0, <1>4 DEF TypeOK, lockVars
  <2>3. NoMissedWakeup'
    BY <1>0, <1>4 DEF NoMissedWakeup, lockVars, CanRead, CanWrite, IsReader
  <2> QED BY <1>1, <1>4, <2>1, <2>2, <2>3 DEF Exclusion, IsReader, lockVars
<1> QED BY <1>2, <1>3, <1>4 DEF ResumeReader

\* A writer that re-evaluates its predicate keeps the invariant.
LEMMA ResumeWriterKeepsIInv ==
  ASSUME IInv, NEW t \in Threads, ResumeWriter(t)
  PROVE  IInv'
<1> USE DEF IInv
<1>0. /\ blocked[t] = "wr" /\ t \notin asleep
      /\ UNCHANGED <<calls, reader_counts, active_readers>>
  BY DEF ResumeWriter, AcquireWriter, lockVars
<1>1. IsFiniteSet(ReadHolds') /\ ReadersCounted'
  BY <1>0, ReadersUntouched
<1>2. CASE /\ Leave(t, {})
           /\ waiting_writers' = waiting_writers - 1
           /\ \/ CanWrite /\ AcquireWriter(t)
              \/ UNCHANGED <<writer_active, writer_tid>>
  <2>1. WritersCounted' /\ waiting_writers' \in Nat
    BY <1>0, <1>2, WriterLeaves DEF Leave
  <2>2. TypeOK'
    BY <1>0, <1>2, <2>1 DEF TypeOK, Leave, AcquireWriter
  <2>3. Exclusion'
    BY <1>0, <1>2, NoActiveReaders DEF Exclusion, IsReader, AcquireWriter, CanWrite
  <2>4. NoMissedWakeup'
    BY <1>2 DEF NoMissedWakeup, Leave
  <2> QED BY <1>1, <1>2, <2>1, <2>2, <2>3, <2>4, ThreadsAssumption DEF AcquireWriter
<1>3. CASE /\ ~CanWrite
           /\ asleep' = asleep \cup {t}
           /\ UNCHANGED <<lockVars, blocked, timed, expired>>
  <2>1. WritersCounted'
    BY <1>3, WritersUntouched DEF lockVars
  <2>2. TypeOK'
    BY <1>0, <1>3 DEF TypeOK, lockVars
  <2>3. NoMissedWakeup'
    BY <1>0, <1>3 DEF NoMissedWakeup, lockVars, CanRead, CanWrite, IsReader
  <2> QED BY <1>1, <1>3, <2>1, <2>2, <2>3 DEF Exclusion, IsReader, lockVars
<1> QED BY <1>2, <1>3 DEF ResumeWriter, GiveUpWriter

\* unlock_rwlock keeps the invariant.
LEMMA UnlockKeepsIInv ==
  ASSUME IInv, NEW t \in Threads, Unlock(t)
  PROVE  IInv'
<1> USE DEF IInv
<1>0. blocked[t] = "no" /\ t \notin asleep /\ UNCHANGED <<calls, waiting_writers, blocked, timed, expired>>
  BY DEF Unlock, NotifyAll, NoMissedWakeup
<1>1. WritersCounted'
  BY <1>0, WritersUntouched
<1>2. CASE /\ writer_active' = FALSE
           /\ writer_tid' = NoThread
           /\ NotifyAll
           /\ UNCHANGED <<reader_counts, active_readers>>
  <2>1. IsFiniteSet(ReadHolds') /\ ReadersCounted'
    BY <1>2, ReadersUntouched
  <2> QED BY <1>0, <1>1, <1>2, <2>1 DEF TypeOK, Exclusion, NoMissedWakeup, NotifyAll
<1>3. CASE /\ IsReader(t)
           /\ reader_counts' = [reader_counts EXCEPT ![t] = @ - 1]
           /\ active_readers' = active_readers - 1
           /\ asleep' = IF active_readers = 1 THEN {} ELSE asleep
           /\ UNCHANGED <<writer_active, writer_tid>>
  <2>1. IsFiniteSet(ReadHolds') /\ ReadersCounted' /\ active_readers' \in Nat
    BY <1>3, ReleaseReaderCounts
  <2>2. reader_counts' \in [Threads -> Nat]
    <3>1. reader_counts \in [Threads -> Nat]
      BY DEF TypeOK
    <3> HIDE DEF IInv
    <3>2. reader_counts[t] - 1 \in Nat
      BY <1>3, <3>1 DEF IsReader
    <3> QED BY <1>3, <3>1, <3>2
  <2>3. TypeOK'
    BY <1>0, <1>3, <2>1, <2>2 DEF TypeOK
  <2>4. Exclusion'
    BY <1>3 DEF Exclusion
  <2>5. NoMissedWakeup'
    <3>1. CASE active_readers = 1
      BY <1>3, <3>1 DEF NoMissedWakeup
    <3>2. CASE active_readers # 1
      <4>1. active_readers' # 0 /\ asleep' = asleep
        BY <1>3, <3>2 DEF TypeOK
      <4>2. \A u \in Threads : u # t => reader_counts'[u] = reader_counts[u]
        BY <1>3 DEF TypeOK
      <4>3. NoMissedWakeup /\ asleep \subseteq Threads
        BY DEF TypeOK
      <4> HIDE DEF IInv
      <4> QED BY <1>0, <1>3, <4>1, <4>2, <4>3 DEF NoMissedWakeup, CanRead, CanWrite, IsReader
    <3> QED BY <3>1, <3>2
  <2> QED BY <1>1, <1>3, <2>1, <2>3, <2>4, <2>5
<1> QED BY <1>2, <1>3 DEF Unlock, AsleepAfterRead

\* A stray unlock (EINVAL) keeps the invariant.
LEMMA StrayUnlockKeepsIInv ==
  ASSUME IInv, NEW t \in Threads, StrayUnlock(t)
  PROVE  IInv'
<1> USE DEF IInv
<1>1. UNCHANGED <<lockVars, waitVars>>
  BY DEF StrayUnlock
<1>2. calls' \in [Threads -> 0..MaxCalls]
  BY ThreadsAssumption DEF StrayUnlock, Call, TypeOK
<1>3. IsFiniteSet(ReadHolds') /\ ReadersCounted'
  BY <1>1, ReadersUntouched DEF lockVars
<1>4. WritersCounted'
  BY <1>1, WritersUntouched DEF lockVars, waitVars
<1> QED
  BY <1>1, <1>2, <1>3, <1>4
  DEF lockVars, waitVars, TypeOK, Exclusion, NoMissedWakeup, IsReader, CanRead, CanWrite

\* Every step of the lock, and a stutter, keeps the invariant.
LEMMA NextKeepsIInv == IInv /\ [Next]_vars => IInv'
<1> SUFFICES ASSUME IInv, [Next]_vars PROVE IInv'
  OBVIOUS
<1>1. ASSUME NEW t \in Threads, Step(t) PROVE IInv'
  BY <1>1, RdLockKeepsIInv, WrLockKeepsIInv, WakeKeepsIInv, ResumeReaderKeepsIInv,
     ResumeWriterKeepsIInv, UnlockKeepsIInv, StrayUnlockKeepsIInv DEF Step
<1>2. CASE UNCHANGED vars
  <2>1. IsFiniteSet(ReadHolds') /\ ReadersCounted'
    BY <1>2, ReadersUntouched DEF vars, lockVars, IInv
  <2>2. WritersCounted'
    BY <1>2, WritersUntouched DEF vars, lockVars, waitVars, IInv
  <2> QED
    BY <1>2, <2>1, <2>2
    DEF IInv, vars, lockVars, waitVars, TypeOK, Exclusion, NoMissedWakeup, IsReader, CanRead, CanWrite
<1> QED BY <1>1, <1>2 DEF Next, AllDone

\* The invariant holds in every reachable state.
THEOREM LockInvariant == Spec => []IInv
BY InitIInv, NextKeepsIInv, PTL DEF Spec

\* The lock state is well typed whatever the threads do.
THEOREM LockTypes == Spec => []TypeOK
<1>1. IInv => TypeOK
  BY DEF IInv
<1> QED BY <1>1, LockInvariant, PTL

\* For any number of threads, a writer never shares the lock with a reader.
THEOREM LockExclusion == Spec => []Exclusion
<1>1. IInv => Exclusion
  BY DEF IInv
<1> QED BY <1>1, LockInvariant, PTL

\* For any number of threads, nobody sleeps on state_cv with a true predicate:
\* notify_all is called wherever it has to be.
THEOREM LockNoMissedWakeup == Spec => []NoMissedWakeup
<1>1. IInv => NoMissedWakeup
  BY DEF IInv
<1> QED BY <1>1, LockInvariant, PTL

\* active_readers is always the total of the per-thread read holds.
THEOREM LockReadersCounted == Spec => []ReadersCounted
<1>1. IInv => ReadersCounted
  BY DEF IInv
<1> QED BY <1>1, LockInvariant, PTL

\* waiting_writers is always the number of threads in the writer wait loop.
THEOREM LockWritersCounted == Spec => []WritersCounted
<1>1. IInv => WritersCounted
  BY DEF IInv
<1> QED BY <1>1, LockInvariant, PTL

\* While a writer waits no new reader gets in, for any number of threads.
THEOREM LockWriterPreference == Spec => WriterPreference
<1>1. IInv /\ [Next]_vars => [NoNewReader]_vars
  <2> SUFFICES ASSUME IInv, Next, NEW u \in Threads, waiting_writers > 0, ~IsReader(u)
               PROVE  ~IsReader(u)'
    BY DEF NoNewReader
  <2>0. TypeOK
    BY DEF IInv
  <2>1. ASSUME NEW t \in Threads, AcquireReader(t), CanRead(t) \/ IsReader(t) PROVE ~IsReader(u)'
    BY <2>0, <2>1 DEF AcquireReader, CanRead, IsReader, TypeOK
  <2>2. CASE UNCHANGED reader_counts
    BY <2>2 DEF IsReader
  <2>3. ASSUME NEW t \in Threads, Step(t) PROVE ~IsReader(u)'
    <3>1. ASSUME NEW mode \in Modes, RdLock(t, mode) PROVE ~IsReader(u)'
      BY <2>1, <2>2, <3>1 DEF RdLock, lockVars
    <3>2. ASSUME NEW mode \in Modes, WrLock(t, mode) PROVE ~IsReader(u)'
      BY <2>2, <3>2 DEF WrLock, AcquireWriter, lockVars
    <3>3. CASE SpuriousWake(t) \/ Expire(t) \/ StrayUnlock(t)
      BY <2>2, <3>3 DEF SpuriousWake, Expire, StrayUnlock, lockVars
    <3>4. CASE ResumeReader(t)
      BY <2>1, <2>2, <3>4 DEF ResumeReader, lockVars
    <3>5. CASE ResumeWriter(t)
      BY <2>2, <3>5 DEF ResumeWriter, AcquireWriter, lockVars
    <3>6. CASE Unlock(t)
      BY <2>0, <3>6 DEF Unlock, IsReader, TypeOK
    <3> QED BY <2>3, <3>1, <3>2, <3>3, <3>4, <3>5, <3>6 DEF Step
  <2> QED BY <2>2, <2>3 DEF Next, AllDone, vars, lockVars
<1> QED BY <1>1, LockInvariant, PTL DEF Spec, WriterPreference

\* The wait loops, deadlines and counts implement the abstract lock of
\* ReadersWriter.tla: reader_counts are its holds, writer_tid its writer.
THEOREM LockImplementsReadersWriter == Spec => ImplementsReadersWriter
<1> USE DEF Abstract!absVars
<1>1. Init => Abstract!AbsInit
  BY DEF Init, Abstract!AbsInit
<1>2. IInv /\ [Next]_vars => [Abstract!AbsNext]_(Abstract!absVars)
  <2> SUFFICES ASSUME IInv, [Next]_vars
               PROVE  Abstract!AbsNext \/ UNCHANGED <<reader_counts, writer_tid>>
    OBVIOUS
  <2>0. TypeOK /\ (writer_active <=> writer_tid # NoThread) /\ Exclusion
    BY DEF IInv
  <2>1. ASSUME NEW t \in Threads, AcquireReader(t), CanRead(t) \/ IsReader(t)
        PROVE  Abstract!AbsNext
    BY <2>0, <2>1 DEF AcquireReader, CanRead, Exclusion, Abstract!AbsNext, Abstract!AbsAcquireRead
  <2>2. ASSUME NEW t \in Threads, AcquireWriter(t), CanWrite PROVE Abstract!AbsNext
    <3>1. \A u \in Threads : reader_counts[u] = 0
      <4>1. \A u \in Threads : ~IsReader(u)
        BY <2>2, NoActiveReaders DEF IInv, CanWrite
      <4>2. \A u \in Threads : reader_counts[u] \in Nat
        BY <2>0 DEF TypeOK
      <4> QED BY <4>1, <4>2 DEF IsReader
    <3> QED
      BY <2>0, <2>2, <3>1 DEF AcquireWriter, CanWrite, Abstract!AbsNext, Abstract!AbsAcquireWrite
  <2>3. ASSUME NEW t \in Threads, Step(t)
        PROVE  Abstract!AbsNext \/ UNCHANGED <<reader_counts, writer_tid>>
    <3>1. ASSUME NEW mode \in Modes, RdLock(t, mode)
          PROVE  Abstract!AbsNext \/ UNCHANGED <<reader_counts, writer_tid>>
      BY <2>1, <3>1 DEF RdLock, lockVars
    <3>2. ASSUME NEW mode \in Modes, WrLock(t, mode)
          PROVE  Abstract!AbsNext \/ UNCHANGED <<reader_counts, writer_tid>>
      BY <2>2, <3>2 DEF WrLock, lockVars
    <3>3. CASE SpuriousWake(t) \/ Expire(t) \/ StrayUnlock(t)
      BY <3>3 DEF SpuriousWake, Expire, StrayUnlock, lockVars
    <3>4. CASE ResumeReader(t)
      BY <2>1, <3>4 DEF ResumeReader, lockVars
    <3>5. CASE ResumeWriter(t)
      BY <2>2, <3>5 DEF ResumeWriter, lockVars
    <3>6. CASE Unlock(t)
      BY <3>6
      DEF Unlock, IsWriter, IsReader, Abstract!AbsNext, Abstract!AbsReleaseRead, Abstract!AbsReleaseWrite
    <3> QED BY <2>3, <3>1, <3>2, <3>3, <3>4, <3>5, <3>6 DEF Step
  <2> QED BY <2>3 DEF Next, AllDone, vars, lockVars
<1> QED BY <1>1, <1>2, LockInvariant, PTL DEF Spec, ImplementsReadersWriter, Abstract!AbsSpec
=============================================================================
