---------------------------- MODULE GuestThreads ----------------------------
(***************************************************************************)
(* The life of guest threads in hle_pthread.cpp: pthread_create with its   *)
(* stack and TLS arenas and the VMA budget, the clone, thread exit         *)
(* (notify_thread_exit, called by the syscall hook of emulator.cpp), join  *)
(* and detach.  A critical section under g_threads_mutex,                  *)
(* g_thread_arena_mutex or g_guest_vma_mutex is one step; an exit, which   *)
(* holds g_threads_mutex around sections of the other two, is one as well. *)
(* Calls that fail without changing anything are left out.                 *)
(***************************************************************************)
EXTENDS Integers, Sequences, FiniteSets

CONSTANTS MaxThreads,    \* bound: values of g_next_thread_id handed out
          Slots,         \* regions in the stack arena and in the TLS arena
          VmaLimit,      \* GUEST_VMA_LIMIT
          Values,        \* bound: what threads return
          MapMayFail,    \* can memory().map of a fresh region fail?
          CloneMayFail   \* can the clone system call fail?

ASSUME ThreadsAssumption ==
  /\ MaxThreads \in Nat /\ Slots \in Nat /\ VmaLimit \in Nat
  /\ Values \subseteq Nat \ {0}
  /\ MapMayFail \in BOOLEAN /\ CloneMayFail \in BOOLEAN

Ids == 1..MaxThreads
Main == 0
Actors == Ids \cup {Main}
Regions == 1..Slots
NoRegion == 0
Kinds == {"stack", "tls"}
Vmas == [k \in Kinds |-> IF k = "stack" THEN 2 ELSE 1]

VARIABLES
  \* arenas
  free_regions,       \* g_free_stack_region_bases and g_free_tls_region_bases
  next_region,        \* g_next_stack_addr and g_next_tls_addr
  mapped,             \* regions mapped in guest memory
  \* hle_mmap_state.h
  vma_count, reservations,
  \* g_threads
  next_thread_id,
  registered, detached, join_in_progress, completed, exit_reported,
  region,             \* stack_base and tls_base, also while the thread is being created
  return_value,
  \* guest threads and their calls
  life,               \* "unborn", "running", "done" (reported its value), "dead"
  pc, target, stage, recycled,
  passed, joined      \* history: what a thread returned first; what its joiner got

arenas == <<free_regions, next_region, mapped>>
vmas == <<vma_count, reservations>>
registry == <<registered, detached, join_in_progress, completed, exit_reported, return_value>>
call == <<pc, target, stage, recycled>>
history == <<passed, joined>>
vars == <<arenas, vmas, next_thread_id, registry, region, life, call, history>>

Init ==
  /\ free_regions = [k \in Kinds |-> <<>>]
  /\ next_region = [k \in Kinds |-> 1]
  /\ mapped = [k \in Kinds |-> {}]
  /\ vma_count = 0
  /\ reservations = [k \in Kinds |-> [r \in Regions |-> 0]]
  /\ next_thread_id = 1
  /\ registered = {} /\ detached = {} /\ join_in_progress = {}
  /\ completed = {} /\ exit_reported = {}
  /\ region = [k \in Kinds |-> [i \in Ids |-> NoRegion]]
  /\ return_value = [i \in Ids |-> 0]
  /\ life = [i \in Ids |-> "unborn"]
  /\ pc = [c \in Actors |-> "idle"]
  /\ target = [c \in Actors |-> Main]
  /\ stage = [c \in Actors |-> "stack"]
  /\ recycled = [c \in Actors |-> FALSE]
  /\ passed = [i \in Ids |-> 0] /\ joined = [i \in Ids |-> 0]
-----------------------------------------------------------------------------
Goto(c, label) == pc' = [pc EXCEPT ![c] = label]
MayCall(c) == pc[c] = "idle" /\ (c # Main => life[c] = "running")

\* hle_release_vmas of the regions of thread i, for the kinds ks.
Release(i, ks) ==
  LET Held(k) == IF region[k][i] = NoRegion THEN 0 ELSE reservations[k][region[k][i]]
  IN /\ vma_count' = vma_count - (IF "stack" \in ks THEN Held("stack") ELSE 0)
                               - (IF "tls" \in ks THEN Held("tls") ELSE 0)
     /\ reservations' = [k \in Kinds |-> [r \in Regions |->
          IF k \in ks /\ r = region[k][i] THEN 0 ELSE reservations[k][r]]]

\* recycle_thread_arena: the regions of thread i, of the kinds ks, go back to
\* the freelists; the entry that named them is gone.
PushBack(i, ks) ==
  free_regions' = [k \in Kinds |->
    IF k \in ks /\ region[k][i] # NoRegion
    THEN Append(free_regions[k], region[k][i]) ELSE free_regions[k]]
Recycle(i, ks) ==
  /\ PushBack(i, ks)
  /\ region' = [k \in Kinds |-> IF k \in ks THEN [region[k] EXCEPT ![i] = NoRegion] ELSE region[k]]
-----------------------------------------------------------------------------
\* pthread_create takes an id, then a stack from the arena unless the guest
\* provided one.
Create(c, custom, asDetached) ==
  /\ MayCall(c) /\ next_thread_id <= MaxThreads
  /\ next_thread_id' = next_thread_id + 1
  /\ target' = [target EXCEPT ![c] = next_thread_id]
  /\ detached' = IF asDetached THEN detached \cup {next_thread_id} ELSE detached
  /\ stage' = [stage EXCEPT ![c] = IF custom THEN "tls" ELSE "stack"]
  /\ Goto(c, "take")
  /\ UNCHANGED <<arenas, vmas, registered, join_in_progress, completed, exit_reported,
                 return_value, region, life, recycled, history>>

\* While the process exits, pthread_create registers a finished thread.
CreateAtExit(c, asDetached) ==
  /\ MayCall(c) /\ next_thread_id <= MaxThreads
  /\ next_thread_id' = next_thread_id + 1
  /\ registered' = registered \cup {next_thread_id}
  /\ completed' = completed \cup {next_thread_id}
  /\ detached' = IF asDetached THEN detached \cup {next_thread_id} ELSE detached
  /\ UNCHANGED <<arenas, vmas, join_in_progress, exit_reported, return_value,
                 region, life, call, history>>

\* The next stage of a creation, and the way out of a failed one.
Proceed(c) ==
  IF stage[c] = "stack"
  THEN Goto(c, "take") /\ stage' = [stage EXCEPT ![c] = "tls"]
  ELSE Goto(c, "register") /\ UNCHANGED stage
Fail(c) ==
  /\ Goto(c, IF stage[c] = "tls" /\ region["stack"][target[c]] # NoRegion THEN "undo" ELSE "idle")
  /\ UNCHANGED stage

\* allocate_thread_stack, allocate_thread_tls: a freed region, or a fresh one
\* below the ceiling.
Take(c) ==
  LET k == stage[c]
      n == Len(free_regions[k])
  IN /\ pc[c] = "take"
     /\ \/ /\ n > 0
           /\ region' = [region EXCEPT ![k][target[c]] = free_regions[k][n]]
           /\ free_regions' = [free_regions EXCEPT ![k] = SubSeq(@, 1, n - 1)]
           /\ recycled' = [recycled EXCEPT ![c] = TRUE]
           /\ Goto(c, "reserve")
           /\ UNCHANGED <<next_region, stage>>
        \/ /\ n = 0 /\ next_region[k] <= Slots
           /\ region' = [region EXCEPT ![k][target[c]] = next_region[k]]
           /\ next_region' = [next_region EXCEPT ![k] = @ + 1]
           /\ recycled' = [recycled EXCEPT ![c] = FALSE]
           /\ Goto(c, "reserve")
           /\ UNCHANGED <<free_regions, stage>>
        \/ /\ n = 0 /\ next_region[k] > Slots
           /\ Fail(c)
           /\ UNCHANGED <<region, free_regions, next_region, recycled>>
     /\ UNCHANGED <<mapped, vmas, next_thread_id, registry, life, target, history>>

\* hle_try_reserve_vmas.  A fresh region is not given back when it fails.
WithinBudgetLate(k) == vma_count <= VmaLimit                    \* mutant of WithinBudget
WithinBudget(k) == vma_count + Vmas[k] <= VmaLimit

Reserve(c) ==
  LET k == stage[c]
      r == region[k][target[c]]
  IN /\ pc[c] = "reserve"
     /\ IF WithinBudget(k)
        THEN /\ vma_count' = vma_count + Vmas[k]
             /\ reservations' = [reservations EXCEPT ![k][r] = @ + Vmas[k]]
             /\ IF recycled[c] THEN Proceed(c) ELSE Goto(c, "map") /\ UNCHANGED stage
             /\ UNCHANGED region
        ELSE /\ IF recycled[c]
                THEN Goto(c, "recycle") /\ UNCHANGED <<region, stage>>
                ELSE region' = [region EXCEPT ![k][target[c]] = NoRegion] /\ Fail(c)
             /\ UNCHANGED vmas
     /\ UNCHANGED <<arenas, next_thread_id, registry, life, target, recycled, history>>

\* memory().map of a fresh region.  When it fails the VMAs are released first.
Map(c) ==
  LET k == stage[c]
  IN /\ pc[c] = "map"
     /\ \/ /\ mapped' = [mapped EXCEPT ![k] = @ \cup {region[k][target[c]]}]
           /\ Proceed(c)
           /\ UNCHANGED vmas
        \/ /\ MapMayFail
           /\ Release(target[c], {k})
           /\ Goto(c, "recycle")
           /\ UNCHANGED <<mapped, stage>>
     /\ UNCHANGED <<free_regions, next_region, region, next_thread_id, registry, life, target,
                    recycled, history>>

\* No TLS: the VMAs of the arena stack, then the stack itself, are given back.
UndoKeepsVmas(c) ==                                             \* mutant of Undo
  /\ pc[c] = "undo"
  /\ stage' = [stage EXCEPT ![c] = "stack"]
  /\ Goto(c, "recycle")
  /\ UNCHANGED <<arenas, vmas, region, next_thread_id, registry, life, target, recycled, history>>
Undo(c) ==
  /\ pc[c] = "undo"
  /\ Release(target[c], {"stack"})
  /\ stage' = [stage EXCEPT ![c] = "stack"]
  /\ Goto(c, "recycle")
  /\ UNCHANGED <<arenas, region, next_thread_id, registry, life, target, recycled, history>>

\* The region of the stage that failed, or of the undone stack, goes back.
GiveBack(c) ==
  /\ pc[c] = "recycle"
  /\ Recycle(target[c], {stage[c]})
  /\ Fail(c)
  /\ UNCHANGED <<next_region, mapped, vmas, next_thread_id, registry, life, target, recycled, history>>

RegisterLater(c) ==                                             \* mutant of Register
  /\ pc[c] = "register"
  /\ Goto(c, "clone")
  /\ UNCHANGED <<arenas, vmas, next_thread_id, registry, region, life, target, stage, recycled, history>>
Register(c) ==
  /\ pc[c] = "register"
  /\ registered' = registered \cup {target[c]}
  /\ Goto(c, "clone")
  /\ UNCHANGED <<arenas, vmas, next_thread_id, detached, join_in_progress, completed,
                 exit_reported, return_value, region, life, target, stage, recycled, history>>

\* The clone trampoline: whatever clone returned, pthread_create returns 0.
Clone(c) ==
  /\ pc[c] = "clone"
  /\ \/ life' = [life EXCEPT ![target[c]] = "running"]
     \/ CloneMayFail /\ UNCHANGED life
  /\ Goto(c, "idle")
  /\ UNCHANGED <<arenas, vmas, next_thread_id, registry, region, target, stage, recycled, history>>
-----------------------------------------------------------------------------
\* The registry entries whose stack range contains the stack pointer of i.
\* ExitFindsItself shows that there is always one, so the branch of
\* notify_thread_exit that finds none is not a case of its own.
Matches(i) ==
  {j \in registered : j = i \/ (region["stack"][i] # NoRegion /\ region["stack"][j] = region["stack"][i])}

\* notify_thread_exit: the first value reported stays.
ReportAgain(j, v) ==                                            \* mutant of ReportValue
  /\ return_value' = [return_value EXCEPT ![j] = v]
  /\ exit_reported' = exit_reported \cup {j}
ReportValue(j, v) ==
  /\ return_value' = IF j \in exit_reported THEN return_value ELSE [return_value EXCEPT ![j] = v]
  /\ exit_reported' = exit_reported \cup {j}

\* start_routine returned v: SYS_THREAD_DONE.
Report(i, v) ==
  /\ life[i] = "running" /\ pc[i] = "idle"
  /\ life' = [life EXCEPT ![i] = "done"]
  /\ passed' = [passed EXCEPT ![i] = v]
  /\ \E j \in Matches(i) : ReportValue(j, v)
  /\ UNCHANGED <<arenas, vmas, next_thread_id, registered, detached, join_in_progress, completed,
                 region, call, joined>>

\* The finished entry j gives its VMAs back, and, if nobody will join it, its
\* regions.
ReclaimAlways(j) ==                                             \* mutant of Reclaim
  /\ Release(j, Kinds)
  /\ PushBack(j, Kinds)
  /\ UNCHANGED region
  /\ registered' = IF j \in detached THEN registered \ {j} ELSE registered
Reclaim(j) ==
  /\ Release(j, Kinds)
  /\ IF j \in detached
     THEN registered' = registered \ {j} /\ Recycle(j, Kinds)
     ELSE UNCHANGED <<registered, free_regions, region>>

\* completed becomes true, whether or not SYS_THREAD_DONE came first.
CompletesUnreported(j) ==                                       \* mutant of Completes
  completed' = IF j \in exit_reported THEN completed ELSE completed \cup {j}
Completes(j) == completed' = completed \cup {j}

\* SYS_exit, after SYS_THREAD_DONE or from pthread_exit(v).
Exit(i, v) ==
  /\ \/ life[i] = "running" /\ pc[i] = "idle" /\ passed' = [passed EXCEPT ![i] = v]
     \/ life[i] = "done" /\ v = 0 /\ UNCHANGED passed
  /\ life' = [life EXCEPT ![i] = "dead"]
  /\ \E j \in Matches(i) :
       /\ ReportValue(j, v)
       /\ Completes(j)
       /\ IF j \in completed
          THEN UNCHANGED <<vmas, registered, free_regions, region>>
          ELSE Reclaim(j)
  /\ UNCHANGED <<next_region, mapped, next_thread_id, detached, join_in_progress, call, joined>>
-----------------------------------------------------------------------------
\* pthread_self: the slot of the stack, whatever id pthread_create gave out.
SelfId(c) == IF c = Main THEN Main ELSE region["stack"][c]

\* pthread_join marks the entry and waits on it without g_threads_mutex.
Join(c, i) ==
  /\ MayCall(c)
  /\ i \in registered /\ i # SelfId(c)
  /\ i \notin detached /\ i \notin join_in_progress
  /\ join_in_progress' = join_in_progress \cup {i}
  /\ target' = [target EXCEPT ![c] = i]
  /\ Goto(c, "joining")
  /\ UNCHANGED <<arenas, vmas, next_thread_id, registered, detached, completed, exit_reported,
                 return_value, region, life, stage, recycled, history>>

Joined(c) ==
  /\ pc[c] = "joining" /\ target[c] \in completed
  /\ joined' = [joined EXCEPT ![target[c]] = return_value[target[c]]]
  /\ Goto(c, "erase")
  /\ UNCHANGED <<arenas, vmas, next_thread_id, registry, region, life, target, stage, recycled, passed>>

Erase(c) ==
  /\ pc[c] = "erase"
  /\ registered' = registered \ {target[c]}
  /\ Recycle(target[c], Kinds)
  /\ Goto(c, "idle")
  /\ UNCHANGED <<next_region, mapped, vmas, next_thread_id, detached, join_in_progress, completed,
                 exit_reported, return_value, life, target, stage, recycled, history>>

DetachJoined(c, i) ==                                           \* mutant of Detach
  /\ MayCall(c)
  /\ i \in registered /\ i \notin detached
  /\ detached' = detached \cup {i}
  /\ IF i \in completed
     THEN registered' = registered \ {i} /\ Recycle(i, Kinds)
     ELSE UNCHANGED <<registered, free_regions, region>>
  /\ UNCHANGED <<next_region, mapped, vmas, next_thread_id, join_in_progress, completed,
                 exit_reported, return_value, life, call, history>>
DetachReclaims(c, i) ==                                         \* mutant of Detach
  /\ MayCall(c)
  /\ i \in registered /\ i \notin detached /\ i \notin join_in_progress
  /\ detached' = detached \cup {i}
  /\ registered' = registered \ {i}
  /\ Recycle(i, Kinds)
  /\ UNCHANGED <<next_region, mapped, vmas, next_thread_id, join_in_progress, completed,
                 exit_reported, return_value, life, call, history>>
Detach(c, i) ==
  /\ MayCall(c)
  /\ i \in registered /\ i \notin detached /\ i \notin join_in_progress
  /\ detached' = detached \cup {i}
  /\ IF i \in completed
     THEN registered' = registered \ {i} /\ Recycle(i, Kinds)
     ELSE UNCHANGED <<registered, free_regions, region>>
  /\ UNCHANGED <<next_region, mapped, vmas, next_thread_id, join_in_progress, completed,
                 exit_reported, return_value, life, call, history>>
-----------------------------------------------------------------------------
CallStep(c) ==
  \/ Take(c) \/ Reserve(c) \/ Map(c) \/ Undo(c) \/ GiveBack(c)
  \/ Register(c) \/ Clone(c) \/ Joined(c) \/ Erase(c)

Next ==
  \/ \E c \in Actors :
       \/ \E custom, asDetached \in BOOLEAN : Create(c, custom, asDetached)
       \/ \E asDetached \in BOOLEAN : CreateAtExit(c, asDetached)
       \/ CallStep(c)
       \/ \E i \in Ids : Join(c, i) \/ Detach(c, i)
  \/ \E i \in Ids :
       \/ \E v \in Values : Report(i, v)
       \/ \E v \in Values \cup {0} : Exit(i, v)

Spec == Init /\ [][Next]_vars

\* The host schedules every thread that is inside a call, and a thread that
\* reported its value goes straight on to the exit system call.
FairSpec ==
  /\ Spec
  /\ \A c \in Actors : WF_vars(CallStep(c))
  /\ \A i \in Ids : WF_vars(life[i] = "done" /\ Exit(i, 0))
-----------------------------------------------------------------------------
\* Every variable has its type.
TypeOK ==
  /\ free_regions \in [Kinds -> Seq(Regions)]
  /\ next_region \in [Kinds -> 1..Slots + 1]
  /\ mapped \in [Kinds -> SUBSET Regions]
  /\ vma_count \in 0..VmaLimit
  /\ reservations \in [Kinds -> [Regions -> Nat]]
  /\ next_thread_id \in 1..MaxThreads + 1
  /\ \A s \in {registered, detached, join_in_progress, completed, exit_reported} : s \subseteq Ids
  /\ region \in [Kinds -> [Ids -> Regions \cup {NoRegion}]]
  /\ return_value \in [Ids -> Values \cup {0}]
  /\ life \in [Ids -> {"unborn", "running", "done", "dead"}]
  /\ pc \in [Actors -> {"idle", "take", "reserve", "map", "undo", "recycle", "register",
                        "clone", "joining", "erase"}]
  /\ target \in [Actors -> Actors]
  /\ stage \in [Actors -> Kinds]
  /\ recycled \in [Actors -> BOOLEAN]
  /\ passed \in [Ids -> Values \cup {0}] /\ joined \in [Ids -> Values \cup {0}]

\* The arenas never hand one region to two threads: a region has at most one
\* owner among the threads being created, running or waiting to be joined, and
\* a region on a freelist is there once and has no owner (allocate_thread_stack,
\* allocate_thread_tls, recycle_thread_arena).
RegionsExclusive ==
  \A k \in Kinds :
    /\ \A i, j \in Ids : i # j /\ region[k][i] = region[k][j] => region[k][i] = NoRegion
    /\ \A m, n \in DOMAIN free_regions[k] : free_regions[k][m] = free_regions[k][n] => m = n
    /\ \A i \in Ids, n \in DOMAIN free_regions[k] : region[k][i] # free_regions[k][n]

\* A region stays with its thread for as long as the thread runs on it:
\* recycling is left to whoever removes the registry entry, after the exit.
RunningKeepsTls == \A i \in Ids : life[i] \in {"running", "done"} => region["tls"][i] # NoRegion

\* The VMA budget is exact: g_guest_vma_count is what the reservations add up
\* to, a reservation belongs to a thread that is being created or has not
\* completed, and every such thread holds the reservations of its regions
\* (no path of pthread_create or of the exit leaks or drops one).
VmasAccounted ==
  LET Holders(k) == {i \in Ids : region[k][i] # NoRegion /\ reservations[k][region[k][i]] > 0}
  IN /\ vma_count = 2 * Cardinality(Holders("stack")) + Cardinality(Holders("tls"))
     /\ \A k \in Kinds, r \in Regions : reservations[k][r] > 0 =>
          /\ reservations[k][r] = Vmas[k]
          /\ \E i \in Ids \ completed : region[k][i] = r
     /\ \A k \in Kinds, i \in registered \ completed :
          region[k][i] # NoRegion => reservations[k][region[k][i]] = Vmas[k]

\* notify_thread_exit identifies the exiting thread by its stack pointer alone;
\* for a running thread that finds its own entry and no other.
ExitFindsItself == \A i \in Ids : life[i] \in {"running", "done"} => Matches(i) = {i}

\* The entry a pthread_join waits on stays in g_threads until that join erases
\* it, and no two joins wait on one entry (join_in_progress).
JoinTargetStays ==
  LET Joining(c) == pc[c] \in {"joining", "erase"}
  IN \A c \in Actors : Joining(c) =>
       /\ target[c] \in registered
       /\ \A d \in Actors : Joining(d) /\ target[d] = target[c] => c = d

\* pthread_join delivers the value the thread returned or gave to
\* pthread_exit, not the 0 of the exit system call that follows.
JoinGetsValue == \A c \in Actors : pc[c] = "erase" => joined[target[c]] = passed[target[c]]

\* A join whose thread is not running ends: an exited thread releases its
\* joiner, as the comment in pthread_join relies on ("The exit syscall will
\* mark the thread as completed").
JoinReturns ==
  \A i \in Ids :
    (i \in join_in_progress \cap registered /\ life[i] # "running")
      ~> (i \notin registered \/ life[i] = "running")
=============================================================================
