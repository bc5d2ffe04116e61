----------------------------- MODULE WorkerPool -----------------------------
(***************************************************************************)
(* The C-to-guest call service of emulator.cpp: callers put a request into *)
(* the mailbox of the worker they are pinned to and wait for it; slot 0 is *)
(* the emulator thread, slots 1..N are vCPU workers that slot 0 clones     *)
(* lazily.  A critical section under a mailbox's mutex, a request's mutex  *)
(* or worker_handshake_mutex_ is one step.  A caller that is itself a      *)
(* worker runs its call inline and does not appear here.                   *)
(***************************************************************************)
EXTENDS Integers, Sequences, FiniteSets

CONSTANTS Callers,        \* host threads that call guest functions
          N,              \* vcpu_worker_count_
          MaxCalls,       \* bound: calls of each caller
          SpawnMayStop    \* can a clone of spawn_vcpu_workers go wrong?

ASSUME PoolAssumption ==
  /\ N \in Nat /\ MaxCalls \in Nat /\ SpawnMayStop \in BOOLEAN

Slots == 0..N
None == <<>>

VARIABLES
  queue,             \* worker_mailboxes_[w]->queue: requests <<caller, number>>
  wpc,               \* where worker w is
  current,           \* the request worker w took
  num_cpus,          \* has the guest created a vCPU of its own?
  spawn_initiated, spawning_workers, vcpu_workers_claimed, workers_spawned,
  cloned,            \* the loop counter i of spawn_vcpu_workers
  should_stop, stopping,           \* stopping: the slot stop_emulator_thread wakes next
  next_affinity_worker, affinity,  \* tl_affinity_worker, 0 when unset
  cpc, route, number,              \* callers: position, chosen slot, calls made
  completed,                       \* completed requests
  ran                              \* history: the slots that ran requests of c

workers == <<queue, wpc, current>>
spawn == <<num_cpus, spawn_initiated, spawning_workers, vcpu_workers_claimed, workers_spawned,
           cloned>>
stop == <<should_stop, stopping>>
callers == <<next_affinity_worker, affinity, cpc, route, number>>
vars == <<workers, spawn, stop, callers, completed, ran>>

Request(c) == <<c, number[c]>>
Requests == Callers \X (1..MaxCalls)

Init ==
  /\ queue = [w \in Slots |-> <<>>]
  /\ wpc = [w \in Slots |-> IF w = 0 THEN "check" ELSE "absent"]
  /\ current = [w \in Slots |-> None]
  /\ num_cpus = 1 /\ spawn_initiated = FALSE /\ spawning_workers = FALSE
  /\ vcpu_workers_claimed = 0 /\ workers_spawned = FALSE /\ cloned = 0
  /\ should_stop = FALSE /\ stopping = 0
  /\ next_affinity_worker = 0 /\ affinity = [c \in Callers |-> 0]
  /\ cpc = [c \in Callers |-> "idle"] /\ route = [c \in Callers |-> 0]
  /\ number = [c \in Callers |-> 0]
  /\ completed = {} /\ ran = [c \in Callers |-> <<>>]

Goto(w, label) == wpc' = [wpc EXCEPT ![w] = label]
Woken(w) == [wpc EXCEPT ![w] = IF @ = "parked" THEN "check" ELSE @]
-----------------------------------------------------------------------------
\* pick_affinity_worker: the slot, the affinity of c and the cursor after it
\* (CROSSSHIM_PIN_WORKER, a diagnostic override, is not set).
PickEveryTime(c) ==                                   \* mutant of pick_affinity_worker
  IF workers_spawned /\ N > 0
  THEN [slot |-> 1 + (next_affinity_worker % N), sticks |-> 0, cursor |-> next_affinity_worker + 1]
  ELSE [slot |-> 0, sticks |-> affinity[c], cursor |-> next_affinity_worker]
pick_affinity_worker(c) ==
  LET fresh == 1 + (next_affinity_worker % N)
  IN CASE ~workers_spawned \/ N = 0 ->
            [slot |-> 0, sticks |-> affinity[c], cursor |-> next_affinity_worker]
       [] workers_spawned /\ N > 0 /\ affinity[c] < 1 ->
            [slot |-> fresh, sticks |-> fresh, cursor |-> next_affinity_worker + 1]
       [] OTHER ->
            [slot |-> affinity[c], sticks |-> affinity[c], cursor |-> next_affinity_worker]

\* call_function, call_function_safe_on_stack: choose a mailbox, push and
\* notify under its mutex, wait for the request.
Pick(c) ==
  LET p == pick_affinity_worker(c)
  IN /\ cpc[c] = "idle" /\ number[c] < MaxCalls
     /\ number' = [number EXCEPT ![c] = @ + 1]
     /\ route' = [route EXCEPT ![c] = p.slot]
     /\ affinity' = [affinity EXCEPT ![c] = p.sticks]
     /\ next_affinity_worker' = p.cursor
     /\ cpc' = [cpc EXCEPT ![c] = "push"]
     /\ UNCHANGED <<workers, spawn, stop, completed, ran>>

PushSilently(c) ==                                    \* mutant of Push
  /\ cpc[c] = "push"
  /\ queue' = [queue EXCEPT ![route[c]] = Append(@, Request(c))]
  /\ cpc' = [cpc EXCEPT ![c] = "wait"]
  /\ UNCHANGED <<wpc, current, spawn, stop, next_affinity_worker, affinity, route, number, completed, ran>>
Push(c) ==
  /\ cpc[c] = "push"
  /\ queue' = [queue EXCEPT ![route[c]] = Append(@, Request(c))]
  /\ wpc' = Woken(route[c])
  /\ cpc' = [cpc EXCEPT ![c] = "wait"]
  /\ UNCHANGED <<current, spawn, stop, next_affinity_worker, affinity, route, number, completed, ran>>

\* The wait re-reads completed every five seconds, so it needs no notification.
Return(c) ==
  /\ cpc[c] = "wait" /\ Request(c) \in completed
  /\ cpc' = [cpc EXCEPT ![c] = "idle"]
  /\ UNCHANGED <<workers, spawn, stop, next_affinity_worker, affinity, route, number, completed, ran>>
-----------------------------------------------------------------------------
\* The head of run_request_loop: leave, take a request, or park.  Slot 0 spawns
\* the pool before its first request after the guest cloned a thread.
NeedsPool(w) == w = 0 /\ ~spawn_initiated /\ num_cpus > 1
TakeFront(w) ==                                       \* mutant of Popped
  queue
Popped(w) == [queue EXCEPT ![w] = Tail(@)]
Check(w) ==
  /\ wpc[w] = "check"
  /\ \/ /\ should_stop
        /\ Goto(w, "exited")
        /\ UNCHANGED <<queue, current>>
     \/ /\ ~should_stop /\ queue[w] # <<>>
        /\ current' = [current EXCEPT ![w] = Head(queue[w])]
        /\ queue' = Popped(w)
        /\ Goto(w, IF NeedsPool(w) THEN "spawn" ELSE "run")
     \/ /\ ~should_stop /\ queue[w] = <<>>
        /\ Goto(w, "parked")
        /\ UNCHANGED <<queue, current>>
  /\ UNCHANGED <<spawn, stop, callers, completed, ran>>

\* call_function_internal: the guest function runs on this worker's vCPU and
\* may create guest threads, each with a vCPU of its own.
Run(w) ==
  /\ wpc[w] = "run"
  /\ num_cpus' \in {num_cpus, 2}
  /\ ran' = [ran EXCEPT ![current[w][1]] = Append(@, w)]
  /\ Goto(w, "publish")
  /\ UNCHANGED <<queue, current, spawn_initiated, spawning_workers, vcpu_workers_claimed,
                 workers_spawned, cloned, stop, callers, completed>>

\* The result and completed are published under the request's mutex.
PublishCleared(w) ==                                  \* mutant of Publish
  /\ wpc[w] = "publish"
  /\ current' = [current EXCEPT ![w] = None]
  /\ completed' = completed \cup {current'[w]}
  /\ Goto(w, "check")
  /\ UNCHANGED <<queue, spawn, stop, callers, ran>>
Publish(w) ==
  /\ wpc[w] = "publish"
  /\ completed' = completed \cup {current[w]}
  /\ current' = [current EXCEPT ![w] = None]
  /\ Goto(w, "check")
  /\ UNCHANGED <<queue, spawn, stop, callers, ran>>
-----------------------------------------------------------------------------
\* spawn_vcpu_workers, on slot 0.
SpawnPublished ==                                     \* mutant of Spawn
  /\ wpc[0] = "spawn"
  /\ spawn_initiated' = TRUE /\ workers_spawned' = TRUE
  /\ spawning_workers' = TRUE /\ vcpu_workers_claimed' = 0
  /\ Goto(0, "clone")
  /\ UNCHANGED <<queue, current, num_cpus, cloned, stop, callers, completed, ran>>
Spawn ==
  /\ wpc[0] = "spawn"
  /\ spawn_initiated' = TRUE
  /\ IF N = 0
     THEN Goto(0, "online") /\ UNCHANGED <<spawning_workers, vcpu_workers_claimed>>
     ELSE /\ spawning_workers' = TRUE /\ vcpu_workers_claimed' = 0
          /\ Goto(0, "clone")
  /\ UNCHANGED <<queue, current, num_cpus, workers_spawned, cloned, stop, callers, completed, ran>>

\* One SYS_clone; the new host thread reaches the new-thread hook by itself.
\* A clone that makes no vCPU, or a guest thread that starts or ends meanwhile,
\* can put the comparison of the vCPU counts (grew) out of step with the clone.
Clone ==
  /\ wpc[0] = "clone"
  /\ \E made, grew \in BOOLEAN :
       /\ SpawnMayStop \/ (made /\ grew)
       /\ wpc' = [wpc EXCEPT ![0] = IF grew THEN "await" ELSE "release",
                             ![vcpu_workers_claimed + 1] = IF made THEN "hook" ELSE @]
  /\ cloned' = cloned + 1
  /\ UNCHANGED <<queue, current, num_cpus, spawn_initiated, spawning_workers,
                 vcpu_workers_claimed, workers_spawned, stop, callers, completed, ran>>

\* on_vcpu_new_thread, worker_vcpu_loop: claim an id, then the barrier.  After
\* the spawn the new thread is taken for an ordinary guest thread.
Claim(w) ==
  /\ wpc[w] = "hook"
  /\ IF spawning_workers
     THEN vcpu_workers_claimed' = vcpu_workers_claimed + 1 /\ Goto(w, "barrier")
     ELSE UNCHANGED vcpu_workers_claimed /\ Goto(w, "absent")
  /\ UNCHANGED <<queue, current, num_cpus, spawn_initiated, spawning_workers, workers_spawned,
                 cloned, stop, callers, completed, ran>>
Awaited ==
  /\ wpc[0] = "await" /\ vcpu_workers_claimed >= cloned
  /\ Goto(0, IF cloned = N THEN "release" ELSE "clone")
  /\ UNCHANGED <<queue, current, spawn, stop, callers, completed, ran>>
Enter(w) ==
  /\ wpc[w] = "barrier" /\ ~spawning_workers
  /\ Goto(w, "check")
  /\ UNCHANGED <<queue, current, spawn, stop, callers, completed, ran>>

\* After the last clone, or the first one that seems to have failed.
SpawnedHoldBarrier ==                                 \* mutant of Spawned
  /\ wpc[0] = "release"
  /\ Goto(0, "online")
  /\ UNCHANGED <<queue, current, spawn, stop, callers, completed, ran>>
Spawned ==
  /\ wpc[0] = "release"
  /\ spawning_workers' = FALSE
  /\ Goto(0, "online")
  /\ UNCHANGED <<queue, current, num_cpus, spawn_initiated, vcpu_workers_claimed, workers_spawned,
                 cloned, stop, callers, completed, ran>>
Online ==
  /\ wpc[0] = "online"
  /\ workers_spawned' = TRUE
  /\ Goto(0, "run")
  /\ UNCHANGED <<queue, current, num_cpus, spawn_initiated, spawning_workers, vcpu_workers_claimed,
                 cloned, stop, callers, completed, ran>>
-----------------------------------------------------------------------------
\* stop_emulator_thread: set the flag, wake slot after slot, join slot 0.
Stop ==
  /\ ~should_stop
  /\ should_stop' = TRUE
  /\ UNCHANGED <<workers, spawn, stopping, callers, completed, ran>>
WakeFirst ==                                          \* mutant of Wake
  /\ should_stop /\ stopping \in Slots
  /\ wpc' = IF stopping = 0 THEN Woken(0) ELSE wpc
  /\ stopping' = stopping + 1
  /\ UNCHANGED <<queue, current, spawn, should_stop, callers, completed, ran>>
Wake ==
  /\ should_stop /\ stopping \in Slots
  /\ wpc' = Woken(stopping)
  /\ stopping' = stopping + 1
  /\ UNCHANGED <<queue, current, spawn, should_stop, callers, completed, ran>>
StoppedAll ==                                         \* mutant of Stopped
  /\ stopping = N + 1 /\ \A w \in Slots : wpc[w] = "exited"
  /\ stopping' = N + 2
  /\ UNCHANGED <<workers, spawn, should_stop, callers, completed, ran>>
Stopped ==
  /\ stopping = N + 1 /\ wpc[0] = "exited"
  /\ stopping' = N + 2
  /\ UNCHANGED <<workers, spawn, should_stop, callers, completed, ran>>
-----------------------------------------------------------------------------
WorkerStep(w) == Check(w) \/ Run(w) \/ Publish(w) \/ Claim(w) \/ Enter(w)
SpawnStep == Spawn \/ Clone \/ Awaited \/ Spawned \/ Online
CallerStep(c) == Push(c) \/ Return(c)

Next ==
  \/ \E c \in Callers : Pick(c) \/ CallerStep(c)
  \/ \E w \in Slots : WorkerStep(w)
  \/ SpawnStep
  \/ Stop \/ Wake \/ Stopped

\* Every host thread is scheduled, and the guest functions called here return.
Spec ==
  /\ Init /\ [][Next]_vars
  /\ \A c \in Callers : WF_vars(CallerStep(c))
  /\ \A w \in Slots : WF_vars(WorkerStep(w))
  /\ WF_vars(SpawnStep) /\ WF_vars(Wake) /\ WF_vars(Stopped)
-----------------------------------------------------------------------------
\* Every variable has its type.
TypeOK ==
  /\ queue \in [Slots -> Seq(Requests)]
  /\ wpc \in [Slots -> {"absent", "hook", "barrier", "check", "parked", "run", "publish", "exited",
                        "spawn", "clone", "await", "release", "online"}]
  /\ current \in [Slots -> Requests \cup {None}]
  /\ num_cpus \in 1..2
  /\ {spawn_initiated, spawning_workers, workers_spawned, should_stop} \subseteq BOOLEAN
  /\ vcpu_workers_claimed \in 0..N /\ cloned \in 0..N
  /\ stopping \in 0..N + 2
  /\ next_affinity_worker \in Nat
  /\ affinity \in [Callers -> Slots] /\ route \in [Callers -> Slots]
  /\ cpc \in [Callers -> {"idle", "push", "wait"}]
  /\ number \in [Callers -> 0..MaxCalls]
  /\ completed \subseteq Requests
  /\ \A c \in Callers : ran[c] \in Seq(Slots)

\* A request is in one place: while its caller waits it is in exactly one
\* mailbox, once, or with exactly one worker, or completed; and no completed
\* request is queued or taken again (run_request_loop, call_function).
InOnePlace ==
  LET Places(r) == {<<w, i>> \in Slots \X (0..Cardinality(Callers)) :
                      IF i = 0 THEN current[w] = r ELSE i <= Len(queue[w]) /\ queue[w][i] = r}
  IN \A r \in Requests :
       Cardinality(Places(r)) =
         (IF cpc[r[1]] = "wait" /\ Request(r[1]) = r /\ r \notin completed THEN 1 ELSE 0)

\* A parked worker has an empty mailbox, and after should_stop_ was set it
\* will still be woken (the notifications are sent under the mailbox's mutex).
NoLostWakeup ==
  \A w \in Slots : wpc[w] = "parked" => queue[w] = <<>> /\ (should_stop => stopping <= w)

\* The comment on pick_affinity_worker: "every later call from the same thread
\* reuses it, so a session's calls never bounce across CPUs".  Once a pool
\* worker ran a call of c, it runs all later ones.
StickyWorker ==
  \A c \in Callers : \A i, j \in DOMAIN ran[c] :
    i < j /\ ran[c][i] # 0 => ran[c][j] = ran[c][i]

\* The comment in run_request_loop: "workers_spawned_ is published only AFTER
\* the pool is online, so affinity routing to 1..N can't target a worker that
\* isn't consuming its mailbox yet".
RoutedToWorker ==
  \A c \in Callers : cpc[c] \in {"push", "wait"} => wpc[route[c]] \notin {"absent", "hook"}

\* Every call returns, unless the emulator is being stopped.
EveryCallReturns == \A c \in Callers : cpc[c] = "wait" ~> (cpc[c] = "idle" \/ should_stop)

\* stop_emulator_thread returns, and in the end every worker is out of
\* run_request_loop for good, whatever it was doing when should_stop_ was set.
\* The join waits for slot 0 only: that the others are out before
\* stop_emulator_thread returns is not promised.
StopReturns ==
  should_stop ~> [](stopping = N + 2 /\ \A w \in Slots : wpc[w] \in {"absent", "exited"})
=============================================================================
