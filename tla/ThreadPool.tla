----------------------------- MODULE ThreadPool -----------------------------
(***************************************************************************)
(* The thread pool of src/threadpool.c: threadpool_create with all of its  *)
(* failure paths, the loop of threadpool_worker, threadpool_add,           *)
(* threadpool_destroy and threadpool_free, as interleaved by the mutex     *)
(* pool->lock and the condition variable pool->notify.                     *)
(*                                                                         *)
(* Every section the code runs under the lock is one action, except where  *)
(* an access made WITHOUT the lock can fall inside it: the failure path of *)
(* threadpool_create raises the shutdown flag and broadcasts unlocked, so  *)
(* a worker's test of the flag and its call of pthread_cond_wait are two   *)
(* steps here.                                                             *)
(***************************************************************************)
EXTENDS Integers, Sequences, FiniteSets

CONSTANTS
  MAX_THREADS,    \* threadpool.h
  MAX_QUEUE,      \* threadpool.h
  ThreadCounts,   \* the thread_count arguments threadpool_create is given
  QueueSizes,     \* the queue_size arguments threadpool_create is given
  Tasks,          \* tasks, each submitted by one call of threadpool_add
  Destroyers,     \* threads that may call threadpool_destroy, once each
  NoTask,         \* the content of a slot malloc has not initialised
  NoOwner,        \* nobody holds the lock
  SyncFaults      \* whether a pthread call on a live object may report failure

ASSUME PoolAssumption ==
  /\ MAX_THREADS \in Nat \ {0}
  /\ MAX_QUEUE \in Nat \ {0}
  /\ ThreadCounts \subseteq Int
  /\ QueueSizes \subseteq Int
  /\ NoTask \notin Tasks
  /\ SyncFaults \in BOOLEAN
  /\ Destroyers \cap Int = {}
  /\ NoOwner \notin Int \cup Destroyers \cup Tasks
  /\ Tasks \cap Int = {}

GRACEFUL_SHUTDOWN == 1
IMMEDIATE_SHUTDOWN == 2

\* Index into pool->threads, in creation order.
Workers == 0 .. MAX_THREADS - 1

VARIABLES
  creator,      \* where the caller of threadpool_create is
  asked,        \* its thread_count argument
  i,            \* its loop counter over the threads it creates
  j,            \* its loop counter over the threads it joins on failure
  live,         \* memory and synchronisation objects that exist
  queue_size, thread_count, head, tail, count, shutdown, started,
  queue,        \* pool->queue
  lock,         \* who holds pool->lock
  worker,       \* where each worker thread is
  task,         \* each worker's local variable task
  destroyer,    \* where each caller of threadpool_destroy is
  k,            \* its loop counter over the threads it joins
  result,       \* what threadpool_add returned for each task
  finished      \* tasks whose function has returned

fields == <<queue_size, thread_count, head, tail, count, shutdown, started, queue>>
ring == <<queue_size, head, tail, count, queue>>
callers == <<destroyer, k, result>>
creation == <<creator, asked, i, j>>
vars == <<creation, live, fields, lock, worker, task, callers, finished>>

Everything == {"pool", "threads", "queue", "lock", "notify"}

CreatorAt == {"start", "arrays", "mutex", "cond", "spawn", "count", "abort",
              "wake", "reap", "created", "null"}
WorkerAt == {"unborn", "lock", "test", "sleep", "asleep", "run", "exited"}
DestroyerAt == {"idle", "join", "join_err", "returned", "refused", "failed"}
Results == {"none", "ok", "queue_full", "shutdown", "lock_failure"}

\* The ring buffer fields and the program counters hold values of their types.
TypeOK ==
  /\ creator \in CreatorAt
  /\ asked \in 0..MAX_THREADS
  /\ i \in 0..MAX_THREADS
  /\ j \in 0..MAX_THREADS
  /\ live \subseteq Everything
  /\ queue_size \in 0..MAX_QUEUE
  /\ thread_count \in 0..MAX_THREADS
  /\ head \in 0..MAX_QUEUE-1 /\ tail \in 0..MAX_QUEUE-1
  /\ count \in 0..MAX_QUEUE
  /\ shutdown \in {0, GRACEFUL_SHUTDOWN, IMMEDIATE_SHUTDOWN}
  /\ started \in Int
  /\ queue \in [0..queue_size-1 -> Tasks \cup {NoTask}]
  /\ lock \in {NoOwner} \cup Workers \cup Tasks \cup Destroyers
  /\ worker \in [Workers -> WorkerAt]
  /\ task \in [Workers -> Tasks \cup {NoTask}]
  /\ destroyer \in [Destroyers -> DestroyerAt]
  /\ k \in [Destroyers -> 0..MAX_THREADS]
  /\ result \in [Tasks -> Results]
  /\ finished \subseteq Tasks

Init ==
  /\ creator = "start"
  /\ asked = 0 /\ i = 0 /\ j = 0
  /\ live = {}
  /\ queue_size = 0 /\ thread_count = 0 /\ started = 0
  /\ head = 0 /\ tail = 0 /\ count = 0
  /\ shutdown = 0
  /\ queue = [s \in 0..queue_size-1 |-> NoTask]
  /\ lock = NoOwner
  /\ worker = [w \in Workers |-> "unborn"]
  /\ task = [w \in Workers |-> NoTask]
  /\ destroyer = [d \in Destroyers |-> "idle"]
  /\ k = [d \in Destroyers |-> 0]
  /\ result = [t \in Tasks |-> "none"]
  /\ finished = {}

-----------------------------------------------------------------------------
(* threadpool_create, up to the creation of the threads                    *)

\* Arguments out of range, or no memory for the structure.
CreateRejects ==
  /\ creator = "start"
  /\ creator' = "null"
  /\ UNCHANGED <<asked, i, j, live, fields, lock, worker, task, callers, finished>>

CreateAccepts(tc, qs) ==
  /\ creator = "start"
  /\ 0 < tc /\ tc <= MAX_THREADS
  /\ 0 < qs /\ qs <= MAX_QUEUE
  /\ creator' = "arrays"
  /\ live' = {"pool"}
  /\ asked' = tc
  /\ queue_size' = qs
  /\ queue' = [s \in 0..qs-1 |-> NoTask]
  /\ UNCHANGED <<i, j, thread_count, head, tail, count, shutdown, started,
                 lock, worker, task, callers, finished>>

\* Mutant of CreateFails: an exit path that forgets one free.
CreateForgetsThreads(freed) ==
  /\ creator' = "null"
  /\ live' = live \ (freed \ {"threads"})

\* Gives up and frees the objects in `freed`.
CreateFails(freed) ==
  /\ creator' = "null"
  /\ live' = live \ freed

\* The two mallocs: got is what they returned; anything less than both is
\* freed again together with the structure.
AllocArrays(got) ==
  /\ creator = "arrays"
  /\ \/ /\ got = {"threads", "queue"}
        /\ live' = live \cup got
        /\ creator' = "mutex"
     \/ /\ got # {"threads", "queue"}
        /\ CreateFails({"pool"})
  /\ UNCHANGED <<asked, i, j, fields, lock, worker, task, callers, finished>>

InitMutex ==
  /\ creator = "mutex"
  /\ \/ live' = live \cup {"lock"} /\ creator' = "cond"
     \/ CreateFails({"pool", "threads", "queue"})
  /\ UNCHANGED <<asked, i, j, fields, lock, worker, task, callers, finished>>

InitCond ==
  /\ creator = "cond"
  /\ \/ live' = live \cup {"notify"} /\ creator' = "spawn"
     \/ CreateFails({"lock", "pool", "threads", "queue"})
  /\ UNCHANGED <<asked, i, j, fields, lock, worker, task, callers, finished>>

-----------------------------------------------------------------------------
(* threadpool_create, the loop that creates the threads                    *)

\* pthread_create succeeds: the new thread runs before its creator counts it.
Spawn ==
  /\ creator = "spawn"
  /\ i < asked
  /\ worker' = [worker EXCEPT ![i] = "lock"]
  /\ creator' = "count"
  /\ UNCHANGED <<asked, i, j, live, fields, lock, task, callers, finished>>

\* Unlocked, but no worker writes these fields before a shutdown is announced
\* (CountingIsExclusive, below).
CountThread ==
  /\ creator = "count"
  /\ thread_count' = thread_count + 1
  /\ started' = started + 1
  /\ i' = i + 1
  /\ creator' = "spawn"
  /\ UNCHANGED <<asked, j, live, ring, shutdown, lock, worker, task, callers, finished>>

CreateReturns ==
  /\ creator = "spawn"
  /\ i = asked
  /\ creator' = "created"
  /\ UNCHANGED <<asked, i, j, live, fields, lock, worker, task, callers, finished>>

SpawnFails ==
  /\ creator = "spawn"
  /\ i < asked
  /\ creator' = "abort"
  /\ UNCHANGED <<asked, i, j, live, fields, lock, worker, task, callers, finished>>

\* The flag is raised without taking the lock.
AbortFlag ==
  /\ creator = "abort"
  /\ shutdown' = IMMEDIATE_SHUTDOWN
  /\ creator' = "wake"
  /\ UNCHANGED <<asked, i, j, live, ring, thread_count, started, lock, worker,
                 task, callers, finished>>

\* Mutant of Broadcast: a signal, which wakes one thread, in its place.
BroadcastToOne ==
  IF \E w \in Workers : worker[w] = "asleep"
  THEN \E w \in Workers :
         worker[w] = "asleep" /\ worker' = [worker EXCEPT ![w] = "lock"]
  ELSE UNCHANGED worker

\* pthread_cond_broadcast: only threads already in pthread_cond_wait are woken.
Broadcast ==
  worker' = [w \in Workers |-> IF worker[w] = "asleep" THEN "lock" ELSE worker[w]]

AbortWake ==
  /\ creator = "wake"
  /\ Broadcast
  /\ creator' = "reap"
  /\ UNCHANGED <<asked, i, j, live, fields, lock, task, callers, finished>>

\* Mutant of Joinable: pthread_join that does not wait.
JoinAtOnce(w) == TRUE

\* pthread_join blocks until the thread has called pthread_exit.
Joinable(w) == worker[w] = "exited"

AbortJoin ==
  /\ creator = "reap"
  /\ j < i
  /\ Joinable(j)
  /\ j' = j + 1
  /\ UNCHANGED <<creator, asked, i, live, fields, lock, worker, task, callers, finished>>

AbortFree ==
  /\ creator = "reap"
  /\ j = i
  /\ CreateFails(Everything)
  /\ UNCHANGED <<asked, i, j, fields, lock, worker, task, callers, finished>>

Create ==
  \/ CreateRejects
  \/ \E tc \in ThreadCounts, qs \in QueueSizes : CreateAccepts(tc, qs)
  \/ \E got \in SUBSET {"threads", "queue"} : AllocArrays(got)
  \/ InitMutex \/ InitCond
  \/ Spawn \/ CountThread \/ CreateReturns
  \/ SpawnFails \/ AbortFlag \/ AbortWake \/ AbortJoin \/ AbortFree

-----------------------------------------------------------------------------
(* threadpool_worker                                                       *)

WorkerLock(w) ==
  /\ worker[w] = "lock"
  /\ lock = NoOwner
  /\ lock' = w
  /\ worker' = [worker EXCEPT ![w] = "test"]
  /\ UNCHANGED <<creation, live, fields, task, callers, finished>>

\* Nothing to do and no shutdown seen: the worker will call pthread_cond_wait.
WorkerFindsNothing(w) ==
  /\ worker[w] = "test"
  /\ count = 0
  /\ shutdown = 0
  /\ worker' = [worker EXCEPT ![w] = "sleep"]
  /\ UNCHANGED <<creation, live, fields, lock, task, callers, finished>>

\* pthread_cond_wait releases the lock and falls asleep in one step.
WorkerSleep(w) ==
  /\ worker[w] = "sleep"
  /\ lock' = NoOwner
  /\ worker' = [worker EXCEPT ![w] = "asleep"]
  /\ UNCHANGED <<creation, live, fields, task, callers, finished>>

\* pthread_cond_wait may return without a signal.
SpuriousWake(w) ==
  /\ worker[w] = "asleep"
  /\ worker' = [worker EXCEPT ![w] = "lock"]
  /\ UNCHANGED <<creation, live, fields, lock, task, callers, finished>>

\* Mutant of MayExit: graceful shutdown that does not look at the queue.
MayExitAtOnce == shutdown # 0

MayExit ==
  \/ shutdown = IMMEDIATE_SHUTDOWN
  \/ shutdown = GRACEFUL_SHUTDOWN /\ count = 0

\* Mutant of Leave: the thread is not counted off.
LeaveUncounted == UNCHANGED started

Leave == started' = started - 1

WorkerExit(w) ==
  /\ worker[w] = "test"
  /\ MayExit
  /\ Leave
  /\ lock' = NoOwner
  /\ worker' = [worker EXCEPT ![w] = "exited"]
  /\ UNCHANGED <<creation, live, ring, thread_count, shutdown, task, callers, finished>>

\* Mutant of NextSlot: an index that is not wrapped around.
NextSlotUnwrapped(s) == s + 1

\* The slot after s in the ring.
NextSlot(s) == (s + 1) % queue_size

\* Mutant of TakenSlot: a stack in place of the queue.
NewestSlot == IF tail = 0 THEN queue_size - 1 ELSE tail - 1

TakenSlot == head

WorkerTake(w) ==
  /\ worker[w] = "test"
  /\ ~ MayExit
  /\ count # 0
  /\ task' = [task EXCEPT ![w] = queue[TakenSlot]]
  /\ head' = NextSlot(head)
  /\ count' = count - 1
  /\ lock' = NoOwner
  /\ worker' = [worker EXCEPT ![w] = "run"]
  /\ UNCHANGED <<creation, live, queue_size, thread_count, tail, shutdown, started,
                 queue, callers, finished>>

\* The task's function returns.
WorkerFinish(w) ==
  /\ worker[w] = "run"
  /\ finished' = finished \cup {task[w]}
  /\ task' = [task EXCEPT ![w] = NoTask]
  /\ worker' = [worker EXCEPT ![w] = "lock"]
  /\ UNCHANGED <<creation, live, fields, lock, callers>>

WorkerStep(w) ==
  \/ WorkerLock(w) \/ WorkerFindsNothing(w) \/ WorkerSleep(w)
  \/ WorkerExit(w) \/ WorkerTake(w) \/ WorkerFinish(w)

-----------------------------------------------------------------------------
(* threadpool_add                                                          *)

\* Callers have the pointer threadpool_create returned, and do not use it once
\* the pool is freed.
Usable == creator = "created" /\ "pool" \in live

\* The call for task t, with the lock taken.
Adding(t) == Usable /\ lock = NoOwner /\ result[t] = "none"

Returns(t, r) == result' = [result EXCEPT ![t] = r]

\* Mutant of QueueFull: off by one.
QueueOverfull == count > queue_size

QueueFull == count = queue_size

AddFull(t) ==
  /\ Adding(t)
  /\ QueueFull
  /\ Returns(t, "queue_full")
  /\ UNCHANGED <<creation, live, fields, lock, worker, task, destroyer, k, finished>>

AddShutdown(t) ==
  /\ Adding(t)
  /\ ~ QueueFull
  /\ shutdown # 0
  /\ Returns(t, "shutdown")
  /\ UNCHANGED <<creation, live, fields, lock, worker, task, destroyer, k, finished>>

Enqueue(t) ==
  /\ ~ QueueFull
  /\ shutdown = 0
  /\ queue' = [queue EXCEPT ![tail] = t]
  /\ tail' = NextSlot(tail)
  /\ count' = count + 1

\* Mutant of Signal: a signal only when the queue was empty.
SignalFirstOnly ==
  IF count = 0 /\ \E w \in Workers : worker[w] = "asleep"
  THEN \E w \in Workers :
         worker[w] = "asleep" /\ worker' = [worker EXCEPT ![w] = "lock"]
  ELSE UNCHANGED worker

\* Mutant of Signal: no signal.
SignalNobody == UNCHANGED worker

\* pthread_cond_signal wakes one sleeping thread, if there is one.
Signal ==
  IF \E w \in Workers : worker[w] = "asleep"
  THEN \E w \in Workers :
         /\ worker[w] = "asleep"
         /\ worker' = [worker EXCEPT ![w] = "lock"]
  ELSE UNCHANGED worker

AddTask(t) ==
  /\ Adding(t)
  /\ Enqueue(t)
  /\ Signal
  /\ Returns(t, "ok")
  /\ UNCHANGED <<creation, live, queue_size, thread_count, head, shutdown, started,
                 lock, task, destroyer, k, finished>>

\* pthread_cond_signal reports an error after the task was stored.
AddSignalFails(t) ==
  /\ SyncFaults
  /\ Adding(t)
  /\ Enqueue(t)
  /\ Returns(t, "lock_failure")
  /\ UNCHANGED <<creation, live, queue_size, thread_count, head, shutdown, started,
                 lock, worker, task, destroyer, k, finished>>

AddLockFails(t) ==
  /\ SyncFaults
  /\ Usable
  /\ result[t] = "none"
  /\ Returns(t, "lock_failure")
  /\ UNCHANGED <<creation, live, fields, lock, worker, task, destroyer, k, finished>>

\* Whatever the outcome was, a failing unlock replaces it, and keeps the lock.
AddUnlockFails(t) ==
  /\ SyncFaults
  /\ Adding(t)
  /\ \/ Enqueue(t) /\ Signal
     \/ /\ QueueFull \/ shutdown # 0
        /\ UNCHANGED <<queue, tail, count, worker>>
  /\ Returns(t, "lock_failure")
  /\ lock' = t
  /\ UNCHANGED <<creation, live, queue_size, thread_count, head, shutdown, started,
                 task, destroyer, k, finished>>

Add(t) ==
  \/ AddFull(t) \/ AddShutdown(t) \/ AddTask(t)
  \/ AddSignalFails(t) \/ AddLockFails(t) \/ AddUnlockFails(t)

-----------------------------------------------------------------------------
(* threadpool_destroy and threadpool_free                                  *)

Destroying(d) == Usable /\ lock = NoOwner /\ destroyer[d] = "idle"

\* Mutant of StillOpen: the check for an earlier shutdown is left out.
AlwaysOpen == TRUE

StillOpen == shutdown = 0

DestroyBegin(d, graceful) ==
  /\ Destroying(d)
  /\ StillOpen
  /\ shutdown' = IF graceful THEN GRACEFUL_SHUTDOWN ELSE IMMEDIATE_SHUTDOWN
  /\ Broadcast
  /\ destroyer' = [destroyer EXCEPT ![d] = "join"]
  /\ UNCHANGED <<creation, live, ring, thread_count, started, lock, task, k,
                 result, finished>>

\* Already shutting down: the loop is left before the unlock, so the call
\* returns with the lock held.
DestroyAgain(d) ==
  /\ Destroying(d)
  /\ ~ StillOpen
  /\ lock' = d
  /\ destroyer' = [destroyer EXCEPT ![d] = "refused"]
  /\ UNCHANGED <<creation, live, fields, worker, task, k, result, finished>>

\* A broadcast that reports an error leaves the loop with the lock held, too,
\* and so does an unlock that fails after the broadcast.
DestroyBroadcastFails(d, graceful) ==
  /\ SyncFaults
  /\ Destroying(d)
  /\ StillOpen
  /\ shutdown' = IF graceful THEN GRACEFUL_SHUTDOWN ELSE IMMEDIATE_SHUTDOWN
  /\ lock' = d
  /\ UNCHANGED worker \/ Broadcast
  /\ destroyer' = [destroyer EXCEPT ![d] = "failed"]
  /\ UNCHANGED <<creation, live, ring, thread_count, started, task, k,
                 result, finished>>

DestroyLockFails(d) ==
  /\ SyncFaults
  /\ Usable
  /\ destroyer[d] = "idle"
  /\ destroyer' = [destroyer EXCEPT ![d] = "failed"]
  /\ UNCHANGED <<creation, live, fields, lock, worker, task, k, result, finished>>

\* One round of the join loop; a failing join is noted and the loop goes on.
DestroyJoin(d) ==
  /\ destroyer[d] \in {"join", "join_err"}
  /\ k[d] < thread_count
  /\ k' = [k EXCEPT ![d] = k[d] + 1]
  /\ \/ Joinable(k[d]) /\ UNCHANGED destroyer
     \/ SyncFaults /\ destroyer' = [destroyer EXCEPT ![d] = "join_err"]
  /\ UNCHANGED <<creation, live, fields, lock, worker, task, result, finished>>

threadpool_free == live' = IF started > 0 THEN live ELSE {}

DestroyReturns(d) ==
  /\ destroyer[d] = "join"
  /\ k[d] = thread_count
  /\ threadpool_free
  /\ destroyer' = [destroyer EXCEPT ![d] = "returned"]
  /\ UNCHANGED <<creation, fields, lock, worker, task, k, result, finished>>

DestroyReturnsError(d) ==
  /\ destroyer[d] = "join_err"
  /\ k[d] = thread_count
  /\ destroyer' = [destroyer EXCEPT ![d] = "failed"]
  /\ UNCHANGED <<creation, live, fields, lock, worker, task, k, result, finished>>

DestroyGoesOn(d) == DestroyJoin(d) \/ DestroyReturns(d) \/ DestroyReturnsError(d)

Destroy(d) ==
  \/ \E graceful \in BOOLEAN : DestroyBegin(d, graceful) \/ DestroyBroadcastFails(d, graceful)
  \/ DestroyAgain(d) \/ DestroyLockFails(d)
  \/ DestroyGoesOn(d)

-----------------------------------------------------------------------------

Next ==
  \/ Create
  \/ \E w \in Workers : WorkerStep(w) \/ SpuriousWake(w)
  \/ \E t \in Tasks : Add(t)
  \/ \E d \in Destroyers : Destroy(d)

Spec == Init /\ [][Next]_vars

\* Threads that can run do run, and task functions return. Nobody is obliged to
\* call threadpool_add or threadpool_destroy, and no wakeup has to be spurious.
Fairness ==
  /\ WF_vars(Create)
  /\ \A w \in Workers : WF_vars(WorkerStep(w))
  /\ \A d \in Destroyers : WF_vars(DestroyGoesOn(d))

FairSpec == Spec /\ Fairness

-----------------------------------------------------------------------------
(* Properties                                                              *)

\* Steps around the ring: n positions past the end continue at its start.
Wrap(n) == IF n >= queue_size THEN n - queue_size ELSE n

\* The ring buffer's three redundant fields agree whatever the interleaving of
\* adders and workers: count slots lead from head to tail, and each of them
\* holds a task somebody added, never a slot malloc left uninitialised.
RingCoherent ==
  /\ count <= queue_size
  /\ queue_size > 0 => tail = Wrap(head + count)
  /\ \A p \in 0..count-1 : queue[Wrap(head + p)] \in Tasks

\* A worker that has started and not left its loop finds the whole pool in
\* memory: neither threadpool_free nor the failure path of threadpool_create
\* frees anything a thread can still touch.
NoUseAfterFree ==
  \A w \in Workers : worker[w] \notin {"unborn", "exited"} => live = Everything

\* When threadpool_create returns NULL, at whichever of its steps it failed,
\* everything it had allocated is freed.
NullLeaksNothing == creator = "null" => live = {}

Awake == {w \in Workers : worker[w] \in {"lock", "test"}}
Asleep == {w \in Workers : worker[w] = "asleep"}

\* No lost wakeup in threadpool_add: a thread sleeps in pthread_cond_wait only
\* while each queued task already has a thread of its own on the way to it.
WorkConserving ==
  creator = "created" /\ shutdown = 0 /\ Asleep # {} => count <= Cardinality(Awake)

\* threadpool_destroy that returns 0 has freed the pool: the `started` counter,
\* incremented without the lock by the creator and decremented by each leaving
\* worker, is back at zero, so threadpool_free does not return early.
DestroyFrees == \A d \in Destroyers : destroyer[d] = "returned" => live = {}

\* After a graceful threadpool_destroy every accepted task has been executed.
GracefulDrains ==
  \A d \in Destroyers : destroyer[d] = "returned" /\ shutdown = GRACEFUL_SHUTDOWN
    => \A t \in Tasks : result[t] = "ok" => t \in finished

\* A task whose submission was reported as failed is never executed: main
\* frees its argument and closes its socket.
RefusedNeverRuns ==
  \A t \in Tasks : result[t] \in {"queue_full", "shutdown", "lock_failure"} =>
    t \notin finished \cup {task[w] : w \in Workers}

\* The kind of shutdown never changes: a second threadpool_destroy cannot turn
\* a graceful shutdown that is under way into an immediate one.
ShutdownIsFinal == [][shutdown # 0 => shutdown' = shutdown]_vars

\* Every accepted task is executed, unless an immediate shutdown abandons it.
AcceptedTasksRun ==
  \A t \in Tasks : result[t] = "ok" ~> (t \in finished \/ shutdown = IMMEDIATE_SHUTDOWN)

\* threadpool_destroy, once it has announced the shutdown, returns.
DestroyTerminates ==
  \A d \in Destroyers : destroyer[d] = "join" ~> destroyer[d] \in {"returned", "failed"}

\* threadpool_create returns, with a pool or with NULL.
CreateTerminates == creator = "arrays" ~> creator \in {"created", "null"}

-----------------------------------------------------------------------------
(* The inductive invariant the proofs of ThreadPoolProofs use.             *)

Inside == {w \in Workers : worker[w] \notin {"unborn", "exited"}}

\* Threads exist in creation order, and thread_count counts them one step late.
BornInOrder ==
  /\ thread_count = i
  /\ i <= asked
  /\ creator = "count" => i < asked
  /\ \A w \in Workers :
       worker[w] = "unborn" <=> w > i \/ (w = i /\ creator # "count")

\* What each step of threadpool_create and a successful destroy leave in memory.
LiveByStage ==
  /\ creator \in {"start", "null"} => live = {}
  /\ creator = "arrays" => live = {"pool"}
  /\ creator = "mutex" => live = {"pool", "threads", "queue"}
  /\ creator = "cond" => live = Everything \ {"notify"}
  /\ creator \in {"spawn", "count", "abort", "wake", "reap"} => live = Everything
  /\ creator = "created" => live \in {Everything, {}}
  /\ creator \in {"start", "arrays", "mutex", "cond"} => i = 0
  /\ live = {} => Inside = {}

\* thread_count and started are incremented without the lock, but nobody else
\* writes them while the creator does: no shutdown has been announced.
CountingIsExclusive ==
  creator \notin {"wake", "reap", "created", "null"} =>
    shutdown = 0 /\ \A w \in Workers : worker[w] # "exited"

\* Exactly the threads in the critical section of the loop hold the lock.
LockOwned == \A w \in Workers : worker[w] \in {"test", "sleep"} <=> lock = w

\* The threads a join loop has passed have ended.
JoinedExited ==
  /\ j <= i
  /\ \A w \in Workers : w < j => worker[w] = "exited"
  /\ \A d \in Destroyers :
       IF destroyer[d] = "idle" THEN k[d] = 0 ELSE creator = "created"
  /\ \A d \in Destroyers : destroyer[d] = "join" =>
       \A w \in Workers : w < k[d] => worker[w] = "exited"

\* The indices stay inside the ring, which exists before any thread does.
IndicesInRing ==
  /\ creator = "start" => queue_size = 0
  /\ creator \notin {"start", "null"} => queue_size > 0
  /\ queue_size > 0 => head < queue_size /\ tail < queue_size
  /\ queue_size = 0 => head = 0 /\ tail = 0 /\ count = 0

\* Whatever a worker of the pool is about to run was added by someone.
RunsRealTasks == \A w \in Workers : worker[w] = "run" => task[w] \in Tasks

\* The inductive invariant: who may run, what is in memory and where the ring's
\* fields stand, at every stage of the pool's life, with failing calls or without.
IInv ==
  /\ TypeOK
  /\ RingCoherent
  /\ BornInOrder
  /\ LiveByStage
  /\ CountingIsExclusive
  /\ LockOwned
  /\ JoinedExited
  /\ IndicesInRing
  /\ RunsRealTasks

\* The tasks in the occupied slots of the ring, and those the workers execute.
Slot(p) == queue[Wrap(head + p)]
Waiting == {Slot(p) : p \in 0..count-1}
Running == {task[w] : w \in {x \in Workers : worker[x] = "run"}}

\* started is the number of counted threads that have not left their loop.
Counted == {w \in Workers : w < thread_count /\ worker[w] # "exited"}
StartedCounts == started = Cardinality(Counted)

\* threadpool_create hands out a pool with every thread it was asked for.
CreatedInFull ==
  /\ creator \notin {"start", "null"} => asked > 0
  /\ creator = "created" => i = asked

\* A thread leaves its loop only after a shutdown, a graceful one only with
\* nothing left in the ring.
LeftEmpty ==
  \A w \in Workers : worker[w] = "exited" =>
    shutdown # 0 /\ (shutdown = GRACEFUL_SHUTDOWN => count = 0)

\* An accepted task is queued, in execution or executed: never lost.
NoneLost == \A t \in Tasks : result[t] = "ok" => t \in Waiting \cup Running \cup finished

\* The invariant that a shutdown rests on.
ShutdownInv ==
  /\ IInv
  /\ StartedCounts
  /\ CreatedInFull
  /\ LeftEmpty
  /\ NoneLost
  /\ DestroyFrees

\* A task is in one place only, and only if threadpool_add has stored it: what
\* the call reports then is success, or a fault of the signal or the unlock.
InOnePlace ==
  /\ \A p, q \in 0..count-1 : Slot(p) = Slot(q) => p = q
  /\ \A v, w \in Workers :
       worker[v] = "run" /\ worker[w] = "run" /\ task[v] = task[w] => v = w
  /\ Waiting \cap Running = {}
  /\ (Waiting \cup Running) \cap finished = {}
  /\ \A t \in Waiting \cup Running \cup finished : result[t] \in {"ok", "lock_failure"}

\* Nobody has the pointer of a pool that is still being created.
QuietUntilCreated == creator # "created" => count = 0

\* The local variable task is set only while the task's function runs.
IdleHoldsNothing == \A w \in Workers : worker[w] # "run" => task[w] = NoTask

\* Without failing calls no result of threadpool_add is a fault.
FaultsOnlyIfAny == \A t \in Tasks : result[t] = "lock_failure" => SyncFaults

\* A worker on its way into pthread_cond_wait still finds the ring empty: it
\* holds the lock since it looked.
SleepersSawNothing == \A w \in Workers : worker[w] = "sleep" => count = 0

\* The invariant the refinement rests on.
QueueInv ==
  /\ ShutdownInv
  /\ InOnePlace
  /\ QuietUntilCreated
  /\ IdleHoldsNothing
  /\ SleepersSawNothing
  /\ FaultsOnlyIfAny

-----------------------------------------------------------------------------
(* Refinement: the pool implements the queue its callers see.              *)

Pending == [p \in 1..count |-> Slot(p - 1)]

Phase ==
  CASE creator # "created" -> "new"
    [] creator = "created" /\ live = {} -> "disposed"
    [] creator = "created" /\ live # {} /\ shutdown = 0 -> "open"
    [] creator = "created" /\ live # {} /\ shutdown = GRACEFUL_SHUTDOWN -> "draining"
    [] OTHER -> "halted"

Refused == {t \in Tasks : result[t] \notin {"none", "ok"}}

Capacity == IF creator = "created" THEN queue_size ELSE 0

Queue == INSTANCE TaskQueue WITH
  Capacities <- 1..MAX_QUEUE,
  pending <- Pending,
  running <- Running,
  refused <- Refused,
  phase <- Phase,
  capacity <- Capacity

\* The pool is the bounded FIFO of TaskQueue: tasks start in the order of their
\* acceptance, at most once, none after it was refused, and the memory goes
\* away only when nothing is running and a graceful shutdown has drained it.
ImplementsQueue == Queue!Spec
=============================================================================
