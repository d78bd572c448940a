-------------------------- MODULE ThreadPoolProofs --------------------------
(***************************************************************************)
(* Proofs about ThreadPool for every number of threads, tasks, slots and   *)
(* callers of threadpool_destroy, with pthread calls that may fail and     *)
(* with calls that do not.  IInv is inductive: one lemma per action of     *)
(* ThreadPool shows that the action preserves it.  Then, on top of IInv,   *)
(* what a shutdown guarantees: a destroy that returns 0 has freed the pool,*)
(* and a graceful one has executed every accepted task.  The first needs   *)
(* the meaning of the counter `started` (a cardinality), the second where  *)
(* each accepted task is and what a leaving thread leaves behind.          *)
(* Last, the pool as its callers see it: each task is in one place, and    *)
(* where no pthread call fails a refused task never runs, no task waits    *)
(* while threads sleep, and the pool implements TaskQueue.                 *)
(***************************************************************************)
EXTENDS ThreadPool, FiniteSetTheorems, SequenceTheorems, TLAPS

-----------------------------------------------------------------------------
(* The ring buffer.                                                        *)

\* (x + 1) % n is the next index of a ring of n slots.
LEMMA NextInRing ==
  ASSUME NEW n \in Nat \ {0}, NEW x \in 0..n-1
  PROVE (x + 1) % n = IF x + 1 = n THEN 0 ELSE x + 1
<1>1. CASE x + 1 = n BY <1>1, SMT
<1>2. CASE x + 1 < n BY <1>2, SMT
<1>3. QED BY <1>1, <1>2, SMT

\* pthread_cond_signal moves sleeping workers to the lock, and nothing else.
LEMMA SignalWakes ==
  ASSUME TypeOK, Signal
  PROVE  /\ worker' \in [Workers -> WorkerAt]
         /\ \A w \in Workers :
              worker'[w] # worker[w] =>
                worker[w] = "asleep" /\ worker'[w] = "lock"
BY DEF TypeOK, Signal, WorkerAt

\* So does pthread_cond_broadcast.
LEMMA BroadcastWakes ==
  ASSUME TypeOK, Broadcast
  PROVE  /\ worker' \in [Workers -> WorkerAt]
         /\ \A w \in Workers :
              worker'[w] # worker[w] =>
                worker[w] = "asleep" /\ worker'[w] = "lock"
BY DEF TypeOK, Broadcast, WorkerAt

\* threadpool_add stores a task in a free slot and keeps the ring coherent.
LEMMA EnqueueInRing ==
  ASSUME IInv, NEW t \in Tasks, Adding(t), Enqueue(t),
         UNCHANGED <<queue_size, head>>
  PROVE  /\ tail' \in 0..queue_size-1
         /\ count' \in 1..queue_size
         /\ queue' \in [0..queue_size-1 -> Tasks \cup {NoTask}]
         /\ RingCoherent'
<1> USE DEF IInv, Adding, Usable, Enqueue
<1>1. /\ queue_size \in 1..MAX_QUEUE
      /\ head \in 0..queue_size-1
      /\ tail \in 0..queue_size-1
      /\ count \in 0..queue_size-1
  BY PoolAssumption DEF TypeOK, RingCoherent, IndicesInRing, QueueFull
<1>2. tail' = IF tail + 1 = queue_size THEN 0 ELSE tail + 1
  BY <1>1, NextInRing DEF NextSlot
<1>3. queue' \in [0..queue_size-1 -> Tasks \cup {NoTask}]
  BY <1>1 DEF TypeOK
<1>4. tail = Wrap(head + count)
  BY <1>1 DEF RingCoherent
<1>5. tail' = Wrap(head + count)'
  BY <1>1, <1>2, <1>4 DEF Wrap
<1>6. ASSUME NEW p \in 0..count'-1
      PROVE  queue'[Wrap(head + p)'] \in Tasks
  <2>1. CASE p = count
    BY <2>1, <1>1, <1>4 DEF TypeOK, Wrap
  <2>2. CASE p \in 0..count-1
    <3>1. Wrap(head + p) # tail /\ Wrap(head + p) \in 0..queue_size-1
      BY <2>2, <1>1, <1>4 DEF Wrap
    <3>2. QED  BY <2>2, <3>1, <1>1 DEF TypeOK, Wrap, RingCoherent
  <2>3. QED  BY <1>6, <1>1, <2>1, <2>2
<1>7. QED
  BY <1>1, <1>2, <1>3, <1>5, <1>6 DEF RingCoherent

\* A worker takes a real task off the ring and keeps the ring coherent.
LEMMA TakeInRing ==
  ASSUME IInv, NEW w \in Workers, WorkerTake(w)
  PROVE  /\ queue_size > 0
         /\ head' \in 0..queue_size-1
         /\ count' \in 0..queue_size-1
         /\ queue[head] \in Tasks
         /\ RingCoherent'
<1> USE DEF IInv, WorkerTake
<1>1. /\ queue_size \in 1..MAX_QUEUE
      /\ head \in 0..queue_size-1
      /\ tail \in 0..queue_size-1
      /\ count \in 1..queue_size
  BY PoolAssumption DEF TypeOK, RingCoherent, IndicesInRing
<1>2. head' = IF head + 1 = queue_size THEN 0 ELSE head + 1
  BY <1>1, NextInRing DEF NextSlot
<1>3. tail' = Wrap(head + count)'
  BY <1>1, <1>2 DEF RingCoherent, Wrap
<1>4. ASSUME NEW p \in 0..count'-1
      PROVE  queue'[Wrap(head + p)'] \in Tasks
  <2>1. Wrap(head + p)' = Wrap(head + (p + 1)) /\ p + 1 \in 0..count-1
    BY <1>1, <1>2 DEF Wrap
  <2>2. QED  BY <2>1 DEF RingCoherent
<1>5. queue[head] \in Tasks
  <2>1. Wrap(head + 0) = head  BY <1>1 DEF Wrap
  <2>2. QED  BY <2>1, <1>1 DEF RingCoherent
<1>6. QED
  BY <1>1, <1>2, <1>3, <1>4, <1>5 DEF RingCoherent

-----------------------------------------------------------------------------
(* The initial states.                                                     *)

\* Before threadpool_create is called the invariant holds.
LEMMA InitInv ==
  ASSUME Init
  PROVE  IInv
<1> USE PoolAssumption DEF Init
<1>1. TypeOK
  BY DEF TypeOK, CreatorAt, WorkerAt, DestroyerAt, Results
<1>2. RingCoherent /\ IndicesInRing
  BY DEF RingCoherent, IndicesInRing, Wrap
<1>3. /\ BornInOrder /\ CountingIsExclusive /\ LiveByStage
      /\ LockOwned /\ JoinedExited /\ RunsRealTasks
  BY DEF BornInOrder, CountingIsExclusive, LiveByStage, LockOwned, JoinedExited,
         RunsRealTasks, Inside, Workers
<1>4. QED  BY <1>1, <1>2, <1>3 DEF IInv

-----------------------------------------------------------------------------
(* threadpool_create, until the threads are created.                       *)

\* CreateRejects preserves the invariant.
LEMMA CreateRejectsInv ==
  ASSUME IInv, CreateRejects
  PROVE  IInv'
<1> USE PoolAssumption DEF IInv, CreateRejects, fields, callers
<1>1. TypeOK'
  BY DEF TypeOK, Workers, Everything, CreatorAt, WorkerAt, DestroyerAt,
       Results
<1>2. IndicesInRing'
  BY DEF IndicesInRing, TypeOK
<1>3. BornInOrder'
  BY DEF BornInOrder, TypeOK, CreatorAt, Workers
<1>4. CountingIsExclusive'
  BY DEF CountingIsExclusive, TypeOK, BornInOrder, Workers
<1>5. LiveByStage'
  BY DEF LiveByStage, TypeOK, Inside, Everything, BornInOrder, JoinedExited,
       Workers
<1>6. JoinedExited'
  BY DEF JoinedExited, TypeOK, Workers, BornInOrder
<1>7. RingCoherent' /\ LockOwned' /\ RunsRealTasks'
  BY DEF RingCoherent, LockOwned, RunsRealTasks, Wrap, Workers
<1>8. QED  BY ONLY <1>1, <1>2, <1>3, <1>4, <1>5, <1>6, <1>7 DEF IInv

\* CreateAccepts preserves the invariant.
LEMMA CreateAcceptsInv ==
  ASSUME IInv, NEW tc \in ThreadCounts, NEW qs \in QueueSizes, CreateAccepts(tc,
         qs)
  PROVE  IInv'
<1> USE PoolAssumption DEF IInv, CreateAccepts, callers
<1>1. TypeOK'
  BY DEF TypeOK, Workers, Everything, CreatorAt, WorkerAt, DestroyerAt,
       Results
<1>2. RingCoherent'
  BY DEF RingCoherent, TypeOK, IndicesInRing, Wrap
<1>3. IndicesInRing'
  BY DEF IndicesInRing, TypeOK
<1>4. BornInOrder'
  BY DEF BornInOrder, TypeOK, CreatorAt, Workers, LiveByStage
<1>5. CountingIsExclusive'
  BY DEF CountingIsExclusive, TypeOK, BornInOrder, Workers
<1>6. LiveByStage'
  BY DEF LiveByStage, TypeOK, Inside, Everything, BornInOrder, JoinedExited,
       Workers
<1>7. JoinedExited'
  BY DEF JoinedExited, TypeOK, Workers, BornInOrder
<1>8. LockOwned' /\ RunsRealTasks'
  BY DEF LockOwned, RunsRealTasks, Workers
<1>9. QED  BY ONLY <1>1, <1>2, <1>3, <1>4, <1>5, <1>6, <1>7, <1>8 DEF IInv

\* AllocArrays preserves the invariant.
LEMMA AllocArraysInv ==
  ASSUME IInv, NEW got \in SUBSET {"threads", "queue"}, AllocArrays(got)
  PROVE  IInv'
<1> USE PoolAssumption DEF IInv, AllocArrays, fields, callers, CreateFails
<1>1. TypeOK'
  BY DEF TypeOK, Workers, Everything, CreatorAt, WorkerAt, DestroyerAt,
       Results
<1>2. IndicesInRing'
  BY DEF IndicesInRing, TypeOK
<1>3. BornInOrder'
  BY DEF BornInOrder, TypeOK, CreatorAt, Workers
<1>4. CountingIsExclusive'
  BY DEF CountingIsExclusive, TypeOK, BornInOrder, Workers
<1>5. LiveByStage'
  BY DEF LiveByStage, TypeOK, Inside, Everything, BornInOrder, JoinedExited,
       Workers
<1>6. JoinedExited'
  BY DEF JoinedExited, TypeOK, Workers, BornInOrder
<1>7. RingCoherent' /\ LockOwned' /\ RunsRealTasks'
  BY DEF RingCoherent, LockOwned, RunsRealTasks, Wrap, Workers
<1>8. QED  BY ONLY <1>1, <1>2, <1>3, <1>4, <1>5, <1>6, <1>7 DEF IInv

\* InitMutex preserves the invariant.
LEMMA InitMutexInv ==
  ASSUME IInv, InitMutex
  PROVE  IInv'
<1> USE PoolAssumption DEF IInv, InitMutex, fields, callers, CreateFails
<1>1. TypeOK'
  BY DEF TypeOK, Workers, Everything, CreatorAt, WorkerAt, DestroyerAt,
       Results
<1>2. IndicesInRing'
  BY DEF IndicesInRing, TypeOK
<1>3. BornInOrder'
  BY DEF BornInOrder, TypeOK, CreatorAt, Workers
<1>4. CountingIsExclusive'
  BY DEF CountingIsExclusive, TypeOK, BornInOrder, Workers
<1>5. LiveByStage'
  BY DEF LiveByStage, TypeOK, Inside, Everything, BornInOrder, JoinedExited,
       Workers
<1>6. JoinedExited'
  BY DEF JoinedExited, TypeOK, Workers, BornInOrder
<1>7. RingCoherent' /\ LockOwned' /\ RunsRealTasks'
  BY DEF RingCoherent, LockOwned, RunsRealTasks, Wrap, Workers
<1>8. QED  BY ONLY <1>1, <1>2, <1>3, <1>4, <1>5, <1>6, <1>7 DEF IInv

\* InitCond preserves the invariant.
LEMMA InitCondInv ==
  ASSUME IInv, InitCond
  PROVE  IInv'
<1> USE PoolAssumption DEF IInv, InitCond, fields, callers, CreateFails
<1>1. TypeOK'
  BY DEF TypeOK, Workers, Everything, CreatorAt, WorkerAt, DestroyerAt,
       Results
<1>2. IndicesInRing'
  BY DEF IndicesInRing, TypeOK
<1>3. BornInOrder'
  BY DEF BornInOrder, TypeOK, CreatorAt, Workers
<1>4. CountingIsExclusive'
  BY DEF CountingIsExclusive, TypeOK, BornInOrder, Workers, LiveByStage
<1>5. LiveByStage'
  BY DEF LiveByStage, TypeOK, Inside, Everything, BornInOrder, JoinedExited,
       Workers
<1>6. JoinedExited'
  BY DEF JoinedExited, TypeOK, Workers, BornInOrder
<1>7. RingCoherent' /\ LockOwned' /\ RunsRealTasks'
  BY DEF RingCoherent, LockOwned, RunsRealTasks, Wrap, Workers
<1>8. QED  BY ONLY <1>1, <1>2, <1>3, <1>4, <1>5, <1>6, <1>7 DEF IInv

-----------------------------------------------------------------------------
(* threadpool_create, the loop that creates the threads and its failure path.*)

\* Spawn preserves the invariant.
LEMMA SpawnInv ==
  ASSUME IInv, Spawn
  PROVE  IInv'
<1> USE PoolAssumption DEF IInv, Spawn, fields, callers
<1>1. TypeOK'
  BY DEF TypeOK, Workers, Everything, CreatorAt, WorkerAt, DestroyerAt,
       Results
<1>2. IndicesInRing'
  BY DEF IndicesInRing, TypeOK
<1>3. BornInOrder'
  BY DEF BornInOrder, TypeOK, CreatorAt, Workers
<1>4. CountingIsExclusive'
  BY DEF CountingIsExclusive, TypeOK, BornInOrder, Workers
<1>5. LiveByStage'
  BY DEF LiveByStage, TypeOK, Inside, Everything, BornInOrder, JoinedExited,
       Workers
<1>6. LockOwned'
  BY DEF LockOwned, TypeOK, Workers, BornInOrder
<1>7. JoinedExited'
  BY DEF JoinedExited, TypeOK, Workers, BornInOrder
<1>8. RunsRealTasks'
  BY DEF RunsRealTasks, TypeOK, RingCoherent, IndicesInRing, Wrap
<1>9. RingCoherent'
  BY DEF RingCoherent, Wrap
<1>10. QED  BY ONLY <1>1, <1>2, <1>3, <1>4, <1>5, <1>6, <1>7, <1>8, <1>9
          DEF IInv

\* CountThread preserves the invariant.
LEMMA CountThreadInv ==
  ASSUME IInv, CountThread
  PROVE  IInv'
<1> USE PoolAssumption DEF IInv, CountThread, ring, callers
<1>1. TypeOK'
  BY DEF TypeOK, Workers, Everything, CreatorAt, WorkerAt, DestroyerAt,
       Results, BornInOrder
<1>2. IndicesInRing'
  BY DEF IndicesInRing, TypeOK
<1>3. BornInOrder'
  BY DEF BornInOrder, TypeOK, CreatorAt, Workers
<1>4. CountingIsExclusive'
  BY DEF CountingIsExclusive, TypeOK, BornInOrder, Workers
<1>5. LiveByStage'
  BY DEF LiveByStage, TypeOK, Inside, Everything, BornInOrder, JoinedExited,
       Workers
<1>6. JoinedExited'
  BY DEF JoinedExited, TypeOK, Workers, BornInOrder
<1>7. RingCoherent' /\ LockOwned' /\ RunsRealTasks'
  BY DEF RingCoherent, LockOwned, RunsRealTasks, Wrap, Workers
<1>8. QED  BY ONLY <1>1, <1>2, <1>3, <1>4, <1>5, <1>6, <1>7 DEF IInv

\* CreateReturns preserves the invariant.
LEMMA CreateReturnsInv ==
  ASSUME IInv, CreateReturns
  PROVE  IInv'
<1> USE PoolAssumption DEF IInv, CreateReturns, fields, callers
<1>1. TypeOK'
  BY DEF TypeOK, Workers, Everything, CreatorAt, WorkerAt, DestroyerAt,
       Results
<1>2. IndicesInRing'
  BY DEF IndicesInRing, TypeOK
<1>3. BornInOrder'
  BY DEF BornInOrder, TypeOK, CreatorAt, Workers
<1>4. CountingIsExclusive'
  BY DEF CountingIsExclusive, TypeOK, BornInOrder, Workers
<1>5. LiveByStage'
  BY DEF LiveByStage, TypeOK, Inside, Everything, BornInOrder, JoinedExited,
       Workers
<1>6. JoinedExited'
  BY DEF JoinedExited, TypeOK, Workers, BornInOrder
<1>7. RingCoherent' /\ LockOwned' /\ RunsRealTasks'
  BY DEF RingCoherent, LockOwned, RunsRealTasks, Wrap, Workers
<1>8. QED  BY ONLY <1>1, <1>2, <1>3, <1>4, <1>5, <1>6, <1>7 DEF IInv

\* SpawnFails preserves the invariant.
LEMMA SpawnFailsInv ==
  ASSUME IInv, SpawnFails
  PROVE  IInv'
<1> USE PoolAssumption DEF IInv, SpawnFails, fields, callers
<1>1. TypeOK'
  BY DEF TypeOK, Workers, Everything, CreatorAt, WorkerAt, DestroyerAt,
       Results
<1>2. IndicesInRing'
  BY DEF IndicesInRing, TypeOK
<1>3. BornInOrder'
  BY DEF BornInOrder, TypeOK, CreatorAt, Workers
<1>4. CountingIsExclusive'
  BY DEF CountingIsExclusive, TypeOK, BornInOrder, Workers
<1>5. LiveByStage'
  BY DEF LiveByStage, TypeOK, Inside, Everything, BornInOrder, JoinedExited,
       Workers
<1>6. JoinedExited'
  BY DEF JoinedExited, TypeOK, Workers, BornInOrder
<1>7. RingCoherent' /\ LockOwned' /\ RunsRealTasks'
  BY DEF RingCoherent, LockOwned, RunsRealTasks, Wrap, Workers
<1>8. QED  BY ONLY <1>1, <1>2, <1>3, <1>4, <1>5, <1>6, <1>7 DEF IInv

\* AbortFlag preserves the invariant.
LEMMA AbortFlagInv ==
  ASSUME IInv, AbortFlag
  PROVE  IInv'
<1> USE PoolAssumption DEF IInv, AbortFlag, ring, callers, IMMEDIATE_SHUTDOWN
<1>1. TypeOK'
  BY DEF TypeOK, Workers, Everything, CreatorAt, WorkerAt, DestroyerAt,
       Results
<1>2. IndicesInRing'
  BY DEF IndicesInRing, TypeOK
<1>3. BornInOrder'
  BY DEF BornInOrder, TypeOK, CreatorAt, Workers
<1>4. CountingIsExclusive'
  BY DEF CountingIsExclusive, TypeOK, BornInOrder, Workers
<1>5. LiveByStage'
  BY DEF LiveByStage, TypeOK, Inside, Everything, BornInOrder, JoinedExited,
       Workers
<1>6. JoinedExited'
  BY DEF JoinedExited, TypeOK, Workers, BornInOrder
<1>7. RingCoherent' /\ LockOwned' /\ RunsRealTasks'
  BY DEF RingCoherent, LockOwned, RunsRealTasks, Wrap, Workers
<1>8. QED  BY ONLY <1>1, <1>2, <1>3, <1>4, <1>5, <1>6, <1>7 DEF IInv

\* AbortWake preserves the invariant.
LEMMA AbortWakeInv ==
  ASSUME IInv, AbortWake
  PROVE  IInv'
<1> USE PoolAssumption DEF IInv, AbortWake, fields, callers, Broadcast
<1>1. TypeOK'
  BY DEF TypeOK, Workers, Everything, CreatorAt, WorkerAt, DestroyerAt,
       Results
<1>2. IndicesInRing'
  BY DEF IndicesInRing, TypeOK
<1>3. BornInOrder'
  BY DEF BornInOrder, TypeOK, CreatorAt, Workers
<1>4. CountingIsExclusive'
  BY DEF CountingIsExclusive, TypeOK, BornInOrder, Workers
<1>5. LiveByStage'
  BY DEF LiveByStage, TypeOK, Inside, Everything, BornInOrder, JoinedExited,
       Workers
<1>6. LockOwned'
  BY DEF LockOwned, TypeOK, Workers
<1>7. JoinedExited'
  BY DEF JoinedExited, TypeOK, Workers, BornInOrder
<1>8. RunsRealTasks'
  BY DEF RunsRealTasks, TypeOK, RingCoherent, IndicesInRing, Wrap
<1>9. RingCoherent'
  BY DEF RingCoherent, Wrap
<1>10. QED  BY ONLY <1>1, <1>2, <1>3, <1>4, <1>5, <1>6, <1>7, <1>8, <1>9
          DEF IInv

\* AbortJoin preserves the invariant.
LEMMA AbortJoinInv ==
  ASSUME IInv, AbortJoin
  PROVE  IInv'
<1> USE PoolAssumption DEF IInv, AbortJoin, fields, callers, Joinable
<1>1. TypeOK'
  BY DEF TypeOK, Workers, Everything, CreatorAt, WorkerAt, DestroyerAt,
       Results
<1>2. JoinedExited'
  BY DEF JoinedExited, TypeOK, Workers, BornInOrder
<1>3. /\ RingCoherent' /\ IndicesInRing' /\ BornInOrder'
      /\ CountingIsExclusive' /\ LiveByStage' /\ LockOwned'
      /\ RunsRealTasks'
  BY DEF RingCoherent, IndicesInRing, BornInOrder, CountingIsExclusive,
       LiveByStage, LockOwned, RunsRealTasks, Wrap, Inside, Workers
<1>4. QED  BY ONLY <1>1, <1>2, <1>3 DEF IInv

\* AbortFree preserves the invariant.
LEMMA AbortFreeInv ==
  ASSUME IInv, AbortFree
  PROVE  IInv'
<1> USE PoolAssumption DEF IInv, AbortFree, fields, callers, CreateFails
<1>1. TypeOK'
  BY DEF TypeOK, Workers, Everything, CreatorAt, WorkerAt, DestroyerAt,
       Results
<1>2. IndicesInRing'
  BY DEF IndicesInRing, TypeOK
<1>3. BornInOrder'
  BY DEF BornInOrder, TypeOK, CreatorAt, Workers
<1>4. CountingIsExclusive'
  BY DEF CountingIsExclusive, TypeOK, BornInOrder, Workers
<1>5. LiveByStage'
  BY DEF LiveByStage, TypeOK, Inside, Everything, BornInOrder, JoinedExited,
       Workers
<1>6. JoinedExited'
  BY DEF JoinedExited, TypeOK, Workers, BornInOrder
<1>7. RingCoherent' /\ LockOwned' /\ RunsRealTasks'
  BY DEF RingCoherent, LockOwned, RunsRealTasks, Wrap, Workers
<1>8. QED  BY ONLY <1>1, <1>2, <1>3, <1>4, <1>5, <1>6, <1>7 DEF IInv

-----------------------------------------------------------------------------
(* threadpool_worker.                                                      *)

\* WorkerLock preserves the invariant.
LEMMA WorkerLockInv ==
  ASSUME IInv, NEW w \in Workers, WorkerLock(w)
  PROVE  IInv'
<1> USE PoolAssumption DEF IInv, WorkerLock, creation, fields, callers
<1>1. TypeOK'
  BY DEF TypeOK, Workers, Everything, CreatorAt, WorkerAt, DestroyerAt,
       Results
<1>2. BornInOrder'
  BY DEF BornInOrder, TypeOK, CreatorAt, Workers
<1>3. CountingIsExclusive'
  BY DEF CountingIsExclusive, TypeOK, BornInOrder, Workers
<1>4. LiveByStage'
  BY DEF LiveByStage, TypeOK, Inside, Everything, BornInOrder, JoinedExited,
       Workers
<1>5. LockOwned'
  BY DEF LockOwned, TypeOK, Workers
<1>6. JoinedExited'
  BY DEF JoinedExited, TypeOK, Workers, BornInOrder
<1>7. RunsRealTasks'
  BY DEF RunsRealTasks, TypeOK, RingCoherent, IndicesInRing, Wrap
<1>8. RingCoherent' /\ IndicesInRing'
  BY DEF RingCoherent, IndicesInRing, Wrap
<1>9. QED  BY ONLY <1>1, <1>2, <1>3, <1>4, <1>5, <1>6, <1>7, <1>8 DEF IInv

\* WorkerFindsNothing preserves the invariant.
LEMMA WorkerFindsNothingInv ==
  ASSUME IInv, NEW w \in Workers, WorkerFindsNothing(w)
  PROVE  IInv'
<1> USE PoolAssumption DEF IInv, WorkerFindsNothing, creation, fields, callers
<1>1. TypeOK'
  BY DEF TypeOK, Workers, Everything, CreatorAt, WorkerAt, DestroyerAt,
       Results
<1>2. BornInOrder'
  BY DEF BornInOrder, TypeOK, CreatorAt, Workers
<1>3. CountingIsExclusive'
  BY DEF CountingIsExclusive, TypeOK, BornInOrder, Workers
<1>4. LiveByStage'
  BY DEF LiveByStage, TypeOK, Inside, Everything, BornInOrder, JoinedExited,
       Workers
<1>5. LockOwned'
  BY DEF LockOwned, TypeOK, Workers
<1>6. JoinedExited'
  BY DEF JoinedExited, TypeOK, Workers, BornInOrder
<1>7. RunsRealTasks'
  BY DEF RunsRealTasks, TypeOK, RingCoherent, IndicesInRing, Wrap
<1>8. RingCoherent' /\ IndicesInRing'
  BY DEF RingCoherent, IndicesInRing, Wrap
<1>9. QED  BY ONLY <1>1, <1>2, <1>3, <1>4, <1>5, <1>6, <1>7, <1>8 DEF IInv

\* WorkerSleep preserves the invariant.
LEMMA WorkerSleepInv ==
  ASSUME IInv, NEW w \in Workers, WorkerSleep(w)
  PROVE  IInv'
<1> USE PoolAssumption DEF IInv, WorkerSleep, creation, fields, callers
<1>1. TypeOK'
  BY DEF TypeOK, Workers, Everything, CreatorAt, WorkerAt, DestroyerAt,
       Results
<1>2. BornInOrder'
  BY DEF BornInOrder, TypeOK, CreatorAt, Workers
<1>3. CountingIsExclusive'
  BY DEF CountingIsExclusive, TypeOK, BornInOrder, Workers
<1>4. LiveByStage'
  BY DEF LiveByStage, TypeOK, Inside, Everything, BornInOrder, JoinedExited,
       Workers
<1>5. LockOwned'
  BY DEF LockOwned, TypeOK, Workers
<1>6. JoinedExited'
  BY DEF JoinedExited, TypeOK, Workers, BornInOrder
<1>7. RunsRealTasks'
  BY DEF RunsRealTasks, TypeOK, RingCoherent, IndicesInRing, Wrap
<1>8. RingCoherent' /\ IndicesInRing'
  BY DEF RingCoherent, IndicesInRing, Wrap
<1>9. QED  BY ONLY <1>1, <1>2, <1>3, <1>4, <1>5, <1>6, <1>7, <1>8 DEF IInv

\* SpuriousWake preserves the invariant.
LEMMA SpuriousWakeInv ==
  ASSUME IInv, NEW w \in Workers, SpuriousWake(w)
  PROVE  IInv'
<1> USE PoolAssumption DEF IInv, SpuriousWake, creation, fields, callers
<1>1. TypeOK'
  BY DEF TypeOK, Workers, Everything, CreatorAt, WorkerAt, DestroyerAt,
       Results
<1>2. BornInOrder'
  BY DEF BornInOrder, TypeOK, CreatorAt, Workers
<1>3. CountingIsExclusive'
  BY DEF CountingIsExclusive, TypeOK, BornInOrder, Workers
<1>4. LiveByStage'
  BY DEF LiveByStage, TypeOK, Inside, Everything, BornInOrder, JoinedExited,
       Workers
<1>5. LockOwned'
  BY DEF LockOwned, TypeOK, Workers
<1>6. JoinedExited'
  BY DEF JoinedExited, TypeOK, Workers, BornInOrder
<1>7. RunsRealTasks'
  BY DEF RunsRealTasks, TypeOK, RingCoherent, IndicesInRing, Wrap
<1>8. RingCoherent' /\ IndicesInRing'
  BY DEF RingCoherent, IndicesInRing, Wrap
<1>9. QED  BY ONLY <1>1, <1>2, <1>3, <1>4, <1>5, <1>6, <1>7, <1>8 DEF IInv

\* WorkerExit preserves the invariant.
LEMMA WorkerExitInv ==
  ASSUME IInv, NEW w \in Workers, WorkerExit(w)
  PROVE  IInv'
<1> USE PoolAssumption DEF IInv, WorkerExit, creation, ring, callers,
       MayExit, Leave, GRACEFUL_SHUTDOWN, IMMEDIATE_SHUTDOWN
<1>1. TypeOK'
  BY DEF TypeOK, Workers, Everything, CreatorAt, WorkerAt, DestroyerAt,
       Results
<1>2. BornInOrder'
  BY DEF BornInOrder, TypeOK, CreatorAt, Workers
<1>3. CountingIsExclusive'
  BY DEF CountingIsExclusive, TypeOK, BornInOrder, Workers
<1>4. LiveByStage'
  BY DEF LiveByStage, TypeOK, Inside, Everything, BornInOrder, JoinedExited,
       Workers
<1>5. LockOwned'
  BY DEF LockOwned, TypeOK, Workers
<1>6. JoinedExited'
  BY DEF JoinedExited, TypeOK, Workers, BornInOrder
<1>7. RunsRealTasks'
  BY DEF RunsRealTasks, TypeOK, RingCoherent, IndicesInRing, Wrap
<1>8. RingCoherent' /\ IndicesInRing'
  BY DEF RingCoherent, IndicesInRing, Wrap
<1>9. QED  BY ONLY <1>1, <1>2, <1>3, <1>4, <1>5, <1>6, <1>7, <1>8 DEF IInv

\* WorkerTake preserves the invariant.
LEMMA WorkerTakeInv ==
  ASSUME IInv, NEW w \in Workers, WorkerTake(w)
  PROVE  IInv'
<1> USE PoolAssumption DEF IInv, WorkerTake, creation, callers, TakenSlot
<1>1. /\ queue_size > 0
      /\ head' \in 0..queue_size-1
      /\ count' \in 0..queue_size-1
      /\ queue[head] \in Tasks
      /\ RingCoherent'
  BY TakeInRing
<1>2. TypeOK'
  BY <1>1 DEF TypeOK, Workers, Everything, CreatorAt, WorkerAt, DestroyerAt,
       Results
<1>3. IndicesInRing'
  BY SMTT(20), <1>1 DEF IndicesInRing, TypeOK
<1>4. BornInOrder'
  BY DEF BornInOrder, TypeOK, CreatorAt, Workers
<1>5. CountingIsExclusive'
  BY DEF CountingIsExclusive, TypeOK, BornInOrder, Workers
<1>6. LiveByStage'
  BY DEF LiveByStage, TypeOK, Inside, Everything, BornInOrder, JoinedExited,
       Workers
<1>7. LockOwned'
  BY DEF LockOwned, TypeOK, Workers
<1>8. JoinedExited'
  BY DEF JoinedExited, TypeOK, Workers, BornInOrder
<1>9. RunsRealTasks'
  BY <1>1 DEF RunsRealTasks, TypeOK, RingCoherent, IndicesInRing, Wrap
<1>10. QED  BY ONLY <1>1, <1>2, <1>3, <1>4, <1>5, <1>6, <1>7, <1>8, <1>9
          DEF IInv

\* WorkerFinish preserves the invariant.
LEMMA WorkerFinishInv ==
  ASSUME IInv, NEW w \in Workers, WorkerFinish(w)
  PROVE  IInv'
<1> USE PoolAssumption DEF IInv, WorkerFinish, creation, fields, callers
<1>1. TypeOK'
  BY DEF TypeOK, Workers, Everything, CreatorAt, WorkerAt, DestroyerAt,
       Results, RunsRealTasks
<1>2. BornInOrder'
  BY DEF BornInOrder, TypeOK, CreatorAt, Workers
<1>3. CountingIsExclusive'
  BY DEF CountingIsExclusive, TypeOK, BornInOrder, Workers
<1>4. LiveByStage'
  BY DEF LiveByStage, TypeOK, Inside, Everything, BornInOrder, JoinedExited,
       Workers
<1>5. LockOwned'
  BY DEF LockOwned, TypeOK, Workers
<1>6. JoinedExited'
  BY DEF JoinedExited, TypeOK, Workers, BornInOrder
<1>7. RunsRealTasks'
  BY DEF RunsRealTasks, TypeOK, RingCoherent, IndicesInRing, Wrap
<1>8. RingCoherent' /\ IndicesInRing'
  BY DEF RingCoherent, IndicesInRing, Wrap
<1>9. QED  BY ONLY <1>1, <1>2, <1>3, <1>4, <1>5, <1>6, <1>7, <1>8 DEF IInv

-----------------------------------------------------------------------------
(* threadpool_add.                                                         *)

\* AddFull preserves the invariant.
LEMMA AddFullInv ==
  ASSUME IInv, NEW t \in Tasks, AddFull(t)
  PROVE  IInv'
<1> USE PoolAssumption DEF IInv, AddFull, creation, fields, Returns
<1>1. TypeOK'
  BY DEF TypeOK, Workers, Everything, CreatorAt, WorkerAt, DestroyerAt,
       Results
<1>2. /\ RingCoherent' /\ IndicesInRing' /\ BornInOrder'
      /\ CountingIsExclusive' /\ LiveByStage' /\ LockOwned'
      /\ JoinedExited' /\ RunsRealTasks'
  BY DEF RingCoherent, IndicesInRing, BornInOrder, CountingIsExclusive,
       LiveByStage, LockOwned, JoinedExited, RunsRealTasks, Wrap, Inside,
       Workers
<1>3. QED  BY ONLY <1>1, <1>2 DEF IInv

\* AddShutdown preserves the invariant.
LEMMA AddShutdownInv ==
  ASSUME IInv, NEW t \in Tasks, AddShutdown(t)
  PROVE  IInv'
<1> USE PoolAssumption DEF IInv, AddShutdown, creation, fields, Returns
<1>1. TypeOK'
  BY DEF TypeOK, Workers, Everything, CreatorAt, WorkerAt, DestroyerAt,
       Results
<1>2. /\ RingCoherent' /\ IndicesInRing' /\ BornInOrder'
      /\ CountingIsExclusive' /\ LiveByStage' /\ LockOwned'
      /\ JoinedExited' /\ RunsRealTasks'
  BY DEF RingCoherent, IndicesInRing, BornInOrder, CountingIsExclusive,
       LiveByStage, LockOwned, JoinedExited, RunsRealTasks, Wrap, Inside,
       Workers
<1>3. QED  BY ONLY <1>1, <1>2 DEF IInv

\* AddTask preserves the invariant.
LEMMA AddTaskInv ==
  ASSUME IInv, NEW t \in Tasks, AddTask(t)
  PROVE  IInv'
<1> USE PoolAssumption DEF IInv, AddTask, creation, Adding, Usable, Returns
<1>1. /\ queue_size > 0
      /\ tail' \in 0..queue_size-1
      /\ count' \in 1..queue_size
      /\ queue' \in [0..queue_size-1 -> Tasks \cup {NoTask}]
      /\ RingCoherent'
  BY EnqueueInRing DEF RingCoherent, IndicesInRing
<1>2. /\ worker' \in [Workers -> WorkerAt]
      /\ \A w \in Workers :
           worker'[w] # worker[w] => worker[w] = "asleep" /\ worker'[w] = "lock"
  BY SignalWakes
<1>3. TypeOK'
  BY <1>1, <1>2 DEF TypeOK, Workers, Everything, CreatorAt, WorkerAt,
       DestroyerAt, Results
<1>4. IndicesInRing'
  BY SMTT(20), <1>1, <1>2 DEF IndicesInRing, TypeOK
<1>5. BornInOrder'
  BY <1>1, <1>2 DEF BornInOrder, TypeOK, CreatorAt, Workers
<1>6. CountingIsExclusive'
  BY <1>1, <1>2 DEF CountingIsExclusive, TypeOK, BornInOrder, Workers
<1>7. LiveByStage'
  BY <1>1, <1>2 DEF LiveByStage, TypeOK, Inside, Everything, BornInOrder,
       JoinedExited, Workers
<1>8. LockOwned'
  BY <1>1, <1>2 DEF LockOwned, TypeOK, Workers
<1>9. JoinedExited'
  BY <1>1, <1>2 DEF JoinedExited, TypeOK, Workers, BornInOrder
<1>10. RunsRealTasks'
  BY <1>1, <1>2 DEF RunsRealTasks, TypeOK, RingCoherent, IndicesInRing, Wrap
<1>11. QED  BY ONLY <1>1, <1>2, <1>3, <1>4, <1>5, <1>6, <1>7, <1>8, <1>9, <1>10
          DEF IInv

\* AddSignalFails preserves the invariant.
LEMMA AddSignalFailsInv ==
  ASSUME IInv, NEW t \in Tasks, AddSignalFails(t)
  PROVE  IInv'
<1> USE PoolAssumption DEF IInv, AddSignalFails, creation,
       Adding, Usable, Returns
<1>1. /\ queue_size > 0
      /\ tail' \in 0..queue_size-1
      /\ count' \in 1..queue_size
      /\ queue' \in [0..queue_size-1 -> Tasks \cup {NoTask}]
      /\ RingCoherent'
  BY EnqueueInRing DEF RingCoherent, IndicesInRing
<1>2. TypeOK'
  BY <1>1 DEF TypeOK, Workers, Everything, CreatorAt, WorkerAt, DestroyerAt,
       Results
<1>3. IndicesInRing'
  BY SMTT(20), <1>1 DEF IndicesInRing, TypeOK
<1>4. /\ BornInOrder' /\ CountingIsExclusive' /\ LiveByStage'
      /\ LockOwned' /\ JoinedExited' /\ RunsRealTasks'
  BY DEF BornInOrder, CountingIsExclusive, LiveByStage, LockOwned,
       JoinedExited, RunsRealTasks, Inside, Workers
<1>5. QED  BY ONLY <1>1, <1>2, <1>3, <1>4 DEF IInv

\* AddLockFails preserves the invariant.
LEMMA AddLockFailsInv ==
  ASSUME IInv, NEW t \in Tasks, AddLockFails(t)
  PROVE  IInv'
<1> USE PoolAssumption DEF IInv, AddLockFails, creation, fields, Returns
<1>1. TypeOK'
  BY DEF TypeOK, Workers, Everything, CreatorAt, WorkerAt, DestroyerAt,
       Results
<1>2. /\ RingCoherent' /\ IndicesInRing' /\ BornInOrder'
      /\ CountingIsExclusive' /\ LiveByStage' /\ LockOwned'
      /\ JoinedExited' /\ RunsRealTasks'
  BY DEF RingCoherent, IndicesInRing, BornInOrder, CountingIsExclusive,
       LiveByStage, LockOwned, JoinedExited, RunsRealTasks, Wrap, Inside,
       Workers
<1>3. QED  BY ONLY <1>1, <1>2 DEF IInv

\* AddUnlockFails preserves the invariant.
LEMMA AddUnlockFailsInv ==
  ASSUME IInv, NEW t \in Tasks, AddUnlockFails(t)
  PROVE  IInv'
<1> USE PoolAssumption DEF IInv, AddUnlockFails, creation,
       Adding, Usable, Returns
<1>1. /\ creator = "created" /\ queue_size > 0
      /\ tail' \in 0..queue_size-1
      /\ count' \in 0..queue_size
      /\ queue' \in [0..queue_size-1 -> Tasks \cup {NoTask}]
      /\ RingCoherent'
  <2>1. CASE Enqueue(t)
    BY <2>1, EnqueueInRing DEF IndicesInRing
  <2>2. CASE UNCHANGED <<queue, tail, count>>
    BY <2>2 DEF TypeOK, RingCoherent, IndicesInRing, Wrap
  <2>3. QED  BY <2>1, <2>2
<1>2. /\ worker' \in [Workers -> WorkerAt]
      /\ \A w \in Workers :
           worker'[w] # worker[w] => worker[w] = "asleep" /\ worker'[w] = "lock"
  <2>1. CASE Signal  BY <2>1, SignalWakes
  <2>2. CASE UNCHANGED worker  BY <2>2 DEF TypeOK
  <2>3. QED  BY <2>1, <2>2
<1>3. TypeOK'
  <2>1. /\ queue_size' \in 0..MAX_QUEUE
        /\ head' \in 0..MAX_QUEUE-1 /\ tail' \in 0..MAX_QUEUE-1
        /\ count' \in 0..MAX_QUEUE
        /\ queue' \in [0..queue_size'-1 -> Tasks \cup {NoTask}]
    BY <1>1 DEF TypeOK
  <2>2. result' \in [Tasks -> Results] /\ lock' \in Tasks
    BY DEF TypeOK, Results
  <2>3. QED  BY ONLY IInv, AddUnlockFails(t), <1>2, <2>1, <2>2
             DEF IInv, AddUnlockFails, creation, TypeOK
<1>4. IndicesInRing'
  BY <1>1, <1>2 DEF IndicesInRing, TypeOK
<1>5. BornInOrder'
  BY <1>1, <1>2 DEF BornInOrder, TypeOK, CreatorAt, Workers
<1>6. CountingIsExclusive'
  BY <1>1, <1>2 DEF CountingIsExclusive, TypeOK, BornInOrder, Workers
<1>7. LiveByStage'
  BY <1>1, <1>2 DEF LiveByStage, TypeOK, Inside, Everything, BornInOrder,
       JoinedExited, Workers
<1>8. LockOwned'
  BY <1>1, <1>2 DEF LockOwned, TypeOK, Workers
<1>9. JoinedExited'
  BY <1>1, <1>2 DEF JoinedExited, TypeOK, Workers, BornInOrder
<1>10. RunsRealTasks'
  BY <1>1, <1>2 DEF RunsRealTasks, TypeOK, RingCoherent, IndicesInRing, Wrap
<1>11. QED  BY ONLY <1>1, <1>2, <1>3, <1>4, <1>5, <1>6, <1>7, <1>8, <1>9, <1>10
          DEF IInv

-----------------------------------------------------------------------------
(* threadpool_destroy and threadpool_free.                                 *)

\* DestroyBegin preserves the invariant.
LEMMA DestroyBeginInv ==
  ASSUME IInv, NEW d \in Destroyers, NEW graceful \in BOOLEAN,
         DestroyBegin(d, graceful)
  PROVE  IInv'
<1> USE PoolAssumption DEF IInv, DestroyBegin, creation, ring,
       Destroying, Usable, StillOpen, Broadcast, GRACEFUL_SHUTDOWN,
       IMMEDIATE_SHUTDOWN
<1>1. TypeOK'
  BY DEF TypeOK, Workers, Everything, CreatorAt, WorkerAt, DestroyerAt,
       Results
<1>2. BornInOrder'
  BY DEF BornInOrder, TypeOK, CreatorAt, Workers
<1>3. CountingIsExclusive'
  BY DEF CountingIsExclusive, TypeOK, BornInOrder, Workers
<1>4. LiveByStage'
  BY DEF LiveByStage, TypeOK, Inside, Everything, BornInOrder, JoinedExited,
       Workers
<1>5. LockOwned'
  BY DEF LockOwned, TypeOK, Workers
<1>6. JoinedExited'
  BY DEF JoinedExited, TypeOK, Workers, BornInOrder
<1>7. RunsRealTasks'
  BY DEF RunsRealTasks, TypeOK, RingCoherent, IndicesInRing, Wrap
<1>8. RingCoherent' /\ IndicesInRing'
  BY DEF RingCoherent, IndicesInRing, Wrap
<1>9. QED  BY ONLY <1>1, <1>2, <1>3, <1>4, <1>5, <1>6, <1>7, <1>8 DEF IInv

\* DestroyAgain preserves the invariant.
LEMMA DestroyAgainInv ==
  ASSUME IInv, NEW d \in Destroyers, DestroyAgain(d)
  PROVE  IInv'
<1> USE PoolAssumption DEF IInv, DestroyAgain, creation, fields,
       Destroying, Usable
<1>1. TypeOK'
  BY DEF TypeOK, Workers, Everything, CreatorAt, WorkerAt, DestroyerAt,
       Results
<1>2. LockOwned'
  BY DEF LockOwned, TypeOK, Workers
<1>3. JoinedExited'
  BY DEF JoinedExited, TypeOK, Workers, BornInOrder
<1>4. /\ RingCoherent' /\ IndicesInRing' /\ BornInOrder'
      /\ CountingIsExclusive' /\ LiveByStage' /\ RunsRealTasks'
  BY DEF RingCoherent, IndicesInRing, BornInOrder, CountingIsExclusive,
       LiveByStage, RunsRealTasks, Wrap, Inside, Workers
<1>5. QED  BY ONLY <1>1, <1>2, <1>3, <1>4 DEF IInv

\* DestroyBroadcastFails preserves the invariant.
LEMMA DestroyBroadcastFailsInv ==
  ASSUME IInv, NEW d \in Destroyers, NEW graceful \in BOOLEAN,
         DestroyBroadcastFails(d, graceful)
  PROVE  IInv'
<1> USE PoolAssumption DEF IInv, DestroyBroadcastFails, creation, ring,
       Destroying, Usable, StillOpen, GRACEFUL_SHUTDOWN,
       IMMEDIATE_SHUTDOWN
<1>1. /\ worker' \in [Workers -> WorkerAt]
      /\ \A w \in Workers :
           worker'[w] # worker[w] => worker[w] = "asleep" /\ worker'[w] = "lock"
  <2>1. CASE Broadcast  BY <2>1, BroadcastWakes
  <2>2. CASE UNCHANGED worker  BY <2>2 DEF TypeOK
  <2>3. QED  BY <2>1, <2>2
<1>2. TypeOK'
  BY <1>1 DEF TypeOK, Workers, Everything, CreatorAt, WorkerAt, DestroyerAt,
       Results
<1>3. BornInOrder'
  BY <1>1 DEF BornInOrder, TypeOK, CreatorAt, Workers
<1>4. CountingIsExclusive'
  BY <1>1 DEF CountingIsExclusive, TypeOK, BornInOrder, Workers
<1>5. LiveByStage'
  BY <1>1 DEF LiveByStage, TypeOK, Inside, Everything, BornInOrder, JoinedExited,
       Workers
<1>6. LockOwned'
  BY <1>1 DEF LockOwned, TypeOK, Workers
<1>7. JoinedExited'
  BY <1>1 DEF JoinedExited, TypeOK, Workers, BornInOrder
<1>8. RunsRealTasks'
  BY <1>1 DEF RunsRealTasks, TypeOK, RingCoherent, IndicesInRing, Wrap
<1>9. RingCoherent' /\ IndicesInRing'
  BY <1>1 DEF RingCoherent, IndicesInRing, Wrap
<1>10. QED  BY ONLY <1>1, <1>2, <1>3, <1>4, <1>5, <1>6, <1>7, <1>8, <1>9 DEF IInv

\* DestroyLockFails preserves the invariant.
LEMMA DestroyLockFailsInv ==
  ASSUME IInv, NEW d \in Destroyers, DestroyLockFails(d)
  PROVE  IInv'
<1> USE PoolAssumption DEF IInv, DestroyLockFails, creation, fields, Usable
<1>1. TypeOK'
  BY DEF TypeOK, Workers, Everything, CreatorAt, WorkerAt, DestroyerAt,
       Results
<1>2. JoinedExited'
  BY DEF JoinedExited, TypeOK, Workers, BornInOrder
<1>3. /\ RingCoherent' /\ IndicesInRing' /\ BornInOrder'
      /\ CountingIsExclusive' /\ LiveByStage' /\ LockOwned'
      /\ RunsRealTasks'
  BY DEF RingCoherent, IndicesInRing, BornInOrder, CountingIsExclusive,
       LiveByStage, LockOwned, RunsRealTasks, Wrap, Inside, Workers
<1>4. QED  BY ONLY <1>1, <1>2, <1>3 DEF IInv

\* DestroyJoin preserves the invariant.
LEMMA DestroyJoinInv ==
  ASSUME IInv, NEW d \in Destroyers, DestroyJoin(d)
  PROVE  IInv'
<1> USE PoolAssumption DEF IInv, DestroyJoin, creation, fields, Joinable
<1>1. TypeOK'
  BY SMTT(20) DEF TypeOK, Workers, Everything, CreatorAt, WorkerAt, DestroyerAt,
       Results
<1>2. JoinedExited'
  BY DEF JoinedExited, TypeOK, Workers, BornInOrder
<1>3. /\ RingCoherent' /\ IndicesInRing' /\ BornInOrder'
      /\ CountingIsExclusive' /\ LiveByStage' /\ LockOwned'
      /\ RunsRealTasks'
  BY DEF RingCoherent, IndicesInRing, BornInOrder, CountingIsExclusive,
       LiveByStage, LockOwned, RunsRealTasks, Wrap, Inside, Workers
<1>4. QED  BY ONLY <1>1, <1>2, <1>3 DEF IInv

\* DestroyReturns preserves the invariant.
LEMMA DestroyReturnsInv ==
  ASSUME IInv, NEW d \in Destroyers, DestroyReturns(d)
  PROVE  IInv'
<1> USE PoolAssumption DEF IInv, DestroyReturns, creation, fields,
       threadpool_free
<1>1. TypeOK'
  BY DEF TypeOK, Workers, Everything, CreatorAt, WorkerAt, DestroyerAt,
       Results
<1>2. LiveByStage'
  BY DEF LiveByStage, TypeOK, Inside, Everything, BornInOrder, JoinedExited,
       Workers
<1>3. JoinedExited'
  BY DEF JoinedExited, TypeOK, Workers, BornInOrder
<1>4. /\ RingCoherent' /\ IndicesInRing' /\ BornInOrder'
      /\ CountingIsExclusive' /\ LockOwned' /\ RunsRealTasks'
  BY DEF RingCoherent, IndicesInRing, BornInOrder, CountingIsExclusive,
       LockOwned, RunsRealTasks, Wrap, Workers
<1>5. QED  BY ONLY <1>1, <1>2, <1>3, <1>4 DEF IInv

\* DestroyReturnsError preserves the invariant.
LEMMA DestroyReturnsErrorInv ==
  ASSUME IInv, NEW d \in Destroyers, DestroyReturnsError(d)
  PROVE  IInv'
<1> USE PoolAssumption DEF IInv, DestroyReturnsError, creation, fields
<1>1. TypeOK'
  BY DEF TypeOK, Workers, Everything, CreatorAt, WorkerAt, DestroyerAt,
       Results
<1>2. JoinedExited'
  BY DEF JoinedExited, TypeOK, Workers, BornInOrder
<1>3. /\ RingCoherent' /\ IndicesInRing' /\ BornInOrder'
      /\ CountingIsExclusive' /\ LiveByStage' /\ LockOwned'
      /\ RunsRealTasks'
  BY DEF RingCoherent, IndicesInRing, BornInOrder, CountingIsExclusive,
       LiveByStage, LockOwned, RunsRealTasks, Wrap, Inside, Workers
<1>4. QED  BY ONLY <1>1, <1>2, <1>3 DEF IInv

-----------------------------------------------------------------------------
(* All steps, and the theorems.                                            *)

\* A step that changes no variable of the pool preserves the invariant.
LEMMA StutterInv ==
  ASSUME IInv, UNCHANGED vars
  PROVE  IInv'
BY DEF vars, creation, fields, callers, IInv, TypeOK, RingCoherent, IndicesInRing,
       BornInOrder, CountingIsExclusive, LiveByStage, LockOwned, JoinedExited,
       RunsRealTasks, Inside, Wrap

\* Every step of the pool preserves the invariant.
LEMMA StepInv ==
  ASSUME IInv, [Next]_vars
  PROVE  IInv'
<1>1. CASE Create
  BY <1>1, CreateRejectsInv, CreateAcceptsInv, AllocArraysInv, InitMutexInv,
     InitCondInv, SpawnInv, CountThreadInv, CreateReturnsInv, SpawnFailsInv,
     AbortFlagInv, AbortWakeInv, AbortJoinInv, AbortFreeInv DEF Create
<1>2. CASE \E w \in Workers : WorkerStep(w) \/ SpuriousWake(w)
  BY <1>2, WorkerLockInv, WorkerFindsNothingInv, WorkerSleepInv, SpuriousWakeInv,
     WorkerExitInv, WorkerTakeInv, WorkerFinishInv DEF WorkerStep
<1>3. CASE \E t \in Tasks : Add(t)
  BY <1>3, AddFullInv, AddShutdownInv, AddTaskInv, AddSignalFailsInv,
     AddLockFailsInv, AddUnlockFailsInv DEF Add
<1>4. CASE \E d \in Destroyers : Destroy(d)
  BY <1>4, DestroyBeginInv, DestroyAgainInv, DestroyBroadcastFailsInv,
     DestroyLockFailsInv, DestroyJoinInv, DestroyReturnsInv,
     DestroyReturnsErrorInv DEF Destroy, DestroyGoesOn
<1>5. CASE UNCHANGED vars
  BY <1>5, StutterInv
<1>6. QED  BY <1>1, <1>2, <1>3, <1>4, <1>5 DEF Next

\* The inductive invariant holds in every reachable state of every pool.
THEOREM PoolInvariant == Spec => []IInv
<1>1. Init => IInv  BY InitInv
<1>2. IInv /\ [Next]_vars => IInv'  BY StepInv
<1>3. QED  BY <1>1, <1>2, PTL DEF Spec

\* The pool's fields, counters and program counters stay within their types.
THEOREM PoolTypes == Spec => []TypeOK
<1>1. IInv => TypeOK  BY DEF IInv
<1>2. QED  BY <1>1, PoolInvariant, PTL

\* The ring's head, tail and count agree and no queued slot is uninitialised,
\* however many threads add and take tasks.
THEOREM RingStaysCoherent == Spec => []RingCoherent
<1>1. IInv => RingCoherent  BY DEF IInv
<1>2. QED  BY <1>1, PoolInvariant, PTL

\* No worker is ever inside its loop when the pool, its arrays, its mutex or its
\* condition variable are gone, whichever call failed and whoever shut down.
THEOREM NeverUsedAfterFree == Spec => []NoUseAfterFree
<1>1. IInv => NoUseAfterFree
  <2> SUFFICES ASSUME IInv, NEW w \in Workers, worker[w] \notin {"unborn", "exited"}
               PROVE  live = Everything
    BY DEF NoUseAfterFree
  <2>1. w \in Inside
    BY DEF Inside
  <2>2. creator \notin {"start", "arrays", "mutex", "cond"}
    BY DEF IInv, LiveByStage, BornInOrder, Workers
  <2>3. QED
    BY <2>1, <2>2 DEF IInv, LiveByStage, TypeOK, CreatorAt
<1>2. QED  BY <1>1, PoolInvariant, PTL

\* threadpool_create that returns NULL has freed everything it allocated.
THEOREM NullNeverLeaks == Spec => []NullLeaksNothing
<1>1. IInv => NullLeaksNothing  BY DEF IInv, NullLeaksNothing, LiveByStage
<1>2. QED  BY <1>1, PoolInvariant, PTL

\* A shutdown once announced stays as it is.
LEMMA ShutdownStep ==
  ASSUME IInv, [Next]_vars, shutdown # 0
  PROVE  shutdown' = shutdown
<1> USE DEF fields, creation
<1>1. CASE Create
  BY <1>1 DEF Create, CreateRejects, CreateAccepts, AllocArrays, InitMutex,
     InitCond, Spawn, CountThread, CreateReturns, SpawnFails, AbortFlag,
     AbortWake, AbortJoin, AbortFree, IInv, CountingIsExclusive
<1>2. CASE \E w \in Workers : WorkerStep(w) \/ SpuriousWake(w)
  BY <1>2 DEF WorkerStep, SpuriousWake, WorkerLock, WorkerFindsNothing,
     WorkerSleep, WorkerExit, WorkerTake, WorkerFinish
<1>3. CASE \E t \in Tasks : Add(t)
  BY <1>3 DEF Add, AddFull, AddShutdown, AddTask, AddSignalFails, AddLockFails,
     AddUnlockFails
<1>4. CASE \E d \in Destroyers : Destroy(d)
  BY <1>4 DEF Destroy, DestroyGoesOn, DestroyBegin, DestroyAgain, StillOpen,
     DestroyBroadcastFails, DestroyLockFails, DestroyJoin, DestroyReturns,
     DestroyReturnsError
<1>5. CASE UNCHANGED vars
  BY <1>5 DEF vars
<1>6. QED  BY <1>1, <1>2, <1>3, <1>4, <1>5 DEF Next

\* The kind of shutdown, once announced, is never changed by anyone.
THEOREM ShutdownStaysFinal == Spec => ShutdownIsFinal
<1>1. IInv /\ [Next]_vars => (shutdown # 0 => shutdown' = shutdown)
  BY ShutdownStep
<1>2. QED  BY <1>1, PoolInvariant, PTL DEF Spec, ShutdownIsFinal

-----------------------------------------------------------------------------
(* The counter of running threads.                                         *)

\* The counted threads are finitely many.
LEMMA CountedFinite ==
  ASSUME TypeOK
  PROVE  Counted \subseteq Workers /\ IsFiniteSet(Counted)
<1>1. IsFiniteSet(Workers)  BY PoolAssumption, FS_Interval DEF Workers
<1>2. QED  BY <1>1, FS_Subset DEF Counted

\* Only CountThread and WorkerExit move the counters or end a thread.
LEMMA CountersElsewhere ==
  ASSUME IInv, [Next]_vars, ~ CountThread, \A w \in Workers : ~ WorkerExit(w)
  PROVE  /\ thread_count' = thread_count /\ started' = started
         /\ \A w \in Workers : worker'[w] = "exited" <=> worker[w] = "exited"
<1> USE DEF fields, creation
<1>1. CASE Create
  BY <1>1 DEF Create, CreateRejects, CreateAccepts, AllocArrays, InitMutex,
     InitCond, Spawn, CreateReturns, SpawnFails, AbortFlag,
     AbortWake, AbortJoin, AbortFree, Broadcast, ring, IInv, TypeOK, BornInOrder,
     Workers
<1>2. CASE \E w \in Workers : WorkerStep(w) \/ SpuriousWake(w)
  BY <1>2 DEF WorkerStep, SpuriousWake, WorkerLock, WorkerFindsNothing,
     WorkerSleep, WorkerTake, WorkerFinish, IInv, TypeOK
<1>3. CASE \E t \in Tasks : Add(t)
  <2>1. (worker' = worker \/ Signal) /\ UNCHANGED <<thread_count, started>>
    BY <1>3 DEF Add, AddFull, AddShutdown, AddTask, AddSignalFails, AddLockFails,
       AddUnlockFails
  <2>2. QED  BY <2>1, SignalWakes DEF IInv
<1>4. CASE \E d \in Destroyers : Destroy(d)
  <2>1. (worker' = worker \/ Broadcast) /\ UNCHANGED <<thread_count, started>>
    BY <1>4 DEF Destroy, DestroyGoesOn, DestroyBegin, DestroyAgain,
       DestroyBroadcastFails, DestroyLockFails, DestroyJoin, DestroyReturns,
       DestroyReturnsError
  <2>2. QED  BY <2>1, BroadcastWakes DEF IInv
<1>5. CASE UNCHANGED vars  BY <1>5 DEF vars
<1>6. QED  BY <1>1, <1>2, <1>3, <1>4, <1>5 DEF Next

\* A thread that leaves its loop is one that threadpool_create has counted.
LEMMA LeavingIsCounted ==
  ASSUME IInv, NEW w \in Workers, WorkerExit(w)
  PROVE  w \in Counted
<1>1. shutdown # 0  BY DEF WorkerExit, MayExit, GRACEFUL_SHUTDOWN,
  IMMEDIATE_SHUTDOWN
<1>2. creator # "count"  BY <1>1 DEF IInv, CountingIsExclusive
<1>3. w < i  BY <1>2 DEF IInv, TypeOK, BornInOrder, WorkerExit, Workers
<1>4. QED  BY <1>3 DEF IInv, BornInOrder, Counted, WorkerExit

\* The creator's unlocked increment and the workers' locked decrement keep
\* started at the number of counted threads that have not left.
LEMMA StartedCountsStep ==
  ASSUME IInv, StartedCounts, [Next]_vars
  PROVE  StartedCounts'
<1>0. Counted \subseteq Workers /\ IsFiniteSet(Counted) /\ TypeOK
  BY CountedFinite DEF IInv
<1>1. CASE CountThread
  <2>1. i \in Workers /\ i \notin Counted /\ thread_count = i /\ worker[i] # "exited"
    BY <1>1, PoolAssumption
       DEF IInv, TypeOK, BornInOrder, CountingIsExclusive, CountThread, Workers, Counted
  <2>2. Counted' = Counted \cup {i}
    BY <2>1, <1>1 DEF Counted, CountThread, Workers, IInv, TypeOK
  <2>3. Cardinality(Counted') = Cardinality(Counted) + 1
    BY <2>1, <2>2, <1>0, FS_AddElement
  <2>4. QED  BY <2>3, <1>1 DEF StartedCounts, CountThread
<1>2. CASE \E w \in Workers : WorkerExit(w)
  <2>1. PICK w \in Workers : WorkerExit(w)  BY <1>2
  <2>2. w \in Counted  BY <2>1, LeavingIsCounted
  <2>3. Counted' = Counted \ {w}
    BY <2>1, <1>0 DEF Counted, WorkerExit, TypeOK, creation
  <2>4. Cardinality(Counted') = Cardinality(Counted) - 1
    BY <2>2, <2>3, <1>0, FS_RemoveElement
  <2>5. QED  BY <2>4, <2>1 DEF StartedCounts, WorkerExit, Leave
<1>3. CASE ~ CountThread /\ \A w \in Workers : ~ WorkerExit(w)
  <2>1. Counted' = Counted /\ started' = started
    BY <1>3, CountersElsewhere DEF Counted
  <2>2. QED  BY <2>1 DEF StartedCounts
<1>4. QED  BY <1>1, <1>2, <1>3

-----------------------------------------------------------------------------
(* The tasks in the ring.                                                  *)

\* The ring a caller of threadpool_add or a worker finds.
LEMMA RingBounds ==
  ASSUME IInv, queue_size > 0
  PROVE  /\ queue_size \in 1..MAX_QUEUE
         /\ head \in 0..queue_size-1
         /\ tail \in 0..queue_size-1
         /\ count \in 0..queue_size
         /\ \A p \in 0..count-1 : Wrap(head + p) \in 0..queue_size-1 /\ Slot(p) \in Tasks
<1>1. /\ queue_size \in 1..MAX_QUEUE
      /\ head \in 0..queue_size-1
      /\ tail \in 0..queue_size-1
      /\ count \in 0..queue_size
  BY PoolAssumption DEF IInv, TypeOK, RingCoherent, IndicesInRing
<1>2. \A p \in 0..count-1 : Wrap(head + p) \in 0..queue_size-1
  BY <1>1 DEF Wrap
<1>3. \A p \in 0..count-1 : Slot(p) \in Tasks
  BY DEF IInv, RingCoherent, Slot
<1>4. QED  BY <1>1, <1>2, <1>3

\* threadpool_add leaves the queued tasks where they are and puts its own
\* behind them.
LEMMA EnqueueSlots ==
  ASSUME IInv, NEW t \in Tasks, Adding(t), Enqueue(t), UNCHANGED <<queue_size, head>>
  PROVE  /\ count' = count + 1 /\ count \in Nat
         /\ \A p \in 0..count : Slot(p)' = IF p = count THEN t ELSE Slot(p)
<1>1. /\ queue_size \in 1..MAX_QUEUE
      /\ head \in 0..queue_size-1
      /\ tail \in 0..queue_size-1
      /\ count \in 0..queue_size-1
  BY RingBounds DEF IInv, RingCoherent, IndicesInRing, QueueFull, Adding, Usable,
    Enqueue
<1>2. tail = Wrap(head + count)
  BY <1>1 DEF IInv, RingCoherent
<1>3. \A p \in 0..count : Wrap(head + p)' = Wrap(head + p)
  BY DEF Wrap
<1>4. \A p \in 0..count-1 : Wrap(head + p) # tail
  BY <1>1, <1>2 DEF Wrap
<1>5. \A p \in 0..count : Wrap(head + p) \in 0..queue_size-1
  BY <1>1 DEF Wrap
<1>6. \A s \in 0..queue_size-1 : queue'[s] = IF s = tail THEN t ELSE queue[s]
  BY <1>1 DEF Enqueue, IInv, TypeOK
<1>7. \A p \in 0..count : Slot(p)' = IF p = count THEN t ELSE Slot(p)
  BY <1>1, <1>2, <1>3, <1>4, <1>5, <1>6 DEF Slot
<1>8. QED  BY <1>1, <1>7 DEF Enqueue

\* A worker takes the task in front, and the others move up one place.
LEMMA TakeSlots ==
  ASSUME IInv, NEW w \in Workers, WorkerTake(w)
  PROVE  /\ count \in Nat \ {0} /\ count' = count - 1
         /\ task' = [task EXCEPT ![w] = Slot(0)]
         /\ Slot(0) \in Tasks
         /\ \A p \in 0..count'-1 : Slot(p)' = Slot(p + 1)
<1>1. /\ queue_size \in 1..MAX_QUEUE
      /\ head \in 0..queue_size-1
      /\ count \in 1..queue_size
  BY RingBounds DEF IInv, TypeOK, RingCoherent, IndicesInRing, WorkerTake
<1>2. head' = IF head + 1 = queue_size THEN 0 ELSE head + 1
  BY <1>1, NextInRing DEF NextSlot, WorkerTake
<1>3. \A p \in 0..count'-1 : Wrap(head + p)' = Wrap(head + (p + 1))
  BY <1>1, <1>2 DEF Wrap, WorkerTake
<1>4. \A p \in 0..count'-1 : Slot(p)' = Slot(p + 1)
  BY <1>3 DEF Slot, WorkerTake
<1>5. Wrap(head + 0) = head
  BY <1>1 DEF Wrap
<1>6. queue[TakenSlot] = Slot(0)
  BY <1>5 DEF Slot, TakenSlot
<1>7. task' = [task EXCEPT ![w] = Slot(0)]
  BY <1>6 DEF WorkerTake
<1>8. Slot(0) \in Tasks
  <2>1. 0 \in 0..count-1 /\ queue_size > 0  BY <1>1, PoolAssumption
  <2>2. QED  BY <2>1, RingBounds
<1>9. count \in Nat \ {0} /\ count' = count - 1
  BY PoolAssumption, <1>1 DEF WorkerTake
<1>10. QED  BY <1>4, <1>7, <1>8, <1>9

\* A call of threadpool_add stores task t.
StoresTask(t) ==
  /\ Adding(t) /\ Enqueue(t)
  /\ UNCHANGED <<queue_size, head, task, finished, shutdown>>
  /\ \/ Returns(t, "ok")
     \/ SyncFaults /\ Returns(t, "lock_failure")
  /\ \A w \in Workers : worker'[w] = "run" <=> worker[w] = "run"

\* Every task stays where it is, and no call reports success.
MovesNoTask ==
  /\ UNCHANGED <<count, task, finished>>
  /\ \A p \in 0..count-1 : Slot(p)' = Slot(p)
  /\ \A w \in Workers : worker'[w] = "run" <=> worker[w] = "run"
  /\ \A t \in Tasks : result'[t] # result[t] =>
       /\ result[t] = "none"
       /\ \/ result'[t] \in {"queue_full", "shutdown"}
          \/ SyncFaults /\ result'[t] = "lock_failure"

\* What a step does to the tasks.
StepOfTasks ==
  \/ \E t \in Tasks : StoresTask(t)
  \/ \E w \in Workers : WorkerTake(w) \/ WorkerFinish(w)
  \/ MovesNoTask

\* Threads that are woken or created, or that leave, run no task before or after.
LEMMA SameRunning ==
  ASSUME task' = task, \A w \in Workers : worker'[w] = "run" <=> worker[w] = "run"
  PROVE  Running' = Running
BY DEF Running

\* Every step of the pool is of one of these kinds.
LEMMA TasksStep ==
  ASSUME IInv, [Next]_vars
  PROVE  StepOfTasks
<1> DEFINE Apart == /\ UNCHANGED <<count, task, finished, result>>
                    /\ \A p \in 0..count-1 : Slot(p)' = Slot(p)
                    /\ \A w \in Workers : worker'[w] = "run" <=> worker[w] = "run"
<1>0. ASSUME Apart PROVE StepOfTasks
  BY <1>0 DEF StepOfTasks, MovesNoTask
<1>1. CASE Create
  <2>1. UNCHANGED <<count, task, finished, result>>
    BY <1>1 DEF Create, CreateRejects, CreateAccepts, AllocArrays, InitMutex,
       InitCond, Spawn, CountThread, CreateReturns, SpawnFails, AbortFlag,
       AbortWake, AbortJoin, AbortFree, ring, fields, callers
  <2>2. \A w \in Workers : worker'[w] = "run" <=> worker[w] = "run"
    BY <1>1 DEF Create, CreateRejects, CreateAccepts, AllocArrays, InitMutex,
       InitCond, Spawn, CountThread, CreateReturns, SpawnFails, AbortFlag,
       AbortWake, AbortJoin, AbortFree, Broadcast, IInv, TypeOK, BornInOrder, Workers
  <2>3. \A p \in 0..count-1 : Slot(p)' = Slot(p)
    <3>1. CASE creator = "start"
      BY <3>1 DEF IInv, IndicesInRing
    <3>2. CASE creator # "start"
      <4>1. UNCHANGED <<queue_size, head, queue>>
        BY <1>1, <3>2 DEF Create, CreateRejects, CreateAccepts, AllocArrays,
          InitMutex,
           InitCond, Spawn, CountThread, CreateReturns, SpawnFails, AbortFlag,
           AbortWake, AbortJoin, AbortFree, ring, fields
      <4>2. QED  BY <4>1 DEF Slot, Wrap
    <3>3. QED  BY <3>1, <3>2
  <2>4. QED  BY <2>1, <2>2, <2>3, <1>0
<1>2. CASE \E w \in Workers : WorkerStep(w) \/ SpuriousWake(w)
  <2>1. CASE \E w \in Workers : WorkerTake(w) \/ WorkerFinish(w)
    BY <2>1 DEF StepOfTasks
  <2>2. PICK w \in Workers : \/ WorkerLock(w) \/ WorkerFindsNothing(w) \/ WorkerSleep(w)
                             \/ WorkerExit(w) \/ WorkerTake(w) \/ WorkerFinish(w)
                             \/ SpuriousWake(w)
    BY <1>2 DEF WorkerStep
  <2>3. CASE \/ WorkerLock(w) \/ WorkerFindsNothing(w) \/ WorkerSleep(w)
             \/ WorkerExit(w) \/ SpuriousWake(w)
    <3>1. UNCHANGED <<queue_size, head, queue, count, task, finished, result>>
      BY <2>3 DEF WorkerLock, WorkerFindsNothing, WorkerSleep, WorkerExit,
         SpuriousWake, ring, fields, callers
    <3>2. \A x \in Workers : worker'[x] = "run" <=> worker[x] = "run"
      BY <2>3 DEF WorkerLock, WorkerFindsNothing, WorkerSleep, WorkerExit,
         SpuriousWake, IInv, TypeOK
    <3>3. \A p \in 0..count-1 : Slot(p)' = Slot(p)
      BY <3>1 DEF Slot, Wrap
    <3>4. QED  BY <3>1, <3>2, <3>3, <1>0
  <2>4. QED  BY <2>1, <2>2, <2>3
<1>3. CASE \E t \in Tasks : Add(t)
  <2>1. PICK t \in Tasks : Add(t)  BY <1>3
  <2>2. \A w \in Workers : worker'[w] = "run" <=> worker[w] = "run"
    <3>1. worker' = worker \/ Signal
      BY <2>1 DEF Add, AddFull, AddShutdown, AddTask, AddSignalFails, AddLockFails,
         AddUnlockFails, fields
    <3>2. QED  BY <3>1, SignalWakes DEF IInv
  <2>3. UNCHANGED <<queue_size, head, task, finished, shutdown>>
    BY <2>1 DEF Add, AddFull, AddShutdown, AddTask, AddSignalFails, AddLockFails,
       AddUnlockFails, fields
  <2>4. CASE AddTask(t)
    <3>1. StoresTask(t)
      BY <2>4, <2>2, <2>3 DEF StoresTask, AddTask
    <3>2. QED  BY <3>1 DEF StepOfTasks
  <2>5. CASE AddSignalFails(t)
    <3>1. StoresTask(t)
      BY <2>5, <2>2, <2>3 DEF StoresTask, AddSignalFails
    <3>2. QED  BY <3>1 DEF StepOfTasks
  <2>6. CASE AddUnlockFails(t) /\ Enqueue(t)
    <3>1. StoresTask(t)
      BY <2>6, <2>2, <2>3 DEF StoresTask, AddUnlockFails
    <3>2. QED  BY <3>1 DEF StepOfTasks
  <2>7. CASE \/ AddFull(t) \/ AddShutdown(t) \/ AddLockFails(t)
             \/ AddUnlockFails(t) /\ ~ Enqueue(t)
    <3>1. UNCHANGED <<queue, count>>
      BY <2>7 DEF AddFull, AddShutdown, AddLockFails, AddUnlockFails, fields
    <3>2. \A p \in 0..count-1 : Slot(p)' = Slot(p)
      BY <3>1, <2>3 DEF Slot, Wrap
    <3>3. /\ result[t] = "none"
          /\ \/ Returns(t, "queue_full") \/ Returns(t, "shutdown")
             \/ SyncFaults /\ Returns(t, "lock_failure")
      BY <2>7 DEF AddFull, AddShutdown, AddLockFails, AddUnlockFails, Adding
    <3>4. \A x \in Tasks : result'[x] # result[x] =>
            /\ result[x] = "none"
            /\ \/ result'[x] \in {"queue_full", "shutdown"}
               \/ SyncFaults /\ result'[x] = "lock_failure"
      BY <3>3 DEF Returns, IInv, TypeOK
    <3>5. QED  BY <3>1, <3>2, <3>4, <2>2, <2>3 DEF StepOfTasks, MovesNoTask
  <2>8. QED  BY <2>1, <2>4, <2>5, <2>6, <2>7 DEF Add
<1>4. CASE \E d \in Destroyers : Destroy(d)
  <2>1. /\ worker' = worker \/ Broadcast
        /\ UNCHANGED <<queue_size, head, queue, count, task, finished, result>>
    BY <1>4 DEF Destroy, DestroyGoesOn, DestroyBegin, DestroyAgain,
       DestroyBroadcastFails, DestroyLockFails, DestroyJoin, DestroyReturns,
       DestroyReturnsError, fields, ring
  <2>2. \A w \in Workers : worker'[w] = "run" <=> worker[w] = "run"
    BY <2>1, BroadcastWakes DEF IInv
  <2>3. \A p \in 0..count-1 : Slot(p)' = Slot(p)
    BY <2>1 DEF Slot, Wrap
  <2>4. QED  BY <2>1, <2>2, <2>3, <1>0
<1>5. CASE UNCHANGED vars
  <2>1. Apart  BY <1>5 DEF vars, fields, callers, Slot, Wrap
  <2>2. QED  BY <2>1, <1>0
<1>6. QED  BY <1>1, <1>2, <1>3, <1>4, <1>5 DEF Next

-----------------------------------------------------------------------------
(* The invariant that a shutdown rests on.                                 *)

\* The memory of a pool that its creator has returned is only ever freed.
LEMMA LiveWhenCreated ==
  ASSUME IInv, [Next]_vars, creator = "created"
  PROVE  creator' = "created" /\ (live' = live \/ live' = {})
<1> USE DEF fields, creation
<1>1. CASE Create
  BY <1>1 DEF Create, CreateRejects, CreateAccepts, AllocArrays, InitMutex,
     InitCond, Spawn, CountThread, CreateReturns, SpawnFails, AbortFlag,
     AbortWake, AbortJoin, AbortFree
<1>2. CASE \E w \in Workers : WorkerStep(w) \/ SpuriousWake(w)
  BY <1>2 DEF WorkerStep, SpuriousWake, WorkerLock, WorkerFindsNothing,
     WorkerSleep, WorkerExit, WorkerTake, WorkerFinish
<1>3. CASE \E t \in Tasks : Add(t)
  BY <1>3 DEF Add, AddFull, AddShutdown, AddTask, AddSignalFails, AddLockFails,
     AddUnlockFails
<1>4. CASE \E d \in Destroyers : Destroy(d)
  BY <1>4 DEF Destroy, DestroyGoesOn, DestroyBegin, DestroyAgain, StillOpen,
     DestroyBroadcastFails, DestroyLockFails, DestroyJoin, DestroyReturns,
     DestroyReturnsError, threadpool_free
<1>5. CASE UNCHANGED vars
  BY <1>5 DEF vars
<1>6. QED  BY <1>1, <1>2, <1>3, <1>4, <1>5 DEF Next

\* A pool that is handed out has all its threads, and at least one.
LEMMA CreatedInFullStep ==
  ASSUME IInv, CreatedInFull, [Next]_vars
  PROVE  CreatedInFull'
<1> USE DEF CreatedInFull, fields, creation
<1>1. CASE Create
  BY <1>1 DEF Create, CreateRejects, CreateAccepts, AllocArrays, InitMutex,
     InitCond, Spawn, CountThread, CreateReturns, SpawnFails, AbortFlag,
     AbortWake, AbortJoin, AbortFree, CreateFails
<1>2. CASE UNCHANGED creation
  BY <1>2
<1>3. CASE \E w \in Workers : WorkerStep(w) \/ SpuriousWake(w)
  BY <1>3, <1>2 DEF WorkerStep, SpuriousWake, WorkerLock, WorkerFindsNothing,
     WorkerSleep, WorkerExit, WorkerTake, WorkerFinish
<1>4. CASE \E t \in Tasks : Add(t)
  BY <1>4, <1>2 DEF Add, AddFull, AddShutdown, AddTask, AddSignalFails,
    AddLockFails,
     AddUnlockFails
<1>5. CASE \E d \in Destroyers : Destroy(d)
  BY <1>5, <1>2 DEF Destroy, DestroyGoesOn, DestroyBegin, DestroyAgain,
     DestroyBroadcastFails, DestroyLockFails, DestroyJoin, DestroyReturns,
     DestroyReturnsError
<1>6. CASE UNCHANGED vars  BY <1>6, <1>2 DEF vars
<1>7. QED  BY <1>1, <1>3, <1>4, <1>5, <1>6 DEF Next

\* Only a shutdown lets threads leave, and after one nothing is queued any more.
LEMMA LeftEmptyStep ==
  ASSUME IInv, LeftEmpty, [Next]_vars
  PROVE  LeftEmpty'
<1> SUFFICES ASSUME NEW x \in Workers, worker'[x] = "exited"
             PROVE  /\ shutdown' # 0
                    /\ shutdown' = GRACEFUL_SHUTDOWN => count' = 0
  BY DEF LeftEmpty
<1>1. CASE worker[x] # "exited"
  <2>1. PICK w \in Workers : WorkerExit(w)
    BY <1>1, CountersElsewhere DEF CountThread
  <2>2. QED
    BY <2>1 DEF WorkerExit, MayExit, ring, GRACEFUL_SHUTDOWN, IMMEDIATE_SHUTDOWN
<1>2. CASE worker[x] = "exited"
  <2>1. /\ shutdown # 0
        /\ shutdown = GRACEFUL_SHUTDOWN => count = 0
    BY <1>2 DEF LeftEmpty
  <2>2. shutdown' = shutdown
    BY <2>1, ShutdownStep
  <2>3. CASE count' = count
    BY <2>1, <2>2, <2>3
  <2>4. CASE \E t \in Tasks : StoresTask(t)
    BY <2>4, <2>1 DEF StoresTask, Enqueue
  <2>5. CASE \E w \in Workers : WorkerTake(w)
    BY <2>5, <2>1, <2>2 DEF WorkerTake
  <2>6. CASE \E w \in Workers : WorkerFinish(w)
    BY <2>6, <2>1, <2>2 DEF WorkerFinish, fields
  <2>7. QED  BY <2>3, <2>4, <2>5, <2>6, TasksStep DEF StepOfTasks, MovesNoTask
<1>3. QED  BY <1>1, <1>2

\* No step loses an accepted task on its way from the ring to its execution.
LEMMA NoneLostStep ==
  ASSUME IInv, NoneLost, [Next]_vars
  PROVE  NoneLost'
<1> SUFFICES ASSUME NEW x \in Tasks, result'[x] = "ok"
             PROVE  x \in Waiting' \cup Running' \cup finished'
  BY DEF NoneLost
<1>1. CASE \E t \in Tasks : StoresTask(t)
  <2>1. PICK t \in Tasks :
             /\ Adding(t) /\ Enqueue(t)
             /\ UNCHANGED <<queue_size, head, finished>>
             /\ Returns(t, "ok") \/ Returns(t, "lock_failure")
             /\ Running' = Running
    BY <1>1, SameRunning DEF StoresTask
  <2>2. /\ count' = count + 1 /\ count \in Nat
        /\ \A p \in 0..count : Slot(p)' = IF p = count THEN t ELSE Slot(p)
    BY <2>1, EnqueueSlots
  <2>3. Waiting' = Waiting \cup {t}
    BY <2>2 DEF Waiting
  <2>4. x = t \/ result[x] = "ok"
    BY <2>1 DEF Returns, IInv, TypeOK
  <2>5. QED  BY <2>1, <2>3, <2>4 DEF NoneLost
<1>2. CASE \E w \in Workers : WorkerTake(w)
  <2>1. PICK w \in Workers : WorkerTake(w)  BY <1>2
  <2>2. /\ count \in Nat \ {0} /\ count' = count - 1
        /\ task' = [task EXCEPT ![w] = Slot(0)]
        /\ \A p \in 0..count'-1 : Slot(p)' = Slot(p + 1)
    BY <2>1, TakeSlots
  <2>3. Waiting \subseteq Waiting' \cup {Slot(0)}
    <3> SUFFICES ASSUME NEW p \in 0..count-1, p # 0
                 PROVE  Slot(p) \in Waiting'
      BY DEF Waiting
    <3>1. p - 1 \in 0..count'-1 /\ (p - 1) + 1 = p  BY <2>2
    <3>2. Slot(p - 1)' = Slot(p)  BY <3>1, <2>2
    <3>3. QED  BY <3>1, <3>2 DEF Waiting
  <2>4. Running' = Running \cup {Slot(0)}
    BY <2>1, <2>2 DEF Running, WorkerTake, IInv, TypeOK
  <2>5. QED  BY <2>1, <2>3, <2>4 DEF NoneLost, WorkerTake, callers
<1>3. CASE \E w \in Workers : WorkerFinish(w)
  <2>1. PICK w \in Workers : WorkerFinish(w)  BY <1>3
  <2>2. Waiting' = Waiting
    BY <2>1 DEF Waiting, Slot, Wrap, WorkerFinish, fields
  <2>3. Running \subseteq Running' \cup {task[w]}
    BY <2>1 DEF Running, WorkerFinish, IInv, TypeOK
  <2>4. QED  BY <2>1, <2>2, <2>3 DEF NoneLost, WorkerFinish, callers
<1>4. CASE MovesNoTask
  <2>1. Waiting' = Waiting  BY <1>4 DEF Waiting, MovesNoTask
  <2>2. result[x] = "ok"  BY <1>4 DEF MovesNoTask
  <2>3. Running' = Running /\ finished' = finished  BY <1>4, SameRunning
    DEF MovesNoTask
  <2>4. QED  BY <2>1, <2>2, <2>3 DEF NoneLost
<1>5. QED  BY <1>1, <1>2, <1>3, <1>4, TasksStep DEF StepOfTasks

\* The last thread has left when threadpool_destroy frees the pool, so started
\* is zero and threadpool_free does not give up.
LEMMA DestroyFreesStep ==
  ASSUME IInv, StartedCounts, DestroyFrees, [Next]_vars
  PROVE  DestroyFrees'
<1> SUFFICES ASSUME NEW x \in Destroyers, destroyer'[x] = "returned"
             PROVE  live' = {}
  BY DEF DestroyFrees
<1>1. CASE \E d \in Destroyers : DestroyReturns(d)
  <2>1. PICK d \in Destroyers : DestroyReturns(d)  BY <1>1
  <2>2. Counted = {}
    BY <2>1 DEF DestroyReturns, Counted, IInv, JoinedExited
  <2>3. started = 0
    BY <2>2, FS_EmptySet DEF StartedCounts
  <2>4. QED  BY <2>1, <2>3 DEF DestroyReturns, threadpool_free
<1>2. CASE ~ \E d \in Destroyers : DestroyReturns(d)
  <2>1. destroyer[x] = "returned"
    <3>1. CASE UNCHANGED destroyer  BY <3>1
    <3>2. CASE \E d \in Destroyers : Destroy(d)
      BY <3>2, <1>2 DEF Destroy, DestroyGoesOn, DestroyBegin, DestroyAgain,
         DestroyBroadcastFails, DestroyLockFails, DestroyJoin,
         DestroyReturnsError, IInv, TypeOK
    <3>3. CASE Create
      BY <3>3, <3>1 DEF Create, CreateRejects, CreateAccepts, AllocArrays,
        InitMutex,
         InitCond, Spawn, CountThread, CreateReturns, SpawnFails, AbortFlag,
         AbortWake, AbortJoin, AbortFree, callers
    <3>4. CASE \E w \in Workers : WorkerStep(w) \/ SpuriousWake(w)
      BY <3>4, <3>1 DEF WorkerStep, SpuriousWake, WorkerLock, WorkerFindsNothing,
         WorkerSleep, WorkerExit, WorkerTake, WorkerFinish, callers
    <3>5. CASE \E t \in Tasks : Add(t)
      BY <3>5, <3>1 DEF Add, AddFull, AddShutdown, AddTask, AddSignalFails,
        AddLockFails,
         AddUnlockFails
    <3>6. CASE UNCHANGED vars  BY <3>6, <3>1 DEF vars, callers
    <3>7. QED  BY <3>2, <3>3, <3>4, <3>5, <3>6 DEF Next
  <2>2. live = {} /\ creator = "created"
    BY <2>1 DEF DestroyFrees, IInv, JoinedExited
  <2>3. QED  BY <2>2, LiveWhenCreated
<1>3. QED  BY <1>1, <1>2

\* Before threadpool_create is called there is nothing to account for.
LEMMA ShutdownInit ==
  ASSUME Init
  PROVE  ShutdownInv
<1>1. IInv  BY InitInv
<1>2. Counted = {}
  BY PoolAssumption DEF Init, Counted, Workers
<1>3. StartedCounts
  BY <1>2, FS_EmptySet DEF StartedCounts, Init
<1>4. CreatedInFull /\ LeftEmpty /\ NoneLost /\ DestroyFrees
  BY DEF Init, CreatedInFull, LeftEmpty, NoneLost, DestroyFrees
<1>5. QED  BY <1>1, <1>3, <1>4 DEF ShutdownInv

\* The invariant of the shutdown holds in every reachable state.
THEOREM ShutdownInvariant == Spec => []ShutdownInv
<1>1. Init => ShutdownInv  BY ShutdownInit
<1>2. ShutdownInv /\ [Next]_vars => ShutdownInv'
  BY StepInv, StartedCountsStep, CreatedInFullStep, LeftEmptyStep, NoneLostStep,
     DestroyFreesStep DEF ShutdownInv
<1>3. QED  BY <1>1, <1>2, PTL DEF Spec

\* threadpool_destroy that returns 0 has freed the pool, whatever threads were
\* created and however their exits interleaved: threadpool_free never finds
\* `started` above zero.
THEOREM DestroyAlwaysFrees == Spec => []DestroyFrees
<1>1. ShutdownInv => DestroyFrees  BY DEF ShutdownInv
<1>2. QED  BY <1>1, ShutdownInvariant, PTL

\* When a graceful threadpool_destroy has returned 0, every task whose
\* submission was reported as accepted has been executed to its end.
THEOREM GracefulAlwaysDrains == Spec => []GracefulDrains
<1>1. ShutdownInv => GracefulDrains
  <2> SUFFICES ASSUME ShutdownInv, NEW d \in Destroyers, destroyer[d] = "returned",
                      shutdown = GRACEFUL_SHUTDOWN, NEW t \in Tasks, result[t] = "ok"
               PROVE  t \in finished
    BY DEF GracefulDrains
  <2>1. live = {} /\ creator = "created" /\ IInv
    BY DEF ShutdownInv, DestroyFrees, IInv, JoinedExited
  <2>2. Inside = {}
    BY <2>1 DEF IInv, LiveByStage
  <2>3. i > 0 /\ i <= MAX_THREADS /\ i \in Nat
    BY <2>1, PoolAssumption DEF ShutdownInv, CreatedInFull, IInv, TypeOK
  <2>4. 0 \in Workers /\ worker[0] = "exited"
    BY <2>1, <2>2, <2>3, PoolAssumption DEF Workers, Inside, IInv, BornInOrder
  <2>5. count = 0
    BY <2>4 DEF ShutdownInv, LeftEmpty
  <2>6. Waiting = {} /\ Running = {}
    BY <2>5, <2>2 DEF Waiting, Running, Inside
  <2>7. QED  BY <2>6 DEF ShutdownInv, NoneLost
<1>2. QED  BY <1>1, ShutdownInvariant, PTL

-----------------------------------------------------------------------------
(* Each task is in one place.                                              *)

\* What is queued, in execution or executed are tasks.
LEMMA LocatedTasks ==
  ASSUME IInv
  PROVE  Waiting \cup Running \cup finished \subseteq Tasks
<1>1. Waiting \subseteq Tasks  BY DEF Waiting, Slot, IInv, RingCoherent
<1>2. Running \subseteq Tasks  BY DEF Running, IInv, RunsRealTasks
<1>3. QED  BY <1>1, <1>2 DEF IInv, TypeOK

\* Storing, taking and finishing a task moves it to one place from one place.
LEMMA InOnePlaceStep ==
  ASSUME IInv, InOnePlace, [Next]_vars
  PROVE  InOnePlace'
<1>0. /\ \A p, q \in 0..count-1 : Slot(p) = Slot(q) => p = q
      /\ \A v, w \in Workers :
           worker[v] = "run" /\ worker[w] = "run" /\ task[v] = task[w] => v = w
      /\ Waiting \cap Running = {}
      /\ (Waiting \cup Running) \cap finished = {}
      /\ \A t \in Waiting \cup Running \cup finished : result[t] \in {"ok", "lock_failure"}
  BY DEF InOnePlace
<1>1. CASE \E t \in Tasks : StoresTask(t)
  <2>1. PICK t \in Tasks : StoresTask(t)  BY <1>1
  <2>2. /\ count' = count + 1 /\ count \in Nat
        /\ \A p \in 0..count : Slot(p)' = IF p = count THEN t ELSE Slot(p)
    BY <2>1, EnqueueSlots DEF StoresTask
  <2>3. Waiting' = Waiting \cup {t}
    BY <2>2 DEF Waiting
  <2>4. Running' = Running /\ finished' = finished
    BY <2>1, SameRunning DEF StoresTask
  <2>5. t \notin Waiting \cup Running \cup finished
    BY <2>1, <1>0 DEF StoresTask, Adding
  <2>6. \A p, q \in 0..count'-1 : Slot(p)' = Slot(q)' => p = q
    <3> SUFFICES ASSUME NEW p \in 0..count'-1, NEW q \in 0..count'-1, Slot(p)' = Slot(q)'
                 PROVE  p = q
      OBVIOUS
    <3>1. p \in 0..count /\ q \in 0..count  BY <2>2
    <3>2. \A x \in 0..count-1 : Slot(x) # t  BY <2>5 DEF Waiting
    <3>3. /\ Slot(p)' = IF p = count THEN t ELSE Slot(p)
          /\ Slot(q)' = IF q = count THEN t ELSE Slot(q)
      BY <3>1, <2>2
    <3>4. CASE p # count /\ q # count
      <4>1. p \in 0..count-1 /\ q \in 0..count-1
        BY <3>4, <3>1, <2>2
      <4>2. Slot(p) = Slot(q)
        BY <3>4, <3>3
      <4>3. QED  BY <4>1, <4>2, <1>0
    <3>5. CASE p = count \/ q = count
      <4>1. p # count => p \in 0..count-1  BY <3>1, <2>2
      <4>2. q # count => q \in 0..count-1  BY <3>1, <2>2
      <4>3. QED  BY <3>5, <3>2, <3>3, <4>1, <4>2
    <3>6. QED  BY <3>4, <3>5
  <2>7. \A v, w \in Workers :
          worker'[v] = "run" /\ worker'[w] = "run" /\ task'[v] = task'[w] => v = w
    BY <2>1, <1>0 DEF StoresTask
  <2>8. \A x \in Waiting' \cup Running' \cup finished' : result'[x] \in {"ok", "lock_failure"}
    <3>1. result'[t] \in {"ok", "lock_failure"}
      BY <2>1 DEF StoresTask, Returns, IInv, TypeOK
    <3>2. \A x \in Tasks : x # t => result'[x] = result[x]
      BY <2>1 DEF StoresTask, Returns, IInv, TypeOK
    <3>3. QED  BY <3>1, <3>2, <2>3, <2>4, <1>0, LocatedTasks
  <2>9. QED  BY <2>3, <2>4, <2>5, <2>6, <2>7, <2>8, <1>0 DEF InOnePlace
<1>2. CASE \E w \in Workers : WorkerTake(w)
  <2>1. PICK w \in Workers : WorkerTake(w)  BY <1>2
  <2>2. /\ count \in Nat \ {0} /\ count' = count - 1
        /\ task' = [task EXCEPT ![w] = Slot(0)]
        /\ \A p \in 0..count'-1 : Slot(p)' = Slot(p + 1)
    BY <2>1, TakeSlots
  <2>3. Slot(0) \in Waiting /\ Slot(0) \notin Running
    <3>1. 0 \in 0..count-1  BY <2>2
    <3>2. QED  BY <3>1, <1>0 DEF Waiting
  <2>4. Waiting' \subseteq Waiting \ {Slot(0)}
    <3> SUFFICES ASSUME NEW p \in 0..count'-1
                 PROVE  Slot(p)' \in Waiting \ {Slot(0)}
      BY DEF Waiting
    <3>1. p + 1 \in 0..count-1 /\ 0 \in 0..count-1 /\ p + 1 # 0  BY <2>2
    <3>2. Slot(p + 1) # Slot(0)  BY <3>1, <1>0
    <3>3. QED  BY <3>1, <3>2, <2>2 DEF Waiting
  <2>5. /\ worker' = [worker EXCEPT ![w] = "run"] /\ worker[w] # "run"
        /\ finished' = finished /\ result' = result
    BY <2>1 DEF WorkerTake, callers
  <2>6. Running' = Running \cup {Slot(0)}
    BY <2>2, <2>5 DEF Running, IInv, TypeOK
  <2>7. \A p, q \in 0..count'-1 : Slot(p)' = Slot(q)' => p = q
    <3> SUFFICES ASSUME NEW p \in 0..count'-1, NEW q \in 0..count'-1, Slot(p)' = Slot(q)'
                 PROVE  p = q
      OBVIOUS
    <3>1. p + 1 \in 0..count-1 /\ q + 1 \in 0..count-1  BY <2>2
    <3>2. Slot(p + 1) = Slot(q + 1)  BY <2>2
    <3>3. p + 1 = q + 1  BY <3>1, <3>2, <1>0
    <3>4. QED  BY <3>3
  <2>8. \A x, y \in Workers :
          worker'[x] = "run" /\ worker'[y] = "run" /\ task'[x] = task'[y] => x = y
    <3>1. \A x \in Workers : worker[x] = "run" => task[x] # Slot(0)
      BY <2>3 DEF Running
    <3>2. QED  BY <3>1, <2>2, <2>5, <1>0 DEF IInv, TypeOK
  <2>9. QED  BY <2>3, <2>4, <2>5, <2>6, <2>7, <2>8, <1>0 DEF InOnePlace
<1>3. CASE \E w \in Workers : WorkerFinish(w)
  <2>1. PICK w \in Workers : WorkerFinish(w)  BY <1>3
  <2>2. /\ worker' = [worker EXCEPT ![w] = "lock"] /\ worker[w] = "run"
        /\ task' = [task EXCEPT ![w] = NoTask]
        /\ finished' = finished \cup {task[w]} /\ result' = result
    BY <2>1 DEF WorkerFinish, callers
  <2>3. Waiting' = Waiting /\ count' = count /\ \A p \in 0..count-1 : Slot(p)' = Slot(p)
    BY <2>1 DEF Waiting, Slot, Wrap, WorkerFinish, fields
  <2>4. Running' = Running \ {task[w]} /\ task[w] \in Running
    <3>1. \A x \in Workers : worker'[x] = "run" <=> worker[x] = "run" /\ x # w
      BY <2>2 DEF IInv, TypeOK
    <3>2. \A x \in Workers : x # w => task'[x] = task[x]
      BY <2>2 DEF IInv, TypeOK
    <3>3. \A x \in Workers : worker[x] = "run" /\ x # w => task[x] # task[w]
      BY <2>2, <1>0
    <3>4. QED  BY <3>1, <3>2, <3>3, <2>2 DEF Running
  <2>5. \A x, y \in Workers :
          worker'[x] = "run" /\ worker'[y] = "run" /\ task'[x] = task'[y] => x = y
    BY <2>2, <1>0 DEF IInv, TypeOK
  <2>6. QED  BY <2>2, <2>3, <2>4, <2>5, <1>0 DEF InOnePlace
<1>4. CASE MovesNoTask
  <2>1. /\ count' = count /\ finished' = finished /\ task' = task
        /\ \A p \in 0..count-1 : Slot(p)' = Slot(p)
    BY <1>4 DEF MovesNoTask
  <2>2. Waiting' = Waiting  BY <2>1 DEF Waiting
  <2>3. Running' = Running  BY <1>4, SameRunning DEF MovesNoTask
  <2>4. \A x, y \in Workers :
          worker'[x] = "run" /\ worker'[y] = "run" /\ task'[x] = task'[y] => x = y
    BY <1>4, <1>0 DEF MovesNoTask
  <2>5. Waiting \cup Running \cup finished \subseteq Tasks
    BY LocatedTasks
  <2>6. \A x \in Waiting \cup Running \cup finished : result'[x] = result[x]
    BY <1>4, <1>0, <2>5 DEF MovesNoTask
  <2>7. QED  BY <2>1, <2>2, <2>3, <2>4, <2>6, <1>0 DEF InOnePlace
<1>5. QED  BY <1>1, <1>2, <1>3, <1>4, TasksStep DEF StepOfTasks

\* While the pool is being created nobody can store a task.
LEMMA QuietUntilCreatedStep ==
  ASSUME IInv, QuietUntilCreated, [Next]_vars
  PROVE  QuietUntilCreated'
<1> SUFFICES ASSUME creator' # "created"
             PROVE  count' = 0
  BY DEF QuietUntilCreated
<1>1. creator # "created" /\ count = 0
  BY LiveWhenCreated DEF QuietUntilCreated
<1>2. ~ \E t \in Tasks : StoresTask(t)
  BY <1>1 DEF StoresTask, Adding, Usable
<1>3. ~ \E w \in Workers : WorkerTake(w)
  BY <1>1 DEF WorkerTake
<1>4. CASE \E w \in Workers : WorkerFinish(w)
  BY <1>1, <1>4 DEF WorkerFinish, fields
<1>5. CASE MovesNoTask
  BY <1>1, <1>5 DEF MovesNoTask
<1>6. QED  BY <1>2, <1>3, <1>4, <1>5, TasksStep DEF StepOfTasks

\* A worker drops its task when the task's function has returned.
LEMMA IdleHoldsNothingStep ==
  ASSUME IInv, IdleHoldsNothing, [Next]_vars
  PROVE  IdleHoldsNothing'
<1>1. CASE (\E t \in Tasks : StoresTask(t)) \/ MovesNoTask
  BY <1>1 DEF IdleHoldsNothing, StoresTask, MovesNoTask
<1>2. CASE \E w \in Workers : WorkerTake(w)
  BY <1>2 DEF IdleHoldsNothing, WorkerTake, IInv, TypeOK
<1>3. CASE \E w \in Workers : WorkerFinish(w)
  BY <1>3 DEF IdleHoldsNothing, WorkerFinish, IInv, TypeOK
<1>4. QED  BY <1>1, <1>2, <1>3, TasksStep DEF StepOfTasks

\* threadpool_add reports a fault of the lock only where calls can fail.
LEMMA FaultsOnlyIfAnyStep ==
  ASSUME IInv, FaultsOnlyIfAny, [Next]_vars
  PROVE  FaultsOnlyIfAny'
<1> SUFFICES ASSUME NEW x \in Tasks, result'[x] = "lock_failure"
             PROVE  SyncFaults
  BY DEF FaultsOnlyIfAny
<1>1. CASE result[x] = "lock_failure"
  BY <1>1 DEF FaultsOnlyIfAny
<1>2. CASE result'[x] # result[x]
  <2>1. CASE \E t \in Tasks : StoresTask(t)
    BY <2>1, <1>2 DEF StoresTask, Returns, IInv, TypeOK
  <2>2. CASE \E w \in Workers : WorkerTake(w) \/ WorkerFinish(w)
    BY <2>2, <1>2 DEF WorkerTake, WorkerFinish, callers
  <2>3. CASE MovesNoTask
    BY <2>3, <1>2 DEF MovesNoTask
  <2>4. QED  BY <2>1, <2>2, <2>3, TasksStep DEF StepOfTasks
<1>3. QED  BY <1>1, <1>2

\* A worker that found the ring empty goes to sleep before anyone can add.
LEMMA SleepersSawNothingStep ==
  ASSUME IInv, SleepersSawNothing, [Next]_vars
  PROVE  SleepersSawNothing'
<1> SUFFICES ASSUME NEW x \in Workers, worker'[x] = "sleep"
             PROVE  count' = 0
  BY DEF SleepersSawNothing
<1>1. CASE worker[x] = "sleep"
  <2>1. count = 0 /\ lock = x
    BY <1>1 DEF SleepersSawNothing, IInv, LockOwned
  <2>2. lock # NoOwner
    BY <2>1, PoolAssumption DEF Workers
  <2>3. ~ \E t \in Tasks : StoresTask(t)
    BY <2>2 DEF StoresTask, Adding
  <2>4. ~ \E w \in Workers : WorkerTake(w)
    BY <2>1 DEF WorkerTake
  <2>5. CASE \E w \in Workers : WorkerFinish(w)
    BY <2>1, <2>5 DEF WorkerFinish, fields
  <2>6. CASE MovesNoTask
    BY <2>1, <2>6 DEF MovesNoTask
  <2>7. QED  BY <2>3, <2>4, <2>5, <2>6, TasksStep DEF StepOfTasks
<1>2. CASE worker[x] # "sleep"
  <2>1. \E w \in Workers : WorkerFindsNothing(w)
    <3>1. ~ (worker' = worker \/ Signal \/ Broadcast)
      BY <1>2, SignalWakes, BroadcastWakes DEF IInv
    <3>2. ~ Create
      BY <1>2, <3>1 DEF Create, CreateRejects, CreateAccepts, AllocArrays,
        InitMutex,
         InitCond, Spawn, CountThread, CreateReturns, SpawnFails, AbortFlag,
         AbortWake, AbortJoin, AbortFree, IInv, TypeOK
    <3>3. ~ \E t \in Tasks : Add(t)
      BY <3>1 DEF Add, AddFull, AddShutdown, AddTask, AddSignalFails, AddLockFails,
         AddUnlockFails
    <3>4. ~ \E d \in Destroyers : Destroy(d)
      BY <3>1 DEF Destroy, DestroyGoesOn, DestroyBegin, DestroyAgain,
         DestroyBroadcastFails, DestroyLockFails, DestroyJoin, DestroyReturns,
         DestroyReturnsError
    <3>5. ~ UNCHANGED vars
      BY <3>1 DEF vars
    <3>6. PICK w \in Workers : WorkerStep(w) \/ SpuriousWake(w)
      BY <3>2, <3>3, <3>4, <3>5 DEF Next
    <3>7. QED
      BY <1>2, <3>6 DEF WorkerStep, SpuriousWake, WorkerLock, WorkerSleep,
        WorkerExit,
         WorkerTake, WorkerFinish, IInv, TypeOK
  <2>2. QED  BY <2>1 DEF WorkerFindsNothing, fields
<1>3. QED  BY <1>1, <1>2

\* Before threadpool_create is called no task is anywhere.
LEMMA QueueInit ==
  ASSUME Init
  PROVE  QueueInv
<1>1. ShutdownInv  BY ShutdownInit
<1>2. Waiting = {} /\ Running = {} /\ 0..count-1 = {}
  BY DEF Init, Waiting, Running
<1>3. InOnePlace
  BY <1>2 DEF Init, InOnePlace
<1>4. /\ QuietUntilCreated /\ IdleHoldsNothing /\ SleepersSawNothing
      /\ FaultsOnlyIfAny
  BY DEF Init, QuietUntilCreated, IdleHoldsNothing, SleepersSawNothing,
    FaultsOnlyIfAny
<1>5. QED  BY <1>1, <1>3, <1>4 DEF QueueInv

\* Every step of the pool preserves the whole invariant.
LEMMA QueueStep ==
  ASSUME QueueInv, [Next]_vars
  PROVE  QueueInv'
BY StepInv, StartedCountsStep, CreatedInFullStep, LeftEmptyStep, NoneLostStep,
   DestroyFreesStep, InOnePlaceStep, QuietUntilCreatedStep,
   IdleHoldsNothingStep, SleepersSawNothingStep, FaultsOnlyIfAnyStep DEF QueueInv, ShutdownInv

\* Whatever pthread calls fail, a task the pool knows of is queued, in execution
\* or executed, in one of these places and by one thread, and no pool is used
\* before threadpool_create has returned it.
THEOREM QueueInvariant == Spec => []QueueInv
<1>1. Init => QueueInv  BY QueueInit
<1>2. QueueInv /\ [Next]_vars => QueueInv'  BY QueueStep
<1>3. QED  BY <1>1, <1>2, PTL DEF Spec

\* Where no pthread call fails, a task whose submission threadpool_add reported
\* as failed is never executed: main may free its argument and close its socket.
THEOREM RefusedTasksNeverRun ==
  ASSUME ~ SyncFaults
  PROVE  Spec => []RefusedNeverRuns
<1>1. QueueInv => RefusedNeverRuns
  <2> SUFFICES ASSUME QueueInv, NEW t \in Tasks,
                      result[t] \in {"queue_full", "shutdown", "lock_failure"},
                      t \in finished \cup {task[w] : w \in Workers}
               PROVE  FALSE
    BY DEF RefusedNeverRuns
  <2>1. t \notin finished
    BY DEF QueueInv, InOnePlace, FaultsOnlyIfAny
  <2>2. PICK w \in Workers : task[w] = t  BY <2>1
  <2>3. worker[w] = "run"  BY <2>2, PoolAssumption DEF QueueInv, IdleHoldsNothing
  <2>4. QED  BY <2>2, <2>3 DEF QueueInv, InOnePlace, FaultsOnlyIfAny, Running
<1>2. QED  BY <1>1, QueueInvariant, PTL

-----------------------------------------------------------------------------
(* No task waits while threads sleep.                                      *)

\* The threads on their way to the ring are finitely many.
LEMMA AwakeFinite == IsFiniteSet(Awake) /\ Cardinality(Awake) \in Nat
<1>1. IsFiniteSet(Workers)  BY PoolAssumption, FS_Interval DEF Workers
<1>2. IsFiniteSet(Awake)  BY <1>1, FS_Subset DEF Awake
<1>3. QED  BY <1>2, FS_CardinalityType

\* The sleeping threads of a healthy pool stay covered: threadpool_add wakes one
\* thread for its task, and nobody goes to sleep while tasks are queued.
LEMMA WorkConservingStep ==
  ASSUME ~ SyncFaults, QueueInv, WorkConserving, [Next]_vars
  PROVE  WorkConserving'
<1> SUFFICES ASSUME creator' = "created", shutdown' = 0, Asleep' # {}
             PROVE  count' <= Cardinality(Awake')
  BY DEF WorkConserving
<1>0. /\ IInv /\ TypeOK /\ QueueInv'
      /\ IsFiniteSet(Awake) /\ Cardinality(Awake) \in Nat
      /\ count \in Nat /\ count' \in Nat
  <2>1. QueueInv'  BY QueueStep
  <2>2. TypeOK /\ TypeOK'  BY <2>1 DEF QueueInv, ShutdownInv, IInv
  <2>3. count \in Nat /\ count' \in Nat  BY <2>2, PoolAssumption DEF TypeOK
  <2>4. QED  BY <2>1, <2>2, <2>3, AwakeFinite DEF QueueInv, ShutdownInv
<1>1. Cardinality(Awake') \in Nat
  <2>1. IsFiniteSet(Workers)  BY PoolAssumption, FS_Interval DEF Workers
  <2>2. IsFiniteSet(Awake')  BY <2>1, FS_Subset DEF Awake
  <2>3. QED  BY <2>2, FS_CardinalityType
<1>2. shutdown = 0
  BY <1>0, ShutdownStep
<1>3. ASSUME NEW w \in Workers, w \notin Awake, Awake' = Awake \cup {w}
      PROVE  Cardinality(Awake') = Cardinality(Awake) + 1
  BY <1>0, <1>3, FS_AddElement
<1>4. CASE count' = 0
  BY <1>4, <1>1
<1>5. CASE creator = "created" /\ Asleep # {} /\ Awake' = Awake /\ count' = count
  BY <1>2, <1>5 DEF WorkConserving
<1>6. CASE Create
  <2>1. creator # "created"
    BY <1>6 DEF Create, CreateRejects, CreateAccepts, AllocArrays, InitMutex,
       InitCond, Spawn, CountThread, CreateReturns, SpawnFails, AbortFlag,
       AbortWake, AbortJoin, AbortFree
  <2>2. count' = count
    BY <1>6 DEF Create, CreateRejects, CreateAccepts, AllocArrays, InitMutex,
       InitCond, Spawn, CountThread, CreateReturns, SpawnFails, AbortFlag,
       AbortWake, AbortJoin, AbortFree, ring, fields
  <2>3. QED  BY <2>1, <2>2, <1>4 DEF QueueInv, QuietUntilCreated
<1>7. CASE \E t \in Tasks : Add(t)
  <2>1. PICK t \in Tasks : AddFull(t) \/ AddShutdown(t) \/ AddTask(t)
    BY <1>7 DEF Add, AddSignalFails, AddLockFails, AddUnlockFails
  <2>2. CASE AddFull(t) \/ AddShutdown(t)
    BY <2>2, <1>5 DEF AddFull, AddShutdown, Adding, Usable, fields, Awake, Asleep
  <2>3. CASE AddTask(t)
    <3>1. PICK w \in Workers : worker[w] = "asleep" /\ worker' = [worker EXCEPT ![w] = "lock"]
      BY <2>3 DEF AddTask, Signal, Asleep
    <3>2. Awake' = Awake \cup {w} /\ w \notin Awake /\ w \in Asleep
      BY <3>1, <1>0 DEF Awake, Asleep, TypeOK
    <3>3. creator = "created" /\ count' = count + 1
      BY <2>3 DEF AddTask, Adding, Usable, Enqueue
    <3>4. count <= Cardinality(Awake)
      BY <3>2, <3>3, <1>2 DEF WorkConserving
    <3>5. Cardinality(Awake') = Cardinality(Awake) + 1
      BY <3>2, <1>3
    <3>6. QED  BY <3>3, <3>4, <3>5, <1>0
  <2>4. QED  BY <2>1, <2>2, <2>3
<1>8. CASE \E w \in Workers : WorkerStep(w) \/ SpuriousWake(w)
  <2>1. PICK w \in Workers : WorkerStep(w) \/ SpuriousWake(w)  BY <1>8
  <2>2. creator = "created"
    BY <2>1 DEF WorkerStep, WorkerLock, WorkerFindsNothing, WorkerSleep, WorkerExit,
       WorkerTake, WorkerFinish, SpuriousWake, creation
  <2>3. CASE WorkerLock(w)
    <3>1. Awake' = Awake /\ Asleep' = Asleep /\ count' = count
      BY <2>3, <1>0 DEF WorkerLock, Awake, Asleep, TypeOK, fields
    <3>2. QED  BY <3>1, <2>2, <1>5
  <2>4. CASE WorkerFindsNothing(w) \/ WorkerSleep(w)
    BY <2>4, <1>4 DEF WorkerFindsNothing, WorkerSleep, QueueInv, SleepersSawNothing,
      fields
  <2>5. CASE WorkerExit(w)
    BY <2>5, <1>2 DEF WorkerExit, MayExit, GRACEFUL_SHUTDOWN, IMMEDIATE_SHUTDOWN
  <2>6. CASE SpuriousWake(w) \/ WorkerFinish(w)
    <3>1. Awake' = Awake \cup {w} /\ w \notin Awake /\ count' = count
      BY <2>6, <1>0 DEF SpuriousWake, WorkerFinish, Awake, TypeOK, fields
    <3>2. Asleep # {}
      BY <2>6, <1>0 DEF SpuriousWake, WorkerFinish, Asleep, TypeOK
    <3>3. count <= Cardinality(Awake)
      BY <3>2, <2>2, <1>2 DEF WorkConserving
    <3>4. Cardinality(Awake') = Cardinality(Awake) + 1
      BY <3>1, <1>3
    <3>5. QED  BY <3>1, <3>3, <3>4, <1>0
  <2>7. CASE WorkerTake(w)
    <3>1. Awake' = Awake \ {w} /\ w \in Awake /\ Asleep' = Asleep
      BY <2>7, <1>0 DEF WorkerTake, Awake, Asleep, TypeOK
    <3>2. count' = count - 1
      BY <2>7 DEF WorkerTake
    <3>3. count <= Cardinality(Awake)
      BY <3>1, <2>2, <1>2 DEF WorkConserving
    <3>4. Cardinality(Awake') = Cardinality(Awake) - 1
      BY <3>1, <1>0, FS_RemoveElement
    <3>5. QED  BY <3>2, <3>3, <3>4, <1>0
  <2>8. QED  BY <2>1, <2>3, <2>4, <2>5, <2>6, <2>7 DEF WorkerStep
<1>9. CASE \E d \in Destroyers : Destroy(d)
  <2>1. worker' = worker /\ count' = count /\ creator = "created"
    BY <1>9, <1>2 DEF Destroy, DestroyGoesOn, DestroyBegin, DestroyAgain,
       DestroyBroadcastFails, DestroyLockFails, DestroyJoin, DestroyReturns,
       DestroyReturnsError, GRACEFUL_SHUTDOWN, IMMEDIATE_SHUTDOWN, fields, ring,
       creation
  <2>2. QED  BY <2>1, <1>5 DEF Awake, Asleep
<1>10. CASE UNCHANGED vars
  BY <1>10, <1>5 DEF vars, creation, fields, Awake, Asleep
<1>11. QED  BY <1>6, <1>7, <1>8, <1>9, <1>10 DEF Next

\* Where no pthread call fails, threads sleep in pthread_cond_wait only while as
\* many others as there are tasks are on their way to the ring: no wakeup is
\* lost between a worker's test of the count and its sleep.
THEOREM WorkIsConserved ==
  ASSUME ~ SyncFaults
  PROVE  Spec => []WorkConserving
<1>1. Init => QueueInv /\ WorkConserving
  BY QueueInit DEF Init, WorkConserving
<1>2. QueueInv /\ WorkConserving /\ [Next]_vars => (QueueInv /\ WorkConserving)'
  BY QueueStep, WorkConservingStep
<1>3. QED  BY <1>1, <1>2, PTL DEF Spec

-----------------------------------------------------------------------------
(* The pool implements TaskQueue.                                          *)

\* The queue its callers see is the occupied slots of the ring, oldest first.
QueueIsRing ==
  /\ Pending \in Seq(Tasks) /\ Len(Pending) = count /\ count \in Nat
  /\ \A p \in 1..count : Pending[p] = Slot(p - 1)
  /\ Queue!Queued = Waiting

\* It is, in every state of the invariant.
LEMMA PendingIsWaiting == IInv => QueueIsRing
<1> SUFFICES ASSUME IInv PROVE QueueIsRing  OBVIOUS
<1>1. count \in Nat  BY PoolAssumption DEF IInv, TypeOK
<1>2. \A p \in 1..count : Slot(p - 1) \in Tasks
  BY <1>1 DEF IInv, RingCoherent, Slot
<1>3. Pending \in [1..count -> Tasks]
  BY <1>2 DEF Pending
<1>4. Pending \in Seq(Tasks) /\ Len(Pending) = count
  BY <1>1, <1>3, SeqDef, LenProperties
<1>5. \A p \in 1..count : Pending[p] = Slot(p - 1)
  BY DEF Pending
<1>6. \A p \in 0..count-1 : p + 1 \in 1..count /\ (p + 1) - 1 = p
  BY <1>1
<1>7. Queue!Queued = Waiting
  BY SMTT(20), <1>1, <1>4, <1>5, <1>6 DEF Queue!Queued, Waiting
<1>8. QED  BY <1>1, <1>4, <1>5, <1>7 DEF QueueIsRing

\* Where the slots stay, the queue stays.
LEMMA PendingSame ==
  ASSUME count' = count, \A p \in 0..count-1 : Slot(p)' = Slot(p), count \in Nat
  PROVE  Pending' = Pending
<1>1. \A p \in 1..count : Slot(p - 1)' = Slot(p - 1)  OBVIOUS
<1>2. QED  BY <1>1 DEF Pending

\* threadpool_add appends to the queue.
LEMMA PendingAppend ==
  ASSUME IInv, IInv', NEW t \in Tasks, StoresTask(t)
  PROVE  Pending' = Append(Pending, t)
<1>1. /\ count' = count + 1 /\ count \in Nat
      /\ \A p \in 0..count : Slot(p)' = IF p = count THEN t ELSE Slot(p)
  BY EnqueueSlots DEF StoresTask
<1>2. /\ Pending \in Seq(Tasks) /\ Len(Pending) = count
      /\ \A p \in 1..count : Pending[p] = Slot(p - 1)
  BY PendingIsWaiting DEF QueueIsRing
<1>3. /\ Pending' \in Seq(Tasks) /\ Len(Pending') = count'
      /\ \A p \in 1..count' : Pending'[p] = Slot(p - 1)'
  <2>1. QueueIsRing'  BY PendingIsWaiting, PTL
  <2>2. QED  BY <2>1 DEF QueueIsRing
<1>4. /\ Append(Pending, t) \in Seq(Tasks) /\ Len(Append(Pending, t)) = count + 1
      /\ \A p \in 1..count : Append(Pending, t)[p] = Pending[p]
      /\ Append(Pending, t)[count + 1] = t
  BY <1>2, AppendProperties
<1>5. ASSUME NEW p \in 1..count+1
      PROVE  Pending'[p] = Append(Pending, t)[p]
  <2>1. p - 1 \in 0..count /\ p \in 1..count'  BY <1>1
  <2>2. Pending'[p] = IF p - 1 = count THEN t ELSE Slot(p - 1)
    BY <2>1, <1>1, <1>3
  <2>3. CASE p = count + 1
    <3>1. p - 1 = count  BY <2>3, <1>1
    <3>2. QED  BY <2>2, <2>3, <3>1, <1>4
  <2>4. CASE p \in 1..count
    <3>1. p - 1 # count  BY <2>4, <1>1
    <3>2. Pending'[p] = Pending[p]  BY <2>2, <2>4, <3>1, <1>2
    <3>3. QED  BY <3>2, <2>4, <1>4
  <2>5. count \in Nat  BY <1>1
  <2>6. p = count + 1 \/ p \in 1..count  BY <2>5
  <2>7. QED  BY <2>3, <2>4, <2>6
<1>6. QED  BY <1>1, <1>3, <1>4, <1>5, SeqEqual

\* A worker takes the head of the queue.
LEMMA PendingTail ==
  ASSUME IInv, IInv', NEW w \in Workers, WorkerTake(w)
  PROVE  /\ Pending # << >> /\ Head(Pending) = Slot(0)
         /\ Pending' = Tail(Pending)
<1>1. /\ count \in Nat \ {0} /\ count' = count - 1
      /\ \A p \in 0..count'-1 : Slot(p)' = Slot(p + 1)
  BY TakeSlots
<1>2. /\ Pending \in Seq(Tasks) /\ Len(Pending) = count
      /\ \A p \in 1..count : Pending[p] = Slot(p - 1)
  BY PendingIsWaiting DEF QueueIsRing
<1>3. /\ Pending' \in Seq(Tasks) /\ Len(Pending') = count'
      /\ \A p \in 1..count' : Pending'[p] = Slot(p - 1)'
  <2>1. QueueIsRing'  BY PendingIsWaiting, PTL
  <2>2. QED  BY <2>1 DEF QueueIsRing
<1>4. Pending # << >>  BY <1>1, <1>2, EmptySeq
<1>5. /\ Head(Pending) = Pending[1]
      /\ Tail(Pending) \in Seq(Tasks) /\ Len(Tail(Pending)) = count - 1
      /\ \A p \in 1..count-1 : Tail(Pending)[p] = Pending[p + 1]
  BY <1>2, <1>4, HeadTailProperties
<1>6. ASSUME NEW p \in 1..count-1
      PROVE  Pending'[p] = Tail(Pending)[p]
  <2>1. p \in 1..count' /\ p - 1 \in 0..count'-1 /\ p + 1 \in 1..count  BY <1>1
  <2>2. (p - 1) + 1 = p /\ (p + 1) - 1 = p  OBVIOUS
  <2>3. Pending'[p] = Slot(p - 1)'  BY <2>1, <1>3
  <2>4. Slot(p - 1)' = Slot((p - 1) + 1)  BY <2>1, <1>1
  <2>5. Pending[p + 1] = Slot((p + 1) - 1)  BY <2>1, <1>2
  <2>6. QED  BY <2>2, <2>3, <2>4, <2>5, <1>5
<1>7. Pending' = Tail(Pending)
  BY <1>1, <1>3, <1>5, <1>6, SeqEqual
<1>8. Head(Pending) = Slot(0)
  <2>1. 1 \in 1..count /\ 1 - 1 = 0  BY <1>1
  <2>2. Pending[1] = Slot(1 - 1)  BY <2>1, <1>2
  <2>3. QED  BY <2>1, <2>2, <1>5
<1>9. QED  BY <1>4, <1>7, <1>8

\* Before threadpool_create is called the queue is new.
LEMMA QueueRefInit ==
  ASSUME Init
  PROVE  Queue!Init
<1>1. IInv /\ QueueIsRing  BY InitInv, PendingIsWaiting
<1>2. Len(Pending) = 0 /\ Pending \in Seq(Tasks)
  BY <1>1 DEF QueueIsRing, Init
<1>3. Pending = << >>
  BY <1>2, EmptySeq
<1>4. Running = {} /\ Refused = {} /\ Phase = "new" /\ Capacity = 0 /\ finished = {}
  BY DEF Init, Running, Refused, Phase, Capacity
<1>5. QED  BY <1>3, <1>4 DEF Queue!Init

\* What the callers see does not change where no task moves, no result does and
\* the stage of the pool's life does not.
LEMMA QueueSame ==
  ASSUME IInv, MovesNoTask, result' = result,
         Phase' = Phase, Capacity' = Capacity
  PROVE  UNCHANGED Queue!qvars
<1>1. count \in Nat  BY PoolAssumption DEF IInv, TypeOK
<1>2. Pending' = Pending
  BY <1>1, PendingSame DEF MovesNoTask
<1>3. Running' = Running /\ finished' = finished
  BY SameRunning DEF MovesNoTask
<1>4. Refused' = Refused
  BY DEF Refused
<1>5. QED  BY <1>2, <1>3, <1>4 DEF Queue!qvars

\* The pool's memory is there as a whole or not at all once it is handed out.
LEMMA CreatedLive ==
  ASSUME IInv, creator = "created"
  PROVE  /\ live \in {Everything, {}}
         /\ "pool" \in live <=> live # {}
         /\ queue_size \in 1..MAX_QUEUE
         /\ \A w \in Inside : live # {}
BY PoolAssumption DEF IInv, TypeOK, LiveByStage, IndicesInRing, Everything

\* threadpool_create opens the queue with its last step; the others, those of a
\* failing creation too, are invisible.
LEMMA CreateRefines ==
  ASSUME QueueInv, QueueInv', Create
  PROVE  [Queue!Next]_(Queue!qvars)
<1>1. IInv /\ [Next]_vars  BY DEF QueueInv, ShutdownInv, Next
<1>2. MovesNoTask /\ result' = result
  <2>1. result' = result /\ count' = count /\ task' = task /\ finished' = finished
    BY DEF Create, CreateRejects, CreateAccepts, AllocArrays, InitMutex,
       InitCond, Spawn, CountThread, CreateReturns, SpawnFails, AbortFlag,
       AbortWake, AbortJoin, AbortFree, ring, fields, callers
  <2>2. \A w \in Workers : worker'[w] = "run" <=> worker[w] = "run"
    BY <1>1 DEF Create, CreateRejects, CreateAccepts, AllocArrays, InitMutex,
       InitCond, Spawn, CountThread, CreateReturns, SpawnFails, AbortFlag,
       AbortWake, AbortJoin, AbortFree, Broadcast, IInv, TypeOK, BornInOrder, Workers
  <2>3. creator # "created"
    BY DEF Create, CreateRejects, CreateAccepts, AllocArrays, InitMutex,
       InitCond, Spawn, CountThread, CreateReturns, SpawnFails, AbortFlag,
       AbortWake, AbortJoin, AbortFree
  <2>4. 0..count-1 = {}
    BY <2>3 DEF QueueInv, QuietUntilCreated
  <2>5. QED  BY <2>1, <2>2, <2>4 DEF MovesNoTask
<1>3. CASE CreateReturns
  <2>1. /\ Phase = "new" /\ Phase' = "open"
    <3>1. /\ creator = "spawn" /\ creator' = "created"
          /\ UNCHANGED <<live, shutdown>>
      BY <1>3 DEF CreateReturns, fields
    <3>2. live = Everything /\ shutdown = 0 /\ Everything # {}
      BY <3>1, <1>1 DEF IInv, LiveByStage, CountingIsExclusive, Everything
    <3>3. creator # "created" /\ live' # {} /\ shutdown' = 0
      BY <3>1, <3>2
    <3>4. Phase = "new"  BY <3>3 DEF Phase
    <3>5. Phase' = "open"  BY <3>1, <3>3 DEF Phase, GRACEFUL_SHUTDOWN
    <3>6. QED  BY <3>4, <3>5
  <2>2. queue_size \in 1..MAX_QUEUE /\ Capacity' = queue_size
    <3>1. creator = "spawn" /\ creator' = "created" /\ queue_size' = queue_size
      BY <1>3 DEF CreateReturns, fields
    <3>2. queue_size \in 1..MAX_QUEUE
      BY <3>1, <1>1, PoolAssumption DEF IInv, IndicesInRing, TypeOK
    <3>3. QED  BY <3>1, <3>2 DEF Capacity
  <2>3. count \in Nat  BY <1>1, PoolAssumption DEF IInv, TypeOK
  <2>4. /\ Pending' = Pending /\ Running' = Running /\ finished' = finished
        /\ Refused' = Refused
    BY <1>2, <2>3, PendingSame, SameRunning DEF MovesNoTask, Refused
  <2>5. Queue!Open(queue_size)
    BY <2>1, <2>2, <2>4 DEF Queue!Open
  <2>6. QED  BY <2>2, <2>5 DEF Queue!Next
<1>4. CASE ~ CreateReturns
  <2>1. creator # "created" /\ creator' # "created"
    BY <1>4 DEF Create, CreateRejects, CreateAccepts, AllocArrays, InitMutex,
       InitCond, Spawn, CountThread, CreateReturns, SpawnFails, AbortFlag,
       AbortWake, AbortJoin, AbortFree, CreateFails
  <2>2. Phase' = Phase /\ Capacity' = Capacity
    BY <2>1 DEF Phase, Capacity
  <2>3. QED  BY <1>1, <1>2, <2>2, QueueSame
<1>5. QED  BY <1>3, <1>4

\* What the callers see of the worker loop: it starts the oldest task, unless an
\* immediate shutdown is under way, and finishes it.
LEMMA WorkerRefines ==
  ASSUME QueueInv, QueueInv', NEW w \in Workers, WorkerStep(w) \/ SpuriousWake(w)
  PROVE  [Queue!Next]_(Queue!qvars)
<1>0. IInv /\ IInv'  BY DEF QueueInv, ShutdownInv
<1>1. CASE WorkerTake(w)
  <2>1. creator = "created" /\ live = Everything /\ live # {}
    BY <1>1, <1>0, CreatedLive DEF WorkerTake, QueueInv, QuietUntilCreated, Inside
  <2>2. UNCHANGED <<creation, live, shutdown, queue_size, result, finished>>
    BY <1>1 DEF WorkerTake, callers
  <2>3. Phase \in {"open", "draining"}
    BY <1>1, <1>0, <2>1
       DEF WorkerTake, MayExit, Phase, IInv, TypeOK, GRACEFUL_SHUTDOWN, IMMEDIATE_SHUTDOWN
  <2>4. Phase' = Phase /\ Capacity' = Capacity /\ Refused' = Refused
    BY <2>2 DEF creation, Phase, Capacity, Refused
  <2>5. /\ Pending # << >> /\ Head(Pending) = Slot(0)
        /\ Pending' = Tail(Pending)
    BY <1>1, <1>0, PendingTail
  <2>6. Running' = Running \cup {Slot(0)}
    <3>1. /\ worker[w] = "test" /\ worker' = [worker EXCEPT ![w] = "run"]
          /\ task' = [task EXCEPT ![w] = Slot(0)]
      BY <1>1, <1>0, TakeSlots DEF WorkerTake
    <3>2. QED  BY <3>1, <1>0 DEF Running, IInv, TypeOK
  <2>7. Queue!Start
    BY <2>2, <2>3, <2>4, <2>5, <2>6 DEF Queue!Start
  <2>8. QED  BY <2>7 DEF Queue!Next
<1>2. CASE WorkerFinish(w)
  <2>1. /\ worker[w] = "run" /\ worker' = [worker EXCEPT ![w] = "lock"]
        /\ task' = [task EXCEPT ![w] = NoTask]
        /\ finished' = finished \cup {task[w]}
        /\ UNCHANGED <<creation, live, fields, result>>
    BY <1>2 DEF WorkerFinish, callers
  <2>2. Pending' = Pending
    BY <2>1 DEF Pending, Slot, Wrap, fields
  <2>3. Phase' = Phase /\ Capacity' = Capacity /\ Refused' = Refused
    BY <2>1 DEF creation, fields, Phase, Capacity, Refused
  <2>4. task[w] \in Running /\ task[w] \in Tasks
    BY <2>1, <1>0 DEF Running, IInv, RunsRealTasks
  <2>5. Running' = Running \ {task[w]}
    <3>1. \A x \in Workers : worker'[x] = "run" <=> worker[x] = "run" /\ x # w
      BY <2>1, <1>0 DEF IInv, TypeOK
    <3>2. \A x \in Workers : x # w => task'[x] = task[x]
      BY <2>1, <1>0 DEF IInv, TypeOK
    <3>3. \A x \in Workers : worker[x] = "run" /\ x # w => task[x] # task[w]
      BY <2>1 DEF QueueInv, InOnePlace
    <3>4. QED  BY <3>1, <3>2, <3>3, <2>1 DEF Running
  <2>6. Queue!Finish(task[w])
    BY <2>1, <2>2, <2>3, <2>4, <2>5 DEF Queue!Finish
  <2>7. QED  BY <2>4, <2>6 DEF Queue!Next
<1>3. CASE \/ WorkerLock(w) \/ WorkerFindsNothing(w) \/ WorkerSleep(w)
           \/ WorkerExit(w) \/ SpuriousWake(w)
  <2>1. UNCHANGED <<creation, live, ring, shutdown, task, finished, result>>
    BY <1>3 DEF WorkerLock, WorkerFindsNothing, WorkerSleep, WorkerExit,
       SpuriousWake, ring, fields, callers
  <2>2. \A x \in Workers : worker'[x] = "run" <=> worker[x] = "run"
    BY <1>3, <1>0 DEF WorkerLock, WorkerFindsNothing, WorkerSleep, WorkerExit,
       SpuriousWake, IInv, TypeOK
  <2>3. MovesNoTask /\ result' = result
    BY <2>1, <2>2 DEF MovesNoTask, Slot, Wrap, ring
  <2>4. Phase' = Phase /\ Capacity' = Capacity
    BY <2>1 DEF creation, ring, Phase, Capacity
  <2>5. QED  BY <1>0, <2>3, <2>4, QueueSame
<1>4. QED  BY <1>1, <1>2, <1>3 DEF WorkerStep

\* Every call of threadpool_add is one step of the queue: the task is accepted
\* as its newest, or refused because the queue is full or closed.
LEMMA AddRefines ==
  ASSUME ~ SyncFaults, QueueInv, QueueInv', NEW t \in Tasks, Add(t)
  PROVE  [Queue!Next]_(Queue!qvars)
<1>0. IInv /\ IInv' /\ QueueIsRing /\ count \in Nat
  <2>1. IInv /\ IInv'  BY DEF QueueInv, ShutdownInv
  <2>2. QED  BY <2>1, PendingIsWaiting DEF QueueIsRing
<1>1. /\ creator = "created" /\ live = Everything /\ live # {} /\ result[t] = "none"
      /\ UNCHANGED <<creation, live, queue_size, head, shutdown, task, finished>>
  BY <1>0, CreatedLive DEF Add, AddFull, AddShutdown, AddTask, AddSignalFails,
     AddLockFails, AddUnlockFails, Adding, Usable, fields
<1>2. \A w \in Workers : worker'[w] = "run" <=> worker[w] = "run"
  <2>1. worker' = worker \/ Signal
    BY DEF Add, AddFull, AddShutdown, AddTask, AddSignalFails, AddLockFails,
       AddUnlockFails, fields
  <2>2. QED  BY <1>0, <2>1, SignalWakes DEF IInv
<1>3. Queue!Fresh(t)
  <2>1. t \notin Waiting \cup Running \cup finished
    BY <1>1 DEF QueueInv, InOnePlace
  <2>2. t \notin Refused  BY <1>1 DEF Refused
  <2>3. QED  BY <1>0, <2>1, <2>2 DEF Queue!Fresh, QueueIsRing
<1>4. /\ Phase' = Phase /\ Capacity' = Capacity /\ Capacity = queue_size
      /\ Running' = Running
      /\ Phase \in {"open", "draining", "halted"}
      /\ Phase = "open" <=> shutdown = 0
  <2>1. Phase' = Phase /\ Capacity' = Capacity /\ Capacity = queue_size
    BY <1>1 DEF creation, Phase, Capacity
  <2>2. Running' = Running  BY <1>1, <1>2, SameRunning
  <2>3. /\ Phase \in {"open", "draining", "halted"}
        /\ Phase = "open" <=> shutdown = 0
    BY <1>1 DEF Phase, GRACEFUL_SHUTDOWN
  <2>4. QED  BY <2>1, <2>2, <2>3
<1>5. CASE AddTask(t)
  <2>1. StoresTask(t)
    BY <1>5, <1>1, <1>2 DEF StoresTask, AddTask
  <2>2. Pending' = Append(Pending, t)
    BY <1>0, <2>1, PendingAppend
  <2>3. Refused' = Refused
    BY <1>5, <1>0, <1>1 DEF AddTask, Returns, Refused, IInv, TypeOK
  <2>4. Len(Pending) < Capacity /\ shutdown = 0
    BY <1>5, <1>0, <1>4, CreatedLive, <1>1, PoolAssumption
       DEF AddTask, Enqueue, QueueFull, QueueIsRing, IInv, RingCoherent, TypeOK
  <2>5. Queue!Submit(t)
    BY <1>1, <1>3, <1>4, <2>2, <2>3, <2>4 DEF Queue!Submit
  <2>6. QED  BY <2>5 DEF Queue!Next
<1>6. CASE AddFull(t) \/ AddShutdown(t)
  <2>1. /\ UNCHANGED <<queue, count>>
        /\ count = queue_size \/ shutdown # 0
        /\ result' = [result EXCEPT ![t] = "queue_full"]
             \/ result' = [result EXCEPT ![t] = "shutdown"]
    BY <1>6 DEF AddFull, AddShutdown, QueueFull, Returns, fields
  <2>2. Pending' = Pending
    BY <1>1, <2>1 DEF Pending, Slot, Wrap
  <2>3. Refused' = Refused \cup {t}
    BY <2>1, <1>0 DEF Refused, IInv, TypeOK
  <2>4. Len(Pending) = Capacity \/ Phase # "open"
    BY <2>1, <1>0, <1>4 DEF QueueIsRing
  <2>5. Queue!Refuse(t)
    BY <1>1, <1>3, <1>4, <2>2, <2>3, <2>4 DEF Queue!Refuse
  <2>6. QED  BY <2>5 DEF Queue!Next
<1>7. QED
  BY <1>5, <1>6 DEF Add, AddSignalFails, AddLockFails, AddUnlockFails

\* threadpool_destroy closes the queue, and disposes of it when every thread has
\* left: then nothing runs, and a graceful shutdown has left nothing pending.
LEMMA DestroyRefines ==
  ASSUME ~ SyncFaults, QueueInv, QueueInv', NEW d \in Destroyers, Destroy(d)
  PROVE  [Queue!Next]_(Queue!qvars)
<1>0. IInv /\ QueueIsRing /\ count \in Nat
  <2>1. IInv  BY DEF QueueInv, ShutdownInv
  <2>2. QED  BY <2>1, PendingIsWaiting DEF QueueIsRing
<1>1. UNCHANGED <<creation, ring, task, result, finished>>
  BY DEF Destroy, DestroyGoesOn, DestroyBegin, DestroyAgain, DestroyBroadcastFails,
     DestroyLockFails, DestroyJoin, DestroyReturns, DestroyReturnsError, fields, ring
<1>2. \A w \in Workers : worker'[w] = "run" <=> worker[w] = "run"
  <2>1. worker' = worker \/ Broadcast
    BY DEF Destroy, DestroyGoesOn, DestroyBegin, DestroyAgain,
      DestroyBroadcastFails,
       DestroyLockFails, DestroyJoin, DestroyReturns, DestroyReturnsError
  <2>2. QED  BY <1>0, <2>1, BroadcastWakes DEF IInv
<1>3. MovesNoTask
  BY <1>1, <1>2 DEF MovesNoTask, Slot, Wrap, ring
<1>4. /\ Pending' = Pending /\ Running' = Running /\ finished' = finished
      /\ Refused' = Refused /\ Capacity' = Capacity
  BY <1>0, <1>1, <1>2, <1>3, PendingSame, SameRunning
     DEF MovesNoTask, Refused, Capacity, ring, creation
<1>5. ASSUME live' = live, shutdown' = shutdown
      PROVE  UNCHANGED Queue!qvars
  <2>1. Phase' = Phase  BY <1>1, <1>5 DEF Phase, creation
  <2>2. QED  BY <1>4, <2>1 DEF Queue!qvars
<1>6. CASE \E graceful \in BOOLEAN : DestroyBegin(d, graceful)
  <2>1. PICK graceful \in BOOLEAN : DestroyBegin(d, graceful)  BY <1>6
  <2>2. /\ creator = "created" /\ creator' = "created"
        /\ live # {} /\ live' = live /\ shutdown = 0
        /\ shutdown' = IF graceful THEN GRACEFUL_SHUTDOWN ELSE IMMEDIATE_SHUTDOWN
    BY <2>1, <1>1 DEF DestroyBegin, Destroying, Usable, StillOpen, creation
  <2>3. /\ Phase = "open"
        /\ Phase' = IF graceful THEN "draining" ELSE "halted"
    BY <2>2 DEF Phase, GRACEFUL_SHUTDOWN, IMMEDIATE_SHUTDOWN
  <2>4. Queue!Close(graceful)
    BY <1>4, <2>3 DEF Queue!Close
  <2>5. QED  BY <2>4 DEF Queue!Next
<1>7. CASE DestroyReturns(d)
  <2>1. /\ destroyer[d] = "join" /\ destroyer'[d] = "returned" /\ shutdown' = shutdown
        /\ k[d] = thread_count
    BY <1>7, <1>0 DEF DestroyReturns, fields, IInv, TypeOK
  <2>2. creator = "created" /\ creator' = "created" /\ live' = {}
    BY <1>0, <1>1, <2>1 DEF QueueInv, ShutdownInv, DestroyFrees, IInv, JoinedExited,
      creation
  <2>3. CASE live = {}
    BY <1>5, <2>1, <2>2, <2>3
  <2>4. CASE live # {}
    <3>1. i > 0 /\ i <= MAX_THREADS /\ i \in Nat /\ thread_count = i
      BY <1>0, <2>2, PoolAssumption
         DEF QueueInv, ShutdownInv, CreatedInFull, IInv, TypeOK, BornInOrder
    <3>2. \A w \in Workers : w < i => worker[w] = "exited"
      BY <1>0, <2>1, <3>1 DEF IInv, JoinedExited
    <3>3. \A w \in Workers : ~ w < i => worker[w] = "unborn"
      BY <1>0, <2>2, <3>1 DEF IInv, BornInOrder, Workers
    <3>4. Running = {}
      BY <3>2, <3>3 DEF Running
    <3>5. shutdown # 0 /\ (shutdown = GRACEFUL_SHUTDOWN => count = 0)
      <4>1. 0 \in Workers /\ worker[0] = "exited"
        BY <3>1, <3>2, PoolAssumption DEF Workers
      <4>2. QED  BY <4>1 DEF QueueInv, ShutdownInv, LeftEmpty
    <3>6. count = 0 => Pending = << >>
      BY <1>0, EmptySeq DEF QueueIsRing
    <3>7. /\ \/ Phase = "draining" /\ Pending = << >>
             \/ Phase = "halted"
          /\ Phase' = "disposed"
      <4>1. Phase = IF shutdown = GRACEFUL_SHUTDOWN THEN "draining" ELSE "halted"
        BY <2>2, <2>4, <3>5 DEF Phase
      <4>2. Phase' = "disposed"  BY <2>2 DEF Phase
      <4>3. QED  BY <4>1, <4>2, <3>5, <3>6
    <3>8. Queue!Dispose
      BY <1>4, <3>4, <3>7 DEF Queue!Dispose
    <3>9. QED  BY <3>8 DEF Queue!Next
  <2>5. QED  BY <2>3, <2>4
<1>8. CASE DestroyAgain(d) \/ DestroyJoin(d) \/ DestroyReturnsError(d)
  BY <1>5, <1>8 DEF DestroyAgain, DestroyJoin, DestroyReturnsError, fields
<1>9. QED
  BY <1>6, <1>7, <1>8 DEF Destroy, DestroyGoesOn, DestroyBroadcastFails,
    DestroyLockFails

\* Where no pthread call fails, the pool with its ring, its lock, its condition
\* variable and its threads implements the bounded FIFO of TaskQueue, which is
\* all the rest of the server relies on.
THEOREM PoolImplementsQueue ==
  ASSUME ~ SyncFaults
  PROVE  Spec => ImplementsQueue
<1>1. Init => Queue!Init  BY QueueRefInit
<1>2. QueueInv /\ QueueInv' /\ [Next]_vars => [Queue!Next]_(Queue!qvars)
  <2> SUFFICES ASSUME QueueInv, QueueInv', [Next]_vars
               PROVE  [Queue!Next]_(Queue!qvars)
    OBVIOUS
  <2>1. CASE Create  BY <2>1, CreateRefines
  <2>2. CASE \E w \in Workers : WorkerStep(w) \/ SpuriousWake(w)
    BY <2>2, WorkerRefines
  <2>3. CASE \E t \in Tasks : Add(t)  BY <2>3, AddRefines
  <2>4. CASE \E d \in Destroyers : Destroy(d)  BY <2>4, DestroyRefines
  <2>5. CASE UNCHANGED vars
    BY <2>5 DEF vars, creation, fields, callers, Queue!qvars, Pending, Running,
      Refused,
       Phase, Capacity, Slot, Wrap
  <2>6. QED  BY <2>1, <2>2, <2>3, <2>4, <2>5 DEF Next
<1>3. QED
  BY <1>1, <1>2, QueueInvariant, PTL DEF Spec, ImplementsQueue, Queue!Spec
=============================================================================
