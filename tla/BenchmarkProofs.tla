--------------------------- MODULE BenchmarkProofs ---------------------------
(***************************************************************************)
(* Proofs about Benchmark for every list of calls, every number of threads *)
(* and requests: whatever the server does and however the threads overlap, *)
(* a printed result counts each request of its call exactly once.          *)
(***************************************************************************)
EXTENDS Benchmark, TLAPS

-----------------------------------------------------------------------------
(* Threads.                                                                *)

\* The calls are numbered from 1, and main is in one of them or at the end.
LEMMA RunsNumbered ==
  /\ DOMAIN Runs = 1..Len(Runs) /\ Len(Runs) \in Nat
  /\ \A r \in DOMAIN Runs : Runs[r].threads \in Nat \ {0} /\ Runs[r].requests \in Nat
<1>1. \A r \in DOMAIN Runs : Runs[r] \in [threads : Nat \ {0}, requests : Nat]
  <2> DEFINE Calls == [threads : Nat \ {0}, requests : Nat]
  <2>1. Runs \in Seq(Calls)
    BY BenchmarkAssumption
  <2> HIDE DEF Calls
  <2>2. \A r \in DOMAIN Runs : Runs[r] \in Calls
    BY <2>1
  <2>3. QED  BY <2>2 DEF Calls
<1>2. DOMAIN Runs = 1..Len(Runs) /\ Len(Runs) \in Nat
  BY BenchmarkAssumption
<1>3. QED  BY <1>1, <1>2

\* A thread is a call and an index of its arrays.
LEMMA ThreadsOfRuns ==
  /\ \A t \in Threads :
       /\ t[1] \in DOMAIN Runs /\ t[2] \in 0..Runs[t[1]].threads - 1 /\ t = <<t[1], t[2]>>
       /\ Runs[t[1]].threads \in Nat \ {0} /\ Runs[t[1]].requests \in Nat
  /\ \A r \in DOMAIN Runs : \A n \in 0..Runs[r].threads - 1 : <<r, n>> \in Threads
<1>1. \A r \in DOMAIN Runs : Runs[r].threads \in Nat \ {0} /\ Runs[r].requests \in Nat
  BY RunsNumbered
<1>2. ASSUME NEW t \in Threads
      PROVE  /\ t[1] \in DOMAIN Runs /\ t[2] \in 0..Runs[t[1]].threads - 1
             /\ t = <<t[1], t[2]>>
  BY DEF Threads
<1>3. ASSUME NEW r \in DOMAIN Runs, NEW n \in 0..Runs[r].threads - 1
      PROVE  <<r, n>> \in Threads
  BY DEF Threads
<1>4. QED  BY <1>1, <1>2, <1>3

\* What a thread does next is a place of the loop, "connect" just when there is
\* a request left.
LEMMA LoopPlaces ==
  ASSUME NEW n \in Nat
  PROVE  /\ Loop(n) \in Places /\ Loop(n) # "none" /\ Loop(n) \notin {"send", "recv"}
         /\ n > 0 <=> Loop(n) = "connect"
         /\ n = 0 <=> Loop(n) = "done"
  BY DEF Loop, Places

-----------------------------------------------------------------------------
(* main.                                                                   *)

\* The invariant holds at the start.
LEMMA InitInv ==
  ASSUME Init
  PROVE  IInv
<1> USE DEF Init, Zero, NotPrinted
<1>1. TypeOK
  BY BenchmarkAssumption, RunsNumbered DEF TypeOK, Places, Counters, Over
<1>2. LoopBounded /\ NotYetCreated
  BY RunsNumbered DEF LoopBounded, NotYetCreated, Running
<1>3. EachCountedOnce
  BY DEF EachCountedOnce
<1>4. JoinedAreDone /\ SumSoFar /\ TotalsAddUp
  BY DEF JoinedAreDone, SumSoFar, TotalsAddUp
<1>5. QED  BY <1>1, <1>2, <1>3, <1>4 DEF IInv

\* pthread_create: a thread of the call begins with all its requests.
LEMMA CreateThreadInv ==
  ASSUME IInv, CreateThread
  PROVE  IInv'
<1> DEFINE t == <<run, i>>
<1>1. /\ run \in DOMAIN Runs /\ i \in 0..Runs[run].threads - 1 /\ t \in Threads
      /\ Runs[run].requests \in Nat /\ t[1] = run /\ t[2] = i
  BY RunsNumbered, ThreadsOfRuns DEF IInv, TypeOK, CreateThread, Running
<1>2. /\ at' = [at EXCEPT ![t] = Loop(Runs[run].requests)]
      /\ left' = [left EXCEPT ![t] = Runs[run].requests]
      /\ i' = i + 1 /\ main = "create" /\ UNCHANGED <<run, main, sum, stats, sockets, reads, total>>
  BY DEF CreateThread
<1>3. at[t] = "none"
  BY <1>1, <1>2 DEF IInv, TypeOK, NotYetCreated
<1>4. /\ Loop(Runs[run].requests) \in Places /\ Loop(Runs[run].requests) # "none"
      /\ Loop(Runs[run].requests) \notin {"send", "recv"}
      /\ Runs[run].requests > 0 <=> Loop(Runs[run].requests) = "connect"
  BY <1>1, LoopPlaces
<1> HIDE DEF t
<1>5. /\ at \in [Threads -> Places] /\ left \in [Threads -> Nat]
      /\ at'[t] = Loop(Runs[run].requests) /\ left'[t] = Runs[run].requests
      /\ \A x \in Threads \ {t} : at'[x] = at[x] /\ left'[x] = left[x]
      /\ at' \in [Threads -> Places] /\ left' \in [Threads -> Nat]
  BY <1>1, <1>2, <1>4 DEF IInv, TypeOK
<1>6. TypeOK'
  BY <1>1, <1>2, <1>3, <1>4, <1>5 DEF IInv, TypeOK
<1>7. LoopBounded'
  BY <1>1, <1>2, RunsNumbered DEF IInv, LoopBounded, Running
<1>8. NotYetCreated'
  <2> SUFFICES ASSUME NEW x \in Threads, x[1] > run \/ (x[1] = run /\ x[2] >= i + 1)
               PROVE  at'[x] = "none"
    BY <1>2 DEF NotYetCreated
  <2>0. x[1] \in Nat /\ x[2] \in Nat
    <3>1. x[1] \in DOMAIN Runs /\ x[2] \in 0..Runs[x[1]].threads - 1
      BY ThreadsOfRuns
    <3>2. QED  BY <3>1, RunsNumbered
  <2>1. x # t /\ (x[1] > run \/ (x[1] = run /\ x[2] >= i))
    BY <2>0, <1>1
  <2>2. QED  BY <2>1, <1>2, <1>5 DEF IInv, NotYetCreated
<1>9. EachCountedOnce'
  <2> SUFFICES ASSUME NEW x \in Threads
               PROVE  /\ stats[x].completed + stats[x].failed + left'[x]
                           = IF at'[x] = "none" THEN 0 ELSE Runs[x[1]].requests
                      /\ left'[x] > 0 <=> at'[x] \in {"connect", "send", "recv"}
    BY <1>2 DEF EachCountedOnce
  <2>1. CASE x = t
    <3>1. stats[t].completed + stats[t].failed + left[t] = 0
      BY <1>1, <1>3 DEF IInv, EachCountedOnce
    <3>2. stats[t].completed \in Nat /\ stats[t].failed \in Nat /\ left[t] \in Nat
      BY <1>1 DEF IInv, TypeOK, Counters
    <3>3. stats[t].completed = 0 /\ stats[t].failed = 0
      <4>1. \A a, b, c \in Nat : a + b + c = 0 => a = 0 /\ b = 0
        OBVIOUS
      <4>2. QED  BY <3>1, <3>2, <4>1
    <3>4. QED  BY <2>1, <3>3, <1>1, <1>4, <1>5
  <2>2. CASE x # t
    BY <2>2, <1>5 DEF IInv, EachCountedOnce
  <2>3. QED  BY <2>1, <2>2
<1>10. JoinedAreDone' /\ SumSoFar' /\ TotalsAddUp'
  BY <1>2 DEF IInv, JoinedAreDone, SumSoFar, TotalsAddUp
<1>11. QED  BY <1>6, <1>7, <1>8, <1>9, <1>10 DEF IInv

\* The loops of main, from one to the next, and the next call after a failure.
LEMMA LoopsInv ==
  ASSUME IInv, CreateFails \/ AllCreated \/ AllJoined
  PROVE  IInv'
<1>1. /\ UNCHANGED <<at, left, stats, sockets, reads, total>> /\ run \in 1..Len(Runs)
      /\ i \in Nat /\ i <= Runs[run].threads /\ main \in {"create", "join"}
      /\ Len(Runs) \in Nat
      /\ \/ run' = run + 1 /\ i' = 0 /\ main' = "create" /\ sum' = sum
         \/ run' = run /\ i' = i /\ main' = "undefined" /\ sum' = sum
         \/ run' = run /\ i' = 0 /\ main' = "join" /\ sum' = sum
         \/ /\ run' = run /\ i' = 0 /\ main = "join" /\ main' = "add" /\ sum' = Zero
            /\ i = Runs[run].threads
  BY RunsNumbered DEF IInv, TypeOK, LoopBounded, CreateFails, AllCreated, AllJoined,
    Running, NextRun, thread
<1>2. TypeOK'
  BY <1>1 DEF IInv, TypeOK, Over, Counters, Zero
<1>3. LoopBounded'
  BY <1>1, RunsNumbered DEF LoopBounded, Running
<1>4. NotYetCreated'
  <2>1. \A t \in Threads : t[1] \in Nat
    BY ThreadsOfRuns, RunsNumbered
  <2>2. QED  BY <2>1, <1>1 DEF IInv, NotYetCreated
<1>5. EachCountedOnce'
  BY <1>1 DEF IInv, EachCountedOnce
<1>6. JoinedAreDone'
  BY <1>1 DEF IInv, JoinedAreDone
<1>7. SumSoFar'
  BY <1>1, RunsNumbered DEF SumSoFar, Zero
<1>8. TotalsAddUp'
  BY <1>1 DEF IInv, TotalsAddUp
<1>9. QED  BY <1>2, <1>3, <1>4, <1>5, <1>6, <1>7, <1>8 DEF IInv

\* pthread_join returns: the thread is done.
LEMMA JoinInv ==
  ASSUME IInv, Join
  PROVE  IInv'
<1>1. /\ UNCHANGED <<run, main, sum, at, left, stats, sockets, reads, total>>
      /\ run \in 1..Len(Runs) /\ i \in Nat /\ i < Runs[run].threads /\ main = "join"
      /\ at[<<run, i>>] = "done" /\ i' = i + 1
  BY RunsNumbered DEF IInv, TypeOK, Join, Joined, Running, thread
<1>2. TypeOK'
  BY <1>1 DEF IInv, TypeOK
<1>3. LoopBounded'
  BY <1>1, RunsNumbered DEF LoopBounded, Running
<1>4. NotYetCreated' /\ EachCountedOnce' /\ SumSoFar' /\ TotalsAddUp'
  BY <1>1 DEF IInv, NotYetCreated, EachCountedOnce, SumSoFar, TotalsAddUp
<1>5. JoinedAreDone'
  <2>1. \A n \in 0..(i + 1) - 1 : n \in 0..i - 1 \/ n = i
    BY <1>1
  <2>2. QED  BY <2>1, <1>1 DEF IInv, JoinedAreDone
<1>6. QED  BY <1>2, <1>3, <1>4, <1>5 DEF IInv

\* The counters of a thread that is done are all its requests.
LEMMA AddInv ==
  ASSUME IInv, Add
  PROVE  IInv'
<1> DEFINE t == <<run, i>>
<1>1. /\ UNCHANGED <<run, main, at, left, stats, sockets, reads, total>>
      /\ run \in 1..Len(Runs) /\ i \in Nat /\ i < Runs[run].threads /\ main = "add"
      /\ i' = i + 1
      /\ sum' = [completed |-> sum.completed + stats[t].completed,
                 failed |-> sum.failed + stats[t].failed]
  BY RunsNumbered DEF IInv, TypeOK, Add, Running, thread
<1>2. t \in Threads /\ t[1] = run /\ at[t] = "done"
  <2>1. t \in Threads /\ i \in 0..Runs[run].threads - 1
    BY <1>1, ThreadsOfRuns, RunsNumbered
  <2>2. QED  BY <2>1, <1>1 DEF IInv, JoinedAreDone
<1> HIDE DEF t
<1>3. /\ stats[t].completed \in Nat /\ stats[t].failed \in Nat /\ left[t] \in Nat
      /\ sum.completed \in Nat /\ sum.failed \in Nat
  BY <1>2 DEF IInv, TypeOK, Counters
<1>4. stats[t].completed + stats[t].failed = Runs[run].requests
  <2>1. ~ (left[t] > 0)
    BY <1>2 DEF IInv, EachCountedOnce
  <2>2. stats[t].completed + stats[t].failed + left[t] = Runs[run].requests
    BY <1>2 DEF IInv, EachCountedOnce
  <2>3. QED  BY <2>1, <2>2, <1>3
<1>5. TypeOK'
  <2>1. \A a, b \in Nat : a + b \in Nat
    OBVIOUS
  <2>2. sum' \in Counters /\ i' \in Nat
    BY <2>1, <1>1, <1>3 DEF Counters
  <2>3. QED  BY <2>2, <1>1 DEF IInv, TypeOK
<1>6. LoopBounded'
  BY <1>1, RunsNumbered DEF LoopBounded, Running
<1>7. NotYetCreated' /\ EachCountedOnce' /\ JoinedAreDone' /\ TotalsAddUp'
  BY <1>1 DEF IInv, NotYetCreated, EachCountedOnce, JoinedAreDone, TotalsAddUp
<1>8. SumSoFar'
  <2>1. sum.completed + sum.failed = i * Runs[run].requests
    BY <1>1 DEF IInv, SumSoFar
  <2>2. sum'.completed + sum'.failed = i * Runs[run].requests + Runs[run].requests
    <3>1. \A a, b, c, d \in Nat : (a + c) + (b + d) = (a + b) + (c + d)
      OBVIOUS
    <3>2. sum'.completed + sum'.failed
            = (sum.completed + sum.failed) + (stats[t].completed + stats[t].failed)
      BY <3>1, <1>1, <1>3
    <3>3. QED  BY <3>2, <2>1, <1>4
  <2>3. (i + 1) * Runs[run].requests = i * Runs[run].requests + Runs[run].requests
    <3>1. \A a, b \in Nat : (a + 1) * b = a * b + b
      OBVIOUS
    <3>2. Runs[run].requests \in Nat
      BY <1>1, RunsNumbered
    <3>3. QED  BY <3>1, <3>2, <1>1
  <2>4. QED  BY <2>2, <2>3, <1>1 DEF SumSoFar
<1>9. QED  BY <1>5, <1>6, <1>7, <1>8 DEF IInv

\* A result is printed: it is the sum over all threads of the call.
LEMMA PrintInv ==
  ASSUME IInv, PrintTotals
  PROVE  IInv'
<1>1. /\ UNCHANGED <<sum, at, left, stats, sockets, reads>>
      /\ run \in 1..Len(Runs) /\ i = Runs[run].threads /\ main = "add"
      /\ total' = [total EXCEPT ![run] = sum]
      /\ run' = run + 1 /\ i' = 0 /\ main' = "create"
  BY RunsNumbered DEF IInv, TypeOK, PrintTotals, Running, NextRun, thread
<1>2. /\ total \in [DOMAIN Runs -> Counters \cup {NotPrinted}]
      /\ sum \in Counters /\ run \in DOMAIN Runs
      /\ total' \in [DOMAIN Runs -> Counters \cup {NotPrinted}]
      /\ total'[run] = sum /\ \A r \in DOMAIN Runs \ {run} : total'[r] = total[r]
  BY <1>1, RunsNumbered DEF IInv, TypeOK
<1>3. TypeOK'
  BY <1>1, <1>2, RunsNumbered DEF IInv, TypeOK
<1>4. LoopBounded'
  BY <1>1, RunsNumbered DEF LoopBounded, Running
<1>5. NotYetCreated'
  <2>1. \A t \in Threads : t[1] \in Nat
    BY ThreadsOfRuns, RunsNumbered
  <2>2. QED  BY <2>1, <1>1 DEF IInv, NotYetCreated
<1>6. EachCountedOnce' /\ JoinedAreDone' /\ SumSoFar'
  BY <1>1 DEF IInv, EachCountedOnce, JoinedAreDone, SumSoFar
<1>7. TotalsAddUp'
  <2>1. sum.completed + sum.failed = Runs[run].threads * Runs[run].requests
    BY <1>1 DEF IInv, SumSoFar
  <2>2. QED  BY <2>1, <1>2 DEF IInv, TotalsAddUp
<1>8. QED  BY <1>3, <1>4, <1>5, <1>6, <1>7 DEF IInv

-----------------------------------------------------------------------------
(* benchmark_thread.                                                       *)

\* A thread goes on with its request: nothing is counted and nothing is done yet.
LEMMA RequestInv ==
  ASSUME IInv, NEW t \in Threads, Connect(t) \/ Send(t) \/ Receive(t)
  PROVE  IInv'
<1>1. /\ UNCHANGED <<run, i, main, sum, total, left, stats>>
      /\ at[t] \in {"connect", "send", "recv"}
      /\ \/ /\ at[t] = "connect" /\ at' = [at EXCEPT ![t] = "send"]
            /\ sockets' = sockets \cup {t} /\ reads' = reads
         \/ /\ at[t] = "send" /\ at' = [at EXCEPT ![t] = "recv"]
            /\ sockets' = sockets /\ reads' = reads
         \/ /\ at[t] = "recv" /\ at' = at /\ sockets' = sockets
            /\ reads[t] < MaxReads /\ reads' = [reads EXCEPT ![t] = @ + 1]
  BY DEF Connect, Send, Receive, Goto, Others
<1>2. /\ at \in [Threads -> Places] /\ at' \in [Threads -> Places]
      /\ at'[t] \in {"send", "recv"}
      /\ \A x \in Threads \ {t} : at'[x] = at[x]
  BY <1>1 DEF IInv, TypeOK, Places
<1>3. sockets' = {x \in Threads : at'[x] \in {"send", "recv"}}
  BY <1>1, <1>2 DEF IInv, TypeOK
<1>4. reads' \in [Threads -> 0..MaxReads]
  <2>1. reads \in [Threads -> 0..MaxReads]
    BY DEF IInv, TypeOK
  <2>2. reads[t] < MaxReads => reads[t] + 1 \in 0..MaxReads
    BY <2>1, BenchmarkAssumption
  <2>3. QED  BY <2>1, <2>2, <1>1
<1>5. TypeOK'
  BY <1>1, <1>2, <1>3, <1>4 DEF IInv, TypeOK
<1>6. LoopBounded' /\ SumSoFar' /\ TotalsAddUp'
  BY <1>1 DEF IInv, LoopBounded, SumSoFar, TotalsAddUp, Running
<1>7. NotYetCreated'
  BY <1>1, <1>2 DEF IInv, NotYetCreated
<1>8. EachCountedOnce'
  BY <1>1, <1>2 DEF IInv, EachCountedOnce
<1>9. JoinedAreDone'
  <2>1. \A r, n : at[<<r, n>>] = "done" /\ <<r, n>> \in Threads => at'[<<r, n>>] = "done"
    BY <1>1, <1>2
  <2>2. main \in {"join", "add"} =>
          \A n \in 0..Runs[run].threads - 1 : <<run, n>> \in Threads
    BY ThreadsOfRuns, RunsNumbered DEF IInv, TypeOK, LoopBounded, Running
  <2>3. main = "join" => \A n \in 0..i - 1 : n \in 0..Runs[run].threads - 1
    <3>1. main = "join" => /\ i \in Nat /\ i <= Runs[run].threads
                           /\ Runs[run].threads \in Nat
      BY RunsNumbered DEF IInv, TypeOK, LoopBounded, Running
    <3>2. QED  BY <3>1
  <2>4. QED  BY <2>1, <2>2, <2>3, <1>1 DEF IInv, JoinedAreDone
<1>10. QED  BY <1>5, <1>6, <1>7, <1>8, <1>9 DEF IInv

\* A request is over, completed or failed: it is counted once, and no socket is
\* left open.
LEMMA CountInv ==
  ASSUME IInv, NEW t \in Threads,
         ConnectFails(t) \/ SendFails(t) \/ Complete(t) \/ TimedOut(t)
  PROVE  IInv'
<1>1. PICK counter \in {"completed", "failed"} :
        stats' = [stats EXCEPT ![t][counter] = @ + 1]
  BY DEF ConnectFails, SendFails, Complete, TimedOut, Close, Count
<1>2. /\ UNCHANGED <<run, i, main, sum, total>>
      /\ at[t] \in {"connect", "send", "recv"}
      /\ left' = [left EXCEPT ![t] = @ - 1]
      /\ at' = [at EXCEPT ![t] = Loop(left[t] - 1)]
      /\ \/ at[t] = "connect" /\ sockets' = sockets /\ reads' = reads
         \/ sockets' = sockets \ {t} /\ reads' = [reads EXCEPT ![t] = 0]
  BY DEF ConnectFails, SendFails, Complete, TimedOut, Close, Count, Goto, Others
<1>3. left[t] \in Nat /\ left[t] > 0 /\ left[t] - 1 \in Nat
  BY <1>2 DEF IInv, TypeOK, EachCountedOnce
<1> DEFINE next == Loop(left[t] - 1)
<1>4. /\ next \in Places /\ next # "none" /\ next \notin {"send", "recv"}
      /\ left[t] - 1 > 0 <=> next = "connect"
  BY <1>3, LoopPlaces
<1> HIDE DEF next
<1>5. /\ at \in [Threads -> Places] /\ at' \in [Threads -> Places] /\ at'[t] = next
      /\ left' \in [Threads -> Nat] /\ left'[t] = left[t] - 1
      /\ \A x \in Threads \ {t} : at'[x] = at[x] /\ left'[x] = left[x]
  BY <1>2, <1>3, <1>4 DEF IInv, TypeOK, next
<1>6. /\ stats' \in [Threads -> Counters]
      /\ stats'[t].completed + stats'[t].failed
           = (stats[t].completed + stats[t].failed) + 1
      /\ \A x \in Threads \ {t} : stats'[x] = stats[x]
  <2>1. /\ stats \in [Threads -> Counters]
        /\ stats[t].completed \in Nat /\ stats[t].failed \in Nat
    BY DEF IInv, TypeOK, Counters
  <2>2. CASE counter = "completed"
    BY <2>1, <2>2, <1>1 DEF Counters
  <2>3. CASE counter = "failed"
    BY <2>1, <2>3, <1>1 DEF Counters
  <2>4. QED  BY <2>2, <2>3
<1>7. sockets' = {x \in Threads : at'[x] \in {"send", "recv"}}
  BY <1>2, <1>4, <1>5 DEF IInv, TypeOK
<1>8. reads' \in [Threads -> 0..MaxReads]
  <2>1. reads \in [Threads -> 0..MaxReads] /\ 0 \in 0..MaxReads
    BY BenchmarkAssumption DEF IInv, TypeOK
  <2>2. QED  BY <2>1, <1>2
<1>9. TypeOK'
  BY <1>2, <1>5, <1>6, <1>7, <1>8 DEF IInv, TypeOK
<1>10. LoopBounded' /\ SumSoFar' /\ TotalsAddUp'
  BY <1>2 DEF IInv, LoopBounded, SumSoFar, TotalsAddUp, Running
<1>11. NotYetCreated'
  BY <1>2, <1>5 DEF IInv, NotYetCreated
<1>12. EachCountedOnce'
  <2> SUFFICES ASSUME NEW x \in Threads
               PROVE  /\ stats'[x].completed + stats'[x].failed + left'[x]
                           = IF at'[x] = "none" THEN 0 ELSE Runs[x[1]].requests
                      /\ left'[x] > 0 <=> at'[x] \in {"connect", "send", "recv"}
    BY DEF EachCountedOnce
  <2>1. CASE x = t
    <3>1. stats[t].completed + stats[t].failed + left[t] = Runs[t[1]].requests
      BY <1>2 DEF IInv, EachCountedOnce
    <3>2. stats[t].completed \in Nat /\ stats[t].failed \in Nat
      BY DEF IInv, TypeOK, Counters
    <3>3. stats'[t].completed + stats'[t].failed + left'[t] = Runs[t[1]].requests
      BY <3>1, <3>2, <1>3, <1>5, <1>6
    <3>4. QED  BY <2>1, <3>3, <1>3, <1>4, <1>5
  <2>2. CASE x # t
    BY <2>2, <1>5, <1>6 DEF IInv, EachCountedOnce
  <2>3. QED  BY <2>1, <2>2
<1>13. JoinedAreDone'
  <2>1. \A r, n : at[<<r, n>>] = "done" /\ <<r, n>> \in Threads => at'[<<r, n>>] = "done"
    BY <1>2, <1>5
  <2>2. main \in {"join", "add"} =>
          \A n \in 0..Runs[run].threads - 1 : <<run, n>> \in Threads
    BY ThreadsOfRuns, RunsNumbered DEF IInv, TypeOK, LoopBounded, Running
  <2>3. main = "join" => \A n \in 0..i - 1 : n \in 0..Runs[run].threads - 1
    <3>1. main = "join" => /\ i \in Nat /\ i <= Runs[run].threads
                           /\ Runs[run].threads \in Nat
      BY RunsNumbered DEF IInv, TypeOK, LoopBounded, Running
    <3>2. QED  BY <3>1
  <2>4. QED  BY <2>1, <2>2, <2>3, <1>2 DEF IInv, JoinedAreDone
<1>14. QED  BY <1>9, <1>10, <1>11, <1>12, <1>13 DEF IInv

\* SIGPIPE ends the program where it is.
LEMMA SendBreaksInv ==
  ASSUME IInv, NEW t \in Threads, SendBreaks(t)
  PROVE  IInv'
<1>1. /\ UNCHANGED <<run, i, sum, total, at, left, stats, sockets, reads>>
      /\ main' = "killed"
  BY DEF SendBreaks, thread
<1>2. TypeOK'
  BY <1>1 DEF IInv, TypeOK, Over
<1>3. QED
  BY <1>1, <1>2 DEF IInv, LoopBounded, NotYetCreated, EachCountedOnce, JoinedAreDone,
    SumSoFar, TotalsAddUp, Running

-----------------------------------------------------------------------------
(* The theorems.                                                           *)

\* What main, its threads and the server do keeps every thread's requests counted
\* once, and every printed result complete (run_benchmark, benchmark_thread).
THEOREM BenchmarkInvariant == Spec => []IInv
<1>1. Init => IInv
  BY InitInv
<1>2. IInv /\ [Next]_vars => IInv'
  <2> SUFFICES ASSUME IInv, [Next]_vars PROVE IInv'
    OBVIOUS
  <2>1. CASE Main
    BY <2>1, CreateThreadInv, LoopsInv, JoinInv, AddInv, PrintInv DEF Main
  <2>2. ASSUME NEW t \in Threads, ThreadStep(t) \/ Answer(t)  PROVE IInv'
    BY <2>2, RequestInv, CountInv, SendBreaksInv DEF ThreadStep, Answer
  <2>3. CASE UNCHANGED vars
    BY <2>3 DEF vars, thread, IInv, TypeOK, LoopBounded, NotYetCreated, EachCountedOnce,
      JoinedAreDone, SumSoFar, TotalsAddUp, Running
  <2>4. QED  BY <2>1, <2>2, <2>3 DEF Next
<1>3. QED  BY <1>1, <1>2, PTL DEF Spec

\* The loops of main stay in the arrays of their call, and a thread has a socket
\* open just while it talks to the server (create_connection, send_http_request).
THEOREM BenchmarkTypes == Spec => []TypeOK
<1>1. IInv => TypeOK  BY DEF IInv
<1>2. QED  BY <1>1, BenchmarkInvariant, PTL

\* A printed result counts each request of its call once, as completed or failed,
\* for any number of threads and requests and any server (run_benchmark).
THEOREM PrintedTotalsAddUp == Spec => []TotalsAddUp
<1>1. IInv => TotalsAddUp  BY DEF IInv
<1>2. QED  BY <1>1, BenchmarkInvariant, PTL
=============================================================================
