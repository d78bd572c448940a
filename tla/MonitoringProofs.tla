-------------------------- MODULE MonitoringProofs --------------------------
(***************************************************************************)
(* Proofs about Monitoring for any number of threads and calls, any size   *)
(* of the array and any times: the list of events is always the latest     *)
(* part of all that was recorded, although a full list takes no event and  *)
(* a cleanup may run between any two calls, and detect_brute_force sees    *)
(* the failures it must see although its clock is old when it scans.       *)
(***************************************************************************)
EXTENDS Monitoring, FiniteSetTheorems, SequenceTheorems, TLAPS

-----------------------------------------------------------------------------
(* Numbers.  The theorems of the library that take a property as a         *)
(* parameter cannot be instantiated by the provers; a property is as good  *)
(* as the set of the numbers that have it.                                 *)

\* A set of natural numbers that is not empty has a least element.
LEMMA LeastOfNumbers ==
  ASSUME NEW S, S \subseteq Nat, S # {}
  PROVE  \E least \in S : \A n \in S : least <= n
<1> DEFINE Less == {pair \in Nat \X Nat : pair[1] < pair[2]}
<1>1. IsWellFoundedOn(Less, Nat)
  BY NatLessThanWellFounded DEF OpToRel
<1>2. PICK least \in S : \A n \in S : <<n, least>> \notin Less
  <2> HIDE DEF Less
  <2>1. QED  BY <1>1, WFMin, Zenon
<1>3. \A n \in S : <<n, least>> \in Nat \X Nat
  OBVIOUS
<1>4. \A n \in S : ~ (n < least)
  BY <1>2, <1>3
<1>5. QED  BY <1>4

\* What holds of 0, and of n + 1 when it holds of n, holds of every number.
LEMMA NumberInduction ==
  ASSUME NEW S, 0 \in S, \A n \in Nat : n \in S => n + 1 \in S
  PROVE  Nat \subseteq S
<1> SUFFICES ASSUME Nat \ S # {} PROVE FALSE
  OBVIOUS
<1>1. PICK least \in Nat \ S : \A n \in Nat \ S : least <= n
  BY LeastOfNumbers, Zenon
<1>2. least # 0 /\ least - 1 \in Nat /\ least - 1 < least
  BY <1>1
<1>3. least - 1 \in S
  BY <1>1, <1>2
<1>4. QED  BY <1>1, <1>2, <1>3

-----------------------------------------------------------------------------
(* What the operators of the model do.                                     *)

\* The two sequences and their lengths.
LEMMA ListsTyped ==
  ASSUME TypeOK
  PROVE  /\ security_events \in Seq(Events) /\ recorded \in Seq(Events)
         /\ file \in Seq(Events)
         /\ Len(security_events) \in Nat /\ Len(recorded) \in Nat /\ Len(file) \in Nat
         /\ DOMAIN security_events = 1..Len(security_events)
         /\ DOMAIN recorded = 1..Len(recorded) /\ DOMAIN file = 1..Len(file)
         /\ \A n \in DOMAIN security_events : security_events[n] \in Events
         /\ \A n \in DOMAIN recorded : recorded[n] \in Events
         /\ \A n \in DOMAIN file : file[n] \in Events
         /\ \A e \in Events : e.time \in 0..MaxTime /\ e.source \in Sources
<1>1. /\ security_events \in Seq(Events) /\ recorded \in Seq(Events)
      /\ file \in Seq(Events)
  BY DEF TypeOK
<1>2. \A e \in Events : e.time \in 0..MaxTime /\ e.source \in Sources
  BY DEF Events
<1>3. QED  BY <1>1, <1>2, LenProperties, ElementOfSeq

\* Sets of positions of which one holds the other's, moved by a distance.
LEMMA MovedNoLarger ==
  ASSUME NEW P \in SUBSET Int, NEW Q \in SUBSET Int, NEW d \in Int, IsFiniteSet(Q),
         \A n \in P : n + d \in Q
  PROVE  Cardinality(P) <= Cardinality(Q)
<1> DEFINE move == [n \in P |-> n + d]
<1>1. move \in Injection(P, Q)
  BY DEF Injection, IsInjective
<1>2. QED  BY <1>1, FS_Injection

\* The number of failures is a number, and no smaller in a list that has all the
\* late enough events of another, at the same distance from the end.
LEMMA FailuresMoved ==
  ASSUME NEW less \in Seq(Events), NEW more \in Seq(Events),
         NEW ip, NEW start \in Int, NEW earlier \in Int, earlier <= start,
         \A n \in 1..Len(less) :
           less[n].time >= start => (Len(more) - Len(less)) + n \in 1..Len(more),
         \A n \in 1..Len(less) :
           less[n].time >= start => more[(Len(more) - Len(less)) + n] = less[n]
  PROVE  /\ Failures(less, ip, start) \in Nat
         /\ Failures(more, ip, earlier) \in Nat
         /\ Failures(less, ip, start) <= Failures(more, ip, earlier)
<1> DEFINE Positions(events, from) ==
             {n \in DOMAIN events :
                /\ events[n].time >= from
                /\ events[n].source = [ip |-> ip, type |-> "AUTH_FAILURE"]}
           d == Len(more) - Len(less)
           P == Positions(less, start)
           Q == Positions(more, earlier)
<1>1. DOMAIN less = 1..Len(less) /\ DOMAIN more = 1..Len(more)
      /\ Len(less) \in Nat /\ Len(more) \in Nat
  BY LenProperties
<1>2. IsFiniteSet(P) /\ IsFiniteSet(Q)
  <2>1. IsFiniteSet(1..Len(less)) /\ IsFiniteSet(1..Len(more))
    BY <1>1, FS_Interval
  <2>2. P \in SUBSET (1..Len(less)) /\ Q \in SUBSET (1..Len(more))
    BY <1>1
  <2>3. QED  BY <2>1, <2>2, FS_Subset
<1>3. \A n \in 1..Len(less) : less[n].time \in Int
  <2>1. \A e \in Events : e.time \in Int
    BY MonitoringAssumption DEF Events
  <2>2. \A n \in 1..Len(less) : less[n] \in Events
    BY ElementOfSeq
  <2>3. QED  BY <2>1, <2>2
<1>4. d \in Int /\ \A n \in P : n + d \in Q
  <2>1. d \in Int /\ \A n \in P : n + d = d + n
    BY <1>1
  <2>2. \A n \in P : d + n \in DOMAIN more /\ more[d + n] = less[n]
    BY <1>1
  <2> HIDE DEF d
  <2>3. QED  BY <2>1, <2>2, <1>1, <1>3
<1>5. P \in SUBSET Int /\ Q \in SUBSET Int
  BY <1>1
<1>6. /\ Failures(less, ip, start) = Cardinality(P)
      /\ Failures(more, ip, earlier) = Cardinality(Q)
  BY DEF Failures
<1> HIDE DEF P, Q, d
<1>7. QED  BY <1>2, <1>4, <1>5, <1>6, MovedNoLarger, FS_CardinalityType

\* A cleanup removes the first entries and no other: the list is in the order of
\* the times, so that what has expired is in front.
LEMMA KeptIsEnd ==
  ASSUME IInv, NEW c, c.now \in Int
  PROVE  \E k \in 0..Len(security_events) :
           /\ Kept(c) = SubSeq(security_events, k + 1, Len(security_events))
           /\ \A n \in 1..k : Expired(c, security_events[n])
<1> USE MonitoringAssumption
<1> DEFINE N == Len(security_events)
           Old(n) == Expired(c, security_events[n])
           Ends == {k \in 0..N : \A n \in k+1..N : ~ Old(n)}
<1>a. TypeOK /\ Chronological /\ LatestHeld
  BY DEF IInv
<1>b. /\ security_events \in Seq(Events) /\ N \in Nat
      /\ \A n \in 1..N : security_events[n] \in Events
      /\ \A n \in 1..N : security_events[n].time \in Int
  BY <1>a, ListsTyped
<1>1. Ends \subseteq Nat /\ N \in Ends
  BY <1>b
<1>2. PICK k \in Ends : \A n \in Ends : k <= n
  BY <1>1, LeastOfNumbers
<1>3. \A n \in k+1..N : ~ Old(n)
  BY <1>2
<1>4. k # 0 => Old(k)
  <2> SUFFICES ASSUME k # 0, ~ Old(k) PROVE FALSE
    OBVIOUS
  <2> HIDE DEF Old
  <2>1. k - 1 \in 0..N /\ k \in 0..N
    BY <1>b, <1>2
  <2>2. \A n \in (k-1)+1..N : n = k \/ n \in k+1..N
    BY <1>b, <2>1
  <2>3. k - 1 \in Ends
    BY <2>1, <2>2, <1>3
  <2>4. k <= k - 1 /\ k \in Int
    <3> HIDE DEF Ends
    <3>1. QED  BY <2>1, <2>3, <1>2
  <2>5. QED  BY <2>4
<1>5. \A n \in 1..k : Old(n)
  <2> SUFFICES ASSUME NEW n \in 1..k PROVE Old(n)
    OBVIOUS
  <2>1. k \in 1..N /\ n \in 1..N /\ n <= k /\ Old(k)
    BY <1>b, <1>2, <1>4
  <2>a. /\ Len(recorded) \in Nat /\ DOMAIN recorded = 1..Len(recorded)
        /\ DOMAIN security_events = 1..N /\ Dropped = Len(recorded) - N
        /\ Dropped >= 0
    BY <1>a, ListsTyped DEF LatestHeld, Dropped
  <2>b. /\ \A m \in 1..N : security_events[m] = recorded[Dropped + m]
    BY <1>a, <2>a DEF LatestHeld
  <2>2. /\ security_events[n] = recorded[Dropped + n]
        /\ security_events[k] = recorded[Dropped + k]
        /\ Dropped + n \in DOMAIN recorded /\ Dropped + k \in DOMAIN recorded
        /\ Dropped + n <= Dropped + k
    BY <1>b, <2>1, <2>a, <2>b
  <2>3. security_events[n].time <= security_events[k].time
    BY <1>a, <2>2 DEF Chronological
  <2>4. QED  BY <1>b, <2>1, <2>3 DEF Expired
<1> DEFINE g == [n \in 0..N |-> IF n <= k THEN <<>> ELSE SubSeq(security_events, k + 1, n)]
           Body1(f, n) == IF n = 0 THEN <<>>
                          ELSE IF Old(n) THEN f[n-1]
                               ELSE Append(f[n-1], security_events[n])
           Loop(f) == f = [n \in 0..N |-> Body1(f, n)]
           chosen == CHOOSE f : Loop(f)
<1>6. \A n \in 0..N : g[n] = Body1(g, n)
  <2> SUFFICES ASSUME NEW n \in 0..N PROVE g[n] = Body1(g, n)
    OBVIOUS
  <2> HIDE DEF Old
  <2>1. CASE n = 0
    BY <2>1, <1>b, <1>2
  <2>2. CASE n # 0 /\ n <= k
    BY <2>2, <1>b, <1>2, <1>5
  <2>3. CASE n # 0 /\ n > k
    <3>1. ~ Old(n) /\ n \in 1..N /\ n - 1 \in 0..N /\ k \in Nat
      BY <2>3, <1>b, <1>2, <1>3
    <3>2. Body1(g, n) = Append(g[n-1], security_events[n])
      BY <3>1, <2>3
    <3>3. /\ g[n-1] \in Seq(Events) /\ Len(g[n-1]) = n - 1 - k
          /\ \A m \in 1..n-1-k : g[n-1][m] = security_events[k + m]
      <4>1. CASE n - 1 = k
        BY <4>1, <3>1, EmptySeq
      <4>2. CASE n - 1 # k
        <5>1. g[n-1] = SubSeq(security_events, k + 1, n - 1)
          BY <4>2, <3>1, <2>3
        <5>2. \A m \in k+1..n-1 : security_events[m] \in Events
          BY <1>b, <3>1
        <5>3. QED  BY <5>1, <5>2, <4>2, <3>1, <2>3, SubSeqProperties
      <4>3. QED  BY <4>1, <4>2
    <3>4. /\ g[n] \in Seq(Events) /\ Len(g[n]) = n - k
          /\ \A m \in 1..n-k : g[n][m] = security_events[k + m]
      <4>1. g[n] = SubSeq(security_events, k + 1, n)
        <5>1. ~ (n <= k)
          BY <3>1, <2>3
        <5>2. QED  BY <5>1
      <4>2. \A m \in k+1..n : security_events[m] \in Events
        BY <1>b, <3>1
      <4>3. n - (k + 1) + 1 = n - k /\ k + 1 <= n /\ n \in Int /\ k + 1 \in Int
            /\ \A m \in 1..n-k : (k + 1) + m - 1 = k + m
        <5>1. n \in Int /\ k \in Int /\ k < n
          BY <3>1, <2>3
        <5>2. QED  BY ONLY <5>1
      <4> HIDE DEF g
      <4>4. QED  BY <4>1, <4>2, <4>3, SubSeqProperties
    <3> DEFINE longer == Append(g[n-1], security_events[n])
    <3> HIDE DEF g
    <3>5. /\ longer \in Seq(Events) /\ Len(longer) = n - k
          /\ \A m \in 1..n-1-k : longer[m] = security_events[k + m]
          /\ longer[n-k] = security_events[n]
      <4>1. security_events[n] \in Events /\ (n - 1 - k) + 1 = n - k
        BY <1>b, <3>1
      <4>2. QED  BY SMTT(20), <3>3, <4>1, AppendProperties
    <3> HIDE DEF longer
    <3>6. \A m \in 1..n-k : longer[m] = g[n][m]
      <4> SUFFICES ASSUME NEW m \in 1..n-k PROVE longer[m] = g[n][m]
        OBVIOUS
      <4>1. CASE m = n - k
        <5>1. k + (n - k) = n
          BY <3>1
        <5>2. QED  BY <4>1, <5>1, <3>4, <3>5
      <4>2. CASE m # n - k
        BY <4>2, <3>1, <3>4, <3>5
      <4>3. QED  BY <4>1, <4>2
    <3>7. longer = g[n]
      BY <3>4, <3>5, <3>6, SeqEqual
    <3>8. QED  BY <3>2, <3>7 DEF longer
  <2>4. QED  BY <2>1, <2>2, <2>3
<1>7. Loop(g)
  <2>1. g = [n \in 0..N |-> g[n]]
    OBVIOUS
  <2> HIDE DEF g, Body1
  <2>2. QED  BY <2>1, <1>6
<1>8. Kept(c) = chosen[N]
  BY DEF Kept
<1>9. Loop(chosen)
  <2> HIDE DEF Loop, g
  <2>1. QED  BY <1>7
<1> HIDE DEF chosen, g
<1>10. \A n \in 0..N : chosen[n] = Body1(chosen, n)
  <2> HIDE DEF Body1
  <2>1. QED  BY <1>9
<1>11. \A n \in Nat : n <= N => chosen[n] = g[n]
  <2> DEFINE Agree == {n \in Nat : n <= N => chosen[n] = g[n]}
  <2> HIDE DEF Old
  <2>1. 0 \in Agree
    <3>1. 0 \in 0..N
      BY <1>b
    <3>2. Body1(chosen, 0) = <<>> /\ Body1(g, 0) = <<>>
      OBVIOUS
    <3>3. QED  BY <3>1, <3>2, <1>6, <1>10
  <2>2. ASSUME NEW n \in Nat, n \in Agree  PROVE n + 1 \in Agree
    <3> SUFFICES ASSUME n + 1 <= N PROVE chosen[n+1] = g[n+1]
      OBVIOUS
    <3>1. n + 1 \in 0..N /\ chosen[n] = g[n] /\ (n + 1) - 1 = n
      BY <2>2, <1>b
    <3>2. Body1(chosen, n + 1) = Body1(g, n + 1)
      BY <3>1
    <3> HIDE DEF Body1
    <3>3. QED  BY <3>1, <3>2, <1>6, <1>10
  <2>3. Nat \subseteq Agree
    <3> HIDE DEF Agree
    <3>1. QED  BY <2>1, <2>2, NumberInduction
  <2>4. QED  BY <2>3
<1>12. Kept(c) = SubSeq(security_events, k + 1, N)
  <2>1. chosen[N] = g[N]
    BY <1>11, <1>b
  <2>2. g[N] = IF N <= k THEN <<>> ELSE SubSeq(security_events, k + 1, N)
    BY <1>b DEF g
  <2>3. N <= k => SubSeq(security_events, k + 1, N) = <<>>
    BY <1>b, <1>2, SubSeqEmpty
  <2>4. QED  BY <2>1, <2>2, <2>3, <1>8
<1>13. QED  BY <1>12, <1>5, <1>2

-----------------------------------------------------------------------------
(* The invariant is inductive.                                             *)

\* The invariant holds at the start.
LEMMA InitInv ==
  ASSUME Init
  PROVE  IInv
<1> USE MonitoringAssumption DEF Init
<1>1. TypeOK
  BY EmptySeq DEF TypeOK, Inside
<1>2. CallsFit
  BY DEF CallsFit, Nothing
<1>3. Chronological /\ LatestHeld /\ OwnIsLast
  BY EmptySeq DEF Chronological, LatestHeld, Dropped, OwnIsLast
<1>4. LinesFollow
  <2>1. DOMAIN file = {} /\ DOMAIN recorded = {}
    OBVIOUS
  <2>2. [n \in {} |-> 0] \in [DOMAIN file -> DOMAIN recorded]
    BY <2>1
  <2>3. QED  BY <2>1, <2>2 DEF LinesFollow
<1>5. QED  BY <1>1, <1>2, <1>3, <1>4 DEF IInv

\* A thread is at one place, and in one call.
LEMMA PlacesTyped ==
  ASSUME TypeOK
  PROVE  /\ at \in [Threads -> Inside \cup {"idle", "lock"}]
         /\ call \in [Threads -> Calls \cup {Nothing}]
         /\ \A t, u \in Threads : at[t] \in Inside /\ at[u] \in Inside => t = u
         /\ Nobody \notin Threads
BY MonitoringAssumption DEF TypeOK

\* A step that leaves the list, the record, the file and the clock alone, and
\* brings nobody to the writing of a line.
LEMMA QuietStep ==
  ASSUME IInv, UNCHANGED <<security_events, recorded, file, now>>,
         \A t \in Threads : at'[t] = "write" => at[t] = "write" /\ call'[t] = call[t]
  PROVE  Chronological' /\ LatestHeld' /\ OwnIsLast' /\ LinesFollow'
<1>1. Chronological' /\ LatestHeld'
  BY DEF IInv, Chronological, LatestHeld, Dropped
<1>2. OwnIsLast'
  BY DEF IInv, OwnIsLast
<1>3. LinesFollow'
  BY DEF IInv, LinesFollow
<1>4. QED  BY <1>1, <1>2, <1>3

\* Time passes.
LEMMA TickInv ==
  ASSUME IInv, Tick
  PROVE  IInv'
<1> USE MonitoringAssumption DEF IInv, Tick
<1>0. now \in Int /\ now' = now + 1 /\ now <= now'
  BY DEF TypeOK
<1>1. TypeOK'
  BY DEF TypeOK
<1>2. CallsFit'
  <2>1. \A t \in Threads : call[t].op \in {"detect", "cleanup"} => call[t].now \in Int
    BY DEF TypeOK, Calls, Nothing
  <2>2. QED  BY <1>0, <2>1 DEF CallsFit
<1>3. Chronological'
  <2>1. \A n \in DOMAIN recorded : recorded[n].time \in Int
    BY ListsTyped
  <2>2. QED  BY <1>0, <2>1 DEF Chronological
<1>4. LatestHeld'
  <2>1. \A n \in 1..Dropped : recorded[n].time < now - LOG_RETENTION_DAYS
    BY DEF LatestHeld
  <2>2. \A n \in 1..Dropped : recorded[n].time \in Int
    BY ListsTyped DEF Dropped
  <2>3. \A n \in 1..Dropped : recorded[n].time < now' - LOG_RETENTION_DAYS
    BY <1>0, <2>1, <2>2
  <2>4. QED  BY <2>3 DEF LatestHeld, Dropped
<1>5. OwnIsLast' /\ LinesFollow'
  BY DEF OwnIsLast, LinesFollow
<1>6. QED  BY ONLY <1>1, <1>2, <1>3, <1>4, <1>5 DEF IInv

\* A call begins; what it was given is of its type.
LEMMA BeginInv ==
  ASSUME IInv, NEW t \in Threads,
         \/ log_security_event(t) \/ detect_brute_force(t) \/ monitoring_cleanup_old_logs(t)
  PROVE  IInv'
<1> USE MonitoringAssumption
<1>0. TypeOK /\ CallsFit
  BY DEF IInv
<1>1. \E c \in Calls :
        Begin(t, c) /\ (c.op \in {"detect", "cleanup"} => c.now = now)
  <2>1. now \in 0..MaxTime
    BY <1>0 DEF TypeOK
  <2>2. CASE log_security_event(t)
    <3>1. PICK s \in Sources : Begin(t, [op |-> "log", source |-> s])
      BY <2>2 DEF log_security_event
    <3>2. [op |-> "log", source |-> s] \in Calls
      BY DEF Calls
    <3>3. QED  BY <3>1, <3>2
  <2>3. CASE detect_brute_force(t)
    <3>1. PICK ip \in Ips : Begin(t, [op |-> "detect", ip |-> ip, now |-> now])
      BY <2>3 DEF detect_brute_force
    <3>2. [op |-> "detect", ip |-> ip, now |-> now] \in Calls
      BY <2>1 DEF Calls
    <3>3. QED  BY <3>1, <3>2
  <2>4. CASE monitoring_cleanup_old_logs(t)
    <3>1. [op |-> "cleanup", now |-> now] \in Calls
      BY <2>1 DEF Calls
    <3>2. QED  BY <2>4, <3>1 DEF monitoring_cleanup_old_logs
  <2>5. QED  BY <2>2, <2>3, <2>4
<1>2. PICK c \in Calls :
        Begin(t, c) /\ (c.op \in {"detect", "cleanup"} => c.now = now)
  BY <1>1
<1>3. /\ at' = [at EXCEPT ![t] = "lock"] /\ call' = [call EXCEPT ![t] = c]
      /\ at[t] = "idle" /\ calls < MaxCalls /\ calls' = calls + 1
      /\ UNCHANGED <<security_events, event_mutex, file, now, verdict, recorded>>
  BY <1>2 DEF Begin
<1>4. /\ at'[t] = "lock" /\ call'[t] = c
      /\ \A u \in Threads \ {t} : at'[u] = at[u] /\ call'[u] = call[u]
  BY <1>0, <1>3, PlacesTyped
<1>5. TypeOK'
  BY <1>0, <1>3 DEF TypeOK, Inside
<1>6. CallsFit'
  <2>1. now \in Int /\ now' = now
    BY <1>0, <1>3 DEF TypeOK
  <2>2. QED  BY <1>0, <1>2, <1>4, <2>1 DEF CallsFit
<1>7. Chronological' /\ LatestHeld' /\ OwnIsLast' /\ LinesFollow'
  BY <1>3, <1>4, QuietStep
<1>8. QED  BY <1>5, <1>6, <1>7 DEF IInv

\* The mutex is taken by one thread, which goes to the body of its call.
LEMMA LockInv ==
  ASSUME IInv, NEW t \in Threads, Lock(t)
  PROVE  IInv'
<1>0. TypeOK /\ CallsFit /\ at[t] = "lock" /\ event_mutex = Nobody
  BY DEF IInv, Lock
<1>1. call[t] \in Calls /\ call[t].op \in {"log", "detect", "cleanup"}
  BY <1>0 DEF CallsFit, Calls
<1>2. /\ Body[call[t].op] \in {"record", "scan", "compact"}
      /\ Body[call[t].op] = "record" => call[t].op = "log"
      /\ Body[call[t].op] = "scan" => call[t].op = "detect"
      /\ Body[call[t].op] = "compact" => call[t].op = "cleanup"
  BY <1>1 DEF Body
<1>3. /\ at' = [at EXCEPT ![t] = Body[call[t].op]] /\ event_mutex' = t
      /\ UNCHANGED <<security_events, file, now, call, verdict, calls, recorded>>
  BY DEF Lock
<1>4. at'[t] = Body[call[t].op] /\ \A u \in Threads \ {t} : at'[u] = at[u]
  BY <1>0, <1>3, PlacesTyped
<1>5. TypeOK'
  <2>1. at' \in [Threads -> Inside \cup {"idle", "lock"}]
    BY <1>0, <1>2, <1>3, PlacesTyped DEF Inside
  <2>2. \A u \in Threads : at'[u] \in Inside <=> event_mutex' = u
    BY <1>0, <1>2, <1>3, <1>4, PlacesTyped DEF TypeOK, Inside
  <2>3. QED  BY <1>0, <1>3, <2>1, <2>2 DEF TypeOK
<1>6. CallsFit'
  BY <1>0, <1>1, <1>2, <1>3, <1>4 DEF CallsFit
<1>7. Chronological' /\ LatestHeld' /\ OwnIsLast' /\ LinesFollow'
  BY <1>2, <1>3, <1>4, QuietStep
<1>8. QED  BY <1>5, <1>6, <1>7 DEF IInv

\* The owner of the mutex goes on to give it back, and keeps its call.
LEMMA ToUnlock ==
  ASSUME IInv, NEW t \in Threads, at[t] \in Inside,
         at' = [at EXCEPT ![t] = "unlock"], UNCHANGED <<event_mutex, now, call>>
  PROVE  /\ CallsFit'
         /\ at' \in [Threads -> Inside \cup {"idle", "lock"}]
         /\ \A u \in Threads : at'[u] \in Inside <=> event_mutex' = u
         /\ \A u \in Threads : at'[u] # "write"
<1>0. TypeOK /\ CallsFit
  BY DEF IInv
<1>1. at'[t] = "unlock" /\ \A u \in Threads \ {t} : at'[u] = at[u]
  BY <1>0, PlacesTyped
<1>2. CallsFit'
  BY <1>0, <1>1 DEF CallsFit, Inside
<1>3. at' \in [Threads -> Inside \cup {"idle", "lock"}]
  BY <1>0, PlacesTyped DEF Inside
<1>4. \A u \in Threads : at'[u] \in Inside <=> event_mutex' = u
  BY <1>0, <1>1 DEF TypeOK, Inside
<1>5. \A u \in Threads : at'[u] # "write"
  BY <1>0, <1>1, PlacesTyped DEF Inside
<1>6. QED  BY <1>2, <1>3, <1>4, <1>5

\* A full list takes no event, and a scan changes only what it returns.
LEMMA IdleBodyInv ==
  ASSUME IInv, NEW t \in Threads, RecordNothing(t) \/ Scan(t)
  PROVE  IInv'
<1>1. /\ at[t] \in Inside /\ at' = [at EXCEPT ![t] = "unlock"]
      /\ UNCHANGED <<security_events, event_mutex, file, now, call, calls, recorded>>
  BY DEF RecordNothing, Scan, Inside
<1>2. verdict' \in [Threads -> BOOLEAN]
  <2>1. CASE RecordNothing(t)
    BY <2>1 DEF RecordNothing, IInv, TypeOK
  <2>2. CASE Scan(t)
    <3>1. Attack(call[t]) \in BOOLEAN
      BY DEF Attack
    <3>2. QED  BY <2>2, <3>1 DEF Scan, IInv, TypeOK
  <2>3. QED  BY <2>1, <2>2
<1>3. TypeOK'
  BY <1>1, <1>2, ToUnlock DEF IInv, TypeOK
<1>4. CallsFit' /\ \A u \in Threads : at'[u] # "write"
  BY <1>1, ToUnlock
<1>5. Chronological' /\ LatestHeld' /\ OwnIsLast' /\ LinesFollow'
  BY <1>1, <1>4, QuietStep
<1>6. QED  BY <1>3, <1>4, <1>5 DEF IInv

\* The mutex is given back.
LEMMA UnlockInv ==
  ASSUME IInv, NEW t \in Threads, Unlock(t)
  PROVE  IInv'
<1>0. TypeOK /\ CallsFit /\ at[t] = "unlock"
  BY DEF IInv, Unlock
<1>1. /\ at' = [at EXCEPT ![t] = "idle"] /\ call' = [call EXCEPT ![t] = Nothing]
      /\ event_mutex' = Nobody
      /\ UNCHANGED <<security_events, file, now, verdict, calls, recorded>>
  BY DEF Unlock
<1>2. /\ at'[t] = "idle" /\ call'[t] = Nothing
      /\ \A u \in Threads \ {t} : at'[u] = at[u] /\ call'[u] = call[u]
  BY <1>0, <1>1, PlacesTyped
<1>3. TypeOK'
  <2>1. \A u \in Threads : at'[u] \in Inside <=> event_mutex' = u
    <3>1. \A u \in Threads \ {t} : at[u] \notin Inside
      BY <1>0, PlacesTyped DEF Inside
    <3>2. QED  BY <1>1, <1>2, <3>1, PlacesTyped, <1>0 DEF Inside
  <2>2. at' \in [Threads -> Inside \cup {"idle", "lock"}]
        /\ call' \in [Threads -> Calls \cup {Nothing}]
    BY <1>0, <1>1, PlacesTyped
  <2>3. QED  BY <1>0, <1>1, <2>1, <2>2 DEF TypeOK
<1>4. CallsFit'
  BY <1>0, <1>1, <1>2 DEF CallsFit, Nothing
<1>5. Chronological' /\ LatestHeld' /\ OwnIsLast' /\ LinesFollow'
  BY <1>1, <1>2, QuietStep
<1>6. QED  BY <1>3, <1>4, <1>5 DEF IInv

\* An event enters the list and the record at its time, and its line is yet to be
\* written.
LEMMA RecordInv ==
  ASSUME IInv, NEW t \in Threads, Record(t)
  PROVE  IInv'
<1> USE MonitoringAssumption
<1> DEFINE event == [time |-> now, source |-> call[t].source]
           N == Len(security_events)
           R == Len(recorded)
<1>0. /\ TypeOK /\ CallsFit /\ Chronological /\ LatestHeld /\ OwnIsLast /\ LinesFollow
      /\ at[t] = "record" /\ now \in 0..MaxTime
  BY DEF IInv, Record, TypeOK
<1>1. event \in Events
  <2>1. call[t] \in Calls /\ call[t].op = "log"
    BY <1>0 DEF CallsFit
  <2>2. call[t].source \in Sources
    BY <2>1 DEF Calls
  <2>3. QED  BY <1>0, <2>2 DEF Events
<1>2. /\ security_events' = Append(security_events, event)
      /\ recorded' = Append(recorded, event) /\ ~ Full
      /\ at' = [at EXCEPT ![t] = "write"]
      /\ UNCHANGED <<event_mutex, file, now, call, verdict, calls>>
  BY DEF Record
<1>e. event.time = now /\ event.source = call[t].source
  OBVIOUS
<1> HIDE DEF event
<1>3. /\ security_events' \in Seq(Events) /\ recorded' \in Seq(Events)
      /\ N \in Nat /\ R \in Nat
      /\ DOMAIN security_events = 1..N /\ DOMAIN recorded = 1..R
      /\ Len(security_events)' = N + 1 /\ Len(recorded)' = R + 1
      /\ DOMAIN security_events' = 1..N+1 /\ DOMAIN recorded' = 1..R+1
      /\ \A n \in 1..N : security_events'[n] = security_events[n]
      /\ \A n \in 1..R : recorded'[n] = recorded[n]
      /\ security_events'[N+1] = event /\ recorded'[R+1] = event
      /\ security_events' # <<>>
  BY <1>0, <1>1, <1>2, ListsTyped, AppendProperties, LenProperties
<1>4. /\ at'[t] = "write"
      /\ \A u \in Threads \ {t} : at'[u] = at[u] /\ at[u] \notin Inside
  BY <1>0, <1>2, PlacesTyped DEF Inside
<1>5. TypeOK'
  <2>1. Len(security_events)' <= MAX_EVENTS
    BY <1>2, <1>3 DEF Full
  <2>2. at' \in [Threads -> Inside \cup {"idle", "lock"}]
    BY <1>0, <1>2, PlacesTyped DEF Inside
  <2>3. \A u \in Threads : at'[u] \in Inside <=> event_mutex' = u
    BY <1>0, <1>2, <1>4 DEF TypeOK, Inside
  <2>4. QED  BY <1>0, <1>2, <1>3, <2>1, <2>2, <2>3 DEF TypeOK
<1>6. CallsFit'
  BY <1>0, <1>2, <1>4 DEF CallsFit
<1>7. Chronological'
  <2>1. \A n \in 1..R : recorded[n].time <= now
    BY <1>0, <1>3 DEF Chronological
  <2>2. \A n \in 1..R+1 : n = R + 1 \/ n \in 1..R
    BY <1>3
  <2>3. \A n \in 1..R+1 : recorded'[n].time <= now'
    BY <1>0, <1>2, <1>3, <1>e, <2>1, <2>2
  <2>4. ASSUME NEW n \in 1..R+1, NEW m \in 1..R+1, m <= n
        PROVE  recorded'[m].time <= recorded'[n].time
    <3>1. CASE n = R + 1
      BY <3>1, <2>3, <1>2, <1>3, <1>e
    <3>2. CASE n # R + 1
      <4>1. n \in 1..R /\ m \in 1..R
        BY <3>2, <2>2, <2>4, <1>3
      <4>2. recorded[m].time <= recorded[n].time
        BY <4>1, <2>4, <1>0, <1>3 DEF Chronological
      <4>3. QED  BY <4>1, <4>2, <1>3
    <3>3. QED  BY <3>1, <3>2
  <2>5. QED  BY <1>3, <2>3, <2>4 DEF Chronological
<1>8. LatestHeld'
  <2>1. Dropped' = Dropped /\ Dropped = R - N
    BY <1>3 DEF Dropped
  <2>2. Dropped >= 0
    BY <1>0 DEF LatestHeld
  <2>3. \A n \in 1..N+1 : security_events'[n] = recorded'[(R - N) + n]
    <3> SUFFICES ASSUME NEW n \in 1..N+1
                 PROVE  security_events'[n] = recorded'[(R - N) + n]
      OBVIOUS
    <3>1. CASE n = N + 1
      <4>1. (R - N) + n = R + 1
        BY <3>1, <1>3
      <4>2. QED  BY <3>1, <4>1, <1>3
    <3>2. CASE n # N + 1
      <4>1. n \in 1..N /\ (R - N) + n \in 1..R
        BY <3>2, <1>3, <2>1, <2>2
      <4>2. security_events[n] = recorded[(R - N) + n]
        BY <4>1, <1>0, <1>3, <2>1 DEF LatestHeld
      <4>3. QED  BY <4>1, <4>2, <1>3
    <3>3. QED  BY <3>1, <3>2
  <2>4. \A n \in 1..R-N : recorded'[n].time < now' - LOG_RETENTION_DAYS
    <3>1. \A n \in 1..R-N : n \in 1..R
      BY <1>3
    <3>2. \A n \in 1..R-N : recorded[n].time < now - LOG_RETENTION_DAYS
      BY <1>0, <2>1 DEF LatestHeld
    <3>3. QED  BY <3>1, <3>2, <1>2, <1>3
  <2>5. QED  BY <2>1, <2>2, <2>3, <2>4, <1>3 DEF LatestHeld
<1>9. OwnIsLast'
  BY <1>2, <1>3, <1>4, <1>e DEF OwnIsLast, Last, Inside
<1>10. LinesFollow'
  <2>1. PICK entry \in [DOMAIN file -> 1..R] :
          /\ \A m, n \in DOMAIN file : m < n => entry[m] < entry[n]
          /\ \A n \in DOMAIN file : file[n] = recorded[entry[n]]
    BY <1>0, <1>3 DEF LinesFollow
  <2>2. entry \in [DOMAIN file -> 1..R+1]
    BY <1>3
  <2>3. \A n \in DOMAIN file : file[n] = recorded'[entry[n]] /\ entry[n] < R + 1
    BY <2>1, <1>3
  <2>4. QED  BY SMTT(20), <1>2, <1>3, <2>1, <2>2, <2>3 DEF LinesFollow
<1>11. QED  BY <1>5, <1>6, <1>7, <1>8, <1>9, <1>10 DEF IInv

\* The line of the event at the end of the list is appended to the file, or is
\* lost.
LEMMA WriteInv ==
  ASSUME IInv, NEW t \in Threads, Write(t)
  PROVE  IInv'
<1> DEFINE line == [time |-> Last(security_events).time, source |-> call[t].source]
           F == Len(file)
           R == Len(recorded)
<1>0. /\ TypeOK /\ LatestHeld /\ OwnIsLast /\ LinesFollow /\ at[t] = "write"
      /\ at[t] \in Inside
  BY DEF IInv, Write, Inside
<1>1. /\ at' = [at EXCEPT ![t] = "unlock"]
      /\ UNCHANGED <<security_events, event_mutex, now, call, verdict, calls, recorded>>
      /\ file' = Append(file, line) \/ file' = file
  BY DEF Write
<1>2. /\ F \in Nat /\ R \in Nat /\ DOMAIN file = 1..F /\ DOMAIN recorded = 1..R
      /\ file \in Seq(Events)
  BY <1>0, ListsTyped
<1>3. line \in Events /\ line = recorded[R] /\ R \in 1..R
  <2> DEFINE N == Len(security_events)
  <2>1. N \in Nat /\ security_events # <<>> /\ N \in 1..N
    BY <1>0, ListsTyped, EmptySeq DEF OwnIsLast
  <2>2. /\ security_events[N] = recorded[R] /\ security_events[N] \in Events
        /\ R >= N
    <3>1. Dropped + N = R /\ R >= N
      BY <1>0, <1>2, <2>1 DEF LatestHeld, Dropped
    <3>2. N \in DOMAIN security_events
      BY <1>0, <2>1, ListsTyped
    <3>3. security_events[N] = recorded[Dropped + N]
      BY <1>0, <3>2 DEF LatestHeld
    <3>4. security_events[N] \in Events
      BY <1>0, <3>2, ListsTyped
    <3>5. QED  BY <3>1, <3>3, <3>4
  <2>3. security_events[N].source = call[t].source
    BY <1>0 DEF OwnIsLast, Last
  <2>4. line = security_events[N]
    <3>1. line = [time |-> security_events[N].time, source |-> security_events[N].source]
      BY <2>3 DEF Last
    <3>2. \A e \in Events : e = [time |-> e.time, source |-> e.source]
      BY DEF Events
    <3>3. QED  BY <3>1, <3>2, <2>2
  <2> HIDE DEF line
  <2>5. QED  BY <2>1, <2>2, <2>4, <1>2
<1> HIDE DEF line
<1>4. CallsFit' /\ \A u \in Threads : at'[u] # "write"
  BY <1>0, <1>1, ToUnlock
<1>5. TypeOK'
  <2>1. file' \in Seq(Events)
    BY <1>1, <1>2, <1>3, AppendProperties
  <2>2. /\ at' \in [Threads -> Inside \cup {"idle", "lock"}]
        /\ \A u \in Threads : at'[u] \in Inside <=> event_mutex' = u
    BY <1>0, <1>1, ToUnlock
  <2>3. QED  BY <1>0, <1>1, <2>1, <2>2 DEF TypeOK
<1>6. Chronological' /\ LatestHeld'
  BY <1>1 DEF IInv, Chronological, LatestHeld, Dropped
<1>7. OwnIsLast'
  BY <1>4 DEF OwnIsLast
<1>8. LinesFollow'
  <2>1. PICK entry \in [1..F -> 1..R] :
          /\ \A m, n \in 1..F : m < n => entry[m] < entry[n]
          /\ \A n \in 1..F : file[n] = recorded[entry[n]]
          /\ \A n \in 1..F : entry[n] < R
    BY <1>0, <1>2 DEF LinesFollow
  <2>2. CASE file' = file
    BY <2>1, <2>2, <1>1, <1>2, <1>4 DEF LinesFollow
  <2>3. CASE file' = Append(file, line)
    <3> DEFINE longer == [n \in 1..F+1 |-> IF n = F + 1 THEN R ELSE entry[n]]
    <3>1. /\ DOMAIN file' = 1..F+1 /\ file'[F+1] = line
          /\ \A n \in 1..F : file'[n] = file[n]
      <4>1. file' \in Seq(Events) /\ Len(file') = F + 1
        BY <2>3, <1>2, <1>3, AppendProperties
      <4>2. DOMAIN file' = 1..F+1
        BY <4>1, LenProperties
      <4>3. QED  BY <4>2, <2>3, <1>2, <1>3, AppendProperties
    <3>2. \A n \in 1..F+1 : n # F + 1 => n \in 1..F
      BY <1>2
    <3>3. longer \in [1..F+1 -> 1..R]
      BY <2>1, <3>2, <1>3
    <3>4. ASSUME NEW m \in 1..F+1, NEW n \in 1..F+1, m < n
          PROVE  longer[m] < longer[n]
      <4>1. m \in 1..F
        BY <3>4, <1>2
      <4>2. CASE n = F + 1
        BY <4>1, <4>2, <2>1, <1>2
      <4>3. CASE n # F + 1
        BY <4>1, <4>3, <3>2, <3>4, <2>1, <1>2
      <4>4. QED  BY <4>2, <4>3
    <3>5. \A n \in 1..F+1 : file'[n] = recorded[longer[n]]
      BY <2>1, <3>1, <3>2, <1>3
    <3> HIDE DEF longer
    <3>6. QED  BY <3>1, <3>3, <3>4, <3>5, <1>1, <1>2, <1>4 DEF LinesFollow
  <2>4. QED  BY <2>2, <2>3, <1>1
<1>9. QED  BY <1>4, <1>5, <1>6, <1>7, <1>8 DEF IInv

\* What a cleanup removes from the list is at its beginning, and too old.
LEMMA CompactInv ==
  ASSUME IInv, NEW t \in Threads, Compact(t)
  PROVE  IInv'
<1> USE MonitoringAssumption
<1> DEFINE c == call[t]
           N == Len(security_events)
           R == Len(recorded)
<1>0. /\ TypeOK /\ CallsFit /\ Chronological /\ LatestHeld
      /\ at[t] = "compact" /\ at[t] \in Inside
  BY DEF IInv, Compact, Inside
<1>1. /\ at' = [at EXCEPT ![t] = "unlock"] /\ security_events' = Kept(c)
      /\ UNCHANGED <<event_mutex, file, now, call, verdict, calls, recorded>>
  BY DEF Compact
<1>2. c.now \in Int /\ c.now <= now /\ now \in Int
  <2>1. c \in Calls /\ c.op = "cleanup"
    BY <1>0 DEF CallsFit
  <2>2. QED  BY <1>0, <2>1 DEF CallsFit, Calls, TypeOK
<1> HIDE DEF c
<1>3. PICK k \in 0..N :
        /\ Kept(c) = SubSeq(security_events, k + 1, N)
        /\ \A n \in 1..k : Expired(c, security_events[n])
  BY <1>2, KeptIsEnd
<1>4. /\ N \in Nat /\ R \in Nat /\ DOMAIN recorded = 1..R /\ k \in Nat /\ k <= N
      /\ DOMAIN security_events = 1..N
      /\ \A n \in 1..N : security_events[n] \in Events
      /\ Dropped = R - N /\ R - N >= 0
      /\ \A n \in 1..N : security_events[n] = recorded[(R - N) + n]
      /\ \A n \in 1..R-N : recorded[n].time < now - LOG_RETENTION_DAYS
  <2>1. /\ N \in Nat /\ R \in Nat /\ DOMAIN recorded = 1..R /\ k \in Nat /\ k <= N
        /\ DOMAIN security_events = 1..N
        /\ \A n \in 1..N : security_events[n] \in Events
    BY <1>0, ListsTyped
  <2>2. Dropped = R - N
    BY DEF Dropped
  <2>3. QED  BY <1>0, <2>1, <2>2 DEF LatestHeld
<1>5. /\ security_events' \in Seq(Events) /\ Len(security_events)' = N - k
      /\ DOMAIN security_events' = 1..N-k
      /\ \A n \in 1..N-k : security_events'[n] = security_events[k + n]
  <2>1. /\ security_events' \in Seq(Events)
        /\ Len(security_events') = IF k + 1 <= N THEN N - (k + 1) + 1 ELSE 0
        /\ \A n \in 1..N-(k+1)+1 : security_events'[n] = security_events[(k + 1) + n - 1]
    <3>1. \A n \in k+1..N : security_events[n] \in Events
      BY <1>4
    <3>2. k + 1 \in Int /\ N \in Int
      BY <1>4
    <3>3. security_events' = SubSeq(security_events, k + 1, N)
      BY <1>1, <1>3
    <3>4. QED  BY <3>1, <3>2, <3>3, SubSeqProperties
  <2>2. /\ N - (k + 1) + 1 = N - k
        /\ \A n \in 1..N-k : (k + 1) + n - 1 = k + n
        /\ ~ (k + 1 <= N) => N - k = 0
    <3>1. N \in Int /\ k \in Int /\ k <= N
      BY <1>4
    <3>2. QED  BY ONLY <3>1
  <2>3. Len(security_events') = N - k
    BY <2>1, <2>2
  <2>4. QED  BY <2>1, <2>2, <2>3, LenProperties
<1>6. CallsFit' /\ \A u \in Threads : at'[u] # "write"
  BY <1>0, <1>1, ToUnlock
<1>7. TypeOK'
  <2>1. Len(security_events)' <= MAX_EVENTS
    BY <1>0, <1>4, <1>5 DEF TypeOK
  <2>2. /\ at' \in [Threads -> Inside \cup {"idle", "lock"}]
        /\ \A u \in Threads : at'[u] \in Inside <=> event_mutex' = u
    BY <1>0, <1>1, ToUnlock
  <2>3. QED  BY <1>0, <1>1, <1>5, <2>1, <2>2 DEF TypeOK
<1>8. Chronological'
  BY <1>0, <1>1 DEF Chronological
<1>9. LatestHeld'
  <2>1. Dropped' = (R - N) + k
    BY <1>1, <1>4, <1>5 DEF Dropped
  <2>2. \A n \in 1..N-k : security_events'[n] = recorded[((R - N) + k) + n]
    <3> SUFFICES ASSUME NEW n \in 1..N-k
                 PROVE  security_events'[n] = recorded[((R - N) + k) + n]
      OBVIOUS
    <3>1. k + n \in 1..N /\ (R - N) + (k + n) = ((R - N) + k) + n
      BY <1>4
    <3>2. QED  BY <3>1, <1>4, <1>5
  <2>3. \A n \in 1..(R-N)+k : recorded[n].time < now - LOG_RETENTION_DAYS
    <3> SUFFICES ASSUME NEW n \in 1..(R-N)+k
                 PROVE  recorded[n].time < now - LOG_RETENTION_DAYS
      OBVIOUS
    <3>1. CASE n <= R - N
      BY <3>1, <1>4
    <3>2. CASE n > R - N
      <4>1. n - (R - N) \in 1..k /\ n - (R - N) \in 1..N
            /\ (R - N) + (n - (R - N)) = n /\ n \in 1..R
        BY <3>2, <1>4
      <4>2. recorded[n] = security_events[n - (R - N)]
        BY <4>1, <1>4
      <4>3. recorded[n].time < c.now - LOG_RETENTION_DAYS
        BY <4>1, <4>2, <1>3 DEF Expired
      <4>4. recorded[n].time \in Int
        BY <4>1, <1>0, <1>4, ListsTyped
      <4>5. QED  BY SMTT(20), <4>3, <4>4, <1>2
    <3>3. QED  BY <3>1, <3>2, <1>4
  <2>4. (R - N) + k >= 0
    BY <1>4
  <2>5. QED  BY <2>1, <2>2, <2>3, <2>4, <1>1, <1>5 DEF LatestHeld
<1>10. OwnIsLast'
  BY <1>6 DEF OwnIsLast
<1>11. LinesFollow'
  BY <1>1, <1>6 DEF IInv, LinesFollow
<1>12. QED  BY <1>6, <1>7, <1>8, <1>9, <1>10, <1>11 DEF IInv

\* Every step keeps the invariant.
LEMMA NextInv ==
  ASSUME IInv, [Next]_vars
  PROVE  IInv'
<1>1. CASE Next
  <2>1. CASE Tick
    BY <2>1, TickInv
  <2>2. CASE \E t \in Threads : \/ log_security_event(t) \/ detect_brute_force(t)
                                \/ monitoring_cleanup_old_logs(t)
    BY <2>2, BeginInv
  <2>3. ASSUME NEW t \in Threads, Step(t)  PROVE IInv'
    BY <2>3, LockInv, RecordInv, IdleBodyInv, WriteInv, CompactInv, UnlockInv
      DEF Step
  <2>4. QED  BY <1>1, <2>1, <2>2, <2>3 DEF Next
<1>2. CASE UNCHANGED vars
  BY <1>2 DEF vars, IInv, TypeOK, CallsFit, Chronological, LatestHeld, Dropped,
              OwnIsLast, LinesFollow
<1>3. QED  BY <1>1, <1>2

-----------------------------------------------------------------------------
(* The theorems.                                                           *)

\* The inductive invariant holds in every reachable state.
THEOREM MonitoringInvariant == Spec => []IInv
<1>1. Init => IInv
  BY InitInv
<1>2. IInv /\ [Next]_vars => IInv'
  BY NextInv
<1>3. QED  BY <1>1, <1>2, PTL DEF Spec

\* The variables keep their types: the array of events never overflows, and a
\* thread is inside a critical section exactly when it owns event_mutex.
THEOREM MonitoringTypes == Spec => []TypeOK
<1>1. IInv => TypeOK
  BY DEF IInv
<1>2. QED  BY <1>1, MonitoringInvariant, PTL

\* A sequence that has the last entries of another is a suffix of it.
LEMMA SuffixByPositions ==
  ASSUME NEW S, NEW end \in Seq(S), NEW whole \in Seq(S), Len(end) <= Len(whole),
         \A n \in 1..Len(end) : end[n] = whole[(Len(whole) - Len(end)) + n]
  PROVE  IsSuffix(end, whole)
<1> DEFINE N == Len(end)
           R == Len(whole)
           back == [n \in 1..N |-> end[(N - n) + 1]]
           wback == [n \in 1..R |-> whole[(R - n) + 1]]
<1>1. N \in Nat /\ R \in Nat
  BY LenProperties
<1>2. Len(back) = N /\ Len(wback) = R
  BY <1>1
<1>3. \A n \in 1..N : back[n] = wback[n]
  <2> SUFFICES ASSUME NEW n \in 1..N PROVE back[n] = wback[n]
    OBVIOUS
  <2>1. (N - n) + 1 \in 1..N /\ (R - N) + ((N - n) + 1) = (R - n) + 1 /\ n \in 1..R
    BY <1>1
  <2>2. end[(N - n) + 1] = whole[(R - n) + 1]
    BY <2>1
  <2>3. QED  BY <2>1, <2>2
<1>4. \A n \in 1..N : back[n] \in S
  <2>1. \A n \in 1..N : (N - n) + 1 \in 1..N
    BY <1>1
  <2>2. QED  BY <2>1, ElementOfSeq
<1> HIDE DEF back, wback
<1>5. SubSeq(back, 1, N) = SubSeq(wback, 1, N)
  <2> DEFINE a == SubSeq(back, 1, N)
             b == SubSeq(wback, 1, N)
  <2>1. \A n \in 1..N : wback[n] \in S
    BY <1>3, <1>4
  <2>2. \A n \in 1..N : 1 + n - 1 = n
    BY <1>1
  <2>3. /\ a \in Seq(S) /\ Len(a) = N /\ \A n \in 1..N : a[n] = back[n]
        /\ b \in Seq(S) /\ Len(b) = N /\ \A n \in 1..N : b[n] = wback[n]
    <3>1. N - 1 + 1 = N /\ 1 \in Int /\ N \in Int /\ (~ (1 <= N) => N = 0)
      BY <1>1
    <3>2. /\ a \in Seq(S) /\ Len(a) = (IF 1 <= N THEN N - 1 + 1 ELSE 0)
          /\ \A n \in 1..N-1+1 : a[n] = back[1 + n - 1]
      BY <3>1, <1>4, SubSeqProperties
    <3>3. /\ b \in Seq(S) /\ Len(b) = (IF 1 <= N THEN N - 1 + 1 ELSE 0)
          /\ \A n \in 1..N-1+1 : b[n] = wback[1 + n - 1]
      BY <3>1, <2>1, SubSeqProperties
    <3> HIDE DEF a, b
    <3>4. QED  BY <3>1, <3>2, <3>3, <2>2
  <2> HIDE DEF a, b
  <2>4. \A n \in 1..N : a[n] = b[n]
    BY <2>3, <1>3
  <2>5. a = b
    BY <2>3, <2>4, SeqEqual
  <2>6. QED  BY <2>5 DEF a, b
<1>6. IsPrefix(back, wback)
  BY <1>1, <1>2, <1>5 DEF IsPrefix
<1>7. QED  BY <1>6 DEF IsSuffix, Reverse, back, wback

\* The list of events is the latest part of the record, whole and in order, and
\* the log file follows the record, whatever calls overlap and whatever lines
\* fail to be written.
THEOREM RecordIsKept == Spec => []RecordKept
<1>1. IInv => RecordKept
  <2> SUFFICES ASSUME IInv PROVE RecordKept
    OBVIOUS
  <2>1. IsSuffix(security_events, recorded)
    <3> DEFINE N == Len(security_events)
               R == Len(recorded)
    <3>1. TypeOK /\ LatestHeld
      BY DEF IInv
    <3>2. /\ security_events \in Seq(Events) /\ recorded \in Seq(Events)
          /\ N \in Nat /\ R \in Nat /\ DOMAIN security_events = 1..N
      BY <3>1, ListsTyped
    <3>3. N <= R /\ \A n \in 1..N : security_events[n] = recorded[(R - N) + n]
      BY <3>1, <3>2 DEF LatestHeld, Dropped
    <3>4. QED  BY <3>2, <3>3, SuffixByPositions
  <2>2. QED  BY <2>1 DEF IInv, LinesFollow, RecordKept
<1>2. QED  BY <1>1, MonitoringInvariant, PTL

\* A scan reports an attack only if the record shows one in the window before the
\* call, and reports every one in the window before the scan itself: between the
\* two the list may have lost entries, but none from within the window.
THEOREM BruteForceIsFound == Spec => BruteForceFound
<1> DEFINE Shows(t, start) == Failures(recorded, call[t].ip, start - Window) > Attempts
           Found == \A t \in Threads :
                      at[t] = "scan" /\ at'[t] = "unlock"
                      => /\ verdict'[t] => Shows(t, call[t].now)
                         /\ Shows(t, now) => verdict'[t]
<1>1. ASSUME IInv, Next, NEW t \in Threads, at[t] = "scan", at'[t] = "unlock"
      PROVE  Scan(t)
  <2>0. TypeOK
    BY <1>1 DEF IInv
  <2>1. CASE Tick
    BY <2>1, <1>1 DEF Tick
  <2>2. ASSUME NEW u \in Threads,
               \/ log_security_event(u) \/ detect_brute_force(u)
               \/ monitoring_cleanup_old_logs(u)
        PROVE  FALSE
    <3>1. at[u] = "idle" /\ at' = [at EXCEPT ![u] = "lock"]
      BY <2>2 DEF log_security_event, detect_brute_force,
        monitoring_cleanup_old_logs,
                  Begin
    <3>2. QED  BY <3>1, <2>0, <1>1, PlacesTyped
  <2>3. ASSUME NEW u \in Threads, Step(u)  PROVE Scan(t)
    <3>1. CASE u = t
      BY <3>1, <2>3, <1>1 DEF Step, Lock, Record, RecordNothing, Write, Compact,
        Unlock
    <3>2. CASE u # t
      <4>1. \E place : at' = [at EXCEPT ![u] = place]
        BY <2>3 DEF Step, Lock, Record, RecordNothing, Write, Scan, Compact, Unlock
      <4>2. QED  BY <4>1, <3>2, <2>0, <1>1, PlacesTyped
    <3>3. QED  BY <3>1, <3>2
  <2>4. QED  BY <1>1, <2>1, <2>2, <2>3 DEF Next
<1>2. ASSUME IInv, NEW t \in Threads, Scan(t)
      PROVE  /\ verdict'[t] => Shows(t, call[t].now)
             /\ Shows(t, now) => verdict'[t]
  <2> USE MonitoringAssumption
  <2> DEFINE ip == call[t].ip
             asked == call[t].now - Window
             N == Len(security_events)
             R == Len(recorded)
  <2>1. TypeOK /\ CallsFit /\ LatestHeld /\ at[t] = "scan"
    BY <1>2 DEF IInv, Scan
  <2>2. call[t].now \in Int /\ call[t].now <= now /\ now \in Int
    <3>1. call[t] \in Calls /\ call[t].op = "detect"
      BY <2>1 DEF CallsFit
    <3>2. QED  BY <2>1, <3>1 DEF CallsFit, Calls, TypeOK
  <2>3. verdict'[t] = (Failures(security_events, ip, asked) > Attempts)
    <3>1. verdict' = [verdict EXCEPT ![t] = Attack(call[t])]
          /\ verdict \in [Threads -> BOOLEAN]
      BY <1>2, <2>1 DEF Scan, TypeOK
    <3>2. verdict'[t] = Attack(call[t])
      BY <3>1
    <3>3. QED  BY <3>2 DEF Attack
  <2>4. /\ security_events \in Seq(Events) /\ recorded \in Seq(Events)
        /\ N \in Nat /\ R \in Nat /\ R - N >= 0 /\ R - N \in Int
        /\ \A n \in 1..N : security_events[n] = recorded[(R - N) + n]
        /\ \A n \in 1..R-N : recorded[n].time < now - LOG_RETENTION_DAYS
    <3>1. /\ security_events \in Seq(Events) /\ recorded \in Seq(Events)
          /\ N \in Nat /\ R \in Nat /\ DOMAIN security_events = 1..N
      BY <2>1, ListsTyped
    <3>2. Dropped = R - N
      BY DEF Dropped
    <3>3. /\ Dropped >= 0
          /\ \A n \in 1..N : security_events[n] = recorded[Dropped + n]
          /\ \A n \in 1..Dropped : recorded[n].time < now - LOG_RETENTION_DAYS
      BY <2>1, <3>1 DEF LatestHeld
    <3>4. R - N >= 0 /\ R - N \in Int
      BY <3>1, <3>2, <3>3
    <3> HIDE DEF LatestHeld
    <3>5. QED  BY ONLY <3>1, <3>2, <3>3, <3>4
  <2>5. /\ Failures(security_events, ip, asked) \in Nat
        /\ Failures(recorded, ip, asked) \in Nat
        /\ Failures(security_events, ip, asked) <= Failures(recorded, ip, asked)
    <3>1. \A n \in 1..N : /\ (R - N) + n \in 1..R
                          /\ recorded[(R - N) + n] = security_events[n]
      BY <2>4
    <3>2. asked \in Int /\ asked <= asked
      BY <2>2
    <3> HIDE DEF ip, asked
    <3>3. QED  BY <3>1, <3>2, <2>4, FailuresMoved
  <2>6. /\ Failures(recorded, ip, now - Window) \in Nat
        /\ Failures(recorded, ip, now - Window) <= Failures(security_events, ip, asked)
    <3>1. ASSUME NEW n \in 1..R, recorded[n].time >= now - Window
          PROVE  /\ (N - R) + n \in 1..N
                 /\ security_events[(N - R) + n] = recorded[n]
      <4>1. recorded[n].time \in Int
        BY <2>1, <2>4, ListsTyped
      <4>2. n \notin 1..R-N
        <5>1. n \in 1..R-N => recorded[n].time < now - LOG_RETENTION_DAYS
          BY <2>4
        <5>2. QED  BY <5>1, <4>1, <3>1, <2>2
      <4>3. (N - R) + n \in 1..N /\ (R - N) + ((N - R) + n) = n
        BY <4>2, <2>4
      <4>4. QED  BY <4>3, <2>4
    <3> DEFINE recent == now - Window
    <3>2. asked \in Int /\ recent \in Int /\ asked <= recent
      BY <2>2
    <3>3. \A n \in 1..R : recorded[n].time >= recent => (N - R) + n \in 1..N
      BY <3>1
    <3>4. \A n \in 1..R : recorded[n].time >= recent
                         => security_events[(N - R) + n] = recorded[n]
      BY <3>1
    <3> HIDE DEF ip, asked, recent
    <3>5. /\ Failures(recorded, ip, recent) \in Nat
          /\ Failures(recorded, ip, recent) <= Failures(security_events, ip, asked)
      BY <3>2, <3>3, <3>4, <2>4, FailuresMoved
    <3>6. QED  BY <3>5 DEF recent
  <2> HIDE DEF ip, asked
  <2>7. Attempts \in Int
    OBVIOUS
  <2>8. /\ Failures(security_events, ip, asked) > Attempts
           => Failures(recorded, ip, asked) > Attempts
        /\ Failures(recorded, ip, now - Window) > Attempts
           => Failures(security_events, ip, asked) > Attempts
    BY <2>5, <2>6, <2>7
  <2>9. QED  BY <2>3, <2>8 DEF ip, asked
<1>3. IInv /\ [Next]_vars => [Found]_vars
  BY <1>1, <1>2
<1>4. QED  BY <1>3, MonitoringInvariant, PTL DEF Spec, BruteForceFound
=============================================================================
