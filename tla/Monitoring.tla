----------------------------- MODULE Monitoring -----------------------------
(***************************************************************************)
(* security/monitoring.c: the list of security events, which the threads   *)
(* of the server share under one mutex, its log file, the brute-force      *)
(* check and the removal of old events.  log_security_event, which the     *)
(* router and the two audit functions call, detect_brute_force and         *)
(* monitoring_cleanup_old_logs are each followed from the call to the      *)
(* return; the last two read the clock before they wait for the mutex.     *)
(***************************************************************************)
EXTENDS Integers, Sequences, SequencesExt, FiniteSets

CONSTANTS
  Threads,              \* the threads that call the module
  Sources,              \* what an event is about: [ip, type]
  MAX_EVENTS,
  LOG_RETENTION_DAYS,   \* in units of the clock
  Window,               \* the 300 seconds of detect_brute_force
  Attempts,             \* more than this many failures are an attack
  MaxTime,              \* bound: ticks of the clock
  MaxCalls,             \* bound: calls of the module
  Nobody

ASSUME MonitoringAssumption ==
  /\ MAX_EVENTS \in Nat \ {0}
  /\ {Window, Attempts, MaxTime, MaxCalls} \subseteq Nat
  /\ LOG_RETENTION_DAYS \in Nat /\ Window <= LOG_RETENTION_DAYS
  /\ Nobody \notin Threads

VARIABLES
  security_events,  \* the first event_count entries of the array
  event_mutex,      \* its owner, or Nobody
  file,             \* the lines of the security log
  now,              \* time(NULL)
  at, call,         \* where each thread is, and in which call
  verdict,          \* what each thread's detect_brute_force found
  calls,            \* number of calls so far, for MaxCalls
  recorded          \* history: every event that ever entered the list

vars == <<security_events, event_mutex, file, now, at, call, verdict, calls, recorded>>

Ips == {s.ip : s \in Sources}
Events == [time : 0..MaxTime, source : Sources]
Calls ==
  [op : {"log"}, source : Sources]
    \cup [op : {"detect"}, ip : Ips, now : 0..MaxTime]
    \cup [op : {"cleanup"}, now : 0..MaxTime]
Nothing == [op |-> "none"]
Inside == {"record", "write", "scan", "compact", "unlock"}

\* The variables hold values of their types: the array never overflows, and who
\* is in a critical section owns the mutex.
TypeOK ==
  /\ security_events \in Seq(Events) /\ Len(security_events) <= MAX_EVENTS
  /\ event_mutex \in Threads \cup {Nobody}
  /\ file \in Seq(Events) /\ recorded \in Seq(Events)
  /\ now \in 0..MaxTime /\ calls \in 0..MaxCalls
  /\ call \in [Threads -> Calls \cup {Nothing}]
  /\ at \in [Threads -> Inside \cup {"idle", "lock"}]
  /\ verdict \in [Threads -> BOOLEAN]
  /\ \A t \in Threads : at[t] \in Inside <=> event_mutex = t

\* monitoring_init, before any thread exists.
Init ==
  /\ security_events = <<>> /\ file = <<>> /\ recorded = <<>>
  /\ event_mutex = Nobody
  /\ now = 0 /\ calls = 0
  /\ at = [t \in Threads |-> "idle"]
  /\ call = [t \in Threads |-> Nothing]
  /\ verdict = [t \in Threads |-> FALSE]

Tick ==
  /\ now < MaxTime
  /\ now' = now + 1
  /\ UNCHANGED <<security_events, event_mutex, file, at, call, verdict, calls, recorded>>

-----------------------------------------------------------------------------

\* A thread begins a call and comes to the mutex.
Begin(t, c) ==
  /\ at[t] = "idle" /\ calls < MaxCalls
  /\ at' = [at EXCEPT ![t] = "lock"]
  /\ call' = [call EXCEPT ![t] = c]
  /\ calls' = calls + 1
  /\ UNCHANGED <<security_events, event_mutex, file, now, verdict, recorded>>

log_security_event(t) ==
  \E s \in Sources : Begin(t, [op |-> "log", source |-> s])
detect_brute_force(t) ==
  \E ip \in Ips : Begin(t, [op |-> "detect", ip |-> ip, now |-> now])
monitoring_cleanup_old_logs(t) == Begin(t, [op |-> "cleanup", now |-> now])

Body == [log |-> "record", detect |-> "scan", cleanup |-> "compact"]

\* Mutant of Lock: nobody waits for the mutex.
LockUnowned(t) ==
  /\ at[t] = "lock"
  /\ event_mutex' = t
  /\ at' = [at EXCEPT ![t] = Body[call[t].op]]
  /\ UNCHANGED <<security_events, file, now, call, verdict, calls, recorded>>

Lock(t) ==
  /\ at[t] = "lock" /\ event_mutex = Nobody
  /\ event_mutex' = t
  /\ at' = [at EXCEPT ![t] = Body[call[t].op]]
  /\ UNCHANGED <<security_events, file, now, call, verdict, calls, recorded>>

\* Mutant of Full: one entry too many fits.
FullTooLate == Len(security_events) > MAX_EVENTS

Full == Len(security_events) >= MAX_EVENTS

\* A new event takes the next entry and the time of this moment.
Record(t) ==
  /\ at[t] = "record" /\ ~ Full
  /\ LET event == [time |-> now, source |-> call[t].source] IN
       /\ security_events' = Append(security_events, event)
       /\ recorded' = Append(recorded, event)
  /\ at' = [at EXCEPT ![t] = "write"]
  /\ UNCHANGED <<event_mutex, file, now, call, verdict, calls>>

\* Mutant of RecordNothing: a return that keeps the mutex.
RecordNothingLocked(t) ==
  /\ at[t] = "record" /\ Full
  /\ at' = [at EXCEPT ![t] = "idle"]
  /\ call' = [call EXCEPT ![t] = Nothing]
  /\ UNCHANGED <<security_events, event_mutex, file, now, verdict, calls, recorded>>

\* In a full list nothing is entered and nothing is written.
RecordNothing(t) ==
  /\ at[t] = "record" /\ Full
  /\ at' = [at EXCEPT ![t] = "unlock"]
  /\ UNCHANGED <<security_events, event_mutex, file, now, call, verdict, calls, recorded>>

\* One line for the event just entered, unless the log cannot be opened.
Write(t) ==
  /\ at[t] = "write"
  /\ \/ file' = Append(file, [time |-> Last(security_events).time, source |-> call[t].source])
     \/ UNCHANGED file
  /\ at' = [at EXCEPT ![t] = "unlock"]
  /\ UNCHANGED <<security_events, event_mutex, now, call, verdict, calls, recorded>>

\* The failures of an address in a list of events, from a time on.
Failures(events, ip, start) ==
  Cardinality({n \in DOMAIN events :
                 /\ events[n].time >= start
                 /\ events[n].source = [ip |-> ip, type |-> "AUTH_FAILURE"]})

\* Mutant of Attack: as many attempts as are allowed are an attack.
AttackTooSoon(c) == Failures(security_events, c.ip, c.now - Window) >= Attempts

Attack(c) == Failures(security_events, c.ip, c.now - Window) > Attempts

Scan(t) ==
  /\ at[t] = "scan"
  /\ verdict' = [verdict EXCEPT ![t] = Attack(call[t])]
  /\ at' = [at EXCEPT ![t] = "unlock"]
  /\ UNCHANGED <<security_events, event_mutex, file, now, call, calls, recorded>>

\* Mutant of Expired: the retention is taken for a limit the other way round.
ExpiredYoung(c, event) == event.time >= c.now - LOG_RETENTION_DAYS

Expired(c, event) == event.time < c.now - LOG_RETENTION_DAYS

\* What the loop of monitoring_cleanup_old_logs has moved to the front of the
\* array when it has been over every entry.
Kept(c) ==
  LET kept[n \in 0..Len(security_events)] ==
        IF n = 0 THEN <<>>
        ELSE IF Expired(c, security_events[n]) THEN kept[n-1]
             ELSE Append(kept[n-1], security_events[n])
  IN  kept[Len(security_events)]

\* Events that are not too old move to the front of the array.
Compact(t) ==
  /\ at[t] = "compact"
  /\ security_events' = Kept(call[t])
  /\ at' = [at EXCEPT ![t] = "unlock"]
  /\ UNCHANGED <<event_mutex, file, now, call, verdict, calls, recorded>>

Unlock(t) ==
  /\ at[t] = "unlock"
  /\ event_mutex' = Nobody
  /\ at' = [at EXCEPT ![t] = "idle"]
  /\ call' = [call EXCEPT ![t] = Nothing]
  /\ UNCHANGED <<security_events, file, now, verdict, calls, recorded>>

\* The next step of a thread that is in a call.
Step(t) ==
  \/ Lock(t) \/ Record(t) \/ RecordNothing(t) \/ Write(t) \/ Scan(t)
  \/ Compact(t) \/ Unlock(t)

Next ==
  \/ Tick
  \/ \E t \in Threads :
       \/ log_security_event(t) \/ detect_brute_force(t) \/ monitoring_cleanup_old_logs(t)
       \/ Step(t)

Spec == Init /\ [][Next]_vars

\* A thread in a call goes on.
FairSpec == Spec /\ \A t \in Threads : WF_vars(Step(t))

-----------------------------------------------------------------------------
(* Properties                                                              *)

\* Whatever calls overlap, the list holds the latest of the recorded events,
\* all of them and in their order, and the log file holds lines of the same
\* record in the same order.
RecordKept ==
  /\ IsSuffix(security_events, recorded)
  /\ \E entry \in [DOMAIN file -> DOMAIN recorded] :
       /\ \A m, n \in DOMAIN file : m < n => entry[m] < entry[n]
       /\ \A n \in DOMAIN file : file[n] = recorded[entry[n]]

\* detect_brute_force is right although its clock was read before the mutex was
\* free and other threads record and clean up meanwhile: it reports an attack
\* only if the record shows one in the window that began before the call, and
\* it does report one that lies in the window before its own scan.
BruteForceFound ==
  [][\A t \in Threads :
       LET Shows(start) == Failures(recorded, call[t].ip, start - Window) > Attempts
       IN  at[t] = "scan" /\ at'[t] = "unlock"
           => /\ verdict'[t] => Shows(call[t].now)
              /\ Shows(now) => verdict'[t]]_vars

\* What a thread does in its critical section is what it was called for, and a
\* time that was read earlier is not later.
CallsFit ==
  \A t \in Threads :
    /\ at[t] # "idle" => call[t] \in Calls
    /\ at[t] \in {"record", "write"} => call[t].op = "log"
    /\ at[t] = "scan" => call[t].op = "detect"
    /\ at[t] = "compact" => call[t].op = "cleanup"
    /\ call[t].op \in {"detect", "cleanup"} => call[t].now <= now

\* Events were recorded in the order of their times.
Chronological ==
  \A n \in DOMAIN recorded :
    /\ recorded[n].time <= now
    /\ \A m \in DOMAIN recorded : m <= n => recorded[m].time <= recorded[n].time

\* The list is the record without its first entries, which are all too old.
Dropped == Len(recorded) - Len(security_events)
LatestHeld ==
  /\ Dropped >= 0
  /\ \A n \in DOMAIN security_events : security_events[n] = recorded[Dropped + n]
  /\ \A n \in 1..Dropped : recorded[n].time < now - LOG_RETENTION_DAYS

\* A thread about to write has its own event at the end of the list.
OwnIsLast ==
  \A t \in Threads :
    at[t] = "write" => /\ security_events # <<>>
                       /\ Last(security_events).source = call[t].source

\* The lines of the log file follow the record, and the event of a thread about
\* to write is not among them yet.
LinesFollow ==
  \E entry \in [DOMAIN file -> DOMAIN recorded] :
    /\ \A m, n \in DOMAIN file : m < n => entry[m] < entry[n]
    /\ \A n \in DOMAIN file : file[n] = recorded[entry[n]]
    /\ (\E t \in Threads : at[t] = "write")
       => \A n \in DOMAIN file : entry[n] < Len(recorded)

\* The inductive invariant that RecordKept and BruteForceFound follow from.
IInv ==
  /\ TypeOK /\ CallsFit /\ Chronological /\ LatestHeld /\ OwnIsLast /\ LinesFollow

\* No call of the module waits for ever: every path out of a critical section
\* gives the mutex back.
CallsReturn == \A t \in Threads : at[t] = "lock" ~> at[t] = "idle"
=============================================================================
