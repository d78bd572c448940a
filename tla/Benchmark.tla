------------------------------ MODULE Benchmark ------------------------------
(***************************************************************************)
(* src/benchmark.c: the load generator.  main calls run_benchmark once for *)
(* each entry of Runs (the basic run, the endpoints, the load tests); each *)
(* call creates its threads, joins them one after the other and adds up    *)
(* what they counted in its arrays threads, stats and args.  The arrays    *)
(* are on the stack of that call.  At the other end is a server that may   *)
(* answer, refuse, or say nothing until the five seconds of the socket's   *)
(* timeout are over.                                                       *)
(***************************************************************************)
EXTENDS Integers, Sequences

CONSTANTS
  Runs,       \* for each call of run_benchmark [threads, requests]
  MaxReads    \* bound: the pieces an answer comes in

ASSUME BenchmarkAssumption ==
  /\ Runs \in Seq([threads : Nat \ {0}, requests : Nat]) /\ Runs # <<>>
  /\ MaxReads \in Nat

\* A thread is named by the call that created it and its index there.
Threads == UNION {{r} \X (0..Runs[r].threads - 1) : r \in DOMAIN Runs}

VARIABLES
  run,      \* the call of run_benchmark main is in; Len(Runs)+1 at the end
  i,        \* the index of its loop
  main,     \* which loop it is in: "create", "join" or "add"; "undefined" when its
            \* arrays are gone, "killed" by SIGPIPE
  sum,      \* what it has added up so far: [completed, failed]
  at,       \* where each thread is
  left,     \* requests each thread has still to make, the current one included
  stats,    \* its ThreadStats: [completed, failed]
  sockets,  \* threads that hold an open socket
  reads,    \* pieces of the answer each thread has read
  total     \* what each finished call printed: [completed, failed], or NotPrinted

thread == <<at, left, stats, sockets, reads>>
vars == <<run, i, main, sum, thread, total>>

Over == {"undefined", "killed"}
Counters == [completed : Nat, failed : Nat]
Places == {"none", "connect", "send", "recv", "done"}

Zero == [completed |-> 0, failed |-> 0]
NotPrinted == [completed |-> -1, failed |-> -1]

\* The variables hold values of their types, and a thread has a socket open just
\* while it talks to the server: none of the ways a request can end leaks one.
TypeOK ==
  /\ run \in 1..Len(Runs) + 1
  /\ i \in Nat
  /\ main \in {"create", "join", "add"} \cup Over
  /\ sum \in Counters
  /\ at \in [Threads -> Places]
  /\ left \in [Threads -> Nat]
  /\ stats \in [Threads -> Counters]
  /\ sockets = {t \in Threads : at[t] \in {"send", "recv"}}
  /\ reads \in [Threads -> 0..MaxReads]
  /\ total \in [DOMAIN Runs -> Counters \cup {NotPrinted}]

Init ==
  /\ run = 1 /\ i = 0 /\ main = "create" /\ sum = Zero
  /\ at = [t \in Threads |-> "none"]
  /\ left = [t \in Threads |-> 0]
  /\ stats = [t \in Threads |-> Zero]
  /\ sockets = {}
  /\ reads = [t \in Threads |-> 0]
  /\ total = [r \in DOMAIN Runs |-> NotPrinted]

-----------------------------------------------------------------------------
(* run_benchmark                                                           *)

Running == run <= Len(Runs)
NextRun == run' = run + 1 /\ i' = 0 /\ main' = "create"

\* What a thread does next when it has n requests left.
Loop(n) == IF n > 0 THEN "connect" ELSE "done"

CreateThread ==
  /\ Running /\ main = "create" /\ i < Runs[run].threads
  /\ at' = [at EXCEPT ![<<run, i>>] = Loop(Runs[run].requests)]
  /\ left' = [left EXCEPT ![<<run, i>>] = Runs[run].requests]
  /\ i' = i + 1
  /\ UNCHANGED <<run, main, sum, stats, sockets, reads, total>>

Active == {t \in Threads : at[t] \notin {"none", "done"}}

\* pthread_create fails: the call returns at once, and its arrays are gone. The
\* threads it has created go on counting in them: from there on the behaviour of
\* the program is undefined and the model ends.
CreateFails ==
  /\ Running /\ main = "create" /\ i < Runs[run].threads
  /\ \/ Active = {} /\ NextRun
     \/ Active # {} /\ main' = "undefined" /\ UNCHANGED <<run, i>>
  /\ UNCHANGED <<sum, thread, total>>

AllCreated ==
  /\ Running /\ main = "create" /\ i = Runs[run].threads
  /\ main' = "join" /\ i' = 0
  /\ UNCHANGED <<run, sum, thread, total>>

\* Mutant of Joined: the first threads to finish are enough.
JoinedAny == i < Runs[run].threads /\ \E n \in 0..Runs[run].threads - 1 : at[<<run, n>>] = "done"

Joined == i < Runs[run].threads /\ at[<<run, i>>] = "done"

Join ==
  /\ Running /\ main = "join" /\ Joined
  /\ i' = i + 1
  /\ UNCHANGED <<run, main, sum, thread, total>>

AllJoined ==
  /\ Running /\ main = "join" /\ i = Runs[run].threads
  /\ main' = "add" /\ i' = 0 /\ sum' = Zero
  /\ UNCHANGED <<run, thread, total>>

\* Aggregate results.
Add ==
  /\ Running /\ main = "add" /\ i < Runs[run].threads
  /\ sum' = [completed |-> sum.completed + stats[<<run, i>>].completed,
             failed |-> sum.failed + stats[<<run, i>>].failed]
  /\ i' = i + 1
  /\ UNCHANGED <<run, main, thread, total>>

PrintTotals ==
  /\ Running /\ main = "add" /\ i = Runs[run].threads
  /\ total' = [total EXCEPT ![run] = sum]
  /\ NextRun
  /\ UNCHANGED <<sum, thread>>

Main == CreateThread \/ CreateFails \/ AllCreated \/ Join \/ AllJoined \/ Add \/ PrintTotals

-----------------------------------------------------------------------------
(* benchmark_thread, with create_connection and send_http_request          *)

Goto(t, place) == at' = [at EXCEPT ![t] = place]
Others == <<run, i, main, sum, total>>

Connect(t) ==
  /\ at[t] = "connect"
  /\ sockets' = sockets \cup {t}
  /\ Goto(t, "send")
  /\ UNCHANGED <<Others, left, stats, reads>>

\* The request that t was at is over.
Count(t, counter) ==
  /\ stats' = [stats EXCEPT ![t][counter] = @ + 1]
  /\ left' = [left EXCEPT ![t] = @ - 1]
  /\ Goto(t, Loop(left[t] - 1))

\* No socket, no option, or no connection: what was opened is closed again.
ConnectFails(t) ==
  /\ at[t] = "connect"
  /\ Count(t, "failed")
  /\ UNCHANGED <<Others, sockets, reads>>

\* Mutant of SendFails: a return that leaves the request uncounted and the socket open.
SendFailsLeaks(t) ==
  /\ at[t] = "send"
  /\ Count(t, "failed")
  /\ UNCHANGED <<Others, sockets, reads>>

Send(t) ==
  /\ at[t] = "send"
  /\ Goto(t, "recv")
  /\ UNCHANGED <<Others, left, stats, sockets, reads>>

\* The socket is closed before the result is looked at.
Close(t, counter) ==
  /\ sockets' = sockets \ {t}
  /\ reads' = [reads EXCEPT ![t] = 0]
  /\ Count(t, counter)
  /\ UNCHANGED Others

SendFails(t) == at[t] = "send" /\ Close(t, "failed")

\* The server has reset the connection, and SIGPIPE is not ignored.
SendBreaks(t) ==
  /\ at[t] = "send"
  /\ main' = "killed"
  /\ UNCHANGED <<run, i, sum, total, thread>>

\* A piece of the answer; the next one may take another five seconds.
Receive(t) ==
  /\ at[t] = "recv" /\ reads[t] < MaxReads
  /\ reads' = [reads EXCEPT ![t] = @ + 1]
  /\ UNCHANGED <<Others, at, left, stats, sockets>>

\* The server closed the connection.
Complete(t) == at[t] = "recv" /\ Close(t, "completed")

\* Mutant of TimedOut: a silent server is waited for.
NeverTimedOut(t) == at[t] = "recv" /\ FALSE

\* Nothing came for TIMEOUT_SEC seconds, or the connection was reset.
TimedOut(t) == at[t] = "recv" /\ Close(t, "failed")

\* What t does by itself, the timeout of its socket included.
ThreadStep(t) ==
  \/ Connect(t) \/ ConnectFails(t) \/ Send(t) \/ SendFails(t) \/ SendBreaks(t)
  \/ TimedOut(t)

\* What the server does to t.
Answer(t) == Receive(t) \/ Complete(t)

Next ==
  \/ Main
  \/ main \notin Over /\ \E t \in Threads : ThreadStep(t) \/ Answer(t)

Spec == Init /\ [][Next]_vars

\* main and its threads go on; the server need not answer.
FairSpec ==
  /\ Spec /\ WF_vars(Main)
  /\ \A t \in Threads : WF_vars(main \notin Over /\ ThreadStep(t))

-----------------------------------------------------------------------------
(* Properties                                                              *)

\* A printed result counts each request of the call once, as completed or as
\* failed, however the threads overlap and whatever the server does.
TotalsAddUp ==
  \A r \in DOMAIN Runs :
    total[r] # NotPrinted
      => total[r].completed + total[r].failed = Runs[r].threads * Runs[r].requests

\* Thanks to the timeouts the benchmark comes to its end with any server, also
\* with one that accepts connections and never says anything.
BenchmarkEnds == <>(~ Running \/ main \in Over)

\* No thread outlives the arrays it counts in.
StatsStayAlive == main # "undefined"

-----------------------------------------------------------------------------
(* Why TotalsAddUp is inductive.                                           *)

\* main is in a loop over the threads of a call, and no index leaves its arrays.
LoopBounded ==
  /\ Running => i <= Runs[run].threads
  /\ main \in {"join", "add"} => Running

\* A thread exists when main has come to it.
NotYetCreated ==
  \A t \in Threads :
    (t[1] > run \/ (t[1] = run /\ main = "create" /\ t[2] >= i)) => at[t] = "none"

\* Each request of a thread is still to be made, or counted once; and a thread is
\* done when none is left.
EachCountedOnce ==
  \A t \in Threads :
    /\ stats[t].completed + stats[t].failed + left[t]
         = IF at[t] = "none" THEN 0 ELSE Runs[t[1]].requests
    /\ left[t] > 0 <=> at[t] \in {"connect", "send", "recv"}

\* The threads that are joined are done, and all are before main adds up.
JoinedAreDone ==
  /\ main = "join" => \A n \in 0..i - 1 : at[<<run, n>>] = "done"
  /\ main = "add" => \A n \in 0..Runs[run].threads - 1 : at[<<run, n>>] = "done"

\* What main has added up are all requests of the threads it has come to.
SumSoFar == main = "add" => sum.completed + sum.failed = i * Runs[run].requests

IInv ==
  /\ TypeOK
  /\ LoopBounded /\ NotYetCreated /\ EachCountedOnce
  /\ JoinedAreDone /\ SumSoFar
  /\ TotalsAddUp
=============================================================================
