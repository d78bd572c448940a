------------------------------ MODULE TaskQueue ------------------------------
(***************************************************************************)
(* What src/threadpool.h offers to the rest of the server, without any of  *)
(* its machinery: a bounded FIFO of tasks, each of which is accepted or    *)
(* refused once, started at most once and in the order of acceptance, and  *)
(* a shutdown that either drains the accepted tasks or abandons them, and  *)
(* gives the pool's memory back only when nothing is running any more.     *)
(*                                                                         *)
(* ThreadPool.tla refines this module; Server.tla uses it as its pool.     *)
(***************************************************************************)
EXTENDS Naturals, Sequences

CONSTANTS
  Tasks,       \* the function/argument pairs handed to threadpool_add
  Capacities   \* the queue sizes a pool can be created with

VARIABLES
  pending,     \* accepted and not started yet, oldest first
  running,     \* started by some worker and not finished
  finished,    \* executed to the end
  refused,     \* threadpool_add returned an error for them
  phase,       \* "new", "open", "draining", "halted" or "disposed"
  capacity     \* queue_size of the open pool

qvars == <<pending, running, finished, refused, phase, capacity>>

Phases == {"new", "open", "draining", "halted", "disposed"}

TypeOK ==
  /\ pending \in Seq(Tasks)
  /\ running \subseteq Tasks
  /\ finished \subseteq Tasks
  /\ refused \subseteq Tasks
  /\ phase \in Phases
  /\ capacity \in Capacities \cup {0}

Queued == {pending[i] : i \in 1..Len(pending)}

\* A caller submits each task once: main allocates a fresh ConnectionArgs for
\* every call.
Fresh(t) == t \notin Queued \cup running \cup finished \cup refused

Init ==
  /\ pending = <<>>
  /\ running = {}
  /\ finished = {}
  /\ refused = {}
  /\ phase = "new"
  /\ capacity = 0

\* threadpool_create returned a pool.
Open(c) ==
  /\ phase = "new"
  /\ phase' = "open"
  /\ capacity' = c
  /\ UNCHANGED <<pending, running, finished, refused>>

\* threadpool_add returned 0.
Submit(t) ==
  /\ phase = "open"
  /\ Fresh(t)
  /\ Len(pending) < capacity
  /\ pending' = Append(pending, t)
  /\ UNCHANGED <<running, finished, refused, phase, capacity>>

\* threadpool_add returned threadpool_queue_full or threadpool_shutdown.
Refuse(t) ==
  /\ phase \in {"open", "draining", "halted"}
  /\ Fresh(t)
  /\ Len(pending) = capacity \/ phase # "open"
  /\ refused' = refused \cup {t}
  /\ UNCHANGED <<pending, running, finished, phase, capacity>>

\* A worker takes the oldest task; under immediate shutdown it takes none.
Start ==
  /\ phase \in {"open", "draining"}
  /\ pending # <<>>
  /\ running' = running \cup {Head(pending)}
  /\ pending' = Tail(pending)
  /\ UNCHANGED <<finished, refused, phase, capacity>>

Finish(t) ==
  /\ t \in running
  /\ running' = running \ {t}
  /\ finished' = finished \cup {t}
  /\ UNCHANGED <<pending, refused, phase, capacity>>

\* threadpool_destroy raised the shutdown flag.
Close(graceful) ==
  /\ phase = "open"
  /\ phase' = IF graceful THEN "draining" ELSE "halted"
  /\ UNCHANGED <<pending, running, finished, refused, capacity>>

\* threadpool_destroy gave the memory back.
Dispose ==
  /\ running = {}
  /\ \/ phase = "draining" /\ pending = <<>>
     \/ phase = "halted"
  /\ phase' = "disposed"
  /\ UNCHANGED <<pending, running, finished, refused, capacity>>

Next ==
  \/ \E c \in Capacities : Open(c)
  \/ \E t \in Tasks : Submit(t) \/ Refuse(t) \/ Finish(t)
  \/ Start
  \/ \E graceful \in BOOLEAN : Close(graceful)
  \/ Dispose

Spec == Init /\ [][Next]_qvars
=============================================================================
