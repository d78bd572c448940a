------------------------------- MODULE Server -------------------------------
(***************************************************************************)
(* src/main.c: the start of the server, its accept loop with the TLS       *)
(* handshake, the hand-over of a connection to the thread pool or its      *)
(* service by main itself, and handle_connection_wrapper; with the clients *)
(* at the other end, and the service manager that starts the process again *)
(* when it has exited with a failure.  The pool is TaskQueue, which        *)
(* ThreadPool implements; the tasks are the connections.                   *)
(***************************************************************************)
EXTENDS Integers, Sequences, FiniteSets

CONSTANTS
  Conns,            \* connections, each opened by a client once
  Configs,          \* what load_config can return: [https, threadpool]
  MAX_THREADS,      \* config.max_threads
  MAX_CONNECTIONS,  \* config.max_connections
  Backlog,          \* the second argument of listen
  NoConn

ASSUME ServerAssumption ==
  /\ Configs \subseteq [https : BOOLEAN, threadpool : BOOLEAN]
  /\ {MAX_THREADS, MAX_CONNECTIONS, Backlog} \subseteq Nat \ {0}
  /\ NoConn \notin Conns

VARIABLES
  process,      \* "down", "up", or "killed" by a signal
  config,       \* the Config of main, with the changes it makes
  main,         \* where main is
  new_socket,   \* the connection main is at
  backlog,      \* connections the kernel has for accept, oldest first
  client,       \* what each client has said so far
  gone,         \* clients that have closed their end
  held,         \* what the server holds for each connection
  at,           \* where the code that serves each connection is
  buffer,       \* what the read of each connection's server got
  answered,     \* connections a response was written to
  starved,      \* connections that a malloc failed for
  pending, running, finished, refused, phase, capacity   \* the pool

pool == <<pending, running, finished, refused, phase, capacity>>
clients == <<client, gone>>
serving == <<at, buffer, answered>>
vars == <<process, config, main, new_socket, backlog, clients, held, serving,
          starved, pool>>

Pool == INSTANCE TaskQueue WITH Tasks <- Conns, Capacities <- {MAX_CONNECTIONS}

MainAt == {"pool", "listen", "accept", "handshake", "dispatch", "serve"}
ServerAt == {"none", "read", "handle", "write", "cleanup"}

\* The variables hold values of their types.
TypeOK ==
  /\ process \in {"down", "up", "killed"}
  /\ config \in [https : BOOLEAN, threadpool : BOOLEAN]
  /\ main \in MainAt
  /\ new_socket \in Conns \cup {NoConn}
  /\ backlog \in Seq(Conns) /\ Len(backlog) <= Backlog
  /\ client \in [Conns -> {"away", "silent", "hello", "request"}]
  /\ gone \subseteq Conns
  /\ held \in [Conns -> SUBSET {"fd", "ssl", "args"}]
  /\ at \in [Conns -> ServerAt]
  /\ buffer \in [Conns -> {"empty", "plain", "cipher"}]
  /\ answered \subseteq Conns /\ starved \subseteq Conns
  /\ Pool!TypeOK

Waiting == {backlog[n] : n \in 1..Len(backlog)}
Open == {c \in Conns : "fd" \in held[c]}

Init ==
  /\ process = "down"
  /\ config \in Configs
  /\ main = "pool"
  /\ new_socket = NoConn
  /\ backlog = <<>>
  /\ client = [c \in Conns |-> "away"]
  /\ gone = {} /\ answered = {} /\ starved = {}
  /\ held = [c \in Conns |-> {}]
  /\ at = [c \in Conns |-> "none"]
  /\ buffer = [c \in Conns |-> "empty"]
  /\ Pool!Init

\* The kernel closes what the process held, and its listening socket; the next
\* process starts from nothing.
Dies(how) ==
  /\ process' = how
  /\ main' = "pool"
  /\ new_socket' = NoConn
  /\ backlog' = <<>>
  /\ held' = [c \in Conns |-> {}]
  /\ at' = [c \in Conns |-> "none"]
  /\ buffer' = [c \in Conns |-> "empty"]
  /\ pending' = <<>> /\ running' = {} /\ finished' = {} /\ refused' = {}
  /\ phase' = "new" /\ capacity' = 0
  /\ UNCHANGED <<config, clients, answered, starved>>

\* exit(EXIT_FAILURE), after which systemd starts the service again.
Exits == Dies("down")

\* SIGPIPE is neither ignored nor handled: a write to a connection whose client
\* has gone may end the process. Restart=on-failure does not cover this signal.
BrokenPipe(c) == c \in gone /\ Dies("killed")

-----------------------------------------------------------------------------
(* The start                                                               *)

Start ==
  /\ process = "down"
  /\ process' = "up"
  /\ config' \in Configs
  /\ UNCHANGED <<main, new_socket, backlog, clients, held, serving, starved, pool>>

\* A pool that cannot be created is done without.
CreatePool ==
  /\ process = "up" /\ main = "pool"
  /\ \/ config.threadpool /\ Pool!Open(MAX_CONNECTIONS) /\ UNCHANGED config
     \/ config' = [config EXCEPT !.threadpool = FALSE] /\ UNCHANGED pool
  /\ main' = "listen"
  /\ UNCHANGED <<process, new_socket, backlog, clients, held, serving, starved>>

Listen ==
  /\ process = "up" /\ main = "listen"
  /\ main' = "accept"
  /\ UNCHANGED <<process, config, new_socket, backlog, clients, held, serving,
                 starved, pool>>

\* No certificate, or the port is taken.
ListenFails == process = "up" /\ main = "listen" /\ Exits

-----------------------------------------------------------------------------
(* The accept loop                                                         *)

\* Mutant of Accept: the -1 of a failed accept is taken for a socket.
AcceptUnchecked ==
  /\ main = "accept" /\ backlog = <<>>
  /\ new_socket' = -1
  /\ main' = "dispatch"
  /\ UNCHANGED <<process, config, backlog, clients, held, serving, starved, pool>>

\* An accept that fails changes nothing and is tried again.
Accept ==
  /\ main = "accept" /\ backlog # <<>>
  /\ new_socket' = Head(backlog)
  /\ backlog' = Tail(backlog)
  /\ held' = [held EXCEPT ![new_socket'] = {"fd"} \cup (IF config.https THEN {"ssl"} ELSE {})]
  /\ main' = IF config.https THEN "handshake" ELSE "dispatch"
  /\ UNCHANGED <<process, config, clients, serving, starved, pool>>

\* SSL_accept returns when the client has done its part, and not before.
Handshake(c) ==
  /\ main = "handshake" /\ new_socket = c
  /\ client[c] = "hello"
  /\ main' = "dispatch"
  /\ UNCHANGED <<process, config, new_socket, backlog, clients, held, serving,
                 starved, pool>>

\* main is done with its connection and goes back to accept.
NextRound == main' = "accept" /\ new_socket' = NoConn

Release(c) == held' = [held EXCEPT ![c] = {}]

\* Mutant of HandshakeFails: SSL_accept is tried again on the same connection.
HandshakeRepeated(c) ==
  /\ main = "handshake" /\ new_socket = c
  /\ client[c] = "hello" \/ c \in gone
  /\ UNCHANGED vars

\* The client is gone, or what it said is not TLS.
HandshakeFails(c) ==
  /\ main = "handshake" /\ new_socket = c
  /\ client[c] = "hello" \/ c \in gone
  /\ \/ /\ Release(c)
        /\ NextRound
        /\ UNCHANGED <<process, config, backlog, clients, serving, starved, pool>>
     \/ BrokenPipe(c)

Dispatching(c) == main = "dispatch" /\ new_socket = c

\* threadpool_add takes the connection; from here on it is a worker's.
HandOver(c) ==
  /\ Dispatching(c) /\ config.threadpool
  /\ Pool!Submit(c)
  /\ held' = [held EXCEPT ![c] = @ \cup {"args"}]
  /\ NextRound
  /\ UNCHANGED <<process, config, backlog, clients, serving, starved>>

\* Mutant of Refusal: the socket of a refused connection is forgotten.
RefusalLeaks(c) ==
  /\ Dispatching(c) /\ config.threadpool
  /\ Pool!Refuse(c)
  /\ NextRound
  /\ held' = [held EXCEPT ![c] = @ \ {"args", "ssl"}]
  /\ UNCHANGED <<process, config, backlog, clients, serving, starved>>

\* threadpool_add returned an error.
Refusal(c) ==
  /\ Dispatching(c) /\ config.threadpool
  /\ Pool!Refuse(c)
  /\ Release(c)
  /\ NextRound
  /\ UNCHANGED <<process, config, backlog, clients, serving, starved>>

NoMemoryForArgs(c) ==
  /\ Dispatching(c) /\ config.threadpool
  /\ starved' = starved \cup {c}
  /\ Release(c)
  /\ NextRound
  /\ UNCHANGED <<process, config, backlog, clients, serving, pool>>

\* SSL_shutdown of a connection that could not be handed over.
DropBreaks(c) == Dispatching(c) /\ config.threadpool /\ config.https /\ BrokenPipe(c)

\* Without a pool main serves the connection itself.
ServeInline(c) ==
  /\ Dispatching(c) /\ ~ config.threadpool
  /\ main' = "serve"
  /\ at' = [at EXCEPT ![c] = "read"]
  /\ UNCHANGED <<process, config, new_socket, backlog, clients, held, buffer,
                 answered, starved, pool>>

MainStep ==
  \/ CreatePool \/ Listen \/ ListenFails \/ Accept
  \/ \E c \in Conns :
       \/ Handshake(c) \/ HandshakeFails(c)
       \/ HandOver(c) \/ Refusal(c) \/ NoMemoryForArgs(c) \/ DropBreaks(c)
       \/ ServeInline(c)

-----------------------------------------------------------------------------
(* handle_connection_wrapper, run by a worker, and its copy in main        *)

\* A worker takes the oldest connection and starts the wrapper.
TakeConnection ==
  /\ pending # <<>>
  /\ Cardinality(running) < MAX_THREADS
  /\ at' = [at EXCEPT ![Head(pending)] = "read"]
  /\ Pool!Start
  /\ UNCHANGED <<process, config, main, new_socket, backlog, clients, held,
                 buffer, answered, starved>>

\* The next step of the code that serves c.
Goto(c, label) ==
  /\ at' = [at EXCEPT ![c] = label]
  /\ UNCHANGED <<process, config, main, new_socket, backlog, clients, held, pool>>

\* read() on the socket itself, also when TLS runs on it: there is no other end
\* to its waiting than bytes or the client's going.
ReadRequest(c) ==
  /\ at[c] = "read"
  /\ client[c] = "request"
  /\ buffer' = [buffer EXCEPT ![c] = IF config.https THEN "cipher" ELSE "plain"]
  /\ Goto(c, "handle")
  /\ UNCHANGED <<answered, starved>>

\* Mutant of ReadNothing: the early exit forgets the cleanup.
ReadNothingLeaves(c) ==
  /\ at[c] = "read" /\ c \in gone
  /\ IF c \in running THEN Pool!Finish(c) /\ UNCHANGED <<main, new_socket>>
     ELSE NextRound /\ UNCHANGED pool
  /\ at' = [at EXCEPT ![c] = "none"]
  /\ UNCHANGED <<process, config, backlog, clients, held, buffer, answered, starved>>

\* End of file or an error.
ReadNothing(c) ==
  /\ at[c] = "read" /\ c \in gone
  /\ Goto(c, "cleanup")
  /\ UNCHANGED <<buffer, answered, starved>>

\* The alert a TLS client takes its leave with is read as a request.
ReadAlert(c) ==
  /\ at[c] = "read" /\ c \in gone /\ config.https
  /\ buffer' = [buffer EXCEPT ![c] = "cipher"]
  /\ Goto(c, "handle")
  /\ UNCHANGED <<answered, starved>>

\* handle_request found a page, or an endpoint answered.
HandleRequest(c) ==
  /\ at[c] = "handle"
  /\ Goto(c, "write")
  /\ UNCHANGED <<buffer, answered, starved>>

\* No memory for the response: nothing is written.
HandleWithoutMemory(c) ==
  /\ at[c] = "handle"
  /\ starved' = starved \cup {c}
  /\ Goto(c, "cleanup")
  /\ UNCHANGED <<buffer, answered>>

\* Every error response logs a message, and log_message, whose init_logging was
\* never called, exits (Logging, log_uninitialised.cfg).
HandleError(c) == at[c] = "handle" /\ Exits

\* Mutant of WriteResponse: nothing is written without TLS.
WriteOverTLSOnly(c) ==
  /\ at[c] = "write"
  /\ answered' = IF config.https THEN answered \cup {c} ELSE answered
  /\ Goto(c, "cleanup")
  /\ UNCHANGED <<buffer, starved>>

WriteResponse(c) ==
  /\ at[c] = "write"
  /\ answered' = answered \cup {c}
  /\ Goto(c, "cleanup")
  /\ UNCHANGED <<buffer, starved>>

WriteBreaks(c) == at[c] = "write" /\ BrokenPipe(c)

\* The connection is closed, its arguments freed, and its thread is free again.
Cleanup(c) ==
  /\ at[c] = "cleanup"
  /\ at' = [at EXCEPT ![c] = "none"]
  /\ buffer' = [buffer EXCEPT ![c] = "empty"]
  /\ Release(c)
  /\ \/ c \in running /\ Pool!Finish(c) /\ UNCHANGED <<main, new_socket>>
     \/ c = new_socket /\ NextRound /\ UNCHANGED pool
  /\ UNCHANGED <<process, config, backlog, clients, answered, starved>>

\* SSL_shutdown writes.
CleanupBreaks(c) == at[c] = "cleanup" /\ config.https /\ BrokenPipe(c)

ServeStep(c) ==
  \/ ReadRequest(c) \/ ReadNothing(c) \/ ReadAlert(c)
  \/ HandleRequest(c) \/ HandleWithoutMemory(c) \/ HandleError(c)
  \/ WriteResponse(c) \/ WriteBreaks(c) \/ Cleanup(c) \/ CleanupBreaks(c)

-----------------------------------------------------------------------------
(* The clients                                                             *)

Connected(c) == c \in Waiting \cup Open

Connect(c) ==
  /\ process = "up" /\ main \notin {"pool", "listen"}
  /\ client[c] = "away"
  /\ Len(backlog) < Backlog
  /\ client' = [client EXCEPT ![c] = "silent"]
  /\ backlog' = Append(backlog, c)
  /\ UNCHANGED <<process, config, main, new_socket, gone, held, serving, starved, pool>>

\* Under TLS a client says hello first, and asks after the handshake.
Speak(c) ==
  /\ Connected(c) /\ c \notin gone
  /\ \/ client[c] = "silent"
     \/ client[c] = "hello" /\ "ssl" \in held[c] /\ ~ (main = "handshake" /\ new_socket = c)
  /\ client' = [client EXCEPT ![c] =
                  IF config.https /\ client[c] = "silent" THEN "hello" ELSE "request"]
  /\ UNCHANGED <<process, config, main, new_socket, backlog, gone, held, serving,
                 starved, pool>>

Leave(c) ==
  /\ Connected(c) /\ c \notin gone
  /\ gone' = gone \cup {c}
  /\ UNCHANGED <<process, config, main, new_socket, backlog, client, held, serving,
                 starved, pool>>

-----------------------------------------------------------------------------

Next ==
  \/ Start
  \/ MainStep
  \/ TakeConnection
  \/ \E c \in Conns : ServeStep(c)
  \/ \E c \in Conns : Connect(c) \/ Speak(c) \/ Leave(c)

Spec == Init /\ [][Next]_vars

\* main, the threads of the pool and the service manager go on.
FairSpec ==
  /\ Spec
  /\ WF_vars(Start) /\ WF_vars(MainStep) /\ WF_vars(TakeConnection)
  /\ \A c \in Conns : WF_vars(ServeStep(c))

\* And no client stays connected in silence for ever.
TalkativeSpec == FairSpec /\ \A c \in Conns : WF_vars(Speak(c) \/ Leave(c))

-----------------------------------------------------------------------------
(* Properties                                                              *)

\* Who is in charge of a connection: main, the queue, or a worker.
Owners(c) ==
  {o \in {"main", "queue", "worker"} :
     CASE o = "main" -> new_socket = c
       [] o = "queue" -> c \in Pool!Queued
       [] o = "worker" -> c \in running}

\* What the server holds for a connection is what its one owner needs: nothing
\* is released while somebody is still to use it, nothing stays behind when the
\* last owner is done, on any of the error paths, and no connection has two
\* owners, who would both close it.
HeldByOneOwner ==
  \A c \in Conns :
    /\ Cardinality(Owners(c)) <= 1
    /\ held[c] = IF Owners(c) = {} THEN {}
                 ELSE {"fd"} \cup (IF config.https THEN {"ssl"} ELSE {})
                             \cup (IF new_socket = c THEN {} ELSE {"args"})

\* A connection that is closed with its request made and its client there was
\* answered, or refused by the full queue, or failed for want of memory.
ClosedWithAnswer ==
  [][\A c \in Open : c \notin Open' /\ process' = "up"
        /\ client[c] = "request" /\ c \notin gone
       => c \in answered \cup refused' \cup starved']_vars

\* Every connection that was accepted is closed in the end.
ConnectionsEnd == \A c \in Conns : c \in Open ~> c \notin Open

\* Every connection that waits in the backlog is taken out of it.
BacklogMoves == \A c \in Conns : c \in Waiting ~> c \notin Waiting

\* A failing write is reported and the server goes on.
SurvivesFailedWrite == process # "killed"

\* What is parsed as a request is what the client wrote, not its encryption.
PlaintextParsed == \A c \in Conns : buffer[c] # "cipher"

-----------------------------------------------------------------------------
(* The inductive invariant the proofs of ServerProofs use.                 *)

\* main has a connection in hand exactly between accept and the end of its turn.
HandFull == main \in {"handshake", "dispatch", "serve"} <=> new_socket # NoConn

NoneTwice(s) == \A m, n \in 1..Len(s) : s[m] = s[n] => m = n

\* A connection waits in one queue once, or is main's, or is a worker's.
OneOwner ==
  /\ NoneTwice(backlog) /\ NoneTwice(pending)
  /\ \A c \in Conns :
       /\ new_socket = c => c \notin Waiting \cup Pool!Queued \cup running
       /\ c \in Pool!Queued => c \notin Waiting \cup running
       /\ c \in running => c \notin Waiting

\* Who has not connected is nowhere in the server.
StrangersNowhere ==
  \A c \in Conns : client[c] = "away" =>
    c # new_socket /\ c \notin Waiting \cup Pool!Queued \cup running

\* A process that has ended has nothing left.
NothingWhenDown ==
  process # "up" =>
    main = "pool" /\ new_socket = NoConn /\ backlog = <<>> /\ pending = <<>> /\ running = {}

\* The code comes to its cleanup with an answer written, or a reason for none.
CleanupHasReason ==
  \A c \in Conns : at[c] = "cleanup" => c \in answered \cup starved \cup gone

\* The inductive invariant: who has each connection, and what is held for it.
IInv ==
  /\ TypeOK
  /\ HandFull
  /\ OneOwner
  /\ StrangersNowhere
  /\ NothingWhenDown
  /\ HeldByOneOwner
  /\ CleanupHasReason
=============================================================================
