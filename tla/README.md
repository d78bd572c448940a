# nas-webserver: TLA+ models, checks and proofs

`nas-web` is a small HTTP/HTTPS server in C: one process, one accept loop, a
pool of threads that serve connections, a router with an in-memory file cache,
log files with rotation, and an in-memory record of security events; a load
generator comes with it. This directory holds TLA+ modules for its parts, TLC
configurations that check them, and TLAPS proofs of what they say about every
number of threads, connections, messages and bytes. Source paths below are
relative to `src/webserver/`.

## Inventory

| component | state | operations | interacts with |
|---|---|---|---|
| Thread pool (`src/threadpool.c`) | ring buffer `queue/head/tail/count`, `thread_count`, `started`, `shutdown`, mutex, condition variable | `threadpool_create`, `_add`, `_destroy`, `_free`, the loop of `threadpool_worker` | called by main; runs `handle_connection_wrapper` |
| Accept loop, connection handler (`src/main.c`) | `config`, the socket in hand, per connection: socket, `SSL`, `ConnectionArgs` | start-up, accept, `SSL_accept`, hand-over to the pool or inline service, `handle_connection_wrapper`, `safe_write` | pool, router, clients, systemd |
| File cache (`src/router.c:72-138, 179-235`) | `file_cache[]`: path, content, size, time of storing | `init_cache`, `get_cached_file`, `cache_file`, `read_file_content` | every worker, without a lock; files on disk |
| Routing and responses (`src/router.c`) | endpoint table, written at start only; per request: the text, the path in its buffer, an open file, the response | `parse_request`, `url_decode`, `normalize_path`, `is_path_traversal`, `handle_request`, `handle_wasm_file`, `build_response` | cache, monitoring, error pages |
| Logging (`src/logging.c`) | three streams, `current_config`, log files and their backups | `init_logging`, `log_message`, `rotate_logs`, `close_logs` | called by error pages and the router |
| Error pages (`src/error.c`) | none | `error_response` | logging |
| Configuration (`src/config.c`) | the `Config` value | `load_config` | main; the configuration file, certificate and key |
| Monitoring (`security/monitoring.c`) | `security_events[]`, `event_count`, a mutex, the security log | `log_security_event`, `detect_*`, `monitoring_cleanup_old_logs` | router |
| Isolation (`security/isolation.c`) | limits and directory of the process | `isolation_init` | main, once, before the pool is created |
| HTTP/2 (`src/http2.c`) | an nghttp2 session | never reached: no key of the configuration sets `http2_enabled` | main |
| Benchmark (`src/benchmark.c`) | arrays of threads and their counters, on the stack of `run_benchmark` | `run_benchmark`, `benchmark_thread`, `send_http_request` | a program of its own; the server, over TCP |
| Profiler (`src/profiler.c`) | none | prints durations | main |

What is hard, and what would make each part correct:

* **Pool.** Workers, callers of `add`, callers of `destroy` and the creator
  interleave; the creator's failure path and its counters do not take the lock.
  Correct: no wakeup is lost, no task dropped, reordered, run twice or run after
  it was refused; nothing is freed under a running thread, and everything is
  freed in the end.
* **Connections.** A connection has up to three resources and passes from main
  to the queue to a worker, with a failure possible at every step. Correct: one
  owner at a time, released with the last; nothing closed unanswered without a
  reason; every connection ends; one bad client costs only itself.
* **Cache.** Slots are shared, reused and read without a lock; the stamp is the
  time of storing. Correct: a reply is one version of the file asked for, with
  its own length, and not older than the validity rule allows.
* **Logging.** A rotation is a sequence of renames that a crash can cut and whose
  results nobody looks at, and the streams must follow it. Correct: only the oldest
  backup is ever lost, or one whose own rename failed.
* **Routing.** Three loops rewrite one buffer in place, one after the other;
  every call on a file can fail, and the file can change between them. Correct:
  the path that is routed is the one that was sent, nothing is sent that was not
  read, every request ends answered and gives back what it took.
* **Start.** The configuration is made of a file, defaults and fallbacks, and
  the facts it was checked against (files, directory, port, limits) change
  before they are used. Correct: a server that listens does what it claims, and
  one that can start does.
* **Monitoring.** Threads share a bounded list, and two operations read the clock
  before they wait for its mutex. Correct: the list is a piece of the true record,
  an attack is found and none invented, the mutex always comes back.
* **Benchmark.** Threads count into arrays that their creator owns. Correct: each
  request counts once, and a silent server does not stop the benchmark.

`PROJECT.json` lists the hazards line by line with the properties about them.

## Modules

| module | models | lines of the code |
|---|---|---|
| `TaskQueue` | what the pool promises its callers: a bounded FIFO with shutdown | `threadpool.h` |
| `ThreadPool` | the pool in full, with its properties, the inductive invariant `IInv` and the refinement `ImplementsQueue` | `threadpool.c` |
| `ThreadPoolProofs`, `ServerProofs`, `FileCacheProofs`, `LoggingProofs`, `MonitoringProofs`, `RouterProofs`, `BenchmarkProofs`, `StartupProofs` | theorems about the module each is named for; `RouterProofs` about `RequestPath` as well, `ThreadPoolProofs` that the pool implements `TaskQueue`, `StartupProofs` that the start implements `Server` | |
| `FileCache` | the cache and `read_file_content` | `router.c` |
| `Logging` | log files, streams, rotation, crash and restart | `logging.c` |
| `Server` | main, the connection handler, clients and systemd; instantiates `TaskQueue` as its pool | `main.c` |
| `Startup` | from exec to the accept loop: configuration, isolation, pool, TLS context, bind; with the refinement `ImplementsServer` | `config.c`, `isolation.c`, `main.c:150-239` |
| `RequestPath` | the path of a request, byte by byte: parsing, decoding, normalising, checking | `router.c:30-62, 156-177, 237-265` |
| `Router` | EXTENDS `RequestPath`: one request from its text to the response written and freed | `router.c`, `error.c`, `main.c:126-136` |
| `Monitoring` | the event list, its log file and all callers of its mutex | `monitoring.c` |
| `Benchmark` | the load generator and its threads | `benchmark.c` |
| `MCThreadPool`, `MCFileCache`, `MCServer`, `MCStartup`, `MCRouter`, `MCMonitoring`, `MCBenchmark` | definitions the configurations need | |

`ThreadPool` implements `TaskQueue`, which `Server` instantiates. `Startup`
implements the start of `Server`, which begins with a configuration and has no
word about how it came about. `Router` is what `Server` calls the handling of a
request; the cache is a choice in it (`CacheHit`, `CacheMiss`), which `FileCache`
resolves, and its log message a choice that `Logging` resolves.

### ThreadPool

`creator` is the position of `threadpool_create` in its own code; `worker[w]`
that of a thread (`lock`: about to take the mutex; `test`: holds it and looks at
`count` and `shutdown`; `sleep`: has decided to call `pthread_cond_wait`;
`asleep`: is in it; `run`: executes a task). A section that runs under
the lock is one action. There is one exception: a worker's test and its
`pthread_cond_wait` are two steps, because `AbortFlag` and `AbortWake`, which
model lines 97-98, write `shutdown` and broadcast without the lock and can fall
between them. `CountThread` is unlocked, too; that it meets no other writer is
`CountingIsExclusive`, part of the proved invariant. `live` says which of the five
objects (structure, two arrays, mutex, condition variable) exist. With
`SyncFaults` every pthread call whose result the code looks at may fail:
`AddSignalFails`, `AddUnlockFails`, `DestroyBroadcastFails` and so on, each with
the lock left as the code leaves it.

`Queue` maps the ring to the sequence `pending` and the counters to a `phase`;
`ImplementsQueue` says that every behaviour is one of `TaskQueue`.

### FileCache

A reader's steps are those between which another thread can act: `stat`, one slot
at a time of the search for the path (`Scan`, `ScanEnds`), the reads of `size` and of
`content` on a hit, the reading of the file, one slot at a time of the search for a place
(`BeginSearch`, `PickSlot`, `SearchEnds`, with the oldest stamp seen so far in `oldest`), the
frees, and the four assignments of `cache_file`. A content is named by file, version and
time of reading. Pointers whose target was freed have the value `Freed`; what a comparison
with freed memory yields is open (`Scan`). A reply is `whole`, or `cut` where `my_strdup`
met a NUL byte. Looking at one slot, and freeing path and content of one, are single steps,
so the model has fewer interleavings than the code and a violation it finds is real; what
holds with several readers is claimed of `TypeOK` only.

### Logging

Messages are numbers; a file is the sequence of its messages; a limit counts
messages. Each `remove` and `rename` is a step, `Kill` may come between any two,
and `Restart` starts over with what is on disk. A stream whose file was renamed
is `moved` and writes into the backup. `stat`, `access`, `remove` and `rename`, whose
failures the code takes for an answer or ignores, may fail under `FileFaults`: the file
stays where it is and the loop goes on. `stuck` is a history of the files for which
that happened in this call; `GivenUp` uses it to say what a failure may cost.

### Server

`main` is at `pool`, `listen`, `accept`, `handshake`, `dispatch` or `serve`
(inline service). `held[c]` is the set of resources the server has for a
connection, `at[c]` the place of the code serving it, in a worker or in main:
the two copies of that code (`main.c:109-148` and `290-334`) do the same steps, and
`Cleanup` ends either. The pool's variables are those of `TaskQueue`, moved by
`Pool!Open`, `Pool!Submit`, `Pool!Refuse`, `Pool!Start` and `Pool!Finish`; that the real pool behaves
so is `ImplementsQueue`. A client connects, under TLS says hello, sends a request, and may leave
at any time. `Exits` is `exit(EXIT_FAILURE)`, which systemd answers with a new
process (`Start`); `BrokenPipe` is death by SIGPIPE, which
`Restart=on-failure` does not cover. The content of requests is left out: a
request leads to a response, to no memory for one, or to an error response,
which by `Logging` (`log_uninitialised.cfg`) is an exit. `Router` opens that up.

### Startup

A configuration file is what `fgets` returns: a sequence of pieces, each a
setting, a comment or an unknown key, where a number stands for what `atoi`
makes of its text. `ReadPiece` takes one (`Accepts`, `Stored`). `CheckCert`,
`CheckKey` and `CheckPort` are the fallbacks at the end of `load_config`;
`Isolate` sets the limit on processes and changes to `/tmp`; `CreatePool`,
`CreateFails` and `CreateHangs` are what `threadpool_create` can do (`ThreadPool`);
`CheckFiles`, `Use` and `Bind` are the rest of main before the accept loop. `Change`
writes or removes a file or `/tmp`, or takes or leaves the port, between any two
of them. `Exit` is `exit(EXIT_FAILURE)`, `Exec` the restart by systemd.

### RequestPath and Router

Text is a sequence of bytes. `strtok` and `parse_request` give `path` and `body`;
from `CopyPath` on, `decoded` is the buffer `decoded_path` with its terminators, and
`src` and `dst` are the two pointers of the loop that runs. The buffer is left
as each loop leaves it, so what lies behind a terminator is still there. In
`Router` a content is its length: `response.bytes` counts those that something was
written to, `response.size` is `content_size`. `held` is what the request has open or
allocated. Files are read in the steps of the code, each of which may fail, and
`Change` gives the open file another length between them. A hit on the cache is a
content of any length, as `FileCache` has it of one thread: whole, or cut (`response.cut`)
at a NUL byte by `my_strdup` with `content_size` that of the whole. What several threads do
to an entry is `FileCache`'s subject and not repeated here.

### Monitoring

`security_events` is the used part of the array. A call is at `lock`, in its
critical section, or at `unlock`; within `log_security_event` the entry and the line
in the log are two steps. `recorded` is a history of all events, in the order of
their entry. `Sources` are the pairs of address and type that the properties tell
apart. `detect_brute_force`, `monitoring_cleanup_old_logs` and the audit functions
have no caller in the program today, apart from the cleanup after main's endless
loop; the module gives them to every thread.

### Benchmark

One behaviour is one run of the program: `Runs` are its calls of `run_benchmark`. A
thread connects, sends, reads pieces until the server closes, and counts; the
server may do nothing at all, and `TimedOut` is the socket's timeout. `main` creates
the threads (`CreateThread`), joins them (`Join`), adds their counters to a sum in one
step per thread (`Add`) and prints the sum (`PrintTotals`). The model
stops where a thread writes to arrays that are gone (`undefined`) and where SIGPIPE
ends the program (`killed`).

## Runs

| run | bounds | shows |
|---|---|---|
| `pool_core` | 2 workers, rings of 1 and 2, 4 tasks, 1 destroy, arguments out of range on both sides | `WorkConserving`, `DestroyFrees`, `GracefulDrains`, `ImplementsQueue`; under fairness `AcceptedTasksRun`, `DestroyTerminates` |
| `pool_faults` | 3 workers, ring of 2, 2 tasks, 2 destroys, failing pthread calls | `QueueInv`, `NoUseAfterFree`, `NullLeaksNothing`, `ShutdownIsFinal` |
| `cache_sequential` | 1 reader, a text and a binary file, 2 slots, 2 versions, 3 seconds, failing malloc | `ServesOwnFile`, `NoDanglingAccess`, `StaleOnlyInWindow`, `EvictsOldest` |
| `log_rotation` | 3 logs, limit 1, 3 backups, 7 messages, kills, failing opens, stats, accesses, removes and renames | `StreamsFollowRotation`, `OnlyOldestDropped`, `RotatedOnReturn` |
| `server_safety` | 4 clients, 1 worker, queue of 1, all configurations | `HeldByOneOwner`, `ClosedWithAnswer` |
| `server_live` | 2 clients, 1 worker, queue of 1, all configurations | `ConnectionsEnd`, `BacklogMoves` |
| `startup` | 7 configuration files, root and another user, with 0 or 60 processes, all states of a certificate (absolute path) and a key (relative), 1 change | `ListensAsConfigured`, `ImplementsServer`; under fairness `ServesWhenPossible` |
| `router` | every path of 1 to 4 characters out of `/ % 2 f 0 .`, 26 requests for the routes and edges, fields of 3 and 9 characters, files of up to 2 bytes that change while they are read, every call failing | `PathAsSent`, `SentWasRead`; under fairness `EndsAnswered` |
| `monitoring` | 2 threads, 4 calls, an array of 2, window and retention of 1, 2 ticks of the clock | `RecordKept`, `BruteForceFound`; under fairness `CallsReturn` |
| `benchmark` | a call of `run_benchmark` with 3 threads and one with 1, 2 requests each, answers in up to 1 piece before the close | `TotalsAddUp`; under fairness `BenchmarkEnds` |

Each but `server_live` checks a type invariant as well (`pool_faults` the inductive invariant, of which it is a part); in `server_safety`, `monitoring`, `benchmark` and
`router` it says more than types (who owns a mutex or a socket, that no pointer
leaves its buffer).

Why the bounds are enough. Four tasks on a ring of two wrap both indices and
fill the ring twice; two workers are the fewest for which a signal can go to the
wrong one, and three the fewest for which a join loop can be between two living ones.
Two slots and two versions of two files make stale duplicates, a full cache and
evictions. Seven messages with a limit of one rotate a log three times, so the
oldest of three backups is dropped. Four clients are one more
than a worker, a queue slot and main can hold. In `server_live` the second
client is the one that waits for the first. The seven configuration files are
one for each way a value is refused, replaced or wraps, and for TLS that is kept,
given up and never asked for; a size_t of 16 bits with megabytes of 16 bytes
stands for the 32 bits and 2^20 of the smallest build (the package is built for
any architecture), so that both a negative and a large number of
megabytes wrap. One change is enough for every check to be stale when it is
used; a second would only be another start. Four characters hold an escape and a
neighbour on either side of a slash, an escape that yields a percent sign, a slash or a
NUL, and one that is cut off; fields of 3 and 9 characters make both
widths of `sscanf` bite. An array of two is full, emptied in part and filled again
within four calls, and two failures are the fewest that are more than one attempt.

The two other listed runs each check one statement of the repository that the code
does not keep; the trace TLC prints is the argument:

| run | property | what happens |
|---|---|---|
| `pool_abort_hang` | `CreateTerminates` | creation fails at the second thread; the first has tested `shutdown` and not yet slept, misses flag and broadcast, and is joined for ever |
| `cache_torn` | `ServesOwnFile` | two threads in the cache without a lock: a thread finds an entry that another is still writing and returns the content with a length that is not its own |

These configurations are kept as demonstrations of further weak points. They are
not listed in `PROJECT.json`; each violates its one property:

| configuration | module | property | what happens |
|---|---|---|---|
| `pool_double_destroy.cfg` | `MCThreadPool` | `DestroyTerminates` | a second `threadpool_destroy` returns with the lock held; nobody calls it twice today |
| `pool_refused_runs.cfg` | `MCThreadPool` | `RefusedNeverRuns` | a failing `pthread_cond_signal` reports a queued task as refused |
| `cache_dangling.cfg` | `MCFileCache` | `NoDanglingAccess` | two threads in the cache: one uses what the other freed |
| `cache_evicts_fresh.cfg` | `MCFileCache` | `EvictsOldest` | two threads in the cache: one frees the entry the other has just stored, while another slot is free |
| `cache_binary.cfg` | `MCFileCache` | `ServedWhole` | a hit on a file with a NUL byte is cut there by `my_strdup` |
| `cache_sticky_null.cfg` | `MCFileCache` | `AvailableFileServed` | one failed malloc makes a file unavailable until it changes |
| `log_rename_fails.cfg` | `Logging` | `NothingButOldestDropped` | the rename of a backup fails unnoticed and the next one lands on it |
| `log_unwritable.cfg` | `Logging` | `AlwaysRotated` | the current file cannot be renamed and stays over its limit |
| `log_uninitialised.cfg` | `Logging` | `LoggingReturns` | no part of the program calls `init_logging`: the first log message, that of any error page (`error.c:24`), ends the process |
| `server_idle.cfg` | `MCServer` | `ConnectionsEnd` | `CONNECTION_TIMEOUT` (`debian/config/nas-web.conf.default:35`) is read and not used: a silent client stays for ever |
| `server_sigpipe.cfg` | `MCServer` | `SurvivesFailedWrite` | a client that leaves early ends the server before the `perror("write failed")` of `main.c:101` |
| `server_tls.cfg` | `MCServer` | `PlaintextParsed` | with TLS, requests are parsed from ciphertext, against "Secure HTTPS support" (`debian/control:19`) |
| `server_stalled.cfg` | `MCServer` | `BacklogMoves` | one unfinished TLS handshake stops the accept loop |
| `startup_no_file.cfg` | `MCStartup` | `PortFallsBack` | without a configuration file, line 56 returns before the fallback that `config.c:165` announces |
| `startup_relative.cfg` | `MCStartup` | `FoundFilesStayFound` | a relative path is found from `/` and not from `/tmp`: the server exits at every start |
| `router_body.cfg` | `MCRouter` | `BodyParsed` | `strtok` has cut the text before the body is looked for: it is always empty |
| `router_binary.cfg` | `MCRouter` | `NothingUnread` | a binary file from the cache goes out with the size of the whole, of which `my_strdup` copied the part before the first NUL byte |
| `benchmark_arrays.cfg` | `MCBenchmark` | `StatsStayAlive` | when a thread cannot be created, the earlier ones go on counting in arrays that are gone |

Some keys of the configuration file are parsed into `Config` and read nowhere
(`CACHE_ENABLED`, `CACHE_TTL`, `CACHE_MAX_SIZE`, `CONNECTION_TIMEOUT`), so no constant of
the models stands for them.

### Fairness

`ThreadPool!Fairness`: weak fairness of `threadpool_create`, of each worker and of a
destroy that has begun. A thread that can run does run, a task returns, and the
mutex is free infinitely often for whoever waits: weak fairness of `WorkerStep`
suffices for the properties checked because each thread's turn at the lock is
finite. Nobody has to add, to destroy, or to wake spuriously.
`Server!FairSpec`: main, workers and systemd go on; clients need not.
`TalkativeSpec` adds that no client stays connected and silent for ever. That is an
assumption about clients, not something the code enforces, which is what
`server_idle` and `server_stalled` show by leaving it out. A response is taken to
fit the socket's buffer or to be read: a client that never reads is a silent one.

`Startup!FairSpec`: the process runs, and systemd starts it again
(`Restart=on-failure`; `RestartSec=5s` keeps it below systemd's default limit of starts). The world need not behave: the
property asks only that it can start from some time on.
`Router!FairSpec`: the thread that serves the request runs; every call returns.
`Monitoring!FairSpec`: weak fairness of each thread in a call. The number of calls is
bounded, so whoever waits for the mutex gets it in the end; in the program that
takes a mutex that does not starve a waiter.
`Benchmark!FairSpec`: main and the threads run, the timeout of a socket fires; the
server owes nothing. `MaxReads` bounds the pieces of an answer: a server that sends a
byte every four seconds for ever does stop the benchmark.

`CHECK_DEADLOCK FALSE` is set where the system may stop: a freed pool, or a
server whose bounded clients are served or whose process was killed; a request that is done,
a server that listens, a benchmark that has ended, and calls that are used up.

## Proofs

Every theorem holds for all values of the constants that satisfy the module's
`...Assumption`, which TLC evaluates in the runs. Where a theorem needs more, its
statement says so, and a configuration shows that it does:

| hypothesis | of | without it |
|---|---|---|
| `~ SyncFaults` | `PoolImplementsQueue`, `WorkIsConserved`, `RefusedTasksNeverRun` | `pool_refused_runs.cfg`: a failing signal reports a queued task as refused |
| `OneReader` | all theorems of `FileCacheProofs` but `CacheTypes` | `cache_torn`, `cache_dangling.cfg`, `cache_evicts_fresh.cfg`: two threads share the cache without a lock |
| `InitCalled` | `StreamsAlwaysFollow` | `log_uninitialised.cfg`: nothing can be logged |
| `config_file # NoFile` | `FileMakesPortFallBack` | `startup_no_file.cfg`: port 80 for somebody who cannot bind it |

The other theorems of these modules, and all of `ServerProofs`, `MonitoringProofs`,
`RouterProofs` and `BenchmarkProofs`, need nothing more.

`OneReader` is the server with `THREADPOOL_ENABLED=false`, or whose pool could not be
created, not the default; of any number of threads `CacheTypes` says that no index leaves
the array, and no more can be said.

Where the code breaks what one would like to say, the property names its
exception: `ServesOwnFile` and `SentWasRead` except the copy of a
binary file that `my_strdup` cuts, `OnlyOldestDropped` and `RotatedOnReturn` the file
whose own system call failed. The demonstrations above state each without its exception
(`ServedWhole`, `NothingUnread`, `NothingButOldestDropped`, `AlwaysRotated`) and fail.

Each module of proofs has one lemma for each action, and under it one step for each part
of the invariant that the action can disturb; the theorem puts them together.
The inductive invariant stands in the module of the model, in named parts, each with a
comment. `QueueInv`, of which the pool's others are parts, is an invariant of `pool_faults`;
the others hold in TLC, too, on the bounds of their module's run, when the configuration
is given `INVARIANT IInv` (`SequentialInv` in `cache_sequential.cfg`).

### The thread pool

* `PoolInvariant` (`IInv`), and from it `PoolTypes`, `NeverUsedAfterFree`, `NullNeverLeaks`,
  `ShutdownStaysFinal`. `RingCoherent` is inductive only with the bounds of the
  indices (`IndicesInRing`). `NoUseAfterFree` needs that memory is freed only after every
  thread was joined (`JoinedExited`), that the joined ones are all there are
  (`BornInOrder`), that the creator's unlocked counting meets no leaving worker
  (`CountingIsExclusive`), and what is allocated at each stage (`LiveByStage`).
  `LockOwned` ties the positions of the workers to the mutex.
* `DestroyAlwaysFrees`, `GracefulAlwaysDrains`: with `ShutdownInv`, which adds that
  `started` is the number of threads counted and not gone (`StartedCounts`) and that a
  thread leaves a graceful shutdown only with an empty ring (`LeftEmpty`).
* `QueueInvariant`, `PoolImplementsQueue`, `WorkIsConserved`, `RefusedTasksNeverRun`:
  `QueueInv` adds that a task is in one place only. Each action of the pool maps to one of
  `TaskQueue` or to none: `Queue!Submit` is where the task is stored, `Queue!Start` where a worker
  takes it, `Queue!Dispose` where the pool is freed.

### The server

`ServerInvariant`, `ServerTypes`, `ConnectionsHaveOneOwner`, `ClosedOnlyWithAnswer`.
`HeldByOneOwner` is inductive with `OneOwner` (no connection is in two queues, or in one
twice), `HandFull` (main has a connection exactly between accept and the end of its turn),
`StrangersNowhere` and `NothingWhenDown`. `ClosedWithAnswer` is about steps; it rests on
`CleanupHasReason`: the code comes to its cleanup with an answer written or a reason.

### The file cache

`CacheTypes` for any number of readers. For one reader
`SequentialInv` says how far the slot that is being written has come (`HalfWritten`),
that every other one is whole (`OthersWhole`), that what is stored or found is of the file
asked for (`StoresOwn`, `FoundOwn`), that the search has passed only taken slots and none
older than the oldest it remembers (`SearchedOldest`), and that a content that is no longer
the file's was read before it changed (`ReadBefore`): `OneThreadServesOwnFile`,
`OneThreadNeverDangles`, `OneThreadStaleOnlyInWindow`, `OneThreadEvictsOldest`. The last one is
about the moment of the free (line 124) and not of the choice: between the two another
thread may stamp the slot, which is why it needs `OneReader`.

### Logging

`LoggingInvariant`, `LoggingTypes`, `StreamsAlwaysFollow`, `OnlyOldestIsDropped`, `ReturnsRotated`.
The point of the proof is `RoomForRename`: before each rename the name it lands on has
been vacated by the one before, or never existed (`AbsentEmpty`), or its own rename failed
(`GivenUp`), and a rotation that a
crash has cut leaves a gap that the next one closes without losing anything. `PassedSmall`
carries the limit through the loop over the logs, but for those whose stat or rename failed
(`stuck`). No theorem assumes that the calls succeed.

### Monitoring

`MonitoringInvariant`, `MonitoringTypes`, `RecordIsKept`, `BruteForceIsFound`. The events are
`Chronological` although two calls may record in the order of the mutex and not of their
arrival: the clock is read inside. `Dropped` and `LatestHeld` say that the list is
a final piece of the record whose missing part is older than any window that can still be asked for;
from there a scan that counts in the list counts what the record shows (an injection from
the one set of positions into the other). `Kept`, what a cleanup leaves, is a recursive function,
and that it is a final piece is shown by induction (`NumberInduction`).

### The path of a request, and the router

`RouterInvariant`, `RouterTypes`, `PathIsAsSent`, `SentIsRead`, `DoneIsAnswered`.
`PathAsSent` compares three loops that overwrite one buffer in place with a definition
that has neither buffer nor pointers: select the positions that are no tails of escapes, put
the value each stands for, cut at the first NUL, drop every slash before another.
`LoopAt` is what such a loop has done when it stands at `src`: from there on the buffer is
still the text with its terminator; before `dst` it has the values of the selected
positions, in order; and `dst` is one more than their number before `src`, so it never
overtakes `src`, which is why working in place is right (`LoopKeeps`, `LoopEnds`). `Decoding` and
`Normalizing` instantiate it. That `src` is never inside an escape (the second half of
`Decoding`) is what makes the look-ahead at `src + 1` and `src + 2` read text that
the loop has not written yet; the terminator keeps it in the buffer. What the
operators on positions compute (`NthFacts`, `SelectedFacts`) is proved with cardinalities and
least elements. In the router, `Held` says what is open or allocated at each step, `Measured`
that no content is asked for of a length that is not known, `Described` and `Accounted`
which steps have a status, a length, or an answer; `SentWasRead` and
`AnsweredWhenDone`, the safety half of `EndsAnswered`, follow.

### The start

`StartupInvariant`, `StartupTypes`, `AlwaysListensAsConfigured`, `StartImplementsServer`.
`ListensAsConfigured` compares the configuration of a listening server with a definition
that has no loop: the value of a key is the one its last accepted setting stores, or the
default (`Setting`). `ReadSoFar` is the invariant of the loop of `load_config`: after `line - 1`
pieces the configuration is what these pieces say. That one more piece changes just what
`Setting` says of one key is the lemma `NextSetting`; from the end of the file on,
`ReadToEnd` keeps `FollowsFile` through the three fallbacks and through a pool that could not be
created. `PoolByStep` and `LoadedByStep` say what pool and TLS context have at each step, so
that a flag in the configuration is never true of something that is not there. `Exec` starts
with the defaults again, which is why no part of the invariant speaks of `down`.
`TypeOK` is where the product of megabytes has to wrap (`Fits`). `FileMakesPortFallBack` adds
`FallenBack` to the invariant: the port was looked at when `load_config` returns.

For `StartImplementsServer` the variables of `Server` are computed from those of the start
(`Process`, `Returned`, `Stage`, `HasPool`): loading is Server's process being down, the end of
`isolation_init` its `Start`, the creation of the pool or its failure its `CreatePool`, bind its
`Listen`, and a failing start its `Exits`. Connections there are none yet. Everything else,
the changes of the world included, Server does not see (`Unnoticed`).

### The benchmark

`BenchmarkInvariant`, `BenchmarkTypes`, `PrintedTotalsAddUp`. Each thread has counted the
requests it is past (`EachCountedOnce`), the joined ones are past all of theirs
(`JoinedAreDone`), the ones not created have counted nothing (`NotYetCreated`), and
the sum holds the counters of the threads it has passed (`SumSoFar`). That the counters of a joined
thread do not move while they are added is what makes the loop right.

### What the provers cannot do here

* Liveness (`AcceptedTasksRun`, `DestroyTerminates`, `ConnectionsEnd`, `BacklogMoves`, `CallsReturn`,
  `BenchmarkEnds`, `ServesWhenPossible`, `EndsAnswered`): fairness and ENABLED are beyond them.
* The library's induction theorems take the property as an operator, which the
  provers cannot instantiate. Least elements of sets of numbers (`LeastOfNumbers`,
  `MinFacts`), and from them induction (`NumberInduction`), are derived from the
  well-foundedness of the numbers instead, and that was enough.

Every invariant and every action property of the passing runs is proved, and so are both
refinements; the liveness properties above are what is only model-checked.

The proofs rest on four assumptions about constants that are easily overlooked:
`CacheAssumption`, that a file has at least one version; `MonitoringAssumption`, that the
window of `detect_brute_force` is no longer than the events are kept (minutes against days in
the code); and `RequestPathAssumption`, that a request is a text of bytes other than
NUL, which `read` and the terminator that main puts after it make of any input; and
`StartupAssumption`, that a size_t holds the defaults (100 MB, which 27 bits do) and that
the value of a number's key is the integer `atoi` makes of it.

## Not modelled

* HTTP/2 (`http2.c`): no key sets `http2_enabled`, so it is never reached.
* The profiler: compiled in only with `ENABLE_PROFILING`; it prints durations.
* Functions without a caller: `compress_gzip`, `handle_wasm_request`, `register_middleware`,
  `error_message`, `isolation_drop_privileges`, `isolation_limit_capabilities`,
  `isolation_secure_directory`; and the cleanup after main's endless loop.
* Of isolation: chroot, which main configures off, and the limits other than the
  one on processes, which no modelled step depends on.
* Failures of `SSL_new`, `SSL_CTX_new`, `socket` and `setsockopt`. Texts of the configuration fit
  their fields, and a line longer than `fgets` takes is several pieces.
* Formatting everywhere: headers, MIME types, pages, times, percentages. `security_log_path`
  is never set by `load_config`; whether the security log can be opened is a free choice.
* A request is what one `read` returns, as in the code; one that arrives in
  pieces is not told apart.
* `Logging` has one caller. In the program as it is the first message ends the
  process, so two threads never get to log side by side. A message that is written in part
  or not at all (a full disk) is not modelled, and paths of logs fit `PATH_MAX`.
* In `FileCache`, another thread between the two frees of one slot, or between the
  comparison of a path and the look at its stamp; in `Router`, several threads in the cache.

`pool_faults` and `server_safety` check safety only, so their configurations declare the tasks,
callers and clients symmetric; runs with a liveness property use no symmetry.

## What could come next

1. That `Server`'s pool may be replaced by `ThreadPool`, from `PoolImplementsQueue`: a module that
   composes the two, and a proof that the tasks of the one are the connections of the other.
2. `Logging` with several callers, should `init_logging` get a caller in the program.
3. The `FileCache` under the lock it lacks, should it get one: the theorems about one reader
   are then those about any number.
