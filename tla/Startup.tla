------------------------------- MODULE Startup -------------------------------
(***************************************************************************)
(* The start of the server, from exec to the accept loop: load_config of   *)
(* src/config.c, isolation_init of security/isolation.c, and main up to    *)
(* listen.  The configuration file is what fgets returns, piece by piece;  *)
(* a piece is a setting [key, value], a comment or an unknown key.  A      *)
(* number stands for what atoi makes of the text.  Files and the port may  *)
(* change under the server while it starts.  A start that fails exits with *)
(* EXIT_FAILURE, and systemd starts the server again.                      *)
(*                                                                         *)
(* Server.tla begins where a configuration has been loaded;                *)
(* ImplementsServer says that this module does what Server takes for       *)
(* granted.                                                                *)
(***************************************************************************)
EXTENDS Integers, Sequences, SequencesExt, FiniteSets

CONSTANTS
  ConfigFiles,   \* the contents /etc/nas-web/nas-web.conf may have
  NoFile,        \* one of them: the file cannot be opened
  Users,         \* who may start the server; the unit says "root"
  Loads,         \* how many processes the user may run already
  Paths,         \* names of certificate and key files
  Relative,      \* those of them without a leading slash
  SizeWidth,     \* bits of a size_t
  MB,            \* 1024 * 1024
  MaxChanges     \* bound: how often a file or the port changes

PortKey == "PORT"
Ports == 1..65535
IntKeys == {"CACHE_TTL", "HSTS_MAX_AGE", "LOG_BACKUP_COUNT", "MAX_THREADS",
            "MAX_CONNECTIONS", "CONNECTION_TIMEOUT"}
SizeKey == "GZIP_MIN_SIZE"
MBKeys == {"CACHE_MAX_SIZE", "LOG_MAX_SIZE"}
FlagKeys == {"ENABLE_HTTPS", "CACHE_ENABLED", "GZIP_ENABLED", "CORS_ENABLED",
             "HSTS_ENABLED", "THREADPOOL_ENABLED"}
FileKeys == {"SSL_CERT_PATH", "SSL_KEY_PATH"}
TextKeys == FileKeys \cup {"FRONTEND_PATH", "API_PREFIX", "LOG_FILE"}
LevelKey == "LOG_LEVEL"
NumberKeys == {PortKey, SizeKey} \cup IntKeys \cup MBKeys
Levels == {"debug", "info", "warning", "error"}

SizeMax == 2 ^ SizeWidth

\* The initialiser of load_config; the keys stand for the fields they set.
Defaults ==
  [PORT |-> 80, FRONTEND_PATH |-> "/opt/nas-panel/dist", API_PREFIX |-> "/api",
   ENABLE_HTTPS |-> FALSE, SSL_CERT_PATH |-> "", SSL_KEY_PATH |-> "",
   CACHE_ENABLED |-> TRUE, CACHE_MAX_SIZE |-> 100 * MB, CACHE_TTL |-> 3600,
   GZIP_ENABLED |-> TRUE, GZIP_MIN_SIZE |-> 1024, CORS_ENABLED |-> TRUE,
   HSTS_ENABLED |-> FALSE, HSTS_MAX_AGE |-> 31536000,
   LOG_LEVEL |-> "info", LOG_FILE |-> "/var/log/nas-web.log",
   LOG_MAX_SIZE |-> 10 * MB, LOG_BACKUP_COUNT |-> 5,
   THREADPOOL_ENABLED |-> TRUE, MAX_THREADS |-> 10, MAX_CONNECTIONS |-> 100,
   CONNECTION_TIMEOUT |-> 30]

Keys == DOMAIN Defaults

ASSUME StartupAssumption ==
  /\ Users \subseteq {"root", "other"} /\ Loads \subseteq Nat
  /\ Relative \subseteq Paths /\ "" \notin Paths
  /\ {SizeWidth, MB, MaxChanges} \subseteq Nat
  /\ SizeMax \in Nat /\ 100 * MB < SizeMax /\ 1024 < SizeMax
  /\ \A text \in ConfigFiles \ {NoFile} :
       /\ text \in Seq(ToSet(text))
       /\ \A n \in DOMAIN text :
            /\ text[n].key = LevelKey => text[n].value \in STRING
            /\ text[n].key \in NumberKeys => text[n].value \in Int

\* The limits of threadpool_create and of isolation_set_resource_limits, the port
\* main falls back to, and the first one that needs no privilege.
MaxThreads == 64
MaxQueue == 65536
ProcessLimit == 64
FallbackPort == 8080
FirstFreePort == 1024

VARIABLES
  config_file,  \* the pieces of the configuration file
  user, load,   \* who runs the server, and that user's other processes
  files,        \* for each place in the file system "missing", "bad" or "good"
  tmp,          \* there is a /tmp
  port_taken,   \* another process listens on the port
  changes,      \* changes so far, for MaxChanges
  at,           \* where the start is; "hung" in threadpool_create
  line,         \* the piece to be read next
  config,       \* the Config of main
  cwd,          \* the working directory
  limit,        \* RLIMIT_NPROC of the process, 0 for none
  pool,         \* threads of the pool; 0 is NULL
  loaded,       \* what the TLS context has: keys of FileKeys
  previous      \* history: [https, threadpool] of the process before

given == <<config_file, user, load>>
world == <<files, tmp, port_taken, changes>>
process == <<line, config, cwd, limit, pool, loaded>>
vars == <<given, world, at, process, previous>>

Loading == {"down", "load", "cert", "key", "port", "isolate"}
Steps == Loading \cup {"pool", "hung", "context", "use_cert", "use_key", "bind", "listening"}

Text == IF config_file = NoFile THEN <<>> ELSE config_file

Dirs == {"/", "/tmp"}
Place(path, dir) == <<IF path \in Relative THEN dir ELSE "/", path>>
Places == {Place(p, d) : p \in Paths, d \in Dirs}

\* What a path of the configuration names; stat("") fails.
Found(key, dir) ==
  IF config[key] \in Paths THEN files[Place(config[key], dir)] ELSE "missing"
Exists(key, dir) == Found(key, dir) # "missing"

\* What each field of a Config may hold; sizes are those of a size_t.
Fits(key, value) ==
  /\ key = PortKey => value \in Ports
  /\ key \in IntKeys => value \in Nat \ {0}
  /\ key \in MBKeys \cup {SizeKey} => value \in 0..SizeMax - 1
  /\ key \in FlagKeys => value \in BOOLEAN
  /\ key = LevelKey => value \in Levels

IsConfig(c) == DOMAIN c = Keys /\ \A key \in Keys : Fits(key, c[key])

\* The variables hold values of their types.
TypeOK ==
  /\ config_file \in ConfigFiles /\ user \in Users /\ load \in Loads
  /\ files \in [Places -> {"missing", "bad", "good"}]
  /\ tmp \in BOOLEAN /\ port_taken \in BOOLEAN /\ changes \in 0..MaxChanges
  /\ at \in Steps
  /\ line \in 1..Len(Text) + 1
  /\ IsConfig(config)
  /\ cwd \in Dirs /\ limit \in {0, ProcessLimit} /\ pool \in 0..MaxThreads
  /\ loaded \subseteq FileKeys
  /\ previous \in [https : BOOLEAN, threadpool : BOOLEAN]

Init ==
  /\ config_file \in ConfigFiles /\ user \in Users /\ load \in Loads
  /\ files \in [Places -> {"missing", "bad", "good"}]
  /\ tmp \in BOOLEAN /\ port_taken \in BOOLEAN /\ changes = 0
  /\ at = "down"
  /\ line = 1 /\ config = Defaults /\ cwd = "/" /\ limit = 0 /\ pool = 0 /\ loaded = {}
  /\ previous = [https |-> FALSE, threadpool |-> FALSE]

-----------------------------------------------------------------------------
(* load_config                                                             *)

Goto(step) == at' = step /\ UNCHANGED <<given, world, previous>>

\* systemd starts a fresh process in the root directory.
Exec ==
  /\ at = "down"
  /\ Goto("load")
  /\ line' = 1 /\ config' = Defaults /\ cwd' = "/" /\ limit' = 0 /\ pool' = 0
  /\ loaded' = {}

\* Without a file the defaults are returned as they are.
OpenFails ==
  /\ at = "load" /\ config_file = NoFile
  /\ Goto("isolate")
  /\ UNCHANGED process

\* atoi's int as a size_t.
Unsigned(n) == n % SizeMax

\* Which settings are taken; a comment or an unknown key is none.
Accepts(piece) ==
  \/ piece.key = PortKey /\ piece.value \in Ports
  \/ piece.key \in IntKeys /\ piece.value > 0
  \/ piece.key \in MBKeys \cup {SizeKey} /\ Unsigned(piece.value) > 0
  \/ piece.key \in FlagKeys \cup TextKeys
  \/ piece.key = LevelKey /\ piece.value \in Levels

\* Mutant of Stored: a product that does not wrap.
StoredUnbounded(piece) ==
  CASE piece.key \in FlagKeys -> piece.value = "true"
    [] piece.key \in MBKeys -> Unsigned(piece.value) * MB
    [] OTHER -> piece.value

\* A flag is on for "true" only, and megabytes are multiplied as size_t.
Stored(piece) ==
  CASE piece.key \in FlagKeys -> piece.value = "true"
    [] piece.key = SizeKey -> Unsigned(piece.value)
    [] piece.key \in MBKeys -> Unsigned(Unsigned(piece.value) * MB)
    [] OTHER -> piece.value

ReadPiece ==
  /\ at = "load" /\ line <= Len(Text)
  /\ LET piece == Text[line] IN
       config' = IF Accepts(piece) THEN [config EXCEPT ![piece.key] = Stored(piece)] ELSE config
  /\ line' = line + 1
  /\ UNCHANGED <<given, world, at, cwd, limit, pool, loaded, previous>>

EndOfFile ==
  /\ at = "load" /\ config_file # NoFile /\ line > Len(Text)
  /\ Goto("cert")
  /\ UNCHANGED process

Disable(flag) == config' = [config EXCEPT ![flag] = FALSE]

\* TLS without its files is done without.
CheckCert ==
  /\ at = "cert"
  /\ IF config.ENABLE_HTTPS /\ ~ Exists("SSL_CERT_PATH", cwd)
     THEN Disable("ENABLE_HTTPS") ELSE UNCHANGED config
  /\ Goto(IF config.ENABLE_HTTPS THEN "key" ELSE "port")
  /\ UNCHANGED <<line, cwd, limit, pool, loaded>>

CheckKey ==
  /\ at = "key"
  /\ IF Exists("SSL_KEY_PATH", cwd) THEN UNCHANGED config ELSE Disable("ENABLE_HTTPS")
  /\ Goto("port")
  /\ UNCHANGED <<line, cwd, limit, pool, loaded>>

\* Mutant of CheckPort: the default port is kept by everybody.
CheckPortNever == at = "port" /\ Goto("isolate") /\ UNCHANGED process

CheckPort ==
  /\ at = "port"
  /\ config' = IF config[PortKey] = 80 /\ user # "root"
               THEN [config EXCEPT ![PortKey] = FallbackPort] ELSE config
  /\ Goto("isolate")
  /\ UNCHANGED <<line, cwd, limit, pool, loaded>>

-----------------------------------------------------------------------------
(* main                                                                    *)

\* exit(EXIT_FAILURE).
Exit ==
  /\ at' = "down"
  /\ previous' = IF at \in Loading THEN previous
                 ELSE [https |-> config.ENABLE_HTTPS, threadpool |-> config.THREADPOOL_ENABLED]
  /\ UNCHANGED <<given, world, process>>

\* The limit on processes may be refused, with a warning; then comes the chdir.
Isolate ==
  /\ at = "isolate" /\ tmp
  /\ limit' \in {0, ProcessLimit}
  /\ cwd' = "/tmp"
  /\ Goto("pool")
  /\ UNCHANGED <<line, config, pool, loaded>>

IsolateFails == at = "isolate" /\ ~ tmp /\ Exit

\* RLIMIT_NPROC counts all threads of the user, and does not bind root.
Fit(threads) == user # "root" /\ limit # 0 => load + 1 + threads <= limit

CreatePool ==
  /\ at = "pool" /\ config.THREADPOOL_ENABLED
  /\ config.MAX_THREADS <= MaxThreads /\ config.MAX_CONNECTIONS <= MaxQueue
  /\ Fit(config.MAX_THREADS)
  /\ pool' = config.MAX_THREADS
  /\ Goto("context")
  /\ UNCHANGED <<line, config, cwd, limit, loaded>>

\* Mutant of CreateFails: the flag stays.
CreateFailsUnnoticed ==
  /\ at = "pool" /\ config.THREADPOOL_ENABLED
  /\ Goto("context")
  /\ UNCHANGED process

\* threadpool_create returned NULL: a parameter out of range, no memory, or a
\* thread that could not be created.
CreateFails ==
  /\ at = "pool" /\ config.THREADPOOL_ENABLED
  /\ Disable("THREADPOOL_ENABLED")
  /\ Goto("context")
  /\ UNCHANGED <<line, cwd, limit, pool, loaded>>

\* A thread could not be created and an earlier one missed the broadcast
\* (ThreadPool, run pool_abort_hang): threadpool_create never returns.
CreateHangs ==
  /\ at = "pool" /\ config.THREADPOOL_ENABLED
  /\ config.MAX_THREADS \in 2..MaxThreads /\ config.MAX_CONNECTIONS <= MaxQueue
  /\ Goto("hung")
  /\ UNCHANGED process

NoPool ==
  /\ at = "pool" /\ ~ config.THREADPOOL_ENABLED
  /\ Goto("context")
  /\ UNCHANGED process

\* With TLS both files are looked for again, now from /tmp.
CheckFiles ==
  /\ at = "context"
  /\ config.ENABLE_HTTPS => \A key \in FileKeys : Exists(key, cwd)
  /\ Goto(IF config.ENABLE_HTTPS THEN "use_cert" ELSE "bind")
  /\ UNCHANGED process

FilesGone ==
  /\ at = "context" /\ config.ENABLE_HTTPS
  /\ \E key \in FileKeys : ~ Exists(key, cwd)
  /\ Exit

FileOf == [use_cert |-> "SSL_CERT_PATH", use_key |-> "SSL_KEY_PATH"]

\* Mutant of Use: the result of reading the file is ignored.
UseUnchecked(step, next) ==
  /\ at = step
  /\ loaded' = IF Found(FileOf[step], cwd) = "good" THEN loaded \cup {FileOf[step]} ELSE loaded
  /\ Goto(next)
  /\ UNCHANGED <<line, config, cwd, limit, pool>>

\* configure_context: a file that is no certificate, or no key for it, is fatal.
Use(step, next) ==
  /\ at = step /\ Found(FileOf[step], cwd) = "good"
  /\ loaded' = loaded \cup {FileOf[step]}
  /\ Goto(next)
  /\ UNCHANGED <<line, config, cwd, limit, pool>>

UseFails(step) == at = step /\ Found(FileOf[step], cwd) # "good" /\ Exit

UseCert == Use("use_cert", "use_key")
UseKey == Use("use_key", "bind")
UseCertFails == UseFails("use_cert")
UseKeyFails == UseFails("use_key")

Permitted(port) == user = "root" \/ port >= FirstFreePort

\* bind and listen.
Bind ==
  /\ at = "bind" /\ ~ port_taken /\ Permitted(config[PortKey])
  /\ Goto("listening")
  /\ UNCHANGED process

BindFails == at = "bind" /\ (port_taken \/ ~ Permitted(config[PortKey])) /\ Exit

Main ==
  \/ OpenFails \/ ReadPiece \/ EndOfFile \/ CheckCert \/ CheckKey \/ CheckPort
  \/ Isolate \/ IsolateFails
  \/ CreatePool \/ CreateFails \/ CreateHangs \/ NoPool
  \/ CheckFiles \/ FilesGone \/ UseCert \/ UseCertFails \/ UseKey \/ UseKeyFails
  \/ Bind \/ BindFails

\* Somebody writes or removes a file or /tmp, or takes or leaves the port.
Change ==
  /\ at # "listening" /\ changes < MaxChanges
  /\ changes' = changes + 1
  /\ \/ \E p \in Places, state \in {"missing", "bad", "good"} :
          files' = [files EXCEPT ![p] = state] /\ UNCHANGED <<tmp, port_taken>>
     \/ tmp' = ~ tmp /\ UNCHANGED <<files, port_taken>>
     \/ port_taken' = ~ port_taken /\ UNCHANGED <<files, tmp>>
  /\ UNCHANGED <<given, at, process, previous>>

Next == Exec \/ Main \/ Change

Spec == Init /\ [][Next]_vars

\* The process runs, and systemd starts it again.
FairSpec == Spec /\ WF_vars(Exec) /\ WF_vars(Main)

-----------------------------------------------------------------------------
(* Properties                                                              *)

\* Where the first pieces of the file have a setting of the key that is taken.
Taken(key, pieces) == {n \in 1..pieces : Text[n].key = key /\ Accepts(Text[n])}

\* The value they set: the last one that is taken, or the default.
Setting(key, pieces) ==
  IF Taken(key, pieces) = {} THEN Defaults[key] ELSE Stored(Text[Max(Taken(key, pieces))])

Configured(key) == Setting(key, Len(Text))

\* Every setting is the file's, but for the port somebody without privileges cannot
\* have, TLS that found no files and a pool that could not be created.
FollowsFile ==
  /\ \A key \in {"ENABLE_HTTPS", "THREADPOOL_ENABLED"} : config[key] => Configured(key)
  /\ config[PortKey] \in {Configured(PortKey), FallbackPort}
  /\ \A key \in Keys \ {PortKey, "ENABLE_HTTPS", "THREADPOOL_ENABLED"} :
       config[key] = Configured(key)

\* When the server listens, it does so with what it claims: TLS has both of its
\* files, the pool has the threads that the configuration says, or the flag that
\* makes main use it is off, the port can be had, and the rest is the file's.
ListensAsConfigured ==
  at = "listening" =>
    /\ loaded = IF config.ENABLE_HTTPS THEN FileKeys ELSE {}
    /\ pool = IF config.THREADPOOL_ENABLED THEN config.MAX_THREADS ELSE 0
    /\ Permitted(config[PortKey])
    /\ FollowsFile

\* "Port 80 requires root privileges. Falling back to port 8080."
PortFallsBack == at = "bind" => Permitted(config[PortKey]) \/ config[PortKey] # 80

\* TLS that was kept because its files were there does not fail for want of them.
FoundFilesStayFound == [][at = "context" /\ changes = 0 => at' # "down"]_vars

\* The start of Server, which begins with a configuration and has no word about
\* files, limits and ports, is what happens here.
Up == at \notin Loading
Process == IF Up THEN "up" ELSE "down"
Returned ==
  IF Up THEN [https |-> config.ENABLE_HTTPS, threadpool |-> config.THREADPOOL_ENABLED]
  ELSE previous
Stage ==
  IF at = "listening" THEN "accept"
  ELSE IF at \in Loading \cup {"pool", "hung"} THEN "pool" ELSE "listen"
HasPool == Up /\ pool > 0

Serving ==
  INSTANCE Server WITH
    Conns <- {}, Configs <- [https : BOOLEAN, threadpool : BOOLEAN],
    MAX_THREADS <- 1, MAX_CONNECTIONS <- 1, Backlog <- 10, NoConn <- NoFile,
    process <- Process, config <- Returned, main <- Stage,
    new_socket <- NoFile, backlog <- <<>>, client <- [c \in {} |-> "away"], gone <- {},
    held <- [c \in {} |-> {}], at <- [c \in {} |-> "none"],
    buffer <- [c \in {} |-> "empty"], answered <- {}, starved <- {},
    pending <- <<>>, running <- {}, finished <- {}, refused <- {},
    phase <- IF HasPool THEN "open" ELSE "new", capacity <- IF HasPool THEN 1 ELSE 0
ImplementsServer == Serving!Spec

\* The port the start will ask for.
Port ==
  IF Configured(PortKey) = 80 /\ user # "root" /\ config_file # NoFile
  THEN FallbackPort ELSE Configured(PortKey)

\* The state of a configured file, as the process sees it from a directory.
Shown(key, dir) ==
  IF Configured(key) \in Paths THEN files[Place(Configured(key), dir)] ELSE "missing"

\* The server can start: there is a /tmp, the port can be had, and TLS is off,
\* or given up for want of a file, or both files are good wherever it looks.
Serveable ==
  /\ tmp /\ ~ port_taken /\ Permitted(Port)
  /\ \/ ~ Configured("ENABLE_HTTPS")
     \/ \E key \in FileKeys : Shown(key, "/") = "missing"
     \/ \A key \in FileKeys : Shown(key, "/") # "missing" /\ Shown(key, "/tmp") = "good"

\* Whatever went wrong before, and however often the server exited, once it can
\* start it listens, unless a failing pthread_create hangs it.
ServesWhenPossible == <>[]Serveable => <>(at \in {"listening", "hung"})

-----------------------------------------------------------------------------
(* Why ListensAsConfigured is inductive.                                   *)

\* While the file is read, the configuration is what its first pieces say.
ReadSoFar == at = "load" => \A key \in Keys : config[key] = Setting(key, line - 1)

\* Afterwards it is what the whole file says.
ReadToEnd == at \notin {"down", "load"} => FollowsFile

\* The pool comes with its step, or the flag that makes main use it goes.
PoolByStep ==
  /\ at \in {"load", "cert", "key", "port", "isolate", "pool", "hung"} => pool = 0
  /\ at \in {"context", "use_cert", "use_key", "bind", "listening"} =>
       pool = IF config.THREADPOOL_ENABLED THEN config.MAX_THREADS ELSE 0

\* The certificate comes before its key, and without TLS there is neither.
LoadedByStep ==
  /\ at \in {"load", "cert", "key", "port", "isolate", "pool", "hung", "context"} => loaded = {}
  /\ at = "use_cert" => loaded = {} /\ config.ENABLE_HTTPS
  /\ at = "use_key" => loaded = {"SSL_CERT_PATH"} /\ config.ENABLE_HTTPS
  /\ at \in {"bind", "listening"} => loaded = IF config.ENABLE_HTTPS THEN FileKeys ELSE {}

IInv ==
  /\ TypeOK
  /\ ReadSoFar /\ ReadToEnd
  /\ PoolByStep /\ LoadedByStep
  /\ at = "listening" => Permitted(config[PortKey])
=============================================================================
