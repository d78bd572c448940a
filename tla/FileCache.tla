------------------------------ MODULE FileCache ------------------------------
(***************************************************************************)
(* The file cache of src/router.c: read_file_content with get_cached_file  *)
(* and cache_file, called without any lock by every worker of the thread   *)
(* pool (or by main alone when there is no pool).  A reader's accesses to  *)
(* the shared slots are separate steps wherever another reader or a writer *)
(* of the files can come between them.                                     *)
(*                                                                         *)
(* Time is in seconds, the resolution of time() and of the st_mtime the    *)
(* cache compares.  A content is named by the file and the version it was  *)
(* read from; readAt, which the code does not keep, says when.             *)
(***************************************************************************)
EXTENDS Integers, FiniteSets

CONSTANTS
  Paths,         \* files below frontend_path
  BinaryPaths,   \* those whose content has a NUL byte
  Readers,       \* threads that serve requests
  MAX_CACHE_SIZE,
  AllocFaults,   \* whether malloc may fail
  MaxVersion,    \* bound: a file is written this often
  MaxTime,       \* bound: the clock stops here
  NULL,
  Freed          \* a pointer whose target was freed

ASSUME CacheAssumption ==
  /\ BinaryPaths \subseteq Paths
  /\ MAX_CACHE_SIZE \in Nat \ {0}
  /\ AllocFaults \in BOOLEAN
  /\ MaxVersion \in Nat \ {0} /\ MaxTime \in Nat
  /\ NULL # Freed /\ {NULL, Freed} \cap Paths = {}
  /\ {NULL, Freed} \cap [of : Paths, version : 1..MaxVersion, readAt : 0..MaxTime] = {}

VARIABLES
  now,           \* time(NULL)
  file,          \* the files on disk; version 0: there is none
  file_cache,
  pc, req,       \* where each reader is, and the path it was asked for
  st,            \* its struct stat: the file as it was at the call of stat
  i, oldest,     \* the loop counter of a search, and the oldest stamp it has seen
  at,            \* the slot it found, or would take
  buffer,        \* what it read from disk
  size,          \* *out_size, as the content whose length it is
  reply,         \* what read_file_content returned
  refused        \* whether a malloc of this call failed

disk == <<now, file>>
locals == <<req, st, i, oldest, at, buffer>>
result == <<size, reply, refused>>
vars == <<disk, file_cache, pc, locals, result>>

Slots == 0 .. MAX_CACHE_SIZE - 1
Contents == [of : Paths, version : 1..MaxVersion, readAt : 0..MaxTime]
Files == [version : 0..MaxVersion, mtime : 0..MaxTime]
NoFile == [version |-> 0, mtime |-> 0]
Entries ==
  [path : Paths \cup {NULL, Freed}, content : Contents \cup {NULL, Freed},
   size : Contents \cup {NULL}, last_modified : 0..MaxTime]
EmptySlot == [path |-> NULL, content |-> NULL, size |-> NULL, last_modified |-> 0]

\* What the caller gets: a whole copy of a content, the part before its first
\* NUL byte, bytes of freed memory, or NULL.
Forms == {"none", "whole", "cut", "garbage", "null"}
NoReply == [form |-> "none", content |-> NULL]

PCs == {"idle", "stat", "scan", "size", "copy", "open", "search", "pick", "release",
        "path", "content", "length", "stamp"}

\* The variables hold values of their types.
TypeOK ==
  /\ now \in 0..MaxTime
  /\ file \in [Paths -> Files]
  /\ file_cache \in [Slots -> Entries]
  /\ pc \in [Readers -> PCs]
  /\ req \in [Readers -> Paths \cup {NULL}]
  /\ st \in [Readers -> Files]
  /\ i \in [Readers -> 0..MAX_CACHE_SIZE]
  /\ oldest \in [Readers -> 0..MaxTime]
  /\ at \in [Readers -> Slots]
  /\ buffer \in [Readers -> Contents \cup {NULL}]
  /\ size \in [Readers -> Contents \cup {NULL}]
  /\ reply \in [Readers -> [form : Forms, content : Contents \cup {NULL}]]
  /\ refused \in [Readers -> BOOLEAN]

\* init_cache ran before the first connection was accepted.
Init ==
  /\ now = 0
  /\ file \in [Paths -> {NoFile, [version |-> 1, mtime |-> 0]}]
  /\ file_cache = [s \in Slots |-> EmptySlot]
  /\ pc = [r \in Readers |-> "idle"]
  /\ req = [r \in Readers |-> NULL]
  /\ st = [r \in Readers |-> NoFile]
  /\ i = [r \in Readers |-> 0]
  /\ oldest = [r \in Readers |-> 0]
  /\ at = [r \in Readers |-> 0]
  /\ buffer = [r \in Readers |-> NULL]
  /\ size = [r \in Readers |-> NULL]
  /\ reply = [r \in Readers |-> NoReply]
  /\ refused = [r \in Readers |-> FALSE]

Goto(r, label) == pc' = [pc EXCEPT ![r] = label]

\* read_file_content returns; its local variables die.
Return(r, form, content) ==
  /\ Goto(r, "idle")
  /\ i' = [i EXCEPT ![r] = 0]
  /\ oldest' = [oldest EXCEPT ![r] = 0]
  /\ at' = [at EXCEPT ![r] = 0]
  /\ buffer' = [buffer EXCEPT ![r] = NULL]
  /\ reply' = [reply EXCEPT ![r] = [form |-> form, content |-> content]]

-----------------------------------------------------------------------------
(* The world outside: time passes, and files are created and overwritten.  *)

Tick ==
  /\ now < MaxTime
  /\ now' = now + 1
  /\ UNCHANGED <<file, file_cache, pc, locals, result>>

WriteFile(p) ==
  /\ file[p].version < MaxVersion
  /\ file' = [file EXCEPT ![p] = [version |-> file[p].version + 1, mtime |-> now]]
  /\ UNCHANGED <<now, file_cache, pc, locals, result>>

-----------------------------------------------------------------------------
(* read_file_content and get_cached_file                                   *)

\* The router calls read_file_content for a path.
Request(r, p) ==
  /\ pc[r] = "idle"
  /\ Goto(r, "stat")
  /\ req' = [req EXCEPT ![r] = p]
  /\ st' = [st EXCEPT ![r] = NoFile]
  /\ size' = [size EXCEPT ![r] = NULL]
  /\ reply' = [reply EXCEPT ![r] = NoReply]
  /\ refused' = [refused EXCEPT ![r] = FALSE]
  /\ UNCHANGED <<disk, file_cache, i, oldest, at, buffer>>

\* A file that cannot be stat-ed is not looked up.
Stat(r) ==
  /\ pc[r] = "stat"
  /\ st' = [st EXCEPT ![r] = file[req[r]]]
  /\ Goto(r, IF file[req[r]].version = 0 THEN "open" ELSE "scan")
  /\ UNCHANGED <<disk, file_cache, req, i, oldest, at, buffer, result>>

\* Mutant of Valid: the file's own time is not looked at.
AlwaysValid(r, s) == TRUE

Valid(r, s) == file_cache[s].last_modified >= st[r].mtime

\* One slot of the loop. A path that was freed may compare equal or not; the first
\* that does ends the loop, valid or not.
Scan(r) ==
  /\ pc[r] = "scan" /\ i[r] \in Slots
  /\ \/ /\ file_cache[i[r]].path # req[r]
        /\ i' = [i EXCEPT ![r] = @ + 1]
        /\ UNCHANGED <<pc, at>>
     \/ /\ file_cache[i[r]].path \in {req[r], Freed} /\ Valid(r, i[r])
        /\ at' = [at EXCEPT ![r] = i[r]]
        /\ Goto(r, "size")
        /\ UNCHANGED i
     \/ /\ file_cache[i[r]].path \in {req[r], Freed} /\ ~ Valid(r, i[r])
        /\ Goto(r, "open")
        /\ UNCHANGED <<i, at>>
  /\ UNCHANGED <<disk, file_cache, req, st, oldest, buffer, result>>

ScanEnds(r) ==
  /\ pc[r] = "scan" /\ i[r] = MAX_CACHE_SIZE
  /\ Goto(r, "open")
  /\ UNCHANGED <<disk, file_cache, locals, result>>

HitSize(r) ==
  /\ pc[r] = "size"
  /\ size' = [size EXCEPT ![r] = file_cache[at[r]].size]
  /\ Goto(r, "copy")
  /\ UNCHANGED <<disk, file_cache, locals, reply, refused>>

\* my_strdup copies up to the first NUL byte, and returns NULL for NULL. A text
\* has none of its own: its copy runs on to the next one in memory, and the first
\* *out_size bytes of it, all that is sent, are the content.
HitCopy(r) ==
  LET content == file_cache[at[r]].content IN
  /\ pc[r] = "copy"
  /\ \/ /\ content = NULL
        /\ Return(r, "null", NULL)
        /\ UNCHANGED refused
     \/ /\ content = Freed
        /\ Return(r, "garbage", NULL)
        /\ UNCHANGED refused
     \/ /\ content \in Contents
        /\ Return(r, IF content.of \in BinaryPaths THEN "cut" ELSE "whole", content)
        /\ UNCHANGED refused
     \/ /\ AllocFaults
        /\ Return(r, "null", NULL)
        /\ refused' = [refused EXCEPT ![r] = TRUE]
  /\ UNCHANGED <<disk, file_cache, req, st, size>>

\* fopen to fclose.
ReadFile(r) ==
  LET f == file[req[r]] IN
  /\ pc[r] = "open"
  /\ \/ /\ f.version # 0
        /\ buffer' = [buffer EXCEPT ![r] =
                        [of |-> req[r], version |-> f.version, readAt |-> now]]
        /\ size' = [size EXCEPT ![r] = buffer'[r]]
        /\ Goto(r, "search")
        /\ UNCHANGED <<i, oldest, at, reply, refused>>
     \/ /\ f.version = 0
        /\ Return(r, "null", NULL)
        /\ UNCHANGED <<size, refused>>
     \/ /\ AllocFaults /\ f.version # 0
        /\ Return(r, "null", NULL)
        /\ refused' = [refused EXCEPT ![r] = TRUE]
        /\ UNCHANGED size
  /\ UNCHANGED <<disk, file_cache, req, st>>

-----------------------------------------------------------------------------
(* cache_file                                                              *)

\* The slot is 0, until the loop finds one that is free or older than time(NULL).
BeginSearch(r) ==
  /\ pc[r] = "search"
  /\ i' = [i EXCEPT ![r] = 0]
  /\ oldest' = [oldest EXCEPT ![r] = now]
  /\ at' = [at EXCEPT ![r] = 0]
  /\ Goto(r, "pick")
  /\ UNCHANGED <<disk, file_cache, req, st, buffer, result>>

\* Mutant of Older: the newest entry goes.
Younger(r, s) == file_cache[s].last_modified > oldest[r]

Older(r, s) == file_cache[s].last_modified < oldest[r]

\* One slot of the loop: a free one ends it, an older one is remembered.
PickSlot(r) ==
  /\ pc[r] = "pick" /\ i[r] \in Slots
  /\ \/ /\ file_cache[i[r]].path = NULL
        /\ at' = [at EXCEPT ![r] = i[r]]
        /\ Goto(r, "release")
        /\ UNCHANGED <<i, oldest>>
     \/ /\ file_cache[i[r]].path # NULL
        /\ \/ /\ Older(r, i[r])
              /\ oldest' = [oldest EXCEPT ![r] = file_cache[i[r]].last_modified]
              /\ at' = [at EXCEPT ![r] = i[r]]
           \/ /\ ~ Older(r, i[r])
              /\ UNCHANGED <<oldest, at>>
        /\ i' = [i EXCEPT ![r] = @ + 1]
        /\ UNCHANGED pc
  /\ UNCHANGED <<disk, file_cache, req, st, buffer, result>>

\* Mutant of SearchEnds: a loop that found no free slot leaves its counter.
SearchEndsAtCounter(r) ==
  /\ pc[r] = "pick" /\ i[r] = MAX_CACHE_SIZE
  /\ at' = [at EXCEPT ![r] = i[r]]
  /\ Goto(r, "release")
  /\ UNCHANGED <<disk, file_cache, req, st, i, oldest, buffer, result>>

SearchEnds(r) ==
  /\ pc[r] = "pick" /\ i[r] = MAX_CACHE_SIZE
  /\ Goto(r, "release")
  /\ UNCHANGED <<disk, file_cache, locals, result>>

Set(r, fieldValues, label) ==
  /\ file_cache' = [file_cache EXCEPT ![at[r]] = fieldValues]
  /\ Goto(r, label)
  /\ UNCHANGED <<disk, locals, size, reply, refused>>

\* The pointers keep their values; what they point to is gone.
ReleaseOld(r) ==
  LET old == file_cache[at[r]] IN
  /\ pc[r] = "release"
  /\ IF old.path = NULL THEN Set(r, old, "path")
     ELSE Set(r, [old EXCEPT !.path = Freed,
                             !.content = IF @ = NULL THEN NULL ELSE Freed], "path")

\* A copy of the path; NULL if there is no memory for it.
StorePath(r) ==
  /\ pc[r] = "path"
  /\ \E path \in {req[r]} \cup (IF AllocFaults THEN {NULL} ELSE {}) :
       Set(r, [file_cache[at[r]] EXCEPT !.path = path], "content")

\* Mutant of StoreContent: a slot that had a content before keeps it.
StoreContentOnce(r) ==
  /\ pc[r] = "content"
  /\ Set(r, [file_cache[at[r]] EXCEPT !.content = IF @ = NULL THEN buffer[r] ELSE @], "length")

StoreContent(r) ==
  /\ pc[r] = "content"
  /\ \E content \in {buffer[r]} \cup (IF AllocFaults THEN {NULL} ELSE {}) :
       Set(r, [file_cache[at[r]] EXCEPT !.content = content], "length")

\* Mutant of StoreSize: the size of an overwritten entry stays.
StoreSizeOnce(r) ==
  /\ pc[r] = "length"
  /\ Set(r, [file_cache[at[r]] EXCEPT !.size = IF @ = NULL THEN buffer[r] ELSE @], "stamp")

StoreSize(r) ==
  /\ pc[r] = "length"
  /\ Set(r, [file_cache[at[r]] EXCEPT !.size = buffer[r]], "stamp")

\* The entry is stamped with the time it was stored at, not with the file's.
StampAndReturn(r) ==
  /\ pc[r] = "stamp"
  /\ file_cache' = [file_cache EXCEPT ![at[r]].last_modified = now]
  /\ Return(r, "whole", buffer[r])
  /\ UNCHANGED <<disk, req, st, size, refused>>

-----------------------------------------------------------------------------

ReaderStep(r) ==
  \/ Stat(r) \/ Scan(r) \/ ScanEnds(r) \/ HitSize(r) \/ HitCopy(r) \/ ReadFile(r)
  \/ BeginSearch(r) \/ PickSlot(r) \/ SearchEnds(r) \/ ReleaseOld(r)
  \/ StorePath(r) \/ StoreContent(r) \/ StoreSize(r) \/ StampAndReturn(r)

Next ==
  \/ Tick
  \/ \E p \in Paths : WriteFile(p)
  \/ \E r \in Readers : ReaderStep(r) \/ \E p \in Paths : Request(r, p)

Spec == Init /\ [][Next]_vars

-----------------------------------------------------------------------------
(* Properties                                                              *)

\* What read_file_content returns is the file it was asked for: slots are reused
\* for other files, field by field, and no reply mixes two entries. A reply that is
\* whole has its own length as *out_size. Only a file with a NUL byte can come back
\* cut at it, and then *out_size is not the length of what is returned.
ServesOwnFile ==
  \A r \in Readers : reply[r].content # NULL =>
    /\ reply[r].content.of = req[r]
    /\ \/ reply[r].form = "whole" /\ size[r] = reply[r].content
       \/ reply[r].form = "cut" /\ req[r] \in BinaryPaths

\* No thread compares, copies or frees a path or a content that was freed.
NoDanglingAccess ==
  \A r \in Readers :
    /\ pc[r] = "scan" /\ i[r] \in Slots => file_cache[i[r]].path # Freed
    /\ pc[r] = "copy" => file_cache[at[r]].content # Freed
    /\ pc[r] = "release" => file_cache[at[r]].path # Freed

\* An entry that is used although the file has changed since it was read: the
\* change came after that read, and no later than the second the entry was
\* stamped in.  No other change is ever hidden by the cache.
StaleOnlyInWindow ==
  \A r \in Readers : pc[r] = "size" /\ file_cache[at[r]].content \in Contents =>
    LET entry == file_cache[at[r]] IN
    entry.content.version # st[r].version =>
      entry.content.readAt <= st[r].mtime /\ st[r].mtime <= entry.last_modified

\* The entry that is freed for another one is, when it is freed, as old as any other,
\* and no slot is free: also when all entries carry the current second and slot 0 is
\* taken by default.
EvictsOldest ==
  \A r \in Readers : pc[r] = "release" /\ file_cache[at[r]].path # NULL =>
    \A s \in Slots :
      /\ file_cache[s].path # NULL
      /\ file_cache[at[r]].last_modified <= file_cache[s].last_modified

\* A file that is there is served unless a malloc of this very call failed.
AvailableFileServed ==
  \A r \in Readers : reply[r].form = "null" => refused[r] \/ st[r].version = 0

\* Image and font files, too, are served whole.
ServedWhole == \A r \in Readers : reply[r].form # "cut"

-----------------------------------------------------------------------------
(* The inductive invariants the proofs of FileCacheProofs use: the first   *)
(* holds for any number of readers, the second for one.                    *)

\* A call has a path, and no slot is stamped ahead of the clock.
IInv ==
  /\ TypeOK
  /\ \A r \in Readers : pc[r] # "idle" => req[r] \in Paths
  /\ \A s \in Slots : file_cache[s].last_modified <= now

Writing == {"path", "content", "length", "stamp"}
Storing == {"search", "pick", "release"} \cup Writing

\* Nothing freed is in an entry, and an entry that can be found is of one file.
Whole(entry) ==
  /\ entry.path # Freed /\ entry.content # Freed
  /\ entry.path # NULL /\ entry.content # NULL =>
       entry.content.of = entry.path /\ entry.size = entry.content

\* Every slot is whole but the one that is being written.
OthersWhole ==
  \A s \in Slots : Whole(file_cache[s]) \/ \E r \in Readers : pc[r] \in Writing /\ at[r] = s

\* How far the slot that is being written has come.
HalfWritten ==
  \A r \in Readers :
    LET entry == file_cache[at[r]] IN
    /\ pc[r] \in {"content", "length", "stamp"} => entry.path \in {req[r], NULL}
    /\ pc[r] \in {"length", "stamp"} => entry.content \in {buffer[r], NULL}
    /\ pc[r] = "stamp" => entry.size = buffer[r]

\* What is stored was read from the file that was asked for.
StoresOwn ==
  \A r \in Readers : pc[r] \in Storing =>
    buffer[r] \in Contents /\ buffer[r].of = req[r] /\ size[r] = buffer[r]

\* What was found is the file that was asked for, and was valid.
FoundOwn ==
  \A r \in Readers :
    LET entry == file_cache[at[r]] IN
    /\ pc[r] \in {"size", "copy"} => entry.path = req[r]
    /\ pc[r] = "size" => entry.last_modified >= st[r].mtime
    /\ pc[r] = "copy" => size[r] = entry.size

\* What the search loop knows: the slots behind it are taken and not older than the
\* oldest stamp it saw, which is that of its slot or still the time it began at.
SearchedOldest ==
  \A r \in Readers : pc[r] = "pick" =>
    /\ \A s \in Slots : s < i[r] =>
         file_cache[s].path # NULL /\ oldest[r] <= file_cache[s].last_modified
    /\ \/ oldest[r] = file_cache[at[r]].last_modified
       \/ at[r] = 0 /\ \A s \in Slots : file_cache[s].last_modified <= oldest[r]

\* A content that is not the file's any more was read before the file changed.
Outdated(content, f) == content.version # f.version => content.readAt <= f.mtime

ReadBefore ==
  /\ \A s \in Slots : LET content == file_cache[s].content IN
       content \in Contents =>
         /\ content.readAt <= now /\ Outdated(content, file[content.of])
         /\ \A r \in Readers : pc[r] \in {"scan", "size"} /\ content.of = req[r] =>
              Outdated(content, st[r])
  /\ \A r \in Readers : buffer[r] \in Contents =>
       buffer[r].readAt <= now /\ Outdated(buffer[r], file[buffer[r].of])

\* While a call runs it has no reply.
NoReplyYet == \A r \in Readers : pc[r] # "idle" => reply[r].content = NULL

\* The inductive invariant of one reader.
SequentialInv ==
  /\ IInv
  /\ OthersWhole /\ HalfWritten
  /\ StoresOwn /\ FoundOwn
  /\ SearchedOldest /\ EvictsOldest
  /\ ReadBefore
  /\ NoReplyYet /\ ServesOwnFile
=============================================================================
