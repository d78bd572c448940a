--------------------------- MODULE FileCacheProofs ---------------------------
(***************************************************************************)
(* Proofs about FileCache for every number of files, slots and versions.   *)
(* The types hold however many threads share the cache.  For one thread,   *)
(* as the server is without its pool: a reply is of the file asked for,    *)
(* nothing freed is touched, only the window of one second hides a change, *)
(* and the entry that is given up is the oldest.                           *)
(***************************************************************************)
EXTENDS FileCache, TLAPS

-----------------------------------------------------------------------------
(* The types, for any number of threads.                                   *)

\* Before the first request the invariant holds.
LEMMA InitTypes ==
  ASSUME Init
  PROVE  IInv
<1> USE CacheAssumption DEF Init
<1>1. TypeOK
  BY DEF TypeOK, PCs, Slots, Entries, Files, NoFile, EmptySlot, NoReply, Forms
<1>2. QED  BY <1>1 DEF IInv, EmptySlot

\* A call returns with a reply of the right type.
LEMMA ReturnTypes ==
  ASSUME IInv, NEW r \in Readers, NEW form \in Forms, NEW content \in Contents \cup {NULL},
         Return(r, form, content)
  PROVE  /\ pc' \in [Readers -> PCs] /\ \A x \in Readers : x # r => pc'[x] = pc[x]
         /\ pc'[r] = "idle"
         /\ i' \in [Readers -> 0..MAX_CACHE_SIZE] /\ oldest' \in [Readers -> 0..MaxTime]
         /\ at' \in [Readers -> Slots]
         /\ buffer' \in [Readers -> Contents \cup {NULL}]
         /\ reply' \in [Readers -> [form : Forms, content : Contents \cup {NULL}]]
<1>1. 0 \in Slots  BY CacheAssumption DEF Slots
<1>2. [form |-> form, content |-> content] \in [form : Forms, content : Contents \cup {NULL}]
  OBVIOUS
<1>3. 0 \in 0..MAX_CACHE_SIZE /\ 0 \in 0..MaxTime  BY CacheAssumption
<1>4. QED  BY <1>1, <1>2, <1>3 DEF Return, Goto, IInv, TypeOK, PCs

\* An entry that is overwritten in part is an entry.
LEMMA SetTypes ==
  ASSUME IInv, NEW r \in Readers, NEW entry \in Entries, NEW label \in PCs,
         pc[r] # "idle", Set(r, entry, label),
         entry.last_modified = file_cache[at[r]].last_modified
  PROVE  IInv'
<1>1. /\ file_cache' \in [Slots -> Entries] /\ pc' \in [Readers -> PCs]
      /\ \A s \in Slots : file_cache'[s].last_modified = file_cache[s].last_modified
      /\ \A x \in Readers : pc'[x] # "idle" => pc[x] # "idle"
      /\ UNCHANGED <<disk, locals, size, reply, refused>>
  BY DEF Set, Goto, IInv, TypeOK, PCs
<1>2. TypeOK'
  BY <1>1 DEF IInv, TypeOK, disk, locals, PCs
<1>3. QED  BY <1>1, <1>2 DEF IInv, TypeOK, disk, locals

\* Tick preserves the types.
LEMMA TickTypes ==
  ASSUME IInv, Tick
  PROVE  IInv'
<1> USE CacheAssumption DEF IInv, Tick
<1>1. TypeOK'
  BY DEF TypeOK, PCs, Entries, Files, disk, locals, result
<1>2. QED  BY <1>1 DEF TypeOK, PCs, Entries, Files, disk, locals, result

\* WriteFile preserves the types.
LEMMA WriteFileTypes ==
  ASSUME IInv, NEW p \in Paths, WriteFile(p)
  PROVE  IInv'
<1> USE CacheAssumption DEF IInv, WriteFile
<1>1. TypeOK'
  BY DEF TypeOK, PCs, Entries, Files, disk, locals, result
<1>2. QED  BY <1>1 DEF TypeOK, PCs, Entries, Files, disk, locals, result

\* Request preserves the types.
LEMMA RequestTypes ==
  ASSUME IInv, NEW r \in Readers, NEW p \in Paths, Request(r, p)
  PROVE  IInv'
<1> USE CacheAssumption DEF IInv, Request, Goto, NoFile, NoReply, Forms
<1>1. TypeOK'
  BY DEF TypeOK, PCs, Entries, Files, disk, locals, result
<1>2. QED  BY <1>1 DEF TypeOK, PCs, Entries, Files, disk, locals, result

\* Stat preserves the types.
LEMMA StatTypes ==
  ASSUME IInv, NEW r \in Readers, Stat(r)
  PROVE  IInv'
<1> USE CacheAssumption DEF IInv, Stat, Goto
<1>1. TypeOK'
  BY DEF TypeOK, PCs, Entries, Files, disk, locals, result
<1>2. QED  BY <1>1 DEF TypeOK, PCs, Entries, Files, disk, locals, result

\* Scan preserves the types.
LEMMA ScanTypes ==
  ASSUME IInv, NEW r \in Readers, Scan(r)
  PROVE  IInv'
<1>1. /\ i[r] \in Slots /\ pc[r] = "scan"
      /\ i' \in {i, [i EXCEPT ![r] = @ + 1]} /\ at' \in {at, [at EXCEPT ![r] = i[r]]}
      /\ pc' \in {pc, [pc EXCEPT ![r] = "size"], [pc EXCEPT ![r] = "open"]}
      /\ UNCHANGED <<disk, file_cache, req, st, oldest, buffer, result>>
  BY DEF Scan, Goto
<1>2. i[r] + 1 \in 0..MAX_CACHE_SIZE
  BY <1>1, CacheAssumption DEF Slots
<1>3. i' \in [Readers -> 0..MAX_CACHE_SIZE] /\ at' \in [Readers -> Slots]
  <2>1. i \in [Readers -> 0..MAX_CACHE_SIZE] /\ at \in [Readers -> Slots]
    BY DEF IInv, TypeOK
  <2>2. i' \in [Readers -> 0..MAX_CACHE_SIZE]
    BY ONLY <1>1, <1>2, <2>1
  <2>3. at' \in [Readers -> Slots]
    BY ONLY <1>1, <2>1
  <2>4. QED  BY <2>2, <2>3
<1>4. TypeOK'
  BY <1>1, <1>3 DEF IInv, TypeOK, PCs, disk, result
<1>5. QED  BY <1>1, <1>4 DEF IInv, TypeOK, disk, result

\* ScanEnds preserves the types.
LEMMA ScanEndsTypes ==
  ASSUME IInv, NEW r \in Readers, ScanEnds(r)
  PROVE  IInv'
<1> USE CacheAssumption DEF IInv, ScanEnds, Goto
<1>1. TypeOK'
  BY DEF TypeOK, PCs, Entries, Files, disk, locals, result
<1>2. QED  BY <1>1 DEF TypeOK, PCs, Entries, Files, disk, locals, result

\* HitSize preserves the types.
LEMMA HitSizeTypes ==
  ASSUME IInv, NEW r \in Readers, HitSize(r)
  PROVE  IInv'
<1> USE CacheAssumption DEF IInv, HitSize, Goto
<1>1. TypeOK'
  BY DEF TypeOK, PCs, Entries, Files, disk, locals, result
<1>2. QED  BY <1>1 DEF TypeOK, PCs, Entries, Files, disk, locals, result

\* HitCopy preserves the types.
LEMMA HitCopyTypes ==
  ASSUME IInv, NEW r \in Readers, HitCopy(r)
  PROVE  IInv'
<1>1. /\ \E form \in Forms, content \in Contents \cup {NULL} : Return(r, form, content)
      /\ refused' \in {refused, [refused EXCEPT ![r] = TRUE]}
      /\ UNCHANGED <<disk, file_cache, req, st, size>>
  BY DEF HitCopy, Forms
<1>2. TypeOK' /\ \A x \in Readers : pc'[x] # "idle" => pc[x] # "idle"
  BY <1>1, ReturnTypes DEF IInv, TypeOK, disk, PCs
<1>3. QED  BY <1>1, <1>2 DEF IInv, disk

\* ReadFile preserves the types.
LEMMA ReadFileTypes ==
  ASSUME IInv, NEW r \in Readers, ReadFile(r)
  PROVE  IInv'
<1> DEFINE content == [of |-> req[r], version |-> file[req[r]].version, readAt |-> now]
<1>1. pc[r] = "open" /\ req[r] \in Paths
  BY DEF ReadFile, IInv
<1>2. CASE pc' = [pc EXCEPT ![r] = "search"]
  <2>1. file[req[r]].version # 0
    BY <1>1, <1>2 DEF ReadFile, Return, Goto, IInv, TypeOK
  <2>2. content \in Contents
    BY <1>1, <2>1 DEF IInv, TypeOK, Files, Contents
  <2>3. /\ buffer' = [buffer EXCEPT ![r] = content]
        /\ size' = [size EXCEPT ![r] = content]
        /\ UNCHANGED <<i, oldest, at, reply, refused, disk, file_cache, req, st>>
    <3>1. ~ \E form : Return(r, form, NULL)
      BY <1>2 DEF Return, Goto, IInv, TypeOK
    <3>2. QED  BY <3>1 DEF ReadFile, IInv, TypeOK
  <2>4. TypeOK' /\ \A x \in Readers : pc'[x] # "idle" => pc[x] # "idle"
    BY <1>1, <1>2, <2>2, <2>3 DEF IInv, TypeOK, PCs, disk
  <2>5. QED  BY <2>3, <2>4 DEF IInv, disk
<1>3. CASE pc' # [pc EXCEPT ![r] = "search"]
  <2>1. /\ Return(r, "null", NULL)
        /\ refused' \in {refused, [refused EXCEPT ![r] = TRUE]}
        /\ UNCHANGED <<disk, file_cache, req, st, size>>
    BY <1>3 DEF ReadFile, Goto
  <2>2. TypeOK' /\ \A x \in Readers : pc'[x] # "idle" => pc[x] # "idle"
    BY <2>1, ReturnTypes DEF IInv, TypeOK, disk, PCs, Forms
  <2>3. QED  BY <2>1, <2>2 DEF IInv, disk
<1>4. QED  BY <1>2, <1>3

\* BeginSearch preserves the types.
LEMMA BeginSearchTypes ==
  ASSUME IInv, NEW r \in Readers, BeginSearch(r)
  PROVE  IInv'
<1>1. 0 \in Slots /\ 0 \in 0..MAX_CACHE_SIZE
  BY CacheAssumption DEF Slots
<1>2. TypeOK'
  BY <1>1 DEF IInv, BeginSearch, Goto, TypeOK, PCs, disk, result
<1>3. QED  BY <1>2 DEF IInv, BeginSearch, Goto, TypeOK, disk, result

\* PickSlot preserves the types.
LEMMA PickSlotTypes ==
  ASSUME IInv, NEW r \in Readers, PickSlot(r)
  PROVE  IInv'
<1>1. /\ i[r] \in Slots /\ pc[r] = "pick"
      /\ i' \in {i, [i EXCEPT ![r] = @ + 1]} /\ at' \in {at, [at EXCEPT ![r] = i[r]]}
      /\ oldest' \in {oldest, [oldest EXCEPT ![r] = file_cache[i[r]].last_modified]}
      /\ pc' \in {pc, [pc EXCEPT ![r] = "release"]}
      /\ UNCHANGED <<disk, file_cache, req, st, buffer, result>>
  BY DEF PickSlot, Goto
<1>2. i[r] + 1 \in 0..MAX_CACHE_SIZE
  BY <1>1, CacheAssumption DEF Slots
<1>3. file_cache[i[r]].last_modified \in 0..MaxTime
  BY <1>1 DEF IInv, TypeOK, Entries
<1>4. /\ i' \in [Readers -> 0..MAX_CACHE_SIZE] /\ at' \in [Readers -> Slots]
      /\ oldest' \in [Readers -> 0..MaxTime]
  <2>1. /\ i \in [Readers -> 0..MAX_CACHE_SIZE] /\ at \in [Readers -> Slots]
        /\ oldest \in [Readers -> 0..MaxTime]
    BY DEF IInv, TypeOK
  <2>2. i' \in [Readers -> 0..MAX_CACHE_SIZE]
    BY ONLY <1>1, <1>2, <2>1
  <2>3. at' \in [Readers -> Slots]
    BY ONLY <1>1, <2>1
  <2>4. oldest' \in [Readers -> 0..MaxTime]
    BY ONLY <1>1, <1>3, <2>1
  <2>5. QED  BY <2>2, <2>3, <2>4
<1>5. TypeOK'
  BY <1>1, <1>4 DEF IInv, TypeOK, PCs, disk, result
<1>6. QED  BY <1>1, <1>5 DEF IInv, TypeOK, disk, result

\* SearchEnds preserves the types.
LEMMA SearchEndsTypes ==
  ASSUME IInv, NEW r \in Readers, SearchEnds(r)
  PROVE  IInv'
<1> USE CacheAssumption DEF IInv, SearchEnds, Goto
<1>1. TypeOK'
  BY DEF TypeOK, PCs, Entries, Files, disk, locals, result
<1>2. QED  BY <1>1 DEF TypeOK, PCs, Entries, Files, disk, locals, result

\* ReleaseOld preserves the types.
LEMMA ReleaseOldTypes ==
  ASSUME IInv, NEW r \in Readers, ReleaseOld(r)
  PROVE  IInv'
<1> DEFINE old == file_cache[at[r]]
<1>1. old \in Entries /\ pc[r] # "idle" /\ buffer[r] \in Contents \cup {NULL} /\ req[r] \in Paths
  BY DEF IInv, TypeOK, ReleaseOld
<1>2. PICK entry : /\ entry \in Entries /\ entry.last_modified = old.last_modified
                   /\ Set(r, entry, "path")
  BY <1>1 DEF ReleaseOld, Entries
<1>3. QED  BY <1>1, <1>2, SetTypes DEF PCs

\* StorePath preserves the types.
LEMMA StorePathTypes ==
  ASSUME IInv, NEW r \in Readers, StorePath(r)
  PROVE  IInv'
<1> DEFINE old == file_cache[at[r]]
<1>1. old \in Entries /\ pc[r] # "idle" /\ buffer[r] \in Contents \cup {NULL} /\ req[r] \in Paths
  BY DEF IInv, TypeOK, StorePath
<1>2. PICK entry : /\ entry \in Entries /\ entry.last_modified = old.last_modified
                   /\ Set(r, entry, "content")
  BY <1>1 DEF StorePath, Entries
<1>3. QED  BY <1>1, <1>2, SetTypes DEF PCs

\* StoreContent preserves the types.
LEMMA StoreContentTypes ==
  ASSUME IInv, NEW r \in Readers, StoreContent(r)
  PROVE  IInv'
<1> DEFINE old == file_cache[at[r]]
<1>1. old \in Entries /\ pc[r] # "idle" /\ buffer[r] \in Contents \cup {NULL} /\ req[r] \in Paths
  BY DEF IInv, TypeOK, StoreContent
<1>2. PICK entry : /\ entry \in Entries /\ entry.last_modified = old.last_modified
                   /\ Set(r, entry, "length")
  BY <1>1 DEF StoreContent, Entries
<1>3. QED  BY <1>1, <1>2, SetTypes DEF PCs

\* StoreSize preserves the types.
LEMMA StoreSizeTypes ==
  ASSUME IInv, NEW r \in Readers, StoreSize(r)
  PROVE  IInv'
<1> DEFINE old == file_cache[at[r]]
<1>1. old \in Entries /\ pc[r] # "idle" /\ buffer[r] \in Contents \cup {NULL} /\ req[r] \in Paths
  BY DEF IInv, TypeOK, StoreSize
<1>2. PICK entry : /\ entry \in Entries /\ entry.last_modified = old.last_modified
                   /\ Set(r, entry, "stamp")
  BY <1>1 DEF StoreSize, Entries
<1>3. QED  BY <1>1, <1>2, SetTypes DEF PCs

\* StampAndReturn preserves the types.
LEMMA StampAndReturnTypes ==
  ASSUME IInv, NEW r \in Readers, StampAndReturn(r)
  PROVE  IInv'
<1>1. /\ file_cache' \in [Slots -> Entries]
      /\ \A s \in Slots : file_cache'[s].last_modified \in {file_cache[s].last_modified, now}
  BY ZenonT(30) DEF IInv, TypeOK, StampAndReturn, Entries
<1>2. /\ Return(r, "whole", buffer[r]) /\ buffer[r] \in Contents \cup {NULL} /\ "whole" \in Forms
      /\ UNCHANGED <<disk, req, st, size, refused>>
  BY DEF IInv, TypeOK, StampAndReturn, Forms
<1>3. TypeOK' /\ \A x \in Readers : pc'[x] # "idle" => pc[x] # "idle"
  BY <1>1, <1>2, ReturnTypes DEF IInv, TypeOK, disk, PCs
<1>4. now \in Nat /\ now' = now
  BY <1>2 DEF IInv, TypeOK, disk
<1>5. QED  BY <1>1, <1>2, <1>3, <1>4 DEF IInv, disk

\* Every step preserves the types.
LEMMA StepTypes ==
  ASSUME IInv, [Next]_vars
  PROVE  IInv'
<1>1. CASE Tick  BY <1>1, TickTypes
<1>2. CASE \E p \in Paths : WriteFile(p)  BY <1>2, WriteFileTypes
<1>3. ASSUME NEW r \in Readers, ReaderStep(r)  PROVE IInv'
  BY <1>3, StatTypes, ScanTypes, ScanEndsTypes, HitSizeTypes, HitCopyTypes,
     ReadFileTypes, BeginSearchTypes, PickSlotTypes, SearchEndsTypes,
     ReleaseOldTypes, StorePathTypes, StoreContentTypes, StoreSizeTypes, StampAndReturnTypes
     DEF ReaderStep
<1>4. CASE \E r \in Readers, p \in Paths : Request(r, p)  BY <1>4, RequestTypes
<1>5. CASE UNCHANGED vars
  BY <1>5 DEF IInv, TypeOK, vars, disk, locals, result
<1>6. QED  BY <1>1, <1>2, <1>3, <1>4, <1>5 DEF Next

\* The variables always hold values of their types, however many threads share
\* the cache: no index leaves the array (get_cached_file, cache_file).
THEOREM CacheTypes == Spec => []TypeOK
<1>1. Init => IInv  BY InitTypes
<1>2. IInv /\ [Next]_vars => IInv'  BY StepTypes
<1>3. IInv => TypeOK  BY DEF IInv
<1>4. QED  BY <1>1, <1>2, <1>3, PTL DEF Spec

-----------------------------------------------------------------------------
(* One thread.                                                             *)

\* What the lemmas about one thread show, apart from the types and the search.
Sequential ==
  /\ OthersWhole /\ HalfWritten
  /\ StoresOwn /\ FoundOwn
  /\ ReadBefore
  /\ NoReplyYet /\ ServesOwnFile

OneReader == \A r, q \in Readers : r = q

\* At the start the cache is empty.
LEMMA InitSequential ==
  ASSUME Init
  PROVE  Sequential
<1> USE CacheAssumption DEF Init
<1>1. NULL \notin Contents  BY DEF Contents
<1>2. OthersWhole /\ HalfWritten /\ StoresOwn /\ FoundOwn
  BY DEF OthersWhole, HalfWritten, StoresOwn, FoundOwn, Whole, EmptySlot, Storing,
    Writing
<1>3. ReadBefore /\ NoReplyYet /\ ServesOwnFile
  BY <1>1 DEF ReadBefore, NoReplyYet, ServesOwnFile, EmptySlot, NoReply
<1>4. QED  BY <1>2, <1>3 DEF Sequential

\* Request preserves what one thread can rely on.
LEMMA RequestSequential ==
  ASSUME OneReader, IInv, Sequential, NEW r \in Readers, NEW p \in Paths, Request(r, p)
  PROVE  Sequential'
<1> NULL \notin Contents /\ Freed \notin Contents
  BY CacheAssumption DEF Contents
<1> USE CacheAssumption DEF Sequential, OneReader, IInv, TypeOK, Entries, Files,
  Request, Goto, NoFile, NoReply, Forms, disk, locals, result
<1>1. OthersWhole'
  BY DEF OthersWhole, Whole, Writing, HalfWritten
<1>2. HalfWritten'
  BY DEF HalfWritten
<1>3. StoresOwn'
  BY DEF StoresOwn, Storing, Writing
<1>4. FoundOwn'
  BY DEF FoundOwn, Whole
<1>5. ReadBefore'
  BY DEF ReadBefore, Outdated, StoresOwn, Storing, Writing
<1>6. NoReplyYet'
  BY DEF NoReplyYet
<1>7. ServesOwnFile'
  BY DEF ServesOwnFile, NoReplyYet, FoundOwn, OthersWhole, Whole, Writing,
    StoresOwn, Storing
<1>8. QED  BY ONLY <1>1, <1>2, <1>3, <1>4, <1>5, <1>6, <1>7 DEF Sequential

\* Stat preserves what one thread can rely on.
LEMMA StatSequential ==
  ASSUME OneReader, IInv, Sequential, NEW r \in Readers, Stat(r)
  PROVE  Sequential'
<1> NULL \notin Contents /\ Freed \notin Contents
  BY CacheAssumption DEF Contents
<1> USE CacheAssumption DEF Sequential, OneReader, IInv, TypeOK, Entries, Files,
  Stat, Goto, disk, locals, result
<1>1. OthersWhole'
  BY DEF OthersWhole, Whole, Writing, HalfWritten
<1>2. HalfWritten'
  BY DEF HalfWritten
<1>3. StoresOwn'
  BY DEF StoresOwn, Storing, Writing
<1>4. FoundOwn'
  BY DEF FoundOwn, Whole
<1>5. ReadBefore'
  BY DEF ReadBefore, Outdated, StoresOwn, Storing, Writing
<1>6. NoReplyYet'
  BY DEF NoReplyYet
<1>7. ServesOwnFile'
  BY DEF ServesOwnFile, NoReplyYet, FoundOwn, OthersWhole, Whole, Writing,
    StoresOwn, Storing
<1>8. QED  BY ONLY <1>1, <1>2, <1>3, <1>4, <1>5, <1>6, <1>7 DEF Sequential

\* Scan preserves what one thread can rely on.
LEMMA ScanSequential ==
  ASSUME OneReader, IInv, Sequential, NEW r \in Readers, Scan(r)
  PROVE  Sequential'
<1> NULL \notin Contents /\ Freed \notin Contents
  BY CacheAssumption DEF Contents
<1> USE CacheAssumption DEF Sequential, OneReader, IInv, TypeOK, Entries, Files,
  Scan, Goto, disk, locals, result
<1>a. \A s \in Slots : file_cache[s].path # Freed
  BY DEF OthersWhole, Whole, Writing
<1>b. pc'[r] = "size" =>
        /\ at'[r] \in Slots /\ file_cache[at'[r]].path = req[r]
        /\ file_cache[at'[r]].last_modified >= st[r].mtime
  BY <1>a DEF Valid
<1>1. OthersWhole'
  BY DEF OthersWhole, Whole, Writing, HalfWritten
<1>2. HalfWritten'
  BY DEF HalfWritten
<1>3. StoresOwn'
  BY DEF StoresOwn, Storing, Writing
<1>4. FoundOwn'
  BY <1>b DEF FoundOwn
<1>5. ReadBefore'
  BY DEF ReadBefore, Outdated, StoresOwn, Storing, Writing
<1>6. NoReplyYet'
  BY DEF NoReplyYet
<1>7. ServesOwnFile'
  BY DEF ServesOwnFile, NoReplyYet, FoundOwn, OthersWhole, Whole, Writing,
    StoresOwn, Storing
<1>8. QED  BY ONLY <1>1, <1>2, <1>3, <1>4, <1>5, <1>6, <1>7 DEF Sequential

\* ScanEnds preserves what one thread can rely on.
LEMMA ScanEndsSequential ==
  ASSUME OneReader, IInv, Sequential, NEW r \in Readers, ScanEnds(r)
  PROVE  Sequential'
<1> NULL \notin Contents /\ Freed \notin Contents
  BY CacheAssumption DEF Contents
<1> USE CacheAssumption DEF Sequential, OneReader, IInv, TypeOK, Entries, Files,
  ScanEnds, Goto, disk, locals, result
<1>1. OthersWhole'
  BY DEF OthersWhole, Whole, Writing, HalfWritten
<1>2. HalfWritten'
  BY DEF HalfWritten
<1>3. StoresOwn'
  BY DEF StoresOwn, Storing, Writing
<1>4. FoundOwn'
  BY DEF FoundOwn, Whole
<1>5. ReadBefore'
  BY DEF ReadBefore, Outdated, StoresOwn, Storing, Writing
<1>6. NoReplyYet'
  BY DEF NoReplyYet
<1>7. ServesOwnFile'
  BY DEF ServesOwnFile, NoReplyYet, FoundOwn, OthersWhole, Whole, Writing,
    StoresOwn, Storing
<1>8. QED  BY ONLY <1>1, <1>2, <1>3, <1>4, <1>5, <1>6, <1>7 DEF Sequential

\* HitSize preserves what one thread can rely on.
LEMMA HitSizeSequential ==
  ASSUME OneReader, IInv, Sequential, NEW r \in Readers, HitSize(r)
  PROVE  Sequential'
<1> NULL \notin Contents /\ Freed \notin Contents
  BY CacheAssumption DEF Contents
<1> USE CacheAssumption DEF Sequential, OneReader, IInv, TypeOK, Entries, Files,
  HitSize, Goto, disk, locals, result
<1>1. OthersWhole'
  BY DEF OthersWhole, Whole, Writing, HalfWritten
<1>2. HalfWritten'
  BY DEF HalfWritten
<1>3. StoresOwn'
  BY DEF StoresOwn, Storing, Writing
<1>4. FoundOwn'
  BY DEF FoundOwn, Whole
<1>5. ReadBefore'
  BY DEF ReadBefore, Outdated, StoresOwn, Storing, Writing
<1>6. NoReplyYet'
  BY DEF NoReplyYet
<1>7. ServesOwnFile'
  BY DEF ServesOwnFile, NoReplyYet, FoundOwn, OthersWhole, Whole, Writing,
    StoresOwn, Storing
<1>8. QED  BY ONLY <1>1, <1>2, <1>3, <1>4, <1>5, <1>6, <1>7 DEF Sequential

\* HitCopy preserves what one thread can rely on.
LEMMA HitCopySequential ==
  ASSUME OneReader, IInv, Sequential, NEW r \in Readers, HitCopy(r)
  PROVE  Sequential'
<1> NULL \notin Contents /\ Freed \notin Contents
  BY CacheAssumption DEF Contents
<1> USE CacheAssumption DEF Sequential, OneReader, IInv, TypeOK, Entries, Files,
  HitCopy, Goto, Return, disk, locals, result
<1>1. OthersWhole'
  BY DEF OthersWhole, Whole, Writing, HalfWritten
<1>2. HalfWritten'
  BY DEF HalfWritten
<1>3. StoresOwn'
  BY DEF StoresOwn, Storing, Writing
<1>4. FoundOwn'
  BY DEF FoundOwn, Whole
<1>5. ReadBefore'
  <2>1. /\ now' = now /\ file' = file /\ req' = req /\ st' = st
        /\ file_cache' = file_cache
    OBVIOUS
  <2>2. pc' = [pc EXCEPT ![r] = "idle"] /\ buffer' = [buffer EXCEPT ![r] = NULL]
    OBVIOUS
  <2>3. /\ pc \in [Readers -> PCs] /\ buffer \in [Readers -> Contents \cup {NULL}]
        /\ r \in Readers /\ ReadBefore /\ NULL \notin Contents
    OBVIOUS
  <2>4. QED  BY ONLY <2>1, <2>2, <2>3 DEF ReadBefore, Outdated
<1>6. NoReplyYet'
  BY DEF NoReplyYet
<1>7. ServesOwnFile'
  BY DEF ServesOwnFile, NoReplyYet, FoundOwn, OthersWhole, Whole, Writing,
    StoresOwn, Storing
<1>8. QED  BY ONLY <1>1, <1>2, <1>3, <1>4, <1>5, <1>6, <1>7 DEF Sequential

\* ReadFile preserves what one thread can rely on.
LEMMA ReadFileSequential ==
  ASSUME OneReader, IInv, Sequential, NEW r \in Readers, ReadFile(r)
  PROVE  Sequential'
<1> NULL \notin Contents /\ Freed \notin Contents
  BY CacheAssumption DEF Contents
<1> USE CacheAssumption DEF Sequential, OneReader, IInv, TypeOK, Entries, Files,
  ReadFile, Goto, Return, NoReply, disk, locals, result
<1>a. pc'[r] = "search" => /\ buffer'[r] \in Contents /\ buffer'[r].of = req[r]
                         /\ size'[r] = buffer'[r]
                         /\ buffer'[r].readAt = now /\ buffer'[r].version = file[req[r]].version
  BY DEF Contents
<1>1. OthersWhole'
  BY DEF OthersWhole, Whole, Writing, HalfWritten
<1>2. HalfWritten'
  BY DEF HalfWritten
<1>3. StoresOwn'
  BY <1>a DEF StoresOwn, Storing, Writing
<1>4. FoundOwn'
  BY DEF FoundOwn, Whole
<1>5. ReadBefore'
  BY DEF ReadBefore, Outdated, StoresOwn, Storing, Writing
<1>6. NoReplyYet'
  BY DEF NoReplyYet
<1>7. ServesOwnFile'
  BY DEF ServesOwnFile, NoReplyYet, FoundOwn, OthersWhole, Whole, Writing,
    StoresOwn, Storing
<1>8. QED  BY ONLY <1>1, <1>2, <1>3, <1>4, <1>5, <1>6, <1>7 DEF Sequential

\* BeginSearch preserves what one thread can rely on.
LEMMA BeginSearchSequential ==
  ASSUME OneReader, IInv, Sequential, NEW r \in Readers, BeginSearch(r)
  PROVE  Sequential'
<1> NULL \notin Contents /\ Freed \notin Contents
  BY CacheAssumption DEF Contents
<1> USE CacheAssumption DEF Sequential, OneReader, IInv, TypeOK, Entries, Files,
  BeginSearch, Goto, disk, locals, result
<1>1. OthersWhole'
  BY DEF OthersWhole, Whole, Writing, HalfWritten
<1>2. HalfWritten'
  BY DEF HalfWritten
<1>3. StoresOwn'
  BY DEF StoresOwn, Storing, Writing
<1>4. FoundOwn'
  BY DEF FoundOwn, Whole
<1>5. ReadBefore'
  BY DEF ReadBefore, Outdated, StoresOwn, Storing, Writing
<1>6. NoReplyYet'
  BY DEF NoReplyYet
<1>7. ServesOwnFile'
  BY DEF ServesOwnFile, NoReplyYet, FoundOwn, OthersWhole, Whole, Writing,
    StoresOwn, Storing
<1>8. QED  BY ONLY <1>1, <1>2, <1>3, <1>4, <1>5, <1>6, <1>7 DEF Sequential

\* PickSlot preserves what one thread can rely on.
LEMMA PickSlotSequential ==
  ASSUME OneReader, IInv, Sequential, NEW r \in Readers, PickSlot(r)
  PROVE  Sequential'
<1> NULL \notin Contents /\ Freed \notin Contents
  BY CacheAssumption DEF Contents
<1> USE CacheAssumption DEF Sequential, OneReader, IInv, TypeOK, Entries, Files,
  PickSlot, Goto, disk, locals, result
<1>1. OthersWhole'
  BY DEF OthersWhole, Whole, Writing, HalfWritten
<1>2. HalfWritten'
  BY DEF HalfWritten
<1>3. StoresOwn'
  BY DEF StoresOwn, Storing, Writing
<1>4. FoundOwn'
  BY DEF FoundOwn, Whole
<1>5. ReadBefore'
  BY DEF ReadBefore, Outdated, StoresOwn, Storing, Writing
<1>6. NoReplyYet'
  BY DEF NoReplyYet
<1>7. ServesOwnFile'
  BY DEF ServesOwnFile, NoReplyYet, FoundOwn, OthersWhole, Whole, Writing,
    StoresOwn, Storing
<1>8. QED  BY ONLY <1>1, <1>2, <1>3, <1>4, <1>5, <1>6, <1>7 DEF Sequential

\* SearchEnds preserves what one thread can rely on.
LEMMA SearchEndsSequential ==
  ASSUME OneReader, IInv, Sequential, NEW r \in Readers, SearchEnds(r)
  PROVE  Sequential'
<1> NULL \notin Contents /\ Freed \notin Contents
  BY CacheAssumption DEF Contents
<1> USE CacheAssumption DEF Sequential, OneReader, IInv, TypeOK, Entries, Files,
  SearchEnds, Goto, disk, locals, result
<1>1. OthersWhole'
  BY DEF OthersWhole, Whole, Writing, HalfWritten
<1>2. HalfWritten'
  BY DEF HalfWritten
<1>3. StoresOwn'
  BY DEF StoresOwn, Storing, Writing
<1>4. FoundOwn'
  BY DEF FoundOwn, Whole
<1>5. ReadBefore'
  BY DEF ReadBefore, Outdated, StoresOwn, Storing, Writing
<1>6. NoReplyYet'
  BY DEF NoReplyYet
<1>7. ServesOwnFile'
  BY DEF ServesOwnFile, NoReplyYet, FoundOwn, OthersWhole, Whole, Writing,
    StoresOwn, Storing
<1>8. QED  BY ONLY <1>1, <1>2, <1>3, <1>4, <1>5, <1>6, <1>7 DEF Sequential

\* ReleaseOld preserves what one thread can rely on.
LEMMA ReleaseOldSequential ==
  ASSUME OneReader, IInv, Sequential, NEW r \in Readers, ReleaseOld(r)
  PROVE  Sequential'
<1> NULL \notin Contents /\ Freed \notin Contents
  BY CacheAssumption DEF Contents
<1> USE CacheAssumption DEF Sequential, OneReader, IInv, TypeOK, Entries, Files,
  ReleaseOld, Goto, Set, disk, locals, result
<1>a. \A s \in Slots : file_cache'[s].content \in {file_cache[s].content, Freed}
  <2> DEFINE old == file_cache[at[r]]
             freed == [old EXCEPT !.path = Freed,
                                  !.content = IF @ = NULL THEN NULL ELSE Freed]
  <2>1. at[r] \in Slots /\ file_cache \in [Slots -> Entries] /\ old \in Entries
    OBVIOUS
  <2>2. freed.content \in {old.content, Freed}
    BY ONLY <2>1 DEF Entries
  <2>3. \/ file_cache' = [file_cache EXCEPT ![at[r]] = old]
        \/ file_cache' = [file_cache EXCEPT ![at[r]] = freed]
    BY ONLY ReleaseOld(r) DEF ReleaseOld, Set
  <2>4. QED  BY ONLY <2>1, <2>2, <2>3
<1>1. OthersWhole'
  BY DEF OthersWhole, Whole, Writing, HalfWritten
<1>2. HalfWritten'
  BY DEF HalfWritten
<1>3. StoresOwn'
  BY DEF StoresOwn, Storing, Writing
<1>4. FoundOwn'
  BY DEF FoundOwn, Whole
<1>5. ReadBefore'
  <2>1. /\ now' = now /\ file' = file /\ req' = req /\ st' = st
        /\ pc'[r] \notin {"scan", "size"} /\ buffer'[r] \in {buffer[r], NULL}
        /\ r \in Readers /\ OneReader /\ ReadBefore
        /\ NULL \notin Contents /\ Freed \notin Contents
    BY CacheAssumption DEF Contents
  <2>2. QED  BY ONLY <1>a, <2>1 DEF ReadBefore, Outdated, OneReader
<1>6. NoReplyYet'
  BY DEF NoReplyYet
<1>7. ServesOwnFile'
  BY DEF ServesOwnFile, NoReplyYet, FoundOwn, OthersWhole, Whole, Writing,
    StoresOwn, Storing
<1>8. QED  BY ONLY <1>1, <1>2, <1>3, <1>4, <1>5, <1>6, <1>7 DEF Sequential

\* StorePath preserves what one thread can rely on.
LEMMA StorePathSequential ==
  ASSUME OneReader, IInv, Sequential, NEW r \in Readers, StorePath(r)
  PROVE  Sequential'
<1> NULL \notin Contents /\ Freed \notin Contents
  BY CacheAssumption DEF Contents
<1> USE CacheAssumption DEF Sequential, OneReader, IInv, TypeOK, Entries, Files,
  StorePath, Goto, Set, disk, locals, result
<1>1. OthersWhole'
  BY DEF OthersWhole, Whole, Writing, HalfWritten
<1>2. HalfWritten'
  BY DEF HalfWritten
<1>3. StoresOwn'
  BY DEF StoresOwn, Storing, Writing
<1>4. FoundOwn'
  BY DEF FoundOwn, Whole
<1>5. ReadBefore'
  <2>1. /\ now' = now /\ file' = file /\ req' = req /\ st' = st /\ buffer' = buffer
    OBVIOUS
  <2>2. \A s \in Slots : file_cache'[s].content = file_cache[s].content
    OBVIOUS
  <2>3. /\ pc' = [pc EXCEPT ![r] = "content"] /\ pc \in [Readers -> PCs]
        /\ r \in Readers /\ ReadBefore
    OBVIOUS
  <2>4. QED  BY ONLY <2>1, <2>2, <2>3 DEF ReadBefore, Outdated
<1>6. NoReplyYet'
  BY DEF NoReplyYet
<1>7. ServesOwnFile'
  BY DEF ServesOwnFile, NoReplyYet, FoundOwn, OthersWhole, Whole, Writing,
    StoresOwn, Storing
<1>8. QED  BY ONLY <1>1, <1>2, <1>3, <1>4, <1>5, <1>6, <1>7 DEF Sequential

\* StoreContent preserves what one thread can rely on.
LEMMA StoreContentSequential ==
  ASSUME OneReader, IInv, Sequential, NEW r \in Readers, StoreContent(r)
  PROVE  Sequential'
<1> NULL \notin Contents /\ Freed \notin Contents
  BY CacheAssumption DEF Contents
<1> USE CacheAssumption DEF Sequential, OneReader, IInv, TypeOK, Entries, Files,
  StoreContent, Goto, Set, disk, locals, result
<1>a. \A s \in Slots : file_cache'[s].content \in {file_cache[s].content, buffer[r], NULL}
  OBVIOUS
<1>1. OthersWhole'
  BY DEF OthersWhole, Whole, Writing, HalfWritten
<1>2. HalfWritten'
  BY DEF HalfWritten
<1>3. StoresOwn'
  BY DEF StoresOwn, Storing, Writing
<1>4. FoundOwn'
  BY DEF FoundOwn, Whole
<1>5. ReadBefore'
  BY SMTT(20), <1>a DEF ReadBefore, Outdated
<1>6. NoReplyYet'
  BY DEF NoReplyYet
<1>7. ServesOwnFile'
  BY DEF ServesOwnFile, NoReplyYet, FoundOwn, OthersWhole, Whole, Writing,
    StoresOwn, Storing
<1>8. QED  BY ONLY <1>1, <1>2, <1>3, <1>4, <1>5, <1>6, <1>7 DEF Sequential

\* StoreSize preserves what one thread can rely on.
LEMMA StoreSizeSequential ==
  ASSUME OneReader, IInv, Sequential, NEW r \in Readers, StoreSize(r)
  PROVE  Sequential'
<1> NULL \notin Contents /\ Freed \notin Contents
  BY CacheAssumption DEF Contents
<1> USE CacheAssumption DEF Sequential, OneReader, IInv, TypeOK, Entries, Files,
  StoreSize, Goto, Set, disk, locals, result
<1>a. /\ \A s \in Slots : file_cache'[s].content = file_cache[s].content
      /\ pc'[r] = "stamp"
  OBVIOUS
<1>1. OthersWhole'
  BY DEF OthersWhole, Whole, Writing, HalfWritten
<1>2. HalfWritten'
  BY DEF HalfWritten
<1>3. StoresOwn'
  BY DEF StoresOwn, Storing, Writing
<1>4. FoundOwn'
  BY DEF FoundOwn, Whole
<1>5. ReadBefore'
  BY SMTT(20), <1>a DEF ReadBefore, Outdated
<1>6. NoReplyYet'
  BY DEF NoReplyYet
<1>7. ServesOwnFile'
  BY DEF ServesOwnFile, NoReplyYet, FoundOwn, OthersWhole, Whole, Writing,
    StoresOwn, Storing
<1>8. QED  BY ONLY <1>1, <1>2, <1>3, <1>4, <1>5, <1>6, <1>7 DEF Sequential

\* StampAndReturn preserves what one thread can rely on.
LEMMA StampAndReturnSequential ==
  ASSUME OneReader, IInv, Sequential, NEW r \in Readers, StampAndReturn(r)
  PROVE  Sequential'
<1> NULL \notin Contents /\ Freed \notin Contents
  BY CacheAssumption DEF Contents
<1> USE CacheAssumption DEF Sequential, OneReader, IInv, TypeOK, Entries, Files,
  StampAndReturn, Goto, Return, disk, locals, result
<1>a. /\ \A s \in Slots : /\ file_cache'[s].content = file_cache[s].content
                        /\ file_cache'[s].path = file_cache[s].path
                        /\ file_cache'[s].size = file_cache[s].size
      /\ pc'[r] = "idle" /\ buffer'[r] = NULL
      /\ reply'[r].content = buffer[r]
  OBVIOUS
<1>1. OthersWhole'
  <2>1. Whole(file_cache[at[r]])
    BY DEF HalfWritten, Whole, StoresOwn, Storing, Writing
  <2>2. QED  BY <1>a, <2>1 DEF OthersWhole, Whole
<1>2. HalfWritten'
  BY DEF HalfWritten
<1>3. StoresOwn'
  BY DEF StoresOwn, Storing, Writing
<1>4. FoundOwn'
  BY DEF FoundOwn, Whole
<1>5. ReadBefore'
  <2>1. /\ now' = now /\ file' = file /\ req' = req /\ st' = st
        /\ pc'[r] \notin {"scan", "size"} /\ buffer'[r] \in {buffer[r], NULL}
        /\ r \in Readers /\ OneReader /\ ReadBefore
        /\ NULL \notin Contents /\ Freed \notin Contents
    BY CacheAssumption DEF Contents
  <2>2. QED  BY ONLY <1>a, <2>1 DEF ReadBefore, Outdated, OneReader
<1>6. NoReplyYet'
  BY DEF NoReplyYet
<1>7. ServesOwnFile'
  BY <1>a DEF ServesOwnFile, StoresOwn, Storing, Writing
<1>8. QED  BY ONLY <1>1, <1>2, <1>3, <1>4, <1>5, <1>6, <1>7 DEF Sequential

\* Every step of the one thread, and of the world around it, preserves what it
\* relies on.
LEMMA StepSequential ==
  ASSUME OneReader, IInv, Sequential, [Next]_vars
  PROVE  Sequential'
<1>1. CASE Tick
  <2>1. now \in Nat /\ now' = now + 1 /\ UNCHANGED <<file, file_cache, pc, locals, result>>
    BY <1>1 DEF Tick, IInv, TypeOK
  <2>2. \A content \in Contents : content.readAt <= now => content.readAt <= now'
    BY <2>1 DEF Contents, IInv, TypeOK
  <2>3. ReadBefore'
    BY <2>1, <2>2 DEF Sequential, ReadBefore, Outdated, locals, result
  <2>4. QED
    BY <2>1, <2>3 DEF Sequential, OthersWhole, HalfWritten, StoresOwn, FoundOwn,
       NoReplyYet, ServesOwnFile, locals, result
<1>2. ASSUME NEW p \in Paths, WriteFile(p)  PROVE Sequential'
  <2>1. /\ file' = [file EXCEPT ![p] = [version |-> file[p].version + 1, mtime |-> now]]
        /\ UNCHANGED <<now, file_cache, pc, locals, result>>
    BY <1>2 DEF WriteFile
  <2>2. \A content \in Contents :
          content.readAt <= now /\ Outdated(content, file[content.of])
            => Outdated(content, file'[content.of])
    BY <2>1 DEF IInv, TypeOK, Outdated, Contents
  <2>3. ReadBefore'
    BY <2>1, <2>2 DEF Sequential, ReadBefore, Outdated, locals, result
  <2>4. QED
    BY <2>1, <2>3 DEF Sequential, OthersWhole, HalfWritten, StoresOwn, FoundOwn,
       NoReplyYet, ServesOwnFile, locals, result
<1>3. ASSUME NEW r \in Readers, ReaderStep(r)  PROVE Sequential'
  BY <1>3, StatSequential, ScanSequential, ScanEndsSequential, HitSizeSequential,
     HitCopySequential, ReadFileSequential, BeginSearchSequential, PickSlotSequential,
     SearchEndsSequential, ReleaseOldSequential, StorePathSequential,
     StoreContentSequential, StoreSizeSequential, StampAndReturnSequential
     DEF ReaderStep
<1>4. CASE \E r \in Readers, p \in Paths : Request(r, p)
  BY <1>4, RequestSequential
<1>5. CASE UNCHANGED vars
  BY <1>5 DEF vars, disk, locals, result, Sequential, OthersWhole, HalfWritten,
    StoresOwn,
     FoundOwn, ReadBefore, Outdated, NoReplyYet, ServesOwnFile
<1>6. QED  BY <1>1, <1>2, <1>3, <1>4, <1>5 DEF Next

-----------------------------------------------------------------------------
(* The slot that one thread gives up.                                      *)

\* What a search knows, and what it has found when it is over.
Searched == SearchedOldest /\ EvictsOldest

\* A search begins with slot 0 and the time: nothing is stamped later.
LEMMA BeginSearchSearched ==
  ASSUME OneReader, IInv, NEW r \in Readers, BeginSearch(r)
  PROVE  Searched'
<1>1. /\ pc'[r] = "pick" /\ i'[r] = 0 /\ at'[r] = 0 /\ oldest'[r] = now
      /\ file_cache' = file_cache
  BY DEF BeginSearch, Goto, IInv, TypeOK
<1>2. \A s \in Slots : ~ (s < 0) /\ file_cache[s].last_modified <= now
  BY CacheAssumption DEF IInv, Slots
<1>3. QED  BY <1>1, <1>2 DEF Searched, SearchedOldest, EvictsOldest, OneReader

\* The loop goes past a slot that is taken, or stops at a free one.
LEMMA PickSlotSearched ==
  ASSUME OneReader, IInv, Searched, NEW r \in Readers, PickSlot(r)
  PROVE  Searched'
<1> DEFINE stamp(s) == file_cache[s].last_modified
<1>1. i[r] \in Slots /\ pc[r] = "pick" /\ file_cache' = file_cache
  BY DEF PickSlot
<1>2. /\ i[r] \in Nat /\ oldest[r] \in Nat
      /\ \A s \in Slots : s \in Nat /\ stamp(s) \in Nat
  BY <1>1, CacheAssumption DEF IInv, TypeOK, Slots, Entries
<1>3. /\ \A s \in Slots : s < i[r] => file_cache[s].path # NULL /\ oldest[r] <= stamp(s)
      /\ oldest[r] = stamp(at[r]) \/ (at[r] = 0 /\ \A s \in Slots : stamp(s) <= oldest[r])
  BY <1>1 DEF Searched, SearchedOldest
<1>4. CASE file_cache[i[r]].path = NULL
  <2>1. pc'[r] = "release" /\ at'[r] = i[r]
    BY <1>4 DEF PickSlot, Goto, IInv, TypeOK
  <2>2. QED  BY <1>1, <1>4, <2>1 DEF Searched, SearchedOldest, EvictsOldest, OneReader
<1>5. CASE file_cache[i[r]].path # NULL
  <2>1. pc'[r] = "pick" /\ i'[r] = i[r] + 1
    BY <1>1, <1>5 DEF PickSlot, IInv, TypeOK
  <2>2. \A s \in Slots : s < i[r] + 1 => s < i[r] \/ s = i[r]
    BY <1>2
  <2>3. CASE stamp(i[r]) < oldest[r]
    <3>1. oldest'[r] = stamp(i[r]) /\ at'[r] = i[r]
      BY <1>1, <1>5, <2>3 DEF PickSlot, Older, IInv, TypeOK
    <3>2. \A s \in Slots : s < i[r] => stamp(i[r]) <= stamp(s)
      BY <1>1, <1>2, <1>3, <2>3
    <3>3. stamp(i[r]) <= stamp(i[r])
      BY <1>1, <1>2
    <3>4. QED  BY <1>1, <1>3, <1>5, <2>1, <2>2, <3>1, <3>2, <3>3
            DEF Searched, SearchedOldest, EvictsOldest, OneReader
  <2>4. CASE ~ (stamp(i[r]) < oldest[r])
    <3>1. oldest'[r] = oldest[r] /\ at'[r] = at[r]
      BY <1>1, <1>5, <2>4 DEF PickSlot, Older
    <3>2. oldest[r] <= stamp(i[r])
      BY <1>1, <1>2, <2>4
    <3>3. QED  BY <1>1, <1>3, <1>5, <2>1, <2>2, <3>1, <3>2
            DEF Searched, SearchedOldest, EvictsOldest, OneReader
  <2>5. QED  BY <2>3, <2>4
<1>6. QED  BY <1>4, <1>5

\* A loop that has passed every slot has found the oldest.
LEMMA SearchEndsSearched ==
  ASSUME OneReader, IInv, Searched, NEW r \in Readers, SearchEnds(r)
  PROVE  Searched'
<1> DEFINE stamp(s) == file_cache[s].last_modified
<1>1. /\ pc[r] = "pick" /\ i[r] = MAX_CACHE_SIZE /\ pc'[r] = "release"
      /\ UNCHANGED <<file_cache, at>>
  BY DEF SearchEnds, Goto, locals, IInv, TypeOK
<1>2. /\ at[r] \in Slots /\ oldest[r] \in Nat
      /\ \A s \in Slots : s < MAX_CACHE_SIZE /\ stamp(s) \in Nat
  BY CacheAssumption DEF IInv, TypeOK, Slots, Entries
<1>3. /\ \A s \in Slots : file_cache[s].path # NULL /\ oldest[r] <= stamp(s)
      /\ oldest[r] = stamp(at[r]) \/ \A s \in Slots : stamp(s) <= oldest[r]
  BY <1>1, <1>2 DEF Searched, SearchedOldest
<1>4. stamp(at[r]) <= oldest[r]
  BY <1>2, <1>3
<1>5. \A s \in Slots : stamp(at[r]) <= stamp(s)
  BY <1>2, <1>3, <1>4
<1>6. QED  BY <1>1, <1>3, <1>5 DEF Searched, SearchedOldest, EvictsOldest, OneReader

\* No other step finds the one thread in its loop, or at the end of it, or changes
\* what it has seen.
LEMMA StepSearched ==
  ASSUME OneReader, IInv, Searched, [Next]_vars
  PROVE  Searched'
<1>1. CASE UNCHANGED <<file_cache, pc, locals>>
  BY <1>1 DEF locals, Searched, SearchedOldest, EvictsOldest
<1>2. ASSUME NEW r \in Readers, pc'[r] \notin {"pick", "release"}
      PROVE  Searched'
  BY <1>2 DEF OneReader, Searched, SearchedOldest, EvictsOldest
<1>3. ASSUME NEW r \in Readers, ReaderStep(r) \/ \E p \in Paths : Request(r, p),
             pc'[r] \in {"pick", "release"}
      PROVE  BeginSearch(r) \/ PickSlot(r) \/ SearchEnds(r)
  BY <1>3 DEF ReaderStep, Request, Stat, Scan, ScanEnds, HitSize, HitCopy, ReadFile,
     ReleaseOld, StorePath, StoreContent, StoreSize, StampAndReturn, Return, Set, Goto,
     IInv, TypeOK
<1>4. QED
  BY <1>1, <1>2, <1>3, BeginSearchSearched, PickSlotSearched, SearchEndsSearched
     DEF Next, Tick, WriteFile, vars

\* With one thread the inductive invariant holds.
THEOREM SequentialInvariant ==
  ASSUME OneReader
  PROVE  Spec => []SequentialInv
<1>1. Init => IInv /\ Sequential /\ Searched
  BY InitTypes, InitSequential DEF Init, Searched, SearchedOldest, EvictsOldest
<1>2. IInv /\ Sequential /\ Searched /\ [Next]_vars => IInv' /\ Sequential' /\ Searched'
  BY StepTypes, StepSequential, StepSearched
<1>3. IInv /\ Sequential /\ Searched => SequentialInv
  BY DEF Sequential, Searched, SequentialInv
<1>4. QED  BY <1>1, <1>2, <1>3, PTL DEF Spec

\* With one thread every reply is of the file that was asked for, whatever the slots
\* held before; it has its own length, unless it is the cut copy of a file with a NUL
\* byte (read_file_content).
THEOREM OneThreadServesOwnFile ==
  ASSUME OneReader
  PROVE  Spec => []ServesOwnFile
<1>1. SequentialInv => ServesOwnFile  BY DEF SequentialInv
<1>2. QED  BY <1>1, SequentialInvariant, PTL

\* With one thread an entry is freed for another one only when no slot is free, and
\* it is then as old as any (cache_file).
THEOREM OneThreadEvictsOldest ==
  ASSUME OneReader
  PROVE  Spec => []EvictsOldest
<1>1. SequentialInv => EvictsOldest  BY DEF SequentialInv
<1>2. QED  BY <1>1, SequentialInvariant, PTL

\* With one thread nothing that was freed is compared, copied or freed again.
THEOREM OneThreadNeverDangles ==
  ASSUME OneReader
  PROVE  Spec => []NoDanglingAccess
<1>1. SequentialInv => NoDanglingAccess
  <2> SUFFICES ASSUME SequentialInv, NEW r \in Readers
               PROVE  /\ pc[r] = "scan" /\ i[r] \in Slots => file_cache[i[r]].path # Freed
                      /\ pc[r] = "copy" => file_cache[at[r]].content # Freed
                      /\ pc[r] = "release" => file_cache[at[r]].path # Freed
    BY DEF NoDanglingAccess
  <2>1. at[r] \in Slots  BY DEF SequentialInv, IInv, TypeOK
  <2>2. pc[r] \notin Writing => \A s \in Slots : Whole(file_cache[s])
    BY DEF SequentialInv, OthersWhole, OneReader
  <2>3. QED  BY <2>1, <2>2 DEF Whole, Writing
<1>2. QED  BY <1>1, SequentialInvariant, PTL

\* With one thread the cache hides no change of a file but one made in the second
\* the entry was stamped in or before, after its content was read.
THEOREM OneThreadStaleOnlyInWindow ==
  ASSUME OneReader
  PROVE  Spec => []StaleOnlyInWindow
<1>1. SequentialInv => StaleOnlyInWindow
  <2> SUFFICES ASSUME SequentialInv, NEW r \in Readers, pc[r] = "size",
                      file_cache[at[r]].content \in Contents
               PROVE  LET entry == file_cache[at[r]] IN
                      entry.content.version # st[r].version =>
                        entry.content.readAt <= st[r].mtime /\ st[r].mtime <= entry.last_modified
    BY DEF StaleOnlyInWindow
  <2>1. at[r] \in Slots /\ req[r] \in Paths
    BY DEF SequentialInv, IInv, TypeOK
  <2>2. Whole(file_cache[at[r]])
    BY <2>1 DEF SequentialInv, OthersWhole, OneReader, Writing
  <2>3. file_cache[at[r]].path = req[r] /\ file_cache[at[r]].last_modified >= st[r].mtime
    BY DEF SequentialInv, FoundOwn
  <2>4. file_cache[at[r]].content.of = req[r]
    BY <2>1, <2>2, <2>3, CacheAssumption DEF Whole, Contents
  <2>5. Outdated(file_cache[at[r]].content, st[r])
    BY <2>1, <2>4 DEF SequentialInv, ReadBefore
  <2>6. file_cache[at[r]].last_modified \in Nat /\ st[r].mtime \in Nat
    BY <2>1 DEF SequentialInv, IInv, TypeOK, Entries, Files
  <2>7. QED  BY <2>3, <2>5, <2>6 DEF Outdated
<1>2. QED  BY <1>1, SequentialInvariant, PTL
=============================================================================
