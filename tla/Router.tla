------------------------------- MODULE Router -------------------------------
(***************************************************************************)
(* One request in the server, from the text that was read to the response  *)
(* that is written: handle_request of src/router.c with the endpoints, the *)
(* reading of files and build_response, error_response of src/error.c, and *)
(* the end of handle_connection_wrapper.  Every call of the C library and  *)
(* the system may fail, and another process writes to the files meanwhile. *)
(* RequestPath computes the path.  The content of a file, a page or an     *)
(* endpoint is its number of bytes.  The cache gives a copy of a file, cut *)
(* or not, as FileCache has it of one thread.                              *)
(***************************************************************************)
EXTENDS RequestPath

CONSTANTS
  SqlPatterns, XssPatterns, TraversalPatterns,   \* of security/monitoring.c
  ApiPrefix,        \* config->api_prefix
  StatusPath, EchoPath,   \* the registered endpoints
  StaticPrefixes,   \* "/assets/" and "/static/"
  Wasm,             \* ".wasm"
  FrontendPath,     \* config->frontend_path
  IndexName,        \* "/index.html"
  Files,            \* the regular files that exist
  MaxSize           \* bound: bytes of a file

ASSUME RouterAssumption ==
  /\ MaxSize \in Nat
  /\ StatusPath # EchoPath

VARIABLES
  finding,     \* the event handed to log_security_event, "none" for none
  route,       \* what is being read: "static", "dot" or "index"
  file,        \* file_path
  length,      \* what ftell returned
  response,    \* status, and of the content what its buffer got, content_size and
               \* whether my_strdup cut it
  held,        \* of "file", "content" and "http_response"
  sent,        \* what was written to the connection, or NotSent
  starved,     \* there was no memory for the response
  size         \* how long the open file is

result_vars == <<finding, route, file, length, response, held, sent, starved>>
vars == <<path_vars, result_vars, size>>

NoResponse == [status |-> 0, bytes |-> 0, size |-> 0, cut |-> FALSE]
NotSent == NoResponse
Unknown == -1   \* ftell failed
Page == 1       \* the size of a page or of an endpoint's answer

RouteSteps ==
  {"route", "index", "cache", "open", "measure", "allocate", "read", "wasm_open",
   "wasm_measure", "wasm_allocate", "wasm_read", "log", "page", "build", "write",
   "free", "done", "exited"}

Responses ==
  [status : {0, 200, 400, 403, 404, 500}, bytes : 0..MaxSize + Page, size : 0..MaxSize + Page,
   cut : BOOLEAN]

\* A content of n bytes, all of which were read or written.
Content(n) == [status |-> 200, bytes |-> n, size |-> n, cut |-> FALSE]

\* The variables hold values of their types.
TypeOK ==
  /\ PathTypeOK
  /\ at \in PathSteps \cup RouteSteps
  /\ finding \in {"none", "SQL_INJECTION_ATTEMPT", "XSS_ATTEMPT", "PATH_TRAVERSAL_ATTEMPT"}
  /\ route \in {"none", "static", "dot", "index"}
  /\ length \in {Unknown} \cup 0..MaxSize
  /\ response \in Responses /\ sent \in Responses
  /\ held \subseteq {"file", "content", "http_response"}
  /\ starved \in BOOLEAN
  /\ size \in 0..MaxSize

Init ==
  /\ PathInit
  /\ finding = "none" /\ route = "none" /\ file = <<>> /\ length = 0
  /\ response = NoResponse /\ held = {} /\ sent = NotSent /\ starved = FALSE
  /\ size = 0

-----------------------------------------------------------------------------
(* The checks, and the choice of a route                                   *)

Step(step) == at' = step /\ UNCHANGED <<text_vars, buffer_vars>>
Goto(step) == Step(step) /\ UNCHANGED size

\* return error_response(status, ...): the message is logged first.
Error(status) ==
  /\ response' = [NoResponse EXCEPT !.status = status]
  /\ Goto("log")

Denied ==
  /\ at = "denied"
  /\ Error(403)
  /\ UNCHANGED <<finding, route, file, length, held, sent, starved>>

Matches(patterns, text) == \E p \in patterns : Occurs(p, text)

\* What the three checks say of the path as it was sent, and of the body.
Finding ==
  CASE Matches(SqlPatterns, path) \/ Matches(SqlPatterns, body) -> "SQL_INJECTION_ATTEMPT"
    [] Matches(XssPatterns, path) \/ Matches(XssPatterns, body) -> "XSS_ATTEMPT"
    [] Matches(TraversalPatterns, path) -> "PATH_TRAVERSAL_ATTEMPT"
    [] OTHER -> "none"

InspectPasses ==
  /\ at = "inspect" /\ Finding = "none"
  /\ Goto("route")
  /\ UNCHANGED result_vars

InspectRejects ==
  /\ at = "inspect" /\ Finding # "none"
  /\ finding' = Finding
  /\ Error(IF Finding = "PATH_TRAVERSAL_ATTEMPT" THEN 403 ELSE 400)
  /\ UNCHANGED <<route, file, length, held, sent, starved>>

Target == CString(decoded)
IsApi == IsPrefix(ApiPrefix, Target)
IsStatic == ~ IsApi /\ \E p \in StaticPrefixes : IsPrefix(p, Target)
TargetFile == FrontendPath \o Target
HasDot == \E n \in DOMAIN Target : Target[n] = 46

NoEndpoint ==
  /\ at = "route" /\ IsApi /\ Target \notin {StatusPath, EchoPath}
  /\ Error(404)
  /\ UNCHANGED <<finding, route, file, length, held, sent, starved>>

\* api_status and api_echo: without memory the first still says 200 and its size.
Endpoint ==
  /\ at = "route" /\ Target \in {StatusPath, EchoPath} /\ IsApi
  /\ \/ /\ held' = held \cup {"content"}
        /\ response' = Content(Page)
        /\ UNCHANGED starved
     \/ /\ starved' = TRUE
        /\ response' = IF Target = StatusPath THEN [Content(Page) EXCEPT !.bytes = 0]
                       ELSE [NoResponse EXCEPT !.status = 500]
        /\ UNCHANGED held
  /\ Goto("build")
  /\ UNCHANGED <<finding, route, file, length, sent>>

\* read_file_content(name).
Read(name, as, first) ==
  /\ file' = name /\ route' = as
  /\ Goto(first)
  /\ UNCHANGED <<finding, length, response, held, sent, starved>>

StaticFile ==
  /\ at = "route" /\ IsStatic
  /\ Read(TargetFile, "static", IF Occurs(Wasm, TargetFile) THEN "wasm_open" ELSE "cache")

DotFile ==
  /\ at = "route" /\ ~ IsApi /\ ~ IsStatic /\ HasDot /\ TargetFile \in Files
  /\ Read(TargetFile, "dot", "cache")

NotAFile ==
  /\ at = "route" /\ ~ IsApi /\ ~ IsStatic /\ ~ (HasDot /\ TargetFile \in Files)
  /\ Goto("index")
  /\ UNCHANGED result_vars

Index == at = "index" /\ Read(FrontendPath \o IndexName, "index", "cache")

-----------------------------------------------------------------------------
(* read_file_content                                                       *)

\* A hit is a copy of what was stored, if there is memory for one: of a content with
\* a NUL byte the bytes up to that one, with the size of the whole.
CacheHit ==
  /\ at = "cache"
  /\ \E n \in 0..MaxSize :
       \/ response' = Content(n)
       \/ \E bytes \in 1..n-1 : response' = [Content(n) EXCEPT !.bytes = bytes, !.cut = TRUE]
  /\ held' = held \cup {"content"}
  /\ Goto("build")
  /\ UNCHANGED <<finding, route, file, length, sent, starved>>

CacheMiss == at = "cache" /\ Goto("open") /\ UNCHANGED result_vars

\* A NULL: for a path with a dot there is still the index, else it is an error.
ReadFailed ==
  /\ held' = {}
  /\ IF route = "dot" THEN Goto("index") /\ UNCHANGED response ELSE Error(404)
  /\ UNCHANGED <<finding, route, file, length, sent, starved>>

\* Mutant of ReadFails: a file that cannot be read stays open.
ReadFailsOpen ==
  /\ at \in {"cache", "open", "measure", "allocate", "read"}
  /\ held' = held \ {"content"}
  /\ IF route = "dot" THEN Goto("index") /\ UNCHANGED response ELSE Error(404)
  /\ UNCHANGED <<finding, route, file, length, sent, starved>>

\* my_strdup, fopen, fseek or ftell, malloc, fread.
ReadFails == at \in {"cache", "open", "measure", "allocate", "read"} /\ ReadFailed

Open ==
  /\ at = "open" /\ file \in Files
  /\ held' = held \cup {"file"}
  /\ size' \in 0..MaxSize
  /\ Step("measure")
  /\ UNCHANGED <<finding, route, file, length, response, sent, starved>>

Measure ==
  /\ at = "measure"
  /\ length' = size
  /\ Goto("allocate")
  /\ UNCHANGED <<finding, route, file, response, held, sent, starved>>

Allocate ==
  /\ at = "allocate"
  /\ held' = held \cup {"content"}
  /\ Goto("read")
  /\ UNCHANGED <<finding, route, file, length, response, sent, starved>>

\* As many bytes as were asked for, or as there still are.
Available == Min({length, size})

ReadContent ==
  /\ at = "read"
  /\ response' = Content(Available)
  /\ held' = held \ {"file"}
  /\ Goto("build")
  /\ UNCHANGED <<finding, route, file, length, sent, starved>>

-----------------------------------------------------------------------------
(* handle_wasm_file                                                        *)

WasmOpen ==
  /\ at = "wasm_open" /\ file \in Files
  /\ held' = held \cup {"file"}
  /\ size' \in 0..MaxSize
  /\ Step("wasm_measure")
  /\ UNCHANGED <<finding, route, file, length, response, sent, starved>>

WasmOpenFails ==
  /\ at = "wasm_open"
  /\ Error(404)
  /\ UNCHANGED <<finding, route, file, length, held, sent, starved>>

\* Neither result is looked at: after an fseek that failed the length is 0.
WasmMeasure ==
  /\ at = "wasm_measure"
  /\ length' \in {size, 0, Unknown}
  /\ Goto("wasm_allocate")
  /\ UNCHANGED <<finding, route, file, response, held, sent, starved>>

WasmAllocate ==
  /\ at = "wasm_allocate" /\ length # Unknown
  /\ held' = held \cup {"content"}
  /\ Goto("wasm_read")
  /\ UNCHANGED <<finding, route, file, length, response, sent, starved>>

\* -1 is the largest size_t, and never to be had.
WasmAllocateFails ==
  /\ at = "wasm_allocate"
  /\ held' = {}
  /\ Error(500)
  /\ UNCHANGED <<finding, route, file, length, sent, starved>>

\* Mutant of WasmRead: a short read is not noticed.
WasmReadUnchecked ==
  /\ at = "wasm_read"
  /\ response' = [Content(length) EXCEPT !.bytes = Available]
  /\ held' = held \ {"file"}
  /\ Goto("build")
  /\ UNCHANGED <<finding, route, file, length, sent, starved>>

WasmRead ==
  /\ at = "wasm_read" /\ Available = length
  /\ response' = Content(length)
  /\ held' = held \ {"file"}
  /\ Goto("build")
  /\ UNCHANGED <<finding, route, file, length, sent, starved>>

\* The file is shorter by now, or an error.
WasmReadFails ==
  /\ at = "wasm_read" /\ length > 0
  /\ held' = {}
  /\ Error(500)
  /\ UNCHANGED <<finding, route, file, length, sent, starved>>

-----------------------------------------------------------------------------
(* error_response, build_response and the end                              *)

LogReturns == at = "log" /\ Goto("page") /\ UNCHANGED result_vars

\* log_message ends the process when its streams cannot be opened, as they never
\* can before an init_logging (Logging).  A denied path is logged twice.
LogExits ==
  /\ at = "log"
  /\ held' = {}
  /\ Goto("exited")
  /\ UNCHANGED <<finding, route, file, length, response, sent, starved>>

\* The page, or the message alone, or nothing.
MakePage ==
  /\ at = "page"
  /\ \/ /\ held' = held \cup {"content"}
        /\ response' = [response EXCEPT !.bytes = Page, !.size = Page]
        /\ UNCHANGED starved
     \/ starved' = TRUE /\ UNCHANGED <<held, response>>
  /\ Goto("build")
  /\ UNCHANGED <<finding, route, file, length, sent>>

Build ==
  /\ at = "build" /\ "content" \in held
  /\ held' = held \cup {"http_response"}
  /\ Goto("write")
  /\ UNCHANGED <<finding, route, file, length, response, sent, starved>>

BuildNothing ==
  /\ at = "build"
  /\ starved' = ("content" \in held \/ starved)
  /\ Goto("free")
  /\ UNCHANGED <<finding, route, file, length, response, held, sent>>

\* The response is written as far as the client takes it, and its copy freed.
Write ==
  /\ at = "write"
  /\ sent' = response
  /\ held' = held \ {"http_response"}
  /\ Goto("free")
  /\ UNCHANGED <<finding, route, file, length, response, starved>>

free_response ==
  /\ at = "free"
  /\ held' = held \ {"content"}
  /\ response' = [response EXCEPT !.bytes = 0, !.size = 0, !.cut = FALSE]
  /\ Goto("done")
  /\ UNCHANGED <<finding, route, file, length, sent, starved>>

RouteStep ==
  \/ Denied \/ InspectPasses \/ InspectRejects
  \/ NoEndpoint \/ Endpoint \/ StaticFile \/ DotFile \/ NotAFile \/ Index
  \/ CacheHit \/ CacheMiss \/ ReadFails \/ Open \/ Measure \/ Allocate \/ ReadContent
  \/ WasmOpen \/ WasmOpenFails \/ WasmMeasure \/ WasmAllocate \/ WasmAllocateFails
  \/ WasmRead \/ WasmReadFails
  \/ LogReturns \/ LogExits \/ MakePage
  \/ Build \/ BuildNothing \/ Write \/ free_response

PathStep == PathNext /\ UNCHANGED <<result_vars, size>>

\* Another process writes to the file.
Change ==
  /\ "file" \in held
  /\ size' \in 0..MaxSize
  /\ UNCHANGED <<path_vars, result_vars>>

Next == PathStep \/ RouteStep \/ Change

Spec == Init /\ [][Next]_vars

\* The thread that serves the request runs.
FairSpec == Spec /\ WF_vars(PathStep \/ RouteStep)

-----------------------------------------------------------------------------
(* Properties                                                              *)

\* What goes out as content is what was read: content_size never counts bytes that
\* nothing was written to, although a file may become shorter after it was measured
\* and any call may fail.  One response does not keep to this: the copy of a cached
\* content that my_strdup has cut at a NUL byte goes out with the size of the whole.
SentWasRead == sent.bytes = sent.size \/ sent.cut

\* As SentWasRead, of the images and fonts that come from the cache, too.
NothingUnread == sent.bytes = sent.size

\* What is in use at each step.
Held ==
  /\ at \in PathSteps \cup {"route", "index", "cache", "open", "wasm_open", "log", "page",
                           "done", "exited"} => held = {}
  /\ at \in {"measure", "allocate", "wasm_measure", "wasm_allocate"} => held = {"file"}
  /\ at \in {"read", "wasm_read"} => held = {"file", "content"}
  /\ at \in {"build", "free"} => held \subseteq {"content"}
  /\ at = "write" => held = {"content", "http_response"}

\* The length is that of a content before one is read.
Measured == at \in {"allocate", "read", "wasm_read"} => length # Unknown

\* A response has its status, and one with content says how much was read.
Described ==
  /\ at \in {"log", "page", "build", "write"} => response.status # 0
  /\ at \in {"log", "page", "write"} \/ (at = "build" /\ "content" \in held)
     => response.bytes = response.size \/ response.cut

\* Without memory nothing is sent, and only then.
Accounted ==
  /\ at = "build" /\ "content" \notin held => starved
  /\ at \in {"free", "done"} => starved \/ sent # NotSent

\* The inductive invariant that SentWasRead and AnsweredWhenDone follow from.
IInv ==
  /\ TypeOK /\ PathInv
  /\ Held /\ Measured /\ Described /\ Accounted /\ SentWasRead

\* The safety that is in EndsAnswered: a request that is done has closed its file
\* and freed its memory, and was answered unless there was no memory for that.
AnsweredWhenDone == at = "done" => held = {} /\ (starved \/ sent # NotSent)

\* Every request comes to an end, on every path with its file closed and its
\* memory freed, and with an answer, unless there was no memory for one; or
\* log_message ended the process.
EndsAnswered ==
  <>(\/ at = "exited"
     \/ at = "done" /\ held = {} /\ (starved \/ sent # NotSent))

\* The body that api_echo answers with is there when the client sent one.
BodyParsed == AfterHeaders(raw) # <<>> => [](at = "inspect" => body # <<>>)
=============================================================================
