\* Every path of up to four characters of six, and requests for every route; files
\* of up to two bytes that change while they are read.
SPECIFICATION FairSpec
CONSTANTS
  Requests <- AllRequests
  MethodWidth = 3
  PathWidth = 9
  SqlPatterns <- Sql
  XssPatterns <- Xss
  TraversalPatterns <- Traversal
  ApiPrefix <- Api
  StatusPath <- Status
  EchoPath <- Echo
  StaticPrefixes <- Static
  Wasm <- DotW
  FrontendPath <- Frontend
  IndexName <- IndexHtml
  Files <- SomeFiles
  MaxSize = 2
INVARIANTS
  TypeOK
  PathAsSent
  SentWasRead
PROPERTIES
  EndsAnswered
\* The request is done, or the process has exited.
CHECK_DEADLOCK FALSE
