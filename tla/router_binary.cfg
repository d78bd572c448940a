\* Demonstration: a binary file is served from the cache.
SPECIFICATION FairSpec
CONSTANTS
  Requests <- AllRequests
  MethodWidth = 3
  PathWidth = 9
  SqlPatterns <- Sql
  XssPatterns <- Xss
  TraversalPatterns <- Traversal
  ApiPrefix <- Api
  StatusPath <- Status
  EchoPath <- Echo
  StaticPrefixes <- Static
  Wasm <- DotW
  FrontendPath <- Frontend
  IndexName <- IndexHtml
  Files <- SomeFiles
  MaxSize = 2
INVARIANTS
  NothingUnread
CHECK_DEADLOCK FALSE
