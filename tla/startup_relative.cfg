\* Demonstration: a key with a relative path is found in / and not from /tmp.
SPECIFICATION FairSpec
CONSTANTS
  ConfigFiles <- SomeFiles
  NoFile = NoFile
  Users = {"root", "other"}
  Loads = {0, 60}
  Paths = {"cert", "key"}
  Relative = {"key"}
  SizeWidth = 16
  MB = 16
  MaxChanges = 1
PROPERTY FoundFilesStayFound
CHECK_DEADLOCK FALSE
