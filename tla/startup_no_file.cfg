\* Demonstration: without a file the default port is not replaced.
SPECIFICATION FairSpec
CONSTANTS
  ConfigFiles <- SomeFiles
  NoFile = NoFile
  Users = {"root", "other"}
  Loads = {0, 60}
  Paths = {"cert", "key"}
  Relative = {"key"}
  SizeWidth = 16
  MB = 16
  MaxChanges = 1
INVARIANT PortFallsBack
CHECK_DEADLOCK FALSE
