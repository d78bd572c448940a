\* Seven configuration files, both users, a user with other processes or without;
\* a certificate with an absolute path and a key with a relative one.
SPECIFICATION FairSpec
CONSTANTS
  ConfigFiles <- SomeFiles
  NoFile = NoFile
  Users = {"root", "other"}
  Loads = {0, 60}
  Paths = {"cert", "key"}
  Relative = {"key"}
  SizeWidth = 16
  MB = 16
  MaxChanges = 1
INVARIANTS
  TypeOK
  ListensAsConfigured
PROPERTIES
  ImplementsServer
  ServesWhenPossible
\* A server that listens, or hangs, is at the end of its start.
CHECK_DEADLOCK FALSE
