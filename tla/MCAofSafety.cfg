SPECIFICATION Spec
CONSTANTS
  c1 = c1
  c2 = c2
  Clients = {c1, c2}
  DB = {0, 1}
  AofFsync = "always"
  NoFsyncOnRewrite = FALSE
  Pipelining = FALSE
  Faults = {"fork", "child", "rename", "write", "kill", "power", "shutdown"}
  MaxWrites = 3
  LastWriteTime = 1
  MaxTime = 1
INVARIANTS
  IInv
  TextIsData
  RewriteIsData
  AckedIsWritten
  AckedIsSynced
PROPERTIES
  FileOnlyGrows
  ImplementsDurableLog
