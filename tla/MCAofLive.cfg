SPECIFICATION FairSpec
CONSTANTS
  c1 = c1
  c2 = c2
  Clients = {c1}
  DB = {0}
  AofFsync = "everysec"
  NoFsyncOnRewrite = FALSE
  Pipelining = FALSE
  Faults = {"fork", "child", "rename"}
  MaxWrites = 1
  LastWriteTime = 1
  MaxTime = 4
PROPERTIES
  PostponedBriefly
  BufferIsWritten
  WaitRewriteEnds
  ScheduledRewriteRuns
