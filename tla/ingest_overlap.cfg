\* Redis mode, sweep and every fault once: two runs may work on one document.
SPECIFICATION FairSpec
CONSTANTS
  Docs = {d1}
  NoDoc = NoDoc
  Runs = {r1, r2}
  RedisEnabled = TRUE
  MaxTries = 2
  MayStall = TRUE
  MaxFaults <- AllFaults
INVARIANTS
  TypeOK
  ReadyIsIndexed
  PendingUntouched
  SingleBatchUnswept
  ProcessingIsAttended
  PendingHasBytes
PROPERTIES LifecycleSpec UploadSettles
CHECK_DEADLOCK FALSE
