\* Without Redis and without any fault: the background task may look for the
\* document before the upload commits it.
SPECIFICATION FairSpec
CONSTANTS
  Docs = {d1}
  NoDoc = NoDoc
  Runs = {r1}
  RedisEnabled = FALSE
  MaxTries = 1
  MayStall = TRUE
  MaxFaults <- NoFaults
PROPERTY UploadSettles
CHECK_DEADLOCK FALSE
