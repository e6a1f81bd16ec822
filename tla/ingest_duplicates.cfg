\* No fault at all: the sweep enqueues a second job for a document whose first
\* job is still waiting in the queue.
SPECIFICATION Spec
CONSTANTS
  Docs = {d1}
  NoDoc = NoDoc
  Runs = {r1, r2}
  RedisEnabled = TRUE
  MaxTries = 3
  MayStall = TRUE
  MaxFaults <- NoFaults
INVARIANT SingleBatch
CHECK_DEADLOCK FALSE
