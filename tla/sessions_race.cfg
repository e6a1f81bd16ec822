CONSTANTS
  Tokens = {t1, t2, t3}
  NoToken = NoToken
  Calls = {c1, c2}
  CommitFirst = TRUE
  MaxFaults <- NoFaults
SPECIFICATION Spec
INVARIANT RevokeIsComplete
CHECK_DEADLOCK FALSE
