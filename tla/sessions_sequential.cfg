CONSTANTS
  Tokens = {t1, t2, t3}
  NoToken = NoToken
  Calls = {c1}
  CommitFirst = TRUE
  MaxFaults <- OneOfEach
SPECIFICATION Spec
INVARIANTS TypeOK CookieIsKnown OneLive RevokeIsComplete
CHECK_DEADLOCK FALSE
