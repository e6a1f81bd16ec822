SPECIFICATION ClientSpec
CONSTANTS
  Tokens = {t1, t2, t3}
  NoToken = NoToken
  Calls = {c1, c2}
  NoCall = NoCall
  Tabs = {tab}
  NoTab = NoTab
  Requests = {r1, r2}
  CommitFirst = TRUE
  MaxFaults <- OneLoss
SYMMETRY Symmetry
PROPERTY EndedStaysEnded
INVARIANTS ClientTypeOK ReuseCostsNothing WaitersAreServed
CHECK_DEADLOCK FALSE
