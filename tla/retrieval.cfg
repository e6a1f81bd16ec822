\* Every ranking of two documents, re-ingested or deleted meanwhile.
SPECIFICATION Spec
CONSTANTS
  Docs = {d1, d2}
  Parts = {p1, p2}
  Users = {me, stranger}
  Shared = Shared
  Gone = Gone
  AllDocs = AllDocs
  EfSearch = 3
  Candidates = 2
  TopK = 2
  K = 60
  MinScore = 100
SYMMETRY Symmetry
INVARIANTS TypeOK InScope MatchesAreServed BothBeatOne RefusesOnlyNothing
CHECK_DEADLOCK FALSE
