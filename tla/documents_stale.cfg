\* One document; two people use the page one after the other.
SPECIFICATION Spec
CONSTANTS
  Docs = {d1}
  Users = {u1, u2}
  NoUser = NoUser
  NoData = NoData
  MaxFails = 0
INVARIANT ListsTheSearched
CHECK_DEADLOCK FALSE
