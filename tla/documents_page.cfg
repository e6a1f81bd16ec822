\* One document, two people who use the page in turn, two failed fetches.
SPECIFICATION FairSpec
CONSTANTS
  Docs = {d1}
  Users = {u1, u2}
  NoUser = NoUser
  NoData = NoData
  MaxFails = 2
INVARIANTS TypeOK UploadIsListed
PROPERTY OutcomeIsShown
CHECK_DEADLOCK FALSE
