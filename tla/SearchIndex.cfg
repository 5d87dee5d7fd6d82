SPECIFICATION FairSpec
CONSTANTS
  Orgs = {o1, o2}
  Uids = {u1}
  Initial = {o1}
  Jobs = {j1, j2}
  NoOrg = NoOrg
  MaxChanges = 1
  MaxFailures = 1
INVARIANTS
  TypeOK
  EventsKeptApart
  ReindexAhead
PROPERTIES
  CatchesUp
