\* One poll or command at a time beside reloads, one change of each kind.
SPECIFICATION FairSpec
CONSTANTS
  Jobs = {j1}
  Clients = {c1, c2, c3}
  MaxChanges = 1
  MaxReloads = 2
  None = None
INVARIANT TypeOK
INVARIANT NothingDangles
INVARIANT ReconfiguredDataRuns
PROPERTY ComesUp
