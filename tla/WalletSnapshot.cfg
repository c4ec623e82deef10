SPECIFICATION SnapshotSpec
CONSTANTS
  Loads = {l1}
  Reads = {"price", "outgoing", "incoming"}
  Limit = 2
  MaxAttempts = 2
  MaxTransactions = 3
  MaxRefreshes = 1
  None = None
INVARIANTS
  RecentComplete
PROPERTIES
  RefreshEnds
CHECK_DEADLOCK FALSE
