SPECIFICATION StoresSpec
CONSTANTS
  Guests = {g1}
  Jobs = {j1, j2}
  Users = {u1}
  Calls = {c1, c2}
  DailyBudget = 1
  SessionLife = 1
  JobLife = 2
  DayLength = 2
  LastTime = 3
  None = None
  Batches = {b1, b2}
  PageCount = 2
  MaxRetries = 1
  MaxBegins = 3
  ShardCount = 2
  PerShard = 2
  BatchSize = 2
  Depths = {0, 1}
  LastEpoch = 1
SYMMETRY Symmetry
INVARIANTS
  StoresTypeOK
  ServedOnce
  BudgetHolds
  LiveJobIsKept
  TokenSpentOnResult
  RetriesHold
  TrainsOnEpochs
PROPERTY ManifestHolds
CHECK_DEADLOCK FALSE
