SPECIFICATION RouterSpec
CONSTANTS
  Requests = {q1, q2}
  Accounts = {a1, a2}
  MaxAttempts = 2
  Limit = 1
  Concurrency = 2
  LastDay = 2
  NoAccount = NoAccount
  Dispatchers = {d1, d2}
  Providers = {p1}
  Endpoints = {e1}
  ProviderOf <- MCProviderOf
  Threshold = 2
  Window = 1
  OpenFor = 1
  ProbeLimit = 1
  NoEndpoint = NoEndpoint
  Operators = {o1, o2}
  SwitchTo = {s1, s2}
  MaxVersion = 4
  Unassigned = Unassigned
SYMMETRY Symmetry
INVARIANTS
  RouterTypeOK
  QuotaHolds
  ExpiredWasNotSent
  NoCandidateTwice
  ProbesAreLimited
PROPERTIES
  SettledIsFinal
  OpensOnBurst
  SwitchesHold
CHECK_DEADLOCK FALSE
