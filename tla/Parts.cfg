SPECIFICATION Spec
CONSTANTS
  DocumentPages = 2
  Evidences <- MCEvidences
  MaxRegions = 2
  MaxRuns = 2
  Plans = {p1, p2}
  Requests = {r1, r2}
  Tasks = {t1, t2}
  PoolSize = 1
  NoPlan = NoPlan
  MaxStep = 4
  SaveSteps = 1
  Limits = {1, 2, 3}
  Losses = {1, 2, 3}
  MaxFaults = 3
  Writers = {w1, w2}
  PageIds = {g1, g2}
  Texts = {x1, x2}
  WholeRun = WholeRun
  NoWriter = NoWriter
  MaxCalls = 3
  Makers = {m1, m2}
  Sources = {f1, f2}
  Documents = {d1, d2}
  ItemCount = 2
  NoDocument = NoDocument
  MaxLaunches = 3
  MaxMishaps = 1
  SampleCount = 3
  GroupCount = 3
  Policies = {1, 2}
  Corpora <- MCCorpora
  Seeds = {1}
  Ratios = {1, 2}
  Place <- MCPlace
  DefaultSeed = 1
  NoSeed = 0
  MaxCommands = 3
  MaxSpoiled = 1
INVARIANTS
  PartsTypeOK
  PagesHold
  TasksHold
  CheckpointsHold
  RowsAgree
PROPERTIES
  ConversionHolds
  TasksEnd
  RunCompletes
  AppendsHold
  ResumesHold
  SplitsHold
CHECK_DEADLOCK FALSE
