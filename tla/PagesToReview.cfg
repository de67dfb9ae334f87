SPECIFICATION PagesSpec
CONSTANTS
  DocumentPages = 1
  Evidences = {{"text"}, {"text", "usable", "distributed"}}
  MaxRegions = 1
  MaxRuns = 1
PROPERTY ReviewIsAnOutcome
CHECK_DEADLOCK FALSE
