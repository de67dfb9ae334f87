SPECIFICATION TrainingSpec
CONSTANTS
  MaxStep = 2
  SaveSteps = 1
  Limits = {2}
  Losses = {1}
  MaxFaults = 1
INVARIANT ResumeIsExact
CHECK_DEADLOCK FALSE
