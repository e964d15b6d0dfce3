CONSTANTS
  NumTasks = 2
  MAX_STEPS = 5
  EnvMaxSteps = 5
  MaxRetries = 3
  Threshold = 100
  Durations = {0, 2, 3, 4}
  NoSession = NoSession
SPECIFICATION FairSpec
INVARIANTS
  TypeOK
  StepsInOwnSession
  EndReleasesAgent
  GoodStepSucceeds
  SuccessIsEarned
PROPERTY DriverFinishes
CHECK_DEADLOCK FALSE
