SPECIFICATION Spec
CONSTANTS
  N = 2
  NPart = 1
  Restart = "ash"
  FileBirths = {0, 2}
  EruptDate = 1
  RunHours = 4
  SaveHours = 3
  EruptHours = 3
  Dt = 2
  Minute = 2
  Repeat = 1
  Global = FALSE
  SaveAshInit = TRUE
  AshOutput = TRUE
  AverageOutput = TRUE
  ComputeConcentration = TRUE
  GridOutput = TRUE
INVARIANTS
  RepeatRunsFull
  StashFollowsDumps
  MovedInside
