SPECIFICATION FairSpec
CONSTANTS
  N = 3
  NPart = 0
  Restart = "none"
  FileBirths = {}
  EruptDate = 1
  RunHours = 8
  SaveHours = 3
  EruptHours = 3
  Dt = 2
  Minute = 2
  Repeat <- NoRepeat
  Global = TRUE
  SaveAshInit = FALSE
  AshOutput = TRUE
  AverageOutput = FALSE
  ComputeConcentration = TRUE
  GridOutput = TRUE
INVARIANTS
  OneMovePerTick
PROPERTIES
  NoOverwrite
  Termination
  ImplementsRun
