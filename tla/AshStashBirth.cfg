SPECIFICATION Spec
CONSTANTS
  N = 2
  NPart = 0
  Restart = "none"
  FileBirths = {}
  EruptDate = 1
  RunHours = 8
  SaveHours = 2
  EruptHours = 8
  Dt = 2
  Minute = 2
  Repeat <- NoRepeat
  Global = FALSE
  SaveAshInit = FALSE
  AshOutput = TRUE
  AverageOutput = FALSE
  ComputeConcentration = TRUE
  GridOutput = TRUE
INVARIANTS
  UnbornMarked
