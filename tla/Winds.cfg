SPECIFICATION Spec
CONSTANTS
  Masks <- SomeMasks
  Runs <- SomeRuns
  Eruptions <- SomeEruptions
  RunHours = 2
  Content <- SomeContent
  Name <- SomeNames
  Lines <- SomeLines
  Options <- SomeOptions
  FirstDirs <- SomeDirs
  MaxFiles = 4
INVARIANTS
  OneRun
  LevelsTrue
