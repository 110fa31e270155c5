SPECIFICATION Spec
CONSTANTS
  Requests = {q1, q2, q3}
  Typed = {"my run", "my_run", "other", "../up"}
  ValidID = {"my run", "my_run", "other"}
  Clean <- CleanIDs
  Home = "my_run"
  Volcanos = {"Pavlof", "Pavlof_sister"}
  Longer <- LongerNames
  Earlier = {{}, {0}, {0, 9}}
  FirstVolcano = "Pavlof"
  MaxNumber = 11
SYMMETRY Alike
INVARIANTS
  OneMakerEach
  SharedWays
  NoFailedLeft
  KeptUntilError
