SPECIFICATION Spec
CONSTANTS
  Device = "gpu"
  Inputs <- MCInputs
  Setups <- MCSetups
  RepInt = 2
  Reps = 1
  StopRounds <- MCNever
CHECK_DEADLOCK FALSE
INVARIANTS
  PreparedPipesRun
  RunPipesLearn
  BuffersHold
  RunsOnThisRound
  GradientsGoHome
  RoundsTeach
  KernelsStayInside
  KernelsTeach
  ForwardExact
