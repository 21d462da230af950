SPECIFICATION Spec
CONSTANTS
  Device = "cpu"
  Inputs <- MCInputs
  Setups <- MCSetupOne
  RepInt = 2
  Reps = 1
  StopRounds <- MCNever
CHECK_DEADLOCK FALSE
INVARIANT
  ChainsSynthesize
