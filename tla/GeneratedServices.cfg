\* Every client against every processor, three calls.
SPECIFICATION Spec
CONSTANTS
  Clients <- ClientTargets
  Servers <- ServerTargets
  Functions <- MCFunctions
  Unserved <- MCUnserved
  MaxCalls = 3
INVARIANTS
  ToldTheTruth
  EveryCallAnswered
  InStep
  LostForCause
CHECK_DEADLOCK FALSE
