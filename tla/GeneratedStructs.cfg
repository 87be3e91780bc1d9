\* Every target, up to two programs that pass the struct on.
SPECIFICATION Spec
CONSTANTS
  Targets <- AllTargets
  ProbeTypes <- MCProbeTypes
  MaxHops = 3
INVARIANTS
  TypeOK
  Aligned
  ProbeArrives
  SentinelArrives
  UnwritableForCause
  RejectedForCause
  NothingInvented
  ReceivedEqualsSent
CHECK_DEADLOCK FALSE
