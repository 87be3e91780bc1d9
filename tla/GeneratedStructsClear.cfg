\* clear() of the Java beans, without forwarding.
SPECIFICATION Spec
CONSTANTS
  Targets = {"java"}
  ProbeTypes <- MCProbeTypes
  MaxHops = 1
INVARIANT ClearedIsNew
CHECK_DEADLOCK FALSE
