CONSTANTS
  Procs = {p, q, r}
  MaxBackends = 3
  MaxCalls = 4
  Calls <- AllCalls
  MaxVal = 1
  MaxSignals = 1
SPECIFICATION Spec
INVARIANTS StateExact SignalsBalance NoLostWakeup VarWaiterInformed
PROPERTY HoldersAsPromised
CHECK_DEADLOCK FALSE
SYMMETRY Symmetry
