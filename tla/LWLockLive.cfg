CONSTANTS
  Procs = {p, q, r}
  MaxBackends = 3
  MaxCalls = 4
  Calls <- FewCalls
  MaxVal = 0
  MaxSignals = 0
SPECIFICATION FairSpec
PROPERTIES LockAsPromised 
CHECK_DEADLOCK FALSE
