CONSTANTS
  Databases = {d1, d2}
  Workers = {w1, w2, w3}
  None = None
  MaxOutages = 1
  Hazards = {"relist_early", "launcher_error"}
SPECIFICATION FairSpec
INVARIANT NoStrayScheduler
PROPERTIES RestartNeedsReload ListedServed DelistedStops
