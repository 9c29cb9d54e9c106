CONSTANTS
  Names = {a}
  NamedJobs = {a}
  JobIds = {j1}
  LogIds = {l1, l2}
  Slots = {s1}
  NoId = NoId
  MaxFailures = 1
  MaxCycleFailures = 2
  Hazards = {"restart_under_run", "manual_under_run", "drop_under_run"}
SPECIFICATION FairSpec
INVARIANT OpenRunBooked
PROPERTIES RunningEnds DueServed
