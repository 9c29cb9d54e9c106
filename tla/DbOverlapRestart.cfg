CONSTANTS
  Names = {a}
  NamedJobs = {}
  JobIds = {j1}
  LogIds = {l1, l2}
  Slots = {s1}
  NoId = NoId
  MaxFailures = 0
  MaxCycleFailures = 2
  Hazards = {"restart_under_run"}
SPECIFICATION Spec
INVARIANTS NoOverlap
