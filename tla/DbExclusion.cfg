CONSTANTS
  Names = {a}
  NamedJobs = {a}
  JobIds = {j1, j2}
  LogIds = {l1, l2}
  Slots = {s1, s2}
  NoId = NoId
  MaxFailures = 1
  MaxCycleFailures = 2
  Hazards = {"program_withdrawn", "closeout_error"}
SPECIFICATION Spec
INVARIANTS NoOverlap RunHoldsState WorkersInSlots
PROPERTIES RunsAsPromised
SYMMETRY Symmetry
