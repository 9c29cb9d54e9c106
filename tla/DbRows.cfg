CONSTANTS
  Names = {a, b}
  NamedJobs = {}
  JobIds = {j1, j2}
  LogIds = {l1, l2}
  Slots = {s1}
  NoId = NoId
  MaxFailures = 2
  MaxCycleFailures = 2
  Hazards = {"restart_under_run", "drop_under_run", "manual_under_run", "program_withdrawn", "closeout_error"}
SPECIFICATION Spec
INVARIANTS SlotForEveryClaim  ScheduleCoherent
PROPERTIES SuccessFinal ClaimRespectsDisable
SYMMETRY Symmetry
