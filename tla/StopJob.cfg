\* One job, two runs, two pids for four processes, one crash.
SPECIFICATION FairSpec
CONSTANTS
    Jobs = {a}
    MaxLogId = 2
    Pids = {p, q}
    MaxStart = 4
    MaxCrashes = 1
    None = None
INVARIANTS StopHitsRun 
PROPERTY StopEnds
\* The bounds run out.
CHECK_DEADLOCK FALSE
