\* Two jobs and every hazard; one job and purging that is turned off and on.
SPECIFICATION FairSpec
CONSTANTS
    job1 = job1
    job2 = job2
    Jobs = {job1, job2}
    Slots = {s}
    Instances <- JobsAndPurges
    Gaps = {3}
    TicksPerMs = 2
    MinSleep = 1
    PollInterval = 2
    MaxCycleFailures = 2
    PurgeLimit = 1
    MaxExpired = 1
    None = None
    Open = Open
INVARIANT NoOversleep
PROPERTIES PurgeObeysSetting DueStarts 
