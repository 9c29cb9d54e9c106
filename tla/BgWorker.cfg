\* One slot used twice over, counters that wrap, a failing fork, a
\* shutdown; one backend waits and another registers and terminates beside it.
SPECIFICATION FairSpec
CONSTANTS
    Slots = {s1}
    Procs = {p, q}
    Waiters = {p}
    Nobody = Nobody
    Kinds = {"parallel", "restart"}
    MaxGen = 2
    MaxParallel = 1
    CountMod = 2
    MaxFailures = 1
INVARIANTS  NoLostNotice
PROPERTIES HandlesAsPromised RequestsHonoured
CHECK_DEADLOCK FALSE
