------------------------------ MODULE JobRuns ------------------------------
(* What the scheduler promises about the runs of jobs, whoever claims,       *)
(* executes, interrupts, records or purges them: the runs of one job follow  *)
(* one another, and every run that is not forgotten gets one outcome.        *)
(* DbScheduler implements it (DbScheduler!RunsAsPromised).                   *)
EXTENDS Naturals

CONSTANTS Runs,   \* identities of runs
          Jobs,   \* identities of jobs
          Nobody  \* the job of a run that has not begun

VARIABLES
    st,   \* where each run is
    job   \* the job each run is a run of

vars == <<st, job>>

(* A run is active from its claim until its worker is gone; one that ended   *)
(* without an outcome is "open" until somebody closes it.                    *)
States == {"unused", "active", "open", "s", "f", "purged"}

Init == st = [r \in Runs |-> "unused"] /\ job = [r \in Runs |-> Nobody]

(* All of rs go from one state to another.                                   *)
Move(rs, from, to) ==
    /\ rs # {} /\ \A r \in rs : st[r] = from
    /\ st' = [r \in Runs |-> IF r \in rs THEN to ELSE st[r]]

(* Runs begin, of different jobs none of which has an active run.            *)
Begin(rs) ==
    /\ Move(rs, "unused", "active")
    /\ job' \in [Runs -> Jobs \cup {Nobody}]
    /\ \A r \in Runs \ rs : job'[r] = job[r]
    /\ \A r \in rs, q \in Runs :
         job'[r] # Nobody /\ (st'[q] = "active" /\ job'[q] = job'[r] => q = r)

(* A run recorded as it began: one made by hand, in its caller's session.    *)
Manual(r, j) ==
    /\ Move({r}, "unused", "s")
    /\ job' = [job EXCEPT ![r] = j]

(* An active run ends with its outcome.                                      *)
Finish(r, outcome) == Move({r}, "active", outcome) /\ UNCHANGED job

(* Active runs end without one: crash, kill, error.                          *)
Interrupt(rs) == Move(rs, "active", "open") /\ UNCHANGED job

(* Interrupted runs are closed as failed.                                    *)
Close(rs) == Move(rs, "open", "f") /\ UNCHANGED job

(* Finished runs are deleted from the log.                                   *)
Purge(rs) ==
    /\ rs # {} /\ \A r \in rs : st[r] \in {"s", "f"}
    /\ st' = [r \in Runs |-> IF r \in rs THEN "purged" ELSE st[r]]
    /\ UNCHANGED job

Next ==
    \/ \E rs \in SUBSET Runs :
         Begin(rs) \/ Interrupt(rs) \/ Close(rs) \/ Purge(rs)
    \/ \E r \in Runs : \E j \in Jobs : Manual(r, j)
    \/ \E r \in Runs : \E outcome \in {"s", "f"} : Finish(r, outcome)

Spec == Init /\ [][Next]_vars
=============================================================================
