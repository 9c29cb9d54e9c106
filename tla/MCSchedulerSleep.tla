-------------------------- MODULE MCSchedulerSleep ---------------------------
(* Instances of SchedulerSleep: two jobs that compete for a slot and no      *)
(* purging, one job and a purge schedule that is turned off and on.          *)
EXTENDS SchedulerSleep
CONSTANTS job1, job2

JobsOnly == [jobs |-> {job1, job2}, purging |-> FALSE, hazards |-> AllHazards]
WithPurge == [jobs |-> {job1}, purging |-> TRUE, hazards |-> {"cycle_error"}]
JobsAndPurges == {JobsOnly, WithPurge}
=============================================================================
