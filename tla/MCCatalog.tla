----------------------------- MODULE MCCatalog ------------------------------
(* Catalog instantiated for TLC: groups of calls, each one a workload.       *)
EXTENDS Catalog, FiniteSets, TLC

CONSTANTS job1, prog1, sched1, x, u, v

Base == [op |-> "load", name |-> job1, prog |-> Null, sched |-> Null, num |-> 0,
         arg |-> Null, val |-> Null, flag |-> FALSE]
On(op, n) == [Base EXCEPT !.op = op, !.name = n]
Flagged(c) == [c EXCEPT !.flag = TRUE]

\* Objects of all three kinds under one name.
OneName ==
    {On("create_schedule", prog1), On("drop_job", prog1), On("drop_program", prog1),
     On("drop_schedule", prog1), On("enable", prog1), On("disable", prog1),
     Flagged([On("create_job", prog1) EXCEPT !.val = u]),
     [On("create_program", prog1) EXCEPT !.val = v],
     [On("create_program", prog1) EXCEPT !.val = v, !.num = MaxArgs + 1]}

\* A job, its program and its schedule.
NamedJob == [On("create_job", job1) EXCEPT !.prog = prog1, !.sched = sched1]
Program0 == Flagged([On("create_program", prog1) EXCEPT !.val = v])
ProgramDropped ==
    {Program0, On("create_schedule", sched1), NamedJob, Flagged(NamedJob),
     On("enable", job1), On("disable", job1), On("disable", prog1), On("enable", prog1),
     On("drop_program", prog1), Flagged(On("drop_program", prog1)),
     On("drop_job", job1), On("load", job1)}
ScheduleDropped ==
    {Program0, On("create_schedule", sched1), NamedJob, Flagged(NamedJob),
     On("enable", job1), On("drop_schedule", sched1), Flagged(On("drop_schedule", sched1)),
     On("drop_job", job1)}

\* A program of two arguments or of one, redefined under a job.
Takes(n) == [On("create_program", prog1) EXCEPT !.num = n, !.val = IF n = 1 THEN u ELSE v]
Define(i) == [On("define_program_argument", prog1) EXCEPT !.num = i, !.arg = x]
ProgramArguments ==
    {Takes(1), Takes(2), Define(1), Flagged([Define(2) EXCEPT !.val = v]),
     [On("drop_program_argument_pos", prog1) EXCEPT !.num = 1],
     [On("drop_program_argument_name", prog1) EXCEPT !.arg = x],
     On("enable", prog1), On("create_schedule", sched1), NamedJob,
     [On("set_job_argument_value_name", job1) EXCEPT !.arg = x, !.val = u],
     [On("set_job_argument_value_pos", job1) EXCEPT !.num = 2],
     Flagged(On("drop_program", prog1)), On("load", job1)}

\* An inline job that takes an argument.
InlineArguments ==
    {[On("create_job", job1) EXCEPT !.num = 1, !.val = v],
     [On("create_job", job1) EXCEPT !.val = u],
     [On("set_job_argument_value_pos", job1) EXCEPT !.num = 1, !.val = u],
     [On("set_job_argument_value_pos", job1) EXCEPT !.num = 1],
     On("enable", job1), On("load", job1), On("drop_job", job1)}

AllWorkloads ==
    {OneName, ProgramDropped, ScheduleDropped, ProgramArguments, InlineArguments}

Symmetry == Permutations(Sessions)
=============================================================================
