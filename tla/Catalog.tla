------------------------------ MODULE Catalog -------------------------------
(* The object catalogue of DBMS_SCHEDULER: jobs, programs and schedules that *)
(* share one namespace, the arguments of programs and the argument values of *)
(* jobs, and the package calls of concurrent sessions on them.               *)
(* Source: dbms_scheduler.c and the tables of dbms_scheduler--1.0.sql.       *)
(*                                                                           *)
(* A call is a transaction under READ COMMITTED: each query of it is a step  *)
(* that sees what is committed by then, and the rows it writes, locked from  *)
(* the write to the end, appear in one last step.  A check that raises an    *)
(* error is a guard: a call that does not get past it can only Abort.        *)
(* State and dates of a job are in DbScheduler; here it is enabled or not.   *)
EXTENDS Naturals

CONSTANTS
    Names,      \* (owner, name) pairs
    Sessions,   \* sessions that make package calls
    MaxArgs,    \* SCHED_MAX_ARGS
    ArgNames,   \* argument names
    Values,     \* argument values; also what a program or a job executes
    Null,       \* SQL NULL
    Workloads   \* sets of calls; a behaviour draws its calls from one of them

ASSUME CatalogAssumption ==
    /\ MaxArgs \in Nat
    /\ Null \notin Names \cup ArgNames \cup Values

Ops == {"create_program", "create_schedule", "create_job", "enable", "disable",
        "drop_job", "drop_program", "drop_schedule", "define_program_argument",
        "drop_program_argument_pos", "drop_program_argument_name",
        "set_job_argument_value_pos", "set_job_argument_value_name", "load"}

(* num is number_of_arguments or argument_position, val the action, default  *)
(* or argument value, flag is enabled, has_default or force.  A create_job   *)
(* with prog Null is the inline one; load is sched_load_job_definition, made *)
(* by RUN_JOB and by a job worker.                                           *)
Call == [op: Ops, name: Names, prog: Names \cup {Null}, sched: Names \cup {Null},
         num: 0 .. MaxArgs + 1, arg: ArgNames \cup {Null},
         val: Values \cup {Null}, flag: BOOLEAN]

ASSUME WorkloadsAssumption == \A w \in Workloads : w \subseteq Call

VARIABLES
    jobs,      \* sys.scheduler_jobs
    progs,     \* sys.scheduler_programs
    scheds,    \* sys.scheduler_schedules: the names in it
    pargs,     \* sys.scheduler_program_args, by program and position
    jargs,     \* sys.scheduler_job_args, by job and position
    sess,      \* the call of each session
    workload,  \* the calls of this behaviour
    reads,     \* history: what the call of a session has read
    stale,     \* history: what of that was changed since by another session
    raced      \* history: what was stale when a call wrote relying on it

catalog == <<jobs, progs, scheds, pargs, jargs>>
vars == <<catalog, sess, workload, reads, stale, raced>>

Positions == 1 .. MaxArgs
Job == [there: BOOLEAN, prog: Names \cup {Null}, sched: Names \cup {Null},
        act: Values \cup {Null}, nargs: 0 .. MaxArgs, enabled: BOOLEAN]
NoJob == [there |-> FALSE, prog |-> Null, sched |-> Null, act |-> Null,
          nargs |-> 0, enabled |-> FALSE]
Program == [there: BOOLEAN, act: Values \cup {Null}, nargs: 0 .. MaxArgs,
            enabled: BOOLEAN]
NoProgram == [there |-> FALSE, act |-> Null, nargs |-> 0, enabled |-> FALSE]
ProgramArg == [there: BOOLEAN, arg: ArgNames \cup {Null},
               val: Values \cup {Null}, dflt: BOOLEAN]
NoProgramArg == [there |-> FALSE, arg |-> Null, val |-> Null, dflt |-> FALSE]
JobArg == [there: BOOLEAN, val: Values \cup {Null}]
NoJobArg == [there |-> FALSE, val |-> Null]

Places == {"idle", "kind", "program_ref", "schedule_ref", "job", "program",
           "schedule", "arguments", "argument_name", "dependents", "write",
           "loaded"}

(* Locals of a call: prog and sched are the job's references, nargs and act  *)
(* the effective count and action, kind the object kind found (for DROP: the *)
(* dependents found), vals the loaded values.                                *)
Session == [at: Places, call: Call \cup {Null}, kind: {"none", "J", "P", "S"},
            deps: BOOLEAN, prog: Names \cup {Null}, sched: Names \cup {Null},
            nargs: 0 .. MaxArgs, act: Values \cup {Null}, pos: 0 .. MaxArgs + 1,
            vals: [Positions -> Values \cup {Null}]]
NoVals == [i \in Positions |-> Null]
Idle == [at |-> "idle", call |-> Null, kind |-> "none", deps |-> FALSE,
         prog |-> Null, sched |-> Null, nargs |-> 0, act |-> Null, pos |-> 0,
         vals |-> NoVals]

Items == {"exists", "enabled", "arguments", "dependents"} \X Names

Init ==
    /\ jobs = [n \in Names |-> NoJob] /\ progs = [n \in Names |-> NoProgram]
    /\ scheds = {}
    /\ pargs = [n \in Names |-> [i \in Positions |-> NoProgramArg]]
    /\ jargs = [n \in Names |-> [i \in Positions |-> NoJobArg]]
    /\ sess = [s \in Sessions |-> Idle] /\ workload \in Workloads
    /\ reads = [s \in Sessions |-> {}] /\ stale = [s \in Sessions |-> {}]
    /\ raced = {}

\* Fault: only jobs and programs are looked up.
KindNoSchedule(n) ==
    IF jobs[n].there THEN "J" ELSE IF progs[n].there THEN "P" ELSE "none"

(* sched_object_kind                                                         *)
Kind(n) ==
    IF jobs[n].there THEN "J"
    ELSE IF progs[n].there THEN "P"
    ELSE IF n \in scheds THEN "S" ELSE "none"

Creates(c) == c.op \in {"create_program", "create_schedule", "create_job"}

(* The first query of each call.                                             *)
FirstQuery(op) ==
    IF op \in {"define_program_argument", "drop_program_argument_pos",
               "drop_program_argument_name"} THEN "program"
    ELSE IF op \in {"set_job_argument_value_pos", "set_job_argument_value_name",
                    "load"} THEN "job"
    ELSE IF op = "drop_job" THEN "write" ELSE "kind"

Begin(s, c) ==
    /\ sess[s].at = "idle" /\ c \in workload
    /\ sess' = [sess EXCEPT ![s] = [Idle EXCEPT !.at = FirstQuery(c.op), !.call = c,
                   !.prog = IF FirstQuery(c.op) = "program" THEN c.name ELSE Null,
                   !.pos = c.num]]
    /\ UNCHANGED <<catalog, workload, reads, stale, raced>>

(* An error, a cancel or a check not passed: the transaction rolls back.     *)
Abort(s) ==
    /\ sess[s].at # "idle"
    /\ sess' = [sess EXCEPT ![s] = Idle]
    /\ reads' = [reads EXCEPT ![s] = {}] /\ stale' = [stale EXCEPT ![s] = {}]
    /\ UNCHANGED <<catalog, workload, raced>>

(********************************* Queries **********************************)

(* A query of a call, which reads items and leaves the session in next.      *)
Query(s, next, items) ==
    /\ sess' = [sess EXCEPT ![s] = next]
    /\ reads' = [reads EXCEPT ![s] = @ \cup items]
    /\ UNCHANGED <<catalog, workload, stale, raced>>

(* sched_check_name_free for the creates, the switch of ENABLE and DISABLE,  *)
(* the kind the DROPs insist on.                                             *)
KindAllowed(c, k) ==
    /\ Creates(c) => k = "none"
    /\ c.op \in {"enable", "disable"} => k \in {"J", "P"}
    /\ c.op = "drop_program" => k = "P"
    /\ c.op = "drop_schedule" => k = "S"

(* number_of_arguments of a create.                                          *)
CountAllowed(c) == Creates(c) => c.num <= MaxArgs

AfterKind(c, k) ==
    IF c.op = "create_job" /\ c.prog # Null THEN "program_ref"
    ELSE IF c.op = "enable" THEN (IF k = "J" THEN "job" ELSE "program")
    ELSE IF c.op \in {"drop_program", "drop_schedule"} THEN "dependents"
    ELSE "write"

QueryKind(s) ==
    LET c == sess[s].call
        k == Kind(c.name)
    IN  /\ sess[s].at = "kind" /\ KindAllowed(c, k) /\ CountAllowed(c)
        /\ Query(s, [sess[s] EXCEPT !.at = AfterKind(c, k), !.kind = k,
                                 !.prog = IF c.op = "enable" THEN c.name ELSE c.prog,
                                 !.sched = c.sched],
                 {<<"exists", c.name>>})

(* CREATE_JOB by name: the program, then the schedule has to be one.         *)
QueryProgramRef(s) ==
    /\ sess[s].at = "program_ref" /\ Kind(sess[s].prog) = "P"
    /\ Query(s, [sess[s] EXCEPT !.at = "schedule_ref"],
             {<<"exists", sess[s].prog>>})

QueryScheduleRef(s) ==
    /\ sess[s].at = "schedule_ref" /\ Kind(sess[s].sched) = "S"
    /\ Query(s, [sess[s] EXCEPT !.at = IF sess[s].call.flag THEN "program" ELSE "write"],
             {<<"exists", sess[s].sched>>})

(* The job row: sched_enable_job, sched_job_arg_context for the argument     *)
(* values, sched_load_job_definition.                                        *)
QueryJob(s) ==
    LET c == sess[s].call
        j == jobs[c.name]
        next == IF j.prog # Null THEN "program"
                ELSE IF c.op \in {"enable", "load"} THEN "arguments" ELSE "write"
    IN  /\ sess[s].at = "job" /\ j.there
        /\ next = "write" => /\ c.op = "set_job_argument_value_pos"
                             /\ sess[s].pos \in 1 .. j.nargs
        /\ Query(s, [sess[s] EXCEPT !.at = next, !.prog = j.prog, !.sched = j.sched,
                                 !.nargs = j.nargs, !.act = j.act],
                 {<<"exists", c.name>>})

\* Fault: a job is run on a program that is disabled.
NeedsEnabledEnable(c, k) == c.op = "create_job" \/ (c.op = "enable" /\ k = "J")

(* A job is not enabled on, nor run with, a program that is disabled.        *)
NeedsEnabled(c, k) == c.op \in {"create_job", "load"} \/ (c.op = "enable" /\ k = "J")

\* Fault: the position is not compared with number_of_arguments.
InRangeAny(c, pos, nargs) == TRUE

InRange(c, pos, nargs) ==
    c.op \in {"define_program_argument", "set_job_argument_value_pos"} =>
        pos \in 1 .. nargs

AfterProgram(c, k) ==
    IF c.op = "create_job" \/ (c.op = "enable" /\ k = "J") THEN "schedule"
    ELSE IF c.op \in {"load", "enable"} THEN "arguments"
    ELSE IF c.op = "set_job_argument_value_name" THEN "argument_name"
    ELSE "write"

(* The program row: sched_enable_job, sched_enable_program,                  *)
(* sched_program_nargs, sched_load_job_definition.                           *)
QueryProgram(s) ==
    LET c == sess[s].call
        p == progs[sess[s].prog]
    IN  /\ sess[s].at = "program" /\ p.there
        /\ NeedsEnabled(c, sess[s].kind) => p.enabled
        /\ InRange(c, sess[s].pos, p.nargs)
        /\ Query(s, [sess[s] EXCEPT !.at = AfterProgram(c, sess[s].kind),
                                 !.nargs = p.nargs, !.act = p.act],
                 {<<"exists", sess[s].prog>>, <<"enabled", sess[s].prog>>})

(* The schedule row of sched_enable_job.                                     *)
QuerySchedule(s) ==
    /\ sess[s].at = "schedule" /\ sess[s].sched \in scheds
    /\ Query(s, [sess[s] EXCEPT !.at = "arguments"],
             {<<"exists", sess[s].sched>>})

DefaultOf(p, i) == IF p = Null THEN NoProgramArg ELSE pargs[p][i]

(* A value on the job or a default on the program: sched_check_args_complete *)
(* and the third column of the query of sched_load_job_definition.           *)
HasValue(n, p, i) == jargs[n][i].there \/ DefaultOf(p, i).dflt

(* COALESCE(ja.argument_value, pa.default_value)                             *)
LoadedValue(n, p, i) ==
    IF jargs[n][i].val # Null THEN jargs[n][i].val ELSE DefaultOf(p, i).val

(* The arguments 1 .. nargs: all defined for a program, all with a value for *)
(* a job.                                                                    *)
QueryArguments(s) ==
    LET c == sess[s].call
        n == c.name
        p == sess[s].prog
        ofProgram == c.op = "enable" /\ sess[s].kind = "P"
        used == 1 .. sess[s].nargs
    IN  /\ sess[s].at = "arguments"
        /\ \A i \in used : IF ofProgram THEN pargs[p][i].there ELSE HasValue(n, p, i)
        /\ Query(s, [sess[s] EXCEPT
                    !.at = IF c.op = "load" THEN "loaded" ELSE "write",
                    !.vals = [i \in Positions |-> IF c.op = "load" /\ i \in used
                                                  THEN LoadedValue(n, p, i) ELSE Null]],
                 {<<"arguments", x>> : x \in {n, p} \ {Null}})

(* SET_JOB_ARGUMENT_VALUE by name: the position the program has it at.       *)
QueryArgumentName(s) ==
    LET p == sess[s].prog
    IN  \E i \in Positions :
          /\ sess[s].at = "argument_name"
          /\ pargs[p][i].there /\ pargs[p][i].arg = sess[s].call.arg
          /\ Query(s, [sess[s] EXCEPT !.at = "write", !.pos = i],
                   {<<"arguments", p>>})

DependsOn(j, n, op) ==
    /\ jobs[j].there
    /\ IF op = "drop_program" THEN jobs[j].prog = n ELSE jobs[j].sched = n

(* DROP_PROGRAM and DROP_SCHEDULE refuse when a job refers to the object,    *)
(* unless force is given.                                                    *)
QueryDependents(s) ==
    LET c == sess[s].call
        deps == \E j \in Names : DependsOn(j, c.name, c.op)
    IN  /\ sess[s].at = "dependents" /\ (deps => c.flag)
        /\ Query(s, [sess[s] EXCEPT !.at = "write", !.deps = deps],
                 {<<"dependents", c.name>>})

(********************************** Writes **********************************)

(* The end of a call that changes touched: it commits, and what others have  *)
(* read of that becomes stale.                                               *)
Commit(s, touched) ==
    /\ sess' = [sess EXCEPT ![s] = Idle]
    /\ raced' = raced \cup stale[s]
    /\ reads' = [reads EXCEPT ![s] = {}]
    /\ stale' = [t \in Sessions |->
                   IF t = s THEN {} ELSE stale[t] \cup (reads[t] \cap touched)]
    /\ UNCHANGED workload

Writes(s, ops) == sess[s].at = "write" /\ sess[s].call.op \in ops

(* INSERT, which fails on the table's own key.  With enabled => TRUE a       *)
(* program or an inline job that takes arguments fails: none is defined yet. *)
CreateProgram(s) ==
    LET c == sess[s].call
    IN  /\ Writes(s, {"create_program"})
        /\ ~progs[c.name].there /\ (c.flag => c.num = 0)
        /\ progs' = [progs EXCEPT ![c.name] = [there |-> TRUE, act |-> c.val,
                                               nargs |-> c.num, enabled |-> c.flag]]
        /\ Commit(s, {<<"exists", c.name>>})
        /\ UNCHANGED <<jobs, scheds, pargs, jargs>>

CreateSchedule(s) ==
    LET c == sess[s].call
    IN  /\ Writes(s, {"create_schedule"})
        /\ c.name \notin scheds
        /\ scheds' = scheds \cup {c.name}
        /\ Commit(s, {<<"exists", c.name>>})
        /\ UNCHANGED <<jobs, progs, pargs, jargs>>

References(j) == {<<"dependents", x>> : x \in {jobs[j].prog, jobs[j].sched} \ {Null}}

CreateJob(s) ==
    LET c == sess[s].call
        p == sess[s].prog
        d == sess[s].sched
    IN  /\ Writes(s, {"create_job"})
        /\ ~jobs[c.name].there /\ (p = Null /\ c.flag => c.num = 0)
        /\ jobs' = [jobs EXCEPT ![c.name] =
                      [there |-> TRUE, prog |-> p, sched |-> d, act |-> c.val,
                       nargs |-> c.num, enabled |-> c.flag]]
        /\ Commit(s, {<<"exists", c.name>>} \cup
                     {<<"dependents", x>> : x \in {p, d} \ {Null}})
        /\ UNCHANGED <<progs, scheds, pargs, jargs>>

(* UPDATE by name of the table the kind query chose: no row, no effect.      *)
SetEnabled(s) ==
    LET c == sess[s].call
        on == c.op = "enable"
    IN  /\ Writes(s, {"enable", "disable"})
        /\ jobs' = IF sess[s].kind = "J" /\ jobs[c.name].there
                   THEN [jobs EXCEPT ![c.name].enabled = on] ELSE jobs
        /\ progs' = IF sess[s].kind = "P" /\ progs[c.name].there
                    THEN [progs EXCEPT ![c.name].enabled = on] ELSE progs
        /\ Commit(s, {<<"enabled", c.name>>})
        /\ UNCHANGED <<scheds, pargs, jargs>>

(* INSERT ... ON CONFLICT DO UPDATE: the foreign key needs the program, the  *)
(* unique index no other argument of that name.                              *)
DefineProgramArgument(s) ==
    LET c == sess[s].call
    IN  /\ Writes(s, {"define_program_argument"})
        /\ progs[c.name].there
        /\ \A i \in Positions \ {c.num} :
             pargs[c.name][i].there /\ c.arg # Null => pargs[c.name][i].arg # c.arg
        /\ pargs' = [pargs EXCEPT ![c.name][c.num] =
                       [there |-> TRUE, arg |-> c.arg, val |-> c.val, dflt |-> c.flag]]
        /\ Commit(s, {<<"arguments", c.name>>})
        /\ UNCHANGED <<jobs, progs, scheds, jargs>>

(* DELETE by position or by name, an error when it deletes nothing.          *)
DropProgramArgument(s) ==
    LET c == sess[s].call
        gone == {i \in Positions :
                   /\ pargs[c.name][i].there
                   /\ IF c.op = "drop_program_argument_pos" THEN i = c.num
                      ELSE pargs[c.name][i].arg = c.arg}
    IN  /\ Writes(s, {"drop_program_argument_pos", "drop_program_argument_name"})
        /\ gone # {}
        /\ pargs' = [pargs EXCEPT ![c.name] =
                       [i \in Positions |-> IF i \in gone THEN NoProgramArg ELSE @[i]]]
        /\ Commit(s, {<<"arguments", c.name>>})
        /\ UNCHANGED <<jobs, progs, scheds, jargs>>

(* The foreign key of scheduler_job_args.                                    *)
JobOfValue(n) == jobs[n].there

(* sched_set_job_argument                                                    *)
SetJobArgument(s) ==
    LET c == sess[s].call
    IN  /\ Writes(s, {"set_job_argument_value_pos", "set_job_argument_value_name"})
        /\ JobOfValue(c.name)
        /\ jargs' = [jargs EXCEPT ![c.name][sess[s].pos] = [there |-> TRUE, val |-> c.val]]
        /\ Commit(s, {<<"arguments", c.name>>})
        /\ UNCHANGED <<jobs, progs, scheds, pargs>>

(* DELETE, an error when there is no such job; its values go with it.        *)
DropJob(s) ==
    LET c == sess[s].call
    IN  /\ Writes(s, {"drop_job"})
        /\ jobs[c.name].there
        /\ jobs' = [jobs EXCEPT ![c.name] = NoJob]
        /\ jargs' = [jargs EXCEPT ![c.name] = [i \in Positions |-> NoJobArg]]
        /\ Commit(s, {"exists", "enabled", "arguments"} \X {c.name}
                     \cup References(c.name))
        /\ UNCHANGED <<progs, scheds, pargs>>

\* Fault: the dependents are left enabled.
WithoutReferenceNot(s) == jobs

(* The UPDATE of the dependents, made when the query found some.             *)
WithoutReference(s) ==
    LET c == sess[s].call
    IN  [j \in Names |-> IF sess[s].deps /\ DependsOn(j, c.name, c.op)
                         THEN [jobs[j] EXCEPT !.enabled = FALSE] ELSE jobs[j]]

DropProgram(s) ==
    LET c == sess[s].call
    IN  /\ Writes(s, {"drop_program"})
        /\ jobs' = WithoutReference(s)
        /\ progs' = [progs EXCEPT ![c.name] = NoProgram]
        /\ pargs' = [pargs EXCEPT ![c.name] = [i \in Positions |-> NoProgramArg]]
        /\ Commit(s, {"exists", "enabled", "arguments"} \X {c.name})
        /\ UNCHANGED <<scheds, jargs>>

DropSchedule(s) ==
    LET c == sess[s].call
    IN  /\ Writes(s, {"drop_schedule"})
        /\ jobs' = WithoutReference(s)
        /\ scheds' = scheds \ {c.name}
        /\ Commit(s, {<<"exists", c.name>>})
        /\ UNCHANGED <<progs, pargs, jargs>>

(* The loaded job has been executed; loading wrote nothing.                  *)
Executed(s) ==
    /\ sess[s].at = "loaded"
    /\ sess' = [sess EXCEPT ![s] = Idle]
    /\ reads' = [reads EXCEPT ![s] = {}] /\ stale' = [stale EXCEPT ![s] = {}]
    /\ UNCHANGED <<catalog, workload, raced>>

(* The scheduler claims the last occurrence of a job, or a run of it reaches *)
(* the failure limit: the job is disabled.                                   *)
Retire(n) ==
    /\ jobs[n].enabled
    /\ jobs' = [jobs EXCEPT ![n].enabled = FALSE]
    /\ UNCHANGED <<progs, scheds, pargs, jargs, sess, workload, reads, stale, raced>>

QueryStep(s) ==
    \/ QueryKind(s) \/ QueryProgramRef(s) \/ QueryScheduleRef(s)
    \/ QueryJob(s) \/ QueryProgram(s) \/ QuerySchedule(s)
    \/ QueryArguments(s) \/ QueryArgumentName(s) \/ QueryDependents(s)

WriteStep(s) ==
    \/ CreateProgram(s) \/ CreateSchedule(s) \/ CreateJob(s)
    \/ SetEnabled(s) \/ DefineProgramArgument(s) \/ DropProgramArgument(s)
    \/ SetJobArgument(s) \/ DropJob(s) \/ DropProgram(s) \/ DropSchedule(s)

Next ==
    \/ \E s \in Sessions :
         \/ \E c \in workload : Begin(s, c)
         \/ QueryStep(s) \/ WriteStep(s) \/ Executed(s) \/ Abort(s)
    \/ \E n \in Names : Retire(n)

Spec == Init /\ [][Next]_vars

(******************************** Properties ********************************)

(* Every variable has its type; a session in a call makes one of the         *)
(* workload, with an argument count that was checked, and has a program      *)
(* where it reads one.                                                       *)
TypeOK ==
    /\ jobs \in [Names -> Job] /\ progs \in [Names -> Program]
    /\ scheds \subseteq Names
    /\ pargs \in [Names -> [Positions -> ProgramArg]]
    /\ jargs \in [Names -> [Positions -> JobArg]]
    /\ sess \in [Sessions -> Session] /\ workload \in Workloads
    /\ reads \in [Sessions -> SUBSET Items] /\ stale \in [Sessions -> SUBSET Items]
    /\ raced \subseteq Items
    /\ \A s \in Sessions :
         /\ sess[s].at # "idle" => sess[s].call \in workload
         /\ sess[s].at \notin {"idle", "kind"} => CountAllowed(sess[s].call)
         /\ sess[s].at \in {"program_ref", "schedule_ref", "program", "argument_name"}
              => sess[s].prog # Null

(* "jobs, programs and schedules share one namespace": no two objects of     *)
(* different kinds have one name, though each table has its own key only.    *)
(* The one way around it is two calls that both found the name free.         *)
OneNamespace ==
    \A n \in Names : <<"exists", n>> \notin raced =>
        /\ ~(jobs[n].there /\ progs[n].there)
        /\ n \in scheds => ~jobs[n].there /\ ~progs[n].there

(* No call wrote on the strength of an outdated look at the job, its program *)
(* or its schedule, or at who depends on them.                               *)
Undisturbed(j) ==
    \A x \in {j, jobs[j].prog, jobs[j].sched} :
        <<"exists", x>> \notin raced /\ <<"dependents", x>> \notin raced

(* "ENABLE refuses a job whose program is gone", and DROP_PROGRAM and        *)
(* DROP_SCHEDULE disable the jobs that refer to what they drop: a job that   *)
(* is enabled has its program and its schedule.  The exceptions are calls    *)
(* that relied on an object, or on there being no dependents, after that     *)
(* had changed under them.                                                   *)
EnabledResolves ==
    \A j \in Names : jobs[j].enabled /\ jobs[j].prog # Null /\ Undisturbed(j) =>
        progs[jobs[j].prog].there /\ jobs[j].sched \in scheds

(* The foreign keys with ON DELETE CASCADE: whatever the order of SET, DROP  *)
(* and CREATE, an argument belongs to a program and a value to a job that is *)
(* there, so an object created under a dropped name starts without any.      *)
ArgumentsOwned ==
    \A n \in Names, i \in Positions :
        /\ pargs[n][i].there => progs[n].there
        /\ jargs[n][i].there => jobs[n].there

EnablesJob(z) == z.call.op = "enable" /\ z.kind = "J"

(* The queries that belong to a call.                                        *)
PlaceFits(z) ==
    /\ z.at \in {"program_ref", "schedule_ref"} => z.call.op = "create_job"
    /\ z.at = "job" => ~Creates(z.call)
    /\ z.at \in {"job", "program", "schedule", "arguments", "argument_name"} =>
         z.call.op \notin {"create_program", "create_schedule", "drop_program",
                          "drop_schedule"}
    /\ z.at = "argument_name" => z.call.op = "set_job_argument_value_name"
    /\ z.at = "dependents" => z.call.op \in {"drop_program", "drop_schedule"}

(* A fact a call has read: it is on record, and it still holds or has been   *)
(* marked stale.                                                             *)
Knows(s, item, fact) == item \in reads[s] /\ (item \in stale[s] \/ fact)

(* What a call knows by where it is: the query is one of its own, the name   *)
(* it creates is free, the program and the schedule of the job it enables    *)
(* are there, that job has not changed its references, the object it drops   *)
(* has no dependents.                                                        *)
CallKnows(s) ==
    LET z == sess[s]
        n == z.call.name
        named == z.prog # Null
    IN  /\ PlaceFits(z)
        /\ z.at \notin {"idle", "kind"} /\ Creates(z.call) =>
             Knows(s, <<"exists", n>>,
                   ~jobs[n].there /\ ~progs[n].there /\ n \notin scheds)
        /\ named /\ \/ /\ z.at \in {"schedule_ref", "program", "schedule",
                                    "arguments", "write"}
                       /\ z.call.op = "create_job"
                    \/ z.at \in {"schedule", "arguments", "write"} /\ EnablesJob(z)
           => Knows(s, <<"exists", z.prog>>, progs[z.prog].there)
        /\ named /\ \/ /\ z.at \in {"program", "schedule", "arguments", "write"}
                       /\ z.call.op = "create_job"
                    \/ z.at \in {"arguments", "write"} /\ EnablesJob(z)
           => Knows(s, <<"exists", z.sched>>, z.sched \in scheds)
        /\ z.at \in {"program", "schedule", "arguments", "write"} /\ EnablesJob(z)
           => Knows(s, <<"exists", n>>,
                    jobs[n].there /\ jobs[n].prog = z.prog /\ jobs[n].sched = z.sched)
        /\ /\ z.at = "write" /\ z.call.op \in {"drop_program", "drop_schedule"}
           /\ ~z.deps
           => Knows(s, <<"dependents", n>>,
                    \A j \in Names : ~DependsOn(j, n, z.call.op))

(* The inductive invariant behind OneNamespace, EnabledResolves and          *)
(* ArgumentsOwned.                                                           *)
CatalogInv ==
    /\ OneNamespace /\ EnabledResolves /\ ArgumentsOwned
    /\ \A j \in Names : jobs[j].enabled => jobs[j].there
    /\ \A s \in Sessions : CallKnows(s)

(* Arguments of a program and values of an inline job are at positions the   *)
(* object has, unless it was replaced between the check and the write.       *)
ArgumentsInRange ==
    \A n \in Names, i \in Positions : <<"exists", n>> \notin raced =>
        /\ pargs[n][i].there => i <= progs[n].nargs
        /\ jargs[n][i].there /\ jobs[n].prog = Null => i <= jobs[n].nargs

(* A run executes what the catalogue says: unless a call changed something   *)
(* while it was loading, the job is there, its program is there and enabled, *)
(* the action is the program's or the job's own, each argument has a value   *)
(* or a default, and "job-level values override program defaults" (but for a *)
(* value set to NULL, which takes the default).                              *)
RunAsDefined ==
    \A s \in Sessions : sess[s].at = "loaded" /\ stale[s] = {} =>
        LET n == sess[s].call.name
            p == jobs[n].prog
            def == IF p = Null THEN jobs[n] ELSE progs[p]
        IN  /\ jobs[n].there /\ def.there /\ (p # Null => def.enabled)
            /\ sess[s].act = def.act
            /\ \A i \in Positions :
                 IF i > def.nargs THEN sess[s].vals[i] = Null
                 ELSE \/ jargs[n][i].there /\ sess[s].vals[i] = jargs[n][i].val
                      \/ /\ jargs[n][i].val = Null
                         /\ jargs[n][i].there \/ DefaultOf(p, i).dflt
                         /\ sess[s].vals[i] = DefaultOf(p, i).val

SetsValue(c) == c.op \in {"set_job_argument_value_pos", "set_job_argument_value_name"}

(* The queries that calls dealing with arguments make.                       *)
ArgumentsPlace(z) ==
    LET defines == z.call.op = "define_program_argument"
        loads == z.call.op = "load"
    IN  /\ z.at \in {"kind", "schedule"} => ~defines /\ ~loads /\ ~SetsValue(z.call)
        /\ z.at \in {"job", "arguments"} => ~defines
        /\ z.at = "arguments" => ~SetsValue(z.call)
        /\ z.at = "loaded" => loads
        /\ z.at # "idle" /\ defines => z.pos = z.call.num
        /\ z.at = "program" /\ defines => z.prog = z.call.name

(* What a call that deals with arguments knows by where it is: the program   *)
(* has the position it defines; the job has the references, and an inline    *)
(* job the position, it sets a value for; the job and the program it loads   *)
(* have the count and the action it holds, the arguments the values.         *)
ArgumentsKnown(s) ==
    LET z == sess[s]
        n == z.call.name
        p == z.prog
        loads == z.call.op = "load"
    IN  /\ ArgumentsPlace(z)
        /\ z.at = "write" /\ z.call.op = "define_program_argument" =>
             Knows(s, <<"exists", n>>,
                   progs[n].there /\ z.call.num \in 1 .. progs[n].nargs)
        /\ z.at \in {"program", "argument_name", "write"} /\ SetsValue(z.call) =>
             Knows(s, <<"exists", n>>,
                   /\ jobs[n].there /\ jobs[n].prog = p
                   /\ p = Null => z.pos \in 1 .. jobs[n].nargs)
        /\ z.at \in {"program", "arguments", "loaded"} /\ loads =>
             Knows(s, <<"exists", n>>,
                   /\ jobs[n].there /\ jobs[n].prog = p
                   /\ p = Null => z.nargs = jobs[n].nargs /\ z.act = jobs[n].act)
        /\ z.at \in {"arguments", "loaded"} /\ loads /\ p # Null =>
             /\ Knows(s, <<"exists", p>>,
                      progs[p].there /\ z.nargs = progs[p].nargs /\ z.act = progs[p].act)
             /\ Knows(s, <<"enabled", p>>, progs[p].enabled \/ <<"exists", p>> \in stale[s])
        /\ z.at = "loaded" =>
             /\ \A x \in {n, p} \ {Null} : <<"arguments", x>> \in reads[s]
             /\ \/ \E x \in {n, p} \ {Null} : <<"arguments", x>> \in stale[s]
                \/ \A i \in Positions :
                     IF i \in 1 .. z.nargs
                     THEN HasValue(n, p, i) /\ z.vals[i] = LoadedValue(n, p, i)
                     ELSE z.vals[i] = Null

(* The inductive invariant behind ArgumentsInRange and RunAsDefined.         *)
ArgumentsInv ==
    /\ ArgumentsInRange
    /\ \A n \in Names, i \in Positions : ~jargs[n][i].there => jargs[n][i].val = Null
    /\ \A s \in Sessions : ArgumentsKnown(s)
=============================================================================
