---------------------------- MODULE DbScheduler ----------------------------
(* The DBMS_SCHEDULER of one database: the job table, the run log, the       *)
(* database scheduler process that claims and dispatches what is due, the    *)
(* background job workers, and the package calls of user sessions.           *)
(* Source: contrib/ivorysql_ora/src/builtin_packages/dbms_scheduler/.        *)
(*                                                                           *)
(* One action is one committed transaction, or one step of a process between *)
(* two transactions.  A transaction whose writes depend on what an earlier   *)
(* statement of it read (the due query, then the claims) is two actions.     *)
(* Time is abstracted to whether a job's next_run_date has been reached.     *)
EXTENDS Naturals, FiniteSets

CONSTANTS
    Names,             \* (job_owner, job_name) pairs users create jobs under
    NamedJobs,         \* those whose jobs use the program and the schedule
    JobIds,            \* values of the job_id sequence; bounds job creations
    LogIds,            \* values of the log_id sequence; bounds job runs
    Slots,             \* indexes of job_slots: scheduler_max_job_workers many
    NoId,              \* "no row", "slot not in use"
    MaxFailures,       \* scheduler_max_failures, 0 when there is no limit
    MaxCycleFailures,  \* SCHED_MAX_CYCLE_FAILURES
    Hazards            \* which of AllHazards the environment lets happen

(* Circumstances that change what the scheduler guarantees.  A run names the *)
(* ones it admits, so that each guarantee is tied to what it rests on.       *)
AllHazards ==
    { "restart_under_run",   \* scheduler started while job workers are alive
      "drop_under_run",      \* DROP_JOB of a job with a run in progress
      "manual_under_run",    \* RUN_JOB ending while a background run goes on
      "program_withdrawn",   \* program disabled or dropped under its jobs
      "closeout_error" }     \* error between the claims and the last spawn

ASSUME ConstantsAssumption ==
    /\ NamedJobs \subseteq Names
    /\ NoId \notin JobIds \cup LogIds
    /\ IsFiniteSet(LogIds) /\ IsFiniteSet(Slots) /\ IsFiniteSet(Names)
    /\ MaxFailures \in Nat /\ MaxCycleFailures \in Nat \ {0}
    /\ Hazards \subseteq AllHazards

VARIABLES
    jobs,      \* sys.scheduler_jobs, by name; id = NoId where there is no row
    usedIds,   \* job_id values handed out by the sequence
    prog,      \* the program NamedJobs refer to: "none", "disabled", "enabled"
    sch,       \* the schedule they refer to: "none", "once", "repeat"
    log,       \* sys.scheduler_job_run_details, by log_id
    wk,        \* job worker of a run: where its process is
    fg,        \* the foreground RUN_JOB in progress, if any
    pc,        \* database scheduler: where its polling loop is
    cleaned,   \* orphans_cleaned
    slots,     \* job_slots: the log_id whose worker occupies each
    due,       \* claimed runs not yet handed to a worker
    pending,   \* pending_reconcile
    scan,      \* rows copied from the due query, not yet claimed
    failures   \* cycle_failures

tableVars == <<jobs, usedIds, prog, sch>>
schedVars == <<pc, cleaned, slots, due, pending, scan, failures>>
vars == <<tableVars, log, wk, fg, schedVars>>

JobStates == {"DISABLED", "SCHEDULED", "RUNNING", "SUCCEEDED", "FAILED"}
NextRun == {"null", "future", "due"}
JobRow == [id: JobIds, rep: BOOLEAN, enabled: BOOLEAN,
           state: JobStates, next: NextRun, fails: Nat]
LogRow == [status: {"none", "r", "s", "f", "purged"},
           job: JobIds \cup {NoId}, name: Names \cup {NoId}]
WorkerStates == {"none", "starting", "running", "succeeded", "failed",
                 "unloaded", "stopped"}
ScanRow == [id: JobIds, name: Names, rep: BOOLEAN]
FgRun == [log: LogIds, job: JobIds, name: Names]
NoFg == [log |-> NoId, job |-> NoId, name |-> NoId]

NoJob == [id |-> NoId, rep |-> FALSE, enabled |-> FALSE, state |-> "DISABLED",
          next |-> "null", fails |-> 0]
NoLog == [status |-> "none", job |-> NoId, name |-> NoId]

Exists(n) == jobs[n].id # NoId

(* A worker process that is registered and has not exited.                   *)
Live(l) == wk[l] \notin {"none", "stopped"}

(* A run claimed for execution and not over yet.                             *)
InProgress(l) == l \in due \/ Live(l)

UnusedLogs == {l \in LogIds : log[l].status = "none" /\ l # fg.log}
FreeSlots == {s \in Slots : slots[s] = NoId}
SlotRuns == {slots[s] : s \in Slots} \ {NoId}

(*************************** Updates of a job row ***************************)

\* Fault: failure_count is not cleared.
EnabledKeepsCount(row, next) ==
    [row EXCEPT !.enabled = TRUE, !.next = next,
                !.state = IF @ = "RUNNING" THEN @ ELSE "SCHEDULED"]

\* sched_enable_job: a running job keeps RUNNING, failure_count is cleared.
Enabled(row, next) ==
    [row EXCEPT !.enabled = TRUE, !.next = next, !.fails = 0,
                !.state = IF @ = "RUNNING" THEN @ ELSE "SCHEDULED"]

\* Fault: the running job loses RUNNING.
WithdrawnAlways(row) ==
    [row EXCEPT !.enabled = FALSE, !.next = "null", !.state = "DISABLED"]

\* Fault: the next run date is left in place.
WithdrawnKeepsDate(row) ==
    [row EXCEPT !.enabled = FALSE,
                !.state = IF @ = "RUNNING" THEN @ ELSE "DISABLED"]

\* DISABLE, and DROP_PROGRAM / DROP_SCHEDULE with force on each dependent.
Withdrawn(row) ==
    [row EXCEPT !.enabled = FALSE, !.next = "null",
                !.state = IF @ = "RUNNING" THEN @ ELSE "DISABLED"]

\* sched_disable_broken_job
Broken(row) ==
    [row EXCEPT !.enabled = FALSE, !.next = "null", !.state = "DISABLED"]

\* sched_claim_one_job: hasNext is what the calendar and end_date answered.
Claimed(row, hasNext) ==
    [row EXCEPT !.enabled = hasNext, !.state = "RUNNING",
                !.next = IF hasNext THEN "future" ELSE "null"]

\* Fault: the run is closed, its job is not moved out of RUNNING.
ReleasedNot(row) == row

\* Put a job whose run nobody else will finish back in its resting state.
Released(row) ==
    [row EXCEPT !.state = IF row.enabled THEN "SCHEDULED" ELSE "DISABLED"]

\* sched_update_job_stats for a background run.
Recorded(row, ok) ==
    LET limit == ~ok /\ MaxFailures > 0 /\ row.fails + 1 >= MaxFailures
    IN  [row EXCEPT !.fails = IF ok THEN 0 ELSE @ + 1,
                    !.enabled = IF limit THEN FALSE ELSE @,
                    !.next = IF limit THEN "null" ELSE @,
                    !.state = IF row.enabled /\ ~limit THEN "SCHEDULED"
                              ELSE IF ok THEN "SUCCEEDED" ELSE "FAILED"]

\* sched_update_job_stats for a successful manual run.
RecordedManual(row) ==
    [row EXCEPT !.state = IF row.enabled THEN @ ELSE "SUCCEEDED"]

Init ==
    /\ jobs = [n \in Names |-> NoJob] /\ usedIds = {}
    /\ prog = "none" /\ sch = "none"
    /\ log = [l \in LogIds |-> NoLog]
    /\ wk = [l \in LogIds |-> "none"]
    /\ fg = NoFg
    /\ pc = "down" /\ cleaned = FALSE
    /\ slots = [s \in Slots |-> NoId]
    /\ due = {} /\ pending = {} /\ scan = {} /\ failures = 0

(************************ Package calls of a session ************************)

(* What sched_enable_job demands of a named-program job.                     *)
CanEnable(n) == n \in NamedJobs => prog = "enabled" /\ sch # "none"

(* CREATE_JOB, inline or with a program and a schedule; with enabled => true *)
(* it goes on to sched_enable_job.  next is what sched_first_run_date gives. *)
CreateJob(n, rep, enable, next) ==
    /\ ~Exists(n)
    /\ n \in NamedJobs => prog # "none" /\ sch # "none" /\ ~rep
    /\ enable => CanEnable(n)
    /\ \E id \in JobIds \ usedIds :
         LET row == [NoJob EXCEPT !.id = id, !.rep = rep]
         IN  /\ jobs' = [jobs EXCEPT ![n] = IF enable THEN Enabled(row, next)
                                                      ELSE row]
             /\ usedIds' = usedIds \cup {id}
    /\ UNCHANGED <<prog, sch, log, wk, fg, schedVars>>

EnableJob(n, next) ==
    /\ Exists(n) /\ CanEnable(n)
    /\ jobs' = [jobs EXCEPT ![n] = Enabled(@, next)]
    /\ UNCHANGED <<usedIds, prog, sch, log, wk, fg, schedVars>>

DisableJob(n) ==
    /\ Exists(n)
    /\ jobs' = [jobs EXCEPT ![n] = Withdrawn(@)]
    /\ UNCHANGED <<usedIds, prog, sch, log, wk, fg, schedVars>>

(* DROP_JOB deletes the row by name whatever its state; the run log stays.   *)
DropJob(n) ==
    /\ Exists(n)
    /\ \/ "drop_under_run" \in Hazards
       \/ \A l \in LogIds : InProgress(l) => log[l].name # n
    /\ jobs' = [jobs EXCEPT ![n] = NoJob]
    /\ UNCHANGED <<usedIds, prog, sch, log, wk, fg, schedVars>>

CreateProgram(enable) ==
    /\ prog = "none"
    /\ prog' = IF enable THEN "enabled" ELSE "disabled"
    /\ UNCHANGED <<jobs, usedIds, sch, log, wk, fg, schedVars>>

EnableProgram ==
    /\ prog # "none"
    /\ prog' = "enabled"
    /\ UNCHANGED <<jobs, usedIds, sch, log, wk, fg, schedVars>>

(* May a program be taken out of service under the jobs that refer to it?    *)
MayWithdraw ==
    \/ "program_withdrawn" \in Hazards
    \/ \A n \in NamedJobs : jobs[n].state # "RUNNING" /\ ~jobs[n].enabled

DisableProgram ==
    /\ prog # "none" /\ MayWithdraw
    /\ prog' = "disabled"
    /\ UNCHANGED <<jobs, usedIds, sch, log, wk, fg, schedVars>>

(* Without force a program or schedule with dependents is not dropped; with  *)
(* it every dependent is disabled first.                                     *)
WithdrawDependents(force) ==
    /\ ~force => \A n \in NamedJobs : ~Exists(n)
    /\ jobs' = [n \in Names |-> IF n \in NamedJobs /\ Exists(n)
                                THEN Withdrawn(jobs[n]) ELSE jobs[n]]

DropProgram(force) ==
    /\ prog # "none" /\ MayWithdraw
    /\ WithdrawDependents(force)
    /\ prog' = "none"
    /\ UNCHANGED <<usedIds, sch, log, wk, fg, schedVars>>

CreateSchedule(kind) ==
    /\ sch = "none"
    /\ sch' = kind
    /\ UNCHANGED <<jobs, usedIds, prog, log, wk, fg, schedVars>>

DropSchedule(force) ==
    /\ sch # "none"
    /\ WithdrawDependents(force)
    /\ sch' = "none"
    /\ UNCHANGED <<usedIds, prog, log, wk, fg, schedVars>>

(* sched_load_job_definition succeeds.                                       *)
Loadable(n) == Exists(n) /\ (n \in NamedJobs => prog = "enabled")

(* RUN_JOB loads the definition, takes a log_id, runs the action in the      *)
(* caller's transaction, then records by name.  Nothing of it is visible     *)
(* until the caller commits; an error of the action is rethrown, which       *)
(* aborts the caller and takes the records with it, as any other rollback.   *)
RunJobStart(n) ==
    /\ fg = NoFg /\ Loadable(n)
    /\ Cardinality(UnusedLogs) > Cardinality(scan)
    /\ \E l \in UnusedLogs : fg' = [log |-> l, job |-> jobs[n].id, name |-> n]
    /\ UNCHANGED <<tableVars, log, wk, schedVars>>

RunJobSucceeds ==
    /\ fg # NoFg
    /\ "manual_under_run" \in Hazards \/ jobs[fg.name].state # "RUNNING"
    /\ log' = [log EXCEPT ![fg.log] = [status |-> "s", job |-> fg.job,
                                       name |-> fg.name]]
    /\ jobs' = IF Exists(fg.name)
               THEN [jobs EXCEPT ![fg.name] = RecordedManual(@)] ELSE jobs
    /\ fg' = NoFg
    /\ UNCHANGED <<usedIds, prog, sch, wk, schedVars>>

RunJobRollsBack ==
    /\ fg # NoFg
    /\ fg' = NoFg
    /\ UNCHANGED <<tableVars, log, wk, schedVars>>

(* PURGE_LOG and the automatic purge delete rows of finished runs only.      *)
PurgeLog(rows) ==
    /\ rows # {} /\ \A l \in rows : log[l].status \in {"s", "f"}
    /\ log' = [l \in LogIds |-> IF l \in rows
                                THEN [log[l] EXCEPT !.status = "purged"]
                                ELSE log[l]]
    /\ UNCHANGED <<tableVars, wk, fg, schedVars>>

(* The clock reaches a job's next_run_date.                                  *)
ComesDue(n) ==
    /\ jobs[n].next = "future"
    /\ jobs' = [jobs EXCEPT ![n].next = "due"]
    /\ UNCHANGED <<usedIds, prog, sch, log, wk, fg, schedVars>>

(************************ The database scheduler ****************************)

(* The process is gone, and with it everything it kept in its own memory.    *)
SchedulerGone ==
    /\ pc' = "down" /\ cleaned' = FALSE
    /\ slots' = [s \in Slots |-> NoId]
    /\ due' = {} /\ pending' = {} /\ scan' = {} /\ failures' = 0

(* The launcher starts the process for this database.                        *)
SchedulerStart ==
    /\ pc = "down"
    /\ "restart_under_run" \in Hazards \/ \A l \in LogIds : ~Live(l)
    /\ pc' = "cycle"
    /\ UNCHANGED <<tableVars, log, wk, fg, cleaned, slots, due, pending, scan,
                   failures>>

(* SIGTERM, a non-transient error, or MaxCycleFailures transient ones in a   *)
(* row.  Job workers are processes of their own and go on.                   *)
SchedulerExit ==
    /\ pc # "down"
    /\ SchedulerGone
    /\ UNCHANGED <<tableVars, log, wk, fg>>

(* A crash takes every process of the server; the tables survive.            *)
ServerCrash ==
    /\ pc # "down" \/ \E l \in LogIds : Live(l)
    /\ SchedulerGone
    /\ wk' = [l \in LogIds |-> IF Live(l) THEN "stopped" ELSE wk[l]]
    /\ fg' = NoFg
    /\ UNCHANGED <<tableVars, log>>

(* scheduler_cleanup_orphans: first thing a new scheduler process does.      *)
CleanupOrphans ==
    /\ pc = "cycle" /\ ~cleaned
    /\ log' = [l \in LogIds |-> IF log[l].status = "r"
                                THEN [log[l] EXCEPT !.status = "f"] ELSE log[l]]
    /\ jobs' = [n \in Names |-> IF jobs[n].state = "RUNNING"
                                THEN Released(jobs[n]) ELSE jobs[n]]
    /\ cleaned' = TRUE
    /\ UNCHANGED <<usedIds, prog, sch, wk, fg, pc, slots, due, pending, scan,
                   failures>>

(* After reconciling: look for due jobs if a slot is free, else the cycle    *)
(* is over, without error.                                                   *)
GoScanOrSleep(free) ==
    IF free # {} THEN pc' = "scan" /\ UNCHANGED failures
                 ELSE pc' = "sleep" /\ failures' = 0

\* Fault: a worker not started yet reads as gone.
GoneSlotsPending ==
    {s \in Slots : slots[s] # NoId /\ wk[slots[s]] \in {"starting", "stopped"}}

\* Fault: no slot is ever handed back.
GoneSlotsNone == {}

(* The slots whose handle GetBackgroundWorkerPid reports as BGWH_STOPPED.    *)
GoneSlots == {s \in Slots : slots[s] # NoId /\ wk[slots[s]] = "stopped"}

(* scheduler_free_job_slots                                                  *)
FreeJobSlots ==
    /\ pc = "cycle" /\ cleaned
    /\ pending' = pending \cup {slots[s] : s \in GoneSlots}
    /\ slots' = [s \in Slots |-> IF s \in GoneSlots THEN NoId ELSE slots[s]]
    /\ IF pending' # {} THEN pc' = "reconcile" /\ UNCHANGED failures
       ELSE GoScanOrSleep({s \in Slots : slots'[s] = NoId})
    /\ UNCHANGED <<tableVars, log, wk, fg, cleaned, due, scan>>

\* Fault: the status test is missing.
StillOpenAll(runs) == {l \in runs : log[l].status # "purged"}

\* The "status = 'r'" test of scheduler_reconcile_stopped.
StillOpen(runs) == {l \in runs : log[l].status = "r"}

(* scheduler_reconcile_stopped: only rows still 'r' are closed, and only     *)
(* the jobs of those leave RUNNING.                                          *)
ReconcileStopped ==
    /\ pc = "reconcile"
    /\ LET open == StillOpen(pending)
       IN  /\ log' = [l \in LogIds |-> IF l \in open
                                       THEN [log[l] EXCEPT !.status = "f"]
                                       ELSE log[l]]
           /\ jobs' = [n \in Names |->
                 IF /\ jobs[n].state = "RUNNING"
                    /\ \E l \in open : log[l].job = jobs[n].id
                 THEN Released(jobs[n]) ELSE jobs[n]]
    /\ pending' = {}
    /\ GoScanOrSleep(FreeSlots)
    /\ UNCHANGED <<usedIds, prog, sch, wk, fg, cleaned, slots, due, scan>>

\* Fault: the due query does not leave out running jobs.
IsDueRunning(n) == jobs[n].enabled /\ jobs[n].next = "due"

(* The due query's WHERE clause.                                             *)
IsDue(n) == jobs[n].enabled /\ jobs[n].next = "due" /\ jobs[n].state # "RUNNING"

\* Fault: the due query has no LIMIT.
ScanLimitNone(free) == Cardinality(UnusedLogs)

(* How many rows the due query may return: its LIMIT, and the log ids left.  *)
ScanLimit(free) ==
    LET left == Cardinality(UnusedLogs)
    IN  IF left < Cardinality(free) THEN left ELSE Cardinality(free)

(* The due query of scheduler_claim_due_jobs, and the copy of its result.    *)
ScanDueJobs ==
    /\ pc = "scan"
    /\ \E found \in SUBSET {n \in Names : IsDue(n)} :
         /\ Cardinality(found) <= ScanLimit(FreeSlots)
         /\ Cardinality(found) < ScanLimit(FreeSlots) =>
              \A n \in Names : IsDue(n) => n \in found
         /\ scan' = {[id |-> jobs[n].id, name |-> n,
                      rep |-> IF n \in NamedJobs THEN sch = "repeat"
                                                 ELSE jobs[n].rep] : n \in found}
    /\ pc' = "claim"
    /\ UNCHANGED <<tableVars, log, wk, fg, cleaned, slots, due, pending,
                   failures>>

\* Fault: the claim does not test enabled again.
WinnersStale(rows) == {r \in rows : jobs[r.name].id = r.id}

(* Of the scanned rows, those whose "WHERE job_id = $1 AND enabled" matches. *)
Winners(rows) ==
    {r \in rows : jobs[r.name].id = r.id /\ jobs[r.name].enabled}

(* After the claims commit: dispatch, or end the cycle.                      *)
GoDispatch(claimed) ==
    /\ due' = claimed
    /\ IF claimed # {} THEN pc' = "dispatch" /\ UNCHANGED failures
                       ELSE pc' = "sleep" /\ failures' = 0

(* sys.scheduler_jobs after the claims.  broken are the scanned rows whose   *)
(* claim fails (owner role gone, calendar not evaluable): those jobs are     *)
(* disabled by name.  later are the rows the calendar has another date for.  *)
ClaimedJobs(broken, later) ==
    LET won == Winners(scan \ broken)
    IN  [n \in Names |->
           IF \E r \in broken : r.name = n
           THEN IF Exists(n) THEN Broken(jobs[n]) ELSE jobs[n]
           ELSE IF \E r \in won : r.name = n
           THEN Claimed(jobs[n], \E r \in won \cap later : r.name = n)
           ELSE jobs[n]]

(* sched_log_start for the claimed jobs; runs gives each its log_id.         *)
ClaimedLog(runs) ==
    [l \in LogIds |-> IF l \in DOMAIN runs
                      THEN [status |-> "r", job |-> runs[l].id,
                            name |-> runs[l].name]
                      ELSE log[l]]

(* One log_id of the sequence for each row, and no two rows the same one.    *)
LogIdsFor(won) ==
    {runs \in UNION {[ls -> won] : ls \in SUBSET UnusedLogs} :
        /\ \A r \in won : \E l \in DOMAIN runs : runs[l] = r
        /\ \A k, l \in DOMAIN runs : runs[k] = runs[l] => k = l}

(* The claims and the commit of scheduler_claim_due_jobs.                    *)
ClaimDueJobs ==
    /\ pc = "claim"
    /\ \E broken \in SUBSET scan, later \in SUBSET {r \in scan : r.rep} :
         \E runs \in LogIdsFor(Winners(scan \ broken)) :
           /\ jobs' = ClaimedJobs(broken, later)
           /\ log' = ClaimedLog(runs)
           /\ GoDispatch(DOMAIN runs)
    /\ scan' = {}
    /\ UNCHANGED <<usedIds, prog, sch, wk, fg, cleaned, slots, pending>>

(* scheduler_spawn_job_worker registers a worker and takes a slot for it.    *)
SpawnJobWorker(l) ==
    /\ pc = "dispatch" /\ l \in due
    /\ \E s \in FreeSlots : slots' = [slots EXCEPT ![s] = l]
    /\ wk' = [wk EXCEPT ![l] = "starting"]
    /\ GoDispatch(due \ {l})
    /\ UNCHANGED <<tableVars, log, fg, cleaned, pending, scan>>

(* No slot, or the server is out of background workers: close the run.       *)
SpawnFails(l) ==
    /\ pc = "dispatch" /\ l \in due
    /\ log' = [log EXCEPT ![l].status = "f"]
    /\ jobs' = [n \in Names |-> IF Exists(n) /\ jobs[n].id = log[l].job
                                THEN Released(jobs[n]) ELSE jobs[n]]
    /\ GoDispatch(due \ {l})
    /\ UNCHANGED <<usedIds, prog, sch, wk, fg, cleaned, slots, pending, scan>>

\* Fault: pending_reconcile is emptied although the transaction aborted.
TransientErrorForgets ==
    /\ \/ pc \in {"cycle", "reconcile", "scan", "claim"}
       \/ pc = "dispatch" /\ "closeout_error" \in Hazards
    /\ failures + 1 < MaxCycleFailures
    /\ failures' = failures + 1
    /\ pc' = "sleep" /\ scan' = {} /\ due' = {} /\ pending' = {}
    /\ UNCHANGED <<tableVars, log, wk, fg, cleaned, slots>>

(* A transient error inside the cycle's PG_TRY: the transaction under way is *)
(* aborted, the cycle abandoned, and the next one starts after a sleep.      *)
TransientError ==
    /\ \/ pc \in {"cycle", "reconcile", "scan", "claim"}
       \/ pc = "dispatch" /\ "closeout_error" \in Hazards
    /\ failures + 1 < MaxCycleFailures
    /\ failures' = failures + 1
    /\ pc' = "sleep" /\ scan' = {} /\ due' = {}
    /\ UNCHANGED <<tableVars, log, wk, fg, cleaned, slots, pending>>

(* WaitLatch returns: deadline, poll interval or a wake-up.                  *)
Wake ==
    /\ pc = "sleep"
    /\ pc' = "cycle"
    /\ UNCHANGED <<tableVars, log, wk, fg, cleaned, slots, due, pending, scan,
                   failures>>

(***************************** Job workers **********************************)

(* Transaction 1 of the job worker: load the definition by job_id.           *)
WorkerLoad(l) ==
    /\ wk[l] = "starting"
    /\ wk' = [wk EXCEPT ![l] =
                IF \E n \in Names : jobs[n].id = log[l].job /\ Loadable(n)
                THEN "running" ELSE "unloaded"]
    /\ UNCHANGED <<tableVars, log, fg, schedVars>>

(* Transaction 2 runs the job; an error, a timeout or STOP_JOB fails it.     *)
WorkerExecute(l, ok) ==
    /\ wk[l] = "running"
    /\ wk' = [wk EXCEPT ![l] = IF ok THEN "succeeded" ELSE "failed"]
    /\ UNCHANGED <<tableVars, log, fg, schedVars>>

(* sched_log_finish updates by log_id, if the row is still there.            *)
LogFinished(l, ok) ==
    IF log[l].status \in {"r", "s", "f"}
    THEN [log EXCEPT ![l].status = IF ok THEN "s" ELSE "f"] ELSE log

(* Transaction 3: worker_finish_log with the definition, then exit.          *)
WorkerFinish(l) ==
    /\ wk[l] \in {"succeeded", "failed"}
    /\ LET n == log[l].name
           ok == wk[l] = "succeeded"
       IN  /\ log' = LogFinished(l, ok)
           /\ jobs' = IF Exists(n) THEN [jobs EXCEPT ![n] = Recorded(@, ok)]
                                   ELSE jobs
    /\ wk' = [wk EXCEPT ![l] = "stopped"]
    /\ UNCHANGED <<usedIds, prog, sch, fg, schedVars>>

(* worker_finish_log without a definition: only the run log is updated.      *)
WorkerFinishUnloaded(l) ==
    /\ wk[l] = "unloaded"
    /\ log' = LogFinished(l, FALSE)
    /\ wk' = [wk EXCEPT ![l] = "stopped"]
    /\ UNCHANGED <<tableVars, fg, schedVars>>

(* The worker ends without recording: SIGTERM (STOP_JOB with force), FATAL   *)
(* at connection, or an error (a late cancel) in the recording transaction.  *)
WorkerDies(l) ==
    /\ Live(l)
    /\ wk' = [wk EXCEPT ![l] = "stopped"]
    /\ UNCHANGED <<tableVars, log, fg, schedVars>>

(****************************** Specification *******************************)

SessionNext ==
    \/ \E n \in Names, rep, enable \in BOOLEAN, next \in {"due", "future"} :
         CreateJob(n, rep, enable, next)
    \/ \E n \in Names, next \in {"due", "future"} : EnableJob(n, next)
    \/ \E n \in Names : DisableJob(n) \/ DropJob(n) \/ RunJobStart(n)
    \/ RunJobSucceeds \/ RunJobRollsBack
    \/ \E rows \in SUBSET LogIds : PurgeLog(rows)

(* Calls on the program and the schedule, when some job may refer to them.   *)
ObjectNext ==
    /\ NamedJobs # {}
    /\ \/ \E enable \in BOOLEAN : CreateProgram(enable)
       \/ EnableProgram \/ DisableProgram
       \/ \E force \in BOOLEAN : DropProgram(force) \/ DropSchedule(force)
       \/ \E kind \in {"once", "repeat"} : CreateSchedule(kind)

SchedulerNext ==
    \/ CleanupOrphans \/ FreeJobSlots \/ ReconcileStopped
    \/ ScanDueJobs \/ ClaimDueJobs
    \/ \E l \in LogIds : SpawnJobWorker(l) \/ SpawnFails(l)
    \/ TransientError \/ Wake

WorkerNext(l) ==
    \/ WorkerLoad(l) \/ \E ok \in BOOLEAN : WorkerExecute(l, ok)
    \/ WorkerFinish(l) \/ WorkerFinishUnloaded(l) \/ WorkerDies(l)

Next ==
    \/ SessionNext \/ ObjectNext \/ SchedulerNext
    \/ \E l \in LogIds : WorkerNext(l)
    \/ \E n \in Names : ComesDue(n)
    \/ SchedulerStart \/ SchedulerExit \/ ServerCrash

Spec == Init /\ [][Next]_vars

(* What the code's scheduling guarantees.  The scheduler process is always   *)
(* either runnable or asleep with a timeout, so each of its steps happens    *)
(* once it can; a worker that is started gets to run, and its job ends       *)
(* (scheduler_job_timeout bounds it).  Nothing is assumed of users, of the   *)
(* clock, of errors, or of whoever would restart a scheduler that exited.    *)
Fairness ==
    /\ WF_vars(CleanupOrphans) /\ WF_vars(FreeJobSlots)
    /\ WF_vars(ReconcileStopped) /\ WF_vars(ScanDueJobs)
    /\ WF_vars(ClaimDueJobs) /\ WF_vars(Wake)
    /\ WF_vars(\E l \in LogIds : SpawnJobWorker(l) \/ SpawnFails(l))
    /\ \A l \in LogIds :
         /\ WF_vars(WorkerLoad(l)) /\ WF_vars(WorkerFinish(l))
         /\ WF_vars(\E ok \in BOOLEAN : WorkerExecute(l, ok))
         /\ WF_vars(WorkerFinishUnloaded(l))

FairSpec == Spec /\ Fairness

(******************************* Properties *********************************)

(* Every variable stays within the values the tables' CHECK constraints and  *)
(* the scheduler's own structures allow.                                     *)
TypeOK ==
    /\ jobs \in [Names -> JobRow \cup {NoJob}] /\ usedIds \subseteq JobIds
    /\ prog \in {"none", "disabled", "enabled"}
    /\ sch \in {"none", "once", "repeat"}
    /\ log \in [LogIds -> LogRow] /\ wk \in [LogIds -> WorkerStates]
    /\ fg \in FgRun \cup {NoFg}
    /\ pc \in {"down", "cycle", "reconcile", "scan", "claim", "dispatch", "sleep"}
    /\ cleaned \in BOOLEAN /\ slots \in [Slots -> LogIds \cup {NoId}]
    /\ due \subseteq LogIds /\ pending \subseteq LogIds /\ scan \subseteq ScanRow
    /\ failures \in 0 .. MaxCycleFailures

(* "A job never runs twice at the same time": no two background runs of one  *)
(* job are in progress together, whatever is enabled, disabled, purged,      *)
(* crashed or interrupted between the due query and the end of a run.  The   *)
(* due query's state test and the writers of state have to cooperate.        *)
NoOverlap ==
    \A k, l \in LogIds :
        InProgress(k) /\ InProgress(l) /\ log[k].job = log[l].job => k = l

(* "Only the run itself clears it": while a background run of a job is in    *)
(* progress the job's row says RUNNING, so no writer of the state column     *)
(* (DISABLE, ENABLE, forced drops, RUN_JOB, reconcile, cleanup, another run) *)
(* takes the protection away under the run.                                  *)
RunHoldsState ==
    \A l \in LogIds, n \in Names :
        InProgress(l) /\ jobs[n].id = log[l].job => jobs[n].state = "RUNNING"

(* A scheduler that is up and has cleaned up knows of every run the log has  *)
(* as 'r': it is about to be spawned, in a slot, or waiting to be            *)
(* reconciled.  "Nothing else would come looking for them": a row outside    *)
(* these lists is never closed.                                              *)
OpenRunBooked ==
    \A l \in LogIds :
        pc # "down" /\ cleaned /\ log[l].status = "r" =>
            l \in due \cup SlotRuns \cup pending

(* The LIMIT of the due query, taken when slots were counted, still fits     *)
(* when the claimed jobs are spawned: no claimed run is without a slot.      *)
SlotForEveryClaim ==
    /\ pc = "claim" => Cardinality(scan) <= Cardinality(FreeSlots)
    /\ Cardinality(due) <= Cardinality(FreeSlots)

(* Job workers are "capped by ivorysql.scheduler_max_job_workers": as long as *)
(* a scheduler is up every live job worker occupies one of its slots, so     *)
(* that its own count of slots is a count of processes.                      *)
WorkersInSlots ==
    pc # "down" => \A l \in LogIds : Live(l) => l \in SlotRuns

(* "Runs in progress are never deleted": the run of a live worker is on the  *)
(* books as 'r', neither closed by anyone else nor deleted by a purge before *)
(* its worker records the outcome.                                           *)
LiveRunOpen == \A l \in LogIds : Live(l) => log[l].status = "r"

(* Reaching scheduler_max_failures consecutive failures takes the job out of *)
(* the schedule, and ENABLE starts the count over: an enabled job is always  *)
(* below the limit.                                                          *)
LimitDisables ==
    \A n \in Names : MaxFailures > 0 /\ jobs[n].enabled =>
        jobs[n].fails < MaxFailures

(* Ids come from sequences: no two jobs share one, a dropped job's id never  *)
(* comes back, and a log_id a RUN_JOB holds is given to no other run.        *)
IdsKnown ==
    /\ \A n \in Names : Exists(n) => jobs[n].id \in usedIds
    /\ \A m, n \in Names : Exists(m) /\ jobs[m].id = jobs[n].id => m = n
    /\ \A l \in LogIds :
         IF log[l].status = "none" THEN wk[l] = "none"
         ELSE log[l].job \in usedIds /\ log[l].name \in Names
    /\ fg # NoFg => fg.job \in usedIds /\ log[fg.log].status = "none"

(* What the scheduler's place in its cycle says: the rows of the due query   *)
(* are not RUNNING until they are claimed, runs wait to be spawned only in   *)
(* the dispatch phase and have no worker yet, runs wait to be reconciled     *)
(* only after their worker is gone, and cleanup finds no worker alive.       *)
CycleInv ==
    /\ pc # "claim" => scan = {}
    /\ \A q, r \in scan : q.name = r.name => q = r
    /\ \A r \in scan : jobs[r.name].state # "RUNNING"
    /\ pc # "dispatch" => due = {}
    /\ \A l \in due : wk[l] = "none"
    /\ \A l \in pending : wk[l] = "stopped"
    /\ ~cleaned => pc \in {"down", "cycle", "sleep"}
    /\ ~cleaned /\ pc # "down" => \A l \in LogIds : ~Live(l)

(* What log, workers and the scheduler's lists say of one another whatever   *)
(* the circumstances: a run waiting to be spawned is open and has no worker, *)
(* a live worker's run is not a recorded success, a log_id not used yet has  *)
(* no worker, and RUN_JOB holds one that is not used yet.                    *)
BooksInv ==
    /\ pc # "dispatch" => due = {}
    /\ pc = "down" => ~cleaned
    /\ \A l \in due : log[l].status = "r" /\ wk[l] = "none"
    /\ \A l \in LogIds : Live(l) => log[l].status \notin {"none", "s"}
    /\ fg # NoFg => log[fg.log].status = "none" /\ wk[fg.log] = "none"
    /\ \A l \in LogIds : log[l].status = "none" => wk[l] = "none"

(* What the log and the job table say of the runs: one in progress is 'r'    *)
(* under its job's name and id, a job has at most one 'r' row, and it is     *)
(* RUNNING while it has one.                                                 *)
RunsInv ==
    /\ \A l \in LogIds : InProgress(l) =>
         log[l].status = "r" /\ jobs[log[l].name].id = log[l].job
    /\ \A k, l \in LogIds :
         log[k].status = "r" /\ log[l].status = "r" /\ log[k].job = log[l].job
           => k = l
    /\ \A l \in LogIds, n \in Names :
         log[l].status = "r" /\ log[l].job = jobs[n].id =>
           jobs[n].state = "RUNNING"

(* Why a job never runs twice at the same time, in one inductive invariant.  *)
ExclusionInv == TypeOK /\ IdsKnown /\ CycleInv /\ RunsInv

(* Where a run is, for whoever looks at runs and not at how they are made.   *)
RunState ==
    [l \in LogIds |->
        IF InProgress(l) THEN "active"
        ELSE IF log[l].status = "none" THEN "unused"
        ELSE IF log[l].status = "r" THEN "open"
        ELSE log[l].status]

RunJob == [l \in LogIds |-> log[l].job]

Promise == INSTANCE JobRuns WITH
    Runs <- LogIds, Jobs <- JobIds, Nobody <- NoId,
    st <- RunState, job <- RunJob

(* The scheduler, its workers and the calls of sessions implement JobRuns:   *)
(* the background runs of one job never overlap, a run gets one outcome, a   *)
(* run that was interrupted is closed as failed and by nothing else, and     *)
(* only finished runs are purged.                                            *)
RunsAsPromised == Promise!Spec

(* The columns the due query tests agree in every row whichever of their     *)
(* many writers came last: enabled exactly when there is a next run date,    *)
(* SCHEDULED only while enabled, and enabled only as SCHEDULED or RUNNING.   *)
ScheduleCoherent ==
    \A n \in Names :
        /\ jobs[n].enabled <=> jobs[n].next # "null"
        /\ jobs[n].state = "SCHEDULED" => jobs[n].enabled
        /\ jobs[n].enabled => jobs[n].state \in {"SCHEDULED", "RUNNING"}

(* An outcome the log shows is final: once 's' or 'f', a row only ever       *)
(* disappears.  Reconcile's status test and the order "record, then exit"    *)
(* keep it off the runs that ended normally.                                 *)
OutcomeFinal ==
    [][\A l \in LogIds : log[l].status \in {"s", "f"} =>
          log'[l].status \in {log[l].status, "purged"}]_vars

(* A recorded success is never turned into a failure, not even across        *)
(* scheduler restarts.                                                       *)
SuccessFinal ==
    [][\A l \in LogIds : log[l].status = "s" =>
          log'[l].status \in {"s", "purged"}]_vars

(* A DISABLE that commits between the due query and the claim wins: a        *)
(* background run is only ever claimed for a job that is enabled, under the  *)
(* same job_id, at the moment the claim commits.                             *)
ClaimRespectsDisable ==
    [][\A l \in LogIds : log[l].status = "none" /\ log'[l].status = "r" =>
          \E n \in Names : jobs[n].id = log'[l].job /\ jobs[n].enabled]_vars

(* A job does not stay in RUNNING: its run is recorded by its worker or      *)
(* reconciled by the scheduler, unless the scheduler itself has stopped.     *)
RunningEnds ==
    \A n \in Names :
        jobs[n].state = "RUNNING" ~> jobs[n].state # "RUNNING" \/ pc = "down"

(* A due job does not wait forever: it is claimed, or taken out of the       *)
(* schedule, unless the scheduler stops or the model's log ids run out.      *)
DueServed ==
    \A n \in Names : IsDue(n) ~> ~IsDue(n) \/ pc = "down" \/ UnusedLogs = {}
=============================================================================
