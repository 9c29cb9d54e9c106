------------------------------ MODULE StopJob -------------------------------
(* STOP_JOB against the life of a job worker: the process a run publishes on *)
(* its log row, the signal STOP_JOB sends to what that row names, and who    *)
(* closes the row when the worker does not.  Pids are reused, by later runs  *)
(* and by processes that have nothing to do with jobs; a backend start time  *)
(* is not.  Source: ora_dbms_scheduler_stop_job in dbms_scheduler.c,         *)
(* SchedulerJobWorkerMain in scheduler_worker.c, scheduler_reconcile_stopped *)
(* and scheduler_cleanup_orphans in scheduler_launcher.c.                    *)
EXTENDS Naturals, FiniteSets

CONSTANTS
    Jobs,       \* job names
    MaxLogId,   \* bounds the runs: log_id values are 1 .. MaxLogId
    Pids,       \* process ids of the operating system
    MaxStart,   \* bounds the processes started: start times are 1 .. MaxStart
    MaxCrashes, \* bounds the crashes
    None        \* no process, no job, no run

LogIds == 1 .. MaxLogId

ASSUME StopAssumption ==
    /\ MaxLogId \in Nat /\ MaxStart \in Nat /\ MaxCrashes \in Nat
    /\ IsFiniteSet(Pids) /\ None \notin Pids \cup Jobs \cup Nat

VARIABLES
    running,   \* jobs whose state is RUNNING
    log,       \* sys.scheduler_job_run_details, by log_id
    worker,    \* where the job worker of a run is
    done,      \* history: runs whose job committed
    proc,      \* processes by pid: start time, the run it works for, signals
    clock,     \* start times given out
    up,        \* the database scheduler is there
    crashes,   \* crashes so far
    cut,       \* history: runs a crash cut off
    call,      \* a STOP_JOB call that has read a log row
    seen,      \* start times by pid, as the caller's transaction has read
               \* pg_stat_activity before the call; NotSeen when it has not
    stopped,   \* history: runs a STOP_JOB call signalled, as it meant to
    misled     \* history: start times of processes signalled for what the
               \* caller had seen before and is no longer so

caller == <<call, seen, stopped, misled>>
vars == <<running, log, worker, done, proc, clock, up, crashes, cut, caller>>

Signals == {"cancel", "term"}
Row == [status: {"none", "r", "s", "f"}, job: Jobs \cup {None},
        pid: Pids \cup {None}, start: 0 .. MaxStart]
Process == [start: 0 .. MaxStart, run: LogIds \cup {None}, signals: SUBSET Signals]

Places == {"none", "registered", "loading", "running", "committed", "failed",
           "exiting", "gone"}

NoRow == [status |-> "none", job |-> None, pid |-> None, start |-> 0]
NoProc == [start |-> 0, run |-> None, signals |-> {}]
NoCall == [run |-> None, pid |-> None, start |-> 0]
NotSeen == [p \in Pids |-> MaxStart + 1]

Init ==
    /\ running = {} /\ log = [l \in LogIds |-> NoRow]
    /\ worker = [l \in LogIds |-> "none"] /\ done = {}
    /\ proc = [p \in Pids |-> NoProc] /\ clock = 0
    /\ up = TRUE /\ crashes = 0 /\ cut = {}
    /\ call = NoCall /\ seen = NotSeen /\ stopped = {} /\ misled = {}

Alive(p) == proc[p].start # 0
PidOf(l) == CHOOSE p \in Pids : proc[p].run = l

(* The run's process is in one of these places.                              *)
At(l, places) == worker[l] \in places

(* A process starts under any pid not in use.                                *)
Forked(p, l) ==
    /\ ~Alive(p) /\ clock < MaxStart /\ clock' = clock + 1
    /\ proc' = [proc EXCEPT ![p] = [start |-> clock', run |-> l, signals |-> {}]]

Ended(l) == [proc EXCEPT ![PidOf(l)] = NoProc]

(* A backend that has nothing to do with jobs comes and goes.                *)
OtherStarts(p) ==
    /\ Forked(p, None)
    /\ UNCHANGED <<running, log, worker, done, up, crashes, cut, caller>>

OtherEnds(p) ==
    /\ Alive(p) /\ proc[p].run = None
    /\ proc' = [proc EXCEPT ![p] = NoProc]
    /\ UNCHANGED <<running, log, worker, done, clock, up, crashes, cut, caller>>

(* The scheduler claims a run and registers its worker.                      *)
Claim(j, l) ==
    /\ up /\ j \notin running /\ running' = running \cup {j}
    /\ log[l].status = "none" /\ \A k \in 1 .. l - 1 : log[k].status # "none"
    /\ log' = [log EXCEPT ![l] = [status |-> "r", job |-> j, pid |-> None, start |-> 0]]
    /\ worker' = [worker EXCEPT ![l] = "registered"]
    /\ UNCHANGED <<done, proc, clock, up, crashes, cut, caller>>

(****************************** The job worker ******************************)

WorkerStarts(l, p) ==
    /\ At(l, {"registered"}) /\ Forked(p, l)
    /\ worker' = [worker EXCEPT ![l] = "loading"]
    /\ UNCHANGED <<running, log, done, up, crashes, cut, caller>>

(* sched_log_set_worker_pid                                                  *)
Published(row, p) == [row EXCEPT !.pid = p, !.start = proc[p].start]

(* Transaction 1: publish the process, load the definition.                  *)
Load(l) ==
    /\ At(l, {"loading"})
    /\ log' = [log EXCEPT ![l] = Published(@, PidOf(l))]
    /\ worker' = [worker EXCEPT ![l] = "running"]
    /\ UNCHANGED <<running, done, proc, clock, up, crashes, cut, caller>>

(* It fails and is undone; the run is closed, the job row is left alone.     *)
LoadFails(l) ==
    /\ At(l, {"loading"})
    /\ log' = [log EXCEPT ![l].status = "f"]
    /\ worker' = [worker EXCEPT ![l] = "exiting"]
    /\ UNCHANGED <<running, done, proc, clock, up, crashes, cut, caller>>

(* Transaction 2: the job.  A signal that comes as it commits is not seen.   *)
JobCommits(l) ==
    /\ At(l, {"running"})
    /\ worker' = [worker EXCEPT ![l] = "committed"] /\ done' = done \cup {l}
    /\ UNCHANGED <<running, log, proc, clock, up, crashes, cut, caller>>

(* The job raises an error, a cancel among them; the handler catches it.     *)
JobFails(l) ==
    /\ At(l, {"running"})
    /\ worker' = [worker EXCEPT ![l] = "failed"]
    /\ \/ UNCHANGED proc
       \/ proc' = [proc EXCEPT ![PidOf(l)].signals = @ \ {"cancel"}]
    /\ UNCHANGED <<running, log, done, clock, up, crashes, cut, caller>>

\* Fault: the run is recorded as failed unless nothing was raised before.
OutcomeSwapped(l) == IF At(l, {"committed"}) THEN "f" ELSE "s"

Outcome(l) == IF At(l, {"committed"}) THEN "s" ELSE "f"

(* Transaction 3: record the outcome, by log_id whatever the row says.       *)
Record(l) ==
    /\ At(l, {"committed", "failed"})
    /\ log' = [log EXCEPT ![l].status = Outcome(l)]
    /\ running' = running \ {log[l].job}
    /\ worker' = [worker EXCEPT ![l] = "exiting"]
    /\ UNCHANGED <<done, proc, clock, up, crashes, cut, caller>>

(* A termination in transactions 1 to 3, or a cancel in the third, which has *)
(* no handler: the process ends without a record.                            *)
Interrupted(l) ==
    /\ \/ At(l, {"loading", "running", "committed", "failed"})
          /\ "term" \in proc[PidOf(l)].signals
       \/ At(l, {"committed", "failed"}) /\ "cancel" \in proc[PidOf(l)].signals
    /\ worker' = [worker EXCEPT ![l] = "gone"] /\ proc' = Ended(l)
    /\ UNCHANGED <<running, log, done, clock, up, crashes, cut, caller>>

WorkerExits(l) ==
    /\ At(l, {"exiting"})
    /\ worker' = [worker EXCEPT ![l] = "gone"] /\ proc' = Ended(l)
    /\ UNCHANGED <<running, log, done, clock, up, crashes, cut, caller>>

(*************************** Closing what is left ***************************)

\* Fault: such runs are left to the next scheduler start.
AbandonedNever(l) == FALSE

(* scheduler_reconcile_stopped looks at workers that are gone.               *)
Abandoned(l) == At(l, {"gone"}) /\ log[l].status = "r"

Reconcile(l) ==
    /\ up /\ Abandoned(l)
    /\ log' = [log EXCEPT ![l].status = "f"]
    /\ running' = running \ {log[l].job}
    /\ UNCHANGED <<worker, done, proc, clock, up, crashes, cut, caller>>

(* A crash ends every process, registered workers and the caller included.   *)
Crash ==
    /\ up /\ crashes < MaxCrashes /\ crashes' = crashes + 1 /\ up' = FALSE
    /\ cut' = cut \cup {l \in LogIds : log[l].status = "r"}
    /\ worker' = [l \in LogIds |-> IF At(l, {"none"}) THEN "none" ELSE "gone"]
    /\ proc' = [p \in Pids |-> NoProc] /\ call' = NoCall /\ seen' = NotSeen
    /\ UNCHANGED <<running, log, done, clock, stopped, misled>>

(* The next scheduler: scheduler_cleanup_orphans.                            *)
SchedulerStarts ==
    /\ ~up /\ up' = TRUE
    /\ log' = [l \in LogIds |-> IF log[l].status = "r"
                                THEN [log[l] EXCEPT !.status = "f"] ELSE log[l]]
    /\ running' = {}
    /\ UNCHANGED <<worker, done, proc, clock, crashes, cut, caller>>

(********************************* STOP_JOB *********************************)

(* The newest open row of the job; none, or one with no process published,   *)
(* is an error to the caller, and nothing changes.                           *)
OpenRow(j) ==
    {l \in LogIds : /\ log[l].job = j /\ log[l].status = "r"
                    /\ \A k \in LogIds : log[k].job = j /\ log[k].status = "r" => k <= l}

Recorded(l) == log[l].pid # None

Started == [p \in Pids |-> proc[p].start]

(* The caller's transaction reads pg_stat_activity; what it read stays for   *)
(* the rest of the transaction.                                              *)
CallerLooks ==
    /\ call = NoCall /\ seen = NotSeen /\ seen' = Started
    /\ UNCHANGED <<running, log, worker, done, proc, clock, up, crashes, cut,
                   call, stopped, misled>>

CallerCommits ==
    /\ call = NoCall /\ seen # NotSeen /\ seen' = NotSeen
    /\ UNCHANGED <<running, log, worker, done, proc, clock, up, crashes, cut,
                   call, stopped, misled>>

StopReads(j) ==
    /\ call = NoCall
    /\ \E l \in OpenRow(j) :
         /\ Recorded(l)
         /\ call' = [run |-> l, pid |-> log[l].pid, start |-> log[l].start]
    /\ UNCHANGED <<running, log, worker, done, proc, clock, up, crashes, cut,
                   seen, stopped, misled>>

\* Fault: the process is looked for by its pid alone.
MatchesPid(p, started) == p = call.pid /\ started[p] # 0

(* The process in pg_stat_activity with the pid and the start time.          *)
Matches(p, started) == p = call.pid /\ started[p] = call.start

Listed == IF seen = NotSeen THEN Started ELSE seen

(* Cancel it, or with force terminate it: pg_signal_backend goes by the pid. *)
(* The call and with it the list end, or the transaction goes on.            *)
StopSignals(signal) ==
    /\ call # NoCall
    /\ \E p \in Pids :
         /\ Matches(p, Listed) /\ Alive(p)
         /\ proc' = [proc EXCEPT ![p].signals = @ \cup {signal}]
         /\ IF Started[p] = Listed[p]
            THEN stopped' = stopped \cup {call.run} /\ UNCHANGED misled
            ELSE misled' = misled \cup {Started[p]} /\ UNCHANGED stopped
    /\ call' = NoCall /\ seen' \in {NotSeen, Listed}
    /\ UNCHANGED <<running, log, worker, done, clock, up, crashes, cut>>

(* No such process: the job "is not running", or when the process was listed *)
(* and is gone, it could not be signalled.                                   *)
StopFindsNone ==
    /\ call # NoCall /\ \A p \in Pids : ~(Matches(p, Listed) /\ Alive(p))
    /\ call' = NoCall /\ seen' \in {NotSeen, Listed}
    /\ UNCHANGED <<running, log, worker, done, proc, clock, up, crashes, cut,
                   stopped, misled>>

WorkerStep(l) ==
    \/ \E p \in Pids : WorkerStarts(l, p)
    \/ Load(l) \/ LoadFails(l) \/ JobCommits(l) \/ JobFails(l) \/ Record(l)
    \/ Interrupted(l) \/ WorkerExits(l)

Next ==
    \/ \E p \in Pids : OtherStarts(p) \/ OtherEnds(p)
    \/ \E j \in Jobs : StopReads(j) \/ \E l \in LogIds : Claim(j, l)
    \/ \E l \in LogIds : WorkerStep(l) \/ Reconcile(l)
    \/ \E signal \in Signals : StopSignals(signal)
    \/ CallerLooks \/ CallerCommits \/ StopFindsNone \/ Crash \/ SchedulerStarts

Spec == Init /\ [][Next]_vars

(* A process that was signalled comes to look at it; nothing says that a job *)
(* ends by itself.                                                           *)
Reacts(l) ==
    /\ l \in stopped
    /\ JobCommits(l) \/ JobFails(l) \/ Record(l) \/ Interrupted(l)

Fairness ==
    /\ \A l \in LogIds :
         WF_vars(Reacts(l)) /\ WF_vars(WorkerExits(l)) /\ WF_vars(Reconcile(l))
    /\ WF_vars(SchedulerStarts)

FairSpec == Spec /\ Fairness

(******************************** Properties ********************************)

(* Every variable has its type.                                              *)
TypeOK ==
    /\ running \subseteq Jobs /\ done \subseteq LogIds /\ cut \subseteq LogIds
    /\ stopped \subseteq LogIds /\ up \in BOOLEAN
    /\ log \in [LogIds -> Row] /\ proc \in [Pids -> Process]
    /\ worker \in [LogIds -> Places]
    /\ clock \in 0 .. MaxStart /\ crashes \in 0 .. MaxCrashes
    /\ seen = NotSeen \/ seen \in [Pids -> 0 .. MaxStart]
    /\ misled \subseteq 1 .. MaxStart
    /\ call = NoCall \/ call \in [run: LogIds, pid: Pids, start: 1 .. MaxStart]

(* "a stale row reports 'not running' instead of cancelling somebody else's  *)
(* session": a process STOP_JOB signals works for the very run the call read *)
(* from the log, whatever happened to pids in between; only a caller whose   *)
(* transaction had read the process list before can hit another one.         *)
StopHitsRun ==
    \A p \in Pids : proc[p].signals # {} =>
        proc[p].run \in stopped \/ proc[p].start \in misled

(* STOP_JOB, misled or not, or a crash came between the commit and the log.  *)
Excused(l) == l \in stopped \cup cut \/ log[l].start \in misled

(* What the log says of a run is what became of its job: success only of one *)
(* that committed, failure of one that did not.  Only a STOP_JOB that comes  *)
(* after the job's commit, a misled one, or a crash can have a committed run *)
(* recorded as failed.                                                       *)
OutcomeTrue ==
    \A l \in LogIds :
        /\ log[l].status = "s" => l \in done
        /\ log[l].status = "f" /\ l \in done => Excused(l)

(* Start times tell processes apart, and a run has one process.              *)
ProcessesDiffer ==
    /\ \A p \in Pids : proc[p].start <= clock
    /\ \A p \in Pids : proc[p].run # None => proc[p].start # 0
    /\ \A p, q \in Pids : proc[p].start = proc[q].start /\ proc[p].start # 0 => p = q
    /\ \A p, q \in Pids : proc[p].run = proc[q].run /\ proc[p].run # None => p = q

(* A start time given to a run is that of no process but the run's.          *)
Names(start, l) ==
    /\ start # 0 /\ start <= clock
    /\ \A p \in Pids : proc[p].start = start => proc[p].run = l

(* So is the one a STOP_JOB call has read.                                   *)
CallNamesRun == call # NoCall => Names(call.start, call.run)

(* Where a run's worker is, its process and its row agree.                   *)
PlacesAgree ==
    \A l \in LogIds :
        /\ At(l, {"none", "registered"}) => \A p \in Pids : proc[p].run # l
        /\ At(l, {"loading", "running", "committed", "failed", "exiting"}) =>
               \E p \in Pids : proc[p].run = l
        /\ At(l, {"running", "committed", "failed"}) =>
               \A p \in Pids : proc[p].run = l => proc[p].start = log[l].start
        /\ At(l, {"registered", "loading", "running", "committed", "failed"}) =>
               log[l].status = "r"
        /\ At(l, {"exiting"}) => log[l].status # "r"
        /\ log[l].status = "none" => At(l, {"none"})
        /\ log[l].pid # None => Names(log[l].start, l)

(* What is known of a run before its outcome is on the log.                  *)
OutcomePending ==
    \A l \in LogIds :
        /\ At(l, {"committed"}) => l \in done
        /\ At(l, {"none", "registered", "loading", "running", "failed"}) => l \notin done
        /\ At(l, {"gone"}) /\ log[l].status = "r" /\ l \in done => Excused(l)
        /\ ~up => At(l, {"none", "gone"}) /\ (log[l].status = "r" => l \in cut)

(* The inductive invariant behind StopHitsRun and OutcomeTrue: what a log    *)
(* row or a call has read names one process for good, as a start time is     *)
(* never given twice.                                                        *)
StopInv ==
    /\ ProcessesDiffer /\ PlacesAgree /\ OutcomePending
    /\ CallNamesRun /\ StopHitsRun /\ OutcomeTrue

(* A run that STOP_JOB signalled is closed: by its worker's error handler,   *)
(* or, when the worker ends without a record, by the scheduler.              *)
StopEnds == \A l \in LogIds : l \in stopped ~> log[l].status # "r"
=============================================================================
