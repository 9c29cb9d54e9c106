--------------------------- MODULE SchedulerSleep ---------------------------
(* How a database scheduler sleeps and is woken: the deadline each cycle     *)
(* works out from the job table and the purge schedule, the latch that       *)
(* ENABLE sets after its commit and the end of a job worker sets, and the    *)
(* purging of expired run history.  Source: the loop of                      *)
(* SchedulerDatabaseWorkerMain with what it calls in scheduler_launcher.c,   *)
(* the wake-up of sched_enable_job in dbms_scheduler.c, and latch.c.         *)
(*                                                                           *)
(* A date is the number of ticks until it, 0 once it has been reached, so    *)
(* that time never runs out.  The order of the dates that have been reached  *)
(* is kept apart, in queue.                                                  *)
EXTENDS Integers, Sequences, FiniteSets, SequencesExt

CONSTANTS
    Jobs,              \* jobs users may create
    Slots,             \* indexes of job_slots
    Instances,         \* which jobs there are, whether history is purged, and
                       \* which of AllHazards the environment lets happen
    Gaps,              \* ticks to the next date of a calendar
    TicksPerMs,        \* clock resolution: timestamps are finer than timeouts
    MinSleep,          \* SCHED_MIN_SLEEP_MS
    PollInterval,      \* scheduler_poll_interval, in ms
    MaxCycleFailures,  \* SCHED_MAX_CYCLE_FAILURES
    PurgeLimit,        \* SCHED_PURGE_BATCH * SCHED_PURGE_MAX_BATCHES
    MaxExpired,        \* bounds the expired history
    None,              \* no date, no job, no process
    Open               \* the row version an open transaction has written

AllHazards ==
    { "start_under_enable",  \* a scheduler starts between ENABLE's look-up
                             \* and its commit
      "two_phase",           \* ENABLE's transaction is prepared, committed later
      "latch_consumed",      \* a wait for a lock or a standby, after the
                             \* deadline was read, takes the latch
      "cycle_error",         \* a cycle ends in an error
      "spawn_fails" }        \* no background worker slot for a claimed run

ASSUME SleepAssumption ==
    /\ IsFiniteSet(Jobs) /\ IsFiniteSet(Slots) /\ Slots # {}
    /\ Instances \subseteq [jobs: SUBSET Jobs, purging: BOOLEAN,
                         hazards: SUBSET AllHazards]
    /\ Gaps \subseteq Nat \ {0}
    /\ TicksPerMs \in Nat \ {0} /\ MinSleep \in Nat \ {0}
    /\ PollInterval \in Nat /\ PollInterval >= MinSleep
    /\ MaxCycleFailures \in Nat \ {0} /\ PurgeLimit \in Nat \ {0}
    /\ MaxExpired \in Nat /\ None \notin Nat \cup Jobs /\ Open \notin Jobs

VARIABLES
    given,     \* the instance; never changes
    jobs,      \* committed job rows: enabled, running, next_run_date
    queue,     \* row versions whose date is reached, oldest date first
    session,   \* the session's transaction; finds: sched_wakeup_pid is the
               \* pid of the scheduler that is there
    pc,        \* where the loop is
    latch,     \* its latch is set
    wake,      \* ticks until WaitLatch times out
    nextDue,   \* *next_due of this cycle
    claimed,   \* runs claimed and not yet handed to a worker
    slots,     \* job_slots, with what became of the worker
    failures,  \* cycle_failures
    file,      \* scheduler_purge_schedule in the configuration file
    setting,   \* the process's own value of it
    reload,    \* ConfigReloadPending
    purgeNext, \* purge_next, None standing for 0
    draining,  \* purge_draining
    expired,   \* finished rows of the run log older than scheduler_log_history
    excused    \* history: a hazard touched the cycle or sleep under way

jobVars == <<jobs, queue>>
purgeVars == <<file, setting, reload, purgeNext, draining, expired>>
loopVars == <<nextDue, claimed, slots, failures>>
vars == <<given, jobVars, session, pc, latch, wake, loopVars, purgeVars, excused>>

Settings == {"on", "off"}
Dates == Nat \cup {None}
JobRow == [enabled: BOOLEAN, running: BOOLEAN, next: Dates]
Idle == [pc |-> "idle", job |-> None, next |-> None, finds |-> FALSE]
Empty == [job |-> None, worker |-> "none"]
Locations == {"down", "top", "purge", "slots", "claim", "deadline", "spawn", "wait"}

Init ==
    /\ given \in Instances
    /\ jobs = [j \in given.jobs |-> [enabled |-> FALSE, running |-> FALSE, next |-> None]]
    /\ queue = <<>> /\ session = Idle
    /\ pc = "down" /\ latch = FALSE /\ wake = 0
    /\ nextDue = None /\ claimed = <<>> /\ slots = [s \in Slots |-> Empty]
    /\ failures = 0
    /\ excused = FALSE
    /\ file \in (IF given.purging THEN Settings ELSE {"off"}) /\ setting = file /\ reload = FALSE
    /\ purgeNext = None /\ draining = FALSE /\ expired = 0

(* A job the scheduler is to start when its date comes.                      *)
Waiting(j) == jobs[j].enabled /\ ~jobs[j].running /\ jobs[j].next # None

(* Where a row version with this date goes among the dates reached.          *)
Reached(q, v, date) == IF date = 0 THEN Append(q, v) ELSE q

(* Those of q that are in keep, in their order.                              *)
Among(q, keep) ==
    LET kept == {i \in DOMAIN q : q[i] \in keep}
    IN  [n \in 1 .. Cardinality(kept) |->
           q[CHOOSE i \in kept : Cardinality({k \in kept : k <= i}) = n]]

Without(q, v) == Among(q, ToSet(q) \ {v})

(* The session's transaction holds the lock of the job's row, past its       *)
(* commit callback.                                                          *)
Locked(j) == session.job = j

(********************************* Sessions *********************************)

(* ENABLE in a transaction: the row gets its first run date and the pid of   *)
(* the scheduler is looked up; nothing is visible yet.                       *)
Enable(j) ==
    /\ session = Idle
    /\ \E next \in {0} \cup Gaps :
         /\ session' = [pc |-> "open", job |-> j, next |-> next, finds |-> pc # "down"]
         /\ queue' = Reached(queue, Open, next)
    /\ UNCHANGED <<given, excused, jobs, pc, latch, wake, loopVars, purgeVars>>

(* The commit makes the row visible; a running job stays RUNNING.  When the  *)
(* transaction was prepared, the commit calls no callback of the session.    *)
Commit ==
    LET j == session.job
        others == Without(queue, j)
    IN  /\ session.pc = "open"
        /\ jobs' = [jobs EXCEPT ![j].enabled = TRUE, ![j].next = session.next]
        /\ queue' = [i \in DOMAIN others |-> IF others[i] = Open THEN j ELSE others[i]]
        /\ \/ /\ session' = [session EXCEPT !.pc = "committed"]
              /\ excused' = (excused \/ (pc # "down" /\ ~session.finds))
           \/ "two_phase" \in given.hazards /\ session' = Idle /\ excused' = (pc # "down")
        /\ UNCHANGED <<given, pc, latch, wake, loopVars, purgeVars>>

Rollback ==
    /\ session.pc = "open"
    /\ session' = Idle /\ queue' = Without(queue, Open)
    /\ UNCHANGED <<given, excused, jobs, pc, latch, wake, loopVars, purgeVars>>

(* sched_wakeup_at_commit: set the latch of the process looked up, if it is  *)
(* still there.                                                              *)
WakeupAtCommit ==
    /\ session.pc = "committed"
    /\ session' = Idle
    /\ latch' = (latch \/ session.finds)
    /\ UNCHANGED <<given, excused, jobVars, pc, wake, loopVars, purgeVars>>

DisableJob(j) ==
    /\ session = Idle
    /\ jobs' = [jobs EXCEPT ![j].enabled = FALSE, ![j].next = None]
    /\ queue' = Without(queue, j)
    /\ UNCHANGED <<given, excused, session, pc, latch, wake, loopVars, purgeVars>>

(* Anything else that sets the latch of a process.                           *)
SpuriousLatch ==
    /\ pc = "wait" /\ ~latch /\ latch' = TRUE
    /\ UNCHANGED <<given, excused, jobVars, session, pc, wake, loopVars, purgeVars>>

(* The administrator edits the purge schedule and reloads; the handler of    *)
(* SIGHUP sets the latch.                                                    *)
Reload(value) ==
    /\ given.purging /\ file' = value
    /\ IF pc = "down" THEN setting' = value /\ UNCHANGED <<reload, latch>>
       ELSE reload' = TRUE /\ latch' = TRUE /\ UNCHANGED setting
    /\ UNCHANGED <<given, excused, jobVars, session, pc, wake, loopVars, purgeNext, draining, expired>>

(********************************* The clock ********************************)

Later(date) == IF date = None \/ date = 0 THEN date ELSE date - 1

(* A tick; the timeout of WaitLatch is not slept past.  Row versions that    *)
(* reach their date together come in any order.                              *)
Tick ==
    /\ pc = "wait" => wake > 0
    /\ jobs' = [j \in DOMAIN jobs |-> [jobs[j] EXCEPT !.next = Later(@)]]
    /\ session' = [session EXCEPT !.next = Later(@)]
    /\ \E order \in SetToSeqs({j \in DOMAIN jobs : jobs[j].next = 1}
                              \cup {v \in {Open} : session.pc = "open" /\ session.next = 1}) :
         queue' = queue \o order
    /\ wake' = IF wake = 0 THEN 0 ELSE wake - 1
    /\ nextDue' = Later(nextDue) /\ purgeNext' = Later(purgeNext)
    /\ UNCHANGED <<given, excused, pc, latch, claimed, slots, failures, file, setting, reload,
                   draining, expired>>

(* A finished run outlives the retention.                                    *)
Expire ==
    /\ given.purging /\ expired < MaxExpired /\ expired' = expired + 1
    /\ UNCHANGED <<given, excused, jobVars, session, pc, latch, wake, loopVars, file, setting,
                   reload, purgeNext, draining>>

(******************************** Job workers *******************************)

(* A worker records its outcome; then it exits, the postmaster reaps it and  *)
(* signals bgw_notify_pid, which sets the scheduler's latch.                 *)
WorkerRecords(s) ==
    /\ slots[s].worker = "running" /\ ~Locked(slots[s].job)
    /\ slots' = [slots EXCEPT ![s].worker = "recorded"]
    /\ jobs' = [jobs EXCEPT ![slots[s].job].running = FALSE]
    /\ UNCHANGED <<given, excused, queue, session, pc, latch, wake, nextDue, claimed, failures, purgeVars>>

\* Fault: the worker is registered without bgw_notify_pid.
WorkerExitsUnnoticed(s) ==
    /\ slots[s].worker \in {"running", "recorded"}
    /\ slots' = [slots EXCEPT ![s].worker = IF @ = "recorded" THEN "gone" ELSE "lost"]
    /\ UNCHANGED <<given, excused, jobVars, session, pc, latch, wake, nextDue, claimed, failures, purgeVars>>

WorkerExits(s) ==
    /\ slots[s].worker \in {"running", "recorded"}
    /\ slots' = [slots EXCEPT ![s].worker = IF @ = "recorded" THEN "gone" ELSE "lost"]
    /\ latch' = (pc # "down")
    /\ UNCHANGED <<given, excused, jobVars, session, pc, wake, nextDue, claimed, failures, purgeVars>>

(****************************** The scheduler *******************************)

(* The launcher starts the process, once the job workers of an earlier one   *)
(* are gone; what those left RUNNING it puts back.                           *)
Start ==
    /\ pc = "down" /\ \A s \in Slots : slots[s].worker \notin {"running", "recorded"}
    /\ session = Idle \/ "start_under_enable" \in given.hazards
    /\ pc' = "top" /\ latch' \in BOOLEAN /\ failures' = 0
    /\ jobs' = [j \in DOMAIN jobs |-> [jobs[j] EXCEPT !.running = FALSE]]
    /\ slots' = [s \in Slots |-> Empty] /\ claimed' = <<>>
    /\ setting' = file /\ reload' = FALSE /\ purgeNext' = None /\ draining' = FALSE
    /\ UNCHANGED <<given, excused, queue, session, wake, nextDue, file, expired>>

(* SIGTERM, or an error that is not forgiven.                                *)
Exits ==
    /\ pc' = "down" /\ latch' = FALSE /\ wake' = 0
    /\ session' = [session EXCEPT !.finds = FALSE]

Terminated ==
    /\ pc = "wait" /\ Exits
    /\ UNCHANGED <<given, excused, jobVars, loopVars, purgeVars>>

\* Fault: a reload leaves the purge deadline as it was.
PurgeDeadlineKept == purgeNext

\* Fault: every cycle works the deadline out anew.
PurgeDeadlineNew == None

(* The purge deadline a cycle starts from: a reload makes it unknown.        *)
PurgeDeadline == IF reload THEN None ELSE purgeNext

(* sched_next_purge_time: None when purging is off.                          *)
NextPurge(value) == IF value = "off" THEN {None} ELSE Gaps

(* The top of the loop: take in a reload, work out the purge deadline if it  *)
(* is not known, and see whether it is time to purge.                        *)
Top ==
    LET value == IF reload THEN file ELSE setting
    IN  /\ pc = "top"
        /\ setting' = value /\ reload' = FALSE
        /\ purgeNext' \in IF PurgeDeadline = None THEN NextPurge(value)
                                                  ELSE {PurgeDeadline}
        /\ pc' = IF purgeNext' # None /\ (draining \/ purgeNext' = 0)
                 THEN "purge" ELSE "slots"
        /\ UNCHANGED <<given, excused, jobVars, session, latch, wake, loopVars, file, draining, expired>>

(* scheduler_purge_expired: at most PurgeLimit rows a cycle.  A purge that   *)
(* reached the limit keeps its deadline and goes on in the next cycle; an    *)
(* error after some of the batches leaves the rest to the next deadline.     *)
Purge ==
    /\ pc = "purge" /\ pc' = "slots"
    /\ \/ /\ expired >= PurgeLimit /\ expired' = expired - PurgeLimit
          /\ draining' = TRUE /\ UNCHANGED purgeNext
       \/ /\ expired < PurgeLimit /\ expired' = 0
          /\ draining' = FALSE /\ purgeNext' \in NextPurge(setting)
       \/ /\ expired' \in 0 .. expired /\ expired - expired' < PurgeLimit
          /\ draining' = FALSE /\ purgeNext' \in NextPurge(setting)
    /\ UNCHANGED <<given, excused, jobVars, session, latch, wake, loopVars, file, setting, reload>>

Free == {s \in Slots : slots[s].worker \notin {"running", "recorded"}}

(* scheduler_free_job_slots and scheduler_reconcile_stopped: slots whose     *)
(* worker is gone are free again, and a job whose worker recorded nothing is *)
(* moved out of RUNNING.                                                     *)
FreeJobSlots ==
    LET lost == {slots[s].job : s \in {t \in Slots : slots[t].worker = "lost"}}
    IN  /\ pc = "slots" /\ \A j \in lost : ~Locked(j)
        /\ slots' = [s \in Slots |-> IF s \in Free THEN Empty ELSE slots[s]]
        /\ jobs' = [j \in DOMAIN jobs |-> IF j \in lost THEN [jobs[j] EXCEPT !.running = FALSE]
                                   ELSE jobs[j]]
        /\ pc' = IF Free # {} THEN "claim" ELSE "spawn"
        /\ UNCHANGED <<given, excused, queue, session, latch, wake, nextDue, claimed, failures, purgeVars>>

\* Fault: the due query has no order, the latest dates come first.
DueRowsNewest ==
    LET due == Reverse(Among(queue, {j \in DOMAIN jobs : Waiting(j)}))
    IN  SubSeq(due, 1, IF Len(due) < Cardinality(Free) THEN Len(due)
                                                       ELSE Cardinality(Free))

(* The rows of the due query: the oldest dates, as many as there are slots.  *)
DueRows ==
    LET due == Among(queue, {j \in DOMAIN jobs : Waiting(j)})
    IN  SubSeq(due, 1, IF Len(due) < Cardinality(Free) THEN Len(due)
                                                       ELSE Cardinality(Free))

(* The claims: each job is RUNNING and has its following date, or none left. *)
Claim ==
    LET due == DueRows
        rows == ToSet(due)
    IN  /\ pc = "claim" /\ pc' = "deadline" /\ \A j \in rows : ~Locked(j)
        /\ \E next \in [rows -> Gaps \cup {None}] :
             jobs' = [j \in DOMAIN jobs |-> IF j \in rows
                                     THEN [enabled |-> next[j] # None, running |-> TRUE,
                                           next |-> next[j]]
                                     ELSE jobs[j]]
        /\ queue' = Among(queue, ToSet(queue) \ rows)
        /\ claimed' = due
        /\ UNCHANGED <<given, excused, session, latch, wake, nextDue, slots, failures, purgeVars>>

WaitingDates == {jobs[j].next : j \in {k \in DOMAIN jobs : Waiting(k)}}

(* The end of scheduler_claim_due_jobs: the earliest date of a job that is   *)
(* not RUNNING.                                                              *)
ReadDeadline ==
    /\ pc = "deadline" /\ pc' = "spawn"
    /\ nextDue' = IF WaitingDates = {} THEN None
                  ELSE CHOOSE d \in WaitingDates : \A e \in WaitingDates : d <= e
    /\ UNCHANGED <<given, excused, jobVars, session, latch, wake, claimed, slots, failures, purgeVars>>

(* scheduler_spawn_job_worker succeeds.                                      *)
Spawn ==
    /\ pc = "spawn" /\ claimed # <<>> /\ claimed' = Tail(claimed)
    /\ \E s \in Slots :
         /\ slots[s] = Empty
         /\ slots' = [slots EXCEPT ![s] = [job |-> Head(claimed), worker |-> "running"]]
    /\ UNCHANGED <<given, excused, jobVars, session, pc, latch, wake, nextDue, failures, purgeVars>>

(* It does not: the run is closed and the job put back.                      *)
SpawnFails ==
    /\ "spawn_fails" \in given.hazards
    /\ pc = "spawn" /\ claimed # <<>> /\ claimed' = Tail(claimed)
    /\ ~Locked(Head(claimed))
    /\ jobs' = [jobs EXCEPT ![Head(claimed)].running = FALSE]
    /\ excused' = TRUE
    /\ UNCHANGED <<given, queue, session, pc, latch, wake, nextDue, slots, failures, purgeVars>>

(* Waiting for a lock or a standby resets the latch.                         *)
LatchConsumed ==
    /\ "latch_consumed" \in given.hazards
    /\ pc = "spawn" /\ latch /\ latch' = FALSE
    /\ excused' = TRUE
    /\ UNCHANGED <<given, jobVars, session, pc, wake, loopVars, purgeVars>>

(* sched_sleep_until, in ms.                                                 *)
SleepUntil(date, cap) ==
    LET ms == date \div TicksPerMs
        atLeast == IF ms < MinSleep THEN MinSleep ELSE ms
    IN  IF date = None THEN cap ELSE IF atLeast < cap THEN atLeast ELSE cap

(* The timeout at the end of a cycle: the nearer of the two deadlines.       *)
Timeout ==
    LET forJobs == SleepUntil(nextDue, PollInterval)
    IN  IF draining THEN forJobs ELSE SleepUntil(purgeNext, forJobs)

Sleep ==
    /\ pc = "spawn" /\ claimed = <<>> /\ pc' = "wait"
    /\ wake' = Timeout * TicksPerMs /\ nextDue' = None /\ failures' = 0
    /\ UNCHANGED <<given, excused, jobVars, session, latch, claimed, slots, purgeVars>>

Forgiven(n) == n < MaxCycleFailures

(* A transient error costs the cycle, the last of too many the process.      *)
CycleFails ==
    /\ "cycle_error" \in given.hazards /\ pc \in {"slots", "claim"}
    /\ failures' = failures + 1
    /\ \/ /\ Forgiven(failures')
          /\ pc' = "wait" /\ wake' = PollInterval * TicksPerMs
          /\ UNCHANGED <<latch, session>>
       \/ Exits
    /\ excused' = TRUE
    /\ UNCHANGED <<given, jobVars, nextDue, claimed, slots, purgeVars>>

(* WaitLatch returns, ResetLatch.                                            *)
WakeUp ==
    /\ pc = "wait" /\ (latch \/ wake = 0)
    /\ pc' = "top" /\ latch' = FALSE /\ wake' = 0
    /\ excused' = FALSE
    /\ UNCHANGED <<given, jobVars, session, loopVars, purgeVars>>

SchedulerStep ==
    \/ Top \/ Purge \/ FreeJobSlots \/ Claim \/ ReadDeadline
    \/ Spawn \/ SpawnFails \/ Sleep \/ CycleFails \/ WakeUp

Next ==
    \/ \E j \in DOMAIN jobs : Enable(j) \/ DisableJob(j)
    \/ Commit \/ Rollback \/ WakeupAtCommit
    \/ \E value \in Settings : Reload(value)
    \/ SpuriousLatch \/ Tick \/ Expire
    \/ \E s \in Slots : WorkerRecords(s) \/ WorkerExits(s)
    \/ Start \/ Terminated \/ LatchConsumed \/ SchedulerStep

Spec == Init /\ [][Next]_vars

(* The process runs, time passes, transactions and jobs end.                 *)
Fairness ==
    /\ WF_vars(SchedulerStep) /\ WF_vars(Tick)
    /\ WF_vars(Commit \/ Rollback) /\ WF_vars(WakeupAtCommit)
    /\ \A s \in Slots : WF_vars(WorkerRecords(s) \/ WorkerExits(s))

FairSpec == Spec /\ Fairness

(******************************** Properties ********************************)

(* Every variable has its type.                                              *)
TypeOK ==
    /\ jobs \in [given.jobs -> JobRow] /\ queue \in Seq(Jobs \cup {Open})
    /\ session \in [pc: {"idle", "open", "committed"}, job: Jobs \cup {None},
                    next: Dates, finds: BOOLEAN]
    /\ pc \in Locations /\ latch \in BOOLEAN /\ wake \in 0 .. PollInterval * TicksPerMs
    /\ nextDue \in Dates /\ claimed \in Seq(Jobs)
    /\ slots \in [Slots -> [job: Jobs \cup {None},
                            worker: {"none", "running", "recorded", "gone", "lost"}]]
    /\ failures \in 0 .. MaxCycleFailures
    /\ file \in Settings /\ setting \in Settings /\ reload \in BOOLEAN
    /\ purgeNext \in Dates /\ draining \in BOOLEAN /\ expired \in 0 .. MaxExpired

Asleep == pc = "wait" /\ ~latch

(* A job whose row version is about to be announced to the scheduler.        *)
Announced(j) ==
    \/ session.pc = "committed" /\ session.job = j /\ session.finds
    \/ \E s \in Slots : slots[s].job = j /\ slots[s].worker = "recorded"

(* "Each cycle ends by sleeping until the time the next job is actually      *)
(* due": while the scheduler sleeps with a slot to spare, it will wake no    *)
(* later than the sleep floor after the date of every job it could start, or *)
(* the wake-up for that job is on its way.  Nor does it sleep past the time  *)
(* of the next purge: "busy slots must not be able to hold it back".         *)
NoOversleep ==
    /\ TypeOK
    /\ Asleep /\ ~excused /\ Free # {} =>
         \A j \in DOMAIN jobs : Waiting(j) =>
             wake <= jobs[j].next + MinSleep * TicksPerMs \/ Announced(j)
    /\ Asleep /\ ~excused /\ purgeNext # None /\ ~draining =>
         wake <= purgeNext + MinSleep * TicksPerMs

(* Where the scheduler stands for a job it could start: it is to be told of  *)
(* the job, or the deadline it has read, or its timeout, is soon enough.     *)
Covered(j) ==
    \/ Announced(j)
    \/ pc = "spawn" /\ nextDue # None /\ nextDue <= jobs[j].next
    \/ pc = "wait" /\ wake <= jobs[j].next + MinSleep * TicksPerMs

(* The inductive invariant behind NoOversleep and PurgeObeysSetting.         *)
SleepInv ==
    /\ TypeOK /\ given \in Instances
    /\ session.pc = "open" => session.job \in given.jobs
    /\ pc # "down" => failures < MaxCycleFailures
    /\ pc \in {"spawn", "wait"} /\ ~latch /\ ~excused /\ Free # {} =>
         \A j \in DOMAIN jobs : Waiting(j) => Covered(j)
    /\ pc = "wait" /\ ~excused /\ purgeNext # None /\ ~draining =>
         wake <= purgeNext + MinSleep * TicksPerMs
    /\ pc # "down" /\ purgeNext # None => setting = "on"
    /\ pc = "purge" => purgeNext # None

(* Run history is purged only while the process's setting says so, whatever  *)
(* backlog an earlier setting left half done.                                *)
PurgeObeysSetting == [][expired' < expired => setting = "on"]_vars

(* "missing one costs the job the rest of one sleep, not its run": a job     *)
(* whose date has come is started, while there is a scheduler and no session *)
(* gives the job another date.                                               *)
Overdue(j) == j \in DOMAIN jobs /\ Waiting(j) /\ jobs[j].next = 0
DueStarts == \A j \in Jobs : Overdue(j) ~> ~Overdue(j) \/ pc = "down" \/ Locked(j)

(* While purging stays on and nobody reloads, history is purged again and    *)
(* again.                                                                    *)
PurgesRecur == <>[](setting = "on" /\ ~reload /\ pc # "down") => []<>(pc = "purge")
=============================================================================
