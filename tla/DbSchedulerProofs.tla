------------------------- MODULE DbSchedulerProofs -------------------------
(* Theorems about DbScheduler, for every value of its constants.             *)
EXTENDS DbScheduler, FiniteSetTheorems, TLAPS

\* First-order reasoning does for most steps, arithmetic for the others.
USE ZenonT(10), SMTT(30)

(* Every update of a job row the code makes yields a job row.                *)
LEMMA RowUpdates ==
    ASSUME NEW row \in JobRow, NEW next \in NextRun, NEW b \in BOOLEAN
    PROVE  /\ Enabled(row, next) \in JobRow
           /\ Withdrawn(row) \in JobRow
           /\ Broken(row) \in JobRow
           /\ Claimed(row, b) \in JobRow
           /\ Released(row) \in JobRow
           /\ Recorded(row, b) \in JobRow
           /\ RecordedManual(row) \in JobRow
<1>1. Enabled(row, next) \in JobRow BY DEF Enabled, JobRow, JobStates, NextRun
<1>2. Withdrawn(row) \in JobRow BY DEF Withdrawn, JobRow, JobStates, NextRun
<1>3. Broken(row) \in JobRow BY DEF Broken, JobRow, JobStates, NextRun
<1>4. Claimed(row, b) \in JobRow BY DEF Claimed, JobRow, JobStates, NextRun
<1>5. Released(row) \in JobRow BY DEF Released, JobRow, JobStates, NextRun
<1>6. Recorded(row, b) \in JobRow
  <2> DEFINE limit == ~b /\ MaxFailures > 0 /\ row.fails + 1 >= MaxFailures
             fails == IF b THEN 0 ELSE row.fails + 1
             enabled == IF limit THEN FALSE ELSE row.enabled
             nextRun == IF limit THEN "null" ELSE row.next
             state == IF row.enabled /\ ~limit THEN "SCHEDULED"
                      ELSE IF b THEN "SUCCEEDED" ELSE "FAILED"
  <2>0. /\ row.fails \in Nat /\ row.enabled \in BOOLEAN
        /\ row.next \in NextRun
    BY DEF JobRow
  <2>1. fails \in Nat BY <2>0
  <2> HIDE DEF limit
  <2>3. enabled \in BOOLEAN BY <2>0
  <2>4. nextRun \in NextRun BY <2>0 DEF NextRun
  <2>5. state \in JobStates BY DEF JobStates
  <2>2. Recorded(row, b) = [row EXCEPT !.fails = fails, !.enabled = enabled,
                                       !.next = nextRun, !.state = state]
    BY DEF Recorded, limit
  <2> HIDE DEF fails, enabled, nextRun, state
  <2> QED BY <2>1, <2>3, <2>4, <2>5, <2>2 DEF JobRow
<1>7. RecordedManual(row) \in JobRow
  BY DEF RecordedManual, JobRow, JobStates, NextRun
<1> QED BY <1>1, <1>2, <1>3, <1>4, <1>5, <1>6, <1>7

(* A row the table has is a job row; a name without one is never enabled,    *)
(* running or waiting for a date.                                            *)
LEMMA TableRows ==
    ASSUME TypeOK, NEW n \in Names
    PROVE  /\ Exists(n) => jobs[n] \in JobRow
           /\ jobs[n].enabled \/ jobs[n].state # "DISABLED" \/ jobs[n].next # "null"
                => jobs[n] \in JobRow
           /\ ~Exists(n) => jobs[n] = NoJob
BY ConstantsAssumption DEF TypeOK, Exists, NoJob, JobRow

(* The tables start empty and the scheduler down.                            *)
LEMMA TypeInit == Init => TypeOK
<1> SUFFICES ASSUME Init PROVE TypeOK
  OBVIOUS
<1>1. jobs \in [Names -> JobRow \cup {NoJob}] BY DEF Init
<1>2. NoLog \in LogRow BY DEF NoLog, LogRow
<1>3. log \in [LogIds -> LogRow] BY <1>2 DEF Init
<1>4. wk \in [LogIds -> WorkerStates] BY DEF Init, WorkerStates
<1>5. failures \in 0 .. MaxCycleFailures BY ConstantsAssumption DEF Init
<1> QED BY <1>1, <1>3, <1>4, <1>5 DEF Init, TypeOK

(* Each action of the specification keeps the type invariant.                *)
LEMMA TypeStep == TypeOK /\ [Next]_vars => TypeOK'
<1> SUFFICES ASSUME TypeOK, [Next]_vars PROVE TypeOK'
  OBVIOUS
<1> USE ConstantsAssumption
<1>0. 0 \in 0 .. MaxCycleFailures
  OBVIOUS
<1>1. ASSUME NEW n \in Names, NEW rep \in BOOLEAN, NEW enable \in BOOLEAN,
             NEW next \in {"due", "future"}, CreateJob(n, rep, enable, next)
      PROVE  TypeOK'
  <2>1. PICK id \in JobIds \ usedIds :
          /\ jobs' = [jobs EXCEPT ![n] =
                IF enable THEN Enabled([NoJob EXCEPT !.id = id, !.rep = rep], next)
                          ELSE [NoJob EXCEPT !.id = id, !.rep = rep]]
          /\ usedIds' = usedIds \cup {id}
    BY <1>1 DEF CreateJob
  <2>2. [NoJob EXCEPT !.id = id, !.rep = rep] \in JobRow
    BY DEF JobRow, NoJob, JobStates, NextRun
  <2>3. Enabled([NoJob EXCEPT !.id = id, !.rep = rep], next) \in JobRow
    BY <2>2, RowUpdates DEF NextRun
  <2> QED BY <1>1, <2>1, <2>2, <2>3 DEF CreateJob, TypeOK, schedVars
<1>2. ASSUME NEW n \in Names, NEW next \in {"due", "future"}, EnableJob(n, next)
      PROVE  TypeOK'
  <2>1. Enabled(jobs[n], next) \in JobRow
    BY <1>2, TableRows, RowUpdates DEF EnableJob, NextRun
  <2> QED BY <1>2, <2>1 DEF EnableJob, TypeOK, schedVars
<1>3. ASSUME NEW n \in Names, DisableJob(n) PROVE TypeOK'
  <2>1. Withdrawn(jobs[n]) \in JobRow
    BY <1>3, TableRows, RowUpdates DEF DisableJob, NextRun
  <2> QED BY <1>3, <2>1 DEF DisableJob, TypeOK, schedVars
<1>4. ASSUME NEW n \in Names, DropJob(n) PROVE TypeOK'
  BY <1>4 DEF DropJob, TypeOK, schedVars
<1>5. ASSUME NEW n \in Names, RunJobStart(n) PROVE TypeOK'
  <2>1. PICK l \in LogIds : fg' = [log |-> l, job |-> jobs[n].id, name |-> n]
    BY <1>5 DEF RunJobStart, UnusedLogs
  <2>2. jobs[n].id \in JobIds
    BY <1>5, TableRows DEF RunJobStart, Loadable, JobRow
  <2> QED BY <1>5, <2>1, <2>2 DEF RunJobStart, FgRun, TypeOK, tableVars, schedVars
<1>6. CASE RunJobSucceeds
  <2>1. fg \in FgRun BY <1>6 DEF RunJobSucceeds, TypeOK
  <2>2. [status |-> "s", job |-> fg.job, name |-> fg.name] \in LogRow
    BY <2>1 DEF FgRun, LogRow
  <2>3. Exists(fg.name) => RecordedManual(jobs[fg.name]) \in JobRow
    BY <2>1, TableRows, RowUpdates DEF NextRun, FgRun
  <2> QED BY <1>6, <2>1, <2>2, <2>3 DEF RunJobSucceeds, TypeOK, schedVars
<1>7. CASE RunJobRollsBack
  BY <1>7 DEF RunJobRollsBack, TypeOK, tableVars, schedVars
<1>8. ASSUME NEW rows \in SUBSET LogIds, PurgeLog(rows) PROVE TypeOK'
  BY <1>8 DEF PurgeLog, TypeOK, LogRow, tableVars, schedVars
<1>9. CASE ObjectNext
  <2>1. \A n \in Names : Exists(n) => Withdrawn(jobs[n]) \in JobRow
    BY TableRows, RowUpdates DEF NextRun
  <2>2. \A force \in BOOLEAN : WithdrawDependents(force) =>
          jobs' \in [Names -> JobRow \cup {NoJob}]
    BY <2>1 DEF WithdrawDependents, TypeOK
  <2> QED
    BY <1>9, <2>2 DEF ObjectNext, CreateProgram, EnableProgram, DisableProgram,
       DropProgram, DropSchedule, CreateSchedule, TypeOK, schedVars
<1>10. ASSUME NEW n \in Names, ComesDue(n) PROVE TypeOK'
  <2>1. [jobs[n] EXCEPT !.next = "due"] \in JobRow
    BY <1>10, TableRows DEF ComesDue, JobRow, NextRun
  <2> QED BY <1>10, <2>1 DEF ComesDue, TypeOK, schedVars
<1>11. CASE SchedulerStart
  BY <1>11 DEF SchedulerStart, TypeOK, tableVars
<1>12. CASE SchedulerExit
  BY <1>0, <1>12 DEF SchedulerExit, SchedulerGone, TypeOK, tableVars
<1>13. CASE ServerCrash
  BY <1>0, <1>13 DEF ServerCrash, SchedulerGone, TypeOK, WorkerStates, tableVars
<1>14. \A n \in Names : jobs[n].state = "RUNNING" => Released(jobs[n]) \in JobRow
  BY TableRows, RowUpdates DEF NextRun
<1>15. \A l \in LogIds : [log[l] EXCEPT !.status = "f"] \in LogRow
  BY DEF TypeOK, LogRow
<1>16. CASE CleanupOrphans
  <2>1. jobs' \in [Names -> JobRow \cup {NoJob}]
    BY <1>14, <1>16 DEF CleanupOrphans, TypeOK
  <2>2. log' \in [LogIds -> LogRow]
    BY <1>15, <1>16 DEF CleanupOrphans, TypeOK
  <2> QED BY <1>16, <2>1, <2>2 DEF CleanupOrphans, TypeOK
<1>17. CASE FreeJobSlots
  <2>1. slots' \in [Slots -> LogIds \cup {NoId}] /\ pending' \subseteq LogIds
    BY <1>17 DEF FreeJobSlots, GoneSlots, TypeOK
  <2>2. pc' \in {"reconcile", "scan", "sleep"} /\ failures' \in {failures, 0}
    BY <1>17 DEF FreeJobSlots, GoScanOrSleep
  <2>3. failures' \in 0 .. MaxCycleFailures BY <2>2 DEF TypeOK
  <2> QED BY <1>17, <2>1, <2>2, <2>3 DEF FreeJobSlots, TypeOK, tableVars
<1>18. CASE ReconcileStopped
  <2>1. jobs' \in [Names -> JobRow \cup {NoJob}]
    BY <1>14, <1>18 DEF ReconcileStopped, TypeOK
  <2>2. log' \in [LogIds -> LogRow]
    BY <1>15, <1>18 DEF ReconcileStopped, TypeOK
  <2>3. pc' \in {"scan", "sleep"} /\ failures' \in {failures, 0}
    BY <1>18 DEF ReconcileStopped, GoScanOrSleep
  <2>4. failures' \in 0 .. MaxCycleFailures BY <2>3 DEF TypeOK
  <2> QED BY <1>18, <2>1, <2>2, <2>3, <2>4 DEF ReconcileStopped, TypeOK
<1>19. CASE ScanDueJobs
  <2>1. \A n \in Names : IsDue(n) => jobs[n] \in JobRow
    BY TableRows DEF IsDue
  <2>2. \A n \in Names, b \in BOOLEAN : IsDue(n) =>
          [id |-> jobs[n].id, name |-> n, rep |-> b] \in ScanRow
    BY <2>1 DEF ScanRow, JobRow
  <2>3. \A n \in Names : IsDue(n) =>
          (IF n \in NamedJobs THEN sch = "repeat" ELSE jobs[n].rep) \in BOOLEAN
    BY <2>1 DEF JobRow
  <2>4. scan' \subseteq ScanRow
    BY <1>19, <2>2, <2>3 DEF ScanDueJobs
  <2> QED BY <1>19, <2>4 DEF ScanDueJobs, TypeOK, tableVars
<1>20. CASE ClaimDueJobs
  <2>0. PICK broken \in SUBSET scan, later \in SUBSET {r \in scan : r.rep} :
          \E runs \in LogIdsFor(Winners(scan \ broken)) :
            /\ jobs' = ClaimedJobs(broken, later)
            /\ log' = ClaimedLog(runs)
            /\ GoDispatch(DOMAIN runs)
    BY <1>20 DEF ClaimDueJobs
  <2>1. PICK runs \in LogIdsFor(Winners(scan \ broken)) :
          /\ jobs' = ClaimedJobs(broken, later)
          /\ log' = ClaimedLog(runs)
          /\ GoDispatch(DOMAIN runs)
    BY <2>0
  <2>2. \A n \in Names, b \in BOOLEAN :
          /\ Exists(n) => Broken(jobs[n]) \in JobRow
          /\ jobs[n].enabled => Claimed(jobs[n], b) \in JobRow
    BY TableRows, RowUpdates DEF NextRun
  <2>3. \A r \in Winners(scan \ broken) : jobs[r.name].enabled /\ r \in ScanRow
    BY DEF Winners, TypeOK
  <2>4. jobs' \in [Names -> JobRow \cup {NoJob}]
    BY <2>1, <2>2, <2>3 DEF TypeOK, ClaimedJobs
  <2>5. DOMAIN runs \subseteq LogIds
        /\ \A l \in DOMAIN runs : runs[l] \in ScanRow
    <3> DEFINE won == Winners(scan \ broken)
    <3>0. runs \in UNION {[ls -> won] : ls \in SUBSET UnusedLogs}
      BY <2>1 DEF LogIdsFor
    <3> HIDE DEF won
    <3>1. PICK ls \in SUBSET UnusedLogs : runs \in [ls -> won]
      BY <3>0
    <3> USE DEF won
    <3> QED BY <2>3, <3>1 DEF UnusedLogs
  <2>6. log' \in [LogIds -> LogRow]
    BY <2>1, <2>5 DEF TypeOK, LogRow, ScanRow, ClaimedLog
  <2> QED BY <1>20, <2>1, <2>4, <2>5, <2>6 DEF ClaimDueJobs, GoDispatch, TypeOK
<1>21. ASSUME NEW l \in LogIds, SpawnJobWorker(l) PROVE TypeOK'
  BY <1>21 DEF SpawnJobWorker, GoDispatch, FreeSlots, TypeOK, WorkerStates,
     tableVars
<1>22. ASSUME NEW l \in LogIds, SpawnFails(l) PROVE TypeOK'
  <2>1. \A n \in Names : Exists(n) => Released(jobs[n]) \in JobRow
    BY TableRows, RowUpdates DEF NextRun
  <2> QED BY <1>15, <1>22, <2>1 DEF SpawnFails, GoDispatch, TypeOK
<1>23. CASE TransientError
  BY <1>23 DEF TransientError, TypeOK, tableVars
<1>24. CASE Wake
  BY <1>24 DEF Wake, TypeOK, tableVars
<1>25. ASSUME NEW l \in LogIds, NEW ok \in BOOLEAN
       PROVE  LogFinished(l, ok) \in [LogIds -> LogRow]
  BY DEF LogFinished, TypeOK, LogRow
<1>26. ASSUME NEW l \in LogIds, WorkerNext(l) PROVE TypeOK'
  <2>1. CASE WorkerLoad(l)
    BY <2>1 DEF WorkerLoad, TypeOK, WorkerStates, tableVars, schedVars
  <2>2. ASSUME NEW ok \in BOOLEAN, WorkerExecute(l, ok) PROVE TypeOK'
    BY <2>2 DEF WorkerExecute, TypeOK, WorkerStates, tableVars, schedVars
  <2>3. CASE WorkerFinish(l)
    <3>1. Exists(log[l].name) /\ log[l].name \in Names =>
            Recorded(jobs[log[l].name], wk[l] = "succeeded") \in JobRow
      BY TableRows, RowUpdates DEF NextRun
    <3>2. jobs' \in [Names -> JobRow \cup {NoJob}]
      BY <2>3, <3>1 DEF WorkerFinish, TypeOK
    <3> QED BY <1>25, <2>3, <3>2 DEF WorkerFinish, TypeOK, WorkerStates, schedVars
  <2>4. CASE WorkerFinishUnloaded(l)
    BY <1>25, <2>4 DEF WorkerFinishUnloaded, TypeOK, WorkerStates, tableVars,
       schedVars
  <2>5. CASE WorkerDies(l)
    BY <2>5 DEF WorkerDies, TypeOK, WorkerStates, tableVars, schedVars
  <2> QED BY <1>26, <2>1, <2>2, <2>3, <2>4, <2>5 DEF WorkerNext
<1>27. CASE UNCHANGED vars
  BY <1>27 DEF vars, tableVars, schedVars, TypeOK
<1> QED
  BY <1>1, <1>2, <1>3, <1>4, <1>5, <1>6, <1>7, <1>8, <1>9, <1>10, <1>11, <1>12,
     <1>13, <1>16, <1>17, <1>18, <1>19, <1>20, <1>21, <1>22, <1>23, <1>24, <1>26,
     <1>27 DEF Next, SessionNext, SchedulerNext

(* The columns and the scheduler's structures keep their types: every writer *)
(* of sys.scheduler_jobs leaves a row the table's constraints allow.         *)
THEOREM TypeCorrect == Spec => []TypeOK
BY TypeInit, TypeStep, PTL DEF Spec

-----------------------------------------------------------------------------

(* What the writers of sys.scheduler_jobs may turn a row into.               *)
RowUpdate(row, new) ==
    \/ new = row
    \/ new \in {Withdrawn(row), Broken(row), Released(row), RecordedManual(row)}
    \/ \E next \in {"due", "future"} : new = Enabled(row, next)
    \/ \E b \in BOOLEAN : new = Recorded(row, b)
    \/ row.next = "future" /\ new = [row EXCEPT !.next = "due"]

(* A row as CREATE_JOB inserts it, before it may be enabled.                 *)
NewRow(id, rep) == [NoJob EXCEPT !.id = id, !.rep = rep]

(* What a step does to the row of one name: nothing, delete it, insert it    *)
(* under a new job_id, claim it for a run, or one of the updates.            *)
RowStep(n) ==
    \/ ~Exists(n) /\ jobs'[n] = jobs[n]
    \/ DropJob(n) /\ jobs'[n] = NoJob
    \/ /\ ~Exists(n) /\ \A m \in Names \ {n} : jobs'[m] = jobs[m]
       /\ \E id \in JobIds \ usedIds, rep \in BOOLEAN, next \in {"due", "future"} :
            /\ jobs'[n] \in {NewRow(id, rep), Enabled(NewRow(id, rep), next)}
            /\ usedIds' = usedIds \cup {id}
    \/ /\ ClaimDueJobs /\ Exists(n) /\ jobs[n].enabled
       /\ \E b \in BOOLEAN : jobs'[n] = Claimed(jobs[n], b)
    \/ Exists(n) /\ RowUpdate(jobs[n], jobs'[n])

(* Every action writes the job table row by row, by one of these updates.    *)
LEMMA RowSteps ==
    ASSUME TypeOK, [Next]_vars, NEW n \in Names
    PROVE  RowStep(n)
<1> USE ConstantsAssumption
<1>0. jobs'[n] = jobs[n] => RowStep(n)
  BY DEF RowStep, RowUpdate
<1>1. ASSUME NEW m \in Names, NEW rep \in BOOLEAN, NEW enable \in BOOLEAN,
             NEW next \in {"due", "future"}, CreateJob(m, rep, enable, next)
      PROVE  RowStep(n)
  <2>1. PICK id \in JobIds \ usedIds :
          /\ jobs' = [jobs EXCEPT ![m] = IF enable
                                         THEN Enabled(NewRow(id, rep), next)
                                         ELSE NewRow(id, rep)]
          /\ usedIds' = usedIds \cup {id}
    BY <1>1 DEF CreateJob, NewRow
  <2>2. CASE m = n
    <3>1. jobs'[n] \in {NewRow(id, rep), Enabled(NewRow(id, rep), next)}
      BY <2>1, <2>2 DEF TypeOK
    <3>2. \A k \in Names \ {n} : jobs'[k] = jobs[k]
      BY <2>1, <2>2 DEF TypeOK
    <3> QED BY <1>1, <2>1, <2>2, <3>1, <3>2 DEF CreateJob, RowStep
  <2>3. CASE m # n
    BY <1>0, <2>1, <2>3 DEF TypeOK
  <2> QED BY <2>2, <2>3
<1>2. ASSUME NEW m \in Names, NEW next \in {"due", "future"}, EnableJob(m, next)
      PROVE  RowStep(n)
  BY <1>2, <1>0 DEF EnableJob, TypeOK, RowStep, RowUpdate
<1>3. ASSUME NEW m \in Names, DisableJob(m) \/ DropJob(m) PROVE RowStep(n)
  <2>1. CASE m = n
    BY <1>3, <2>1 DEF DisableJob, DropJob, TypeOK, RowStep, RowUpdate
  <2>2. CASE m # n
    BY <1>0, <1>3, <2>2 DEF DisableJob, DropJob, TypeOK
  <2> QED BY <2>1, <2>2
<1>4. ASSUME NEW m \in Names, RunJobStart(m) PROVE RowStep(n)
  BY <1>4, <1>0 DEF RunJobStart, tableVars
<1>5. CASE RunJobSucceeds
  BY <1>5, <1>0 DEF RunJobSucceeds, TypeOK, RowStep, RowUpdate
<1>6. CASE RunJobRollsBack \/ \E rows \in SUBSET LogIds : PurgeLog(rows)
  BY <1>6, <1>0 DEF RunJobRollsBack, PurgeLog, tableVars
<1>7. CASE ObjectNext
  <2>1. \A force \in BOOLEAN : WithdrawDependents(force) => RowStep(n)
    BY <1>0 DEF WithdrawDependents, RowStep, RowUpdate
  <2> QED
    BY <1>7, <2>1, <1>0 DEF ObjectNext, CreateProgram, EnableProgram,
       DisableProgram, DropProgram, DropSchedule, CreateSchedule
<1>8. ASSUME NEW m \in Names, ComesDue(m) PROVE RowStep(n)
  <2>1. jobs[m].next = "future" => Exists(m)
    BY TableRows DEF NoJob
  <2> QED BY <1>8, <1>0, <2>1 DEF ComesDue, TypeOK, RowStep, RowUpdate
<1>9. CASE SchedulerStart \/ SchedulerExit \/ ServerCrash
  BY <1>9, <1>0 DEF SchedulerStart, SchedulerExit, ServerCrash, tableVars
<1>10. \A m \in Names : jobs[m].state = "RUNNING" \/ jobs[m].enabled => Exists(m)
  BY TableRows DEF NoJob
<1>11. CASE CleanupOrphans
  BY <1>11, <1>0, <1>10 DEF CleanupOrphans, RowStep, RowUpdate
<1>12. CASE ReconcileStopped
  BY <1>12, <1>0, <1>10 DEF ReconcileStopped, RowStep, RowUpdate
<1>13. CASE FreeJobSlots \/ ScanDueJobs \/ TransientError \/ Wake
  BY <1>13, <1>0 DEF FreeJobSlots, ScanDueJobs, TransientError, Wake, tableVars
<1>14. CASE ClaimDueJobs
  <2>1. PICK broken \in SUBSET scan, later \in SUBSET {r \in scan : r.rep} :
          jobs' = ClaimedJobs(broken, later)
    BY <1>14 DEF ClaimDueJobs
  <2>2. CASE \E r \in broken : r.name = n
    BY <1>0, <2>1, <2>2 DEF ClaimedJobs, RowStep, RowUpdate
  <2>3. CASE /\ ~\E r \in broken : r.name = n
             /\ \E r \in Winners(scan \ broken) : r.name = n
    <3>1. jobs[n].enabled BY <2>3 DEF Winners
    <3>2. \E b \in BOOLEAN : jobs'[n] = Claimed(jobs[n], b)
      BY <2>1, <2>3 DEF ClaimedJobs
    <3> QED BY <1>10, <1>14, <3>1, <3>2 DEF RowStep
  <2>4. CASE /\ ~\E r \in broken : r.name = n
             /\ ~\E r \in Winners(scan \ broken) : r.name = n
    BY <1>0, <2>1, <2>4 DEF ClaimedJobs
  <2> QED BY <2>2, <2>3, <2>4
<1>15. ASSUME NEW l \in LogIds, SpawnJobWorker(l) PROVE RowStep(n)
  BY <1>15, <1>0 DEF SpawnJobWorker, tableVars
<1>16. ASSUME NEW l \in LogIds, SpawnFails(l) PROVE RowStep(n)
  BY <1>16, <1>0 DEF SpawnFails, RowStep, RowUpdate
<1>17. ASSUME NEW l \in LogIds, WorkerNext(l) PROVE RowStep(n)
  <2>1. CASE WorkerFinish(l)
    BY <1>0, <2>1 DEF WorkerFinish, TypeOK, RowStep, RowUpdate
  <2>2. CASE UNCHANGED jobs
    BY <1>0, <2>2
  <2> QED BY <1>17, <2>1, <2>2 DEF WorkerNext, WorkerLoad, WorkerExecute,
             WorkerFinishUnloaded, WorkerDies, tableVars
<1>18. CASE UNCHANGED vars
  BY <1>18, <1>0 DEF vars, tableVars
<1> QED
  BY <1>1, <1>2, <1>3, <1>4, <1>5, <1>6, <1>7, <1>8, <1>9, <1>11, <1>12, <1>13,
     <1>14, <1>15, <1>16, <1>17, <1>18 DEF Next, SessionNext, SchedulerNext

-----------------------------------------------------------------------------

(* ScheduleCoherent and LimitDisables, of one row.                           *)
Coherent(row) ==
    /\ row.enabled <=> row.next # "null"
    /\ row.state = "SCHEDULED" => row.enabled
    /\ row.enabled => row.state \in {"SCHEDULED", "RUNNING"}
BelowLimit(row) == MaxFailures > 0 /\ row.enabled => row.fails < MaxFailures

(* No update of a row lets the columns of the due query disagree.            *)
LEMMA UpdateCoherent ==
    ASSUME NEW row \in JobRow, NEW new, Coherent(row),
           \/ RowUpdate(row, new)
           \/ row.enabled /\ \E b \in BOOLEAN : new = Claimed(row, b)
    PROVE  Coherent(new)
<1>1. CASE new \in {row, Withdrawn(row), Broken(row), Released(row), RecordedManual(row)}
  BY <1>1 DEF Coherent, Withdrawn, Broken, Released, RecordedManual, JobRow
<1>2. ASSUME NEW next \in {"due", "future"}, new = Enabled(row, next)
      PROVE  Coherent(new)
  BY <1>2 DEF Coherent, Enabled, JobRow
<1>3. ASSUME NEW b \in BOOLEAN, new = Claimed(row, b) PROVE Coherent(new)
  BY <1>3 DEF Coherent, Claimed, JobRow
<1>4. ASSUME NEW b \in BOOLEAN, new = Recorded(row, b) PROVE Coherent(new)
  <2> DEFINE limit == ~b /\ MaxFailures > 0 /\ row.fails + 1 >= MaxFailures
  <2>1. /\ new.enabled = IF limit THEN FALSE ELSE row.enabled
        /\ new.next = IF limit THEN "null" ELSE row.next
        /\ new.state = IF row.enabled /\ ~limit THEN "SCHEDULED"
                       ELSE IF b THEN "SUCCEEDED" ELSE "FAILED"
    BY <1>4 DEF Recorded, JobRow
  <2> HIDE DEF limit
  <2> QED BY <2>1 DEF Coherent, JobRow
<1>5. CASE row.next = "future" /\ new = [row EXCEPT !.next = "due"]
  BY <1>5 DEF Coherent, JobRow
<1> QED BY <1>1, <1>2, <1>3, <1>4, <1>5 DEF RowUpdate

(* No update of a row leaves a job enabled at the failure limit.             *)
LEMMA UpdateBelowLimit ==
    ASSUME NEW row \in JobRow, NEW new, BelowLimit(row),
           \/ RowUpdate(row, new)
           \/ row.enabled /\ \E b \in BOOLEAN : new = Claimed(row, b)
    PROVE  BelowLimit(new)
<1> USE ConstantsAssumption
<1>1. CASE new \in {row, Withdrawn(row), Broken(row), Released(row), RecordedManual(row)}
  BY <1>1 DEF BelowLimit, Withdrawn, Broken, Released, RecordedManual, JobRow
<1>2. ASSUME NEW next \in {"due", "future"}, new = Enabled(row, next)
      PROVE  BelowLimit(new)
  BY <1>2 DEF BelowLimit, Enabled, JobRow
<1>3. ASSUME row.enabled, NEW b \in BOOLEAN, new = Claimed(row, b)
      PROVE  BelowLimit(new)
  BY <1>3 DEF BelowLimit, Claimed, JobRow
<1>4. ASSUME NEW b \in BOOLEAN, new = Recorded(row, b) PROVE BelowLimit(new)
  <2> DEFINE limit == ~b /\ MaxFailures > 0 /\ row.fails + 1 >= MaxFailures
  <2>1. /\ new.enabled = IF limit THEN FALSE ELSE row.enabled
        /\ new.fails = IF b THEN 0 ELSE row.fails + 1
    BY <1>4 DEF Recorded, JobRow
  <2>2. row.fails \in Nat BY DEF JobRow
  <2>3. CASE b BY <2>1, <2>3 DEF BelowLimit
  <2>4. CASE ~b
    <3>1. new.fails = row.fails + 1 BY <2>1, <2>4
    <3>2. CASE limit
      <4>1. ~new.enabled BY <2>1, <3>2
      <4> QED BY <4>1 DEF BelowLimit
    <3>3. CASE ~limit BY <2>2, <2>4, <3>1, <3>3 DEF BelowLimit
    <3> QED BY <3>2, <3>3
  <2> QED BY <2>3, <2>4
<1>5. CASE new = [row EXCEPT !.next = "due"]
  BY <1>5 DEF BelowLimit, JobRow
<1> QED BY <1>1, <1>2, <1>3, <1>4, <1>5 DEF RowUpdate

(* A new row is coherent and below the limit, enabled or not.                *)
LEMMA NewRowCoherent ==
    ASSUME NEW id \in JobIds, NEW rep \in BOOLEAN, NEW next \in {"due", "future"},
           NEW new \in {NoJob, NewRow(id, rep), Enabled(NewRow(id, rep), next)}
    PROVE  Coherent(new) /\ BelowLimit(new)
<1>1. /\ NewRow(id, rep) \in JobRow /\ ~NewRow(id, rep).enabled
      /\ NewRow(id, rep).state = "DISABLED" /\ NewRow(id, rep).next = "null"
      /\ NewRow(id, rep).fails = 0
  BY DEF NewRow, NoJob, JobRow, JobStates, NextRun
<1>2. CASE new \in {NoJob, NewRow(id, rep)}
  BY <1>1, <1>2 DEF Coherent, BelowLimit, NoJob
<1>3. CASE new = Enabled(NewRow(id, rep), next)
  <2>1. new.enabled = TRUE /\ new.next = next /\ new.fails = 0
        /\ new.state = "SCHEDULED"
    BY <1>1, <1>3 DEF Enabled, JobRow
  <2>2. Coherent(new) BY <2>1 DEF Coherent
  <2>3. BelowLimit(new) BY <2>1, ConstantsAssumption DEF BelowLimit
  <2> QED BY <2>2, <2>3
<1> QED BY <1>2, <1>3

(* Whichever of the many writers of a job row came last, an enabled job has  *)
(* a next run date and a state the due query can find, and a disabled one    *)
(* has neither: no sequence of calls, runs and recoveries can lose a job.    *)
THEOREM ScheduleCoherentAlways == Spec => []ScheduleCoherent
<1> DEFINE Inv == TypeOK /\ \A n \in Names : Coherent(jobs[n])
<1>1. Init => Inv
  <2> SUFFICES ASSUME Init PROVE Inv
    OBVIOUS
  <2>1. \A n \in Names : jobs[n] = NoJob BY DEF Init
  <2> QED BY <2>1, TypeInit DEF Coherent, NoJob
<1>2. Inv /\ [Next]_vars => Inv'
  <2> SUFFICES ASSUME Inv, [Next]_vars PROVE Inv'
    OBVIOUS
  <2>1. TypeOK' BY TypeStep
  <2>2. ASSUME NEW n \in Names PROVE Coherent(jobs'[n])
    <3>1. RowStep(n) BY RowSteps
    <3>2. CASE jobs'[n] = NoJob BY <3>2 DEF Coherent, NoJob
    <3>3. CASE Exists(n) /\ (\/ RowUpdate(jobs[n], jobs'[n])
                             \/ /\ jobs[n].enabled
                                /\ \E b \in BOOLEAN : jobs'[n] = Claimed(jobs[n], b))
      BY <3>3, TableRows, UpdateCoherent
    <3> QED BY <3>1, <3>2, <3>3, NewRowCoherent DEF RowStep
  <2> QED BY <2>1, <2>2 DEF Coherent
<1>3. Inv => ScheduleCoherent BY DEF ScheduleCoherent, Coherent
<1> QED BY <1>1, <1>2, <1>3, PTL DEF Spec

(* With scheduler_max_failures set, no job stays enabled after that many     *)
(* background failures in a row, however runs, ENABLE and restarts mix.      *)
THEOREM LimitDisablesAlways == Spec => []LimitDisables
<1> DEFINE Inv == TypeOK /\ \A n \in Names : BelowLimit(jobs[n])
<1>1. Init => Inv
  <2> SUFFICES ASSUME Init PROVE Inv
    OBVIOUS
  <2>1. \A n \in Names : jobs[n] = NoJob BY DEF Init
  <2> QED BY <2>1, TypeInit DEF BelowLimit, NoJob
<1>2. Inv /\ [Next]_vars => Inv'
  <2> SUFFICES ASSUME Inv, [Next]_vars PROVE Inv'
    OBVIOUS
  <2>1. TypeOK' BY TypeStep
  <2>2. ASSUME NEW n \in Names PROVE BelowLimit(jobs'[n])
    <3>1. RowStep(n) BY RowSteps
    <3>2. CASE jobs'[n] = NoJob BY <3>2 DEF BelowLimit, NoJob
    <3>3. CASE Exists(n) /\ (\/ RowUpdate(jobs[n], jobs'[n])
                             \/ /\ jobs[n].enabled
                                /\ \E b \in BOOLEAN : jobs'[n] = Claimed(jobs[n], b))
      BY <3>3, TableRows, UpdateBelowLimit
    <3> QED BY <3>1, <3>2, <3>3, NewRowCoherent DEF RowStep
  <2> QED BY <2>1, <2>2 DEF BelowLimit
<1>3. Inv => LimitDisables BY DEF LimitDisables, BelowLimit
<1> QED BY <1>1, <1>2, <1>3, PTL DEF Spec

(******************** The scheduler's books of its runs *********************)

(* Besides the scheduler's own steps, its start and its end, every step      *)
(* leaves the scheduler's variables alone; only workers and the server's     *)
(* crash change workers, and only some calls touch the log or RUN_JOB.       *)
LEMMA StepKinds ==
    ASSUME [Next]_vars
    PROVE  \/ SchedulerNext \/ SchedulerStart \/ SchedulerExit \/ ServerCrash
           \/ UNCHANGED schedVars /\ \E l \in LogIds : WorkerNext(l)
           \/ /\ UNCHANGED <<schedVars, wk>>
              /\ \/ RunJobSucceeds \/ RunJobRollsBack
                 \/ \E n \in Names : RunJobStart(n)
                 \/ \E rows \in SUBSET LogIds : PurgeLog(rows)
           \/ UNCHANGED <<schedVars, wk, log, fg>>
<1>1. CASE SessionNext
  BY <1>1 DEF SessionNext, CreateJob, EnableJob, DisableJob, DropJob, RunJobStart,
     RunJobSucceeds, RunJobRollsBack, PurgeLog
<1>2. CASE ObjectNext
  BY <1>2 DEF ObjectNext, CreateProgram, EnableProgram, DisableProgram,
     DropProgram, CreateSchedule, DropSchedule
<1>3. CASE \E l \in LogIds : WorkerNext(l)
  BY <1>3 DEF WorkerNext, WorkerLoad, WorkerExecute, WorkerFinish,
     WorkerFinishUnloaded, WorkerDies
<1>4. CASE (\E n \in Names : ComesDue(n)) \/ UNCHANGED vars
  BY <1>4 DEF ComesDue, vars
<1> QED BY <1>1, <1>2, <1>3, <1>4 DEF Next

(* The claims give a run a new log_id each, for a scanned job that has its   *)
(* job_id still and is enabled, and write no other row.                      *)
LEMMA ClaimedRuns ==
    ASSUME TypeOK, ClaimDueJobs
    PROVE  \E won \in SUBSET scan : \E runs \in Injection(due', won) :
             /\ due' \subseteq UnusedLogs
             /\ \A r \in won : jobs[r.name].id = r.id /\ jobs[r.name].enabled
             /\ \A l \in due' : log'[l].status = "r" /\ log'[l].job = runs[l].id
             /\ \A l \in LogIds \ due' : log'[l] = log[l]
<1>1. PICK broken \in SUBSET scan :
        \E runs \in LogIdsFor(Winners(scan \ broken)) :
          log' = ClaimedLog(runs) /\ GoDispatch(DOMAIN runs)
  BY DEF ClaimDueJobs
<1> DEFINE won == Winners(scan \ broken)
<1>2. PICK runs \in LogIdsFor(won) :
        log' = ClaimedLog(runs) /\ GoDispatch(DOMAIN runs)
  BY <1>1
<1>3. /\ runs \in UNION {[ls -> won] : ls \in SUBSET UnusedLogs}
      /\ \A k, l \in DOMAIN runs : runs[k] = runs[l] => k = l
  BY <1>2 DEF LogIdsFor
<1>4. won \subseteq scan /\ \A r \in won : jobs[r.name].id = r.id /\ jobs[r.name].enabled
  BY DEF Winners
<1> HIDE DEF won
<1>5. PICK ls \in SUBSET UnusedLogs : runs \in [ls -> won]
  BY <1>3
<1>6. due' = ls /\ DOMAIN runs = ls /\ due' \subseteq UnusedLogs
  BY <1>2, <1>5 DEF GoDispatch
<1>7. runs \in Injection(due', won)
  BY <1>3, <1>5, <1>6 DEF Injection, IsInjective
<1>8. \A l \in LogIds :
        log'[l] = IF l \in due' THEN [status |-> "r", job |-> runs[l].id,
                                      name |-> runs[l].name] ELSE log[l]
  BY <1>2, <1>6 DEF ClaimedLog
<1>9. due' \subseteq LogIds BY <1>6 DEF UnusedLogs
<1>10. \A l \in due' : log'[l].status = "r" /\ log'[l].job = runs[l].id
  <2> SUFFICES ASSUME NEW l \in due'
               PROVE  log'[l].status = "r" /\ log'[l].job = runs[l].id
    OBVIOUS
  <2>1. log'[l] = [status |-> "r", job |-> runs[l].id, name |-> runs[l].name]
    BY <1>8, <1>9
  <2> QED BY <2>1
<1>11. \A l \in LogIds \ due' : log'[l] = log[l]
  BY <1>8
<1>12. won \in SUBSET scan BY <1>4
<1> QED BY <1>4, <1>6, <1>7, <1>10, <1>11, <1>12

(* BooksInv holds at first: nothing is logged and no worker lives.           *)
LEMMA BooksInit == Init => BooksInv
BY DEF Init, BooksInv, Live, NoLog

(* Every step keeps BooksInv.                                                *)
LEMMA BooksStep == TypeOK /\ BooksInv /\ [Next]_vars => BooksInv'
<1> SUFFICES ASSUME TypeOK, BooksInv, [Next]_vars PROVE BooksInv'
  OBVIOUS
<1> USE ConstantsAssumption
<1>1. CASE SchedulerStart
  BY <1>1 DEF SchedulerStart, BooksInv, Live
<1>2. CASE SchedulerExit
  BY <1>2 DEF SchedulerExit, SchedulerGone, BooksInv, Live
<1>3. CASE ServerCrash
  BY <1>3 DEF ServerCrash, SchedulerGone, BooksInv, Live, TypeOK
<1>4. ASSUME NEW l \in LogIds, WorkerNext(l), UNCHANGED schedVars PROVE BooksInv'
  <2>0. /\ Live(l) /\ l \notin due /\ log[l].status \notin {"none", "s"}
        /\ fg # NoFg => l # fg.log
    BY <1>4 DEF WorkerNext, WorkerLoad, WorkerExecute, WorkerFinish,
       WorkerFinishUnloaded, WorkerDies, BooksInv, Live
  <2>1. /\ \A k \in LogIds \ {l} : wk'[k] = wk[k] /\ log'[k] = log[k]
        /\ fg' = fg
    BY <1>4 DEF WorkerNext, WorkerLoad, WorkerExecute, WorkerFinish,
       WorkerFinishUnloaded, WorkerDies, LogFinished, TypeOK
  <2>2. CASE log' = log
    BY <2>0, <2>1, <2>2, <1>4 DEF BooksInv, Live, schedVars, TypeOK, FgRun
  <2>3. CASE WorkerFinish(l) \/ WorkerFinishUnloaded(l)
    <3>1. wk'[l] = "stopped" /\ log'[l].status # "none"
      BY <2>0, <2>3 DEF WorkerFinish, WorkerFinishUnloaded, LogFinished, TypeOK,
         LogRow
    <3> QED BY <2>0, <2>1, <3>1, <1>4 DEF BooksInv, Live, schedVars, TypeOK, FgRun
  <2> QED BY <1>4, <2>2, <2>3 DEF WorkerNext, WorkerLoad, WorkerExecute, WorkerDies
<1>5. CASE RunJobSucceeds /\ UNCHANGED <<schedVars, wk>>
  <2>1. fg # NoFg /\ fg.log \in LogIds /\ fg' = NoFg
    BY <1>5 DEF RunJobSucceeds, TypeOK, FgRun
  <2>2. \A k \in LogIds \ {fg.log} : log'[k] = log[k]
    BY <1>5, <2>1 DEF RunJobSucceeds, TypeOK
  <2>3. log'[fg.log].status = "s"
    BY <1>5, <2>1 DEF RunJobSucceeds, TypeOK
  <2> QED BY <1>5, <2>1, <2>2, <2>3 DEF BooksInv, Live, schedVars, TypeOK
<1>6. ASSUME NEW n \in Names, RunJobStart(n) PROVE BooksInv'
  BY <1>6 DEF RunJobStart, UnusedLogs, BooksInv, Live, schedVars
<1>7. ASSUME NEW rows \in SUBSET LogIds, PurgeLog(rows) PROVE BooksInv'
  <2>1. \A l \in LogIds : \/ log'[l] = log[l]
                          \/ /\ log[l].status \in {"s", "f"}
                             /\ log'[l].status = "purged"
    BY <1>7 DEF PurgeLog, TypeOK, LogRow
  <2> QED BY <1>7, <2>1 DEF PurgeLog, BooksInv, Live, schedVars, TypeOK, FgRun
<1>8. CASE RunJobRollsBack \/ UNCHANGED <<schedVars, wk, log, fg>>
  BY <1>8 DEF RunJobRollsBack, BooksInv, Live, schedVars
<1>9. ASSUME CleanupOrphans \/ ReconcileStopped PROVE BooksInv'
  <2>1. \A l \in LogIds : \/ log'[l] = log[l]
                          \/ log[l].status = "r" /\ log'[l].status = "f"
    BY <1>9 DEF CleanupOrphans, ReconcileStopped, StillOpen, TypeOK, LogRow
  <2>2. /\ due = {} /\ due' = {} /\ wk' = wk /\ fg' = fg
        /\ pc' # "down"
    BY <1>9 DEF CleanupOrphans, ReconcileStopped, GoScanOrSleep, BooksInv
  <2> QED BY <2>1, <2>2 DEF BooksInv, Live, TypeOK, FgRun
<1>10. CASE FreeJobSlots \/ ScanDueJobs \/ TransientError \/ Wake
  <2>1. /\ due' \in {{}, due} /\ wk' = wk /\ fg' = fg /\ log' = log
        /\ pc' # "down" /\ (pc' # "dispatch" => due' = {})
    BY <1>10 DEF FreeJobSlots, GoScanOrSleep, ScanDueJobs, TransientError, Wake,
       BooksInv
  <2> QED BY <2>1 DEF BooksInv, Live
<1>11. CASE ClaimDueJobs
  <2>1. /\ due' \subseteq UnusedLogs /\ \A l \in due' : log'[l].status = "r"
        /\ \A l \in LogIds \ due' : log'[l] = log[l]
    BY <1>11, ClaimedRuns
  <2>2. /\ wk' = wk /\ fg' = fg /\ pc' # "down"
        /\ pc' # "dispatch" => due' = {}
    BY <1>11 DEF ClaimDueJobs, GoDispatch
  <2> QED BY <2>1, <2>2 DEF UnusedLogs, BooksInv, Live, TypeOK, FgRun
<1>12. ASSUME NEW l \in LogIds, SpawnJobWorker(l) \/ SpawnFails(l) PROVE BooksInv'
  <2>1. /\ l \in due /\ due' = due \ {l} /\ fg' = fg /\ pc' # "down"
        /\ pc' # "dispatch" => due' = {}
    BY <1>12 DEF SpawnJobWorker, SpawnFails, GoDispatch
  <2>2. \/ log' = log /\ wk' = [wk EXCEPT ![l] = "starting"]
        \/ wk' = wk /\ log' = [log EXCEPT ![l].status = "f"]
    BY <1>12 DEF SpawnJobWorker, SpawnFails
  <2>3. log[l].status = "r" /\ wk[l] = "none" /\ (fg # NoFg => l # fg.log)
    BY <2>1 DEF BooksInv
  <2> QED BY <2>1, <2>2, <2>3 DEF BooksInv, Live, TypeOK, LogRow, FgRun
<1> QED BY <1>1, <1>2, <1>3, <1>4, <1>5, <1>6, <1>7, <1>8, <1>9, <1>10, <1>11,
           <1>12, StepKinds DEF SchedulerNext

(* The books hold in every state, under every circumstance.                  *)
LEMMA BooksAlways == Spec => [](TypeOK /\ BooksInv)
BY TypeInit, TypeStep, BooksInit, BooksStep, PTL DEF Spec

(* A recorded success is never turned into a failure: reconciliation and     *)
(* cleanup close open runs only, a run that failed to spawn has none, and a  *)
(* worker records once.  No circumstance takes this away, a scheduler that   *)
(* starts over live workers included.                                        *)
THEOREM SuccessStands == Spec => SuccessFinal
<1> DEFINE Kept == \A l \in LogIds : log[l].status = "s" =>
                     log'[l].status \in {"s", "purged"}
<1>1. TypeOK /\ BooksInv /\ [Next]_vars => Kept
  <2> SUFFICES ASSUME TypeOK, BooksInv, [Next]_vars, NEW l \in LogIds,
                      log[l].status = "s"
               PROVE  log'[l].status \in {"s", "purged"}
    OBVIOUS
  <2>1. ~Live(l) /\ l \notin due /\ (fg # NoFg => l # fg.log)
    BY DEF BooksInv
  <2>2. ASSUME NEW k \in LogIds, WorkerNext(k) PROVE log'[l] = log[l]
    BY <2>1, <2>2 DEF WorkerNext, WorkerLoad, WorkerExecute, WorkerFinish,
       WorkerFinishUnloaded, WorkerDies, LogFinished, Live, TypeOK
  <2>3. CASE RunJobSucceeds
    BY <2>1, <2>3 DEF RunJobSucceeds, TypeOK, FgRun
  <2>4. ASSUME NEW rows \in SUBSET LogIds, PurgeLog(rows)
        PROVE  log'[l].status \in {"s", "purged"}
    BY <2>4 DEF PurgeLog, TypeOK, LogRow
  <2>5. CASE CleanupOrphans \/ ReconcileStopped
    BY <2>5 DEF CleanupOrphans, ReconcileStopped, StillOpen
  <2>6. CASE ClaimDueJobs
    BY <2>6, ClaimedRuns DEF UnusedLogs
  <2>7. ASSUME NEW k \in LogIds, SpawnJobWorker(k) \/ SpawnFails(k)
        PROVE  log'[l] = log[l]
    BY <2>1, <2>7 DEF SpawnJobWorker, SpawnFails, TypeOK
  <2>8. CASE \/ FreeJobSlots \/ ScanDueJobs \/ TransientError \/ Wake
             \/ SchedulerStart \/ SchedulerExit \/ ServerCrash \/ RunJobRollsBack
             \/ \E n \in Names : RunJobStart(n)
    BY <2>8 DEF FreeJobSlots, ScanDueJobs, TransientError, Wake, SchedulerStart,
       SchedulerExit, ServerCrash, RunJobRollsBack, RunJobStart
  <2> QED BY <2>2, <2>3, <2>4, <2>5, <2>6, <2>7, <2>8, StepKinds DEF SchedulerNext
<1>2. [][Kept]_vars <=> SuccessFinal BY DEF SuccessFinal
<1> QED BY <1>1, <1>2, BooksAlways, PTL DEF Spec

(* A DISABLE, DROP or re-creation that commits before the claim wins: a run  *)
(* is claimed only for a job that is enabled under the scanned job_id at the *)
(* moment of the claim, whatever happened since the due query.               *)
THEOREM DisableWins == Spec => ClaimRespectsDisable
<1> DEFINE Fresh == \A l \in LogIds :
                      log[l].status = "none" /\ log'[l].status = "r" =>
                        \E n \in Names : jobs[n].id = log'[l].job /\ jobs[n].enabled
<1>1. TypeOK /\ BooksInv /\ [Next]_vars => Fresh
  <2> SUFFICES ASSUME TypeOK, BooksInv, [Next]_vars, NEW l \in LogIds,
                      log[l].status = "none", log'[l].status = "r"
               PROVE  \E n \in Names : jobs[n].id = log'[l].job /\ jobs[n].enabled
    OBVIOUS
  <2>1. wk[l] = "none" /\ l \notin due
    BY DEF BooksInv
  <2>2. ASSUME NEW k \in LogIds, WorkerNext(k) PROVE log'[l] = log[l]
    BY <2>1, <2>2 DEF WorkerNext, WorkerLoad, WorkerExecute, WorkerFinish,
       WorkerFinishUnloaded, WorkerDies, LogFinished, Live, TypeOK
  <2>3. CASE RunJobSucceeds
    <3>1. log'[l] = log[l] \/ log'[l].status = "s"
      BY <2>3 DEF RunJobSucceeds, TypeOK
    <3> QED BY <3>1
  <2>4. ASSUME NEW rows \in SUBSET LogIds, PurgeLog(rows) PROVE log'[l] = log[l]
    BY <2>4 DEF PurgeLog
  <2>5. CASE CleanupOrphans \/ ReconcileStopped
    BY <2>5 DEF CleanupOrphans, ReconcileStopped, StillOpen
  <2>6. CASE ClaimDueJobs
    <3>1. PICK won \in SUBSET scan : \E runs \in Injection(due', won) :
             /\ \A r \in won : jobs[r.name].id = r.id /\ jobs[r.name].enabled
             /\ \A k \in due' : log'[k].status = "r" /\ log'[k].job = runs[k].id
             /\ \A k \in LogIds \ due' : log'[k] = log[k]
      BY <2>6, ClaimedRuns
    <3>2. PICK runs \in Injection(due', won) :
             /\ \A r \in won : jobs[r.name].id = r.id /\ jobs[r.name].enabled
             /\ \A k \in due' : log'[k].status = "r" /\ log'[k].job = runs[k].id
             /\ \A k \in LogIds \ due' : log'[k] = log[k]
      BY <3>1
    <3>3. l \in due' BY <3>2
    <3>4. runs[l] \in won BY <3>3 DEF Injection
    <3>5. runs[l].name \in Names BY <3>4 DEF TypeOK, ScanRow
    <3> QED BY <3>2, <3>3, <3>4, <3>5
  <2>7. ASSUME NEW k \in LogIds, SpawnJobWorker(k) \/ SpawnFails(k)
        PROVE  log'[l] = log[l]
    BY <2>1, <2>7 DEF SpawnJobWorker, SpawnFails, TypeOK
  <2>8. CASE \/ FreeJobSlots \/ ScanDueJobs \/ TransientError \/ Wake
             \/ SchedulerStart \/ SchedulerExit \/ ServerCrash \/ RunJobRollsBack
             \/ \E n \in Names : RunJobStart(n)
    BY <2>8 DEF FreeJobSlots, ScanDueJobs, TransientError, Wake, SchedulerStart,
       SchedulerExit, ServerCrash, RunJobRollsBack, RunJobStart
  <2> QED BY <2>2, <2>3, <2>4, <2>5, <2>6, <2>7, <2>8, StepKinds DEF SchedulerNext
<1>2. [][Fresh]_vars <=> ClaimRespectsDisable BY DEF ClaimRespectsDisable
<1> QED BY <1>1, <1>2, BooksAlways, PTL DEF Spec

(* The due query returns no more rows than there are free slots.             *)
LEMMA ScannedFit ==
    ASSUME TypeOK, ScanDueJobs
    PROVE  IsFiniteSet(scan') /\ Cardinality(scan') <= Cardinality(FreeSlots)
<1> USE ConstantsAssumption
<1>1. PICK found \in SUBSET Names :
        /\ Cardinality(found) <= ScanLimit(FreeSlots)
        /\ scan' = {[id |-> jobs[n].id, name |-> n,
                     rep |-> IF n \in NamedJobs THEN sch = "repeat"
                                                ELSE jobs[n].rep] : n \in found}
  BY DEF ScanDueJobs
<1> DEFINE name == [r \in scan' |-> r.name]
<1>2. \A r \in scan' : r.name \in found
  BY <1>1
<1>3. \A q, r \in scan' : q.name = r.name => q = r
  BY <1>1
<1>4. name \in Injection(scan', found)
  BY <1>2, <1>3 DEF Injection, IsInjective
<1> HIDE DEF name
<1>5. IsFiniteSet(found) /\ Cardinality(found) \in Nat
  BY FS_Subset, FS_CardinalityType
<1>6. IsFiniteSet(scan') /\ Cardinality(scan') <= Cardinality(found)
  BY <1>4, <1>5, FS_Injection
<1>7. Cardinality(scan') \in Nat BY <1>6, FS_CardinalityType
<1>8. FreeSlots \in SUBSET Slots /\ UnusedLogs \in SUBSET LogIds
  BY DEF FreeSlots, UnusedLogs
<1>9. Cardinality(FreeSlots) \in Nat /\ Cardinality(UnusedLogs) \in Nat
  BY <1>8, FS_Subset, FS_CardinalityType
<1>10. /\ ScanLimit(FreeSlots) <= Cardinality(FreeSlots)
       /\ ScanLimit(FreeSlots) \in Nat
  BY <1>9 DEF ScanLimit
<1> QED BY <1>1, <1>5, <1>6, <1>7, <1>9, <1>10

(* The due query's LIMIT still fits when the claimed jobs are spawned: a     *)
(* scanned row has a free slot of its own until it is claimed, a claimed run *)
(* until it is spawned, for any number of slots and under every circumstance.*)
THEOREM SlotsSuffice == Spec => []SlotForEveryClaim
<1> DEFINE Inv == TypeOK /\ BooksInv /\ IsFiniteSet(scan) /\ SlotForEveryClaim
<1> USE ConstantsAssumption
<1>0. TypeOK => /\ IsFiniteSet(FreeSlots) /\ Cardinality(FreeSlots) \in Nat
                /\ IsFiniteSet(due) /\ Cardinality(due) \in Nat
  <2> SUFFICES ASSUME TypeOK
               PROVE  /\ IsFiniteSet(FreeSlots) /\ Cardinality(FreeSlots) \in Nat
                      /\ IsFiniteSet(due) /\ Cardinality(due) \in Nat
    OBVIOUS
  <2>1. FreeSlots \in SUBSET Slots /\ due \in SUBSET LogIds
    BY DEF FreeSlots, TypeOK
  <2>2. IsFiniteSet(FreeSlots) /\ IsFiniteSet(due)
    BY <2>1, FS_Subset
  <2> QED BY <2>2, FS_CardinalityType
<1>1. Init => Inv
  <2> SUFFICES ASSUME Init PROVE Inv
    OBVIOUS
  <2>1. TypeOK /\ BooksInv BY TypeInit, BooksInit
  <2>2. pc # "claim" /\ due = {} /\ scan = {} BY DEF Init
  <2>3. Cardinality(due) = 0 /\ IsFiniteSet(scan) BY <2>2, FS_EmptySet
  <2> QED BY <1>0, <2>1, <2>2, <2>3 DEF SlotForEveryClaim
<1>2. Inv /\ [Next]_vars => Inv'
  <2> SUFFICES ASSUME Inv, [Next]_vars PROVE SlotForEveryClaim'
    <3>1. ASSUME Inv, [Next]_vars PROVE IsFiniteSet(scan')
      <4>1. ScanDueJobs \/ scan' = {} \/ scan' = scan
        BY <3>1, StepKinds DEF SchedulerNext, SchedulerStart, SchedulerExit,
           ServerCrash, SchedulerGone, CleanupOrphans, FreeJobSlots,
           ReconcileStopped, ClaimDueJobs, SpawnJobWorker, SpawnFails,
           TransientError, Wake, schedVars
      <4> QED BY <3>1, <4>1, ScannedFit, FS_EmptySet
    <3> QED BY <3>1, TypeStep, BooksStep
  <2>0. /\ IsFiniteSet(FreeSlots) /\ Cardinality(FreeSlots) \in Nat
        /\ IsFiniteSet(due) /\ Cardinality(due) \in Nat
    BY <1>0
  <2>1. Cardinality(FreeSlots') \in Nat /\ Cardinality(due') \in Nat
    <3>1. TypeOK' BY TypeStep
    <3>2. /\ FreeSlots' \in SUBSET Slots /\ due' \in SUBSET LogIds
      BY <3>1 DEF FreeSlots, TypeOK
    <3>3. IsFiniteSet(FreeSlots') /\ IsFiniteSet(due')
      BY <3>2, FS_Subset
    <3> QED BY <3>3, FS_CardinalityType
  <2>2. CASE pc' # "claim" /\ due' = {}
    <3>1. Cardinality(due') = 0 BY <2>2, FS_EmptySet
    <3> QED BY <2>1, <2>2, <3>1 DEF SlotForEveryClaim
  <2>3. CASE UNCHANGED schedVars
    BY <2>3 DEF schedVars, SlotForEveryClaim, FreeSlots
  <2>4. CASE \/ SchedulerStart \/ SchedulerExit \/ ServerCrash \/ CleanupOrphans
             \/ FreeJobSlots \/ ReconcileStopped \/ TransientError \/ Wake
    <3>1. pc' # "claim" /\ due' = {}
      BY <2>4 DEF SchedulerStart, SchedulerExit, ServerCrash, SchedulerGone,
         CleanupOrphans, FreeJobSlots, GoScanOrSleep, ReconcileStopped,
         TransientError, Wake, BooksInv
    <3> QED BY <2>2, <3>1
  <2>5. CASE ScanDueJobs
    <3>1. due' = due /\ FreeSlots' = FreeSlots
      BY <2>5 DEF ScanDueJobs, FreeSlots
    <3> QED BY <2>5, <3>1, ScannedFit DEF SlotForEveryClaim
  <2>6. CASE ClaimDueJobs
    <3>1. PICK won \in SUBSET scan : \E runs \in Injection(due', won) : TRUE
      BY <2>6, ClaimedRuns
    <3>2. PICK runs \in Injection(due', won) : TRUE
      BY <3>1
    <3>3. scan' = {} /\ FreeSlots' = FreeSlots /\ pc = "claim" /\ pc' # "claim"
      BY <2>6 DEF ClaimDueJobs, FreeSlots, GoDispatch
    <3>4. Cardinality(scan) <= Cardinality(FreeSlots)
      BY <3>3 DEF SlotForEveryClaim
    <3>5. IsFiniteSet(scan) /\ Cardinality(scan) \in Nat
      BY FS_CardinalityType
    <3>6. IsFiniteSet(won) /\ Cardinality(won) \in Nat
          /\ Cardinality(won) <= Cardinality(scan)
      BY <3>5, FS_Subset, FS_CardinalityType
    <3>7. Cardinality(due') <= Cardinality(won)
      BY <3>6, FS_Injection
    <3> QED BY <2>0, <2>1, <3>3, <3>4, <3>5, <3>6, <3>7 DEF SlotForEveryClaim
  <2>7. ASSUME NEW l \in LogIds, SpawnJobWorker(l) PROVE SlotForEveryClaim'
    <3>1. PICK s \in FreeSlots : slots' = [slots EXCEPT ![s] = l]
      BY <2>7 DEF SpawnJobWorker
    <3>2. FreeSlots' = FreeSlots \ {s}
      BY <3>1 DEF FreeSlots, TypeOK
    <3>3. l \in due /\ due' = due \ {l} /\ pc' # "claim"
      BY <2>7 DEF SpawnJobWorker, GoDispatch
    <3>4. Cardinality(FreeSlots') = Cardinality(FreeSlots) - 1
      BY <2>0, <3>1, <3>2, FS_RemoveElement
    <3>5. Cardinality(due') = Cardinality(due) - 1
      BY <2>0, <3>3, FS_RemoveElement
    <3> QED BY <2>0, <3>3, <3>4, <3>5 DEF SlotForEveryClaim
  <2>8. ASSUME NEW l \in LogIds, SpawnFails(l) PROVE SlotForEveryClaim'
    <3>1. /\ l \in due /\ due' = due \ {l} /\ pc' # "claim"
          /\ FreeSlots' = FreeSlots
      BY <2>8 DEF SpawnFails, GoDispatch, FreeSlots
    <3>2. Cardinality(due') = Cardinality(due) - 1
      BY <2>0, <3>1, FS_RemoveElement
    <3> QED BY <2>0, <3>1, <3>2 DEF SlotForEveryClaim
  <2> QED BY <2>3, <2>4, <2>5, <2>6, <2>7, <2>8, StepKinds DEF SchedulerNext
<1> QED BY <1>1, <1>2, PTL DEF Spec

(* Job workers are capped by scheduler_max_job_workers: while a scheduler is *)
(* up every live worker has one of its slots, if no scheduler starts over    *)
(* the live workers of another.                                              *)
THEOREM WorkersHaveSlots ==
    ASSUME "restart_under_run" \notin Hazards
    PROVE  Spec => []WorkersInSlots
<1> DEFINE Inv == TypeOK /\ BooksInv /\ WorkersInSlots
<1> USE ConstantsAssumption
<1>1. Init => Inv
  BY TypeInit, BooksInit DEF Init, WorkersInSlots
<1>2. Inv /\ [Next]_vars => Inv'
  <2> SUFFICES ASSUME Inv, [Next]_vars, pc' # "down", NEW l \in LogIds, Live(l)'
               PROVE  l \in SlotRuns'
    BY TypeStep, BooksStep DEF WorkersInSlots
  <2>0. l # NoId OBVIOUS
  <2>1. CASE SchedulerStart BY <2>1 DEF SchedulerStart, Live
  <2>2. CASE SchedulerExit \/ ServerCrash
    BY <2>2 DEF SchedulerExit, ServerCrash, SchedulerGone
  <2>3. ASSUME UNCHANGED slots, pc # "down", Live(l) PROVE l \in SlotRuns'
    BY <2>3 DEF WorkersInSlots, SlotRuns
  <2>4. CASE \/ CleanupOrphans \/ ReconcileStopped \/ ScanDueJobs \/ ClaimDueJobs
             \/ TransientError \/ Wake \/ \E k \in LogIds : SpawnFails(k)
    BY <2>3, <2>4 DEF CleanupOrphans, ReconcileStopped, ScanDueJobs, ClaimDueJobs,
       TransientError, Wake, SpawnFails, Live
  <2>5. CASE FreeJobSlots
    <3>1. Live(l) /\ pc # "down" BY <2>5 DEF FreeJobSlots, Live
    <3>2. PICK s \in Slots : slots[s] = l
      BY <3>1 DEF WorkersInSlots, SlotRuns
    <3>3. slots'[s] = l
      BY <2>5, <3>1, <3>2 DEF FreeJobSlots, GoneSlots, Live
    <3> QED BY <2>0, <3>3 DEF SlotRuns
  <2>6. ASSUME NEW k \in LogIds, SpawnJobWorker(k) PROVE l \in SlotRuns'
    <3>1. PICK s \in FreeSlots : slots' = [slots EXCEPT ![s] = k]
      BY <2>6 DEF SpawnJobWorker
    <3>2. s \in Slots /\ slots[s] = NoId BY DEF FreeSlots
    <3>3. CASE l = k
      <4>1. slots'[s] = l BY <3>1, <3>2, <3>3 DEF TypeOK
      <4> QED BY <2>0, <3>2, <4>1 DEF SlotRuns
    <3>4. CASE l # k
      <4>1. Live(l) /\ pc # "down"
        BY <2>6, <3>4 DEF SpawnJobWorker, Live, TypeOK
      <4>2. PICK t \in Slots : slots[t] = l
        BY <4>1 DEF WorkersInSlots, SlotRuns
      <4>3. slots'[t] = l BY <2>0, <3>1, <3>2, <4>2 DEF TypeOK
      <4> QED BY <2>0, <4>3 DEF SlotRuns
    <3> QED BY <3>3, <3>4
  <2>7. ASSUME NEW k \in LogIds, WorkerNext(k), UNCHANGED schedVars
        PROVE  l \in SlotRuns'
    <3>1. Live(l)
      BY <2>7 DEF WorkerNext, WorkerLoad, WorkerExecute, WorkerFinish,
         WorkerFinishUnloaded, WorkerDies, Live, TypeOK
    <3> QED BY <2>3, <2>7, <3>1 DEF schedVars
  <2>8. CASE UNCHANGED <<schedVars, wk>>
    BY <2>3, <2>8 DEF schedVars, Live
  <2> QED BY <2>1, <2>2, <2>4, <2>5, <2>6, <2>7, <2>8, StepKinds DEF SchedulerNext
<1> QED BY <1>1, <1>2, PTL DEF Spec

(* "Nothing else would come looking for them": a scheduler that has cleaned  *)
(* up has every open run of the log on one of its lists, if no error strikes *)
(* between the claims and the last spawn.                                    *)
THEOREM OpenRunsAreBooked ==
    ASSUME "closeout_error" \notin Hazards
    PROVE  Spec => []OpenRunBooked
<1> DEFINE Inv == TypeOK /\ BooksInv /\ OpenRunBooked
<1> USE ConstantsAssumption
<1>1. Init => Inv
  BY TypeInit, BooksInit DEF Init, OpenRunBooked
<1>2. Inv /\ [Next]_vars => Inv'
  <2> SUFFICES ASSUME Inv, [Next]_vars, pc' # "down", cleaned', NEW l \in LogIds,
                      log'[l].status = "r"
               PROVE  l \in due' \cup SlotRuns' \cup pending'
    BY TypeStep, BooksStep DEF OpenRunBooked
  <2>0. l # NoId OBVIOUS
  <2>1. CASE SchedulerStart \/ SchedulerExit \/ ServerCrash
    BY <2>1 DEF SchedulerStart, SchedulerExit, ServerCrash, SchedulerGone, BooksInv
  <2>2. ASSUME UNCHANGED <<due, slots, pending>>, pc # "down", cleaned,
               log[l].status = "r"
        PROVE  l \in due' \cup SlotRuns' \cup pending'
    BY <2>2 DEF OpenRunBooked, SlotRuns
  <2>3. CASE CleanupOrphans
    <3>1. log'[l].status # "r" BY <2>3 DEF CleanupOrphans, TypeOK, LogRow
    <3> QED BY <3>1
  <2>4. CASE FreeJobSlots
    <3>1. log[l].status = "r" /\ pc # "down" /\ cleaned BY <2>4 DEF FreeJobSlots
    <3>2. l \in due \cup pending \/ \E s \in Slots : slots[s] = l
      BY <3>1 DEF OpenRunBooked, SlotRuns
    <3>3. CASE l \in due \cup pending BY <2>4, <3>3 DEF FreeJobSlots
    <3>4. ASSUME NEW s \in Slots, slots[s] = l
          PROVE  l \in due' \cup SlotRuns' \cup pending'
      <4>1. CASE s \in GoneSlots BY <2>4, <3>4, <4>1 DEF FreeJobSlots
      <4>2. CASE s \notin GoneSlots
        <5>1. slots'[s] = l BY <2>4, <3>4, <4>2 DEF FreeJobSlots
        <5> QED BY <2>0, <5>1 DEF SlotRuns
      <4> QED BY <4>1, <4>2
    <3> QED BY <3>2, <3>3, <3>4
  <2>5. CASE ReconcileStopped
    <3>1. log[l].status = "r" /\ pc # "down" /\ cleaned /\ due' = due /\ slots' = slots
      BY <2>5 DEF ReconcileStopped, StillOpen
    <3>2. l \notin pending
      <4>1. l \in pending => log'[l].status = "f"
        BY <2>5, <3>1 DEF ReconcileStopped, StillOpen, TypeOK, LogRow
      <4> QED BY <4>1
    <3> QED BY <3>1, <3>2 DEF OpenRunBooked, SlotRuns
  <2>6. CASE ScanDueJobs \/ Wake
    BY <2>2, <2>6 DEF ScanDueJobs, Wake
  <2>7. CASE TransientError
    <3>1. pc # "dispatch" /\ due = {} /\ due' = {}
      BY <2>7 DEF TransientError, BooksInv
    <3> QED BY <2>2, <2>7, <3>1 DEF TransientError, BooksInv
  <2>8. CASE ClaimDueJobs
    <3>1. CASE l \in due' BY <3>1
    <3>2. CASE l \notin due'
      <4>1. log'[l] = log[l] BY <2>8, <3>2, ClaimedRuns
      <4>2. due = {} /\ pc # "down" /\ cleaned /\ slots' = slots /\ pending' = pending
        BY <2>8 DEF ClaimDueJobs, BooksInv
      <4> QED BY <4>1, <4>2 DEF OpenRunBooked, SlotRuns
    <3> QED BY <3>1, <3>2
  <2>9. ASSUME NEW k \in LogIds, SpawnJobWorker(k)
        PROVE  l \in due' \cup SlotRuns' \cup pending'
    <3>1. PICK s \in FreeSlots : slots' = [slots EXCEPT ![s] = k]
      BY <2>9 DEF SpawnJobWorker
    <3>2. s \in Slots /\ slots[s] = NoId BY DEF FreeSlots
    <3>3. /\ due' = due \ {k} /\ pending' = pending /\ pc # "down" /\ cleaned
          /\ log[l].status = "r"
      BY <2>9 DEF SpawnJobWorker, GoDispatch
    <3>4. CASE l = k
      <4>1. slots'[s] = l BY <3>1, <3>2, <3>4 DEF TypeOK
      <4> QED BY <2>0, <3>2, <4>1 DEF SlotRuns
    <3>5. CASE l # k
      <4>1. l \in due \cup pending \/ \E t \in Slots : slots[t] = l
        BY <3>3 DEF OpenRunBooked, SlotRuns
      <4>2. ASSUME NEW t \in Slots, slots[t] = l PROVE l \in SlotRuns'
        <5>1. slots'[t] = l BY <2>0, <3>1, <3>2, <4>2 DEF TypeOK
        <5> QED BY <2>0, <5>1 DEF SlotRuns
      <4> QED BY <3>3, <3>5, <4>1, <4>2
    <3> QED BY <3>4, <3>5
  <2>10. ASSUME NEW k \in LogIds, SpawnFails(k)
         PROVE  l \in due' \cup SlotRuns' \cup pending'
    <3>1. /\ due' = due \ {k} /\ pending' = pending /\ slots' = slots
          /\ pc # "down" /\ cleaned
      BY <2>10 DEF SpawnFails, GoDispatch
    <3>2. l # k /\ log[l].status = "r"
      BY <2>10 DEF SpawnFails, TypeOK, LogRow
    <3> QED BY <3>1, <3>2 DEF OpenRunBooked, SlotRuns
  <2>11. ASSUME UNCHANGED schedVars,
                \/ \E k \in LogIds : WorkerNext(k)
                \/ RunJobSucceeds \/ RunJobRollsBack
                \/ \E n \in Names : RunJobStart(n)
                \/ \E rows \in SUBSET LogIds : PurgeLog(rows)
                \/ UNCHANGED log
         PROVE  l \in due' \cup SlotRuns' \cup pending'
    <3>1. log[l].status = "r"
      <4>1. ASSUME NEW k \in LogIds, WorkerNext(k) PROVE log[l].status = "r"
        BY <4>1 DEF WorkerNext, WorkerLoad, WorkerExecute, WorkerFinish,
           WorkerFinishUnloaded, WorkerDies, LogFinished, TypeOK, LogRow
      <4>2. CASE RunJobSucceeds BY <4>2 DEF RunJobSucceeds, TypeOK
      <4>3. ASSUME NEW rows \in SUBSET LogIds, PurgeLog(rows) PROVE log[l].status = "r"
        BY <4>3 DEF PurgeLog, TypeOK, LogRow
      <4>4. CASE UNCHANGED log BY <4>4
      <4> QED BY <2>11, <4>1, <4>2, <4>3, <4>4 DEF RunJobRollsBack, RunJobStart
    <3> QED BY <2>2, <2>11, <3>1 DEF schedVars
  <2> QED BY <2>1, <2>3, <2>4, <2>5, <2>6, <2>7, <2>8, <2>9, <2>10, <2>11,
             StepKinds DEF SchedulerNext
<1> QED BY <1>1, <1>2, PTL DEF Spec


(***************************************************************************)
(* A job never runs twice at the same time: NoOverlap, RunHoldsState,      *)
(* LiveRunOpen and OutcomeFinal, and so DbScheduler implements JobRuns, in *)
(* the absence of the three circumstances that take them away.             *)
(***************************************************************************)


(* Schedulers start only when no job worker is alive, a job is not dropped   *)
(* under its run, and no RUN_JOB is recorded under a background run.         *)
Careful ==
    Hazards \cap {"restart_under_run", "drop_under_run", "manual_under_run"} = {}

(* An update keeps the job_id and does not make a job RUNNING.               *)
LEMMA UpdateKeepsId ==
    ASSUME NEW row \in JobRow, NEW new, RowUpdate(row, new)
    PROVE  new.id = row.id /\ (new.state = "RUNNING" => row.state = "RUNNING")
<1>1. CASE new \in {row, Withdrawn(row), Broken(row), Released(row), RecordedManual(row)}
  BY <1>1 DEF Withdrawn, Broken, Released, RecordedManual, JobRow
<1>2. ASSUME NEW next \in {"due", "future"}, new = Enabled(row, next)
      PROVE  new.id = row.id /\ (new.state = "RUNNING" => row.state = "RUNNING")
  BY <1>2 DEF Enabled, JobRow
<1>3. ASSUME NEW b \in BOOLEAN, new = Recorded(row, b)
      PROVE  new.id = row.id /\ new.state # "RUNNING"
  BY <1>3 DEF Recorded, JobRow
<1>4. CASE new = [row EXCEPT !.next = "due"]
  BY <1>4 DEF JobRow
<1> QED BY <1>1, <1>2, <1>3, <1>4 DEF RowUpdate

(* A claim keeps the job_id and makes the job RUNNING.                       *)
LEMMA ClaimKeepsId ==
    ASSUME NEW row \in JobRow, NEW b \in BOOLEAN
    PROVE  Claimed(row, b).id = row.id /\ Claimed(row, b).state = "RUNNING"
BY DEF Claimed, JobRow

(* A new row has the new id and is not RUNNING.                              *)
LEMMA NewRowId ==
    ASSUME NEW id \in JobIds, NEW rep \in BOOLEAN, NEW next \in {"due", "future"},
           NEW new \in {NewRow(id, rep), Enabled(NewRow(id, rep), next)}
    PROVE  new.id = id /\ new.state # "RUNNING"
<1>1. /\ NewRow(id, rep) \in JobRow /\ NewRow(id, rep).id = id
      /\ NewRow(id, rep).state = "DISABLED"
  BY DEF NewRow, NoJob, JobRow, JobStates, NextRun
<1>2. CASE new = NewRow(id, rep) BY <1>1, <1>2
<1>3. CASE new = Enabled(NewRow(id, rep), next)
  BY <1>1, <1>3 DEF Enabled, JobRow
<1> QED BY <1>2, <1>3

(* A step leaves a name its job_id, drops the job, or gives it a new one.    *)
LEMMA IdStep ==
    ASSUME TypeOK, [Next]_vars, NEW n \in Names
    PROVE  \/ jobs'[n].id = jobs[n].id
           \/ DropJob(n) /\ jobs'[n] = NoJob
           \/ /\ ~Exists(n) /\ jobs'[n].id \in JobIds \ usedIds
              /\ usedIds' = usedIds \cup {jobs'[n].id}
              /\ \A m \in Names \ {n} : jobs'[m] = jobs[m]
<1>1. RowStep(n) BY RowSteps
<1>2. Exists(n) => jobs[n] \in JobRow BY TableRows
<1> QED BY <1>1, <1>2, UpdateKeepsId, ClaimKeepsId, NewRowId DEF RowStep

(* Only the claim makes a job RUNNING.                                       *)
LEMMA RunningStep ==
    ASSUME TypeOK, [Next]_vars, NEW n \in Names, jobs'[n].state = "RUNNING",
           ~ClaimDueJobs
    PROVE  jobs[n].state = "RUNNING"
<1>1. RowStep(n) BY RowSteps
<1>2. Exists(n) => jobs[n] \in JobRow BY TableRows
<1>3. NoJob.state # "RUNNING" BY DEF NoJob
<1> QED BY <1>1, <1>2, <1>3, UpdateKeepsId, NewRowId DEF RowStep

(* The job_id sequence only moves forward.                                   *)
LEMMA UsedIdsGrow ==
    ASSUME TypeOK, [Next]_vars
    PROVE  usedIds \subseteq usedIds'
BY DEF Next, SessionNext, ObjectNext, SchedulerNext, WorkerNext, CreateJob,
   EnableJob, DisableJob, DropJob, RunJobStart, RunJobSucceeds, RunJobRollsBack,
   PurgeLog, CreateProgram, EnableProgram, DisableProgram, DropProgram,
   CreateSchedule, DropSchedule, CleanupOrphans, FreeJobSlots, ReconcileStopped,
   ScanDueJobs, ClaimDueJobs, SpawnJobWorker, SpawnFails, TransientError, Wake,
   WorkerLoad, WorkerExecute, WorkerFinish, WorkerFinishUnloaded, WorkerDies,
   ComesDue, SchedulerStart, SchedulerExit, ServerCrash, vars, tableVars

(* A claim takes new log_ids for its runs and writes no other row.           *)
LEMMA ClaimTakesUnused ==
    ASSUME ClaimDueJobs
    PROVE  due' \subseteq UnusedLogs /\ \A l \in LogIds \ due' : log'[l] = log[l]
<1>1. PICK broken \in SUBSET scan :
        \E runs \in LogIdsFor(Winners(scan \ broken)) :
          log' = ClaimedLog(runs) /\ GoDispatch(DOMAIN runs)
  BY DEF ClaimDueJobs
<1> DEFINE won == Winners(scan \ broken)
<1>2. PICK runs \in LogIdsFor(won) :
        log' = ClaimedLog(runs) /\ GoDispatch(DOMAIN runs)
  BY <1>1
<1>3. runs \in UNION {[ls -> won] : ls \in SUBSET UnusedLogs}
  BY <1>2 DEF LogIdsFor
<1> HIDE DEF won
<1>4. PICK ls \in SUBSET UnusedLogs : runs \in [ls -> won]
  BY <1>3
<1> QED BY <1>2, <1>4 DEF GoDispatch, ClaimedLog

(* What a step does to a row of the run log: nothing, close or delete a run  *)
(* that was started, insert a finished manual run, or insert a claimed one.  *)
LogStep(l) ==
    \/ log'[l] = log[l]
    \/ /\ log[l].status \in {"r", "s", "f"}
       /\ log'[l].status \in {"s", "f", "purged"}
       /\ log'[l].job = log[l].job /\ log'[l].name = log[l].name
    \/ /\ RunJobSucceeds /\ l = fg.log
       /\ log'[l] = [status |-> "s", job |-> fg.job, name |-> fg.name]
    \/ /\ ClaimDueJobs /\ l \in UnusedLogs /\ l \in due' /\ log'[l].status = "r"
       /\ \E r \in scan : /\ log'[l].job = r.id /\ log'[l].name = r.name
                          /\ jobs[r.name].id = r.id /\ jobs[r.name].enabled

(* Every action writes the run log row by row in one of these ways.          *)
LEMMA LogSteps ==
    ASSUME ExclusionInv, [Next]_vars, NEW l \in LogIds
    PROVE  LogStep(l)
<1> USE ConstantsAssumption
<1>0. TypeOK BY DEF ExclusionInv
<1>1. UNCHANGED log => LogStep(l) BY DEF LogStep
<1>2. ASSUME NEW x \in {"s", "f", "purged"}, log[l].status \in {"r", "s", "f"},
             log'[l] = [log[l] EXCEPT !.status = x]
      PROVE  LogStep(l)
  BY <1>0, <1>2 DEF TypeOK, LogRow, LogStep
<1>3. CASE RunJobSucceeds
  BY <1>0, <1>3 DEF RunJobSucceeds, TypeOK, LogStep
<1>4. ASSUME NEW rows \in SUBSET LogIds, PurgeLog(rows) PROVE LogStep(l)
  BY <1>2, <1>4 DEF PurgeLog, LogStep
<1>5. CASE CleanupOrphans
  BY <1>2, <1>5 DEF CleanupOrphans, LogStep
<1>6. CASE ReconcileStopped
  BY <1>2, <1>6 DEF ReconcileStopped, StillOpen, LogStep
<1>7. CASE ClaimDueJobs
  <2>1. PICK broken \in SUBSET scan :
          \E runs \in LogIdsFor(Winners(scan \ broken)) :
             log' = ClaimedLog(runs) /\ GoDispatch(DOMAIN runs)
    BY <1>7 DEF ClaimDueJobs
  <2> DEFINE won == Winners(scan \ broken)
  <2>2. PICK runs \in LogIdsFor(won) :
          log' = ClaimedLog(runs) /\ GoDispatch(DOMAIN runs)
    BY <2>1
  <2>3. runs \in UNION {[ls -> won] : ls \in SUBSET UnusedLogs}
    BY <2>2 DEF LogIdsFor
  <2> HIDE DEF won
  <2>4. PICK ls \in SUBSET UnusedLogs : runs \in [ls -> won]
    BY <2>3
  <2>5. CASE l \in DOMAIN runs
    <3>1. runs[l] \in won /\ l \in UnusedLogs BY <2>4, <2>5
    <3>2. /\ runs[l] \in scan /\ jobs[runs[l].name].id = runs[l].id
          /\ jobs[runs[l].name].enabled
      BY <3>1 DEF won, Winners
    <3>3. /\ log'[l].status = "r" /\ log'[l].job = runs[l].id
          /\ log'[l].name = runs[l].name
      BY <2>2, <2>5 DEF ClaimedLog
    <3>4. l \in due' BY <2>2, <2>5 DEF GoDispatch
    <3> QED BY <1>7, <3>1, <3>2, <3>3, <3>4 DEF LogStep
  <2>6. CASE l \notin DOMAIN runs
    BY <2>2, <2>6 DEF ClaimedLog, LogStep
  <2> QED BY <2>5, <2>6
<1>8. ASSUME NEW k \in LogIds, SpawnFails(k) PROVE LogStep(l)
  <2>1. log[k].status = "r"
    BY <1>8 DEF SpawnFails, ExclusionInv, RunsInv, InProgress
  <2> QED BY <1>0, <1>2, <1>8, <2>1 DEF SpawnFails, TypeOK, LogStep
<1>9. ASSUME NEW k \in LogIds, WorkerFinish(k) \/ WorkerFinishUnloaded(k)
      PROVE  LogStep(l)
  BY <1>0, <1>2, <1>9 DEF WorkerFinish, WorkerFinishUnloaded, LogFinished,
     TypeOK, LogStep
<1> QED
  BY <1>1, <1>3, <1>4, <1>5, <1>6, <1>7, <1>8, <1>9
  DEF Next, SessionNext, ObjectNext, SchedulerNext, WorkerNext, CreateJob,
   EnableJob, DisableJob, DropJob, RunJobStart, RunJobRollsBack, CreateProgram,
   EnableProgram, DisableProgram, DropProgram, CreateSchedule, DropSchedule,
   FreeJobSlots, ScanDueJobs, SpawnJobWorker, TransientError, Wake, WorkerLoad,
   WorkerExecute, WorkerDies, ComesDue, SchedulerStart, SchedulerExit,
   ServerCrash, vars

(* A worker comes into being only in the dispatch of a waiting run, and a    *)
(* run comes to wait only by a claim.                                        *)
LEMMA ProgressStep ==
    ASSUME TypeOK, [Next]_vars, NEW l \in LogIds
    PROVE  /\ wk'[l] # wk[l] =>
                \/ wk[l] \notin {"none", "stopped"}
                \/ l \in due /\ pc = "dispatch" /\ wk'[l] = "starting"
                   /\ due' = due \ {l}
           /\ l \in due' => l \in due \/ ClaimDueJobs
<1> USE ConstantsAssumption
<1>1. CASE SpawnJobWorker(l)
  BY <1>1 DEF SpawnJobWorker, GoDispatch, TypeOK
<1>2. ASSUME NEW k \in LogIds, SpawnJobWorker(k) \/ SpawnFails(k) \/ WorkerNext(k)
      PROVE  /\ wk'[l] # wk[l] => wk[l] \notin {"none", "stopped"}
                                  \/ SpawnJobWorker(l)
             /\ l \in due' => l \in due
  BY <1>2 DEF SpawnJobWorker, SpawnFails, GoDispatch, WorkerNext, WorkerLoad,
     WorkerExecute, WorkerFinish, WorkerFinishUnloaded, WorkerDies, Live, TypeOK,
     schedVars
<1>3. CASE SchedulerStart \/ SchedulerExit \/ ServerCrash
  BY <1>3 DEF SchedulerStart, SchedulerExit, ServerCrash, SchedulerGone, Live,
     TypeOK
<1>4. CASE ClaimDueJobs BY <1>4 DEF ClaimDueJobs
<1>5. UNCHANGED wk /\ due' \subseteq due =>
        (wk'[l] = wk[l] /\ (l \in due' => l \in due))
  OBVIOUS
<1> QED
  BY <1>1, <1>2, <1>3, <1>4, <1>5
  DEF Next, SessionNext, ObjectNext, SchedulerNext, CreateJob, EnableJob,
   DisableJob, DropJob, RunJobStart, RunJobSucceeds, RunJobRollsBack, PurgeLog,
   CreateProgram, EnableProgram, DisableProgram, DropProgram, CreateSchedule,
   DropSchedule, CleanupOrphans, FreeJobSlots, ReconcileStopped, ScanDueJobs,
   TransientError, Wake, ComesDue, vars, schedVars

-----------------------------------------------------------------------------

(* IdsKnown is preserved.                                                    *)
LEMMA IdsStep == ExclusionInv /\ [Next]_vars => IdsKnown'
<1> SUFFICES ASSUME ExclusionInv, [Next]_vars PROVE IdsKnown'
  OBVIOUS
<1> USE ConstantsAssumption
<1>0. TypeOK /\ TypeOK' /\ IdsKnown /\ usedIds \subseteq usedIds'
  BY TypeStep, UsedIdsGrow DEF ExclusionInv
<1>1. \A n \in Names : jobs'[n].id # NoId => jobs'[n].id \in usedIds'
  <2> TAKE n \in Names
  <2> QED BY <1>0, IdStep DEF IdsKnown, Exists, NoJob
<1>2. ASSUME NEW m \in Names, NEW n \in Names, jobs'[m].id # NoId,
             jobs'[m].id = jobs'[n].id
      PROVE  m = n
  <2>1. /\ jobs[m].id # NoId => jobs[m].id \in usedIds
        /\ jobs[n].id # NoId => jobs[n].id \in usedIds
        /\ jobs[m].id # NoId /\ jobs[m].id = jobs[n].id => m = n
    BY <1>0 DEF IdsKnown, Exists
  <2> QED BY <1>0, <1>2, <2>1, IdStep DEF NoJob
<1>3. ASSUME NEW l \in LogIds
      PROVE  IF log'[l].status = "none" THEN wk'[l] = "none"
             ELSE log'[l].job \in usedIds' /\ log'[l].name \in Names
  <2>1. LogStep(l) BY LogSteps
  <2>2. CASE log'[l] = log[l]
    <3>1. CASE log[l].status = "none"
      <4>1. wk[l] = "none" /\ l \notin due
        BY <3>1 DEF ExclusionInv, IdsKnown, RunsInv, InProgress
      <4> QED BY <1>0, <2>2, <3>1, <4>1, ProgressStep
    <3>2. CASE log[l].status # "none"
      BY <1>0, <2>2, <3>2 DEF IdsKnown
    <3> QED BY <3>1, <3>2
  <2>3. CASE /\ log[l].status \in {"r", "s", "f"}
             /\ log'[l].status \in {"s", "f", "purged"}
             /\ log'[l].job = log[l].job /\ log'[l].name = log[l].name
    BY <1>0, <2>3 DEF IdsKnown
  <2>4. CASE /\ RunJobSucceeds
             /\ log'[l] = [status |-> "s", job |-> fg.job, name |-> fg.name]
    <3>1. fg # NoFg BY <2>4 DEF RunJobSucceeds
    <3> QED BY <1>0, <2>4, <3>1 DEF IdsKnown, TypeOK, FgRun
  <2>5. CASE /\ log'[l].status = "r"
             /\ \E r \in scan : /\ log'[l].job = r.id /\ log'[l].name = r.name
                                /\ jobs[r.name].id = r.id
    <3>1. PICK r \in scan : /\ log'[l].job = r.id /\ log'[l].name = r.name
                            /\ jobs[r.name].id = r.id
      BY <2>5
    <3>2. r.id \in JobIds /\ r.name \in Names BY <1>0 DEF TypeOK, ScanRow
    <3>3. log'[l].job \in usedIds
      <4>1. Exists(r.name) BY <3>1, <3>2 DEF Exists
      <4> QED BY <1>0, <3>1, <3>2, <4>1 DEF IdsKnown
    <3> QED BY <1>0, <2>5, <3>1, <3>2, <3>3
  <2> QED BY <2>1, <2>2, <2>3, <2>4, <2>5 DEF LogStep
<1>4. ASSUME fg' # NoFg
      PROVE  fg'.job \in usedIds' /\ log'[fg'.log].status = "none"
  <2>1. CASE fg' = fg
    <3>1. /\ fg.log \in LogIds /\ fg.job \in usedIds
          /\ log[fg.log].status = "none" /\ fg # NoFg
      BY <1>0, <1>4, <2>1 DEF TypeOK, FgRun, IdsKnown
    <3>2. LogStep(fg.log) BY <3>1, LogSteps
    <3> QED BY <1>0, <1>4, <2>1, <3>1, <3>2 DEF LogStep, RunJobSucceeds, UnusedLogs
  <2>2. ASSUME NEW n \in Names, RunJobStart(n)
        PROVE  fg'.job \in usedIds' /\ log'[fg'.log].status = "none"
    BY <1>0, <2>2 DEF RunJobStart, UnusedLogs, Loadable, IdsKnown
  <2> QED
    BY <1>4, <2>1, <2>2 DEF Next, SessionNext, ObjectNext, SchedulerNext,
       WorkerNext, CreateJob, EnableJob, DisableJob, DropJob, RunJobSucceeds,
       RunJobRollsBack, PurgeLog, CreateProgram, EnableProgram, DisableProgram,
       DropProgram, CreateSchedule, DropSchedule, CleanupOrphans, FreeJobSlots,
       ReconcileStopped, ScanDueJobs, ClaimDueJobs, SpawnJobWorker, SpawnFails,
       TransientError, Wake, WorkerLoad, WorkerExecute, WorkerFinish,
       WorkerFinishUnloaded, WorkerDies, ComesDue, SchedulerStart, SchedulerExit,
       ServerCrash, vars
<1> QED BY <1>1, <1>2, <1>3, <1>4 DEF IdsKnown, Exists

(* CycleInv is preserved when no scheduler starts over live workers.         *)
LEMMA CycleStep == Careful /\ ExclusionInv /\ [Next]_vars => CycleInv'
<1> SUFFICES ASSUME Careful, ExclusionInv, [Next]_vars PROVE CycleInv'
  OBVIOUS
<1> USE ConstantsAssumption
<1>0. TypeOK /\ TypeOK' /\ CycleInv BY TypeStep DEF ExclusionInv
<1>1. scan' \subseteq scan \/ ScanDueJobs
  BY DEF Next, SessionNext, ObjectNext, SchedulerNext, WorkerNext, CreateJob,
   EnableJob, DisableJob, DropJob, RunJobStart, RunJobSucceeds, RunJobRollsBack,
   PurgeLog, CreateProgram, EnableProgram, DisableProgram, DropProgram,
   CreateSchedule, DropSchedule, CleanupOrphans, FreeJobSlots, ReconcileStopped,
   ScanDueJobs, ClaimDueJobs, SpawnJobWorker, SpawnFails, TransientError, Wake,
   WorkerLoad, WorkerExecute, WorkerFinish, WorkerFinishUnloaded, WorkerDies,
   ComesDue, SchedulerStart, SchedulerExit, SchedulerGone, ServerCrash, vars,
   schedVars
<1>2. \A q, r \in scan' : q.name = r.name => q = r
  BY <1>0, <1>1 DEF CycleInv, ScanDueJobs
<1>3. \A r \in scan' : jobs'[r.name].state # "RUNNING"
  <2>1. CASE ScanDueJobs
    BY <1>0, <2>1 DEF ScanDueJobs, IsDue, tableVars
  <2>2. CASE ClaimDueJobs
    BY <2>2 DEF ClaimDueJobs
  <2>3. CASE scan' \subseteq scan /\ ~ClaimDueJobs
    <3> SUFFICES ASSUME NEW r \in scan' PROVE jobs'[r.name].state # "RUNNING"
      OBVIOUS
    <3>1. r.name \in Names /\ jobs[r.name].state # "RUNNING"
      BY <1>0, <2>3 DEF TypeOK, ScanRow, CycleInv
    <3> QED BY <1>0, <2>3, <3>1, RunningStep
  <2> QED BY <1>1, <2>1, <2>2, <2>3
<1>4. \A l \in due' : wk'[l] = "none"
  <2> SUFFICES ASSUME NEW l \in due' PROVE wk'[l] = "none"
    OBVIOUS
  <2>0. l \in LogIds BY <1>0 DEF TypeOK
  <2>1. CASE l \in due
    <3>1. wk[l] = "none" BY <1>0, <2>1 DEF CycleInv
    <3> QED BY <1>0, <2>0, <3>1, ProgressStep
  <2>2. CASE l \notin due
    <3>1. ClaimDueJobs BY <1>0, <2>0, <2>2, ProgressStep
    <3>2. wk' = wk BY <3>1 DEF ClaimDueJobs
    <3>3. l \in UnusedLogs BY <3>1, ClaimTakesUnused
    <3> QED BY <2>0, <3>2, <3>3 DEF UnusedLogs, ExclusionInv, IdsKnown
  <2> QED BY <2>1, <2>2
<1>5. \A l \in pending' : wk'[l] = "stopped"
  <2> SUFFICES ASSUME NEW l \in pending' PROVE wk'[l] = "stopped"
    OBVIOUS
  <2>0. l \in LogIds BY <1>0 DEF TypeOK
  <2>1. CASE l \in pending
    <3>1. wk[l] = "stopped" /\ l \notin due
      BY <1>0, <2>1 DEF CycleInv
    <3> QED BY <1>0, <2>0, <3>1, ProgressStep
  <2>2. CASE l \notin pending
    <3>1. FreeJobSlots
      BY <2>2 DEF Next, SessionNext, ObjectNext, SchedulerNext, WorkerNext,
       CreateJob, EnableJob, DisableJob, DropJob, RunJobStart, RunJobSucceeds,
       RunJobRollsBack, PurgeLog, CreateProgram, EnableProgram, DisableProgram,
       DropProgram, CreateSchedule, DropSchedule, CleanupOrphans,
       ReconcileStopped, ScanDueJobs, ClaimDueJobs, SpawnJobWorker, SpawnFails,
       TransientError, Wake, WorkerLoad, WorkerExecute, WorkerFinish,
       WorkerFinishUnloaded, WorkerDies, ComesDue, SchedulerStart,
       SchedulerExit, SchedulerGone, ServerCrash, vars, schedVars
    <3> QED BY <2>2, <3>1 DEF FreeJobSlots, GoneSlots
  <2> QED BY <2>1, <2>2

<1>6. /\ pc' # "claim" => scan' = {}
      /\ pc' # "dispatch" => due' = {}
      /\ ~cleaned' => pc' \in {"down", "cycle", "sleep"}
  <2>1. CASE SchedulerStart \/ SchedulerExit \/ ServerCrash
    BY <1>0, <2>1 DEF SchedulerStart, SchedulerExit, ServerCrash, SchedulerGone,
       CycleInv
  <2>2. CASE SchedulerNext
    <3>1. CASE CleanupOrphans \/ FreeJobSlots \/ ReconcileStopped
      BY <1>0, <3>1 DEF CleanupOrphans, FreeJobSlots, GoScanOrSleep,
         ReconcileStopped, CycleInv, TypeOK
    <3>2. CASE ScanDueJobs \/ TransientError \/ Wake
      BY <1>0, <3>2 DEF ScanDueJobs, TransientError, Wake, CycleInv, TypeOK
    <3>3. CASE ClaimDueJobs
      BY <1>0, <3>3 DEF ClaimDueJobs, GoDispatch, CycleInv, TypeOK
    <3>4. ASSUME NEW l \in LogIds, SpawnJobWorker(l) \/ SpawnFails(l)
          PROVE  /\ scan' = {} /\ cleaned'
                 /\ pc' # "dispatch" => due' = {}
      BY <1>0, <3>4 DEF SpawnJobWorker, SpawnFails, GoDispatch, CycleInv, TypeOK
    <3> QED BY <2>2, <3>1, <3>2, <3>3, <3>4 DEF SchedulerNext
  <2>3. CASE UNCHANGED schedVars
    BY <1>0, <2>3 DEF schedVars, CycleInv
  <2> QED
    BY <2>1, <2>2, <2>3 DEF Next, SessionNext, ObjectNext, WorkerNext, CreateJob,
       EnableJob, DisableJob, DropJob, RunJobStart, RunJobSucceeds,
       RunJobRollsBack, PurgeLog, CreateProgram, EnableProgram, DisableProgram,
       DropProgram, CreateSchedule, DropSchedule, WorkerLoad, WorkerExecute,
       WorkerFinish, WorkerFinishUnloaded, WorkerDies, ComesDue, vars
<1>7. ASSUME ~cleaned', pc' # "down", NEW l \in LogIds
      PROVE  wk'[l] \in {"none", "stopped"}
  <2>1. CASE SchedulerStart
    BY <2>1 DEF SchedulerStart, Careful, Live
  <2>2. CASE ~SchedulerStart
    <3>1. ~cleaned /\ pc # "down"
      BY <1>0, <1>7, <2>2 DEF Next, SessionNext, ObjectNext, SchedulerNext,
       WorkerNext, CreateJob, EnableJob, DisableJob, DropJob, RunJobStart,
       RunJobSucceeds, RunJobRollsBack, PurgeLog, CreateProgram, EnableProgram,
       DisableProgram, DropProgram, CreateSchedule, DropSchedule, CleanupOrphans,
       FreeJobSlots, ReconcileStopped, ScanDueJobs, ClaimDueJobs, SpawnJobWorker,
       SpawnFails, TransientError, Wake, WorkerLoad, WorkerExecute, WorkerFinish,
       WorkerFinishUnloaded, WorkerDies, ComesDue, SchedulerExit, SchedulerGone,
       ServerCrash, vars, schedVars, TypeOK
    <3>2. pc # "dispatch" /\ wk[l] \in {"none", "stopped"}
      BY <1>0, <3>1 DEF CycleInv, Live
    <3> QED BY <1>0, <3>2, ProgressStep
  <2> QED BY <2>1, <2>2
<1> QED BY <1>2, <1>3, <1>4, <1>5, <1>6, <1>7 DEF CycleInv, Live

-----------------------------------------------------------------------------

(* A step other than a claim keeps RunsInv if it closes no run in progress   *)
(* and takes RUNNING away from no job that still has an open run.            *)
LEMMA RunsKept ==
    ASSUME Careful, ExclusionInv, [Next]_vars, ~ClaimDueJobs,
           \A l \in LogIds : InProgress(l)' => log'[l].status = "r",
           \A l \in LogIds, n \in Names :
             log'[l].status = "r" /\ log[l].status = "r" /\ log[l].job = jobs[n].id
             /\ jobs'[n].id = jobs[n].id /\ jobs[n].state = "RUNNING"
               => jobs'[n].state = "RUNNING"
    PROVE  RunsInv'
<1>0. TypeOK /\ RunsInv /\ IdsKnown BY DEF ExclusionInv
<1>1. \A l \in LogIds : log[l].status = "r" =>
        log[l].job \in usedIds /\ log[l].name \in Names /\ log[l].job # NoId
  BY <1>0, ConstantsAssumption DEF IdsKnown, TypeOK
<1>2. \A l \in LogIds : log'[l].status = "r" => log'[l] = log[l]
  <2> SUFFICES ASSUME NEW l \in LogIds, log'[l].status = "r" PROVE log'[l] = log[l]
    OBVIOUS
  <2> QED BY LogSteps DEF LogStep
<1>3. ASSUME NEW l \in LogIds, InProgress(l)'
      PROVE  jobs'[log'[l].name].id = log'[l].job
  <2>1. InProgress(l)
    BY <1>0, <1>3, ProgressStep DEF InProgress, Live
  <2>2. log'[l] = log[l] BY <1>2, <1>3
  <2>3. /\ log[l].name \in Names /\ jobs[log[l].name].id = log[l].job
        /\ Exists(log[l].name)
    BY <1>0, <1>1, <2>1 DEF RunsInv, Exists
  <2>4. ~DropJob(log[l].name)
    BY <2>1 DEF DropJob, Careful
  <2> QED BY <1>0, <2>2, <2>3, <2>4, IdStep
<1>4. ASSUME NEW l \in LogIds, NEW n \in Names, log'[l].status = "r",
             log'[l].job = jobs'[n].id
      PROVE  jobs'[n].state = "RUNNING"
  <2>1. log[l].status = "r" /\ log[l].job = jobs'[n].id BY <1>2, <1>4
  <2>2. jobs'[n].id = jobs[n].id
    BY <1>0, <1>1, <2>1, IdStep DEF NoJob
  <2> QED BY <1>0, <1>4, <2>1, <2>2 DEF RunsInv
<1> QED BY <1>0, <1>2, <1>3, <1>4 DEF RunsInv

(* The claim starts runs only for jobs that have none.                       *)
LEMMA RunsClaimed ==
    ASSUME ExclusionInv, ClaimDueJobs
    PROVE  RunsInv'
<1> USE ConstantsAssumption
<1>0. TypeOK /\ RunsInv /\ IdsKnown /\ CycleInv BY DEF ExclusionInv
<1>1. PICK broken \in SUBSET scan, later \in SUBSET {r \in scan : r.rep} :
        \E runs \in LogIdsFor(Winners(scan \ broken)) :
          /\ jobs' = ClaimedJobs(broken, later)
          /\ log' = ClaimedLog(runs)
          /\ GoDispatch(DOMAIN runs)
  BY DEF ClaimDueJobs
<1> DEFINE won == Winners(scan \ broken)
<1>2. PICK runs \in LogIdsFor(won) :
        /\ jobs' = ClaimedJobs(broken, later)
        /\ log' = ClaimedLog(runs)
        /\ GoDispatch(DOMAIN runs)
  BY <1>1
<1>3. /\ runs \in UNION {[ls -> won] : ls \in SUBSET UnusedLogs}
      /\ \A k, l \in DOMAIN runs : runs[k] = runs[l] => k = l
  BY <1>2 DEF LogIdsFor
<1>4. \A r \in won :
        /\ r \in scan \ broken /\ r.name \in Names /\ jobs[r.name].id = r.id
        /\ jobs[r.name].state # "RUNNING" /\ Exists(r.name)
        /\ jobs[r.name] \in JobRow
  <2> SUFFICES ASSUME NEW r \in won
               PROVE  /\ r \in scan \ broken /\ r.name \in Names
                      /\ jobs[r.name].id = r.id
                      /\ jobs[r.name].state # "RUNNING" /\ Exists(r.name)
                      /\ jobs[r.name] \in JobRow
    OBVIOUS
  <2>1. r \in scan \ broken /\ jobs[r.name].id = r.id /\ jobs[r.name].enabled
    BY DEF Winners
  <2>2. r.name \in Names BY <1>0, <2>1 DEF TypeOK, ScanRow
  <2>3. jobs[r.name] \in JobRow BY <1>0, <2>1, <2>2, TableRows
  <2>4. jobs[r.name].state # "RUNNING" BY <1>0, <2>1 DEF CycleInv
  <2> QED BY <2>1, <2>2, <2>3, <2>4 DEF Exists, JobRow
<1>5. /\ \A n \in Names : Exists(n) => jobs[n] \in JobRow
      /\ \A r \in won, b \in BOOLEAN :
           /\ Claimed(jobs[r.name], b).id = jobs[r.name].id
           /\ Claimed(jobs[r.name], b).state = "RUNNING"
  BY <1>0, <1>4, TableRows, ClaimKeepsId
<1>6. \A n \in Names : jobs'[n].id = jobs[n].id
  <2> SUFFICES ASSUME NEW n \in Names PROVE jobs'[n].id = jobs[n].id
    OBVIOUS
  <2>1. \/ jobs'[n] = jobs[n]
        \/ Exists(n) /\ jobs'[n] = Broken(jobs[n])
        \/ (\E r \in won : r.name = n) /\ \E b \in BOOLEAN : jobs'[n] = Claimed(jobs[n], b)
    BY <1>2 DEF ClaimedJobs
  <2>2. Exists(n) => Broken(jobs[n]).id = jobs[n].id
    BY <1>5 DEF Broken, JobRow
  <2>3. CASE /\ \E r \in won : r.name = n
             /\ \E b \in BOOLEAN : jobs'[n] = Claimed(jobs[n], b)
    <3>1. PICK r \in won : r.name = n BY <2>3
    <3>2. PICK b \in BOOLEAN : jobs'[n] = Claimed(jobs[r.name], b) BY <2>3, <3>1
    <3> QED BY <1>5, <3>1, <3>2
  <2> QED BY <2>1, <2>2, <2>3
<1>7. \A n \in Names : jobs[n].state = "RUNNING" => jobs'[n].state = "RUNNING"
  <2> SUFFICES ASSUME NEW n \in Names, jobs[n].state = "RUNNING"
               PROVE  jobs'[n] = jobs[n]
    OBVIOUS
  <2>1. ~\E r \in scan : r.name = n BY <1>0 DEF CycleInv
  <2>2. ~\E r \in won : r.name = n BY <1>4, <2>1
  <2> QED BY <1>2, <2>1, <2>2 DEF ClaimedJobs
<1>8. \A r \in won : jobs'[r.name].state = "RUNNING"
  <2> SUFFICES ASSUME NEW r \in won PROVE jobs'[r.name].state = "RUNNING"
    OBVIOUS
  <2>1. ~\E q \in broken : q.name = r.name
    BY <1>0, <1>4 DEF CycleInv
  <2>2. \E b \in BOOLEAN : jobs'[r.name] = Claimed(jobs[r.name], b)
    BY <1>2, <1>4, <2>1 DEF ClaimedJobs
  <2> QED BY <1>5, <2>2
<1> HIDE DEF won
<1>9. PICK ls \in SUBSET UnusedLogs : runs \in [ls -> won]
  BY <1>3
<1>10. \A l \in LogIds :
         /\ l \in DOMAIN runs => /\ log[l].status = "none" /\ runs[l] \in won
                                 /\ log'[l].status = "r" /\ log'[l].job = runs[l].id
                                 /\ log'[l].name = runs[l].name
         /\ l \notin DOMAIN runs => log'[l] = log[l]
  BY <1>2, <1>9 DEF ClaimedLog, UnusedLogs
<1>11. ASSUME NEW l \in LogIds, InProgress(l)'
       PROVE  log'[l].status = "r" /\ jobs'[log'[l].name].id = log'[l].job
  <2>1. CASE l \in DOMAIN runs BY <1>4, <1>6, <1>10, <2>1
  <2>2. CASE l \notin DOMAIN runs
    <3>1. InProgress(l) BY <1>2, <1>11, <2>2 DEF ClaimDueJobs, GoDispatch, InProgress, Live
    <3>2. log[l].status = "r" /\ jobs[log[l].name].id = log[l].job
      BY <1>0, <3>1 DEF RunsInv
    <3>3. log[l].name \in Names BY <1>0, <3>2 DEF IdsKnown
    <3> QED BY <1>6, <1>10, <2>2, <3>2, <3>3
  <2> QED BY <2>1, <2>2
<1>12. ASSUME NEW k \in LogIds, NEW l \in LogIds, k \notin DOMAIN runs,
              l \in DOMAIN runs, log[k].status = "r", log[k].job = runs[l].id
       PROVE  FALSE
  BY <1>0, <1>4, <1>10, <1>12 DEF RunsInv
<1>13. ASSUME NEW k \in LogIds, NEW l \in LogIds, log'[k].status = "r",
              log'[l].status = "r", log'[k].job = log'[l].job
       PROVE  k = l
  <2>1. CASE k \in DOMAIN runs /\ l \in DOMAIN runs
    <3>1. runs[k] \in won /\ runs[l] \in won /\ runs[k].id = runs[l].id
      BY <1>10, <1>13, <2>1
    <3>2. runs[k].name = runs[l].name BY <1>0, <1>4, <3>1 DEF IdsKnown
    <3>3. runs[k] = runs[l] BY <1>0, <1>4, <3>1, <3>2 DEF CycleInv
    <3> QED BY <1>3, <2>1, <3>3
  <2>2. CASE k \notin DOMAIN runs /\ l \notin DOMAIN runs
    BY <1>0, <1>10, <1>13, <2>2 DEF RunsInv
  <2>3. CASE k \in DOMAIN runs /\ l \notin DOMAIN runs
    BY <1>10, <1>12, <1>13, <2>3
  <2>4. CASE k \notin DOMAIN runs /\ l \in DOMAIN runs
    BY <1>10, <1>12, <1>13, <2>4
  <2> QED BY <2>1, <2>2, <2>3, <2>4
<1>14. ASSUME NEW l \in LogIds, NEW n \in Names, log'[l].status = "r",
              log'[l].job = jobs'[n].id
       PROVE  jobs'[n].state = "RUNNING"
  <2>1. CASE l \in DOMAIN runs
    <3>1. runs[l] \in won /\ runs[l].id = jobs[n].id BY <1>6, <1>10, <1>14, <2>1
    <3>2. n = runs[l].name BY <1>0, <1>4, <3>1 DEF IdsKnown
    <3> QED BY <1>8, <3>1, <3>2
  <2>2. CASE l \notin DOMAIN runs
    BY <1>0, <1>6, <1>7, <1>10, <1>14, <2>2 DEF RunsInv
  <2> QED BY <2>1, <2>2
<1> QED BY <1>11, <1>13, <1>14 DEF RunsInv

(* RunsInv is preserved.                                                     *)
LEMMA RunsStep == Careful /\ ExclusionInv /\ [Next]_vars => RunsInv'
<1> SUFFICES ASSUME Careful, ExclusionInv, [Next]_vars, ~ClaimDueJobs PROVE RunsInv'
  BY RunsClaimed
<1> USE ConstantsAssumption
<1> DEFINE Safe == \A l \in LogIds : InProgress(l)' => log'[l].status = "r"
           Held == \A l \in LogIds, n \in Names :
             log'[l].status = "r" /\ log[l].status = "r" /\ log[l].job = jobs[n].id
             /\ jobs'[n].id = jobs[n].id /\ jobs[n].state = "RUNNING"
               => jobs'[n].state = "RUNNING"
<1>0. TypeOK /\ RunsInv /\ IdsKnown /\ CycleInv BY DEF ExclusionInv
<1>1. ASSUME NEW l \in LogIds, InProgress(l)' PROVE InProgress(l) /\ log[l].status = "r"
  BY <1>0, <1>1, ProgressStep DEF InProgress, Live, RunsInv
<1>2. UNCHANGED log => Safe BY <1>1
<1>3. UNCHANGED jobs => Held OBVIOUS
<1>4. \A n \in Names : Exists(n) => jobs[n] \in JobRow BY <1>0, TableRows
<1>5. ASSUME NEW n \in Names, NEW next \in {"due", "future"}, Exists(n),
             jobs[n].state = "RUNNING"
      PROVE  /\ Enabled(jobs[n], next).state = "RUNNING"
             /\ Withdrawn(jobs[n]).state = "RUNNING"
             /\ [jobs[n] EXCEPT !.next = next].state = "RUNNING"
  BY <1>4, <1>5 DEF Enabled, Withdrawn, JobRow
<1>6. \A n \in Names : jobs[n].state = "RUNNING" => Exists(n)
  BY <1>0, TableRows DEF NoJob
<1>7. ASSUME NEW n \in Names, NEW rep \in BOOLEAN, NEW enable \in BOOLEAN,
             NEW next \in {"due", "future"}, CreateJob(n, rep, enable, next)
      PROVE  Safe /\ Held
  <2>1. jobs[n].state # "RUNNING" BY <1>6, <1>7 DEF CreateJob
  <2> QED BY <1>0, <1>2, <1>7, <2>1 DEF CreateJob, TypeOK
<1>8. ASSUME NEW n \in Names, NEW next \in {"due", "future"}, EnableJob(n, next)
      PROVE  Safe /\ Held
  BY <1>0, <1>2, <1>5, <1>8 DEF EnableJob, TypeOK
<1>9. ASSUME NEW n \in Names, DisableJob(n) \/ ComesDue(n) PROVE Safe /\ Held
  <2>1. ASSUME DisableJob(n) PROVE Safe /\ Held
    BY <1>0, <1>2, <1>5, <2>1 DEF DisableJob, TypeOK
  <2>2. ASSUME ComesDue(n) PROVE Safe /\ Held
    BY <1>0, <1>2, <1>5, <1>6, <2>2 DEF ComesDue, TypeOK
  <2> QED BY <1>9, <2>1, <2>2
<1>10. ASSUME NEW n \in Names, DropJob(n) PROVE Safe /\ Held
  BY <1>0, <1>2, <1>10 DEF DropJob, TypeOK, NoJob, Exists
<1>11. ASSUME ObjectNext PROVE Safe /\ Held
  <2>1. \A force \in BOOLEAN : WithdrawDependents(force) => Held
    BY <1>5 DEF WithdrawDependents
  <2> QED
    BY <1>2, <1>3, <1>11, <2>1 DEF ObjectNext, CreateProgram, EnableProgram,
       DisableProgram, DropProgram, DropSchedule, CreateSchedule
<1>12. ASSUME RunJobSucceeds PROVE Safe /\ Held
  <2>1. fg \in FgRun /\ log[fg.log].status = "none"
    BY <1>0, <1>12 DEF RunJobSucceeds, TypeOK, IdsKnown
  <2>2. Safe BY <1>0, <1>1, <1>12, <2>1 DEF RunJobSucceeds, TypeOK
  <2>3. jobs[fg.name].state # "RUNNING" BY <1>12 DEF RunJobSucceeds, Careful
  <2>4. Held BY <1>0, <1>12, <2>3 DEF RunJobSucceeds, TypeOK
  <2> QED BY <2>2, <2>4
<1>13. ASSUME NEW rows \in SUBSET LogIds, PurgeLog(rows) PROVE Safe /\ Held
  BY <1>1, <1>3, <1>13 DEF PurgeLog, tableVars
<1>14. ASSUME CleanupOrphans PROVE Safe /\ Held
  <2>1. \A l \in LogIds : ~InProgress(l)
    BY <1>0, <1>14 DEF CleanupOrphans, CycleInv, InProgress
  <2>2. \A l \in LogIds : log'[l].status # "r"
    BY <1>0, <1>14 DEF CleanupOrphans, TypeOK, LogRow
  <2> QED BY <1>1, <2>1, <2>2
<1>15. ASSUME ReconcileStopped PROVE Safe /\ Held
  <2>1. \A l \in pending : l \in LogIds /\ ~InProgress(l)
    BY <1>0, <1>15 DEF ReconcileStopped, CycleInv, InProgress, Live, TypeOK
  <2>2. Safe
    BY <1>1, <1>15, <2>1 DEF ReconcileStopped, StillOpen
  <2>3. \A l \in StillOpen(pending) :
          l \in LogIds /\ log[l].status = "r" /\ log'[l].status # "r"
    BY <1>0, <1>15, <2>1 DEF ReconcileStopped, StillOpen, TypeOK, LogRow
  <2>4. Held
    BY <1>0, <1>15, <2>3, ZenonT(60) DEF ReconcileStopped, RunsInv
  <2> QED BY <2>2, <2>4
<1>16. ASSUME NEW k \in LogIds, SpawnFails(k) PROVE Safe /\ Held
  <2>1. /\ log[k].status = "r" /\ wk[k] = "none" /\ wk' = wk /\ due' = due \ {k}
        /\ log'[k].status = "f"
    BY <1>0, <1>16 DEF SpawnFails, GoDispatch, RunsInv, InProgress, CycleInv,
       TypeOK, LogRow
  <2>2. ~InProgress(k)' BY <2>1 DEF InProgress, Live
  <2>3. Safe BY <1>0, <1>1, <1>16, <2>2 DEF SpawnFails, TypeOK
  <2>4. Held BY <1>0, <1>16, <2>1 DEF SpawnFails, RunsInv
  <2> QED BY <2>3, <2>4
<1>17. ASSUME NEW k \in LogIds, WorkerFinish(k) \/ WorkerFinishUnloaded(k)
       PROVE  Safe /\ Held
  <2>1. /\ InProgress(k) /\ log[k].status = "r" /\ k \notin due
        /\ log[k].name \in Names /\ jobs[log[k].name].id = log[k].job
    BY <1>0, <1>17 DEF WorkerFinish, WorkerFinishUnloaded, InProgress, Live,
       RunsInv, CycleInv, IdsKnown
  <2>2. wk'[k] = "stopped" /\ due' = due
    BY <1>0, <1>17 DEF WorkerFinish, WorkerFinishUnloaded, TypeOK, schedVars
  <2>3. log'[k].status \in {"s", "f"}
    BY <1>0, <1>17, <2>1 DEF WorkerFinish, WorkerFinishUnloaded, LogFinished,
       TypeOK, LogRow
  <2>4. \A l \in LogIds \ {k} : log'[l] = log[l]
    BY <1>0, <1>17 DEF WorkerFinish, WorkerFinishUnloaded, LogFinished, TypeOK
  <2>5. ~InProgress(k)' BY <2>1, <2>2 DEF InProgress, Live
  <2>6. Safe BY <1>1, <2>4, <2>5
  <2>7. \A n \in Names \ {log[k].name} : jobs'[n] = jobs[n]
    BY <1>0, <1>17 DEF WorkerFinish, WorkerFinishUnloaded, TypeOK, tableVars
  <2>8. Held BY <1>0, <2>1, <2>3, <2>7 DEF RunsInv
  <2> QED BY <2>6, <2>8
<1>18. ASSUME UNCHANGED <<jobs, log>> PROVE Safe /\ Held
  BY <1>2, <1>3, <1>18
<1>19. Safe /\ Held
  BY <1>7, <1>8, <1>9, <1>10, <1>11, <1>12, <1>13, <1>14, <1>15, <1>16, <1>17,
     <1>18 DEF Next, SessionNext, SchedulerNext, WorkerNext, RunJobStart,
     RunJobRollsBack, FreeJobSlots, ScanDueJobs, SpawnJobWorker, TransientError,
     Wake, WorkerLoad, WorkerExecute, WorkerDies, SchedulerStart, SchedulerExit,
     ServerCrash, vars, tableVars
<1> QED BY <1>19, RunsKept

(* The empty tables satisfy the invariant.                                   *)
LEMMA ExclusionInit == Init => ExclusionInv
<1> SUFFICES ASSUME Init PROVE ExclusionInv
  OBVIOUS
<1>1. TypeOK BY TypeInit
<1>2. IdsKnown BY DEF Init, IdsKnown, Exists, NoJob, NoLog
<1>3. CycleInv BY DEF Init, CycleInv
<1>4. RunsInv BY DEF Init, RunsInv, InProgress, Live, NoLog
<1> QED BY <1>1, <1>2, <1>3, <1>4 DEF ExclusionInv

(* Without restarts over live workers, drops under a run and manual runs     *)
(* recorded under a run, the exclusion invariant holds whatever else users,  *)
(* the clock, errors and crashes do.                                         *)
THEOREM ExclusionInvariant == ASSUME Careful PROVE Spec => []ExclusionInv
<1>1. ExclusionInv /\ [Next]_vars => ExclusionInv'
  BY TypeStep, IdsStep, CycleStep, RunsStep DEF ExclusionInv
<1> QED BY ExclusionInit, <1>1, PTL DEF Spec

(* "A job never runs twice at the same time": the due query's state test,    *)
(* the writers of state and the reconciliation exclude it together, for any  *)
(* number of jobs, runs and job workers.                                     *)
THEOREM NeverTwice == ASSUME Careful PROVE Spec => []NoOverlap
<1>1. ExclusionInv => NoOverlap
  BY DEF ExclusionInv, RunsInv, NoOverlap
<1> QED BY <1>1, ExclusionInvariant, PTL

(* "Only the run itself clears it": a job with a run in progress is RUNNING. *)
THEOREM OnlyTheRunClears == ASSUME Careful PROVE Spec => []RunHoldsState
<1>1. ExclusionInv => RunHoldsState
  BY DEF ExclusionInv, RunsInv, RunHoldsState
<1> QED BY <1>1, ExclusionInvariant, PTL

(* The log row of a live run stays 'r': neither cleanup nor reconciliation   *)
(* closes it and no purge deletes it.                                        *)
THEOREM LiveRunStaysOpen == ASSUME Careful PROVE Spec => []LiveRunOpen
<1>1. ExclusionInv => LiveRunOpen
  BY DEF ExclusionInv, RunsInv, InProgress, LiveRunOpen
<1> QED BY <1>1, ExclusionInvariant, PTL

(* An outcome once recorded is never rewritten: reconciliation, cleanup and  *)
(* late workers only ever close runs that are still open.                    *)
THEOREM OutcomesFinal == ASSUME Careful PROVE Spec => OutcomeFinal
<1> DEFINE Kept == \A l \in LogIds : log[l].status \in {"s", "f"} =>
                     log'[l].status \in {log[l].status, "purged"}
<1>1. ExclusionInv /\ [Next]_vars => Kept
  <2> SUFFICES ASSUME ExclusionInv, [Next]_vars, NEW l \in LogIds,
                      log[l].status \in {"s", "f"}
               PROVE  log'[l].status \in {log[l].status, "purged"}
    OBVIOUS
  <2> USE ConstantsAssumption
  <2>0. TypeOK /\ ~InProgress(l) BY DEF ExclusionInv, RunsInv
  <2>1. CASE RunJobSucceeds
    <3>1. fg \in FgRun /\ log[fg.log].status = "none"
      BY <2>0, <2>1 DEF RunJobSucceeds, TypeOK, ExclusionInv, IdsKnown
    <3> QED BY <2>0, <2>1, <3>1 DEF RunJobSucceeds, TypeOK
  <2>2. ASSUME NEW rows \in SUBSET LogIds, PurgeLog(rows)
        PROVE  log'[l].status \in {log[l].status, "purged"}
    BY <2>0, <2>2 DEF PurgeLog, TypeOK, LogRow
  <2>3. CASE CleanupOrphans \/ ReconcileStopped
    BY <2>0, <2>3 DEF CleanupOrphans, ReconcileStopped, StillOpen, TypeOK
  <2>4. CASE ClaimDueJobs
    BY <2>4, ClaimTakesUnused DEF UnusedLogs
  <2>5. ASSUME NEW k \in LogIds,
               SpawnFails(k) \/ WorkerFinish(k) \/ WorkerFinishUnloaded(k)
        PROVE  log'[l] = log[l]
    <3>1. InProgress(k)
      BY <2>5 DEF SpawnFails, WorkerFinish, WorkerFinishUnloaded, InProgress, Live
    <3> QED BY <2>0, <2>5, <3>1 DEF SpawnFails, WorkerFinish,
               WorkerFinishUnloaded, LogFinished, TypeOK
  <2>6. CASE UNCHANGED log BY <2>6
  <2> QED
    BY <2>1, <2>2, <2>3, <2>4, <2>5, <2>6 DEF Next, SessionNext, ObjectNext,
       SchedulerNext, WorkerNext, CreateJob, EnableJob, DisableJob, DropJob,
       RunJobStart, RunJobRollsBack, CreateProgram, EnableProgram,
       DisableProgram, DropProgram, CreateSchedule, DropSchedule, FreeJobSlots,
       ScanDueJobs, SpawnJobWorker, TransientError, Wake, WorkerLoad,
       WorkerExecute, WorkerDies, ComesDue, SchedulerStart, SchedulerExit,
       ServerCrash, vars
<1>2. [][Kept]_vars <=> OutcomeFinal BY DEF OutcomeFinal
<1> QED BY <1>1, <1>2, ExclusionInvariant, PTL DEF Spec

(************************ What JobRuns promises *****************************)

(* What RunState and RunJob say of one run.                                  *)
StateOf(l) ==
    IF InProgress(l) THEN "active"
    ELSE IF log[l].status = "none" THEN "unused"
    ELSE IF log[l].status = "r" THEN "open"
    ELSE log[l].status

(* The mapped state is unchanged when no run changes state or job.           *)
LEMMA SameRuns ==
    ASSUME \A l \in LogIds : StateOf(l)' = StateOf(l) /\ log'[l].job = log[l].job
    PROVE  UNCHANGED <<RunState, RunJob>>
BY DEF RunState, RunJob, StateOf

(* Runs that go together from one state to another, of unchanged jobs, make  *)
(* a Move of the abstract specification, or no step when there are none.     *)
LEMMA MovedRuns ==
    ASSUME NEW rs \in SUBSET LogIds, NEW from, NEW to,
           \A l \in rs : StateOf(l) = from /\ StateOf(l)' = to,
           \A l \in LogIds \ rs : StateOf(l)' = StateOf(l),
           \A l \in LogIds : log'[l].job = log[l].job
    PROVE  /\ UNCHANGED RunJob
           /\ rs # {} => Promise!Move(rs, from, to)
           /\ rs = {} => UNCHANGED RunState
<1>1. UNCHANGED RunJob BY DEF RunJob
<1>2. \A l \in LogIds : RunState[l] = StateOf(l) BY DEF RunState, StateOf
<1>3. RunState' = [l \in LogIds |-> StateOf(l)'] BY DEF RunState, StateOf
<1>4. rs # {} => Promise!Move(rs, from, to)
  <2>1. RunState' = [l \in LogIds |-> IF l \in rs THEN to ELSE RunState[l]]
    BY <1>2, <1>3
  <2> QED BY <1>2, <2>1 DEF Promise!Move
<1>5. rs = {} => UNCHANGED RunState
  BY <1>3 DEF RunState, StateOf
<1> QED BY <1>1, <1>4, <1>5

(* Runs that end without an outcome are interrupted.                         *)
LEMMA Interrupted ==
    ASSUME ExclusionInv, UNCHANGED log, NEW rs \in SUBSET LogIds,
           \A l \in LogIds : InProgress(l)' <=> InProgress(l) /\ l \notin rs,
           \A l \in rs : InProgress(l)
    PROVE  Promise!Next \/ UNCHANGED <<RunState, RunJob>>
<1>1. \A l \in rs : log[l].status = "r" BY DEF ExclusionInv, RunsInv
<1>2. /\ \A l \in rs : StateOf(l) = "active" /\ StateOf(l)' = "open"
      /\ \A l \in LogIds \ rs : StateOf(l)' = StateOf(l)
      /\ \A l \in LogIds : log'[l].job = log[l].job
  BY <1>1 DEF StateOf
<1>3. rs # {} => Promise!Interrupt(rs)
  BY <1>2, MovedRuns DEF Promise!Interrupt
<1>4. rs = {} => UNCHANGED <<RunState, RunJob>>
  BY <1>2, MovedRuns
<1> QED BY <1>3, <1>4 DEF Promise!Next

(* Closing runs nobody executes any more.                                    *)
LEMMA Closed ==
    ASSUME ExclusionInv, UNCHANGED <<wk, due>>, NEW rs \in SUBSET LogIds,
           \A l \in rs : log[l].status = "r" /\ ~InProgress(l),
           log' = [l \in LogIds |-> IF l \in rs THEN [log[l] EXCEPT !.status = "f"]
                                               ELSE log[l]]
    PROVE  Promise!Next \/ UNCHANGED <<RunState, RunJob>>
<1>0. log \in [LogIds -> LogRow] BY DEF ExclusionInv, TypeOK
<1>1. \A l \in rs : log'[l].status = "f" /\ log'[l].job = log[l].job
  BY <1>0 DEF LogRow
<1>2. \A l \in LogIds \ rs : log'[l] = log[l] OBVIOUS
<1>3. \A l \in LogIds : InProgress(l)' <=> InProgress(l) BY DEF InProgress, Live
<1>4. /\ \A l \in rs : StateOf(l) = "open" /\ StateOf(l)' = "f"
      /\ \A l \in LogIds \ rs : StateOf(l)' = StateOf(l)
      /\ \A l \in LogIds : log'[l].job = log[l].job
  BY <1>1, <1>2, <1>3 DEF StateOf
<1>5. rs # {} => Promise!Close(rs)
  BY <1>4, MovedRuns DEF Promise!Close
<1>6. rs = {} => UNCHANGED <<RunState, RunJob>>
  BY <1>4, MovedRuns
<1> QED BY <1>5, <1>6 DEF Promise!Next

(* A run that ends and gets its outcome in the same step finishes.           *)
LEMMA Finished ==
    ASSUME ExclusionInv, NEW k \in LogIds, NEW outcome \in {"s", "f"},
           InProgress(k), ~InProgress(k)',
           \A l \in LogIds \ {k} : InProgress(l)' <=> InProgress(l),
           log' = [log EXCEPT ![k].status = outcome]
    PROVE  Promise!Next
<1>0. log \in [LogIds -> LogRow] BY DEF ExclusionInv, TypeOK
<1>1. log'[k].status = outcome /\ log'[k].job = log[k].job BY <1>0 DEF LogRow
<1>2. \A l \in LogIds \ {k} : log'[l] = log[l] BY <1>0
<1>3. /\ \A l \in {k} : StateOf(l) = "active" /\ StateOf(l)' = outcome
      /\ \A l \in LogIds \ {k} : StateOf(l)' = StateOf(l)
      /\ \A l \in LogIds : log'[l].job = log[l].job
  BY <1>1, <1>2 DEF StateOf
<1>4. UNCHANGED RunJob /\ Promise!Move({k}, "active", outcome)
  BY <1>3, MovedRuns
<1> QED BY <1>4 DEF Promise!Next, Promise!Finish

(* A claim begins runs of jobs that have none.                               *)
LEMMA ClaimBegins ==
    ASSUME Careful, ExclusionInv, ExclusionInv', ClaimDueJobs, [Next]_vars
    PROVE  Promise!Next \/ UNCHANGED <<RunState, RunJob>>
<1> USE ConstantsAssumption
<1>0. TypeOK /\ TypeOK' /\ RunsInv /\ RunsInv' /\ CycleInv BY DEF ExclusionInv
<1>1. /\ due = {} /\ due' \subseteq LogIds /\ wk' = wk
  BY <1>0 DEF ClaimDueJobs, CycleInv, TypeOK
<1>2. /\ \A l \in due' : log[l].status = "none"
      /\ \A l \in LogIds \ due' : log'[l] = log[l]
  BY ClaimTakesUnused DEF UnusedLogs
<1>3. \A l \in due' : ~InProgress(l) /\ InProgress(l)'
  BY <1>0, <1>1, <1>2 DEF RunsInv, InProgress
<1>4. \A l \in LogIds \ due' : InProgress(l)' <=> InProgress(l)
  BY <1>1 DEF InProgress, Live
<1>5. \A l \in due' : StateOf(l) = "unused" /\ StateOf(l)' = "active"
  BY <1>1, <1>2, <1>3 DEF StateOf
<1>6. \A l \in LogIds \ due' : StateOf(l)' = StateOf(l)
  BY <1>2, <1>4 DEF StateOf
<1>7. CASE due' = {}
  <2>1. \A l \in LogIds : StateOf(l)' = StateOf(l) /\ log'[l].job = log[l].job
    BY <1>2, <1>6, <1>7
  <2> QED BY <2>1, SameRuns
<1>8. CASE due' # {}
  <2>1. RunState' = [l \in LogIds |-> IF l \in due' THEN "active" ELSE RunState[l]]
    BY <1>1, <1>5, <1>6 DEF RunState, StateOf
  <2>2. \A l \in due' : RunState[l] = "unused"
    BY <1>1, <1>5 DEF RunState, StateOf
  <2>3. Promise!Move(due', "unused", "active")
    BY <1>8, <2>1, <2>2 DEF Promise!Move
  <2>4. RunJob' \in [LogIds -> JobIds \cup {NoId}]
    BY <1>0 DEF RunJob, TypeOK, LogRow
  <2>5. \A l \in LogIds \ due' : RunJob'[l] = RunJob[l]
    BY <1>2 DEF RunJob
  <2>6. ASSUME NEW r \in due', NEW q \in LogIds
        PROVE  /\ RunJob'[r] # NoId
               /\ RunState'[q] = "active" /\ RunJob'[q] = RunJob'[r] => q = r
    <3>1. r \in LogIds /\ InProgress(r)' /\ log'[r].status = "r"
      BY <1>0, <1>1, <1>3 DEF RunsInv
    <3>2. log'[r].job \in usedIds'
      BY <3>1 DEF ExclusionInv, IdsKnown
    <3>3. RunJob'[r] # NoId
      BY <1>0, <3>1, <3>2 DEF RunJob, TypeOK
    <3>4. ASSUME RunState'[q] = "active" PROVE log'[q].status = "r"
      <4>1. CASE q \in due'
        BY <1>0, <1>3, <4>1 DEF RunsInv
      <4>2. CASE q \notin due'
        <5>1. RunState[q] = "active" BY <2>1, <3>4, <4>2
        <5>2. log[q].status \in {"none", "r", "s", "f", "purged"}
          BY <1>0 DEF TypeOK, LogRow
        <5>3. InProgress(q) BY <5>1, <5>2 DEF RunState
        <5> QED BY <1>0, <1>2, <4>2, <5>3 DEF RunsInv
      <4> QED BY <4>1, <4>2
    <3> QED BY <1>0, <3>1, <3>3, <3>4 DEF RunsInv, RunJob
  <2>7. Promise!Begin(due')
    BY <2>3, <2>4, <2>5, <2>6 DEF Promise!Begin
  <2> QED BY <1>1, <2>7 DEF Promise!Next
<1> QED BY <1>7, <1>8

(* Every step of the scheduler, a worker or a session is a step of JobRuns   *)
(* or leaves the runs as they are.                                           *)
LEMMA StepRefines ==
    ASSUME Careful, ExclusionInv, ExclusionInv', [Next]_vars
    PROVE  Promise!Next \/ UNCHANGED <<RunState, RunJob>>
<1> USE ConstantsAssumption
<1> DEFINE Goal == Promise!Next \/ UNCHANGED <<RunState, RunJob>>
<1>0. TypeOK /\ RunsInv /\ CycleInv /\ IdsKnown BY DEF ExclusionInv
<1>1. ASSUME UNCHANGED log, \A l \in LogIds : InProgress(l)' <=> InProgress(l)
      PROVE  Goal
  BY <1>1, SameRuns DEF StateOf
<1>2. CASE UNCHANGED <<log, wk, due>>
  BY <1>1, <1>2 DEF InProgress, Live
<1>3. CASE RunJobSucceeds
  <2>1. /\ fg \in FgRun /\ log[fg.log].status = "none"
    BY <1>0, <1>3 DEF RunJobSucceeds, TypeOK, IdsKnown
  <2>2. fg.log \in LogIds /\ fg.job \in JobIds BY <2>1 DEF FgRun
  <2>3. /\ log'[fg.log].status = "s" /\ log'[fg.log].job = fg.job
        /\ \A l \in LogIds \ {fg.log} : log'[l] = log[l]
    BY <1>0, <1>3, <2>2 DEF RunJobSucceeds, TypeOK
  <2>4. \A l \in LogIds : InProgress(l)' <=> InProgress(l)
    BY <1>3 DEF RunJobSucceeds, schedVars, InProgress, Live
  <2>5. ~InProgress(fg.log) BY <1>0, <2>1, <2>2 DEF RunsInv
  <2>6. RunState' = [l \in LogIds |-> IF l \in {fg.log} THEN "s" ELSE RunState[l]]
    BY <2>2, <2>3, <2>4, <2>5 DEF RunState
  <2>7. RunState[fg.log] = "unused" BY <2>1, <2>2, <2>5 DEF RunState
  <2>8. RunJob' = [RunJob EXCEPT ![fg.log] = fg.job]
    BY <2>2, <2>3 DEF RunJob
  <2> QED BY <2>2, <2>6, <2>7, <2>8 DEF Promise!Next, Promise!Manual, Promise!Move
<1>4. ASSUME NEW rows \in SUBSET LogIds, PurgeLog(rows) PROVE Goal
  <2>1. \A l \in rows : log[l].status \in {"s", "f"} /\ ~InProgress(l)
    BY <1>0, <1>4 DEF PurgeLog, RunsInv
  <2>2. \A l \in LogIds : InProgress(l)' <=> InProgress(l)
    BY <1>4 DEF PurgeLog, schedVars, InProgress, Live
  <2>3. \A l \in LogIds : /\ log'[l].job = log[l].job
                          /\ l \in rows => log'[l].status = "purged"
                          /\ l \notin rows => log'[l] = log[l]
    BY <1>0, <1>4 DEF PurgeLog, TypeOK, LogRow
  <2>4. RunState' = [l \in LogIds |-> IF l \in rows THEN "purged" ELSE RunState[l]]
    BY <2>1, <2>2, <2>3 DEF RunState
  <2>5. \A l \in rows : RunState[l] \in {"s", "f"} BY <2>1 DEF RunState
  <2>6. UNCHANGED RunJob BY <2>3 DEF RunJob
  <2>7. rows # {} BY <1>4 DEF PurgeLog
  <2> QED BY <2>4, <2>5, <2>6, <2>7 DEF Promise!Next, Promise!Purge
<1>5. CASE CleanupOrphans
  <2> DEFINE rs == {l \in LogIds : log[l].status = "r"}
  <2>1. \A l \in LogIds : ~InProgress(l)
    BY <1>0, <1>5 DEF CleanupOrphans, CycleInv, InProgress
  <2>2. log' = [l \in LogIds |-> IF l \in rs THEN [log[l] EXCEPT !.status = "f"]
                                             ELSE log[l]]
    BY <1>5 DEF CleanupOrphans
  <2>3. UNCHANGED <<wk, due>> BY <1>5 DEF CleanupOrphans
  <2>4. rs \in SUBSET LogIds /\ \A l \in rs : log[l].status = "r" /\ ~InProgress(l)
    BY <2>1
  <2> HIDE DEF rs
  <2> QED BY <2>2, <2>3, <2>4, Closed
<1>6. CASE ReconcileStopped
  <2> DEFINE rs == StillOpen(pending)
  <2>1. rs \in SUBSET LogIds /\ \A l \in rs : log[l].status = "r" /\ ~InProgress(l)
    BY <1>0, <1>6 DEF ReconcileStopped, CycleInv, InProgress, Live, TypeOK, StillOpen
  <2>2. log' = [l \in LogIds |-> IF l \in rs THEN [log[l] EXCEPT !.status = "f"]
                                             ELSE log[l]]
    BY <1>6 DEF ReconcileStopped
  <2>3. UNCHANGED <<wk, due>> BY <1>6 DEF ReconcileStopped
  <2> HIDE DEF rs
  <2> QED BY <2>1, <2>2, <2>3, Closed
<1>7. CASE ClaimDueJobs
  BY <1>7, ClaimBegins
<1>8. ASSUME NEW k \in LogIds, SpawnJobWorker(k) PROVE Goal
  <2>1. UNCHANGED log /\ \A l \in LogIds : InProgress(l)' <=> InProgress(l)
    BY <1>0, <1>8 DEF SpawnJobWorker, GoDispatch, TypeOK, InProgress, Live
  <2> QED BY <1>1, <2>1
<1>9. ASSUME NEW k \in LogIds, SpawnFails(k) PROVE Goal
  <2>1. /\ InProgress(k) /\ ~InProgress(k)'
        /\ \A l \in LogIds \ {k} : InProgress(l)' <=> InProgress(l)
    BY <1>0, <1>9 DEF SpawnFails, GoDispatch, CycleInv, InProgress, Live
  <2>2. log' = [log EXCEPT ![k].status = "f"] BY <1>9 DEF SpawnFails
  <2> QED BY <2>1, <2>2, Finished
<1>10. ASSUME NEW k \in LogIds, WorkerFinish(k) \/ WorkerFinishUnloaded(k) PROVE Goal
  <2>1. InProgress(k) /\ log[k].status = "r" /\ k \notin due
    BY <1>0, <1>10 DEF WorkerFinish, WorkerFinishUnloaded, InProgress, Live,
       RunsInv, CycleInv
  <2>2. /\ ~InProgress(k)'
        /\ \A l \in LogIds \ {k} : InProgress(l)' <=> InProgress(l)
    BY <1>0, <1>10, <2>1 DEF WorkerFinish, WorkerFinishUnloaded, InProgress, Live,
       TypeOK, schedVars
  <2>3. \E outcome \in {"s", "f"} : log' = [log EXCEPT ![k].status = outcome]
    BY <1>10, <2>1 DEF WorkerFinish, WorkerFinishUnloaded, LogFinished
  <2> QED BY <2>1, <2>2, <2>3, Finished
<1>11. ASSUME NEW k \in LogIds,
              WorkerLoad(k) \/ \E ok \in BOOLEAN : WorkerExecute(k, ok)
       PROVE  Goal
  <2>1. UNCHANGED log /\ \A l \in LogIds : InProgress(l)' <=> InProgress(l)
    BY <1>0, <1>11 DEF WorkerLoad, WorkerExecute, schedVars, TypeOK, InProgress, Live
  <2> QED BY <1>1, <2>1
<1>12. ASSUME NEW k \in LogIds, WorkerDies(k) PROVE Goal
  <2>1. /\ UNCHANGED log /\ InProgress(k)
        /\ \A l \in LogIds : InProgress(l)' <=> InProgress(l) /\ l \notin {k}
    BY <1>0, <1>12 DEF WorkerDies, schedVars, CycleInv, TypeOK, InProgress, Live
  <2> QED BY <2>1, Interrupted
<1>13. CASE TransientError \/ SchedulerExit
  <2>1. /\ UNCHANGED log /\ due \in SUBSET LogIds /\ \A l \in due : InProgress(l)
        /\ \A l \in LogIds : InProgress(l)' <=> InProgress(l) /\ l \notin due
    BY <1>0, <1>13 DEF TransientError, SchedulerExit, SchedulerGone, CycleInv,
       TypeOK, InProgress, Live
  <2> QED BY <2>1, Interrupted
<1>14. CASE ServerCrash
  <2> DEFINE rs == {l \in LogIds : InProgress(l)}
  <2>1. /\ UNCHANGED log /\ rs \in SUBSET LogIds /\ \A l \in rs : InProgress(l)
        /\ \A l \in LogIds : InProgress(l)' <=> InProgress(l) /\ l \notin rs
    BY <1>0, <1>14 DEF ServerCrash, SchedulerGone, TypeOK, InProgress, Live
  <2> HIDE DEF rs
  <2> QED BY <2>1, Interrupted
<1> QED
  BY <1>2, <1>3, <1>4, <1>5, <1>6, <1>7, <1>8, <1>9, <1>10, <1>11, <1>12, <1>13,
     <1>14 DEF Next, SessionNext, ObjectNext, SchedulerNext, WorkerNext,
     CreateJob, EnableJob, DisableJob, DropJob, RunJobStart, RunJobRollsBack,
     CreateProgram, EnableProgram, DisableProgram, DropProgram, CreateSchedule,
     DropSchedule, FreeJobSlots, ScanDueJobs, Wake, ComesDue, SchedulerStart,
     vars, schedVars, tableVars

(* The scheduler, the workers and the sessions together implement JobRuns:   *)
(* per job one run after the other, per run one outcome, whatever users, the *)
(* clock, errors, kills and crashes do outside the hypothesis Careful.       *)
THEOREM SchedulerImplementsJobRuns == ASSUME Careful PROVE Spec => RunsAsPromised
<1>1. Init => Promise!Init
  BY DEF Init, Promise!Init, RunState, RunJob, InProgress, Live, NoLog
<1>2. ExclusionInv /\ ExclusionInv' /\ [Next]_vars => [Promise!Next]_(Promise!vars)
  BY StepRefines DEF Promise!vars
<1> QED BY <1>1, <1>2, ExclusionInvariant, PTL DEF Spec, RunsAsPromised, Promise!Spec
=============================================================================
