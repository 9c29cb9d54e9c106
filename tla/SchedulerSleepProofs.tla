------------------------ MODULE SchedulerSleepProofs ------------------------
(* A database scheduler does not oversleep and purges only while it is told  *)
(* to, for any number of jobs and slots, any calendar and any timing         *)
(* parameters: NoOversleep and PurgeObeysSetting.                            *)
EXTENDS SchedulerSleep, FiniteSetTheorems, SequenceTheorems, WellFoundedInduction, TLAPS

\* First-order reasoning does for most steps, arithmetic for the others.
USE ZenonT(10), SMTT(30)

(******************************** Operators *********************************)

(* What is taken from a sequence is of it, and is in the set asked for.      *)
LEMMA AmongTyped ==
    ASSUME NEW S, NEW q \in Seq(S), NEW keep
    PROVE  /\ Among(q, keep) \in Seq(S)
           /\ \A n \in DOMAIN Among(q, keep) : Among(q, keep)[n] \in keep
<1> DEFINE kept == {i \in DOMAIN q : q[i] \in keep}
           c == Cardinality(kept)
           upto(i) == {k \in kept : k <= i}
           rank(i) == Cardinality(upto(i))
           place == [i \in kept |-> rank(i)]
           at == [n \in 1 .. c |-> CHOOSE i \in kept : rank(i) = n]
<1>1. kept \subseteq 1 .. Len(q) /\ Len(q) \in Nat /\ DOMAIN q = 1 .. Len(q)
  OBVIOUS
<1>2. Among(q, keep) = [n \in 1 .. c |-> q[at[n]]]
  BY DEF Among
<1>3. \A i \in kept : q[i] \in S /\ q[i] \in keep
  OBVIOUS
<1>4. \A i \in kept : place[i] = rank(i) /\ rank(i) = Cardinality(upto(i))
  OBVIOUS
<1>5. \A n \in 1 .. c : (\E i \in kept : place[i] = n) => at[n] \in kept
  <2> HIDE DEF rank, kept, c
  <2> QED OBVIOUS
<1>6. /\ \A i \in kept : upto(i) \subseteq kept /\ i \in upto(i)
      /\ \A i, k \in kept : i < k => upto(i) \subseteq upto(k) /\ k \notin upto(i)
  <2>1. \A i \in kept : i \in Nat BY <1>1
  <2>2. ASSUME NEW i \in kept PROVE upto(i) \subseteq kept /\ i \in upto(i)
    BY <2>1
  <2>3. ASSUME NEW i \in kept, NEW k \in kept, i < k
        PROVE  upto(i) \subseteq upto(k) /\ k \notin upto(i)
    <3> HIDE DEF kept
    <3>1. i \in Nat /\ k \in Nat BY <2>1
    <3>2. ASSUME NEW x \in upto(i) PROVE x \in upto(k) BY <2>1, <2>3, <3>1
    <3>3. k \notin upto(i) BY <2>3, <3>1
    <3> HIDE DEF upto
    <3> QED BY <3>2, <3>3
  <2> QED BY <2>2, <2>3
<1> HIDE DEF kept, upto, rank, place
<1>7. IsFiniteSet(kept) /\ c \in Nat
  <2>1. IsFiniteSet(1 .. Len(q)) BY <1>1, FS_Interval
  <2> QED BY <1>1, <2>1, FS_Subset, FS_CardinalityType
<1> HIDE DEF c, at
<1>8. \A i \in kept : IsFiniteSet(upto(i)) /\ place[i] \in 1 .. c
  <2> SUFFICES ASSUME NEW i \in kept PROVE IsFiniteSet(upto(i)) /\ place[i] \in 1 .. c
    OBVIOUS
  <2>1. IsFiniteSet(upto(i)) /\ place[i] <= c /\ place[i] \in Nat
    BY <1>4, <1>6, <1>7, FS_Subset, FS_CardinalityType DEF c
  <2>2. place[i] # 0 BY <1>4, <1>6, <2>1, FS_EmptySet
  <2> QED BY <1>7, <2>1, <2>2
<1>9. place \in Injection(kept, 1 .. c)
  <2>1. place \in [kept -> 1 .. c] BY <1>8 DEF place
  <2>2. ASSUME NEW i \in kept, NEW k \in kept, i < k PROVE place[i] # place[k]
    BY <1>4, <1>6, <1>8, <2>2, FS_Subset
  <2>3. \A i, k \in kept : place[i] = place[k] => i = k
    BY <1>1, <2>2
  <2> QED BY <2>1, <2>3 DEF Injection, IsInjective
<1>10. \A n \in 1 .. c : at[n] \in kept
  <2>1. IsFiniteSet(1 .. c) /\ Cardinality(1 .. c) = c
    BY <1>7, FS_Interval
  <2>2. place \in Surjection(kept, 1 .. c) BY <1>9, <2>1, FS_Injection DEF c
  <2> QED BY <1>5, <2>2 DEF Surjection
<1>11. \A n \in 1 .. c : q[at[n]] \in S /\ q[at[n]] \in keep BY <1>3, <1>10
<1>12. Among(q, keep) \in Seq(S) BY <1>2, <1>7, <1>11
<1> QED BY <1>2, <1>11, <1>12

(* The rows of the due query are jobs.                                       *)
LEMMA DueRowsTyped ==
    ASSUME queue \in Seq(Jobs \cup {Open}), DOMAIN jobs \subseteq Jobs
    PROVE  DueRows \in Seq(Jobs)
<1> DEFINE W == {j \in DOMAIN jobs : Waiting(j)}
           due == Among(queue, W)
           n == IF Len(due) < Cardinality(Free) THEN Len(due) ELSE Cardinality(Free)
<1>1. DueRows = SubSeq(due, 1, n) BY DEF DueRows
<1>2. due \in Seq(Jobs \cup {Open}) /\ \A i \in DOMAIN due : due[i] \in W
  <2> HIDE DEF W
  <2> QED BY AmongTyped
<1>3. W \subseteq Jobs OBVIOUS
<1> HIDE DEF W, due
<1>4. Len(due) \in Nat /\ DOMAIN due = 1 .. Len(due) BY <1>2
<1>5. Cardinality(Free) \in Nat
  BY SleepAssumption, FS_Subset, FS_CardinalityType DEF Free
<1>6. n \in Nat /\ n <= Len(due) BY <1>4, <1>5
<1> HIDE DEF n
<1>7. \A i \in 1 .. n : due[i] \in Jobs BY <1>2, <1>3, <1>4, <1>6
<1> QED BY <1>1, <1>6, <1>7, SubSeqProperties

(* A set of numbers that is not empty has a least one.                       *)
LEMMA LeastNumber ==
    ASSUME NEW T \in SUBSET Nat, T # {}
    PROVE  \E j \in T : \A k \in T : j <= k
<1>1. \E j \in T : \A k \in T : ~(<<k, j>> \in OpToRel(<, Nat))
  BY NatLessThanWellFounded, WFMin, Zenon
<1>2. PICK j \in T : \A k \in T : ~(k < j) BY <1>1 DEF OpToRel
<1> QED BY <1>2

(* Rounding down to whole milliseconds does not lengthen a time.             *)
LEMMA Rounding ==
    ASSUME NEW t \in Nat \ {0}, NEW d \in Nat
    PROVE  d \div t \in Nat /\ (d \div t) * t <= d
OBVIOUS

(* A shorter timeout is shorter in ticks.                                    *)
LEMMA Scaling ==
    ASSUME NEW t \in Nat, NEW a \in Nat, NEW b \in Nat, a <= b
    PROVE  a * t \in Nat /\ b * t \in Nat /\ a * t <= b * t
OBVIOUS

(* sched_sleep_until keeps to the cap, and wakes no later than the sleep     *)
(* floor after the date.                                                     *)
LEMMA SleepUntilBounds ==
    ASSUME NEW date \in Dates, NEW cap \in Nat
    PROVE  /\ SleepUntil(date, cap) \in Nat /\ SleepUntil(date, cap) <= cap
           /\ date # None =>
                SleepUntil(date, cap) * TicksPerMs <= date + MinSleep * TicksPerMs
<1>0. TicksPerMs \in Nat \ {0} /\ MinSleep \in Nat BY SleepAssumption
<1>1. CASE date = None BY <1>1 DEF SleepUntil
<1>2. CASE date # None
  <2>0. date \in Nat BY <1>2 DEF Dates
  <2> DEFINE ms == date \div TicksPerMs
             low == IF ms < MinSleep THEN MinSleep ELSE ms
             r == IF low < cap THEN low ELSE cap
  <2>1. SleepUntil(date, cap) = r BY <1>2 DEF SleepUntil
  <2>2. ms \in Nat /\ ms * TicksPerMs <= date BY <1>0, <2>0, Rounding
  <2> HIDE DEF ms
  <2>3. low \in Nat /\ (low = MinSleep \/ low = ms) BY <1>0, <2>2
  <2> HIDE DEF low
  <2>4. r \in Nat /\ r <= cap /\ r <= low BY <2>3
  <2> HIDE DEF r
  <2>5. r * TicksPerMs \in Nat /\ low * TicksPerMs \in Nat
        /\ r * TicksPerMs <= low * TicksPerMs BY <1>0, <2>3, <2>4, Scaling
  <2>6. MinSleep * TicksPerMs \in Nat /\ ms * TicksPerMs \in Nat BY <1>0, <2>2, Scaling
  <2>7. low * TicksPerMs <= date + MinSleep * TicksPerMs
    <3>1. CASE low = MinSleep BY <2>0, <2>6, <3>1
    <3>2. CASE low = ms BY <2>0, <2>2, <2>6, <3>2
    <3> QED BY <2>3, <3>1, <3>2
  <2>8. r * TicksPerMs <= date + MinSleep * TicksPerMs BY <2>0, <2>5, <2>6, <2>7
  <2> QED BY <2>1, <2>4, <2>8
<1> QED BY <1>1, <1>2

(* The timeout of a cycle: no later than either deadline allows.             *)
LEMMA TimeoutBounds ==
    ASSUME nextDue \in Dates, purgeNext \in Dates
    PROVE  /\ Timeout * TicksPerMs \in 0 .. PollInterval * TicksPerMs
           /\ nextDue # None =>
                Timeout * TicksPerMs <= nextDue + MinSleep * TicksPerMs
           /\ purgeNext # None /\ ~draining =>
                Timeout * TicksPerMs <= purgeNext + MinSleep * TicksPerMs
<1>0. TicksPerMs \in Nat \ {0} /\ MinSleep \in Nat /\ PollInterval \in Nat
  BY SleepAssumption
<1> DEFINE forJobs == SleepUntil(nextDue, PollInterval)
           both == SleepUntil(purgeNext, forJobs)
<1>1. Timeout = IF draining THEN forJobs ELSE both BY DEF Timeout
<1>2. /\ forJobs \in Nat /\ forJobs <= PollInterval
      /\ nextDue # None => forJobs * TicksPerMs <= nextDue + MinSleep * TicksPerMs
  BY <1>0, SleepUntilBounds
<1> HIDE DEF forJobs
<1>3. /\ both \in Nat /\ both <= forJobs
      /\ purgeNext # None => both * TicksPerMs <= purgeNext + MinSleep * TicksPerMs
  BY <1>2, SleepUntilBounds
<1> HIDE DEF both
<1>4. Timeout \in Nat /\ Timeout <= forJobs /\ Timeout <= PollInterval
  BY <1>0, <1>1, <1>2, <1>3
<1>5. /\ Timeout * TicksPerMs \in Nat /\ forJobs * TicksPerMs \in Nat
      /\ PollInterval * TicksPerMs \in Nat /\ MinSleep * TicksPerMs \in Nat
      /\ Timeout * TicksPerMs <= forJobs * TicksPerMs
      /\ Timeout * TicksPerMs <= PollInterval * TicksPerMs
  BY <1>0, <1>2, <1>4, Scaling
<1>6. nextDue # None => Timeout * TicksPerMs <= nextDue + MinSleep * TicksPerMs
  <2> SUFFICES ASSUME nextDue # None
               PROVE  Timeout * TicksPerMs <= nextDue + MinSleep * TicksPerMs
    OBVIOUS
  <2>1. nextDue \in Nat BY DEF Dates
  <2>2. forJobs * TicksPerMs <= nextDue + MinSleep * TicksPerMs BY <1>2
  <2> QED BY <1>5, <2>1, <2>2
<1>7. purgeNext # None /\ ~draining =>
        Timeout * TicksPerMs <= purgeNext + MinSleep * TicksPerMs
  BY <1>1, <1>3
<1>8. Timeout * TicksPerMs \in 0 .. PollInterval * TicksPerMs BY <1>5
<1> QED BY <1>6, <1>7, <1>8

(* A tick brings a date nearer, and keeps the order of dates.                *)
LEMMA LaterDates ==
    /\ \A d \in Dates : Later(d) \in Dates /\ (Later(d) = None <=> d = None)
    /\ \A d, e \in Nat : d <= e => Later(d) <= Later(e)
    /\ \A d \in Nat : Later(d) \in Nat /\ d <= Later(d) + 1
<1>0. None \notin Nat BY SleepAssumption
<1>1. ASSUME NEW d \in Nat PROVE Later(d) = IF d = 0 THEN 0 ELSE d - 1
  BY <1>0 DEF Later
<1>2. Later(None) = None BY DEF Later
<1>3. ASSUME NEW d \in Nat PROVE Later(d) \in Nat /\ d <= Later(d) + 1 BY <1>1
<1>4. ASSUME NEW d \in Nat, NEW e \in Nat, d <= e PROVE Later(d) <= Later(e)
  BY <1>1, <1>4
<1>5. ASSUME NEW d \in Dates PROVE Later(d) \in Dates /\ (Later(d) = None <=> d = None)
  BY <1>0, <1>2, <1>3 DEF Dates
<1> QED BY <1>3, <1>4, <1>5

(********************************** Types ***********************************)

JobTypes ==
    /\ given \in Instances /\ jobs \in [given.jobs -> JobRow]
    /\ queue \in Seq(Jobs \cup {Open})
    /\ session \in [pc: {"idle", "open", "committed"}, job: Jobs \cup {None},
                    next: Dates, finds: BOOLEAN]
    /\ session.pc = "open" => session.job \in given.jobs
    /\ nextDue \in Dates /\ claimed \in Seq(Jobs)
    /\ slots \in [Slots -> [job: Jobs \cup {None},
                            worker: {"none", "running", "recorded", "gone", "lost"}]]

LoopTypes ==
    /\ pc \in Locations /\ latch \in BOOLEAN /\ wake \in 0 .. PollInterval * TicksPerMs
    /\ failures \in 0 .. MaxCycleFailures
    /\ pc # "down" => failures < MaxCycleFailures

PurgeTypes ==
    /\ file \in Settings /\ setting \in Settings /\ reload \in BOOLEAN
    /\ purgeNext \in Dates /\ draining \in BOOLEAN /\ expired \in 0 .. MaxExpired
    /\ pc # "down" /\ purgeNext # None => setting = "on"
    /\ pc = "purge" => purgeNext # None

(* SleepInv in the parts its proof goes by.                                  *)
LEMMA SleepInvParts ==
    SleepInv <=>
      /\ JobTypes /\ LoopTypes /\ PurgeTypes
      /\ pc \in {"spawn", "wait"} /\ ~latch /\ ~excused /\ Free # {} =>
           \A j \in DOMAIN jobs : Waiting(j) => Covered(j)
      /\ pc = "wait" /\ ~excused /\ purgeNext # None /\ ~draining =>
           wake <= purgeNext + MinSleep * TicksPerMs
BY DEF SleepInv, TypeOK, JobTypes, LoopTypes, PurgeTypes

(* The jobs of an instance.                                                  *)
LEMMA Given == ASSUME JobTypes PROVE given.jobs \subseteq Jobs /\ DOMAIN jobs = given.jobs
BY SleepAssumption DEF JobTypes

SlotRecords == [job: Jobs \cup {None},
                worker: {"none", "running", "recorded", "gone", "lost"}]
Sessions == [pc: {"idle", "open", "committed"}, job: Jobs \cup {None},
             next: Dates, finds: BOOLEAN]

(* Rows, sessions, claims and slots keep their types.                        *)
LEMMA JobTypesStep == JobTypes /\ [Next]_vars => JobTypes'
<1> SUFFICES ASSUME JobTypes, [Next]_vars PROVE JobTypes' OBVIOUS
<1>0. /\ given \in Instances /\ jobs \in [given.jobs -> JobRow]
      /\ queue \in Seq(Jobs \cup {Open}) /\ session \in Sessions
      /\ session.pc = "open" => session.job \in given.jobs
      /\ nextDue \in Dates /\ claimed \in Seq(Jobs)
      /\ slots \in [Slots -> SlotRecords]
      /\ given.jobs \subseteq Jobs /\ DOMAIN jobs = given.jobs
  BY Given DEF JobTypes, Sessions, SlotRecords
<1>a. /\ Gaps \subseteq Dates /\ 0 \in Dates /\ None \in Dates /\ None \notin Nat
      /\ Idle \in Sessions /\ Idle.pc = "idle" /\ Empty \in SlotRecords
  BY SleepAssumption DEF Dates, Idle, Empty, Sessions, SlotRecords
<1>b. given' = given
  BY DEF Next, Enable, DisableJob, Commit, Rollback, WakeupAtCommit, Reload,
     SpuriousLatch, Tick, Expire, WorkerRecords, WorkerExits, Start, Terminated,
     LatchConsumed, SchedulerStep, Top, Purge, FreeJobSlots, Claim, ReadDeadline,
     Spawn, SpawnFails, Sleep, CycleFails, WakeUp, vars
<1>c. ASSUME jobs' \in [given.jobs -> JobRow], queue' \in Seq(Jobs \cup {Open}),
             session' \in Sessions, session'.pc = "open" => session'.job \in given.jobs,
             nextDue' \in Dates, claimed' \in Seq(Jobs), slots' \in [Slots -> SlotRecords]
      PROVE  JobTypes'
  BY <1>0, <1>b, <1>c DEF JobTypes, Sessions, SlotRecords
<1>d. ASSUME NEW keep PROVE Among(queue, keep) \in Seq(Jobs \cup {Open})
  BY <1>0, AmongTyped
<1>1. ASSUME NEW j \in DOMAIN jobs, Enable(j) PROVE JobTypes'
  <2>1. PICK next \in {0} \cup Gaps :
          /\ session' = [pc |-> "open", job |-> j, next |-> next, finds |-> pc # "down"]
          /\ queue' = Reached(queue, Open, next)
    BY <1>1 DEF Enable
  <2>2. session' \in Sessions /\ session'.job \in given.jobs
    BY <1>0, <1>a, <2>1 DEF Sessions
  <2>3. queue' \in Seq(Jobs \cup {Open})
    <3>1. Append(queue, Open) \in Seq(Jobs \cup {Open}) BY <1>0, AppendProperties
    <3> QED BY <1>0, <2>1, <3>1 DEF Reached
  <2>4. UNCHANGED <<jobs, nextDue, claimed, slots>> BY <1>1 DEF Enable, loopVars
  <2> QED BY <1>0, <1>c, <2>2, <2>3, <2>4
<1>2. ASSUME NEW j \in DOMAIN jobs, DisableJob(j) PROVE JobTypes'
  <2>1. jobs' = [jobs EXCEPT ![j].enabled = FALSE, ![j].next = None]
    BY <1>2 DEF DisableJob
  <2>2. jobs' \in [given.jobs -> JobRow] BY <1>0, <1>a, <2>1, ZenonT(60) DEF JobRow
  <2>3. queue' \in Seq(Jobs \cup {Open}) BY <1>2, <1>d DEF DisableJob, Without
  <2>4. UNCHANGED <<session, nextDue, claimed, slots>> BY <1>2 DEF DisableJob, loopVars
  <2> QED BY <1>0, <1>c, <2>2, <2>3, <2>4
<1>3. CASE Commit
  <2> DEFINE others == Without(queue, session.job)
             q == [i \in DOMAIN others |-> IF others[i] = Open THEN session.job ELSE others[i]]
  <2>1. /\ session.pc = "open" /\ queue' = q
        /\ jobs' = [jobs EXCEPT ![session.job].enabled = TRUE,
                                ![session.job].next = session.next]
        /\ session' = [session EXCEPT !.pc = "committed"] \/ session' = Idle
    BY <1>3 DEF Commit
  <2>2. session.job \in Jobs /\ session.next \in Dates BY <1>0, <2>1 DEF Sessions
  <2>3. jobs' \in [given.jobs -> JobRow] BY <1>0, <2>1, <2>2 DEF JobRow
  <2>4. session' \in Sessions /\ session'.pc # "open"
    BY <1>0, <1>a, <2>1 DEF Sessions
  <2>5. q \in Seq(Jobs \cup {Open})
    <3>1. others \in Seq(Jobs \cup {Open}) BY <1>d DEF Without
    <3> HIDE DEF others
    <3>2. DOMAIN others = 1 .. Len(others) /\ Len(others) \in Nat BY <3>1
    <3>3. \A i \in 1 .. Len(others) :
            (IF others[i] = Open THEN session.job ELSE others[i]) \in Jobs \cup {Open}
      BY <2>2, <3>1
    <3> QED BY <3>2, <3>3
  <2>6. UNCHANGED <<nextDue, claimed, slots>> BY <1>3 DEF Commit, loopVars
  <2> HIDE DEF q
  <2> QED BY <1>0, <1>c, <2>1, <2>3, <2>4, <2>5, <2>6
<1>4. CASE Rollback
  <2>1. session' = Idle /\ queue' \in Seq(Jobs \cup {Open})
    BY <1>4, <1>d DEF Rollback, Without
  <2>2. UNCHANGED <<jobs, nextDue, claimed, slots>> BY <1>4 DEF Rollback, loopVars
  <2> QED BY <1>0, <1>a, <1>c, <2>1, <2>2
<1>5. CASE WakeupAtCommit
  <2>1. session' = Idle BY <1>5 DEF WakeupAtCommit
  <2>2. UNCHANGED <<jobs, queue, nextDue, claimed, slots>>
    BY <1>5 DEF WakeupAtCommit, loopVars, jobVars
  <2> QED BY <1>0, <1>a, <1>c, <2>1, <2>2
<1>6. CASE \/ \E value \in Settings : Reload(value)
           \/ SpuriousLatch \/ Expire \/ LatchConsumed \/ Top \/ Purge \/ WakeUp
           \/ UNCHANGED vars
  <2>1. UNCHANGED <<jobs, queue, session, nextDue, claimed, slots>>
    BY <1>6 DEF Reload, SpuriousLatch, Expire, LatchConsumed, Top, Purge, WakeUp,
       vars, jobVars, loopVars
  <2> QED BY <1>0, <1>c, <2>1
<1>7. CASE Tick
  <2> DEFINE S == {j \in DOMAIN jobs : jobs[j].next = 1}
                  \cup {v \in {Open} : session.pc = "open" /\ session.next = 1}
  <2>1. PICK order \in SetToSeqs(S) : queue' = queue \o order BY <1>7 DEF Tick
  <2>2. jobs' \in [given.jobs -> JobRow]
    <3>1. jobs' = [j \in DOMAIN jobs |-> [jobs[j] EXCEPT !.next = Later(@)]] BY <1>7 DEF Tick
    <3>2. ASSUME NEW j \in given.jobs
          PROVE  [jobs[j] EXCEPT !.next = Later(jobs[j].next)] \in JobRow
      <4>1. jobs[j] \in JobRow BY <1>0
      <4>2. Later(jobs[j].next) \in Dates BY <4>1, LaterDates DEF JobRow
      <4> QED BY <4>1, <4>2 DEF JobRow
    <3> QED BY <1>0, <3>1, <3>2
  <2>3. session' \in Sessions /\ session'.pc = session.pc /\ session'.job = session.job
    <3>1. session' = [session EXCEPT !.next = Later(session.next)] BY <1>7 DEF Tick
    <3>2. Later(session.next) \in Dates BY <1>0, LaterDates DEF Sessions
    <3> QED BY <1>0, <3>1, <3>2 DEF Sessions
  <2>4. queue' \in Seq(Jobs \cup {Open})
    <3>1. S \subseteq Jobs \cup {Open} BY <1>0
    <3>2. IsFiniteSet(S)
      <4>1. IsFiniteSet(Jobs \cup {Open}) BY SleepAssumption, FS_AddElement
      <4> HIDE DEF S
      <4> QED BY <3>1, <4>1, FS_Subset
    <3> HIDE DEF S
    <3>3. Cardinality(S) \in Nat BY <3>2, FS_CardinalityType
    <3>4. order \in [1 .. Cardinality(S) -> S] BY DEF SetToSeqs
    <3>5. order \in Seq(Jobs \cup {Open}) BY <3>1, <3>3, <3>4
    <3> QED BY <1>0, <2>1, <3>5, ConcatProperties
  <2>5. nextDue' \in Dates BY <1>0, <1>7, LaterDates DEF Tick
  <2>6. UNCHANGED <<claimed, slots>> BY <1>7 DEF Tick
  <2> QED BY <1>0, <1>c, <2>2, <2>3, <2>4, <2>5, <2>6
<1>8. ASSUME NEW s \in Slots, WorkerRecords(s) PROVE JobTypes'
  <2>1. /\ slots' = [slots EXCEPT ![s].worker = "recorded"]
        /\ jobs' = [jobs EXCEPT ![slots[s].job].running = FALSE]
    BY <1>8 DEF WorkerRecords
  <2>2. jobs' \in [given.jobs -> JobRow] BY <1>0, <2>1 DEF JobRow
  <2>3. slots' \in [Slots -> SlotRecords] BY <1>0, <2>1 DEF SlotRecords
  <2>4. UNCHANGED <<queue, session, nextDue, claimed>> BY <1>8 DEF WorkerRecords
  <2> QED BY <1>0, <1>c, <2>2, <2>3, <2>4
<1>9. ASSUME NEW s \in Slots, WorkerExits(s) PROVE JobTypes'
  <2>1. slots' \in [Slots -> SlotRecords]
    <3>1. PICK x \in {"gone", "lost"} : slots' = [slots EXCEPT ![s].worker = x]
      BY <1>9 DEF WorkerExits
    <3> QED BY <1>0, <3>1 DEF SlotRecords
  <2>2. UNCHANGED <<jobs, queue, session, nextDue, claimed>> BY <1>9 DEF WorkerExits, jobVars
  <2> QED BY <1>0, <1>c, <2>1, <2>2
<1>10. CASE Start
  <2>1. /\ jobs' = [j \in DOMAIN jobs |-> [jobs[j] EXCEPT !.running = FALSE]]
        /\ slots' = [s \in Slots |-> Empty] /\ claimed' = <<>>
        /\ UNCHANGED <<queue, session, nextDue>>
    BY <1>10 DEF Start
  <2>2. jobs' \in [given.jobs -> JobRow] BY <1>0, <2>1 DEF JobRow
  <2>3. slots' \in [Slots -> SlotRecords] /\ claimed' \in Seq(Jobs) BY <1>a, <2>1
  <2> QED BY <1>0, <1>c, <2>1, <2>2, <2>3
<1>11. CASE Terminated \/ CycleFails
  <2>1. session' = session \/ session' = [session EXCEPT !.finds = FALSE]
    BY <1>11 DEF Terminated, CycleFails, Exits
  <2>2. session' \in Sessions /\ session'.pc = session.pc /\ session'.job = session.job
    BY <1>0, <2>1 DEF Sessions
  <2>3. UNCHANGED <<jobs, queue, nextDue, claimed, slots>>
    BY <1>11 DEF Terminated, CycleFails, jobVars, loopVars
  <2> QED BY <1>0, <1>c, <2>2, <2>3
<1>12. CASE FreeJobSlots
  <2> DEFINE lost == {slots[s].job : s \in {t \in Slots : slots[t].worker = "lost"}}
  <2>1. /\ slots' = [s \in Slots |-> IF s \in Free THEN Empty ELSE slots[s]]
        /\ jobs' = [j \in DOMAIN jobs |-> IF j \in lost THEN [jobs[j] EXCEPT !.running = FALSE]
                                          ELSE jobs[j]]
        /\ UNCHANGED <<queue, session, nextDue, claimed>>
    BY <1>12 DEF FreeJobSlots
  <2> HIDE DEF lost
  <2>2. \A j \in given.jobs : [jobs[j] EXCEPT !.running = FALSE] \in JobRow
    BY <1>0 DEF JobRow
  <2>3. jobs' \in [given.jobs -> JobRow] BY <1>0, <2>1, <2>2
  <2>4. slots' \in [Slots -> SlotRecords] BY <1>0, <1>a, <2>1
  <2> QED BY <1>0, <1>c, <2>1, <2>3, <2>4
<1>13. CASE Claim
  <2> DEFINE rows == ToSet(DueRows)
  <2>1. PICK next \in [rows -> Gaps \cup {None}] :
          jobs' = [j \in DOMAIN jobs |-> IF j \in rows
                                  THEN [enabled |-> next[j] # None, running |-> TRUE,
                                        next |-> next[j]]
                                  ELSE jobs[j]]
    BY <1>13 DEF Claim
  <2>2. /\ queue' = Among(queue, ToSet(queue) \ rows) /\ claimed' = DueRows
        /\ UNCHANGED <<session, nextDue, slots>>
    BY <1>13 DEF Claim
  <2> HIDE DEF rows
  <2>3. \A j \in rows : [enabled |-> next[j] # None, running |-> TRUE, next |-> next[j]]
                          \in JobRow
    BY <1>a DEF JobRow
  <2>4. jobs' \in [given.jobs -> JobRow] BY <1>0, <2>1, <2>3
  <2>5. claimed' \in Seq(Jobs) BY <1>0, <2>2, DueRowsTyped
  <2> QED BY <1>0, <1>c, <1>d, <2>2, <2>4, <2>5
<1>14. CASE ReadDeadline
  <2>1. UNCHANGED <<jobs, queue, session, claimed, slots>> BY <1>14 DEF ReadDeadline, jobVars
  <2>2. nextDue' \in Dates
    <3>1. CASE WaitingDates = {} BY <1>14, <1>a, <3>1 DEF ReadDeadline
    <3>2. CASE WaitingDates # {}
      <4>1. WaitingDates \subseteq Nat BY <1>0 DEF WaitingDates, Waiting, JobRow, Dates
      <4>2. \E d \in WaitingDates : \A e \in WaitingDates : d <= e
        BY <3>2, <4>1, LeastNumber
      <4>3. nextDue' \in WaitingDates BY <1>14, <3>2, <4>2 DEF ReadDeadline
      <4> QED BY <4>1, <4>3 DEF Dates
    <3> QED BY <3>1, <3>2
  <2> QED BY <1>0, <1>c, <2>1, <2>2
<1>15. CASE Spawn
  <2>1. claimed # <<>> /\ claimed' = Tail(claimed) /\ UNCHANGED <<jobs, queue, session, nextDue>>
    BY <1>15 DEF Spawn, jobVars
  <2>2. Head(claimed) \in Jobs /\ Tail(claimed) \in Seq(Jobs)
    BY <1>0, <2>1, HeadTailProperties
  <2>3. PICK s \in Slots :
          slots' = [slots EXCEPT ![s] = [job |-> Head(claimed), worker |-> "running"]]
    BY <1>15 DEF Spawn
  <2>4. slots' \in [Slots -> SlotRecords] BY <1>0, <2>2, <2>3 DEF SlotRecords
  <2> QED BY <1>0, <1>c, <2>1, <2>2, <2>4
<1>16. CASE SpawnFails
  <2>1. /\ claimed # <<>> /\ claimed' = Tail(claimed)
        /\ jobs' = [jobs EXCEPT ![Head(claimed)].running = FALSE]
        /\ UNCHANGED <<queue, session, nextDue, slots>>
    BY <1>16 DEF SpawnFails
  <2>2. Tail(claimed) \in Seq(Jobs) BY <1>0, <2>1, HeadTailProperties
  <2>3. jobs' \in [given.jobs -> JobRow] BY <1>0, <2>1 DEF JobRow
  <2> QED BY <1>0, <1>c, <2>1, <2>2, <2>3
<1>17. CASE Sleep
  <2>1. nextDue' = None /\ UNCHANGED <<jobs, queue, session, claimed, slots>>
    BY <1>17 DEF Sleep, jobVars
  <2> QED BY <1>0, <1>a, <1>c, <2>1
<1> QED BY <1>1, <1>2, <1>3, <1>4, <1>5, <1>6, <1>7, <1>8, <1>9, <1>10, <1>11, <1>12,
           <1>13, <1>14, <1>15, <1>16, <1>17
        DEF Next, SchedulerStep

(* The place of the loop, its timeout and its failures keep their types; a   *)
(* process that is there has not failed too often.                           *)
LEMMA LoopTypesStep == JobTypes /\ LoopTypes /\ PurgeTypes /\ [Next]_vars => LoopTypes'
<1> SUFFICES ASSUME JobTypes, LoopTypes, PurgeTypes, [Next]_vars PROVE LoopTypes' OBVIOUS
<1>0. /\ pc \in Locations /\ latch \in BOOLEAN /\ wake \in 0 .. PollInterval * TicksPerMs
      /\ failures \in 0 .. MaxCycleFailures
      /\ pc # "down" => failures < MaxCycleFailures
      /\ session.finds \in BOOLEAN
  BY DEF LoopTypes, JobTypes
<1>a. /\ PollInterval * TicksPerMs \in Nat /\ MaxCycleFailures \in Nat \ {0}
      /\ 0 \in 0 .. PollInterval * TicksPerMs
      /\ PollInterval * TicksPerMs \in 0 .. PollInterval * TicksPerMs
  BY SleepAssumption
<1>b. ASSUME pc' \in Locations, latch' \in BOOLEAN, UNCHANGED <<wake, failures>>,
             pc' = "down" \/ pc # "down"
      PROVE  LoopTypes'
  BY <1>0, <1>b DEF LoopTypes
<1>1. CASE \/ \E j \in DOMAIN jobs : Enable(j) \/ DisableJob(j)
           \/ Commit \/ Rollback \/ Expire
           \/ \E s \in Slots : WorkerRecords(s)
           \/ UNCHANGED vars
  <2>1. UNCHANGED <<pc, latch, wake, failures>>
    BY <1>1 DEF Enable, DisableJob, Commit, Rollback, Expire, WorkerRecords, vars, loopVars
  <2> QED BY <1>0, <1>b, <2>1 DEF LoopTypes
<1>2. CASE \/ \E value \in Settings : Reload(value)
           \/ WakeupAtCommit
           \/ SpuriousLatch \/ LatchConsumed
           \/ \E s \in Slots : WorkerExits(s)
  <2>1. UNCHANGED <<pc, wake, failures>>
    BY <1>2 DEF WakeupAtCommit, Reload, SpuriousLatch, WorkerExits, LatchConsumed, loopVars
  <2>2. latch' \in BOOLEAN
    BY <1>0, <1>2 DEF WakeupAtCommit, Reload, SpuriousLatch, WorkerExits, LatchConsumed
  <2> QED BY <1>0, <2>1, <2>2 DEF LoopTypes
<1>3. CASE Tick
  <2>1. /\ UNCHANGED <<pc, latch, failures>>
        /\ wake' = IF wake = 0 THEN 0 ELSE wake - 1
    BY <1>3 DEF Tick
  <2>2. wake' \in 0 .. PollInterval * TicksPerMs BY <1>0, <1>a, <2>1
  <2> QED BY <1>0, <2>1, <2>2 DEF LoopTypes
<1>4. CASE Start
  <2>1. pc' = "top" /\ latch' \in BOOLEAN /\ failures' = 0 /\ wake' = wake
    BY <1>4 DEF Start
  <2>2. failures' \in 0 .. MaxCycleFailures /\ failures' < MaxCycleFailures BY <1>a, <2>1
  <2> QED BY <1>0, <2>1, <2>2 DEF LoopTypes, Locations
<1>5. CASE Terminated
  <2>1. pc' = "down" /\ latch' = FALSE /\ wake' = 0 /\ failures' = failures
    BY <1>5 DEF Terminated, Exits, loopVars
  <2> QED BY <1>0, <1>a, <2>1 DEF LoopTypes, Locations
<1>6. CASE Top \/ Purge \/ FreeJobSlots \/ Claim \/ ReadDeadline \/ Spawn \/ SpawnFails
  <2>1. UNCHANGED <<latch, wake, failures>> /\ pc # "down"
    BY <1>6 DEF Top, Purge, FreeJobSlots, Claim, ReadDeadline, Spawn, SpawnFails, loopVars
  <2>2. pc' \in Locations
    BY <1>0, <1>6 DEF Top, Purge, FreeJobSlots, Claim, ReadDeadline, Spawn, SpawnFails,
       Locations
  <2> QED BY <1>0, <1>b, <2>1, <2>2
<1>7. CASE Sleep
  <2>1. pc' = "wait" /\ wake' = Timeout * TicksPerMs /\ failures' = 0 /\ latch' = latch
    BY <1>7 DEF Sleep
  <2>2. nextDue \in Dates /\ purgeNext \in Dates BY DEF JobTypes, PurgeTypes
  <2>3. wake' \in 0 .. PollInterval * TicksPerMs BY <2>1, <2>2, TimeoutBounds
  <2>4. failures' \in 0 .. MaxCycleFailures /\ failures' < MaxCycleFailures BY <1>a, <2>1
  <2> QED BY <1>0, <2>1, <2>3, <2>4 DEF LoopTypes, Locations
<1>8. CASE CycleFails
  <2>1. pc # "down" /\ failures' = failures + 1 BY <1>8 DEF CycleFails
  <2>2. failures' \in 0 .. MaxCycleFailures BY <1>0, <1>a, <2>1
  <2>3. \/ /\ failures' < MaxCycleFailures /\ pc' = "wait"
           /\ wake' = PollInterval * TicksPerMs /\ latch' = latch
        \/ pc' = "down" /\ latch' = FALSE /\ wake' = 0
    BY <1>8 DEF CycleFails, Exits, Forgiven
  <2> QED BY <1>0, <1>a, <2>2, <2>3 DEF LoopTypes, Locations
<1>9. CASE WakeUp
  <2>1. /\ pc = "wait" /\ pc' = "top" /\ latch' = FALSE /\ wake' = 0
        /\ failures' = failures
    BY <1>9 DEF WakeUp, loopVars
  <2> QED BY <1>0, <1>a, <2>1 DEF LoopTypes, Locations
<1> QED BY <1>1, <1>2, <1>3, <1>4, <1>5, <1>6, <1>7, <1>8, <1>9 DEF Next, SchedulerStep

(* A known purge deadline means that the process's setting is on.            *)
LEMMA PurgeTypesStep == LoopTypes /\ PurgeTypes /\ [Next]_vars => PurgeTypes'
<1> SUFFICES ASSUME LoopTypes, PurgeTypes, [Next]_vars PROVE PurgeTypes' OBVIOUS
<1>0. /\ file \in Settings /\ setting \in Settings /\ reload \in BOOLEAN
      /\ purgeNext \in Dates /\ draining \in BOOLEAN /\ expired \in 0 .. MaxExpired
      /\ pc # "down" /\ purgeNext # None => setting = "on"
      /\ pc = "purge" => purgeNext # None
  BY DEF PurgeTypes
<1>a. /\ None \in Dates /\ Gaps \subseteq Dates /\ PurgeLimit \in Nat \ {0}
      /\ MaxExpired \in Nat
  BY SleepAssumption DEF Dates
<1>b. \A value \in Settings : \A d \in NextPurge(value) :
         d \in Dates /\ (d # None => value = "on")
  BY <1>a DEF NextPurge, Settings
<1>c. ASSUME UNCHANGED purgeVars, pc' = "down" \/ pc # "down", pc' # "purge" \/ pc = "purge"
      PROVE  PurgeTypes'
  BY <1>0, <1>c DEF PurgeTypes, purgeVars
<1>1. CASE \/ \E j \in DOMAIN jobs : Enable(j) \/ DisableJob(j)
           \/ Commit \/ Rollback \/ WakeupAtCommit \/ SpuriousLatch
           \/ \E s \in Slots : WorkerRecords(s) \/ WorkerExits(s)
           \/ Terminated \/ LatchConsumed \/ FreeJobSlots \/ Claim \/ ReadDeadline
           \/ Spawn \/ SpawnFails \/ Sleep \/ CycleFails \/ WakeUp \/ UNCHANGED vars
  <2>1. UNCHANGED purgeVars
    BY <1>1 DEF Enable, DisableJob, Commit, Rollback, WakeupAtCommit, SpuriousLatch,
       WorkerRecords, WorkerExits, Terminated, LatchConsumed, FreeJobSlots, Claim,
       ReadDeadline, Spawn, SpawnFails, Sleep, CycleFails, WakeUp, vars
  <2>2. (pc' = "down" \/ pc # "down") /\ (pc' # "purge" \/ pc = "purge")
    BY <1>1 DEF Enable, DisableJob, Commit, Rollback, WakeupAtCommit, SpuriousLatch,
       WorkerRecords, WorkerExits, Terminated, LatchConsumed, FreeJobSlots, Claim,
       ReadDeadline, Spawn, SpawnFails, Sleep, CycleFails, WakeUp, Exits, vars
  <2> QED BY <1>c, <2>1, <2>2
<1>2. ASSUME NEW value \in Settings, Reload(value) PROVE PurgeTypes'
  <2>1. /\ file' = value /\ UNCHANGED <<pc, purgeNext, draining, expired>>
        /\ IF pc = "down" THEN setting' = value /\ reload' = reload
           ELSE reload' = TRUE /\ setting' = setting
    BY <1>2 DEF Reload
  <2> QED BY <1>0, <2>1 DEF PurgeTypes
<1>3. CASE Tick
  <2>1. purgeNext' = Later(purgeNext) /\ UNCHANGED <<pc, file, setting, reload, draining, expired>>
    BY <1>3 DEF Tick
  <2>2. purgeNext' \in Dates /\ (purgeNext' = None <=> purgeNext = None)
    BY <1>0, <2>1, LaterDates
  <2> QED BY <1>0, <2>1, <2>2 DEF PurgeTypes
<1>4. CASE Expire
  <2>1. /\ expired < MaxExpired /\ expired' = expired + 1
        /\ UNCHANGED <<pc, file, setting, reload, purgeNext, draining>>
    BY <1>4 DEF Expire
  <2>2. expired' \in 0 .. MaxExpired BY <1>0, <1>a, <2>1
  <2> QED BY <1>0, <2>1, <2>2 DEF PurgeTypes
<1>5. CASE Start
  <2>1. /\ pc' = "top" /\ setting' = file /\ reload' = FALSE /\ purgeNext' = None
        /\ draining' = FALSE /\ UNCHANGED <<file, expired>>
    BY <1>5 DEF Start
  <2> QED BY <1>0, <1>a, <2>1 DEF PurgeTypes
<1>6. CASE Top
  <2> DEFINE value == IF reload THEN file ELSE setting
  <2>1. /\ pc = "top" /\ setting' = value /\ reload' = FALSE
        /\ purgeNext' \in IF PurgeDeadline = None THEN NextPurge(value) ELSE {PurgeDeadline}
        /\ pc' = IF purgeNext' # None /\ (draining \/ purgeNext' = 0) THEN "purge" ELSE "slots"
        /\ UNCHANGED <<file, draining, expired>>
    BY <1>6 DEF Top
  <2>2. value \in Settings BY <1>0
  <2>3. purgeNext' \in Dates /\ (purgeNext' # None => value = "on")
    <3>1. CASE PurgeDeadline = None BY <1>b, <2>1, <2>2, <3>1
    <3>2. CASE PurgeDeadline # None
      <4>1. ~reload /\ purgeNext' = purgeNext /\ purgeNext # None
        BY <2>1, <3>2 DEF PurgeDeadline
      <4> QED BY <1>0, <2>1, <4>1
    <3> QED BY <3>1, <3>2
  <2> QED BY <1>0, <2>1, <2>2, <2>3 DEF PurgeTypes
<1>7. CASE Purge
  <2>1. pc = "purge" /\ pc' = "slots" /\ UNCHANGED <<file, setting, reload>>
    BY <1>7 DEF Purge
  <2>2. /\ draining' \in BOOLEAN
        /\ purgeNext' = purgeNext \/ purgeNext' \in NextPurge(setting)
    BY <1>7 DEF Purge
  <2>3. purgeNext' \in Dates /\ (purgeNext' # None => setting = "on")
    BY <1>0, <1>b, <2>1, <2>2
  <2>4. expired' \in 0 .. MaxExpired
    <3>1. \/ expired >= PurgeLimit /\ expired' = expired - PurgeLimit
          \/ expired' = 0 \/ expired' \in 0 .. expired
      BY <1>7 DEF Purge
    <3> QED BY <1>0, <1>a, <3>1
  <2> QED BY <1>0, <2>1, <2>2, <2>3, <2>4 DEF PurgeTypes
<1> QED BY <1>1, <1>2, <1>3, <1>4, <1>5, <1>6, <1>7 DEF Next, SchedulerStep

(********************************* Deadlines ********************************)

(* SleepInv without its types.                                               *)
JobsCovered ==
    pc \in {"spawn", "wait"} /\ ~latch /\ ~excused /\ Free # {} =>
        \A j \in DOMAIN jobs : Waiting(j) => Covered(j)
PurgeCovered ==
    pc = "wait" /\ ~excused /\ purgeNext # None /\ ~draining =>
        wake <= purgeNext + MinSleep * TicksPerMs

(* The timeout stays short enough for the next purge: only Sleep sets it,    *)
(* only a tick moves the date.                                               *)
LEMMA PurgeCoveredStep ==
    JobTypes /\ LoopTypes /\ PurgeTypes /\ PurgeCovered /\ [Next]_vars => PurgeCovered'
<1> SUFFICES ASSUME JobTypes, LoopTypes, PurgeTypes, PurgeCovered, [Next]_vars,
                    pc' = "wait", ~excused', purgeNext' # None, ~draining'
             PROVE  wake' <= purgeNext' + MinSleep * TicksPerMs
  BY DEF PurgeCovered
<1>0. /\ wake \in Nat /\ purgeNext \in Dates /\ nextDue \in Dates
      /\ MinSleep * TicksPerMs \in Nat
  BY SleepAssumption DEF JobTypes, LoopTypes, PurgeTypes
<1>1. CASE \/ \E j \in DOMAIN jobs : Enable(j) \/ DisableJob(j)
           \/ Rollback \/ WakeupAtCommit \/ SpuriousLatch \/ Expire
           \/ \E value \in Settings : Reload(value)
           \/ \E s \in Slots : WorkerRecords(s) \/ WorkerExits(s)
           \/ UNCHANGED vars
  <2>1. UNCHANGED <<pc, wake, excused, purgeNext, draining>>
    BY <1>1 DEF Enable, DisableJob, Rollback, WakeupAtCommit, SpuriousLatch, Expire,
       Reload, WorkerRecords, WorkerExits, vars, purgeVars
  <2> QED BY <2>1 DEF PurgeCovered
<1>2. CASE Commit
  <2>1. UNCHANGED <<pc, wake, purgeNext, draining>> BY <1>2 DEF Commit, purgeVars
  <2>2. ~excused
    <3>1. \/ excused' = (excused \/ (pc # "down" /\ ~session.finds))
          \/ excused' = (pc # "down")
      BY <1>2 DEF Commit
    <3>2. pc # "down" BY <2>1
    <3> QED BY <3>1, <3>2, Zenon
  <2> QED BY <2>1, <2>2 DEF PurgeCovered
<1>3. CASE \/ LatchConsumed \/ SpawnFails \/ CycleFails
  BY <1>3 DEF LatchConsumed, SpawnFails, CycleFails
<1>4. CASE \/ Start \/ Terminated \/ Top \/ Purge \/ FreeJobSlots \/ Claim \/ ReadDeadline
           \/ Spawn \/ WakeUp
  BY <1>4 DEF Start, Terminated, Exits, Top, Purge, FreeJobSlots, Claim, ReadDeadline,
     Spawn, WakeUp
<1>5. CASE Sleep
  <2>1. wake' = Timeout * TicksPerMs /\ UNCHANGED <<purgeNext, draining>>
    BY <1>5 DEF Sleep, purgeVars
  <2> QED BY <1>0, <2>1, TimeoutBounds
<1>6. CASE Tick
  <2>1. /\ pc = "wait" /\ wake > 0 /\ ~excused /\ ~draining
        /\ wake' = IF wake = 0 THEN 0 ELSE wake - 1
        /\ purgeNext' = Later(purgeNext)
    BY <1>6 DEF Tick
  <2>2. purgeNext \in Nat BY <1>0, <2>1, LaterDates DEF Dates
  <2>3. purgeNext # None BY <2>1, LaterDates, <1>0
  <2>4. wake <= purgeNext + MinSleep * TicksPerMs BY <2>1, <2>3 DEF PurgeCovered
  <2>5. purgeNext' \in Nat /\ purgeNext <= purgeNext' + 1 BY <2>1, <2>2, LaterDates
  <2>6. wake' = wake - 1 BY <1>0, <2>1
  <2> DEFINE floor == MinSleep * TicksPerMs
             later == purgeNext'
             now == wake'
  <2>7. floor \in Nat /\ later \in Nat /\ now = wake - 1 /\ purgeNext <= later + 1
        /\ wake <= purgeNext + floor
    BY <1>0, <2>4, <2>5, <2>6
  <2> HIDE DEF floor, later, now
  <2>8. now <= later + floor BY <1>0, <2>2, <2>7
  <2> QED BY <2>8 DEF floor, later, now
<1> QED BY <1>1, <1>2, <1>3, <1>4, <1>5, <1>6 DEF Next, SchedulerStep

(* A job that could start stays covered: what makes one startable, or takes  *)
(* back a deadline it was covered by, announces it, sets the latch or is     *)
(* excused.                                                                  *)
LEMMA JobsCoveredStep ==
    JobTypes /\ LoopTypes /\ PurgeTypes /\ JobsCovered /\ [Next]_vars => JobsCovered'
<1> SUFFICES ASSUME JobTypes, LoopTypes, PurgeTypes, JobsCovered, [Next]_vars,
                    pc' \in {"spawn", "wait"}, ~latch', ~excused', Free' # {},
                    NEW j \in DOMAIN jobs', Waiting(j)'
             PROVE  Covered(j)'
  BY DEF JobsCovered
<1>0. /\ jobs \in [given.jobs -> JobRow] /\ jobs' \in [given'.jobs -> JobRow]
      /\ slots \in [Slots -> SlotRecords] /\ nextDue \in Dates /\ session \in Sessions
      /\ wake \in Nat /\ purgeNext \in Dates /\ MinSleep * TicksPerMs \in Nat
      /\ claimed \in Seq(Jobs)
  BY JobTypesStep, SleepAssumption DEF JobTypes, LoopTypes, PurgeTypes, Sessions, SlotRecords
<1>b. given' = given
  BY DEF Next, Enable, DisableJob, Commit, Rollback, WakeupAtCommit, Reload,
     SpuriousLatch, Tick, Expire, WorkerRecords, WorkerExits, Start, Terminated,
     LatchConsumed, SchedulerStep, Top, Purge, FreeJobSlots, Claim, ReadDeadline,
     Spawn, SpawnFails, Sleep, CycleFails, WakeUp, vars
<1>c. /\ j \in DOMAIN jobs /\ jobs[j] \in JobRow /\ jobs'[j] \in JobRow
      /\ jobs'[j].enabled /\ ~jobs'[j].running /\ jobs'[j].next # None
  BY <1>0, <1>b DEF Waiting
<1>d. ASSUME pc \in {"spawn", "wait"}, ~latch, ~excused, Free # {}, Waiting(j)
      PROVE  Covered(j)
  BY <1>c, <1>d DEF JobsCovered
\* The common case: the row, the loop and the announcements stay.
<1>e. ASSUME UNCHANGED <<pc, wake, nextDue, latch>>, jobs'[j] = jobs[j],
             ~excused, Free # {}, Announced(j) => Announced(j)'
      PROVE  Covered(j)'
  <2>1. Waiting(j) BY <1>c, <1>e DEF Waiting
  <2>2. Covered(j) BY <1>d, <1>e, <2>1
  <2> QED BY <1>e, <2>2 DEF Covered
<1>1. ASSUME NEW k \in DOMAIN jobs, Enable(k) PROVE Covered(j)'
  <2>1. session = Idle /\ UNCHANGED <<jobs, pc, latch, wake, nextDue, slots, excused>>
    BY <1>1 DEF Enable, loopVars
  <2>2. Free # {} BY <2>1 DEF Free
  <2>3. Announced(j) => Announced(j)' BY <2>1 DEF Announced, Idle
  <2> QED BY <1>e, <2>1, <2>2, <2>3
<1>2. ASSUME NEW k \in DOMAIN jobs, DisableJob(k) PROVE Covered(j)'
  <2>1. /\ jobs' = [jobs EXCEPT ![k].enabled = FALSE, ![k].next = None]
        /\ UNCHANGED <<session, pc, latch, wake, nextDue, slots, excused>>
    BY <1>2 DEF DisableJob, loopVars
  <2>2. j # k BY <1>0, <1>c, <2>1 DEF JobRow
  <2>3. jobs'[j] = jobs[j] BY <1>0, <1>c, <2>1, <2>2
  <2>4. Free # {} BY <2>1 DEF Free
  <2>5. Announced(j) => Announced(j)' BY <2>1 DEF Announced
  <2> QED BY <1>e, <2>1, <2>3, <2>4, <2>5
<1>3. CASE Commit
  <2>1. /\ session.pc = "open" /\ UNCHANGED <<pc, latch, wake, nextDue, slots>>
        /\ jobs' = [jobs EXCEPT ![session.job].enabled = TRUE,
                                ![session.job].next = session.next]
    BY <1>3 DEF Commit, loopVars
  <2>2. pc # "down" BY <2>1
  <2>3. /\ session' = [session EXCEPT !.pc = "committed"]
        /\ excused' = (excused \/ (pc # "down" /\ ~session.finds))
    BY <1>3, <2>2 DEF Commit
  <2>4. ~excused /\ session.finds BY <2>2, <2>3, Zenon
  <2>5. CASE j = session.job
    <3>1. session'.pc = "committed" /\ session'.job = j /\ session'.finds
      BY <1>0, <2>3, <2>4, <2>5 DEF Sessions
    <3> QED BY <3>1 DEF Covered, Announced
  <2>6. CASE j # session.job
    <3>1. jobs'[j] = jobs[j] BY <1>0, <1>c, <2>1, <2>6
    <3>2. Free # {} BY <2>1 DEF Free
    <3>3. Announced(j) => Announced(j)' BY <2>1 DEF Announced
    <3> QED BY <1>e, <2>1, <2>4, <3>1, <3>2, <3>3
  <2> QED BY <2>5, <2>6
<1>4. CASE Rollback \/ WakeupAtCommit
  <2>1. /\ UNCHANGED <<jobs, pc, wake, nextDue, slots, excused>>
        /\ session.pc = "open" \/ (session.pc = "committed" /\ latch' = (latch \/ session.finds))
        /\ session.pc = "open" => latch' = latch
    BY <1>4 DEF Rollback, WakeupAtCommit, jobVars, loopVars
  <2>2. latch' = latch /\ (session.pc = "open" \/ ~session.finds)
    <3>1. latch \in BOOLEAN BY DEF LoopTypes
    <3> QED BY <2>1, <3>1
  <2>3. Free # {} BY <2>1 DEF Free
  <2>4. Announced(j) => Announced(j)' BY <2>1, <2>2 DEF Announced
  <2> QED BY <1>e, <2>1, <2>2, <2>3, <2>4
<1>5. CASE Expire \/ UNCHANGED vars
  <2>1. UNCHANGED <<jobs, session, pc, latch, wake, nextDue, slots, excused>>
    BY <1>5 DEF Expire, vars, jobVars, loopVars
  <2>2. Free # {} BY <2>1 DEF Free
  <2>3. Announced(j) => Announced(j)' BY <2>1 DEF Announced
  <2> QED BY <1>e, <2>1, <2>2, <2>3
<1>6. CASE \/ SpuriousLatch \/ LatchConsumed \/ SpawnFails \/ CycleFails
           \/ \E value \in Settings : Reload(value)
           \/ \E s \in Slots : WorkerExits(s)
  <2>1. latch' = TRUE \/ excused' = TRUE \/ pc' = "down"
    BY <1>6 DEF SpuriousLatch, LatchConsumed, SpawnFails, CycleFails, Reload, WorkerExits
  <2> QED BY <2>1
<1>7. CASE Tick
  <2>1. /\ jobs' = [k \in DOMAIN jobs |-> [jobs[k] EXCEPT !.next = Later(jobs[k].next)]]
        /\ session' = [session EXCEPT !.next = Later(session.next)]
        /\ nextDue' = Later(nextDue) /\ UNCHANGED <<pc, latch, slots, excused>>
        /\ wake' = IF wake = 0 THEN 0 ELSE wake - 1
        /\ pc = "wait" => wake > 0
    BY <1>7 DEF Tick
  <2>2. /\ jobs'[j].next = Later(jobs[j].next) /\ jobs'[j].enabled = jobs[j].enabled
        /\ jobs'[j].running = jobs[j].running
    BY <1>c, <2>1 DEF JobRow
  <2>3. jobs[j].next \in Dates BY <1>c DEF JobRow
  <2>4. jobs[j].next # None BY <1>c, <2>2, <2>3, LaterDates
  <2>5. Waiting(j) BY <1>c, <2>2, <2>4 DEF Waiting
  <2>6. Free # {} BY <2>1 DEF Free
  <2>7. Covered(j) BY <1>d, <2>1, <2>5, <2>6
  <2>8. Announced(j) => Announced(j)'
    <3>1. session'.pc = session.pc /\ session'.job = session.job /\ session'.finds = session.finds
      BY <1>0, <2>1 DEF Sessions
    <3> QED BY <2>1, <3>1 DEF Announced
  <2>9. jobs[j].next \in Nat BY <2>3, <2>4 DEF Dates
  <2> DEFINE d == jobs[j].next
             e == jobs'[j].next
             floor == MinSleep * TicksPerMs
             now == wake'
  <2>10. e \in Nat /\ d <= e + 1 BY <2>2, <2>9, LaterDates
  <2>11. CASE pc = "spawn" /\ nextDue # None /\ nextDue <= jobs[j].next
    <3>1. nextDue \in Nat BY <1>0, <2>11 DEF Dates
    <3>2. Later(nextDue) <= Later(jobs[j].next) BY <2>9, <2>11, <3>1, LaterDates
    <3>3. Later(nextDue) # None BY <1>0, <2>11, LaterDates
    <3> QED BY <2>1, <2>2, <2>11, <3>2, <3>3 DEF Covered
  <2>12. CASE pc = "wait" /\ wake <= jobs[j].next + MinSleep * TicksPerMs
    <3>1. /\ floor \in Nat /\ wake \in Nat /\ d \in Nat /\ now = wake - 1
          /\ wake <= d + floor
      BY <1>0, <2>1, <2>9, <2>12
    <3> HIDE DEF d, e, floor, now
    <3>2. now <= e + floor BY <2>10, <3>1
    <3> QED BY <2>1, <2>12, <3>2 DEF Covered, e, floor, now
  <2> QED BY <2>7, <2>8, <2>11, <2>12 DEF Covered
<1>8. ASSUME NEW s \in Slots, WorkerRecords(s) PROVE Covered(j)'
  <2>1. /\ slots[s].worker = "running"
        /\ slots' = [slots EXCEPT ![s].worker = "recorded"]
        /\ jobs' = [jobs EXCEPT ![slots[s].job].running = FALSE]
        /\ UNCHANGED <<session, pc, latch, wake, nextDue, excused>>
    BY <1>8 DEF WorkerRecords
  <2>2. CASE j = slots[s].job
    <3>1. slots'[s].job = j /\ slots'[s].worker = "recorded" BY <1>0, <2>1, <2>2 DEF SlotRecords
    <3> QED BY <3>1 DEF Covered, Announced
  <2>3. CASE j # slots[s].job
    <3>1. jobs'[j] = jobs[j] BY <1>0, <1>c, <2>1, <2>3
    <3>2. \A t \in Slots \ {s} : slots'[t] = slots[t] BY <1>0, <2>1
    <3>3. slots'[s].worker = "recorded" BY <1>0, <2>1 DEF SlotRecords
    <3>4. Free # {} BY <3>2, <3>3 DEF Free
    <3>5. Announced(j) => Announced(j)'
      <4>1. ASSUME NEW t \in Slots, slots[t].job = j, slots[t].worker = "recorded"
            PROVE  slots'[t].job = j /\ slots'[t].worker = "recorded"
        <5>1. t # s BY <2>1, <4>1
        <5> QED BY <3>2, <4>1, <5>1
      <4> QED BY <2>1, <4>1 DEF Announced
    <3> QED BY <1>e, <2>1, <3>1, <3>4, <3>5
  <2> QED BY <2>2, <2>3
<1>9. CASE Start \/ Terminated \/ Top \/ Purge \/ Claim \/ WakeUp
  BY <1>9 DEF Start, Terminated, Exits, Top, Purge, Claim, WakeUp
<1>10. CASE FreeJobSlots
  <2>1. /\ pc' = IF Free # {} THEN "claim" ELSE "spawn"
        /\ slots' = [s \in Slots |-> IF s \in Free THEN Empty ELSE slots[s]]
    BY <1>10 DEF FreeJobSlots
  <2>2. Free = {} BY <2>1
  <2>3. \A s \in Slots : slots'[s] = slots[s] BY <2>1, <2>2
  <2>4. Free' = {} BY <2>2, <2>3 DEF Free
  <2> QED BY <2>4
<1>11. CASE ReadDeadline
  <2>1. /\ pc' = "spawn" /\ jobs' = jobs
        /\ nextDue' = IF WaitingDates = {} THEN None
                      ELSE CHOOSE d \in WaitingDates : \A e \in WaitingDates : d <= e
    BY <1>11 DEF ReadDeadline, jobVars
  <2>2. jobs[j].next \in WaitingDates BY <1>c, <2>1 DEF WaitingDates, Waiting
  <2>3. WaitingDates \subseteq Nat BY <1>0 DEF WaitingDates, Waiting, JobRow, Dates
  <2>4. \E d \in WaitingDates : \A e \in WaitingDates : d <= e
    BY <2>2, <2>3, LeastNumber
  <2>5. nextDue' \in WaitingDates /\ \A e \in WaitingDates : nextDue' <= e
    BY <2>1, <2>2, <2>4
  <2>6. nextDue' # None BY <2>3, <2>5, SleepAssumption
  <2> QED BY <2>1, <2>2, <2>5, <2>6 DEF Covered
<1>12. CASE Spawn
  <2>1. PICK s \in Slots :
          /\ slots[s] = Empty
          /\ slots' = [slots EXCEPT ![s] = [job |-> Head(claimed), worker |-> "running"]]
    BY <1>12 DEF Spawn
  <2>2. UNCHANGED <<jobs, session, pc, latch, wake, nextDue, excused>>
    BY <1>12 DEF Spawn, jobVars
  <2>3. slots[s].worker = "none" BY <2>1 DEF Empty
  <2>4. Free # {} BY <2>3 DEF Free
  <2>5. Announced(j) => Announced(j)'
    <3>1. ASSUME NEW t \in Slots, slots[t].job = j, slots[t].worker = "recorded"
          PROVE  slots'[t].job = j /\ slots'[t].worker = "recorded"
      <4>1. t # s BY <2>3, <3>1
      <4> QED BY <1>0, <2>1, <3>1, <4>1
    <3> QED BY <2>2, <3>1 DEF Announced
  <2> QED BY <1>e, <2>2, <2>4, <2>5
<1>13. CASE Sleep
  <2>1. /\ pc = "spawn" /\ pc' = "wait" /\ wake' = Timeout * TicksPerMs
        /\ UNCHANGED <<jobs, session, latch, slots, excused>>
    BY <1>13 DEF Sleep, jobVars
  <2>2. Free # {} BY <2>1 DEF Free
  <2>3. Waiting(j) BY <1>c, <2>1 DEF Waiting
  <2>4. Covered(j) BY <1>d, <2>1, <2>2, <2>3
  <2>5. CASE Announced(j) BY <2>1, <2>5 DEF Covered, Announced
  <2>6. CASE nextDue # None /\ nextDue <= jobs[j].next
    <3> DEFINE d == jobs[j].next
               floor == MinSleep * TicksPerMs
               now == Timeout * TicksPerMs
    <3>1. now \in 0 .. PollInterval * TicksPerMs /\ now <= nextDue + floor
      BY <1>0, <2>6, TimeoutBounds
    <3>2. nextDue \in Nat /\ d \in Nat
      BY <1>0, <1>c, <2>1, <2>6 DEF Dates, JobRow
    <3>3. floor \in Nat /\ nextDue <= d BY <1>0, <2>6
    <3>4. now \in Int BY <3>1
    <3> HIDE DEF d, floor, now
    <3>5. now <= d + floor BY <3>1, <3>2, <3>3, <3>4
    <3> QED BY <2>1, <3>5 DEF Covered, d, floor, now
  <2> QED BY <2>1, <2>4, <2>5, <2>6 DEF Covered
<1> QED BY <1>1, <1>2, <1>3, <1>4, <1>5, <1>6, <1>7, <1>8, <1>9, <1>10, <1>11, <1>12, <1>13
        DEF Next, SchedulerStep

(* SleepInv holds at first.                                                  *)
LEMMA SleepInit == Init => SleepInv
<1> SUFFICES ASSUME Init PROVE SleepInv OBVIOUS
<1>0. /\ None \in Dates /\ None \notin Nat /\ MaxCycleFailures \in Nat \ {0}
      /\ MaxExpired \in Nat /\ PollInterval * TicksPerMs \in Nat
  BY SleepAssumption DEF Dates
<1>1. JobTypes
  BY <1>0 DEF Init, JobTypes, JobRow, Idle, Empty
<1>2. LoopTypes
  <2>1. 0 \in 0 .. PollInterval * TicksPerMs /\ 0 \in 0 .. MaxCycleFailures BY <1>0
  <2> QED BY <2>1 DEF Init, LoopTypes, Locations
<1>3. PurgeTypes
  <2>1. file \in Settings BY DEF Init, Settings
  <2>2. 0 \in 0 .. MaxExpired BY <1>0
  <2> QED BY <1>0, <2>1, <2>2 DEF Init, PurgeTypes
<1>4. pc = "down" BY DEF Init
<1> QED BY <1>1, <1>2, <1>3, <1>4, SleepInvParts

(* Every step keeps SleepInv.                                                *)
LEMMA SleepStep == SleepInv /\ [Next]_vars => SleepInv'
<1> SUFFICES ASSUME SleepInv, [Next]_vars PROVE SleepInv' OBVIOUS
<1>1. JobTypes /\ LoopTypes /\ PurgeTypes /\ JobsCovered /\ PurgeCovered
  BY SleepInvParts DEF JobsCovered, PurgeCovered
<1>2. JobTypes' /\ LoopTypes' /\ PurgeTypes' /\ JobsCovered' /\ PurgeCovered'
  BY <1>1, JobTypesStep, LoopTypesStep, PurgeTypesStep, JobsCoveredStep, PurgeCoveredStep
<1> QED BY <1>2
        DEF SleepInv, TypeOK, JobTypes, LoopTypes, PurgeTypes, JobsCovered, PurgeCovered

(* Whatever calls, ticks, reloads and worker exits come between reading the  *)
(* deadlines and sleeping, a scheduler with a slot to spare is not asleep    *)
(* past a job it could start or past the next purge, for any number of jobs  *)
(* and slots and any poll interval.                                          *)
THEOREM SleepsNoLongerThanItMay == Spec => []NoOversleep
<1>1. SleepInv => NoOversleep
  BY DEF SleepInv, NoOversleep, Asleep, Covered
<1> QED BY <1>1, SleepInit, SleepStep, PTL DEF Spec

(* History goes only by Purge, which is reached only with a purge deadline,  *)
(* and a deadline is known only while the setting is on.                     *)
LEMMA PurgingIsOn ==
    ASSUME SleepInv, [Next]_vars, expired' < expired PROVE setting = "on"
<1>0. expired \in Nat /\ MaxExpired \in Nat BY SleepAssumption DEF SleepInv, TypeOK
<1>1. expired' = expired \/ expired' = expired + 1 \/ Purge
  BY DEF Next, Enable, DisableJob, Commit, Rollback, WakeupAtCommit, Reload,
     SpuriousLatch, Tick, Expire, WorkerRecords, WorkerExits, Start, Terminated,
     LatchConsumed, SchedulerStep, Top, FreeJobSlots, Claim, ReadDeadline,
     Spawn, SpawnFails, Sleep, CycleFails, WakeUp, vars, purgeVars
<1>2. Purge BY <1>0, <1>1
<1>3. pc = "purge" BY <1>2 DEF Purge
<1> QED BY <1>3 DEF SleepInv

(* Run history is deleted only while the process's setting says so, also     *)
(* when a drain is under way and the setting changes.                        *)
THEOREM PurgeKeepsToSetting == Spec => PurgeObeysSetting
<1>1. SleepInv /\ [Next]_vars => [expired' < expired => setting = "on"]_vars
  BY PurgingIsOn
<1> QED BY <1>1, SleepInit, SleepStep, PTL DEF Spec, PurgeObeysSetting
=============================================================================
