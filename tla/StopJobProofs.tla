--------------------------- MODULE StopJobProofs ----------------------------
(* The inductive invariant StopInv of StopJob, action by action, and the     *)
(* theorem that STOP_JOB hits the run it meant and the log tells the truth.  *)
EXTENDS StopJob, TLAPS

\* First-order reasoning does for most steps, arithmetic for the others.
USE ZenonT(10), SMTT(30)

(* The start times on rows, of processes and in a call are numbers.          *)
LEMMA Numbers ==
    ASSUME TypeOK
    PROVE  /\ clock \in Nat
           /\ \A p \in Pids : proc[p].start \in Nat
           /\ \A l \in LogIds : log[l].start \in Nat
           /\ call # NoCall => call.start \in Nat
<1>1. clock \in Nat /\ (call # NoCall => call.start \in Nat)
  BY StopAssumption DEF TypeOK
<1>2. \A p \in Pids : proc[p].start \in Nat
  BY StopAssumption DEF TypeOK, Process
<1>3. \A l \in LogIds : log[l].start \in Nat
  BY StopAssumption DEF TypeOK, Row
<1> QED BY <1>1, <1>2, <1>3

(* A row stays a row when its status is set: UPDATE ... SET status.          *)
LEMMA StatusSet ==
    ASSUME TypeOK, NEW l \in LogIds, NEW s \in {"none", "r", "s", "f"},
           log' = [log EXCEPT ![l].status = s]
    PROVE  /\ log' \in [LogIds -> Row]
           /\ log'[l].status = s
           /\ log'[l].job = log[l].job /\ log'[l].pid = log[l].pid
           /\ log'[l].start = log[l].start
           /\ \A k \in LogIds \ {l} : log'[k] = log[k]
<1> DEFINE r == log[l]
           t == [r EXCEPT !.status = s]
<1>1. log' = [log EXCEPT ![l] = t]
  OBVIOUS
<1>2. r \in Row
  BY DEF TypeOK
<1> HIDE DEF r
<1>3. t \in Row /\ t.status = s /\ t.job = r.job /\ t.pid = r.pid /\ t.start = r.start
  BY <1>2 DEF Row
<1> HIDE DEF t
<1>4. log'[l] = t /\ log' \in [LogIds -> Row] /\ \A k \in LogIds \ {l} : log'[k] = log[k]
  BY <1>1, <1>3 DEF TypeOK
<1> QED BY <1>3, <1>4 DEF r

(* A worker moves on, the others stay where they are.                        *)
LEMMA PlaceSet ==
    ASSUME TypeOK, NEW l \in LogIds, NEW w \in Places,
           worker' = [worker EXCEPT ![l] = w]
    PROVE  /\ worker' \in [LogIds -> Places] /\ worker'[l] = w
           /\ \A k \in LogIds \ {l} : worker'[k] = worker[k]
  BY DEF TypeOK

(* A process starts under a free pid, with a start time of its own.          *)
LEMMA ForkedFacts ==
    ASSUME TypeOK, NEW p \in Pids, NEW l \in LogIds \cup {None}, Forked(p, l)
    PROVE  /\ proc' \in [Pids -> Process] /\ proc[p].start = 0
           /\ clock' = clock + 1 /\ clock' \in 0 .. MaxStart
           /\ proc'[p].start = clock' /\ proc'[p].run = l /\ proc'[p].signals = {}
           /\ \A q \in Pids \ {p} : proc'[q] = proc[q]
<1>1. clock' = clock + 1 /\ clock' \in 0 .. MaxStart /\ proc[p].start = 0
  BY StopAssumption DEF Forked, Alive, TypeOK
<1> DEFINE r == [start |-> clock', run |-> l, signals |-> {}]
<1>2. r \in Process /\ r.start = clock' /\ r.run = l /\ r.signals = {}
  BY <1>1 DEF Process
<1>3. proc' = [proc EXCEPT ![p] = r]
  BY DEF Forked
<1> HIDE DEF r
<1> QED BY <1>1, <1>2, <1>3 DEF TypeOK

(* A process ends and its pid is free.                                       *)
LEMMA EndedFacts ==
    ASSUME TypeOK, NEW p \in Pids, proc' = [proc EXCEPT ![p] = NoProc]
    PROVE  /\ proc' \in [Pids -> Process]
           /\ proc'[p].start = 0 /\ proc'[p].run = None /\ proc'[p].signals = {}
           /\ \A q \in Pids \ {p} : proc'[q] = proc[q]
<1>1. NoProc \in Process
  BY StopAssumption DEF NoProc, Process
<1>2. proc'[p] = NoProc /\ proc' \in [Pids -> Process]
  BY <1>1 DEF TypeOK
<1>3. proc'[p].start = 0 /\ proc'[p].run = None /\ proc'[p].signals = {}
  BY <1>2 DEF NoProc
<1> QED BY <1>2, <1>3 DEF TypeOK

(* The signals of a process change, nothing else of it does.                 *)
LEMMA SignalsSet ==
    ASSUME TypeOK, NEW p \in Pids, NEW s \in SUBSET Signals,
           proc' = [proc EXCEPT ![p].signals = s]
    PROVE  /\ proc' \in [Pids -> Process]
           /\ proc'[p].start = proc[p].start /\ proc'[p].run = proc[p].run
           /\ proc'[p].signals = s
           /\ \A q \in Pids \ {p} : proc'[q] = proc[q]
<1> DEFINE r == proc[p]
           t == [r EXCEPT !.signals = s]
<1>1. proc' = [proc EXCEPT ![p] = t]
  OBVIOUS
<1>2. r \in Process
  BY DEF TypeOK
<1> HIDE DEF r
<1>3. t \in Process /\ t.start = r.start /\ t.run = r.run /\ t.signals = s
  BY <1>2 DEF Process
<1> HIDE DEF t
<1>4. proc'[p] = t /\ proc' \in [Pids -> Process] /\ \A q \in Pids \ {p} : proc'[q] = proc[q]
  BY <1>1, <1>3 DEF TypeOK
<1> QED BY <1>3, <1>4 DEF r

(* The process of a run is there while its worker has not ended.             *)
LEMMA PidOfRun ==
    ASSUME NEW l \in LogIds, StopInv,
           At(l, {"loading", "running", "committed", "failed", "exiting"})
    PROVE  PidOf(l) \in Pids /\ proc[PidOf(l)].run = l
<1>1. \E p \in Pids : proc[p].run = l
  BY DEF StopInv, PlacesAgree
<1>2. QED
  BY <1>1 DEF PidOf

(* A new process has a start time nobody has read yet.                       *)
LEMMA OtherStartsKeeps ==
    ASSUME NEW p \in Pids, TypeOK, StopInv, OtherStarts(p)
    PROVE  TypeOK' /\ StopInv'
<1>u. UNCHANGED <<running, log, worker, done, up, crashes, cut, call, seen, stopped, misled>>
  BY DEF OtherStarts, caller
<1>n. None \notin LogIds
  BY StopAssumption DEF LogIds
<1>f. /\ proc' \in [Pids -> Process] /\ proc[p].start = 0
      /\ clock' = clock + 1 /\ clock' \in 0 .. MaxStart
      /\ proc'[p].start = clock' /\ proc'[p].run = None /\ proc'[p].signals = {}
      /\ \A q \in Pids \ {p} : proc'[q] = proc[q]
  BY ForkedFacts DEF OtherStarts
<1>h. proc[p].run = None
  BY <1>f DEF StopInv, ProcessesDiffer
<1>t. TypeOK'
  BY <1>u, <1>f DEF TypeOK, NotSeen
<1>1. ProcessesDiffer'
  BY <1>u, <1>n, <1>f, Numbers DEF StopInv, ProcessesDiffer
<1>2. PlacesAgree'
  BY <1>u, <1>n, <1>f, <1>h, Numbers
     DEF StopInv, PlacesAgree, ProcessesDiffer, Names, At
<1>3. OutcomePending'
  BY <1>u, <1>n, <1>f, Numbers
     DEF StopInv, OutcomePending, PlacesAgree, OutcomeTrue, Excused, At
<1>4. CallNamesRun'
  BY <1>u, <1>n, <1>f, Numbers DEF StopInv, CallNamesRun, Names
<1>5. StopHitsRun'
  BY <1>u, <1>n, <1>f, Numbers DEF StopInv, StopHitsRun
<1>6. OutcomeTrue'
  BY <1>u, <1>n, <1>f, Numbers
     DEF StopInv, OutcomeTrue, OutcomePending, PlacesAgree, Excused, At
<1> QED BY <1>t, <1>1, <1>2, <1>3, <1>4, <1>5, <1>6 DEF StopInv

(* A process that works for no run may go.                                   *)
LEMMA OtherEndsKeeps ==
    ASSUME NEW p \in Pids, TypeOK, StopInv, OtherEnds(p)
    PROVE  TypeOK' /\ StopInv'
<1>u. UNCHANGED <<running, log, worker, done, clock, up, crashes, cut, call, seen, stopped, misled>>
  BY DEF OtherEnds, caller
<1>n. None \notin LogIds
  BY StopAssumption DEF LogIds
<1>f. /\ proc' \in [Pids -> Process] /\ proc[p].run = None
      /\ proc'[p].start = 0 /\ proc'[p].run = None /\ proc'[p].signals = {}
      /\ \A q \in Pids \ {p} : proc'[q] = proc[q]
  BY ZenonT(30), EndedFacts DEF OtherEnds
<1>h. proc[p].run = None
  BY <1>f
<1>t. TypeOK'
  BY <1>u, <1>f DEF TypeOK, NotSeen
<1>1. ProcessesDiffer'
  BY <1>u, <1>n, <1>f, Numbers DEF StopInv, ProcessesDiffer
<1>2. PlacesAgree'
  BY <1>u, <1>n, <1>f, <1>h, Numbers
     DEF StopInv, PlacesAgree, ProcessesDiffer, Names, At
<1>3. OutcomePending'
  BY <1>u, <1>n, <1>f, Numbers
     DEF StopInv, OutcomePending, PlacesAgree, OutcomeTrue, Excused, At
<1>4. CallNamesRun'
  BY <1>u, <1>n, <1>f, Numbers DEF StopInv, CallNamesRun, Names
<1>5. StopHitsRun'
  BY <1>u, <1>n, <1>f, Numbers DEF StopInv, StopHitsRun
<1>6. OutcomeTrue'
  BY <1>u, <1>n, <1>f, Numbers
     DEF StopInv, OutcomeTrue, OutcomePending, PlacesAgree, Excused, At
<1> QED BY <1>t, <1>1, <1>2, <1>3, <1>4, <1>5, <1>6 DEF StopInv

(* A claimed run has no process yet: scheduler_claim_one.                    *)
LEMMA ClaimKeeps ==
    ASSUME NEW j \in Jobs, NEW l \in LogIds, TypeOK, StopInv, Claim(j, l)
    PROVE  TypeOK' /\ StopInv'
<1>u. UNCHANGED <<done, proc, clock, up, crashes, cut, call, seen, stopped, misled>>
  BY DEF Claim, caller
<1>n. None \notin LogIds
  BY StopAssumption DEF LogIds
<1>f. /\ up /\ log[l].status = "none" /\ running' \subseteq Jobs
      /\ worker' \in [LogIds -> Places] /\ worker'[l] = "registered"
      /\ \A k \in LogIds \ {l} : worker'[k] = worker[k]
  BY ZenonT(30), PlaceSet DEF Claim, TypeOK, Places
<1>g. /\ log' \in [LogIds -> Row] /\ log'[l].status = "r" /\ log'[l].pid = None
      /\ \A k \in LogIds \ {l} : log'[k] = log[k]
  <2> DEFINE r == [status |-> "r", job |-> j, pid |-> None, start |-> 0]
  <2>1. r \in Row /\ r.status = "r" /\ r.pid = None
    BY StopAssumption DEF Row
  <2>2. log' = [log EXCEPT ![l] = r]
    BY DEF Claim
  <2> HIDE DEF r
  <2> QED BY <2>1, <2>2 DEF TypeOK
<1>t. TypeOK'
  BY <1>u, <1>f, <1>g DEF TypeOK, NotSeen
<1>1. ProcessesDiffer'
  BY <1>u, <1>n, <1>f, <1>g DEF StopInv, ProcessesDiffer
<1>2. PlacesAgree'
  BY <1>u, <1>n, <1>f, <1>g DEF StopInv, PlacesAgree, ProcessesDiffer, Names, At
<1>3. OutcomePending'
  BY <1>u, <1>n, <1>f, <1>g
     DEF StopInv, OutcomePending, PlacesAgree, OutcomeTrue, Excused, At
<1>4. CallNamesRun'
  BY <1>u, <1>n, <1>f, <1>g DEF StopInv, CallNamesRun, Names
<1>5. StopHitsRun'
  BY <1>u, <1>n, <1>f, <1>g DEF StopInv, StopHitsRun
<1>6. OutcomeTrue'
  BY <1>u, <1>n, <1>f, <1>g
     DEF StopInv, OutcomeTrue, OutcomePending, PlacesAgree, Excused, At
<1> QED BY <1>t, <1>1, <1>2, <1>3, <1>4, <1>5, <1>6 DEF StopInv

(* The process of a run is the only one with its start time.                 *)
LEMMA WorkerStartsKeeps ==
    ASSUME NEW l \in LogIds, NEW p \in Pids, TypeOK, StopInv, WorkerStarts(l, p)
    PROVE  TypeOK' /\ StopInv'
<1>u. UNCHANGED <<running, log, done, up, crashes, cut, call, seen, stopped, misled>>
  BY DEF WorkerStarts, caller
<1>n. None \notin LogIds
  BY StopAssumption DEF LogIds
<1>f. /\ proc' \in [Pids -> Process] /\ proc[p].start = 0
      /\ clock' = clock + 1 /\ clock' \in 0 .. MaxStart
      /\ proc'[p].start = clock' /\ proc'[p].run = l /\ proc'[p].signals = {}
      /\ \A q \in Pids \ {p} : proc'[q] = proc[q]
  BY ForkedFacts DEF WorkerStarts
<1>g. /\ worker' \in [LogIds -> Places] /\ worker[l] = "registered" /\ worker'[l] = "loading"
      /\ \A k \in LogIds \ {l} : worker'[k] = worker[k]
  BY ZenonT(30), PlaceSet DEF WorkerStarts, At, Places
<1>h. proc[p].run = None
  BY <1>f DEF StopInv, ProcessesDiffer
<1>i. \A q \in Pids : proc[q].run # l
  BY <1>g DEF StopInv, PlacesAgree, At
<1>t. TypeOK'
  BY <1>u, <1>f, <1>g DEF TypeOK, NotSeen
<1>1. ProcessesDiffer'
  BY <1>u, <1>n, <1>f, <1>h, <1>i, Numbers DEF StopInv, ProcessesDiffer
<1>2. PlacesAgree'
  BY <1>u, <1>n, <1>f, <1>g, <1>h, <1>i, Numbers
     DEF StopInv, PlacesAgree, ProcessesDiffer, Names, At
<1>3. OutcomePending'
  BY <1>u, <1>n, <1>f, <1>g, <1>h, <1>i, Numbers
     DEF StopInv, OutcomePending, PlacesAgree, OutcomeTrue, Excused, At
<1>4. CallNamesRun'
  BY <1>u, <1>n, <1>f, <1>g, <1>h, <1>i, Numbers DEF StopInv, CallNamesRun, Names
<1>5. StopHitsRun'
  BY <1>u, <1>n, <1>f, <1>g, <1>h, <1>i, Numbers DEF StopInv, StopHitsRun
<1>6. OutcomeTrue'
  BY <1>u, <1>n, <1>f, <1>g, <1>h, <1>i, Numbers
     DEF StopInv, OutcomeTrue, OutcomePending, PlacesAgree, Excused, At
<1> QED BY <1>t, <1>1, <1>2, <1>3, <1>4, <1>5, <1>6 DEF StopInv

(* sched_log_set_worker_pid puts the run's own process on its row.           *)
LEMMA LoadKeeps ==
    ASSUME NEW l \in LogIds, TypeOK, StopInv, Load(l)
    PROVE  TypeOK' /\ StopInv'
<1>u. UNCHANGED <<running, done, proc, clock, up, crashes, cut, call, seen, stopped, misled>>
  BY DEF Load, caller
<1>n. None \notin LogIds
  BY StopAssumption DEF LogIds
<1>p. PidOf(l) \in Pids /\ proc[PidOf(l)].run = l
  BY PidOfRun DEF Load, At
<1>f. /\ worker[l] = "loading" /\ worker' \in [LogIds -> Places] /\ worker'[l] = "running"
      /\ \A k \in LogIds \ {l} : worker'[k] = worker[k]
  BY ZenonT(30), PlaceSet DEF Load, At, Places
<1>g. /\ log' \in [LogIds -> Row] /\ log'[l].status = log[l].status
      /\ log'[l].pid = PidOf(l) /\ log'[l].start = proc[PidOf(l)].start
      /\ \A k \in LogIds \ {l} : log'[k] = log[k]
  <2> DEFINE r == log[l]
             a == PidOf(l)
             b == proc[a].start
             u == [r EXCEPT !.pid = a]
             t == [u EXCEPT !.start = b]
  <2>1. log' = [log EXCEPT ![l] = t]
    BY DEF Load, Published
  <2>2. r \in Row /\ a \in Pids /\ b \in 0 .. MaxStart
    BY <1>p DEF TypeOK, Process
  <2> HIDE DEF r, a, b
  <2>3. u \in Row /\ u.status = r.status /\ u.pid = a
    BY <2>2 DEF Row
  <2> HIDE DEF u
  <2>4. t \in Row /\ t.status = r.status /\ t.pid = a /\ t.start = b
    BY <2>2, <2>3 DEF Row
  <2> HIDE DEF t
  <2>5. log'[l] = t /\ log' \in [LogIds -> Row] /\ \A k \in LogIds \ {l} : log'[k] = log[k]
    BY <2>1, <2>4 DEF TypeOK
  <2> QED BY <2>4, <2>5 DEF r, a, b
<1>h. /\ \A p \in Pids : proc[p].run = l => p = PidOf(l)
      /\ proc[PidOf(l)].start # 0 /\ proc[PidOf(l)].start <= clock
      /\ \A p \in Pids : proc[p].start = proc[PidOf(l)].start => proc[p].run = l
  BY <1>p, <1>n DEF StopInv, ProcessesDiffer
<1>t. TypeOK'
  BY <1>u, <1>f, <1>g DEF TypeOK, NotSeen
<1>1. ProcessesDiffer'
  BY <1>u, <1>n, <1>p, <1>f, <1>g, <1>h DEF StopInv, ProcessesDiffer
<1>2. PlacesAgree'
  BY <1>u, <1>n, <1>p, <1>f, <1>g, <1>h
     DEF StopInv, PlacesAgree, ProcessesDiffer, Names, At
<1>3. OutcomePending'
  BY <1>u, <1>n, <1>p, <1>f, <1>g, <1>h
     DEF StopInv, OutcomePending, PlacesAgree, OutcomeTrue, Excused, At
<1>4. CallNamesRun'
  BY <1>u, <1>n, <1>p, <1>f, <1>g, <1>h DEF StopInv, CallNamesRun, Names
<1>5. StopHitsRun'
  BY <1>u, <1>n, <1>p, <1>f, <1>g, <1>h DEF StopInv, StopHitsRun
<1>6. OutcomeTrue'
  BY <1>u, <1>n, <1>p, <1>f, <1>g, <1>h
     DEF StopInv, OutcomeTrue, OutcomePending, PlacesAgree, Excused, At
<1> QED BY <1>t, <1>1, <1>2, <1>3, <1>4, <1>5, <1>6 DEF StopInv

(* A run whose definition could not be loaded did not commit.                *)
LEMMA LoadFailsKeeps ==
    ASSUME NEW l \in LogIds, TypeOK, StopInv, LoadFails(l)
    PROVE  TypeOK' /\ StopInv'
<1>u. UNCHANGED <<running, done, proc, clock, up, crashes, cut, call, seen, stopped, misled>>
  BY SMTT(20) DEF LoadFails, caller
<1>n. None \notin LogIds
  BY StopAssumption DEF LogIds
<1>f. /\ worker[l] = "loading" /\ worker' \in [LogIds -> Places] /\ worker'[l] = "exiting"
      /\ \A k \in LogIds \ {l} : worker'[k] = worker[k]
  BY PlaceSet DEF LoadFails, At, Places, TypeOK
<1>g. /\ log' \in [LogIds -> Row] /\ log'[l].status = "f"
      /\ log'[l].pid = log[l].pid /\ log'[l].start = log[l].start
      /\ \A k \in LogIds \ {l} : log'[k] = log[k]
  BY ZenonT(30), StatusSet DEF LoadFails
<1>t. TypeOK'
  BY <1>u, <1>f, <1>g DEF TypeOK, NotSeen
<1>1. ProcessesDiffer'
  BY <1>u, <1>n, <1>f, <1>g DEF StopInv, ProcessesDiffer
<1>2. PlacesAgree'
  BY <1>u, <1>n, <1>f, <1>g DEF StopInv, PlacesAgree, ProcessesDiffer, Names, At
<1>3. OutcomePending'
  BY <1>u, <1>n, <1>f, <1>g
     DEF StopInv, OutcomePending, PlacesAgree, OutcomeTrue, Excused, At
<1>4. CallNamesRun'
  BY <1>u, <1>n, <1>f, <1>g DEF StopInv, CallNamesRun, Names
<1>5. StopHitsRun'
  BY <1>u, <1>n, <1>f, <1>g DEF StopInv, StopHitsRun
<1>6. OutcomeTrue'
  BY <1>u, <1>n, <1>f, <1>g
     DEF StopInv, OutcomeTrue, OutcomePending, PlacesAgree, Excused, At
<1> QED BY <1>t, <1>1, <1>2, <1>3, <1>4, <1>5, <1>6 DEF StopInv

(* The job commits with its run still open on the log.                       *)
LEMMA JobCommitsKeeps ==
    ASSUME NEW l \in LogIds, TypeOK, StopInv, JobCommits(l)
    PROVE  TypeOK' /\ StopInv'
<1>u. UNCHANGED <<running, log, proc, clock, up, crashes, cut, call, seen, stopped, misled>>
  BY SMTT(20) DEF JobCommits, caller
<1>n. None \notin LogIds
  BY StopAssumption DEF LogIds
<1>f. /\ worker[l] = "running" /\ worker' \in [LogIds -> Places] /\ worker'[l] = "committed"
      /\ \A k \in LogIds \ {l} : worker'[k] = worker[k]
      /\ done' = done \cup {l}
  BY ZenonT(30), PlaceSet DEF JobCommits, At, Places
<1>t. TypeOK'
  BY <1>u, <1>f DEF TypeOK, NotSeen
<1>1. ProcessesDiffer'
  BY <1>u, <1>n, <1>f DEF StopInv, ProcessesDiffer
<1>2. PlacesAgree'
  BY <1>u, <1>n, <1>f DEF StopInv, PlacesAgree, ProcessesDiffer, Names, At
<1>3. OutcomePending'
  BY <1>u, <1>n, <1>f DEF StopInv, OutcomePending, PlacesAgree, OutcomeTrue, Excused, At
<1>4. CallNamesRun'
  BY <1>u, <1>n, <1>f DEF StopInv, CallNamesRun, Names
<1>5. StopHitsRun'
  BY <1>u, <1>n, <1>f DEF StopInv, StopHitsRun
<1>6. OutcomeTrue'
  BY <1>u, <1>n, <1>f DEF StopInv, OutcomeTrue, OutcomePending, PlacesAgree, Excused, At
<1> QED BY <1>t, <1>1, <1>2, <1>3, <1>4, <1>5, <1>6 DEF StopInv

(* The job's error handler takes the cancel and leaves the rest.             *)
LEMMA JobFailsKeeps ==
    ASSUME NEW l \in LogIds, TypeOK, StopInv, JobFails(l)
    PROVE  TypeOK' /\ StopInv'
<1>u. UNCHANGED <<running, log, done, clock, up, crashes, cut, call, seen, stopped, misled>>
  BY DEF JobFails, caller
<1>n. None \notin LogIds
  BY StopAssumption DEF LogIds
<1>p. PidOf(l) \in Pids
  BY SMTT(20), PidOfRun DEF JobFails, At
<1>f. /\ worker[l] = "running" /\ worker' \in [LogIds -> Places] /\ worker'[l] = "failed"
      /\ \A k \in LogIds \ {l} : worker'[k] = worker[k]
  BY ZenonT(30), PlaceSet DEF JobFails, At, Places
<1>g. /\ proc' \in [Pids -> Process]
      /\ \A p \in Pids : /\ proc'[p].start = proc[p].start /\ proc'[p].run = proc[p].run
                         /\ proc'[p].signals \subseteq proc[p].signals
  <2> DEFINE s == proc[PidOf(l)].signals \ {"cancel"}
  <2>1. s \in SUBSET Signals /\ s \subseteq proc[PidOf(l)].signals
    BY <1>p DEF TypeOK, Process
  <2>2. CASE proc' = proc
    BY <2>2 DEF TypeOK
  <2>3. CASE proc' = [proc EXCEPT ![PidOf(l)].signals = s]
    <3> HIDE DEF s
    <3> QED BY ZenonT(30), <1>p, <2>1, <2>3, SignalsSet
  <2> QED BY <2>2, <2>3 DEF JobFails
<1>t. TypeOK'
  BY <1>u, <1>f, <1>g DEF TypeOK, NotSeen
<1>1. ProcessesDiffer'
  BY <1>u, <1>n, <1>f, <1>g DEF StopInv, ProcessesDiffer
<1>2. PlacesAgree'
  BY <1>u, <1>n, <1>f, <1>g DEF StopInv, PlacesAgree, ProcessesDiffer, Names, At
<1>3. OutcomePending'
  BY <1>u, <1>n, <1>f, <1>g
     DEF StopInv, OutcomePending, PlacesAgree, OutcomeTrue, Excused, At
<1>4. CallNamesRun'
  BY <1>u, <1>n, <1>f, <1>g DEF StopInv, CallNamesRun, Names
<1>5. StopHitsRun'
  BY <1>u, <1>n, <1>f, <1>g DEF StopInv, StopHitsRun
<1>6. OutcomeTrue'
  BY <1>u, <1>n, <1>f, <1>g
     DEF StopInv, OutcomeTrue, OutcomePending, PlacesAgree, Excused, At
<1> QED BY <1>t, <1>1, <1>2, <1>3, <1>4, <1>5, <1>6 DEF StopInv

(* worker_finish_log records what became of the job.                         *)
LEMMA RecordKeeps ==
    ASSUME NEW l \in LogIds, TypeOK, StopInv, Record(l)
    PROVE  TypeOK' /\ StopInv'
<1>u. UNCHANGED <<done, proc, clock, up, crashes, cut, call, seen, stopped, misled>>
  BY SMTT(20) DEF Record, caller
<1>n. None \notin LogIds
  BY StopAssumption DEF LogIds
<1>f. /\ worker[l] \in {"committed", "failed"} /\ running' \subseteq Jobs /\ worker' \in [LogIds -> Places] /\ worker'[l] = "exiting"
      /\ \A k \in LogIds \ {l} : worker'[k] = worker[k]
  BY PlaceSet DEF Record, At, Places, TypeOK
<1>g. /\ log' \in [LogIds -> Row] /\ log'[l].status = (IF worker[l] = "committed" THEN "s" ELSE "f")
      /\ log'[l].pid = log[l].pid /\ log'[l].start = log[l].start
      /\ \A k \in LogIds \ {l} : log'[k] = log[k]
  BY ZenonT(30), StatusSet DEF Record, Outcome, At
<1>t. TypeOK'
  BY <1>u, <1>f, <1>g DEF TypeOK, NotSeen
<1>1. ProcessesDiffer'
  BY <1>u, <1>n, <1>f, <1>g DEF StopInv, ProcessesDiffer
<1>2. PlacesAgree'
  BY <1>u, <1>n, <1>f, <1>g DEF StopInv, PlacesAgree, ProcessesDiffer, Names, At
<1>3. OutcomePending'
  BY <1>u, <1>n, <1>f, <1>g
     DEF StopInv, OutcomePending, PlacesAgree, OutcomeTrue, Excused, At
<1>4. CallNamesRun'
  BY <1>u, <1>n, <1>f, <1>g DEF StopInv, CallNamesRun, Names
<1>5. StopHitsRun'
  BY <1>u, <1>n, <1>f, <1>g DEF StopInv, StopHitsRun
<1>6. OutcomeTrue'
  BY <1>u, <1>n, <1>f, <1>g
     DEF StopInv, OutcomeTrue, OutcomePending, PlacesAgree, Excused, At
<1> QED BY <1>t, <1>1, <1>2, <1>3, <1>4, <1>5, <1>6 DEF StopInv

(* A worker ends without a record only when it was signalled.                *)
LEMMA InterruptedKeeps ==
    ASSUME NEW l \in LogIds, TypeOK, StopInv, Interrupted(l)
    PROVE  TypeOK' /\ StopInv'
<1>u. UNCHANGED <<running, log, done, clock, up, crashes, cut, call, seen, stopped, misled>>
  BY DEF Interrupted, caller
<1>n. None \notin LogIds
  BY StopAssumption DEF LogIds
<1>p. PidOf(l) \in Pids /\ proc[PidOf(l)].run = l
  BY PidOfRun DEF Interrupted, At
<1>f. /\ worker[l] \in {"loading", "running", "committed", "failed"}
      /\ worker' \in [LogIds -> Places] /\ worker'[l] = "gone"
      /\ \A k \in LogIds \ {l} : worker'[k] = worker[k]
  BY ZenonT(30), PlaceSet DEF Interrupted, At, Places
<1>g. /\ proc' \in [Pids -> Process]
      /\ proc'[PidOf(l)].start = 0 /\ proc'[PidOf(l)].run = None /\ proc'[PidOf(l)].signals = {}
      /\ \A q \in Pids \ {PidOf(l)} : proc'[q] = proc[q]
  BY ZenonT(30), <1>p, EndedFacts DEF Interrupted, Ended
<1>h. l \in done => Excused(l)
  <2>1. SUFFICES ASSUME l \in done PROVE Excused(l)
    OBVIOUS
  <2>2. worker[l] = "committed"
    BY <1>f, <2>1 DEF StopInv, OutcomePending, At
  <2>3. proc[PidOf(l)].signals # {} /\ proc[PidOf(l)].start = log[l].start
    BY <1>p, <2>2 DEF Interrupted, StopInv, PlacesAgree, At
  <2> QED BY <1>p, <2>3 DEF StopInv, StopHitsRun, Excused
<1>t. TypeOK'
  BY <1>u, <1>f, <1>g DEF TypeOK, NotSeen
<1>1. ProcessesDiffer'
  BY <1>u, <1>n, <1>p, <1>f, <1>g, <1>h, Numbers DEF StopInv, ProcessesDiffer
<1>2. PlacesAgree'
  BY SMTT(20), <1>u, <1>n, <1>p, <1>f, <1>g, <1>h, Numbers
     DEF StopInv, PlacesAgree, ProcessesDiffer, Names, At
<1>3. OutcomePending'
  BY SMTT(20), <1>u, <1>n, <1>p, <1>f, <1>g, <1>h, Numbers
     DEF StopInv, OutcomePending, PlacesAgree, OutcomeTrue, Excused, At
<1>4. CallNamesRun'
  BY <1>u, <1>n, <1>p, <1>f, <1>g, <1>h, Numbers DEF StopInv, CallNamesRun, Names
<1>5. StopHitsRun'
  BY SMTT(20), <1>u, <1>n, <1>p, <1>f, <1>g, <1>h, Numbers DEF StopInv, StopHitsRun
<1>6. OutcomeTrue'
  BY <1>u, <1>n, <1>p, <1>f, <1>g, <1>h, Numbers
     DEF StopInv, OutcomeTrue, OutcomePending, PlacesAgree, Excused, At
<1> QED BY <1>t, <1>1, <1>2, <1>3, <1>4, <1>5, <1>6 DEF StopInv

(* A worker that exits by itself has recorded its outcome.                   *)
LEMMA WorkerExitsKeeps ==
    ASSUME NEW l \in LogIds, TypeOK, StopInv, WorkerExits(l)
    PROVE  TypeOK' /\ StopInv'
<1>u. UNCHANGED <<running, log, done, clock, up, crashes, cut, call, seen, stopped, misled>>
  BY DEF WorkerExits, caller
<1>n. None \notin LogIds
  BY StopAssumption DEF LogIds
<1>p. PidOf(l) \in Pids /\ proc[PidOf(l)].run = l
  BY PidOfRun DEF WorkerExits, At
<1>f. /\ worker[l] = "exiting"
      /\ worker' \in [LogIds -> Places] /\ worker'[l] = "gone"
      /\ \A k \in LogIds \ {l} : worker'[k] = worker[k]
  BY ZenonT(30), PlaceSet DEF WorkerExits, At, Places
<1>g. /\ proc' \in [Pids -> Process]
      /\ proc'[PidOf(l)].start = 0 /\ proc'[PidOf(l)].run = None /\ proc'[PidOf(l)].signals = {}
      /\ \A q \in Pids \ {PidOf(l)} : proc'[q] = proc[q]
  BY ZenonT(30), <1>p, EndedFacts DEF WorkerExits, Ended
<1>t. TypeOK'
  BY <1>u, <1>f, <1>g DEF TypeOK, NotSeen
<1>1. ProcessesDiffer'
  BY <1>u, <1>n, <1>p, <1>f, <1>g, Numbers DEF StopInv, ProcessesDiffer
<1>2. PlacesAgree'
  BY <1>u, <1>n, <1>p, <1>f, <1>g, Numbers
     DEF StopInv, PlacesAgree, ProcessesDiffer, Names, At
<1>3. OutcomePending'
  BY <1>u, <1>n, <1>p, <1>f, <1>g, Numbers
     DEF StopInv, OutcomePending, PlacesAgree, OutcomeTrue, Excused, At
<1>4. CallNamesRun'
  BY <1>u, <1>n, <1>p, <1>f, <1>g, Numbers DEF StopInv, CallNamesRun, Names
<1>5. StopHitsRun'
  BY <1>u, <1>n, <1>p, <1>f, <1>g, Numbers DEF StopInv, StopHitsRun
<1>6. OutcomeTrue'
  BY <1>u, <1>n, <1>p, <1>f, <1>g, Numbers
     DEF StopInv, OutcomeTrue, OutcomePending, PlacesAgree, Excused, At
<1> QED BY <1>t, <1>1, <1>2, <1>3, <1>4, <1>5, <1>6 DEF StopInv

(* scheduler_reconcile_stopped closes runs whose worker is gone.             *)
LEMMA ReconcileKeeps ==
    ASSUME NEW l \in LogIds, TypeOK, StopInv, Reconcile(l)
    PROVE  TypeOK' /\ StopInv'
<1>u. UNCHANGED <<done, proc, clock, up, crashes, cut, call, seen, stopped, misled>>
  BY DEF Reconcile, caller
<1>n. None \notin LogIds
  BY StopAssumption DEF LogIds
<1>f. /\ worker[l] = "gone" /\ log[l].status = "r" /\ running' \subseteq Jobs /\ worker' \in [LogIds -> Places] /\ worker' = worker
  BY PlaceSet DEF Reconcile, At, Places, TypeOK, Abandoned
<1>g. /\ log' \in [LogIds -> Row] /\ log'[l].status = "f"
      /\ log'[l].pid = log[l].pid /\ log'[l].start = log[l].start
      /\ \A k \in LogIds \ {l} : log'[k] = log[k]
  BY ZenonT(30), StatusSet DEF Reconcile, Abandoned
<1>t. TypeOK'
  BY <1>u, <1>f, <1>g DEF TypeOK, NotSeen
<1>1. ProcessesDiffer'
  BY <1>u, <1>n, <1>f, <1>g DEF StopInv, ProcessesDiffer
<1>2. PlacesAgree'
  BY <1>u, <1>n, <1>f, <1>g DEF StopInv, PlacesAgree, ProcessesDiffer, Names, At
<1>3. OutcomePending'
  BY <1>u, <1>n, <1>f, <1>g
     DEF StopInv, OutcomePending, PlacesAgree, OutcomeTrue, Excused, At
<1>4. CallNamesRun'
  BY <1>u, <1>n, <1>f, <1>g DEF StopInv, CallNamesRun, Names
<1>5. StopHitsRun'
  BY <1>u, <1>n, <1>f, <1>g DEF StopInv, StopHitsRun
<1>6. OutcomeTrue'
  BY <1>u, <1>n, <1>f, <1>g
     DEF StopInv, OutcomeTrue, OutcomePending, PlacesAgree, Excused, At
<1> QED BY <1>t, <1>1, <1>2, <1>3, <1>4, <1>5, <1>6 DEF StopInv

(* A crash cuts off every open run.                                          *)
LEMMA CrashKeeps ==
    ASSUME TypeOK, StopInv, Crash
    PROVE  TypeOK' /\ StopInv'
<1>u. UNCHANGED <<running, log, done, clock, stopped, misled>>
  BY DEF Crash, caller
<1>n. None \notin LogIds
  BY StopAssumption DEF LogIds
<1>f. /\ up' = FALSE /\ call' = NoCall /\ seen' = NotSeen
      /\ \A l \in LogIds : worker'[l] = IF worker[l] = "none" THEN "none" ELSE "gone"
      /\ \A l \in LogIds : l \in cut' <=> l \in cut \/ log[l].status = "r"
      /\ cut' \subseteq LogIds /\ cut \subseteq cut'
  BY DEF Crash, At, TypeOK
<1>g. crashes' \in 0 .. MaxCrashes /\ worker' \in [LogIds -> Places]
  BY StopAssumption DEF Crash, At, TypeOK, Places
<1>h. /\ proc' \in [Pids -> Process]
      /\ \A p \in Pids : proc'[p].start = 0 /\ proc'[p].run = None /\ proc'[p].signals = {}
  <2>1. NoProc \in Process /\ proc' = [p \in Pids |-> NoProc]
    BY StopAssumption DEF NoProc, Process, Crash
  <2>2. \A p \in Pids : proc'[p] = NoProc
    BY <2>1
  <2> QED BY <2>1, <2>2 DEF NoProc
<1>t. TypeOK'
  BY ZenonT(30), <1>u, <1>f, <1>g, <1>h DEF TypeOK, NotSeen
<1>1. ProcessesDiffer'
  BY <1>u, <1>n, <1>f, <1>h, Numbers DEF StopInv, ProcessesDiffer
<1>2. PlacesAgree'
  BY <1>u, <1>n, <1>f, <1>h, Numbers
     DEF StopInv, PlacesAgree, ProcessesDiffer, Names, At
<1>3. OutcomePending'
  BY <1>u, <1>n, <1>f, <1>h, Numbers
     DEF StopInv, OutcomePending, PlacesAgree, OutcomeTrue, Excused, At
<1>4. CallNamesRun'
  BY <1>u, <1>n, <1>f, <1>h, Numbers DEF StopInv, CallNamesRun, Names
<1>5. StopHitsRun'
  BY <1>u, <1>n, <1>f, <1>h, Numbers DEF StopInv, StopHitsRun
<1>6. OutcomeTrue'
  BY <1>u, <1>n, <1>f, <1>h, Numbers
     DEF StopInv, OutcomeTrue, OutcomePending, PlacesAgree, Excused, At
<1> QED BY <1>t, <1>1, <1>2, <1>3, <1>4, <1>5, <1>6 DEF StopInv

(* scheduler_cleanup_orphans closes the runs a crash cut off.                *)
LEMMA SchedulerStartsKeeps ==
    ASSUME TypeOK, StopInv, SchedulerStarts
    PROVE  TypeOK' /\ StopInv'
<1>u. UNCHANGED <<worker, done, proc, clock, crashes, cut, call, seen, stopped, misled>>
  BY DEF SchedulerStarts, caller
<1>n. None \notin LogIds
  BY StopAssumption DEF LogIds
<1>f. ~up /\ up' = TRUE /\ running' = {}
  BY DEF SchedulerStarts
<1>h. \A l \in LogIds : worker[l] \in {"none", "gone"}
  BY <1>f DEF StopInv, OutcomePending, At
<1>g. /\ log' \in [LogIds -> Row]
      /\ \A l \in LogIds : /\ log'[l].pid = log[l].pid /\ log'[l].start = log[l].start
                           /\ log'[l].status = IF log[l].status = "r" THEN "f" ELSE log[l].status
  <2>1. SUFFICES ASSUME NEW l \in LogIds
                 PROVE  /\ log'[l] \in Row
                        /\ log'[l].pid = log[l].pid /\ log'[l].start = log[l].start
                        /\ log'[l].status = IF log[l].status = "r" THEN "f" ELSE log[l].status
    BY DEF SchedulerStarts
  <2> DEFINE r == log[l]
  <2>2. r \in Row
    BY DEF TypeOK
  <2>3. log'[l] = IF r.status = "r" THEN [r EXCEPT !.status = "f"] ELSE r
    BY DEF SchedulerStarts
  <2> HIDE DEF r
  <2>4. /\ [r EXCEPT !.status = "f"] \in Row /\ [r EXCEPT !.status = "f"].pid = r.pid
        /\ [r EXCEPT !.status = "f"].start = r.start /\ [r EXCEPT !.status = "f"].status = "f"
    BY <2>2 DEF Row
  <2>5. CASE r.status = "r"
    BY <2>3, <2>4, <2>5 DEF r
  <2>6. CASE r.status # "r"
    BY <2>2, <2>3, <2>6 DEF r
  <2> QED BY <2>5, <2>6
<1>t. TypeOK'
  BY <1>u, <1>f, <1>g DEF TypeOK, NotSeen
<1>1. ProcessesDiffer'
  BY SMTT(20), <1>u, <1>n, <1>f, <1>g DEF StopInv, ProcessesDiffer
<1>2. PlacesAgree'
  BY SMTT(20), <1>u, <1>g, <1>h DEF StopInv, PlacesAgree, Names, At
<1>3. OutcomePending'
  BY <1>u, <1>n, <1>f, <1>g
     DEF StopInv, OutcomePending, PlacesAgree, OutcomeTrue, Excused, At
<1>4. CallNamesRun'
  BY SMTT(20), <1>u, <1>n, <1>f, <1>g DEF StopInv, CallNamesRun, Names
<1>5. StopHitsRun'
  BY <1>u, <1>n, <1>f, <1>g DEF StopInv, StopHitsRun
<1>6. OutcomeTrue'
  BY SMTT(20), <1>u, <1>n, <1>f, <1>g
     DEF StopInv, OutcomeTrue, OutcomePending, PlacesAgree, Excused, At
<1> QED BY <1>t, <1>1, <1>2, <1>3, <1>4, <1>5, <1>6 DEF StopInv

(* Nothing but the call and the list of processes the caller holds changes.  *)
LEMMA CallerKeeps ==
    ASSUME StopInv,
           UNCHANGED <<log, worker, done, proc, clock, up, cut, stopped, misled>>,
           CallNamesRun'
    PROVE  StopInv'
  BY
     DEF StopInv, ProcessesDiffer, PlacesAgree, OutcomePending, StopHitsRun, OutcomeTrue,
         Excused, Names, CallNamesRun, At

(* The caller reads pg_stat_activity.                                        *)
LEMMA CallerLooksKeeps ==
    ASSUME TypeOK, StopInv, CallerLooks
    PROVE  TypeOK' /\ StopInv'
<1>1. seen' \in [Pids -> 0 .. MaxStart]
  BY DEF CallerLooks, Started, TypeOK, Process
<1>2. TypeOK'
  BY <1>1 DEF CallerLooks, TypeOK, NotSeen
<1>3. QED
  BY <1>2, CallerKeeps DEF CallerLooks, CallNamesRun

(* The caller's transaction forgets what it read.                            *)
LEMMA CallerCommitsKeeps ==
    ASSUME TypeOK, StopInv, CallerCommits
    PROVE  TypeOK' /\ StopInv'
<1>1. TypeOK'
  BY DEF CallerCommits, TypeOK, NotSeen
<1>2. QED
  BY <1>1, CallerKeeps DEF CallerCommits, CallNamesRun

(* STOP_JOB reads a row that names the process of its run.                   *)
LEMMA StopReadsKeeps ==
    ASSUME NEW j \in Jobs, TypeOK, StopInv, StopReads(j)
    PROVE  TypeOK' /\ StopInv'
<1>1. PICK l \in OpenRow(j) :
        Recorded(l) /\ call' = [run |-> l, pid |-> log[l].pid, start |-> log[l].start]
  BY DEF StopReads
<1>2. l \in LogIds /\ log[l] \in Row /\ log[l].pid # None
  BY SMTT(20), <1>1 DEF OpenRow, Recorded, TypeOK
<1>3. call'.run = l /\ call'.start = log[l].start /\ Names(log[l].start, l)
  BY SMTT(20), <1>1, <1>2 DEF StopInv, PlacesAgree
<1>4. call' \in [run: LogIds, pid: Pids, start: 1 .. MaxStart]
  BY SMTT(20), <1>1, <1>2, <1>3, StopAssumption DEF Row, Names
<1>5. TypeOK'
  BY SMTT(20), <1>4 DEF StopReads, TypeOK, NotSeen
<1>6. CallNamesRun'
  BY <1>3 DEF StopReads, Names, CallNamesRun
<1>7. QED
  BY <1>5, <1>6, CallerKeeps DEF StopReads

(* pg_signal_backend hits the run's process, or the caller was misled.       *)
LEMMA StopSignalsKeeps ==
    ASSUME NEW signal \in Signals, TypeOK, StopInv, StopSignals(signal)
    PROVE  TypeOK' /\ StopInv'
<1>1. PICK p \in Pids :
        /\ Matches(p, Listed) /\ Alive(p)
        /\ proc' = [proc EXCEPT ![p].signals = @ \cup {signal}]
        /\ IF Started[p] = Listed[p]
           THEN stopped' = stopped \cup {call.run} /\ UNCHANGED misled
           ELSE misled' = misled \cup {Started[p]} /\ UNCHANGED stopped
  BY ZenonT(30) DEF StopSignals
<1>2. /\ call' = NoCall /\ call # NoCall
      /\ UNCHANGED <<running, log, worker, done, clock, up, crashes, cut>>
  BY DEF StopSignals
<1>3. proc[p] \in Process /\ proc[p].signals \cup {signal} \in SUBSET Signals
  BY DEF TypeOK, Process
<1>4. /\ proc' \in [Pids -> Process]
      /\ \A q \in Pids \ {p} : proc'[q] = proc[q]
      /\ proc'[p].start = proc[p].start /\ proc'[p].run = proc[p].run
  <2> DEFINE s == proc[p].signals \cup {signal}
  <2>1. s \in SUBSET Signals /\ proc' = [proc EXCEPT ![p].signals = s]
    BY <1>1, <1>3
  <2> HIDE DEF s
  <2> QED BY ZenonT(30), <2>1, SignalsSet
<1>5. proc' \in [Pids -> Process]
  BY <1>4
<1>6. \A q \in Pids : proc'[q].start = proc[q].start /\ proc'[q].run = proc[q].run
  BY <1>4
<1>7. stopped \subseteq stopped' /\ misled \subseteq misled'
  BY <1>1
<1>8. TypeOK'
  <2>1. seen' = NotSeen \/ seen' \in [Pids -> 0 .. MaxStart]
    BY DEF StopSignals, Listed, Started, TypeOK, Process
  <2>2. call.run \in LogIds /\ Started[p] \in 1 .. MaxStart
    BY <1>1, <1>2, StopAssumption DEF TypeOK, Started, Alive, Process
  <2>3. stopped' \subseteq LogIds /\ misled' \subseteq 1 .. MaxStart
    BY <1>1, <2>2 DEF TypeOK
  <2> QED BY <1>2, <1>5, <2>1, <2>3 DEF TypeOK, NotSeen
<1>9. ProcessesDiffer'
  BY <1>2, <1>6 DEF StopInv, ProcessesDiffer
<1>10. PlacesAgree'
  BY SMTT(20), <1>2, <1>6 DEF StopInv, PlacesAgree, Names, At
<1>11. OutcomePending' /\ OutcomeTrue'
  BY <1>2, <1>7 DEF StopInv, OutcomePending, OutcomeTrue, Excused, At
<1>12. StopHitsRun'
  <2>1. SUFFICES ASSUME NEW q \in Pids, proc'[q].signals # {}
                 PROVE  proc'[q].run \in stopped' \/ proc'[q].start \in misled'
    BY SMTT(20) DEF StopHitsRun
  <2>2. CASE q # p
    BY ZenonT(30), <1>4, <1>7, <2>1, <2>2 DEF TypeOK, StopInv, StopHitsRun
  <2>3. CASE q = p /\ Started[p] = Listed[p]
    <3>1. proc[p].start = call.start
      BY <1>1, <2>3 DEF Matches, Started
    <3>2. proc[p].run = call.run
      BY <1>2, <3>1 DEF StopInv, CallNamesRun, Names
    <3> QED BY <1>1, <1>6, <2>3, <3>2
  <2>4. CASE q = p /\ Started[p] # Listed[p]
    BY <1>1, <1>6, <2>4 DEF Started
  <2> QED BY <2>2, <2>3, <2>4
<1>13. CallNamesRun'
  BY <1>2 DEF CallNamesRun, NoCall
<1> QED BY <1>8, <1>9, <1>10, <1>11, <1>12, <1>13 DEF StopInv

(* STOP_JOB that finds no process changes nothing.                           *)
LEMMA StopFindsNoneKeeps ==
    ASSUME TypeOK, StopInv, StopFindsNone
    PROVE  TypeOK' /\ StopInv'
<1>1. seen' = NotSeen \/ seen' \in [Pids -> 0 .. MaxStart]
  BY DEF StopFindsNone, Listed, Started, TypeOK, Process
<1>2. TypeOK'
  BY <1>1 DEF StopFindsNone, TypeOK, NotSeen
<1>3. QED
  BY <1>2, CallerKeeps DEF StopFindsNone, CallNamesRun

(* STOP_JOB signals the process of the run it meant to stop, and the log     *)
(* tells what became of a run's job, for any number of jobs, runs, pids and  *)
(* crashes.                                                                  *)
THEOREM StopJobCorrect == Spec => [](TypeOK /\ StopHitsRun /\ OutcomeTrue)
<1>1. Init => TypeOK /\ StopInv
  <2>1. SUFFICES ASSUME Init PROVE TypeOK /\ StopInv
    OBVIOUS
  <2>2. NoRow \in Row
    BY StopAssumption DEF NoRow, Row
  <2>0. NoProc \in Process
    BY StopAssumption DEF NoProc, Process
  <2>3. TypeOK
    BY SMTT(20), <2>1, <2>2, <2>0, StopAssumption DEF Init, TypeOK, Places
  <2>4. StopInv
    BY <2>1, StopAssumption DEF Init, StopInv, ProcessesDiffer, PlacesAgree,
       OutcomePending, CallNamesRun, StopHitsRun, OutcomeTrue, At, NoRow, NoProc, LogIds
  <2> QED BY <2>3, <2>4
<1>2. TypeOK /\ StopInv /\ [Next]_vars => TypeOK' /\ StopInv'
  <2>1. SUFFICES ASSUME TypeOK, StopInv, [Next]_vars PROVE TypeOK' /\ StopInv'
    OBVIOUS
  <2>2. CASE UNCHANGED vars
    <3>1. TypeOK'
      BY <2>1, <2>2 DEF vars, caller, TypeOK, NotSeen
    <3>2. UNCHANGED <<log, worker, done, proc, clock, up, cut, stopped, misled, call>>
      BY <2>2 DEF vars, caller
    <3>3. CallNamesRun'
      BY <2>1, <3>2 DEF StopInv, Names, CallNamesRun
    <3> QED BY <2>1, <3>1, <3>2, <3>3, CallerKeeps
  <2>3. CASE \E p \in Pids : OtherStarts(p) \/ OtherEnds(p)
    BY <2>1, <2>3, OtherStartsKeeps, OtherEndsKeeps
  <2>4. CASE \E j \in Jobs : StopReads(j) \/ \E l \in LogIds : Claim(j, l)
    BY <2>1, <2>4, StopReadsKeeps, ClaimKeeps
  <2>5. CASE \E l \in LogIds : WorkerStep(l)
    BY <2>1, <2>5, WorkerStartsKeeps, LoadKeeps, LoadFailsKeeps, JobCommitsKeeps,
       JobFailsKeeps, RecordKeeps, InterruptedKeeps, WorkerExitsKeeps DEF WorkerStep
  <2>6. CASE \E l \in LogIds : Reconcile(l)
    BY <2>1, <2>6, ReconcileKeeps
  <2>7. CASE \E signal \in Signals : StopSignals(signal)
    BY <2>1, <2>7, StopSignalsKeeps
  <2>8. CASE CallerLooks \/ CallerCommits \/ StopFindsNone \/ Crash \/ SchedulerStarts
    BY <2>1, <2>8, CallerLooksKeeps, CallerCommitsKeeps, StopFindsNoneKeeps, CrashKeeps,
       SchedulerStartsKeeps
  <2> QED
    BY <2>1, <2>2, <2>3, <2>4, <2>5, <2>6, <2>7, <2>8 DEF Next
<1>3. StopInv => StopHitsRun /\ OutcomeTrue
  BY DEF StopInv
<1> QED BY <1>1, <1>2, <1>3, PTL DEF Spec

(* What the log says of a run is what became of its job, but for a STOP_JOB  *)
(* or a crash after the job's commit, for any jobs, pids and number of       *)
(* crashes.                                                                  *)
THEOREM OutcomesAreTrue == Spec => []OutcomeTrue
BY StopJobCorrect, PTL
=============================================================================
