--------------------------- MODULE CatalogProofs ----------------------------
(* Proofs about Catalog: for any names, sessions and workloads, the shared   *)
(* namespace, the references of enabled jobs, the ownership and the range of *)
(* arguments, and what a run executes.                                       *)
EXTENDS Catalog, TLAPS

\* First-order reasoning does for most steps, arithmetic for the others.
USE ZenonT(10), SMTT(30)

(* The types of the catalogue tables alone.                                  *)
TablesOK ==
    /\ jobs \in [Names -> Job] /\ progs \in [Names -> Program]
    /\ scheds \subseteq Names
    /\ pargs \in [Names -> [Positions -> ProgramArg]]
    /\ jargs \in [Names -> [Positions -> JobArg]]

(* The state of a session between two calls.                                 *)
LEMMA IdleTyped == Idle \in Session /\ Idle.at = "idle"
BY CatalogAssumption DEF Idle, Session, Places, NoVals

(* A query changes the locals of its own session, and what it has read.      *)
LEMMA QueryFacts ==
    ASSUME TypeOK, NEW s \in Sessions, NEW next \in Session,
           NEW items \in SUBSET Items, Query(s, next, items),
           next.at # "idle", next.call \in workload, CountAllowed(next.call),
           next.at \in {"program_ref", "schedule_ref", "program", "argument_name"}
             => next.prog # Null
    PROVE  /\ TypeOK'
           /\ sess'[s] = next /\ reads'[s] = reads[s] \cup items
           /\ \A t \in Sessions \ {s} : sess'[t] = sess[t] /\ reads'[t] = reads[t]
           /\ UNCHANGED <<catalog, stale, raced>>
<1>1. /\ sess' = [sess EXCEPT ![s] = next]
      /\ reads' = [reads EXCEPT ![s] = @ \cup items]
      /\ UNCHANGED <<catalog, workload, stale, raced>>
  BY DEF Query
<1>2. sess \in [Sessions -> Session] /\ reads \in [Sessions -> SUBSET Items]
  BY DEF TypeOK
<1>3. sess' \in [Sessions -> Session]
  BY <1>1, <1>2
<1>4. reads[s] \cup items \in SUBSET Items
  BY <1>2
<1>5. reads' \in [Sessions -> SUBSET Items]
  BY <1>1, <1>2, <1>4
<1>6. \A t \in Sessions \ {s} : sess'[t] = sess[t] /\ reads'[t] = reads[t]
  BY <1>1, <1>2
<1>7. sess'[s] = next /\ reads'[s] = reads[s] \cup items
  BY <1>1, <1>2
<1>8. \A t \in Sessions :
        /\ sess'[t].at # "idle" => sess'[t].call \in workload'
        /\ sess'[t].at \notin {"idle", "kind"} => CountAllowed(sess'[t].call)
        /\ sess'[t].at \in {"program_ref", "schedule_ref", "program", "argument_name"}
             => sess'[t].prog # Null
  BY <1>1, <1>6, <1>7 DEF TypeOK
<1>9. TypeOK'
  BY <1>1, <1>3, <1>5, <1>8 DEF TypeOK, catalog, CountAllowed, Creates
<1> QED BY <1>1, <1>6, <1>7, <1>9

(* A commit ends the call, makes what others read of it stale, and records   *)
(* what was stale for this call.                                             *)
LEMMA CommitFacts ==
    ASSUME TypeOK, NEW s \in Sessions, NEW touched, Commit(s, touched)
    PROVE  /\ TablesOK' => TypeOK'
           /\ sess'[s] = Idle
           /\ raced' = raced \cup stale[s]
           /\ \A t \in Sessions \ {s} :
                /\ sess'[t] = sess[t] /\ reads'[t] = reads[t]
                /\ stale'[t] = stale[t] \cup (reads[t] \cap touched)
<1>1. /\ sess' = [sess EXCEPT ![s] = Idle]
      /\ raced' = raced \cup stale[s]
      /\ reads' = [reads EXCEPT ![s] = {}]
      /\ stale' = [t \in Sessions |->
                     IF t = s THEN {} ELSE stale[t] \cup (reads[t] \cap touched)]
      /\ workload' = workload
  BY DEF Commit
<1>2. /\ sess \in [Sessions -> Session] /\ reads \in [Sessions -> SUBSET Items]
      /\ stale \in [Sessions -> SUBSET Items] /\ raced \subseteq Items
  BY DEF TypeOK
<1>4. sess' \in [Sessions -> Session] /\ sess'[s] = Idle
  BY <1>1, <1>2, IdleTyped
<1>5. \A t \in Sessions : stale[t] \cup (reads[t] \cap touched) \in SUBSET Items
  BY <1>2
<1>6. stale' \in [Sessions -> SUBSET Items]
  BY <1>1, <1>5
<1>7. reads' \in [Sessions -> SUBSET Items]
  BY <1>1, <1>2
<1>8. raced' \subseteq Items
  BY <1>1, <1>2
<1>9. \A t \in Sessions \ {s} :
        /\ sess'[t] = sess[t] /\ reads'[t] = reads[t]
        /\ stale'[t] = stale[t] \cup (reads[t] \cap touched)
  BY <1>1, <1>2
<1>10. \A t \in Sessions :
        /\ sess'[t].at # "idle" => sess'[t].call \in workload'
        /\ sess'[t].at \notin {"idle", "kind"} => CountAllowed(sess'[t].call)
        /\ sess'[t].at \in {"program_ref", "schedule_ref", "program", "argument_name"}
             => sess'[t].prog # Null
  BY <1>1, <1>4, <1>9, IdleTyped DEF TypeOK
<1>11. TablesOK' => TypeOK'
  BY <1>1, <1>4, <1>6, <1>7, <1>8, <1>10
  DEF TypeOK, TablesOK, CountAllowed, Creates
<1> QED BY <1>1, <1>4, <1>9, <1>11


(* Queries leave the tables alone: the calls of the other sessions know what *)
(* they knew.                                                                *)
LEMMA QueryKeeps ==
    ASSUME TypeOK, CatalogInv, NEW s \in Sessions,
           \A t \in Sessions \ {s} : sess'[t] = sess[t] /\ reads'[t] = reads[t],
           \A t \in Sessions \ {s} : stale'[t] = stale[t],
           UNCHANGED <<catalog, raced>>, CallKnows(s)'
    PROVE  CatalogInv'
<1>1. UNCHANGED <<jobs, progs, scheds, pargs, jargs, raced>>
  BY DEF catalog
<1>2. OneNamespace' /\ EnabledResolves' /\ ArgumentsOwned'
  BY <1>1, ZenonT(40)
  DEF CatalogInv, OneNamespace, EnabledResolves, ArgumentsOwned, Undisturbed
<1>3. ASSUME NEW t \in Sessions PROVE CallKnows(t)'
  <2>1. CASE t = s BY <2>1, SMTT(30)
  <2>2. CASE t # s
    <3>1. CallKnows(t)
      BY DEF CatalogInv
    <3>2. sess'[t] = sess[t] /\ reads'[t] = reads[t] /\ stale'[t] = stale[t]
      BY <2>2
    <3> QED BY <1>1, <3>1, <3>2 DEF CallKnows, Knows, EnablesJob, DependsOn
  <2> QED BY <2>1, <2>2
<1> QED BY <1>1, <1>2, <1>3 DEF CatalogInv

(* A session in a call: the types of its locals and of the call.             *)
LEMMA InCall ==
    ASSUME TypeOK, NEW s \in Sessions, sess[s].at # "idle"
    PROVE  /\ sess[s] \in Session /\ sess[s].call \in Call
           /\ sess[s].call.name \in Names /\ sess[s].call.op \in Ops
           /\ sess[s].call.num \in 0 .. MaxArgs + 1 /\ sess[s].call.flag \in BOOLEAN
           /\ sess[s].call \in workload
           /\ sess[s].prog \in Names \cup {Null} /\ sess[s].sched \in Names \cup {Null}
<1>1. sess[s] \in Session /\ workload \in Workloads /\ sess[s].call \in workload
  BY DEF TypeOK
<1>2. sess[s].call \in Call
  BY <1>1, WorkloadsAssumption
<1> QED BY <1>1, <1>2 DEF Call, Session

(* What a typed query step needs and gives, in one place.                    *)
LEMMA QueryStepKeeps ==
    ASSUME TypeOK, CatalogInv, NEW s \in Sessions, NEW next \in Session,
           NEW items \in SUBSET Items, Query(s, next, items),
           next.at # "idle", next.call = sess[s].call, sess[s].at # "idle",
           CountAllowed(next.call),
           next.at \in {"program_ref", "schedule_ref", "program", "argument_name"}
             => next.prog # Null,
           sess'[s] = next /\ reads'[s] = reads[s] \cup items => CallKnows(s)'
    PROVE  TypeOK' /\ CatalogInv'
<1>1. next.call \in workload
  BY InCall
<1>2. /\ TypeOK'
      /\ sess'[s] = next /\ reads'[s] = reads[s] \cup items
      /\ \A t \in Sessions \ {s} : sess'[t] = sess[t] /\ reads'[t] = reads[t]
      /\ UNCHANGED <<catalog, stale, raced>>
  BY <1>1, QueryFacts
<1>3. CatalogInv'
  BY <1>2, QueryKeeps
<1> QED BY <1>2, <1>3

(* sched_object_kind: a create knows that its name is free.                  *)
LEMMA QueryKindKeeps ==
    ASSUME TypeOK, CatalogInv, NEW s \in Sessions, QueryKind(s)
    PROVE  TypeOK' /\ CatalogInv'
<1> DEFINE c == sess[s].call
           k == Kind(c.name)
           next == [sess[s] EXCEPT !.at = AfterKind(c, k), !.kind = k,
                                   !.prog = IF c.op = "enable" THEN c.name ELSE c.prog,
                                   !.sched = c.sched]
           items == {<<"exists", c.name>>}
<1>1. /\ sess[s].at = "kind" /\ KindAllowed(c, k) /\ CountAllowed(c)
      /\ Query(s, next, items)
  BY DEF QueryKind
<1>2. sess[s] \in Session /\ c \in Call /\ c.name \in Names /\ c.op \in Ops
  BY <1>1, InCall
<1>3. k \in {"none", "J", "P", "S"}
  BY DEF Kind
<1>4. /\ AfterKind(c, k) \in {"program_ref", "job", "program", "dependents", "write"}
      /\ AfterKind(c, k) = "program_ref" => c.prog # Null /\ c.op = "create_job"
      /\ AfterKind(c, k) \in {"program", "job"} => c.op = "enable"
      /\ AfterKind(c, k) = "dependents" => c.op \in {"drop_program", "drop_schedule"}
  BY DEF AfterKind
<1>5. items \in SUBSET Items
  BY <1>2 DEF Items
<1>6. /\ next \in Session /\ next.at = AfterKind(c, k) /\ next.kind = k
      /\ next.call = c /\ next.prog = (IF c.op = "enable" THEN c.name ELSE c.prog)
  <2>1. /\ AfterKind(c, k) \in Places
        /\ (IF c.op = "enable" THEN c.name ELSE c.prog) \in Names \cup {Null}
        /\ c.sched \in Names \cup {Null}
    BY <1>2, <1>4 DEF Places, Call
  <2> DEFINE q == IF c.op = "enable" THEN c.name ELSE c.prog
             w == AfterKind(c, k)
             d == c.sched
             z == sess[s]
  <2>2. next = [z EXCEPT !.at = w, !.kind = k, !.prog = q, !.sched = d]
    OBVIOUS
  <2>3. z \in Session /\ w \in Places /\ q \in Names \cup {Null} /\ d \in Names \cup {Null}
    BY <1>2, <2>1
  <2> HIDE DEF next, q, c, k, w, d, z
  <2>4. next \in Session /\ next.at = w /\ next.kind = k
        /\ next.call = z.call /\ next.prog = q
    BY <1>3, <2>2, <2>3, ZenonT(40) DEF Session
  <2> QED BY <2>4 DEF q, c, w, z
<1>7. /\ Creates(c) => k = "none"
      /\ k = "none" => ~jobs[c.name].there /\ ~progs[c.name].there /\ c.name \notin scheds
  BY <1>1, ZenonT(40) DEF KindAllowed, Kind
<1>8. sess'[s] = next /\ reads'[s] = reads[s] \cup items => CallKnows(s)'
  <2> HIDE DEF next, c, k
  <2>1. UNCHANGED <<jobs, progs, scheds, stale>>
    BY <1>1 DEF Query, catalog
  <2>2. <<"exists", c.name>> \in items
    OBVIOUS
  <2>3. c.op = "create_job" => AfterKind(c, k) = "program_ref" \/ c.prog = Null
    BY DEF AfterKind
  <2>4. c.op \in {"drop_program", "drop_schedule"} => AfterKind(c, k) = "dependents"
    BY DEF AfterKind
  <2>5. c.op = "enable" /\ k = "J" => AfterKind(c, k) = "job"
    BY DEF AfterKind
  <2> HIDE DEF items
  <2> QED BY <1>4, <1>6, <1>7, <2>1, <2>2, <2>3, <2>4, <2>5
          DEF CallKnows, Knows, EnablesJob, DependsOn, PlaceFits, Creates
<1>9. next.at \in {"program_ref", "schedule_ref", "program", "argument_name"}
             => next.prog # Null
  BY <1>2, <1>4, <1>6, CatalogAssumption
<1> HIDE DEF next, items
<1> QED BY <1>1, <1>4, <1>5, <1>6, <1>8, <1>9, QueryStepKeeps

(* CREATE_JOB by name knows that the program is there.                       *)
LEMMA QueryProgramRefKeeps ==
    ASSUME TypeOK, CatalogInv, NEW s \in Sessions, QueryProgramRef(s)
    PROVE  TypeOK' /\ CatalogInv'
<1> DEFINE z == sess[s]
           next == [z EXCEPT !.at = "schedule_ref"]
           items == {<<"exists", z.prog>>}
<1>1. z.at = "program_ref" /\ Kind(z.prog) = "P" /\ Query(s, next, items)
  BY DEF QueryProgramRef
<1>2. z \in Session /\ z.prog \in Names \cup {Null} /\ z.prog # Null /\ CountAllowed(z.call)
  BY <1>1, InCall DEF TypeOK
<1>3. progs[z.prog].there
  BY <1>1 DEF Kind
<1>4. items \in SUBSET Items
  BY <1>2 DEF Items
<1>5. /\ next \in Session /\ next.at = "schedule_ref" /\ next.call = z.call
      /\ next.prog = z.prog /\ next.sched = z.sched /\ next.kind = z.kind
  <2> HIDE DEF z
  <2> QED BY <1>2, SMTT(30) DEF Session, Places
<1>6. sess'[s] = next /\ reads'[s] = reads[s] \cup items => CallKnows(s)'
  <2>1. UNCHANGED <<jobs, progs, scheds, stale>>
    BY <1>1 DEF Query, catalog
  <2>2. CallKnows(s)
    BY DEF CatalogInv
  <2> HIDE DEF next
  <2> QED BY <1>1, <1>3, <1>5, <2>1, <2>2
          DEF CallKnows, Knows, EnablesJob, DependsOn, PlaceFits, Creates
<1> HIDE DEF next, items
<1> QED BY <1>1, <1>2, <1>4, <1>5, <1>6, QueryStepKeeps

(* CREATE_JOB by name knows that the schedule is there.                      *)
LEMMA QueryScheduleRefKeeps ==
    ASSUME TypeOK, CatalogInv, NEW s \in Sessions, QueryScheduleRef(s)
    PROVE  TypeOK' /\ CatalogInv'
<1> DEFINE z == sess[s]
           w == IF z.call.flag THEN "program" ELSE "write"
           next == [z EXCEPT !.at = w]
           items == {<<"exists", z.sched>>}
<1>1. z.at = "schedule_ref" /\ Kind(z.sched) = "S" /\ Query(s, next, items)
  BY DEF QueryScheduleRef
<1>2. z \in Session /\ z.prog # Null /\ CountAllowed(z.call)
  BY <1>1, InCall DEF TypeOK
<1>3. z.sched \in scheds
  BY <1>1 DEF Kind
<1>4. items \in SUBSET Items
  BY <1>3 DEF Items, TypeOK
<1>5. /\ next \in Session /\ next.at = w /\ next.call = z.call
      /\ next.prog = z.prog /\ next.sched = z.sched /\ next.kind = z.kind
  <2>1. w \in Places
    BY SMTT(30) DEF Places
  <2> HIDE DEF z, w
  <2> QED BY <1>2, <2>1 DEF Session
<1>6. sess'[s] = next /\ reads'[s] = reads[s] \cup items => CallKnows(s)'
  <2>1. UNCHANGED <<jobs, progs, scheds, stale>>
    BY <1>1, SMTT(30) DEF Query, catalog
  <2>2. CallKnows(s)
    BY DEF CatalogInv
  <2> HIDE DEF next
  <2> QED BY <1>1, <1>3, <1>5, <2>1, <2>2, SMTT(30)
          DEF CallKnows, Knows, EnablesJob, DependsOn, PlaceFits, Creates
<1> HIDE DEF next, items
<1> QED BY <1>1, <1>2, <1>4, <1>5, <1>6, QueryStepKeeps

(* The job row: ENABLE knows that the job is there, and its references.      *)
LEMMA QueryJobKeeps ==
    ASSUME TypeOK, CatalogInv, NEW s \in Sessions, QueryJob(s)
    PROVE  TypeOK' /\ CatalogInv'
<1> DEFINE z == sess[s]
           c == z.call
           j == jobs[c.name]
           w == IF j.prog # Null THEN "program"
                ELSE IF c.op \in {"enable", "load"} THEN "arguments" ELSE "write"
           next == [z EXCEPT !.at = w, !.prog = j.prog, !.sched = j.sched,
                             !.nargs = j.nargs, !.act = j.act]
           items == {<<"exists", c.name>>}
<1>1. /\ z.at = "job" /\ j.there /\ Query(s, next, items)
      /\ w = "write" => c.op = "set_job_argument_value_pos"
  BY SMTT(30) DEF QueryJob
<1>2. z \in Session /\ c.name \in Names /\ CountAllowed(c)
  BY <1>1, InCall, SMTT(30) DEF TypeOK
<1>3. /\ j.prog \in Names \cup {Null} /\ j.sched \in Names \cup {Null}
      /\ j.nargs \in 0 .. MaxArgs /\ j.act \in Values \cup {Null}
  BY <1>2 DEF TypeOK, Job
<1>4. items \in SUBSET Items
  BY <1>2 DEF Items
<1>5. /\ next \in Session /\ next.at = w /\ next.call = z.call
      /\ next.prog = j.prog /\ next.sched = j.sched /\ next.kind = z.kind
  <2> DEFINE q == j.prog
             d == j.sched
             g == j.nargs
             a == j.act
  <2>1. w \in Places
    BY DEF Places
  <2>2. next = [z EXCEPT !.at = w, !.prog = q, !.sched = d, !.nargs = g, !.act = a]
    OBVIOUS
  <2>3. /\ q \in Names \cup {Null} /\ d \in Names \cup {Null}
        /\ g \in 0 .. MaxArgs /\ a \in Values \cup {Null}
    BY <1>3
  <2> HIDE DEF next, z, w, q, d, g, a
  <2>4. /\ next \in Session /\ next.at = w /\ next.call = z.call
        /\ next.prog = q /\ next.sched = d /\ next.kind = z.kind
    BY <1>2, <2>1, <2>2, <2>3, ZenonT(40) DEF Session
  <2> QED BY <2>4 DEF q, d
<1>6. sess'[s] = next /\ reads'[s] = reads[s] \cup items => CallKnows(s)'
  <2>1. UNCHANGED <<jobs, progs, scheds, stale>>
    BY <1>1 DEF Query, catalog
  <2>2. PlaceFits(z)
    BY ZenonT(40) DEF CatalogInv, CallKnows
  <2>3. /\ w \in {"program", "arguments", "write"}
        /\ w = "program" <=> j.prog # Null
    OBVIOUS
  <2> HIDE DEF next, w
  <2> QED BY <1>1, <1>5, <2>1, <2>2, <2>3
          DEF CallKnows, Knows, EnablesJob, DependsOn, PlaceFits, Creates
<1>7. next.at \in {"program_ref", "schedule_ref", "program", "argument_name"}
        => next.prog # Null
  BY <1>5
<1> HIDE DEF next, items
<1> QED BY <1>1, <1>2, <1>4, <1>5, <1>6, <1>7, QueryStepKeeps, SMTT(30)

(* The program row: who enables a job knows that its program is there.       *)
LEMMA QueryProgramKeeps ==
    ASSUME TypeOK, CatalogInv, NEW s \in Sessions, QueryProgram(s)
    PROVE  TypeOK' /\ CatalogInv'
<1> DEFINE z == sess[s]
           c == z.call
           p == progs[z.prog]
           w == AfterProgram(c, z.kind)
           next == [z EXCEPT !.at = w, !.nargs = p.nargs, !.act = p.act]
           items == {<<"exists", z.prog>>, <<"enabled", z.prog>>}
<1>1. z.at = "program" /\ p.there /\ Query(s, next, items)
  BY DEF QueryProgram
<1>2. z \in Session /\ z.prog \in Names \cup {Null} /\ z.prog # Null /\ CountAllowed(c)
  BY <1>1, InCall DEF TypeOK
<1>3. p.nargs \in 0 .. MaxArgs /\ p.act \in Values \cup {Null}
  BY <1>2 DEF TypeOK, Program
<1>4. items \in SUBSET Items
  BY <1>2 DEF Items
<1>5. /\ next \in Session /\ next.at = w /\ next.call = z.call
      /\ next.prog = z.prog /\ next.sched = z.sched /\ next.kind = z.kind
  <2> DEFINE g == p.nargs
             a == p.act
  <2>1. w \in Places
    BY DEF Places, AfterProgram
  <2>2. next = [z EXCEPT !.at = w, !.nargs = g, !.act = a]
    OBVIOUS
  <2>3. g \in 0 .. MaxArgs /\ a \in Values \cup {Null}
    BY <1>3, SMTT(30)
  <2> HIDE DEF next, z, w, g, a
  <2> QED BY <1>2, <2>1, <2>2, <2>3, ZenonT(40) DEF Session
<1>6. sess'[s] = next /\ reads'[s] = reads[s] \cup items => CallKnows(s)'
  <2>1. UNCHANGED <<jobs, progs, scheds, stale>>
    BY <1>1 DEF Query, catalog
  <2>2. CallKnows(s)
    BY DEF CatalogInv
  <2>3. /\ w \in {"schedule", "arguments", "argument_name", "write"}
        /\ w = "argument_name" => c.op = "set_job_argument_value_name"
        /\ c.op = "create_job" \/ EnablesJob(z) => w = "schedule"
    BY DEF AfterProgram, EnablesJob
  <2>4. <<"exists", z.prog>> \in items
    OBVIOUS
  <2> HIDE DEF next, w, items
  <2> QED BY <1>1, <1>5, <2>1, <2>2, <2>3, <2>4
          DEF CallKnows, Knows, EnablesJob, DependsOn, PlaceFits, Creates
<1>7. next.at # "idle" /\ next.at \notin {"program_ref", "schedule_ref", "program"}
  BY <1>5 DEF AfterProgram
<1> HIDE DEF next, items
<1> QED BY <1>1, <1>2, <1>4, <1>5, <1>6, <1>7, QueryStepKeeps

(* The schedule row: who enables a job knows that its schedule is there.     *)
LEMMA QueryScheduleKeeps ==
    ASSUME TypeOK, CatalogInv, NEW s \in Sessions, QuerySchedule(s)
    PROVE  TypeOK' /\ CatalogInv'
<1> DEFINE z == sess[s]
           next == [z EXCEPT !.at = "arguments"]
           items == {<<"exists", z.sched>>}
<1>1. z.at = "schedule" /\ z.sched \in scheds /\ Query(s, next, items)
  BY DEF QuerySchedule
<1>2. z \in Session /\ CountAllowed(z.call)
  BY <1>1, InCall, SMTT(30) DEF TypeOK
<1>3. items \in SUBSET Items
  BY <1>1 DEF Items, TypeOK
<1>4. /\ next \in Session /\ next.at = "arguments" /\ next.call = z.call
      /\ next.prog = z.prog /\ next.sched = z.sched /\ next.kind = z.kind
  <2> HIDE DEF z
  <2> QED BY <1>2, SMTT(30) DEF Session, Places
<1>5. sess'[s] = next /\ reads'[s] = reads[s] \cup items => CallKnows(s)'
  <2>1. UNCHANGED <<jobs, progs, scheds, stale>>
    BY <1>1 DEF Query, catalog
  <2>2. CallKnows(s)
    BY DEF CatalogInv
  <2> HIDE DEF next
  <2> QED BY <1>1, <1>4, <2>1, <2>2, SMTT(30)
          DEF CallKnows, Knows, EnablesJob, DependsOn, PlaceFits, Creates
<1> HIDE DEF next, items
<1> QED BY <1>1, <1>2, <1>3, <1>4, <1>5, QueryStepKeeps

(* The arguments: a call that goes on to write knows what it knew.           *)
LEMMA QueryArgumentsKeeps ==
    ASSUME TypeOK, CatalogInv, NEW s \in Sessions, QueryArguments(s)
    PROVE  TypeOK' /\ CatalogInv'
<1> DEFINE z == sess[s]
           c == z.call
           n == c.name
           p == z.prog
           w == IF c.op = "load" THEN "loaded" ELSE "write"
           v == [i \in Positions |-> IF c.op = "load" /\ i \in 1 .. z.nargs
                                     THEN LoadedValue(n, p, i) ELSE Null]
           next == [z EXCEPT !.at = w, !.vals = v]
           items == {<<"arguments", x>> : x \in {n, p} \ {Null}}
<1>1. z.at = "arguments" /\ Query(s, next, items)
  BY DEF QueryArguments
<1>2. /\ z \in Session /\ n \in Names /\ p \in Names \cup {Null}
      /\ CountAllowed(c)
  BY <1>1, InCall DEF TypeOK
<1>3. items \in SUBSET Items
  <2> HIDE DEF n, p
  <2> QED BY <1>2 DEF Items
<1>4. v \in [Positions -> Values \cup {Null}]
  <2>1. ASSUME NEW i \in Positions PROVE LoadedValue(n, p, i) \in Values \cup {Null}
    <3> HIDE DEF n, p
    <3>1. jargs[n][i].val \in Values \cup {Null}
      BY <1>2 DEF TypeOK, JobArg
    <3>2. DefaultOf(p, i).val \in Values \cup {Null}
      BY <1>2 DEF TypeOK, DefaultOf, ProgramArg, NoProgramArg
    <3> QED BY <3>1, <3>2 DEF LoadedValue
  <2> HIDE DEF n, p, c, z
  <2> QED BY <2>1
<1>5. /\ next \in Session /\ next.at = w /\ next.call = z.call
      /\ next.prog = z.prog /\ next.sched = z.sched /\ next.kind = z.kind
  <2>1. w \in Places
    BY DEF Places
  <2> HIDE DEF z, w, v
  <2> QED BY <1>2, <1>4, <2>1, ZenonT(40) DEF Session
<1>6. sess'[s] = next /\ reads'[s] = reads[s] \cup items => CallKnows(s)'
  <2>1. UNCHANGED <<jobs, progs, scheds, stale>>
    BY <1>1 DEF Query, catalog
  <2>2. CallKnows(s)
    BY DEF CatalogInv
  <2> HIDE DEF next, items
  <2> QED BY <1>1, <1>5, <2>1, <2>2
          DEF CallKnows, Knows, EnablesJob, DependsOn, PlaceFits, Creates
<1>7. next.at \in {"loaded", "write"}
  BY <1>5
<1> HIDE DEF next, items
<1> QED BY <1>1, <1>2, <1>3, <1>5, <1>6, <1>7, QueryStepKeeps

(* SET_JOB_ARGUMENT_VALUE by name.                                           *)
LEMMA QueryArgumentNameKeeps ==
    ASSUME TypeOK, CatalogInv, NEW s \in Sessions, QueryArgumentName(s)
    PROVE  TypeOK' /\ CatalogInv'
<1> DEFINE z == sess[s]
           items == {<<"arguments", z.prog>>}
<1>1. PICK i \in Positions : z.at = "argument_name"
                             /\ Query(s, [z EXCEPT !.at = "write", !.pos = i], items)
  BY DEF QueryArgumentName
<1> DEFINE next == [z EXCEPT !.at = "write", !.pos = i]
<1>2. z \in Session /\ z.prog \in Names \cup {Null} /\ z.prog # Null /\ CountAllowed(z.call)
  BY <1>1, InCall DEF TypeOK
<1>3. items \in SUBSET Items
  BY <1>2 DEF Items
<1>4. /\ next \in Session /\ next.at = "write" /\ next.call = z.call
      /\ next.prog = z.prog /\ next.sched = z.sched /\ next.kind = z.kind
  <2>1. i \in 0 .. MaxArgs + 1
    BY CatalogAssumption DEF Positions
  <2> HIDE DEF z
  <2> QED BY <1>2, <2>1, ZenonT(40) DEF Session, Places
<1>5. sess'[s] = next /\ reads'[s] = reads[s] \cup items => CallKnows(s)'
  <2>1. UNCHANGED <<jobs, progs, scheds, stale>>
    BY <1>1 DEF Query, catalog
  <2>2. PlaceFits(z)
    BY ZenonT(40) DEF CatalogInv, CallKnows
  <2> HIDE DEF next
  <2> QED BY <1>1, <1>4, <2>1, <2>2
          DEF CallKnows, Knows, EnablesJob, DependsOn, PlaceFits, Creates
<1>6. Query(s, next, items)
  BY <1>1
<1> HIDE DEF next, items
<1> QED BY <1>1, <1>2, <1>3, <1>4, <1>5, <1>6, QueryStepKeeps

(* A DROP that found no dependents knows that there are none.                *)
LEMMA QueryDependentsKeeps ==
    ASSUME TypeOK, CatalogInv, NEW s \in Sessions, QueryDependents(s)
    PROVE  TypeOK' /\ CatalogInv'
<1> DEFINE z == sess[s]
           c == z.call
           d == \E j \in Names : DependsOn(j, c.name, c.op)
           next == [z EXCEPT !.at = "write", !.deps = d]
           items == {<<"dependents", c.name>>}
<1>1. z.at = "dependents" /\ Query(s, next, items)
  BY DEF QueryDependents
<1>2. z \in Session /\ c.name \in Names /\ CountAllowed(c)
  BY <1>1, InCall DEF TypeOK
<1>3. items \in SUBSET Items
  BY <1>2 DEF Items
<1>4. /\ next \in Session /\ next.at = "write" /\ next.call = z.call
      /\ next.prog = z.prog /\ next.kind = z.kind /\ next.deps = d
  <2>1. d \in BOOLEAN
    OBVIOUS
  <2> HIDE DEF z, d
  <2> QED BY <1>2, <2>1, ZenonT(40) DEF Session, Places
<1>5. sess'[s] = next /\ reads'[s] = reads[s] \cup items => CallKnows(s)'
  <2>1. UNCHANGED <<jobs, progs, scheds, stale>>
    BY <1>1 DEF Query, catalog
  <2>2. PlaceFits(z)
    BY ZenonT(40) DEF CatalogInv, CallKnows
  <2>3. ~d <=> \A j \in Names : ~DependsOn(j, c.name, c.op)
    OBVIOUS
  <2> HIDE DEF next, d
  <2> QED BY <1>1, <1>4, <2>1, <2>2, <2>3
          DEF CallKnows, Knows, EnablesJob, DependsOn, PlaceFits, Creates
<1> HIDE DEF next, items
<1> QED BY <1>1, <1>2, <1>3, <1>4, <1>5, QueryStepKeeps

(* What other calls may know about a name, unchanged by a step.              *)
Kept(n) ==
    /\ jobs'[n].there <=> jobs[n].there
    /\ jobs'[n].prog = jobs[n].prog /\ jobs'[n].sched = jobs[n].sched
    /\ progs'[n].there <=> progs[n].there
    /\ n \in scheds' <=> n \in scheds

(* No job comes to refer to the name in a step.                              *)
NoneRefers(n) ==
    \A j \in Names : jobs'[j].there =>
        /\ jobs'[j].prog = n => jobs[j].there /\ jobs[j].prog = n
        /\ jobs'[j].sched = n => jobs[j].there /\ jobs[j].sched = n

(* A commit of another session leaves a call with what it knew, or with a    *)
(* mark on it.                                                               *)
LEMMA OthersKnow ==
    ASSUME TypeOK, NEW t \in Sessions, NEW touched, CallKnows(t),
           sess'[t] = sess[t], reads'[t] = reads[t],
           stale'[t] = stale[t] \cup (reads[t] \cap touched),
           \A n \in Names : <<"exists", n>> \in touched \/ Kept(n),
           \A n \in Names : <<"dependents", n>> \in touched \/ NoneRefers(n)
    PROVE  CallKnows(t)'
<1> DEFINE z == sess[t]
           n == z.call.name
           op == z.call.op
<1>1. CASE z.at = "idle"
  BY <1>1, SMTT(30) DEF CallKnows, PlaceFits
<1>2. CASE z.at # "idle"
  <2>1. z.call.name \in Names /\ z.prog \in Names \cup {Null}
    BY <1>2, InCall
  <2>2. ASSUME NEW x \in Names PROVE <<"exists", x>> \in reads[t] =>
          <<"exists", x>> \in stale'[t] \/ Kept(x)
    OBVIOUS
  <2>3. ASSUME NEW x \in Names PROVE <<"dependents", x>> \in reads[t] =>
          <<"dependents", x>> \in stale'[t] \/ NoneRefers(x)
    OBVIOUS
  <2>4. stale[t] \subseteq stale'[t]
    OBVIOUS
  <2>5. scheds \subseteq Names
    BY SMTT(30) DEF TypeOK
  <2>6. PlaceFits(z)
    BY SMTT(30) DEF CallKnows
  <2>7. z.at \notin {"idle", "kind"} /\ Creates(z.call) =>
          /\ <<"exists", n>> \in reads[t]
          /\ \/ <<"exists", n>> \in stale'[t]
             \/ ~jobs'[n].there /\ ~progs'[n].there /\ n \notin scheds'
    <3> HIDE DEF n
    <3>1. z.at \notin {"idle", "kind"} /\ Creates(z.call) =>
            Knows(t, <<"exists", n>>,
                  ~jobs[n].there /\ ~progs[n].there /\ n \notin scheds)
      BY DEF CallKnows, n
    <3>2. n \in Names
      BY <2>1, SMTT(30) DEF n
    <3> QED BY <2>2, <2>4, <3>1, <3>2, SMTT(30) DEF Knows, Kept
  <2> DEFINE P == z.prog # Null /\ \/ /\ z.at \in {"schedule_ref", "program", "schedule",
                                                   "arguments", "write"}
                                      /\ z.call.op = "create_job"
                                   \/ /\ z.at \in {"schedule", "arguments", "write"}
                                      /\ EnablesJob(z)
             S == z.prog # Null /\ \/ /\ z.at \in {"program", "schedule", "arguments",
                                                   "write"}
                                      /\ z.call.op = "create_job"
                                   \/ z.at \in {"arguments", "write"} /\ EnablesJob(z)
             J == z.at \in {"program", "schedule", "arguments", "write"} /\ EnablesJob(z)
             D == /\ z.at = "write" /\ z.call.op \in {"drop_program", "drop_schedule"}
                  /\ ~z.deps
  <2>8. /\ P => Knows(t, <<"exists", z.prog>>, progs[z.prog].there)
        /\ S => Knows(t, <<"exists", z.sched>>, z.sched \in scheds)
        /\ J => Knows(t, <<"exists", n>>, jobs[n].there /\ jobs[n].prog = z.prog
                                            /\ jobs[n].sched = z.sched)
        /\ D => Knows(t, <<"dependents", n>>,
                       \A j \in Names : ~DependsOn(j, n, op))
    BY ZenonT(40) DEF CallKnows
  <2>9. P => <<"exists", z.prog>> \in reads[t] /\ (<<"exists", z.prog>> \in stale'[t]
                                                   \/ progs'[z.prog].there)
    <3> HIDE DEF P
    <3>1. P => z.prog \in Names
      BY <2>1, SMTT(30) DEF P
    <3> QED BY <2>2, <2>4, <2>8, <3>1 DEF Knows, Kept
  <2>10. S => <<"exists", z.sched>> \in reads[t] /\ (<<"exists", z.sched>> \in stale'[t]
                                                    \/ z.sched \in scheds')
    <3> HIDE DEF S
    <3> QED BY <2>2, <2>4, <2>5, <2>8, SMTT(30) DEF Knows, Kept
  <2>11. J => <<"exists", n>> \in reads[t] /\
                \/ <<"exists", n>> \in stale'[t]
                \/ jobs'[n].there /\ jobs'[n].prog = z.prog /\ jobs'[n].sched = z.sched
    <3> HIDE DEF J
    <3> QED BY <2>1, <2>2, <2>4, <2>8, SMTT(30) DEF Knows, Kept
  <2>12. D => <<"dependents", n>> \in reads[t] /\
                \/ <<"dependents", n>> \in stale'[t]
                \/ \A j \in Names : ~(/\ jobs'[j].there
                                      /\ IF op = "drop_program" THEN jobs'[j].prog = n
                                         ELSE jobs'[j].sched = n)
    <3> HIDE DEF D
    <3> QED BY <2>1, <2>3, <2>4, <2>8 DEF Knows, NoneRefers, DependsOn
  <2>13. PlaceFits(z)'
    BY <2>6
  <2>14. (z.at \notin {"idle", "kind"} /\ Creates(z.call) =>
            Knows(t, <<"exists", n>>,
                  ~jobs[n].there /\ ~progs[n].there /\ n \notin scheds))'
    BY <2>7 DEF Knows
  <2>15. (P => Knows(t, <<"exists", z.prog>>, progs[z.prog].there))'
    BY <2>9 DEF Knows, EnablesJob
  <2>16. (S => Knows(t, <<"exists", z.sched>>, z.sched \in scheds))'
    BY <2>10 DEF Knows, EnablesJob
  <2>17. (J => Knows(t, <<"exists", n>>, jobs[n].there /\ jobs[n].prog = z.prog
                                          /\ jobs[n].sched = z.sched))'
    BY <2>11 DEF Knows, EnablesJob
  <2>18. (D => Knows(t, <<"dependents", n>>,
                     \A j \in Names : ~DependsOn(j, n, op)))'
    BY <2>12 DEF Knows, DependsOn
  <2> QED BY <2>13, <2>14, <2>15, <2>16, <2>17, <2>18, ZenonT(40) DEF CallKnows
<1> QED BY <1>1, <1>2, SMTT(30)

(* A write keeps the invariant when it keeps what is about the tables.       *)
LEMMA WriteKeeps ==
    ASSUME TypeOK, CatalogInv, NEW s \in Sessions, NEW touched, Commit(s, touched),
           \A n \in Names : <<"exists", n>> \in touched \/ Kept(n),
           \A n \in Names : <<"dependents", n>> \in touched \/ NoneRefers(n),
           TablesOK', OneNamespace', EnabledResolves', ArgumentsOwned',
           \A j \in Names : jobs'[j].enabled => jobs'[j].there
    PROVE  TypeOK' /\ CatalogInv'
<1>1. /\ TypeOK' /\ sess'[s] = Idle
      /\ \A t \in Sessions \ {s} :
           /\ sess'[t] = sess[t] /\ reads'[t] = reads[t]
           /\ stale'[t] = stale[t] \cup (reads[t] \cap touched)
  BY CommitFacts
<1>2. ASSUME NEW t \in Sessions PROVE CallKnows(t)'
  <2>1. CASE t = s
    BY <1>1, <2>1, IdleTyped, ZenonT(40) DEF CallKnows, PlaceFits
  <2>2. CASE t # s
    <3>1. CallKnows(t)
      BY DEF CatalogInv
    <3> QED BY <1>1, <2>2, <3>1, OthersKnow
  <2> QED BY <2>1, <2>2, SMTT(30)
<1> QED BY <1>1, <1>2 DEF CatalogInv

(* CREATE_PROGRAM: the name was free, or its look at it is on record as stale. *)
LEMMA CreateProgramKeeps ==
    ASSUME TypeOK, CatalogInv, NEW s \in Sessions, CreateProgram(s)
    PROVE  TypeOK' /\ CatalogInv'
<1> DEFINE z == sess[s]
           c == z.call
           n == c.name
           r == [there |-> TRUE, act |-> c.val, nargs |-> c.num, enabled |-> c.flag]
           touched == {<<"exists", n>>}
<1>1. /\ z.at = "write" /\ c.op = "create_program" /\ Commit(s, touched)
      /\ progs' = [progs EXCEPT ![n] = r] /\ UNCHANGED <<jobs, scheds, pargs, jargs>>
  BY SMTT(30) DEF CreateProgram, Writes
<1>2. n \in Names /\ c \in Call /\ CountAllowed(c) /\ Creates(c)
  BY <1>1, InCall DEF TypeOK, Creates
<1>3. r \in Program
  BY <1>2, CatalogAssumption DEF Call, Program, CountAllowed
<1>4. /\ TablesOK' /\ progs'[n].there
      /\ \A x \in Names \ {n} : progs'[x] = progs[x]
  <2>1. r.there
    BY SMTT(30)
  <2> HIDE DEF r, n
  <2> QED BY <1>1, <1>2, <1>3, <2>1 DEF TypeOK, TablesOK
<1>5. Knows(s, <<"exists", n>>, ~jobs[n].there /\ ~progs[n].there /\ n \notin scheds)
  BY <1>1, <1>2, ZenonT(40) DEF CatalogInv, CallKnows
<1>6. raced' = raced \cup stale[s]
  BY <1>1, CommitFacts, SMTT(30)
<1> HIDE DEF r, n, c, z
<1>7. OneNamespace'
  BY <1>1, <1>2, <1>4, <1>5, <1>6 DEF CatalogInv, OneNamespace, Knows
<1>8. EnabledResolves'
  BY <1>1, <1>4, <1>6, ZenonT(40) DEF CatalogInv, EnabledResolves, Undisturbed, TypeOK, Job
<1>9. ArgumentsOwned'
  BY <1>1, <1>4 DEF CatalogInv, ArgumentsOwned
<1>10. \A x \in Names : <<"exists", x>> \in touched \/ Kept(x)
  BY <1>1, <1>4 DEF Kept
<1>11. \A x \in Names : NoneRefers(x)
  BY <1>1 DEF NoneRefers
<1>12. \A j \in Names : jobs'[j].enabled => jobs'[j].there
  BY <1>1 DEF CatalogInv
<1> HIDE DEF touched
<1> QED BY <1>1, <1>4, <1>7, <1>8, <1>9, <1>10, <1>11, <1>12, WriteKeeps

(* CREATE_SCHEDULE, likewise.                                                *)
LEMMA CreateScheduleKeeps ==
    ASSUME TypeOK, CatalogInv, NEW s \in Sessions, CreateSchedule(s)
    PROVE  TypeOK' /\ CatalogInv'
<1> DEFINE z == sess[s]
           n == z.call.name
           touched == {<<"exists", n>>}
<1>1. /\ z.at = "write" /\ z.call.op = "create_schedule" /\ Commit(s, touched)
      /\ scheds' = scheds \cup {n} /\ UNCHANGED <<jobs, progs, pargs, jargs>>
  BY DEF CreateSchedule, Writes
<1>2. n \in Names /\ Creates(z.call)
  BY <1>1, InCall, SMTT(30) DEF Creates
<1>3. TablesOK'
  BY <1>1, <1>2 DEF TypeOK, TablesOK
<1>4. Knows(s, <<"exists", n>>, ~jobs[n].there /\ ~progs[n].there /\ n \notin scheds)
  BY <1>1, <1>2, ZenonT(40) DEF CatalogInv, CallKnows
<1>5. raced' = raced \cup stale[s]
  BY <1>1, CommitFacts
<1> HIDE DEF n, z
<1>6. OneNamespace'
  BY <1>1, <1>2, <1>4, <1>5 DEF CatalogInv, OneNamespace, Knows
<1>7. EnabledResolves'
  BY <1>1, <1>5, SMTT(30) DEF CatalogInv, EnabledResolves, Undisturbed
<1>8. ArgumentsOwned'
  BY <1>1 DEF CatalogInv, ArgumentsOwned
<1>9. \A x \in Names : <<"exists", x>> \in touched \/ Kept(x)
  BY <1>1 DEF Kept
<1>10. \A x \in Names : NoneRefers(x)
  BY <1>1 DEF NoneRefers
<1>11. \A j \in Names : jobs'[j].enabled => jobs'[j].there
  BY <1>1 DEF CatalogInv
<1> HIDE DEF touched
<1> QED BY <1>1, <1>3, <1>6, <1>7, <1>8, <1>9, <1>10, <1>11, WriteKeeps

(* CREATE_JOB: the references it enables the job on were there, or are stale. *)
LEMMA CreateJobKeeps ==
    ASSUME TypeOK, CatalogInv, NEW s \in Sessions, CreateJob(s)
    PROVE  TypeOK' /\ CatalogInv'
<1> DEFINE z == sess[s]
           c == z.call
           n == c.name
           p == z.prog
           d == z.sched
           r == [there |-> TRUE, prog |-> p, sched |-> d, act |-> c.val,
                 nargs |-> c.num, enabled |-> c.flag]
           touched == {<<"exists", n>>} \cup {<<"dependents", x>> : x \in {p, d} \ {Null}}
<1>1. /\ z.at = "write" /\ c.op = "create_job" /\ Commit(s, touched)
      /\ jobs' = [jobs EXCEPT ![n] = r] /\ UNCHANGED <<progs, scheds, pargs, jargs>>
  BY SMTT(30) DEF CreateJob, Writes
<1>2. /\ n \in Names /\ c \in Call /\ CountAllowed(c) /\ Creates(c)
      /\ p \in Names \cup {Null} /\ d \in Names \cup {Null}
  BY <1>1, InCall DEF TypeOK, Creates
<1>3. r \in Job
  BY <1>2, CatalogAssumption, SMTT(30) DEF Call, Job, CountAllowed
<1>4. /\ TablesOK' /\ jobs'[n] = r
      /\ \A x \in Names \ {n} : jobs'[x] = jobs[x]
  <2> HIDE DEF r, n
  <2> QED BY <1>1, <1>2, <1>3 DEF TypeOK, TablesOK
<1>5. jobs'[n].there /\ jobs'[n].prog = p /\ jobs'[n].sched = d
  BY <1>4, SMTT(30)
<1>6. /\ Knows(s, <<"exists", n>>, ~jobs[n].there /\ ~progs[n].there /\ n \notin scheds)
      /\ p # Null => /\ Knows(s, <<"exists", p>>, progs[p].there)
                     /\ Knows(s, <<"exists", d>>, d \in scheds)
  BY <1>1, <1>2, ZenonT(40) DEF CatalogInv, CallKnows
<1>7. raced' = raced \cup stale[s]
  BY <1>1, CommitFacts, ZenonT(40)
<1>8. /\ <<"exists", n>> \in touched
      /\ \A x \in Names : x \in {p, d} => <<"dependents", x>> \in touched
  <2> HIDE DEF n, p, d
  <2> QED BY CatalogAssumption, SMTT(30)
<1> HIDE DEF r, n, c, z, p, d, touched
<1>9. OneNamespace'
  BY <1>1, <1>2, <1>4, <1>6, <1>7, ZenonT(40) DEF CatalogInv, OneNamespace, Knows
<1>10. EnabledResolves'
  <2> SUFFICES ASSUME NEW j \in Names, jobs'[j].enabled, jobs'[j].prog # Null,
                      Undisturbed(j)'
               PROVE  progs[jobs'[j].prog].there /\ jobs'[j].sched \in scheds
    BY <1>1 DEF EnabledResolves
  <2>1. CASE j = n
    BY <1>5, <1>6, <1>7, <2>1 DEF Undisturbed, Knows
  <2>2. CASE j # n
    BY <1>4, <1>7, <2>2, SMTT(30) DEF Undisturbed, CatalogInv, EnabledResolves
  <2> QED BY <2>1, <2>2
<1>11. ArgumentsOwned'
  BY <1>1, <1>4, <1>5 DEF CatalogInv, ArgumentsOwned
<1>12. \A x \in Names : <<"exists", x>> \in touched \/ Kept(x)
  BY <1>1, <1>4, <1>8 DEF Kept
<1>13. \A x \in Names : <<"dependents", x>> \in touched \/ NoneRefers(x)
  BY <1>4, <1>5, <1>8 DEF NoneRefers
<1>14. \A j \in Names : jobs'[j].enabled => jobs'[j].there
  BY <1>4, <1>5, SMTT(30) DEF CatalogInv
<1> QED BY <1>1, <1>4, <1>9, <1>10, <1>11, <1>12, <1>13, <1>14, WriteKeeps, SMTT(30)

(* ENABLE of a job: what it checked still holds, or is on record as stale.   *)
LEMMA SetEnabledKeeps ==
    ASSUME TypeOK, CatalogInv, NEW s \in Sessions, SetEnabled(s)
    PROVE  TypeOK' /\ CatalogInv'
<1> DEFINE z == sess[s]
           n == z.call.name
           on == z.call.op = "enable"
           touched == {<<"enabled", n>>}
<1>1. /\ z.at = "write" /\ z.call.op \in {"enable", "disable"} /\ Commit(s, touched)
      /\ jobs' = IF z.kind = "J" /\ jobs[n].there
                 THEN [jobs EXCEPT ![n].enabled = on] ELSE jobs
      /\ progs' = IF z.kind = "P" /\ progs[n].there
                  THEN [progs EXCEPT ![n].enabled = on] ELSE progs
      /\ UNCHANGED <<scheds, pargs, jargs>>
  BY DEF SetEnabled, Writes
<1>2. n \in Names /\ on \in BOOLEAN
  BY <1>1, InCall
<1>3. /\ jobs' \in [Names -> Job]
      /\ \A j \in Names : /\ jobs'[j].there <=> jobs[j].there
                          /\ jobs'[j].prog = jobs[j].prog
                          /\ jobs'[j].sched = jobs[j].sched
                          /\ j # n => jobs'[j].enabled = jobs[j].enabled
                          /\ ~jobs[j].enabled /\ jobs'[j].enabled =>
                               on /\ z.kind = "J" /\ jobs[j].there
  <2>1. jobs \in [Names -> Job]
    BY DEF TypeOK
  <2> HIDE DEF z, n, on
  <2> QED BY <1>1, <1>2, <2>1 DEF Job
<1>4. /\ progs' \in [Names -> Program]
      /\ \A x \in Names : progs'[x].there <=> progs[x].there
  <2>1. progs \in [Names -> Program]
    BY SMTT(30) DEF TypeOK
  <2> HIDE DEF z, n, on
  <2> QED BY <1>1, <1>2, <2>1 DEF Program
<1>5. TablesOK'
  BY <1>1, <1>3, <1>4 DEF TypeOK, TablesOK
<1>6. raced' = raced \cup stale[s]
  BY <1>1, CommitFacts, SMTT(30)
<1>7. OneNamespace'
  BY <1>1, <1>3, <1>4, <1>6, ZenonT(40) DEF CatalogInv, OneNamespace
<1>8. EnabledResolves'
  <2> SUFFICES ASSUME NEW j \in Names, jobs'[j].enabled, jobs'[j].prog # Null,
                      Undisturbed(j)'
               PROVE  progs'[jobs'[j].prog].there /\ jobs'[j].sched \in scheds
    BY <1>1, ZenonT(40) DEF EnabledResolves
  <2>1. jobs[j].prog \in Names
    BY <1>3, SMTT(30) DEF TypeOK, Job
  <2>2. Undisturbed(j) /\ jobs[j].prog # Null
    BY <1>3, <1>6 DEF Undisturbed
  <2>3. CASE jobs[j].enabled
    BY <1>3, <1>4, <2>1, <2>2, <2>3, SMTT(30) DEF CatalogInv, EnabledResolves
  <2>4. CASE ~jobs[j].enabled
    <3>1. j = n /\ EnablesJob(z)
      BY <1>3, <2>4, <1>2, SMTT(30) DEF EnablesJob, TypeOK, Job
    <3>2. Knows(s, <<"exists", n>>,
                jobs[n].there /\ jobs[n].prog = z.prog /\ jobs[n].sched = z.sched)
      BY <1>1, <3>1, ZenonT(40) DEF CatalogInv, CallKnows
    <3>3. <<"exists", n>> \notin stale[s]
      BY <1>6, <3>1 DEF Undisturbed
    <3>4. jobs[j].prog = z.prog /\ jobs[j].sched = z.sched
      BY <3>1, <3>2, <3>3 DEF Knows
    <3>5. /\ Knows(s, <<"exists", z.prog>>, progs[z.prog].there)
          /\ Knows(s, <<"exists", z.sched>>, z.sched \in scheds)
      BY <1>1, <2>2, <3>1, <3>4, ZenonT(40) DEF CatalogInv, CallKnows
    <3>6. <<"exists", z.prog>> \notin stale[s] /\ <<"exists", z.sched>> \notin stale[s]
      BY <1>3, <1>6, <3>4, SMTT(30) DEF Undisturbed
    <3> QED BY <1>3, <1>4, <2>1, <3>4, <3>5, <3>6, SMTT(30) DEF Knows
  <2> QED BY <2>3, <2>4, SMTT(30)
<1>9. ArgumentsOwned'
  BY <1>1, <1>3, <1>4, ZenonT(40) DEF CatalogInv, ArgumentsOwned
<1>10. \A x \in Names : Kept(x)
  BY <1>1, <1>3, <1>4, ZenonT(40) DEF Kept
<1>11. \A x \in Names : NoneRefers(x)
  BY <1>3 DEF NoneRefers
<1>12. \A j \in Names : jobs'[j].enabled => jobs'[j].there
  BY <1>3 DEF CatalogInv
<1> HIDE DEF touched
<1> QED BY <1>1, <1>5, <1>7, <1>8, <1>9, <1>10, <1>11, <1>12, WriteKeeps

(* DEFINE_PROGRAM_ARGUMENT: the foreign key has the program there.           *)
LEMMA DefineProgramArgumentKeeps ==
    ASSUME TypeOK, CatalogInv, NEW s \in Sessions, DefineProgramArgument(s)
    PROVE  TypeOK' /\ CatalogInv'
<1> DEFINE c == sess[s].call
           n == c.name
           r == [there |-> TRUE, arg |-> c.arg, val |-> c.val, dflt |-> c.flag]
           touched == {<<"arguments", n>>}
<1>1. /\ sess[s].at = "write" /\ Commit(s, touched) /\ progs[n].there
      /\ pargs' = [pargs EXCEPT ![n][c.num] = r] /\ UNCHANGED <<jobs, progs, scheds, jargs>>
  BY DEF DefineProgramArgument, Writes
<1>2. n \in Names /\ r \in ProgramArg
  BY <1>1, InCall DEF Call, ProgramArg
<1>3. /\ pargs' \in [Names -> [Positions -> ProgramArg]]
      /\ \A x \in Names \ {n} : pargs'[x] = pargs[x]
  <2>1. pargs \in [Names -> [Positions -> ProgramArg]]
    BY SMTT(30) DEF TypeOK
  <2> HIDE DEF r, n
  <2> QED BY <1>1, <1>2, <2>1, ZenonT(40)
<1>4. TablesOK'
  BY <1>1, <1>3 DEF TypeOK, TablesOK
<1>5. raced' = raced \cup stale[s]
  BY <1>1, CommitFacts
<1>6. OneNamespace' /\ EnabledResolves'
  BY <1>1, <1>5, ZenonT(40) DEF CatalogInv, OneNamespace, EnabledResolves, Undisturbed
<1>7. ArgumentsOwned'
  BY <1>1, <1>3, ZenonT(40) DEF CatalogInv, ArgumentsOwned
<1>8. \A x \in Names : Kept(x) /\ NoneRefers(x)
  BY <1>1 DEF Kept, NoneRefers
<1>9. \A j \in Names : jobs'[j].enabled => jobs'[j].there
  BY <1>1, SMTT(30) DEF CatalogInv
<1> HIDE DEF touched
<1> QED BY <1>1, <1>4, <1>6, <1>7, <1>8, <1>9, WriteKeeps, SMTT(30)

(* DROP_PROGRAM_ARGUMENT leaves no argument that was not there.              *)
LEMMA DropProgramArgumentKeeps ==
    ASSUME TypeOK, CatalogInv, NEW s \in Sessions, DropProgramArgument(s)
    PROVE  TypeOK' /\ CatalogInv'
<1> DEFINE c == sess[s].call
           n == c.name
           gone == {i \in Positions :
                      /\ pargs[n][i].there
                      /\ IF c.op = "drop_program_argument_pos" THEN i = c.num
                         ELSE pargs[n][i].arg = c.arg}
           r == [i \in Positions |-> IF i \in gone THEN NoProgramArg ELSE pargs[n][i]]
           touched == {<<"arguments", n>>}
<1>1. /\ sess[s].at = "write" /\ Commit(s, touched)
      /\ pargs' = [pargs EXCEPT ![n] = r] /\ UNCHANGED <<jobs, progs, scheds, jargs>>
  BY InCall, ZenonT(40) DEF DropProgramArgument, Writes, TypeOK
<1>2. n \in Names
  BY <1>1, InCall, ZenonT(40)
<1>3. r \in [Positions -> ProgramArg] /\ \A i \in Positions : r[i].there => pargs[n][i].there
  <2>1. pargs[n] \in [Positions -> ProgramArg]
    BY <1>2 DEF TypeOK
  <2>2. NoProgramArg \in ProgramArg /\ ~NoProgramArg.there
    BY DEF NoProgramArg, ProgramArg
  <2> HIDE DEF n, gone
  <2> QED BY <2>1, <2>2, ZenonT(40)
<1>4. /\ pargs' \in [Names -> [Positions -> ProgramArg]]
      /\ \A x \in Names \ {n} : pargs'[x] = pargs[x]
      /\ pargs'[n] = r
  <2>1. pargs \in [Names -> [Positions -> ProgramArg]]
    BY DEF TypeOK
  <2> HIDE DEF r, n
  <2> QED BY <1>1, <1>2, <1>3, <2>1, SMTT(30)
<1>5. TablesOK'
  BY <1>1, <1>4, ZenonT(40) DEF TypeOK, TablesOK
<1>6. raced' = raced \cup stale[s]
  BY <1>1, CommitFacts, ZenonT(40)
<1>7. OneNamespace' /\ EnabledResolves'
  BY <1>1, <1>6, ZenonT(40) DEF CatalogInv, OneNamespace, EnabledResolves, Undisturbed
<1>8. ArgumentsOwned'
  <2> HIDE DEF r, n
  <2> QED BY <1>1, <1>3, <1>4, SMTT(30) DEF CatalogInv, ArgumentsOwned
<1>9. \A x \in Names : Kept(x) /\ NoneRefers(x)
  BY <1>1, SMTT(30) DEF Kept, NoneRefers
<1>10. \A j \in Names : jobs'[j].enabled => jobs'[j].there
  BY <1>1, ZenonT(40) DEF CatalogInv
<1> HIDE DEF touched
<1> QED BY <1>1, <1>5, <1>7, <1>8, <1>9, <1>10, WriteKeeps, ZenonT(40)

(* SET_JOB_ARGUMENT_VALUE: the foreign key has the job there.                *)
LEMMA SetJobArgumentKeeps ==
    ASSUME TypeOK, CatalogInv, NEW s \in Sessions, SetJobArgument(s)
    PROVE  TypeOK' /\ CatalogInv'
<1> DEFINE c == sess[s].call
           n == c.name
           r == [there |-> TRUE, val |-> c.val]
           touched == {<<"arguments", n>>}
<1>1. /\ sess[s].at = "write" /\ Commit(s, touched) /\ jobs[n].there
      /\ jargs' = [jargs EXCEPT ![n][sess[s].pos] = r]
      /\ UNCHANGED <<jobs, progs, scheds, pargs>>
  BY DEF SetJobArgument, Writes, JobOfValue
<1>2. n \in Names /\ r \in JobArg
  BY <1>1, InCall DEF Call, JobArg
<1>3. /\ jargs' \in [Names -> [Positions -> JobArg]]
      /\ \A x \in Names \ {n} : jargs'[x] = jargs[x]
  <2>1. jargs \in [Names -> [Positions -> JobArg]]
    BY DEF TypeOK
  <2> HIDE DEF r, n
  <2> QED BY <1>1, <1>2, <2>1, ZenonT(40)
<1>4. TablesOK'
  BY <1>1, <1>3 DEF TypeOK, TablesOK
<1>5. raced' = raced \cup stale[s]
  BY <1>1, CommitFacts
<1>6. OneNamespace' /\ EnabledResolves'
  BY <1>1, <1>5, ZenonT(40) DEF CatalogInv, OneNamespace, EnabledResolves, Undisturbed
<1>7. ArgumentsOwned'
  BY <1>1, <1>3, ZenonT(40) DEF CatalogInv, ArgumentsOwned
<1>8. \A x \in Names : Kept(x) /\ NoneRefers(x)
  BY <1>1 DEF Kept, NoneRefers
<1>9. \A j \in Names : jobs'[j].enabled => jobs'[j].there
  BY <1>1 DEF CatalogInv
<1> HIDE DEF touched
<1> QED BY <1>1, <1>4, <1>6, <1>7, <1>8, <1>9, WriteKeeps

(* DROP_JOB takes the values of the job with it.                             *)
LEMMA DropJobKeeps ==
    ASSUME TypeOK, CatalogInv, NEW s \in Sessions, DropJob(s)
    PROVE  TypeOK' /\ CatalogInv'
<1> DEFINE n == sess[s].call.name
           r == [i \in Positions |-> NoJobArg]
           touched == {"exists", "enabled", "arguments"} \X {n} \cup References(n)
<1>1. /\ sess[s].at = "write" /\ Commit(s, touched)
      /\ jobs' = [jobs EXCEPT ![n] = NoJob] /\ jargs' = [jargs EXCEPT ![n] = r]
      /\ UNCHANGED <<progs, scheds, pargs>>
  BY DEF DropJob, Writes
<1>2. n \in Names
  BY <1>1, InCall
<1>3. /\ NoJob \in Job /\ ~NoJob.there /\ ~NoJob.enabled
      /\ r \in [Positions -> JobArg] /\ \A i \in Positions : ~r[i].there
  BY CatalogAssumption DEF NoJob, Job, NoJobArg, JobArg
<1>4. <<"exists", n>> \in touched
  OBVIOUS
<1> HIDE DEF n, r, touched
<1>5. /\ jobs' \in [Names -> Job] /\ jobs'[n] = NoJob
      /\ \A x \in Names \ {n} : jobs'[x] = jobs[x]
  BY <1>1, <1>2, <1>3 DEF TypeOK
<1>6. /\ jargs' \in [Names -> [Positions -> JobArg]] /\ jargs'[n] = r
      /\ \A x \in Names \ {n} : jargs'[x] = jargs[x]
  BY <1>1, <1>2, <1>3 DEF TypeOK
<1>7. TablesOK'
  BY <1>1, <1>5, <1>6, SMTT(30) DEF TypeOK, TablesOK
<1>8. raced' = raced \cup stale[s]
  BY <1>1, CommitFacts
<1>9. OneNamespace'
  BY <1>1, <1>3, <1>5, <1>8, SMTT(30) DEF CatalogInv, OneNamespace
<1>10. EnabledResolves'
  BY <1>1, <1>3, <1>5, <1>8, ZenonT(40) DEF CatalogInv, EnabledResolves, Undisturbed
<1>11. ArgumentsOwned'
  BY <1>1, <1>3, <1>5, <1>6 DEF CatalogInv, ArgumentsOwned
<1>12. \A x \in Names : <<"exists", x>> \in touched \/ Kept(x)
  BY <1>1, <1>4, <1>5 DEF Kept
<1>13. \A x \in Names : NoneRefers(x)
  BY <1>3, <1>5 DEF NoneRefers
<1>14. \A j \in Names : jobs'[j].enabled => jobs'[j].there
  BY <1>3, <1>5 DEF CatalogInv
<1> QED BY <1>1, <1>7, <1>9, <1>10, <1>11, <1>12, <1>13, <1>14, WriteKeeps

(* The UPDATE of the dependents of a dropped object only disables jobs; it   *)
(* disables every one that refers to the object, if the query found one.     *)
LEMMA WithoutReferenceFacts ==
    ASSUME TypeOK, NEW s \in Sessions, jobs' = WithoutReference(s)
    PROVE  /\ jobs' \in [Names -> Job]
           /\ \A j \in Names :
                /\ jobs'[j].there <=> jobs[j].there
                /\ jobs'[j].prog = jobs[j].prog /\ jobs'[j].sched = jobs[j].sched
                /\ jobs'[j].enabled => jobs[j].enabled
                /\ sess[s].deps /\ DependsOn(j, sess[s].call.name, sess[s].call.op) =>
                     ~jobs'[j].enabled
<1> DEFINE D(j) == sess[s].deps /\ DependsOn(j, sess[s].call.name, sess[s].call.op)
<1>1. jobs' = [j \in Names |-> IF D(j) THEN [jobs[j] EXCEPT !.enabled = FALSE] ELSE jobs[j]]
  BY DEF WithoutReference
<1>2. jobs \in [Names -> Job]
  BY DEF TypeOK
<1> HIDE DEF D
<1>3. ASSUME NEW j \in Names
      PROVE  /\ jobs'[j] \in Job
             /\ jobs'[j].there = jobs[j].there
             /\ jobs'[j].prog = jobs[j].prog /\ jobs'[j].sched = jobs[j].sched
             /\ jobs'[j].enabled => jobs[j].enabled
             /\ D(j) => ~jobs'[j].enabled
  <2> DEFINE r == jobs[j]
  <2>1. r \in Job
    BY <1>2
  <2>2. jobs'[j] = IF D(j) THEN [r EXCEPT !.enabled = FALSE] ELSE r
    BY <1>1
  <2> HIDE DEF r
  <2>3. /\ jobs'[j] \in Job
        /\ jobs'[j].there = r.there
        /\ jobs'[j].prog = r.prog /\ jobs'[j].sched = r.sched
        /\ jobs'[j].enabled => r.enabled
        /\ D(j) => ~jobs'[j].enabled
    BY <2>1, <2>2, ZenonT(40) DEF Job
  <2> QED BY <2>3 DEF r
<1>4. jobs' \in [Names -> Job]
  <2> DEFINE g == [j \in Names |-> IF D(j) THEN [jobs[j] EXCEPT !.enabled = FALSE]
                                   ELSE jobs[j]]
  <2>1. jobs' = g /\ \A j \in Names : g[j] \in Job
    BY <1>1, <1>3
  <2> QED BY <2>1
<1> QED BY <1>3, <1>4 DEF D

(* DROP_PROGRAM: there were no dependents, or they are disabled.             *)
LEMMA DropProgramKeeps ==
    ASSUME TypeOK, CatalogInv, NEW s \in Sessions, DropProgram(s)
    PROVE  TypeOK' /\ CatalogInv'
<1> DEFINE z == sess[s]
           n == z.call.name
           r == [i \in Positions |-> NoProgramArg]
           touched == {"exists", "enabled", "arguments"} \X {n}
<1>1. /\ z.at = "write" /\ z.call.op = "drop_program" /\ Commit(s, touched)
      /\ jobs' = WithoutReference(s) /\ progs' = [progs EXCEPT ![n] = NoProgram]
      /\ pargs' = [pargs EXCEPT ![n] = r] /\ UNCHANGED <<scheds, jargs>>
  BY SMTT(30) DEF DropProgram, Writes
<1>2. n \in Names
  BY <1>1, InCall, SMTT(30)
<1>3. /\ jobs' \in [Names -> Job]
      /\ \A j \in Names :
           /\ jobs'[j].there <=> jobs[j].there
           /\ jobs'[j].prog = jobs[j].prog /\ jobs'[j].sched = jobs[j].sched
           /\ jobs'[j].enabled => jobs[j].enabled
           /\ z.deps /\ jobs[j].there /\ jobs[j].prog = n => ~jobs'[j].enabled
  BY <1>1, WithoutReferenceFacts, ZenonT(40) DEF DependsOn
<1>4. /\ NoProgram \in Program /\ ~NoProgram.there
      /\ r \in [Positions -> ProgramArg] /\ \A i \in Positions : ~r[i].there
  BY CatalogAssumption DEF NoProgram, Program, NoProgramArg, ProgramArg
<1>5. <<"exists", n>> \in touched
  BY SMTT(30)
<1>6. ~z.deps => Knows(s, <<"dependents", n>>,
                       \A j \in Names : ~DependsOn(j, n, z.call.op))
  BY <1>1, ZenonT(40) DEF CatalogInv, CallKnows
<1> HIDE DEF n, r, z, touched
<1>7. /\ progs' \in [Names -> Program] /\ ~progs'[n].there
      /\ \A x \in Names \ {n} : progs'[x] = progs[x]
  BY <1>1, <1>2, <1>4, ZenonT(40) DEF TypeOK
<1>8. /\ pargs' \in [Names -> [Positions -> ProgramArg]] /\ pargs'[n] = r
      /\ \A x \in Names \ {n} : pargs'[x] = pargs[x]
  <2>1. pargs \in [Names -> [Positions -> ProgramArg]]
    BY DEF TypeOK
  <2> QED BY <1>1, <1>2, <1>4, <2>1, ZenonT(40)
<1>9. TablesOK'
  BY <1>1, <1>3, <1>7, <1>8, ZenonT(40) DEF TypeOK, TablesOK
<1>10. raced' = raced \cup stale[s]
  BY <1>1, CommitFacts, ZenonT(40)
<1>11. OneNamespace'
  BY <1>1, <1>3, <1>7, <1>10, ZenonT(40) DEF CatalogInv, OneNamespace
<1>12. EnabledResolves'
  <2> SUFFICES ASSUME NEW j \in Names, jobs'[j].enabled, jobs'[j].prog # Null,
                      Undisturbed(j)'
               PROVE  progs'[jobs'[j].prog].there /\ jobs'[j].sched \in scheds
    BY <1>1, ZenonT(40) DEF EnabledResolves
  <2>1. /\ jobs[j].enabled /\ jobs[j].there /\ Undisturbed(j)
        /\ jobs[j].prog \in Names /\ jobs[j].prog # Null
    BY <1>3, <1>10, ZenonT(40) DEF CatalogInv, Undisturbed, TypeOK, Job
  <2>2. progs[jobs[j].prog].there /\ jobs[j].sched \in scheds
    BY <2>1, ZenonT(40) DEF CatalogInv, EnabledResolves
  <2>3. jobs[j].prog # n
    <3> SUFFICES ASSUME jobs[j].prog = n PROVE FALSE
      BY SMTT(30)
    <3>1. ~z.deps
      BY <1>3, <2>1
    <3>2. <<"dependents", n>> \notin stale[s]
      BY <1>3, <1>10, SMTT(30) DEF Undisturbed
    <3> QED BY <1>1, <1>6, <2>1, <3>1, <3>2 DEF Knows, DependsOn
  <2> QED BY <1>3, <1>7, <2>1, <2>2, <2>3, SMTT(30)
<1>13. ArgumentsOwned'
  BY <1>1, <1>3, <1>4, <1>7, <1>8, ZenonT(40) DEF CatalogInv, ArgumentsOwned
<1>14. \A x \in Names : <<"exists", x>> \in touched \/ Kept(x)
  BY <1>1, <1>3, <1>5, <1>7, SMTT(30) DEF Kept
<1>15. \A x \in Names : NoneRefers(x)
  BY <1>3 DEF NoneRefers
<1>16. \A j \in Names : jobs'[j].enabled => jobs'[j].there
  BY <1>3 DEF CatalogInv
<1> QED BY <1>1, <1>9, <1>11, <1>12, <1>13, <1>14, <1>15, <1>16, WriteKeeps, SMTT(30)

(* DROP_SCHEDULE, likewise.                                                  *)
LEMMA DropScheduleKeeps ==
    ASSUME TypeOK, CatalogInv, NEW s \in Sessions, DropSchedule(s)
    PROVE  TypeOK' /\ CatalogInv'
<1> DEFINE z == sess[s]
           n == z.call.name
           touched == {<<"exists", n>>}
<1>1. /\ z.at = "write" /\ z.call.op = "drop_schedule" /\ Commit(s, touched)
      /\ jobs' = WithoutReference(s) /\ scheds' = scheds \ {n}
      /\ UNCHANGED <<progs, pargs, jargs>>
  BY SMTT(30) DEF DropSchedule, Writes
<1>2. /\ jobs' \in [Names -> Job]
      /\ \A j \in Names :
           /\ jobs'[j].there <=> jobs[j].there
           /\ jobs'[j].prog = jobs[j].prog /\ jobs'[j].sched = jobs[j].sched
           /\ jobs'[j].enabled => jobs[j].enabled
           /\ z.deps /\ jobs[j].there /\ jobs[j].sched = n => ~jobs'[j].enabled
  BY <1>1, WithoutReferenceFacts, SMTT(30) DEF DependsOn
<1>3. ~z.deps => Knows(s, <<"dependents", n>>,
                       \A j \in Names : ~DependsOn(j, n, z.call.op))
  BY <1>1, ZenonT(40) DEF CatalogInv, CallKnows
<1> HIDE DEF n, z
<1>4. TablesOK'
  BY <1>1, <1>2, ZenonT(40) DEF TypeOK, TablesOK
<1>5. raced' = raced \cup stale[s]
  BY <1>1, CommitFacts, ZenonT(40)
<1>6. OneNamespace'
  BY <1>1, <1>2, <1>5, ZenonT(40) DEF CatalogInv, OneNamespace
<1>7. EnabledResolves'
  <2> SUFFICES ASSUME NEW j \in Names, jobs'[j].enabled, jobs'[j].prog # Null,
                      Undisturbed(j)'
               PROVE  progs[jobs'[j].prog].there /\ jobs'[j].sched \in scheds'
    BY <1>1, SMTT(30) DEF EnabledResolves
  <2>1. /\ jobs[j].enabled /\ jobs[j].there /\ Undisturbed(j) /\ jobs[j].prog # Null
    BY <1>2, <1>5 DEF CatalogInv, Undisturbed
  <2>2. progs[jobs[j].prog].there /\ jobs[j].sched \in scheds
    BY <2>1 DEF CatalogInv, EnabledResolves
  <2>3. jobs[j].sched # n
    <3> SUFFICES ASSUME jobs[j].sched = n PROVE FALSE
      OBVIOUS
    <3>1. ~z.deps
      BY <1>2, <2>1
    <3>2. <<"dependents", n>> \notin stale[s]
      BY <1>2, <1>5, SMTT(30) DEF Undisturbed
    <3> QED BY <1>1, <1>3, <2>1, <3>1, <3>2 DEF Knows, DependsOn
  <2> QED BY <1>1, <1>2, <2>2, <2>3
<1>8. ArgumentsOwned'
  BY <1>1, <1>2 DEF CatalogInv, ArgumentsOwned
<1>9. \A x \in Names : <<"exists", x>> \in touched \/ Kept(x)
  BY <1>1, <1>2 DEF Kept
<1>10. \A x \in Names : NoneRefers(x)
  BY <1>2 DEF NoneRefers
<1>11. \A j \in Names : jobs'[j].enabled => jobs'[j].there
  BY <1>2 DEF CatalogInv
<1> HIDE DEF touched
<1> QED BY <1>1, <1>4, <1>6, <1>7, <1>8, <1>9, <1>10, <1>11, WriteKeeps, SMTT(30)

(* A call begins knowing nothing.                                            *)
LEMMA BeginKeeps ==
    ASSUME TypeOK, CatalogInv, NEW s \in Sessions, NEW c \in workload, Begin(s, c)
    PROVE  TypeOK' /\ CatalogInv'
<1> DEFINE w == FirstQuery(c.op)
           q == IF w = "program" THEN c.name ELSE Null
           g == c.num
           next == [Idle EXCEPT !.at = w, !.call = c, !.prog = q, !.pos = g]
<1>1. /\ sess' = [sess EXCEPT ![s] = next] /\ sess[s].at = "idle"
      /\ UNCHANGED <<catalog, workload, reads, stale, raced>>
  BY SMTT(30) DEF Begin
<1>2. c \in Call /\ c.name \in Names /\ g \in 0 .. MaxArgs + 1
  BY WorkloadsAssumption DEF TypeOK, Call
<1>3. /\ w \in {"kind", "program", "job", "write"}
      /\ w \in {"program", "job", "write"} => c.op \notin
           {"create_program", "create_schedule", "create_job", "enable",
            "drop_program", "drop_schedule"}
  BY DEF FirstQuery
<1>4. q \in Names \cup {Null} /\ (w = "program" => q # Null)
  BY <1>2, CatalogAssumption
<1>5. next \in Session /\ next.at = w /\ next.call = c /\ next.prog = q
  <2>1. w \in Places
    BY <1>3 DEF Places
  <2> HIDE DEF w, q, g
  <2> QED BY <1>2, <1>4, <2>1, IdleTyped, ZenonT(40) DEF Session
<1> HIDE DEF next, w, q, g
<1>6. /\ sess' \in [Sessions -> Session] /\ sess'[s] = next
      /\ \A t \in Sessions \ {s} : sess'[t] = sess[t]
  BY <1>1, <1>5 DEF TypeOK
<1>7. CountAllowed(c) \/ w = "kind"
  BY <1>3, SMTT(30) DEF CountAllowed, Creates
<1>8. \A t \in Sessions :
        /\ sess'[t].at # "idle" => sess'[t].call \in workload'
        /\ sess'[t].at \notin {"idle", "kind"} => CountAllowed(sess'[t].call)
        /\ sess'[t].at \in {"program_ref", "schedule_ref", "program", "argument_name"}
             => sess'[t].prog # Null
  BY <1>1, <1>3, <1>4, <1>5, <1>6, <1>7, SMTT(30) DEF TypeOK
<1>9. TypeOK'
  BY <1>1, <1>6, <1>8, SMTT(30) DEF TypeOK, catalog, CountAllowed, Creates
<1>10. CallKnows(s)'
  BY <1>3, <1>5, <1>6, ZenonT(40) DEF CallKnows, EnablesJob, PlaceFits, Creates
<1>11. CatalogInv'
  BY <1>1, <1>6, <1>10, QueryKeeps, ZenonT(40)
<1> QED BY <1>9, <1>11

(* A call that ends without a write takes what it knew with it.              *)
LEMMA EndKeeps ==
    ASSUME TypeOK, CatalogInv, NEW s \in Sessions, Abort(s) \/ Executed(s)
    PROVE  TypeOK' /\ CatalogInv'
<1>1. /\ sess' = [sess EXCEPT ![s] = Idle]
      /\ reads' = [reads EXCEPT ![s] = {}] /\ stale' = [stale EXCEPT ![s] = {}]
      /\ UNCHANGED <<catalog, workload, raced>>
  BY DEF Abort, Executed
<1>2. /\ sess' \in [Sessions -> Session] /\ sess'[s] = Idle
      /\ \A t \in Sessions \ {s} :
           sess'[t] = sess[t] /\ reads'[t] = reads[t] /\ stale'[t] = stale[t]
      /\ reads' \in [Sessions -> SUBSET Items] /\ stale' \in [Sessions -> SUBSET Items]
  BY <1>1, IdleTyped DEF TypeOK
<1>3. \A t \in Sessions :
        /\ sess'[t].at # "idle" => sess'[t].call \in workload'
        /\ sess'[t].at \notin {"idle", "kind"} => CountAllowed(sess'[t].call)
        /\ sess'[t].at \in {"program_ref", "schedule_ref", "program", "argument_name"}
             => sess'[t].prog # Null
  BY <1>1, <1>2, IdleTyped, SMTT(30) DEF TypeOK
<1>4. TypeOK'
  BY <1>1, <1>2, <1>3, SMTT(30) DEF TypeOK, catalog, CountAllowed, Creates
<1>5. CallKnows(s)'
  BY <1>2, IdleTyped, ZenonT(40) DEF CallKnows, PlaceFits
<1>6. CatalogInv'
  BY <1>1, <1>2, <1>5, QueryKeeps, SMTT(30)
<1> QED BY <1>4, <1>6

(* The scheduler disables a job; no call relies on its being enabled.        *)
LEMMA RetireKeeps ==
    ASSUME TypeOK, CatalogInv, NEW n \in Names, Retire(n)
    PROVE  TypeOK' /\ CatalogInv'
<1>1. /\ jobs' = [jobs EXCEPT ![n].enabled = FALSE]
      /\ UNCHANGED <<progs, scheds, pargs, jargs, sess, workload, reads, stale, raced>>
  BY DEF Retire
<1>2. /\ jobs' \in [Names -> Job]
      /\ \A j \in Names : /\ jobs'[j].there <=> jobs[j].there
                          /\ jobs'[j].prog = jobs[j].prog
                          /\ jobs'[j].sched = jobs[j].sched
                          /\ jobs'[j].enabled => jobs[j].enabled
  <2>1. jobs \in [Names -> Job]
    BY DEF TypeOK
  <2> QED BY <1>1, <2>1, ZenonT(40) DEF Job
<1>3. TypeOK'
  BY <1>1, <1>2 DEF TypeOK, CountAllowed, Creates
<1>4. OneNamespace' /\ ArgumentsOwned'
  BY <1>1, <1>2, SMTT(30) DEF CatalogInv, OneNamespace, ArgumentsOwned
<1>5. EnabledResolves'
  <2> SUFFICES ASSUME NEW j \in Names, jobs'[j].enabled, jobs'[j].prog # Null,
                      Undisturbed(j)'
               PROVE  progs[jobs'[j].prog].there /\ jobs'[j].sched \in scheds
    BY <1>1 DEF EnabledResolves
  <2>1. jobs[j].enabled /\ jobs[j].prog # Null /\ Undisturbed(j)
    BY <1>1, <1>2 DEF Undisturbed
  <2> QED BY <1>2, <2>1 DEF CatalogInv, EnabledResolves
<1>6. ASSUME NEW t \in Sessions PROVE CallKnows(t)'
  <2>1. CallKnows(t)
    BY DEF CatalogInv
  <2>2. \A x \in Names : Kept(x) /\ NoneRefers(x)
    BY <1>1, <1>2 DEF Kept, NoneRefers
  <2>3. stale'[t] = stale[t] \cup (reads[t] \cap {})
    BY <1>1
  <2> QED BY <1>1, <2>1, <2>2, <2>3, OthersKnow
<1>7. \A j \in Names : jobs'[j].enabled => jobs'[j].there
  BY <1>2 DEF CatalogInv
<1> QED BY <1>3, <1>4, <1>5, <1>6, <1>7, ZenonT(40) DEF CatalogInv

(* The empty catalogue.                                                      *)
LEMMA InitInv == Init => TypeOK /\ CatalogInv
<1> SUFFICES ASSUME Init PROVE TypeOK /\ CatalogInv
  BY SMTT(30)
<1>1. /\ NoJob \in Job /\ NoProgram \in Program
      /\ NoProgramArg \in ProgramArg /\ NoJobArg \in JobArg
  BY CatalogAssumption
  DEF NoJob, Job, NoProgram, Program, NoProgramArg, ProgramArg, NoJobArg, JobArg
<1>2. TypeOK
  <2>1. jobs \in [Names -> Job] /\ progs \in [Names -> Program] /\ scheds \subseteq Names
    BY <1>1 DEF Init
  <2>2. /\ pargs \in [Names -> [Positions -> ProgramArg]]
        /\ jargs \in [Names -> [Positions -> JobArg]]
    BY <1>1 DEF Init
  <2>3. sess \in [Sessions -> Session] /\ \A s \in Sessions : sess[s].at = "idle"
    BY IdleTyped DEF Init
  <2>4. /\ workload \in Workloads /\ raced \subseteq Items
        /\ reads \in [Sessions -> SUBSET Items] /\ stale \in [Sessions -> SUBSET Items]
    BY SMTT(30) DEF Init
  <2> QED BY <2>1, <2>2, <2>3, <2>4 DEF TypeOK
<1>3. OneNamespace /\ EnabledResolves /\ ArgumentsOwned
  BY DEF Init, OneNamespace, EnabledResolves, ArgumentsOwned, NoJob, NoProgram,
         NoProgramArg, NoJobArg
<1>4. \A j \in Names : jobs[j].enabled => jobs[j].there
  BY SMTT(30) DEF Init, NoJob
<1>5. \A s \in Sessions : CallKnows(s)
  BY IdleTyped, ZenonT(40) DEF Init, CallKnows, PlaceFits
<1> QED BY <1>2, <1>3, <1>4, <1>5 DEF CatalogInv

(* Every step keeps the invariant.                                           *)
LEMMA NextInv == TypeOK /\ CatalogInv /\ [Next]_vars => (TypeOK /\ CatalogInv)'
<1> SUFFICES ASSUME TypeOK, CatalogInv, [Next]_vars PROVE TypeOK' /\ CatalogInv'
  OBVIOUS
<1>1. ASSUME NEW s \in Sessions, NEW c \in workload, Begin(s, c)
      PROVE  TypeOK' /\ CatalogInv'
  BY <1>1, BeginKeeps
<1>2. ASSUME NEW s \in Sessions, QueryStep(s) PROVE TypeOK' /\ CatalogInv'
  BY <1>2, QueryKindKeeps, QueryProgramRefKeeps, QueryScheduleRefKeeps,
     QueryJobKeeps, QueryProgramKeeps, QueryScheduleKeeps, QueryArgumentsKeeps,
     QueryArgumentNameKeeps, QueryDependentsKeeps
  DEF QueryStep
<1>3. ASSUME NEW s \in Sessions, WriteStep(s) PROVE TypeOK' /\ CatalogInv'
  BY <1>3, CreateProgramKeeps, CreateScheduleKeeps, CreateJobKeeps,
     SetEnabledKeeps, DefineProgramArgumentKeeps, DropProgramArgumentKeeps,
     SetJobArgumentKeeps, DropJobKeeps, DropProgramKeeps, DropScheduleKeeps
  DEF WriteStep
<1>4. ASSUME NEW s \in Sessions, Executed(s) \/ Abort(s) PROVE TypeOK' /\ CatalogInv'
  BY <1>4, EndKeeps
<1>5. ASSUME NEW n \in Names, Retire(n) PROVE TypeOK' /\ CatalogInv'
  BY <1>5, RetireKeeps
<1>6. CASE UNCHANGED vars
  <2>1. UNCHANGED <<jobs, progs, scheds, pargs, jargs, sess, workload, reads, stale, raced>>
    BY <1>6, SMTT(30) DEF vars, catalog
  <2>2. TypeOK'
    BY <2>1, SMTT(30) DEF TypeOK, CountAllowed, Creates
  <2>3. OneNamespace' /\ EnabledResolves' /\ ArgumentsOwned'
    BY <2>1, ZenonT(40)
    DEF CatalogInv, OneNamespace, EnabledResolves, ArgumentsOwned, Undisturbed
  <2>4. ASSUME NEW t \in Sessions PROVE CallKnows(t)'
    <3>1. CallKnows(t)
      BY DEF CatalogInv
    <3> QED BY <2>1, <3>1, ZenonT(40) DEF CallKnows, Knows, EnablesJob, DependsOn
  <2> QED BY <2>1, <2>2, <2>3, <2>4 DEF CatalogInv
<1> QED BY <1>1, <1>2, <1>3, <1>4, <1>5, <1>6 DEF Next

(* Whatever the names, sessions and calls: jobs, programs and schedules      *)
(* share one namespace, an enabled job has its program and its schedule (but *)
(* for calls that wrote on an outdated look), arguments and values belong to *)
(* objects that are there.                                                   *)
THEOREM CatalogCorrect ==
    Spec => [](TypeOK /\ OneNamespace /\ EnabledResolves /\ ArgumentsOwned)
<1>1. TypeOK /\ CatalogInv => OneNamespace /\ EnabledResolves /\ ArgumentsOwned
  BY DEF CatalogInv
<1> QED BY <1>1, InitInv, NextInv, PTL DEF Spec

(*************************** Arguments and runs *****************************)

(* The rows of a name, but for being enabled, are the same after a step.     *)
SameRows(x) ==
    /\ jobs'[x].there = jobs[x].there /\ jobs'[x].prog = jobs[x].prog
    /\ jobs'[x].nargs = jobs[x].nargs /\ jobs'[x].act = jobs[x].act
    /\ progs'[x].there = progs[x].there
    /\ progs'[x].nargs = progs[x].nargs /\ progs'[x].act = progs[x].act

(* What a step does not mark as touched, it has not changed.                 *)
Accounted(touched) ==
    \A x \in Names :
        /\ <<"exists", x>> \in touched \/ SameRows(x)
        /\ \/ <<"exists", x>> \in touched \/ <<"enabled", x>> \in touched
           \/ progs'[x].enabled = progs[x].enabled
        /\ \/ <<"arguments", x>> \in touched
           \/ jargs'[x] = jargs[x] /\ pargs'[x] = pargs[x]

(* An UPDATE of whether a job is enabled leaves its other columns.           *)
LEMMA EnabledAlone ==
    ASSUME NEW r \in Job, NEW b \in BOOLEAN
    PROVE  /\ [r EXCEPT !.enabled = b].there = r.there
           /\ [r EXCEPT !.enabled = b].prog = r.prog
           /\ [r EXCEPT !.enabled = b].nargs = r.nargs
           /\ [r EXCEPT !.enabled = b].act = r.act
BY DEF Job

(* So does an UPDATE of whether a program is.                                *)
LEMMA EnabledAloneProgram ==
    ASSUME NEW r \in Program, NEW b \in BOOLEAN
    PROVE  /\ [r EXCEPT !.enabled = b].there = r.there
           /\ [r EXCEPT !.enabled = b].nargs = r.nargs
           /\ [r EXCEPT !.enabled = b].act = r.act
BY DEF Program

(* Each write marks what it changes.                                         *)
LEMMA WritesAccounted ==
    ASSUME TypeOK, NEW s \in Sessions, WriteStep(s)
    PROVE  \E touched : Commit(s, touched) /\ Accounted(touched)
<1> DEFINE c == sess[s].call
           n == c.name
<1>0. n \in Names /\ c.op \in Ops
  <2>1. sess[s].at = "write"
    BY DEF WriteStep, CreateProgram, CreateSchedule, CreateJob, SetEnabled,
       DefineProgramArgument, DropProgramArgument, SetJobArgument, DropJob,
       DropProgram, DropSchedule, Writes
  <2> QED BY <2>1, InCall
<1>a. /\ jobs \in [Names -> Job] /\ progs \in [Names -> Program]
      /\ pargs \in [Names -> [Positions -> ProgramArg]]
      /\ jargs \in [Names -> [Positions -> JobArg]]
  BY DEF TypeOK
<1>1. CASE CreateProgram(s)
  <2> DEFINE touched == {<<"exists", n>>}
  <2>1. Commit(s, touched) BY <1>1 DEF CreateProgram
  <2>2. \A x \in Names \ {n} : progs'[x] = progs[x] BY <1>1, <1>a DEF CreateProgram
  <2>3. UNCHANGED <<jobs, pargs, jargs>> BY <1>1 DEF CreateProgram
  <2>4. Accounted(touched) BY <2>2, <2>3 DEF Accounted, SameRows
  <2> QED BY <2>1, <2>4
<1>2. CASE CreateSchedule(s)
  <2> DEFINE touched == {<<"exists", n>>}
  <2>1. Commit(s, touched) BY <1>2 DEF CreateSchedule
  <2>3. UNCHANGED <<jobs, progs, pargs, jargs>> BY <1>2 DEF CreateSchedule
  <2>4. Accounted(touched) BY <2>3 DEF Accounted, SameRows
  <2> QED BY <2>1, <2>4
<1>3. CASE CreateJob(s)
  <2> DEFINE touched == {<<"exists", n>>} \cup
                 {<<"dependents", x>> : x \in {sess[s].prog, sess[s].sched} \ {Null}}
  <2>1. Commit(s, touched) BY <1>3 DEF CreateJob
  <2>2. \A x \in Names \ {n} : jobs'[x] = jobs[x] BY <1>3, <1>a DEF CreateJob
  <2>3. UNCHANGED <<progs, pargs, jargs>> BY <1>3 DEF CreateJob
  <2>4. <<"exists", n>> \in touched OBVIOUS
  <2> HIDE DEF touched
  <2>5. Accounted(touched) BY <2>2, <2>3, <2>4 DEF Accounted, SameRows
  <2> QED BY <2>1, <2>5
<1>4. CASE SetEnabled(s)
  <2> DEFINE touched == {<<"enabled", n>>}
  <2>1. Commit(s, touched) BY <1>4 DEF SetEnabled
  <2>3. UNCHANGED <<pargs, jargs>> BY <1>4 DEF SetEnabled
  <2>2. PICK b \in BOOLEAN :
          /\ jobs' = jobs \/ jobs' = [jobs EXCEPT ![n].enabled = b]
          /\ progs' = progs \/ progs' = [progs EXCEPT ![n].enabled = b]
    <3>1. (c.op = "enable") \in BOOLEAN OBVIOUS
    <3> QED BY <1>4, <3>1 DEF SetEnabled
  <2>5. ASSUME NEW x \in Names
        PROVE  /\ jobs'[x].there = jobs[x].there /\ jobs'[x].prog = jobs[x].prog
               /\ jobs'[x].nargs = jobs[x].nargs /\ jobs'[x].act = jobs[x].act
    <3>1. jobs[x] \in Job BY <1>a
    <3>2. jobs'[x] = jobs[x] \/ jobs'[x] = [jobs[x] EXCEPT !.enabled = b]
      BY <1>a, <2>2
    <3>3. CASE jobs'[x] = jobs[x] BY <3>3
    <3>4. CASE jobs'[x] = [jobs[x] EXCEPT !.enabled = b] BY <3>1, <3>4, EnabledAlone
    <3> QED BY <3>2, <3>3, <3>4
  <2>6. ASSUME NEW x \in Names
        PROVE  /\ progs'[x].there = progs[x].there
               /\ progs'[x].nargs = progs[x].nargs /\ progs'[x].act = progs[x].act
               /\ x # n => progs'[x].enabled = progs[x].enabled
    <3>1. progs[x] \in Program BY <1>a
    <3>2. \/ progs'[x] = progs[x]
          \/ x = n /\ progs'[x] = [progs[x] EXCEPT !.enabled = b]
      BY <1>a, <2>2
    <3> QED BY <3>1, <3>2, EnabledAloneProgram, ZenonT(60)
  <2>7. Accounted(touched) BY <2>3, <2>5, <2>6 DEF Accounted, SameRows
  <2> QED BY <2>1, <2>7
<1>5. CASE DefineProgramArgument(s) \/ DropProgramArgument(s) \/ SetJobArgument(s)
  <2> DEFINE touched == {<<"arguments", n>>}
  <2>1. Commit(s, touched)
    BY <1>5 DEF DefineProgramArgument, DropProgramArgument, SetJobArgument
  <2>2. UNCHANGED <<jobs, progs>>
    BY <1>5 DEF DefineProgramArgument, DropProgramArgument, SetJobArgument
  <2>3. \A x \in Names \ {n} : pargs'[x] = pargs[x] /\ jargs'[x] = jargs[x]
    BY <1>5, <1>a DEF DefineProgramArgument, DropProgramArgument, SetJobArgument
  <2>4. Accounted(touched) BY <2>2, <2>3 DEF Accounted, SameRows
  <2> QED BY <2>1, <2>4
<1>6. CASE DropJob(s)
  <2> DEFINE touched == {"exists", "enabled", "arguments"} \X {n} \cup References(n)
  <2>1. Commit(s, touched) BY <1>6 DEF DropJob
  <2>2. \A x \in Names \ {n} : jobs'[x] = jobs[x] /\ jargs'[x] = jargs[x]
    BY <1>6, <1>a DEF DropJob
  <2>3. UNCHANGED <<progs, pargs>> BY <1>6 DEF DropJob
  <2>4. <<"exists", n>> \in touched /\ <<"arguments", n>> \in touched OBVIOUS
  <2> HIDE DEF touched
  <2>5. Accounted(touched) BY <2>2, <2>3, <2>4 DEF Accounted, SameRows
  <2> QED BY <2>1, <2>5
<1>7. ASSUME jobs' = WithoutReference(s), NEW x \in Names
      PROVE  /\ jobs'[x].there = jobs[x].there /\ jobs'[x].prog = jobs[x].prog
             /\ jobs'[x].nargs = jobs[x].nargs /\ jobs'[x].act = jobs[x].act
  <2>1. jobs[x] \in Job BY <1>a
  <2>2. jobs'[x] = jobs[x] \/ jobs'[x] = [jobs[x] EXCEPT !.enabled = FALSE]
    BY <1>7 DEF WithoutReference
  <2> QED BY <2>1, <2>2, EnabledAlone
<1>8. CASE DropProgram(s)
  <2> DEFINE touched == {"exists", "enabled", "arguments"} \X {n}
  <2>1. Commit(s, touched) BY <1>8 DEF DropProgram
  <2>2. \A x \in Names \ {n} : progs'[x] = progs[x] /\ pargs'[x] = pargs[x]
    BY <1>8, <1>a DEF DropProgram
  <2>3. UNCHANGED jargs /\ jobs' = WithoutReference(s) BY <1>8 DEF DropProgram
  <2>4. <<"exists", n>> \in touched /\ <<"arguments", n>> \in touched OBVIOUS
  <2> HIDE DEF touched
  <2>5. Accounted(touched) BY <1>7, <2>2, <2>3, <2>4 DEF Accounted, SameRows
  <2> QED BY <2>1, <2>5
<1>9. CASE DropSchedule(s)
  <2> DEFINE touched == {<<"exists", n>>}
  <2>1. Commit(s, touched) BY <1>9 DEF DropSchedule
  <2>2. UNCHANGED <<progs, pargs, jargs>> /\ jobs' = WithoutReference(s)
    BY <1>9 DEF DropSchedule
  <2>3. Accounted(touched) BY <1>7, <2>2 DEF Accounted, SameRows
  <2> QED BY <2>1, <2>3
<1> QED BY <1>1, <1>2, <1>3, <1>4, <1>5, <1>6, <1>8, <1>9 DEF WriteStep

(* A commit of another session leaves a call that deals with arguments with  *)
(* what it knew, or with a mark on it.                                       *)
LEMMA OthersKnowArguments ==
    ASSUME TypeOK, NEW t \in Sessions, NEW touched, ArgumentsKnown(t),
           sess'[t] = sess[t], reads'[t] = reads[t],
           stale'[t] = stale[t] \cup (reads[t] \cap touched), Accounted(touched)
    PROVE  ArgumentsKnown(t)'
<1> DEFINE z == sess[t]
           n == z.call.name
           p == z.prog
           op == z.call.op
<1>1. CASE z.at = "idle"
  BY <1>1 DEF ArgumentsKnown, ArgumentsPlace
<1>2. CASE z.at # "idle"
  <2>1. n \in Names /\ p \in Names \cup {Null} /\ z.nargs \in 0 .. MaxArgs
    BY <1>2, InCall DEF Session
  <2>2. ASSUME NEW x \in Names, <<"exists", x>> \in reads[t],
               <<"exists", x>> \notin stale'[t]
        PROVE  SameRows(x) /\ <<"exists", x>> \notin stale[t]
    BY <2>2 DEF Accounted
  <2>3. ASSUME NEW x \in Names, <<"exists", x>> \in reads[t],
               <<"exists", x>> \notin stale'[t],
               <<"enabled", x>> \in reads[t], <<"enabled", x>> \notin stale'[t]
        PROVE  progs'[x].enabled = progs[x].enabled /\ <<"enabled", x>> \notin stale[t]
    BY <2>3 DEF Accounted
  <2>4. ASSUME NEW x \in Names, <<"arguments", x>> \in reads[t],
               <<"arguments", x>> \notin stale'[t]
        PROVE  /\ jargs'[x] = jargs[x] /\ pargs'[x] = pargs[x]
               /\ <<"arguments", x>> \notin stale[t]
    BY <2>4 DEF Accounted
  <2>5. ArgumentsPlace(z)' BY DEF ArgumentsKnown, ArgumentsPlace, SetsValue
  <2>6. (z.at = "write" /\ op = "define_program_argument" =>
             Knows(t, <<"exists", n>>,
                   progs[n].there /\ z.call.num \in 1 .. progs[n].nargs))'
    <3> SUFFICES ASSUME z.at = "write", op = "define_program_argument"
                 PROVE  /\ <<"exists", n>> \in reads[t]
                        /\ \/ <<"exists", n>> \in stale'[t]
                           \/ progs'[n].there /\ z.call.num \in 1 .. progs'[n].nargs
      BY DEF Knows
    <3>1. Knows(t, <<"exists", n>>,
                progs[n].there /\ z.call.num \in 1 .. progs[n].nargs)
      BY DEF ArgumentsKnown
    <3> HIDE DEF z, n
    <3> QED BY <2>1, <2>2, <3>1 DEF Knows, SameRows
  <2>7. (z.at \in {"program", "argument_name", "write"} /\ SetsValue(z.call) =>
             Knows(t, <<"exists", n>>,
                   /\ jobs[n].there /\ jobs[n].prog = p
                   /\ p = Null => z.pos \in 1 .. jobs[n].nargs))'
    <3> SUFFICES ASSUME z.at \in {"program", "argument_name", "write"}, SetsValue(z.call)
                 PROVE  /\ <<"exists", n>> \in reads[t]
                        /\ \/ <<"exists", n>> \in stale'[t]
                           \/ /\ jobs'[n].there /\ jobs'[n].prog = p
                              /\ p = Null => z.pos \in 1 .. jobs'[n].nargs
      BY DEF Knows, SetsValue
    <3>1. Knows(t, <<"exists", n>>,
                /\ jobs[n].there /\ jobs[n].prog = p
                /\ p = Null => z.pos \in 1 .. jobs[n].nargs)
      BY DEF ArgumentsKnown
    <3> HIDE DEF z, n, p
    <3> QED BY <2>1, <2>2, <3>1 DEF Knows, SameRows
  <2>8. (z.at \in {"program", "arguments", "loaded"} /\ op = "load" =>
             Knows(t, <<"exists", n>>,
                   /\ jobs[n].there /\ jobs[n].prog = p
                   /\ p = Null => z.nargs = jobs[n].nargs /\ z.act = jobs[n].act))'
    <3> SUFFICES ASSUME z.at \in {"program", "arguments", "loaded"}, op = "load"
                 PROVE  /\ <<"exists", n>> \in reads[t]
                        /\ \/ <<"exists", n>> \in stale'[t]
                           \/ /\ jobs'[n].there /\ jobs'[n].prog = p
                              /\ p = Null => z.nargs = jobs'[n].nargs /\ z.act = jobs'[n].act
      BY DEF Knows
    <3>1. Knows(t, <<"exists", n>>,
                /\ jobs[n].there /\ jobs[n].prog = p
                /\ p = Null => z.nargs = jobs[n].nargs /\ z.act = jobs[n].act)
      BY DEF ArgumentsKnown
    <3> HIDE DEF z, n, p
    <3> QED BY <2>1, <2>2, <3>1 DEF Knows, SameRows
  <2>9. (z.at \in {"arguments", "loaded"} /\ op = "load" /\ p # Null =>
             /\ Knows(t, <<"exists", p>>,
                      progs[p].there /\ z.nargs = progs[p].nargs /\ z.act = progs[p].act)
             /\ Knows(t, <<"enabled", p>>,
                      progs[p].enabled \/ <<"exists", p>> \in stale[t]))'
    <3> SUFFICES ASSUME z.at \in {"arguments", "loaded"}, op = "load", p # Null
                 PROVE  /\ <<"exists", p>> \in reads[t] /\ <<"enabled", p>> \in reads[t]
                        /\ \/ <<"exists", p>> \in stale'[t]
                           \/ /\ progs'[p].there /\ z.nargs = progs'[p].nargs
                              /\ z.act = progs'[p].act
                        /\ \/ <<"enabled", p>> \in stale'[t] \/ progs'[p].enabled
                           \/ <<"exists", p>> \in stale'[t]
      BY DEF Knows
    <3>1. /\ Knows(t, <<"exists", p>>,
                   progs[p].there /\ z.nargs = progs[p].nargs /\ z.act = progs[p].act)
          /\ Knows(t, <<"enabled", p>>,
                   progs[p].enabled \/ <<"exists", p>> \in stale[t])
      BY DEF ArgumentsKnown
    <3>2. p \in Names BY <2>1
    <3> HIDE DEF z, p
    <3> QED BY <2>2, <2>3, <3>1, <3>2 DEF Knows, SameRows
  <2>10. (z.at = "loaded" =>
             /\ \A x \in {n, p} \ {Null} : <<"arguments", x>> \in reads[t]
             /\ \/ \E x \in {n, p} \ {Null} : <<"arguments", x>> \in stale[t]
                \/ \A i \in Positions :
                     IF i \in 1 .. z.nargs
                     THEN HasValue(n, p, i) /\ z.vals[i] = LoadedValue(n, p, i)
                     ELSE z.vals[i] = Null)'
    <3> SUFFICES ASSUME z.at = "loaded",
                        \A x \in {n, p} \ {Null} : <<"arguments", x>> \notin stale'[t]
                 PROVE  \A i \in Positions :
                          (IF i \in 1 .. z.nargs
                           THEN HasValue(n, p, i) /\ z.vals[i] = LoadedValue(n, p, i)
                           ELSE z.vals[i] = Null)'
      BY DEF ArgumentsKnown
    <3>1. \A x \in {n, p} \ {Null} : <<"arguments", x>> \in reads[t]
      BY DEF ArgumentsKnown
    <3>2. \A x \in {n, p} \ {Null} : x \in Names BY <2>1
    <3>3. \A x \in {n, p} \ {Null} :
            /\ jargs'[x] = jargs[x] /\ pargs'[x] = pargs[x]
            /\ <<"arguments", x>> \notin stale[t]
      BY <2>4, <3>1, <3>2
    <3>4. \A i \in Positions :
            IF i \in 1 .. z.nargs
            THEN HasValue(n, p, i) /\ z.vals[i] = LoadedValue(n, p, i)
            ELSE z.vals[i] = Null
      BY <3>3 DEF ArgumentsKnown
    <3>5. n # Null BY <2>1, CatalogAssumption
    <3>6. jargs'[n] = jargs[n] BY <3>3, <3>5
    <3>7. \A i \in Positions : DefaultOf(p, i)' = DefaultOf(p, i)
      BY <3>3 DEF DefaultOf
    <3>8. \A i \in Positions : /\ HasValue(n, p, i)' = HasValue(n, p, i)
                               /\ LoadedValue(n, p, i)' = LoadedValue(n, p, i)
      BY <3>6, <3>7 DEF HasValue, LoadedValue
    <3> QED BY <3>4, <3>8
  <2> QED BY <2>5, <2>6, <2>7, <2>8, <2>9, <2>10 DEF ArgumentsKnown
<1> QED BY <1>1, <1>2

(* A query leaves the tables and the other calls alone.                      *)
LEMMA QueryKeepsArguments ==
    ASSUME TypeOK, ArgumentsInv, NEW s \in Sessions, NEW next, NEW items,
           Query(s, next, items),
           (/\ sess'[s] = next /\ reads'[s] = reads[s] \cup items
            /\ UNCHANGED <<jobs, progs, scheds, pargs, jargs, stale>>)
             => ArgumentsKnown(s)'
    PROVE  ArgumentsInv'
<1>1. /\ sess'[s] = next /\ reads'[s] = reads[s] \cup items
      /\ \A t \in Sessions \ {s} : sess'[t] = sess[t] /\ reads'[t] = reads[t]
      /\ UNCHANGED <<jobs, progs, scheds, pargs, jargs, stale, raced>>
  BY DEF Query, TypeOK, catalog
<1>2. ASSUME NEW t \in Sessions PROVE ArgumentsKnown(t)'
  <2>1. CASE t = s BY <1>1, <2>1
  <2>2. CASE t # s
    <3>1. ArgumentsKnown(t) BY DEF ArgumentsInv
    <3>2. stale'[t] = stale[t] \cup (reads[t] \cap {}) BY <1>1
    <3>3. Accounted({}) BY <1>1 DEF Accounted, SameRows
    <3>4. sess'[t] = sess[t] /\ reads'[t] = reads[t] BY <1>1, <2>2
    <3> QED BY <3>1, <3>2, <3>3, <3>4, OthersKnowArguments
  <2> QED BY <2>1, <2>2
<1>3. ArgumentsInRange' BY <1>1 DEF ArgumentsInv, ArgumentsInRange
<1>4. \A n \in Names, i \in Positions : ~jargs'[n][i].there => jargs'[n][i].val = Null
  BY <1>1 DEF ArgumentsInv
<1> QED BY <1>2, <1>3, <1>4 DEF ArgumentsInv

(* The queries of calls that do not deal with arguments.                     *)
LEMMA OtherQueriesKeepArguments ==
    ASSUME TypeOK, CatalogInv, ArgumentsInv, NEW s \in Sessions,
           \/ QueryKind(s) \/ QueryProgramRef(s) \/ QueryScheduleRef(s)
           \/ QuerySchedule(s) \/ QueryDependents(s)
    PROVE  ArgumentsInv'
<1>1. sess[s].at \in {"kind", "program_ref", "schedule_ref", "schedule", "dependents"}
  BY DEF QueryKind, QueryProgramRef, QueryScheduleRef, QuerySchedule, QueryDependents
<1>2. sess[s].call.op \notin {"define_program_argument", "load"} /\ ~SetsValue(sess[s].call)
  <2>1. PlaceFits(sess[s]) BY DEF CatalogInv, CallKnows
  <2>2. ArgumentsPlace(sess[s]) BY DEF ArgumentsInv, ArgumentsKnown
  <2> QED BY <1>1, <2>1, <2>2 DEF PlaceFits, ArgumentsPlace, SetsValue
<1>3. ASSUME NEW next, NEW items, Query(s, next, items), next.call = sess[s].call,
             next.at # "loaded"
      PROVE  ArgumentsInv'
  <2>1. sess'[s] = next => ArgumentsKnown(s)'
    <3> SUFFICES ASSUME sess'[s] = next PROVE ArgumentsKnown(s)' OBVIOUS
    <3>1. /\ sess'[s].call.op \notin {"define_program_argument", "load"}
          /\ ~SetsValue(sess'[s].call)
      BY <1>2, <1>3
    <3>2. ArgumentsPlace(sess'[s]) BY <1>3, <3>1 DEF ArgumentsPlace
    <3> QED BY <1>3, <3>1, <3>2 DEF ArgumentsKnown
  <2> QED BY <1>3, <2>1, QueryKeepsArguments
<1>4. sess[s] \in Session BY <1>1, InCall
<1> DEFINE z == sess[s]
           c == z.call
           k == Kind(c.name)
<1>5. CASE QueryKind(s)
  <2> DEFINE next == [z EXCEPT !.at = AfterKind(c, k), !.kind = k,
                               !.prog = IF c.op = "enable" THEN c.name ELSE c.prog,
                               !.sched = c.sched]
  <2>1. z.at = "kind" /\ Query(s, next, {<<"exists", c.name>>}) BY <1>5 DEF QueryKind
  <2>2. next.call = c /\ next.at = AfterKind(c, k) BY <1>4 DEF Session
  <2>3. AfterKind(c, k) # "loaded"
    BY DEF AfterKind
  <2>4. next.at # "loaded" /\ next.call = sess[s].call BY <2>2, <2>3
  <2> HIDE DEF next
  <2> QED BY <1>3, <2>1, <2>4
<1>6. CASE QueryProgramRef(s)
  <2> DEFINE next == [z EXCEPT !.at = "schedule_ref"]
  <2>1. z.at = "program_ref" /\ Query(s, next, {<<"exists", z.prog>>})
    BY <1>6 DEF QueryProgramRef
  <2>2. next.call = c /\ next.at = "schedule_ref" BY <1>4 DEF Session
  <2> HIDE DEF next
  <2> QED BY <1>3, <2>1, <2>2
<1>7. CASE QueryScheduleRef(s)
  <2> DEFINE next == [z EXCEPT !.at = IF c.flag THEN "program" ELSE "write"]
  <2>1. z.at = "schedule_ref" /\ Query(s, next, {<<"exists", z.sched>>})
    BY <1>7 DEF QueryScheduleRef
  <2>2. next.call = c /\ next.at \in {"program", "write"} BY <1>4 DEF Session
  <2> HIDE DEF next
  <2> QED BY <1>3, <2>1, <2>2
<1>8. CASE QuerySchedule(s)
  <2> DEFINE next == [z EXCEPT !.at = "arguments"]
  <2>1. z.at = "schedule" /\ Query(s, next, {<<"exists", z.sched>>})
    BY <1>8 DEF QuerySchedule
  <2>2. next.call = c /\ next.at = "arguments" BY <1>4 DEF Session
  <2> HIDE DEF next
  <2> QED BY <1>3, <2>1, <2>2
<1>9. CASE QueryDependents(s)
  <2> DEFINE deps == \E j \in Names : DependsOn(j, c.name, c.op)
             next == [z EXCEPT !.at = "write", !.deps = deps]
  <2>1. z.at = "dependents" /\ Query(s, next, {<<"dependents", c.name>>})
    BY <1>9 DEF QueryDependents
  <2> HIDE DEF deps
  <2>2. next.call = c /\ next.at = "write" BY <1>4 DEF Session
  <2> HIDE DEF next
  <2> QED BY <1>3, <2>1, <2>2
<1> QED BY <1>5, <1>6, <1>7, <1>8, <1>9

(* The job row: its references and, of an inline job, count and action.      *)
LEMMA QueryJobKeepsArguments ==
    ASSUME TypeOK, CatalogInv, ArgumentsInv, NEW s \in Sessions, QueryJob(s)
    PROVE  ArgumentsInv'
<1> DEFINE z == sess[s]
           c == z.call
           n == c.name
           j == jobs[n]
           w == IF j.prog # Null THEN "program"
                ELSE IF c.op \in {"enable", "load"} THEN "arguments" ELSE "write"
           next == [z EXCEPT !.at = w, !.prog = j.prog, !.sched = j.sched,
                             !.nargs = j.nargs, !.act = j.act]
           items == {<<"exists", n>>}
<1>1. /\ z.at = "job" /\ j.there /\ Query(s, next, items)
      /\ w = "write" => c.op = "set_job_argument_value_pos" /\ z.pos \in 1 .. j.nargs
  BY DEF QueryJob
<1>2. z \in Session BY <1>1, InCall
<1>3. /\ next.at = w /\ next.call = c /\ next.prog = j.prog /\ next.pos = z.pos
      /\ next.nargs = j.nargs /\ next.act = j.act
  <2> HIDE DEF z, w, j
  <2> QED BY <1>2 DEF Session
<1>4. c.op # "define_program_argument"
  BY <1>1 DEF ArgumentsInv, ArgumentsKnown, ArgumentsPlace
<1>5. /\ w \in {"program", "arguments", "write"}
      /\ w = "program" <=> j.prog # Null
      /\ w = "arguments" => c.op \in {"enable", "load"}
  OBVIOUS
<1> HIDE DEF next, items, w
<1>6. ASSUME sess'[s] = next, <<"exists", n>> \in reads'[s], UNCHANGED <<jobs, progs>>
      PROVE  ArgumentsKnown(s)'
  <2>1. ArgumentsPlace(sess[s])'
    BY <1>1, <1>3, <1>4, <1>5, <1>6 DEF ArgumentsPlace, SetsValue
  <2>2. /\ sess'[s].call.name = n /\ sess'[s].call = c /\ sess'[s].prog = j.prog
        /\ sess'[s].pos = z.pos /\ sess'[s].nargs = j.nargs /\ sess'[s].act = j.act
        /\ sess'[s].at = w /\ jobs'[n] = j
    BY <1>3, <1>6
  <2>3. w # "loaded" /\ (w = "arguments" => j.prog = Null) BY <1>5
  <2> HIDE DEF j, c, n, z
  <2> QED BY <1>1, <1>4, <1>5, <1>6, <2>1, <2>2, <2>3 DEF ArgumentsKnown, Knows, SetsValue
<1>7. <<"exists", n>> \in items BY DEF items
<1> QED BY <1>1, <1>6, <1>7, QueryKeepsArguments

(* The program row: its count and action, and that it is enabled.            *)
LEMMA QueryProgramKeepsArguments ==
    ASSUME TypeOK, CatalogInv, ArgumentsInv, NEW s \in Sessions, QueryProgram(s)
    PROVE  ArgumentsInv'
<1> DEFINE z == sess[s]
           c == z.call
           n == c.name
           p == z.prog
           r == progs[p]
           w == AfterProgram(c, z.kind)
           next == [z EXCEPT !.at = w, !.nargs = r.nargs, !.act = r.act]
           items == {<<"exists", p>>, <<"enabled", p>>}
<1>1. /\ z.at = "program" /\ r.there /\ Query(s, next, items)
      /\ NeedsEnabled(c, z.kind) => r.enabled
      /\ InRange(c, z.pos, r.nargs)
  BY DEF QueryProgram
<1>2. z \in Session /\ p # Null BY <1>1, InCall DEF TypeOK
<1>3. /\ next.at = w /\ next.call = c /\ next.prog = p /\ next.pos = z.pos
      /\ next.nargs = r.nargs /\ next.act = r.act
  <2> HIDE DEF z, w, r
  <2> QED BY <1>2 DEF Session
<1>4. /\ w \in {"schedule", "arguments", "argument_name", "write"}
      /\ w = "schedule" => c.op \in {"create_job", "enable"}
      /\ w = "arguments" => c.op \in {"load", "enable"}
      /\ w = "argument_name" => c.op = "set_job_argument_value_name"
      /\ w = "write" => c.op # "load"
  BY DEF AfterProgram
<1>5. c.op = "load" => r.enabled BY <1>1 DEF NeedsEnabled
<1>6. c.op = "define_program_argument" => n = p /\ z.pos = c.num /\ c.num \in 1 .. r.nargs
  BY <1>1 DEF ArgumentsInv, ArgumentsKnown, ArgumentsPlace, InRange
<1>7. ArgumentsKnown(s) BY DEF ArgumentsInv
<1> HIDE DEF next, items, w
<1>8. ASSUME sess'[s] = next, items \subseteq reads'[s], reads[s] \subseteq reads'[s],
             UNCHANGED <<jobs, progs, stale>>
      PROVE  ArgumentsKnown(s)'
  <2>1. ArgumentsPlace(sess[s])'
    BY <1>3, <1>4, <1>6, <1>8 DEF ArgumentsPlace, SetsValue
  <2>2. /\ sess'[s].call.name = n /\ sess'[s].call = c /\ sess'[s].prog = p
        /\ sess'[s].pos = z.pos /\ sess'[s].nargs = r.nargs /\ sess'[s].act = r.act
        /\ sess'[s].at = w /\ progs'[p] = r
        /\ <<"exists", p>> \in reads'[s] /\ <<"enabled", p>> \in reads'[s]
    BY <1>3, <1>8 DEF items
  <2>3. w # "loaded" BY <1>4
  <2>4. w = "write" /\ c.op = "define_program_argument" =>
             /\ <<"exists", n>> \in reads'[s]
             /\ progs'[n].there /\ c.num \in 1 .. progs'[n].nargs
    BY <1>1, <1>6, <2>2
  <2>5. SetsValue(c) =>
             /\ <<"exists", n>> \in reads'[s]
             /\ <<"exists", n>> \in stale'[s] \/ (jobs'[n].there /\ jobs'[n].prog = p)
    <3>1. SetsValue(c) => Knows(s, <<"exists", n>>,
                   /\ jobs[n].there /\ jobs[n].prog = p
                   /\ p = Null => z.pos \in 1 .. jobs[n].nargs)
      BY <1>1, <1>7 DEF ArgumentsKnown
    <3> HIDE DEF n, p, z, c
    <3> QED BY <1>8, <3>1 DEF Knows
  <2>6. c.op = "load" =>
             /\ <<"exists", n>> \in reads'[s]
             /\ <<"exists", n>> \in stale'[s] \/ (jobs'[n].there /\ jobs'[n].prog = p)
    <3>1. c.op = "load" => Knows(s, <<"exists", n>>,
                   /\ jobs[n].there /\ jobs[n].prog = p
                   /\ p = Null => z.nargs = jobs[n].nargs /\ z.act = jobs[n].act)
      BY <1>1, <1>7 DEF ArgumentsKnown
    <3> HIDE DEF n, p, z, c
    <3> QED BY <1>8, <3>1 DEF Knows
  <2> HIDE DEF n, p, z, c, r
  <2> QED BY <1>1, <1>2, <1>4, <1>5, <2>1, <2>2, <2>3, <2>4, <2>5, <2>6
          DEF ArgumentsKnown, Knows
<1> QED BY <1>1, <1>8, QueryKeepsArguments

(* The arguments: every one of those used has a value, and a run takes them. *)
LEMMA QueryArgumentsKeepsArguments ==
    ASSUME TypeOK, CatalogInv, ArgumentsInv, NEW s \in Sessions, QueryArguments(s)
    PROVE  ArgumentsInv'
<1> DEFINE z == sess[s]
           c == z.call
           n == c.name
           p == z.prog
           w == IF c.op = "load" THEN "loaded" ELSE "write"
           v == [i \in Positions |-> IF c.op = "load" /\ i \in 1 .. z.nargs
                                     THEN LoadedValue(n, p, i) ELSE Null]
           next == [z EXCEPT !.at = w, !.vals = v]
           items == {<<"arguments", x>> : x \in {n, p} \ {Null}}
<1>1. z.at = "arguments" /\ Query(s, next, items)
  BY DEF QueryArguments
<1>2. z \in Session BY <1>1, InCall
<1>3. ArgumentsKnown(s) BY DEF ArgumentsInv
<1>4. c.op # "define_program_argument" /\ ~SetsValue(c)
  BY <1>1, <1>3 DEF ArgumentsKnown, ArgumentsPlace
<1>5. c.op = "load" => \A i \in 1 .. z.nargs : HasValue(n, p, i)
  BY DEF QueryArguments
<1>6. /\ next.at = w /\ next.call = c /\ next.prog = p /\ next.pos = z.pos
      /\ next.nargs = z.nargs /\ next.act = z.act /\ next.vals = v
  <2> HIDE DEF z, w, v
  <2> QED BY <1>2 DEF Session
<1>7. \A x \in {n, p} \ {Null} : <<"arguments", x>> \in items OBVIOUS
<1>8. c.op = "load" => \A i \in Positions :
        IF i \in 1 .. z.nargs
        THEN HasValue(n, p, i) /\ v[i] = LoadedValue(n, p, i) ELSE v[i] = Null
  BY <1>5
<1>9. w \in {"loaded", "write"} /\ (w = "loaded" <=> c.op = "load") OBVIOUS
<1> HIDE DEF next, items, w, v
<1>10. ASSUME sess'[s] = next, items \subseteq reads'[s], reads[s] \subseteq reads'[s],
              UNCHANGED <<jobs, progs, pargs, jargs, stale>>
       PROVE  ArgumentsKnown(s)'
  <2>1. /\ sess'[s].call.name = n /\ sess'[s].call = c /\ sess'[s].prog = p
        /\ sess'[s].nargs = z.nargs /\ sess'[s].act = z.act
        /\ sess'[s].at = w /\ sess'[s].vals = v
    BY <1>6, <1>10
  <2>2. ArgumentsPlace(sess'[s])
    BY <1>4, <1>9, <2>1 DEF ArgumentsPlace
  <2>3. c.op = "load" => Knows(s, <<"exists", n>>,
             /\ jobs[n].there /\ jobs[n].prog = p
             /\ p = Null => z.nargs = jobs[n].nargs /\ z.act = jobs[n].act)
    BY <1>1, <1>3 DEF ArgumentsKnown
  <2>4. c.op = "load" /\ p # Null =>
             /\ Knows(s, <<"exists", p>>,
                      progs[p].there /\ z.nargs = progs[p].nargs /\ z.act = progs[p].act)
             /\ Knows(s, <<"enabled", p>>, progs[p].enabled \/ <<"exists", p>> \in stale[s])
    BY <1>1, <1>3 DEF ArgumentsKnown
  <2>5. /\ \A i \in Positions : /\ HasValue(n, p, i)' = HasValue(n, p, i)
                                /\ LoadedValue(n, p, i)' = LoadedValue(n, p, i)
        /\ \A x \in {n, p} \ {Null} : <<"arguments", x>> \in reads'[s]
    BY <1>7, <1>10, <2>1 DEF HasValue, LoadedValue, DefaultOf
  <2>6. ASSUME w = "loaded", NEW i \in Positions
        PROVE  IF i \in 1 .. sess'[s].nargs
               THEN /\ HasValue(sess[s].call.name, sess[s].prog, i)'
                    /\ sess'[s].vals[i] = LoadedValue(sess[s].call.name, sess[s].prog, i)'
               ELSE sess'[s].vals[i] = Null
    <3> QED BY <1>8, <1>9, <2>1, <2>5, <2>6
  <2>7. (sess[s].at = "loaded" =>
             /\ \A x \in {sess[s].call.name, sess[s].prog} \ {Null} :
                   <<"arguments", x>> \in reads[s]
             /\ \/ \E x \in {sess[s].call.name, sess[s].prog} \ {Null} :
                      <<"arguments", x>> \in stale[s]
                \/ \A i \in Positions :
                     IF i \in 1 .. sess[s].nargs
                     THEN /\ HasValue(sess[s].call.name, sess[s].prog, i)
                          /\ sess[s].vals[i] = LoadedValue(sess[s].call.name, sess[s].prog, i)
                     ELSE sess[s].vals[i] = Null)'
    BY <2>1, <2>5, <2>6
  <2>8. /\ sess'[s].call.op = "load" => /\ <<"exists", n>> \in reads'[s]
             /\ \/ <<"exists", n>> \in stale'[s]
                \/ /\ jobs'[n].there /\ jobs'[n].prog = p
                   /\ p = Null => z.nargs = jobs'[n].nargs /\ z.act = jobs'[n].act
        /\ sess'[s].call.op = "load" /\ p # Null =>
             /\ <<"exists", p>> \in reads'[s] /\ <<"enabled", p>> \in reads'[s]
             /\ \/ <<"exists", p>> \in stale'[s]
                \/ /\ progs'[p].there /\ z.nargs = progs'[p].nargs
                   /\ z.act = progs'[p].act
             /\ \/ <<"enabled", p>> \in stale'[s] \/ progs'[p].enabled
                \/ <<"exists", p>> \in stale'[s]
    <3> HIDE DEF n, p, z, c
    <3> QED BY <1>10, <2>1, <2>3, <2>4 DEF Knows
  <2> HIDE DEF n, p, z, c
  <2> QED BY <1>4, <1>9, <2>1, <2>2, <2>7, <2>8 DEF ArgumentsKnown, Knows
<1> QED BY <1>1, <1>10, QueryKeepsArguments

(* SET_JOB_ARGUMENT_VALUE by name: the job has a program.                    *)
LEMMA QueryArgumentNameKeepsArguments ==
    ASSUME TypeOK, CatalogInv, ArgumentsInv, NEW s \in Sessions, QueryArgumentName(s)
    PROVE  ArgumentsInv'
<1> DEFINE z == sess[s]
           c == z.call
           n == c.name
           p == z.prog
           items == {<<"arguments", p>>}
<1>1. PICK i \in Positions : /\ z.at = "argument_name"
                             /\ Query(s, [z EXCEPT !.at = "write", !.pos = i], items)
  BY DEF QueryArgumentName
<1> DEFINE next == [z EXCEPT !.at = "write", !.pos = i]
<1>2. z \in Session /\ p # Null BY <1>1, InCall DEF TypeOK
<1>3. ArgumentsKnown(s) /\ PlaceFits(z) BY DEF ArgumentsInv, CatalogInv, CallKnows
<1>4. c.op = "set_job_argument_value_name"
  BY <1>1, <1>3 DEF PlaceFits
<1>5. next.at = "write" /\ next.call = c /\ next.prog = p
  <2> HIDE DEF z
  <2> QED BY <1>2 DEF Session
<1>6. Query(s, next, items) BY <1>1
<1> HIDE DEF next, items
<1>7. ASSUME sess'[s] = next, reads[s] \subseteq reads'[s], UNCHANGED <<jobs, progs, stale>>
      PROVE  ArgumentsKnown(s)'
  <2>1. sess'[s].call = c /\ sess'[s].prog = p /\ sess'[s].at = "write"
    BY <1>5, <1>7
  <2>2. ArgumentsPlace(sess'[s]) BY <1>4, <2>1 DEF ArgumentsPlace
  <2>3. Knows(s, <<"exists", n>>, /\ jobs[n].there /\ jobs[n].prog = p
                                  /\ p = Null => z.pos \in 1 .. jobs[n].nargs)
    BY <1>1, <1>3, <1>4 DEF ArgumentsKnown, SetsValue
  <2>4. /\ <<"exists", n>> \in reads'[s]
        /\ <<"exists", n>> \in stale'[s] \/ (jobs'[n].there /\ jobs'[n].prog = p)
    <3> HIDE DEF n, p, z, c
    <3> QED BY <1>7, <2>3 DEF Knows
  <2>5. sess'[s].call.name = n BY <2>1
  <2> HIDE DEF n, p, z, c
  <2> QED BY <1>2, <1>4, <2>1, <2>2, <2>4, <2>5 DEF ArgumentsKnown, Knows
<1> QED BY <1>6, <1>7, QueryKeepsArguments

(* A call begins knowing nothing.                                            *)
LEMMA BeginKeepsArguments ==
    ASSUME TypeOK, ArgumentsInv, NEW s \in Sessions, NEW c \in workload, Begin(s, c)
    PROVE  ArgumentsInv'
<1> DEFINE w == FirstQuery(c.op)
           q == IF w = "program" THEN c.name ELSE Null
           next == [Idle EXCEPT !.at = w, !.call = c, !.prog = q, !.pos = c.num]
<1>1. /\ sess' = [sess EXCEPT ![s] = next]
      /\ UNCHANGED <<jobs, progs, scheds, pargs, jargs, reads, stale, raced>>
  BY DEF Begin, catalog
<1>2. next.at = w /\ next.call = c /\ next.prog = q /\ next.pos = c.num
  <2> HIDE DEF w, q
  <2> QED BY DEF Idle
<1>3. /\ w \in {"program", "job", "write", "kind"}
      /\ w = "program" => c.op \in {"define_program_argument", "drop_program_argument_pos",
                                    "drop_program_argument_name"}
      /\ w = "program" => q = c.name
      /\ w = "job" => c.op \in {"set_job_argument_value_pos",
                                "set_job_argument_value_name", "load"}
      /\ w = "write" => c.op = "drop_job"
      /\ w = "kind" => c.op # "define_program_argument" /\ c.op # "load" /\ ~SetsValue(c)
  BY DEF FirstQuery, SetsValue
<1>4. sess'[s] = next /\ \A t \in Sessions \ {s} : sess'[t] = sess[t]
  BY <1>1 DEF TypeOK
<1> HIDE DEF w, q, next
<1>5. ArgumentsKnown(s)'
  <2>1. sess'[s].at = w /\ sess'[s].call = c /\ sess'[s].prog = q /\ sess'[s].pos = c.num
    BY <1>2, <1>4
  <2>2. ArgumentsPlace(sess'[s]) BY <1>3, <2>1 DEF ArgumentsPlace
  <2> QED BY <1>3, <2>1, <2>2 DEF ArgumentsKnown, SetsValue
<1>6. ASSUME NEW t \in Sessions \ {s} PROVE ArgumentsKnown(t)'
  <2>1. ArgumentsKnown(t) BY DEF ArgumentsInv
  <2>2. stale'[t] = stale[t] \cup (reads[t] \cap {}) BY <1>1
  <2>3. Accounted({}) BY <1>1 DEF Accounted, SameRows
  <2>4. sess'[t] = sess[t] /\ reads'[t] = reads[t] BY <1>1, <1>4
  <2> QED BY <2>1, <2>2, <2>3, <2>4, OthersKnowArguments
<1>7. /\ ArgumentsInRange'
      /\ \A n \in Names, i \in Positions : ~jargs'[n][i].there => jargs'[n][i].val = Null
  BY <1>1 DEF ArgumentsInv, ArgumentsInRange
<1> QED BY <1>5, <1>6, <1>7 DEF ArgumentsInv

(* So it ends.                                                               *)
LEMMA EndKeepsArguments ==
    ASSUME TypeOK, ArgumentsInv, NEW s \in Sessions, Executed(s) \/ Abort(s)
    PROVE  ArgumentsInv'
<1>1. /\ sess'[s] = Idle
      /\ \A t \in Sessions \ {s} :
           sess'[t] = sess[t] /\ reads'[t] = reads[t] /\ stale'[t] = stale[t]
      /\ UNCHANGED <<jobs, progs, scheds, pargs, jargs, raced>>
  BY DEF Executed, Abort, TypeOK, catalog
<1>2. ArgumentsKnown(s)'
  <2>1. sess'[s].at = "idle" BY <1>1, IdleTyped
  <2> QED BY <2>1 DEF ArgumentsKnown, ArgumentsPlace
<1>3. ASSUME NEW t \in Sessions \ {s} PROVE ArgumentsKnown(t)'
  <2>1. ArgumentsKnown(t) BY DEF ArgumentsInv
  <2>2. stale'[t] = stale[t] \cup (reads[t] \cap {}) BY <1>1
  <2>3. Accounted({}) BY <1>1 DEF Accounted, SameRows
  <2>4. sess'[t] = sess[t] /\ reads'[t] = reads[t] BY <1>1
  <2> QED BY <2>1, <2>2, <2>3, <2>4, OthersKnowArguments
<1>4. /\ ArgumentsInRange'
      /\ \A n \in Names, i \in Positions : ~jargs'[n][i].there => jargs'[n][i].val = Null
  BY <1>1 DEF ArgumentsInv, ArgumentsInRange
<1> QED BY <1>2, <1>3, <1>4 DEF ArgumentsInv

(* The scheduler disables a job, which no call about arguments looks at.     *)
LEMMA RetireKeepsArguments ==
    ASSUME TypeOK, ArgumentsInv, NEW n \in Names, Retire(n)
    PROVE  ArgumentsInv'
<1>1. /\ jobs' = [jobs EXCEPT ![n].enabled = FALSE]
      /\ UNCHANGED <<progs, scheds, pargs, jargs, sess, reads, stale, raced>>
  BY DEF Retire
<1>2. ASSUME NEW x \in Names PROVE SameRows(x)
  <2>1. jobs[x] \in Job BY DEF TypeOK
  <2>2. jobs'[x] = jobs[x] \/ jobs'[x] = [jobs[x] EXCEPT !.enabled = FALSE]
    BY <1>1 DEF TypeOK
  <2>3. CASE jobs'[x] = jobs[x] BY <1>1, <2>3 DEF SameRows
  <2>4. CASE jobs'[x] = [jobs[x] EXCEPT !.enabled = FALSE]
    BY <1>1, <2>1, <2>4, EnabledAlone DEF SameRows
  <2> QED BY <2>2, <2>3, <2>4
<1>3. ASSUME NEW t \in Sessions PROVE ArgumentsKnown(t)'
  <2>1. ArgumentsKnown(t) BY DEF ArgumentsInv
  <2>2. stale'[t] = stale[t] \cup (reads[t] \cap {}) BY <1>1
  <2>3. Accounted({}) BY <1>1, <1>2 DEF Accounted
  <2>4. sess'[t] = sess[t] /\ reads'[t] = reads[t] BY <1>1
  <2> QED BY <2>1, <2>2, <2>3, <2>4, OthersKnowArguments
<1>4. /\ ArgumentsInRange'
      /\ \A x \in Names, i \in Positions : ~jargs'[x][i].there => jargs'[x][i].val = Null
  BY <1>1, <1>2 DEF ArgumentsInv, ArgumentsInRange, SameRows
<1> QED BY <1>3, <1>4 DEF ArgumentsInv

(* What the tables say of positions and of missing values.                   *)
TablesInRange ==
    /\ ArgumentsInRange
    /\ \A n \in Names, i \in Positions : ~jargs[n][i].there => jargs[n][i].val = Null

(* A write that leaves the arguments, and the references and counts of the   *)
(* objects that are there, keeps every argument in its range.                *)
LEMMA CountsKeepRange ==
    ASSUME TablesInRange, raced \subseteq raced', UNCHANGED <<pargs, jargs>>,
           \A x \in Names, i \in Positions :
               /\ pargs[x][i].there => progs'[x].nargs = progs[x].nargs
               /\ jargs[x][i].there => /\ jobs'[x].nargs = jobs[x].nargs
                                       /\ jobs'[x].prog = jobs[x].prog
    PROVE  TablesInRange'
BY DEF TablesInRange, ArgumentsInRange

(* Every write keeps every argument in its range.                            *)
LEMMA WritesKeepRange ==
    ASSUME TypeOK, CatalogInv, ArgumentsInv, NEW s \in Sessions, WriteStep(s)
    PROVE  TablesInRange'
<1> DEFINE z == sess[s]
           c == z.call
           n == c.name
<1>0. n \in Names /\ c \in Call /\ c.num \in 0 .. MaxArgs + 1 /\ z \in Session /\ z.at = "write"
  <2>1. z.at = "write"
    BY DEF WriteStep, CreateProgram, CreateSchedule, CreateJob, SetEnabled,
       DefineProgramArgument, DropProgramArgument, SetJobArgument, DropJob,
       DropProgram, DropSchedule, Writes
  <2> QED BY <2>1, InCall
<1>1. PICK touched : Commit(s, touched) /\ Accounted(touched) BY WritesAccounted
<1>2. raced' = raced \cup stale[s] BY <1>1, CommitFacts
<1>3. TablesInRange BY DEF ArgumentsInv, TablesInRange
<1>4. /\ jobs \in [Names -> Job] /\ progs \in [Names -> Program]
      /\ pargs \in [Names -> [Positions -> ProgramArg]]
      /\ jargs \in [Names -> [Positions -> JobArg]]
  BY DEF TypeOK
<1>5. ArgumentsOwned /\ ArgumentsKnown(s) BY DEF CatalogInv, ArgumentsInv
<1>6. CASE CreateProgram(s)
  <2>1. /\ ~progs[n].there /\ UNCHANGED <<jobs, pargs, jargs>>
        /\ \A x \in Names \ {n} : progs'[x] = progs[x]
    BY <1>4, <1>6 DEF CreateProgram
  <2>2. \A i \in Positions : ~pargs[n][i].there BY <1>0, <1>5, <2>1 DEF ArgumentsOwned
  <2> QED BY <1>2, <1>3, <2>1, <2>2, CountsKeepRange
<1>7. CASE CreateSchedule(s)
  <2>1. UNCHANGED <<jobs, progs, pargs, jargs>> BY <1>7 DEF CreateSchedule
  <2> QED BY <1>2, <1>3, <2>1, CountsKeepRange
<1>8. CASE CreateJob(s)
  <2>1. /\ ~jobs[n].there /\ UNCHANGED <<progs, pargs, jargs>>
        /\ \A x \in Names \ {n} : jobs'[x] = jobs[x]
    BY <1>4, <1>8 DEF CreateJob
  <2>2. \A i \in Positions : ~jargs[n][i].there BY <1>0, <1>5, <2>1 DEF ArgumentsOwned
  <2> QED BY <1>2, <1>3, <2>1, <2>2, CountsKeepRange
<1>9. CASE SetEnabled(s)
  <2>1. Commit(s, {<<"enabled", n>>}) /\ UNCHANGED <<pargs, jargs>> BY <1>9 DEF SetEnabled
  <2>2. PICK b \in BOOLEAN :
          /\ jobs' = jobs \/ jobs' = [jobs EXCEPT ![n].enabled = b]
          /\ progs' = progs \/ progs' = [progs EXCEPT ![n].enabled = b]
    <3>1. (c.op = "enable") \in BOOLEAN OBVIOUS
    <3> QED BY <1>9, <3>1 DEF SetEnabled
  <2>3. ASSUME NEW x \in Names
        PROVE  jobs'[x].nargs = jobs[x].nargs /\ jobs'[x].prog = jobs[x].prog
    <3>1. jobs[x] \in Job BY <1>4
    <3>2. jobs'[x] = jobs[x] \/ jobs'[x] = [jobs[x] EXCEPT !.enabled = b] BY <1>4, <2>2
    <3>3. CASE jobs'[x] = [jobs[x] EXCEPT !.enabled = b] BY <3>1, <3>3, EnabledAlone
    <3> QED BY <3>2, <3>3
  <2>4. ASSUME NEW x \in Names PROVE progs'[x].nargs = progs[x].nargs
    <3>1. progs[x] \in Program BY <1>4
    <3>2. progs'[x] = progs[x] \/ progs'[x] = [progs[x] EXCEPT !.enabled = b] BY <1>4, <2>2
    <3>3. CASE progs'[x] = [progs[x] EXCEPT !.enabled = b] BY <3>1, <3>3, EnabledAloneProgram
    <3> QED BY <3>2, <3>3
  <2> QED BY <1>2, <1>3, <2>1, <2>3, <2>4, CountsKeepRange
<1>10. CASE DefineProgramArgument(s)
  <2> DEFINE a == [there |-> TRUE, arg |-> c.arg, val |-> c.val, dflt |-> c.flag]
  <2>1. /\ c.op = "define_program_argument" /\ UNCHANGED <<jobs, progs, jargs>>
        /\ pargs' = [pargs EXCEPT ![n][c.num] = a]
    BY <1>10 DEF DefineProgramArgument, Writes
  <2>2. Knows(s, <<"exists", n>>, progs[n].there /\ c.num \in 1 .. progs[n].nargs)
    BY <1>0, <1>5, <2>1 DEF ArgumentsKnown
  <2> HIDE DEF a
  <2>3. \A x \in Names, i \in Positions : pargs'[x][i].there =>
          pargs[x][i].there \/ (x = n /\ i = c.num)
    BY <1>0, <1>4, <2>1
  <2>4. <<"exists", n>> \notin raced' => c.num <= progs[n].nargs
    <3>1. progs[n].nargs \in Nat BY <1>0, <1>4 DEF Program
    <3> QED BY <1>2, <2>2, <3>1 DEF Knows
  <2> HIDE DEF n, c, z
  <2> QED BY <1>2, <1>3, <2>1, <2>3, <2>4 DEF TablesInRange, ArgumentsInRange
<1>11. CASE DropProgramArgument(s)
  <2>1. UNCHANGED <<jobs, progs, jargs>> BY <1>11 DEF DropProgramArgument
  <2>2. \A x \in Names, i \in Positions : pargs'[x][i].there => pargs[x][i].there
    <3> DEFINE gone == {i \in Positions :
                          /\ pargs[n][i].there
                          /\ IF c.op = "drop_program_argument_pos" THEN i = c.num
                             ELSE pargs[n][i].arg = c.arg}
               f == [i \in Positions |-> IF i \in gone THEN NoProgramArg ELSE pargs[n][i]]
    <3>1. pargs' = [pargs EXCEPT ![n] = f] BY <1>11 DEF DropProgramArgument
    <3>2. \A i \in Positions : f[i] = NoProgramArg \/ f[i] = pargs[n][i] OBVIOUS
    <3>3. ~NoProgramArg.there BY DEF NoProgramArg
    <3> HIDE DEF f
    <3> QED BY <1>0, <1>4, <3>1, <3>2, <3>3
  <2> QED BY <1>2, <1>3, <2>1, <2>2 DEF TablesInRange, ArgumentsInRange
<1>12. CASE SetJobArgument(s)
  <2> DEFINE a == [there |-> TRUE, val |-> c.val]
  <2>1. /\ SetsValue(c) /\ UNCHANGED <<jobs, progs, pargs>>
        /\ jargs' = [jargs EXCEPT ![n][z.pos] = a]
    BY <1>12 DEF SetJobArgument, Writes, SetsValue
  <2>2. Knows(s, <<"exists", n>>, /\ jobs[n].there /\ jobs[n].prog = z.prog
                                  /\ z.prog = Null => z.pos \in 1 .. jobs[n].nargs)
    BY <1>0, <1>5, <2>1 DEF ArgumentsKnown
  <2>3. a.there = TRUE OBVIOUS
  <2> HIDE DEF a
  <2>4. \A x \in Names, i \in Positions :
          jargs'[x][i] = jargs[x][i] \/ (x = n /\ i = z.pos /\ jargs'[x][i] = a)
    BY <1>0, <1>4, <2>1
  <2>5. <<"exists", n>> \notin raced' /\ jobs[n].prog = Null => z.pos <= jobs[n].nargs
    <3>1. jobs[n].nargs \in Nat BY <1>0, <1>4 DEF Job
    <3> QED BY <1>2, <2>2, <3>1 DEF Knows
  <2> HIDE DEF n, c, z
  <2> QED BY <1>2, <1>3, <2>1, <2>3, <2>4, <2>5 DEF TablesInRange, ArgumentsInRange
<1>13. CASE DropJob(s)
  <2>1. /\ UNCHANGED <<progs, pargs>>
        /\ jargs' = [jargs EXCEPT ![n] = [i \in Positions |-> NoJobArg]]
        /\ \A x \in Names \ {n} : jobs'[x] = jobs[x]
    BY <1>4, <1>13 DEF DropJob
  <2>2. \A x \in Names, i \in Positions :
          jargs'[x][i] = NoJobArg \/ (x # n /\ jargs'[x][i] = jargs[x][i])
    BY <1>0, <1>4, <2>1
  <2>3. ~NoJobArg.there /\ NoJobArg.val = Null BY DEF NoJobArg
  <2> HIDE DEF n, c, z
  <2> QED BY <1>2, <1>3, <2>1, <2>2, <2>3 DEF TablesInRange, ArgumentsInRange
<1>14. ASSUME jobs' = WithoutReference(s), NEW x \in Names
       PROVE  jobs'[x].nargs = jobs[x].nargs /\ jobs'[x].prog = jobs[x].prog
  <2>1. jobs[x] \in Job BY <1>4
  <2>2. jobs'[x] = jobs[x] \/ jobs'[x] = [jobs[x] EXCEPT !.enabled = FALSE]
    BY <1>14 DEF WithoutReference
  <2> QED BY <2>1, <2>2, EnabledAlone
<1>15. CASE DropProgram(s)
  <2>1. /\ UNCHANGED jargs /\ jobs' = WithoutReference(s)
        /\ pargs' = [pargs EXCEPT ![n] = [i \in Positions |-> NoProgramArg]]
        /\ \A x \in Names \ {n} : progs'[x] = progs[x]
    BY <1>4, <1>15 DEF DropProgram
  <2>2. \A x \in Names, i \in Positions :
          pargs'[x][i] = NoProgramArg \/ (x # n /\ pargs'[x][i] = pargs[x][i])
    BY <1>0, <1>4, <2>1
  <2>3. ~NoProgramArg.there BY DEF NoProgramArg
  <2>4. \A x \in Names : jobs'[x].nargs = jobs[x].nargs /\ jobs'[x].prog = jobs[x].prog
    BY <1>14, <2>1
  <2> HIDE DEF n, c, z
  <2> QED BY <1>2, <1>3, <2>1, <2>2, <2>3, <2>4 DEF TablesInRange, ArgumentsInRange
<1>16. CASE DropSchedule(s)
  <2>1. UNCHANGED <<progs, pargs, jargs>> /\ jobs' = WithoutReference(s)
    BY <1>16 DEF DropSchedule
  <2>2. \A x \in Names : jobs'[x].nargs = jobs[x].nargs /\ jobs'[x].prog = jobs[x].prog
    BY <1>14, <2>1
  <2> QED BY <1>2, <1>3, <2>1, <2>2, CountsKeepRange
<1> QED BY <1>6, <1>7, <1>8, <1>9, <1>10, <1>11, <1>12, <1>13, <1>15, <1>16 DEF WriteStep

(* Nothing is defined at first.                                              *)
LEMMA ArgumentsInit == Init => ArgumentsInv
<1> SUFFICES ASSUME Init PROVE ArgumentsInv OBVIOUS
<1>1. \A s \in Sessions : sess[s].at = "idle" BY IdleTyped DEF Init
<1>2. \A s \in Sessions : ArgumentsKnown(s)
  BY <1>1 DEF ArgumentsKnown, ArgumentsPlace
<1>3. \A n \in Names, i \in Positions : pargs[n][i] = NoProgramArg /\ jargs[n][i] = NoJobArg
  BY DEF Init
<1>4. ~NoProgramArg.there /\ ~NoJobArg.there /\ NoJobArg.val = Null
  BY DEF NoProgramArg, NoJobArg
<1> QED BY <1>2, <1>3, <1>4 DEF ArgumentsInv, ArgumentsInRange

(* Every step keeps what is said of arguments.                               *)
LEMMA ArgumentsStep ==
    TypeOK /\ CatalogInv /\ ArgumentsInv /\ [Next]_vars => ArgumentsInv'
<1> SUFFICES ASSUME TypeOK, CatalogInv, ArgumentsInv, [Next]_vars PROVE ArgumentsInv'
  OBVIOUS
<1>1. ASSUME NEW s \in Sessions, NEW c \in workload, Begin(s, c) PROVE ArgumentsInv'
  BY <1>1, BeginKeepsArguments
<1>2. ASSUME NEW s \in Sessions, QueryStep(s) PROVE ArgumentsInv'
  BY <1>2, OtherQueriesKeepArguments, QueryJobKeepsArguments,
     QueryProgramKeepsArguments, QueryArgumentsKeepsArguments,
     QueryArgumentNameKeepsArguments
  DEF QueryStep
<1>3. ASSUME NEW s \in Sessions, WriteStep(s) PROVE ArgumentsInv'
  <2>1. PICK touched : Commit(s, touched) /\ Accounted(touched) BY <1>3, WritesAccounted
  <2>2. /\ sess'[s] = Idle
        /\ \A t \in Sessions \ {s} :
             /\ sess'[t] = sess[t] /\ reads'[t] = reads[t]
             /\ stale'[t] = stale[t] \cup (reads[t] \cap touched)
    BY <2>1, CommitFacts
  <2>3. ArgumentsKnown(s)'
    <3>1. sess'[s].at = "idle" BY <2>2, IdleTyped
    <3> QED BY <3>1 DEF ArgumentsKnown, ArgumentsPlace
  <2>4. ASSUME NEW t \in Sessions \ {s} PROVE ArgumentsKnown(t)'
    <3>1. ArgumentsKnown(t) BY DEF ArgumentsInv
    <3> QED BY <2>1, <2>2, <3>1, OthersKnowArguments
  <2>5. TablesInRange' BY <1>3, WritesKeepRange
  <2> QED BY <2>3, <2>4, <2>5 DEF ArgumentsInv, TablesInRange
<1>4. ASSUME NEW s \in Sessions, Executed(s) \/ Abort(s) PROVE ArgumentsInv'
  BY <1>4, EndKeepsArguments
<1>5. ASSUME NEW n \in Names, Retire(n) PROVE ArgumentsInv'
  BY <1>5, RetireKeepsArguments
<1>6. CASE UNCHANGED vars
  <2>1. UNCHANGED <<jobs, progs, scheds, pargs, jargs, sess, reads, stale, raced>>
    BY <1>6 DEF vars, catalog
  <2>2. ASSUME NEW t \in Sessions PROVE ArgumentsKnown(t)'
    <3>1. ArgumentsKnown(t) BY DEF ArgumentsInv
    <3>2. stale'[t] = stale[t] \cup (reads[t] \cap {}) BY <2>1
    <3>3. Accounted({}) BY <2>1 DEF Accounted, SameRows
    <3>4. sess'[t] = sess[t] /\ reads'[t] = reads[t] BY <2>1
    <3> QED BY <3>1, <3>2, <3>3, <3>4, OthersKnowArguments
  <2>3. /\ ArgumentsInRange'
        /\ \A n \in Names, i \in Positions : ~jargs'[n][i].there => jargs'[n][i].val = Null
    BY <2>1 DEF ArgumentsInv, ArgumentsInRange
  <2> QED BY <2>2, <2>3 DEF ArgumentsInv
<1> QED BY <1>1, <1>2, <1>3, <1>4, <1>5, <1>6 DEF Next

(* What a call has loaded, and nobody changed since, is what the catalogue   *)
(* says.                                                                     *)
LEMMA LoadedIsDefined == TypeOK /\ CatalogInv /\ ArgumentsInv => RunAsDefined
<1> SUFFICES ASSUME TypeOK, CatalogInv, ArgumentsInv, NEW s \in Sessions,
                    sess[s].at = "loaded", stale[s] = {}
             PROVE  LET n == sess[s].call.name
                        p == jobs[n].prog
                        def == IF p = Null THEN jobs[n] ELSE progs[p]
                    IN  /\ jobs[n].there /\ def.there /\ (p # Null => def.enabled)
                        /\ sess[s].act = def.act
                        /\ \A i \in Positions :
                             IF i > def.nargs THEN sess[s].vals[i] = Null
                             ELSE \/ jargs[n][i].there /\ sess[s].vals[i] = jargs[n][i].val
                                  \/ /\ jargs[n][i].val = Null
                                     /\ jargs[n][i].there \/ DefaultOf(p, i).dflt
                                     /\ sess[s].vals[i] = DefaultOf(p, i).val
  BY DEF RunAsDefined
<1> DEFINE z == sess[s]
           n == z.call.name
           p == jobs[n].prog
           def == IF p = Null THEN jobs[n] ELSE progs[p]
<1>1. ArgumentsKnown(s) /\ z.call.op = "load"
  BY DEF ArgumentsInv, ArgumentsKnown, ArgumentsPlace
<1>2. n \in Names /\ z.prog \in Names \cup {Null} /\ z.nargs \in 0 .. MaxArgs
  BY InCall DEF Session
<1>3. /\ jobs[n].there /\ p = z.prog
      /\ p = Null => z.nargs = jobs[n].nargs /\ z.act = jobs[n].act
  BY <1>1 DEF ArgumentsKnown, Knows
<1>4. p # Null => /\ progs[p].there /\ progs[p].enabled
                  /\ z.nargs = progs[p].nargs /\ z.act = progs[p].act
  BY <1>1, <1>3 DEF ArgumentsKnown, Knows
<1>5. /\ def.there /\ (p # Null => def.enabled)
      /\ z.nargs = def.nargs /\ z.act = def.act
  <2> HIDE DEF n, p, z
  <2> QED BY <1>3, <1>4
<1>6. \A i \in Positions :
        IF i \in 1 .. z.nargs
        THEN HasValue(n, z.prog, i) /\ z.vals[i] = LoadedValue(n, z.prog, i)
        ELSE z.vals[i] = Null
  BY <1>1 DEF ArgumentsKnown
<1>7. ASSUME NEW i \in Positions
      PROVE  IF i > def.nargs THEN z.vals[i] = Null
             ELSE \/ jargs[n][i].there /\ z.vals[i] = jargs[n][i].val
                  \/ /\ jargs[n][i].val = Null
                     /\ jargs[n][i].there \/ DefaultOf(p, i).dflt
                     /\ z.vals[i] = DefaultOf(p, i).val
  <2>1. ~jargs[n][i].there => jargs[n][i].val = Null BY <1>2 DEF ArgumentsInv
  <2>2. i \in Nat /\ i >= 1 /\ (i > z.nargs <=> i \notin 1 .. z.nargs)
    BY <1>2, CatalogAssumption DEF Positions
  <2>3. CASE i > z.nargs BY <1>5, <1>6, <2>2, <2>3
  <2>4. CASE ~(i > z.nargs)
    <3>1. HasValue(n, p, i) /\ z.vals[i] = LoadedValue(n, p, i) BY <1>3, <1>6, <2>2, <2>4
    <3>2. \/ jargs[n][i].there /\ z.vals[i] = jargs[n][i].val
          \/ /\ jargs[n][i].val = Null
             /\ jargs[n][i].there \/ DefaultOf(p, i).dflt
             /\ z.vals[i] = DefaultOf(p, i).val
      BY <2>1, <3>1 DEF HasValue, LoadedValue
    <3>3. ~(i > def.nargs) BY <1>5, <2>4
    <3> QED BY <3>2, <3>3
  <2> QED BY <2>3, <2>4
<1> QED BY <1>3, <1>5, <1>7

(* sched_check_name_free: "jobs, programs and schedules share one namespace" *)
(* for any names and any number of sessions, but for a name that two calls   *)
(* found free at once.                                                       *)
THEOREM NamesAreShared == Spec => []OneNamespace
BY CatalogCorrect, PTL

(* DEFINE_PROGRAM_ARGUMENT and SET_JOB_ARGUMENT_VALUE: arguments are at      *)
(* positions the object has, for any number of arguments and of sessions.    *)
THEOREM PositionsAreChecked == Spec => []ArgumentsInRange
<1>1. ArgumentsInv => ArgumentsInRange BY DEF ArgumentsInv
<1> QED BY <1>1, InitInv, NextInv, ArgumentsInit, ArgumentsStep, PTL DEF Spec

(* sched_load_job_definition: a run executes the action and the argument     *)
(* values the catalogue holds, though it reads them in several queries while *)
(* any number of sessions change them.                                       *)
THEOREM RunsAreAsDefined == Spec => []RunAsDefined
BY LoadedIsDefined, InitInv, NextInv, ArgumentsInit, ArgumentsStep, PTL DEF Spec
=============================================================================
