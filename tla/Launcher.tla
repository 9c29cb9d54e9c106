------------------------------ MODULE Launcher ------------------------------
(* The scheduler launcher (SchedulerLauncherMain): a process that keeps one  *)
(* database scheduler worker for every database ivorysql.scheduler_databases *)
(* lists, with its registry of what it started, and the dynamic background   *)
(* workers it registers.  Source: scheduler_launcher.c; the states of a      *)
(* background worker are those bgworker.c reports for a handle.              *)
(*                                                                           *)
(* One cycle of the launcher is one action: it looks at every database once, *)
(* and what it reads and writes for one is independent of the others.        *)
EXTENDS Naturals, FiniteSets

CONSTANTS
    Databases,   \* database names an administrator may list
    Workers,     \* background worker registrations; bounds how many there are
    None,        \* a NULL handle
    MaxOutages,  \* bounds launcher errors and server crashes together
    Hazards      \* which of AllHazards the environment lets happen

AllHazards ==
    { "relist_early",     \* a database is listed again before its old
                          \* scheduler, told to stop, is gone
      "launcher_error" }  \* the launcher fails and is restarted on its own

ASSUME LauncherAssumption ==
    /\ None \notin Workers /\ IsFiniteSet(Workers)
    /\ MaxOutages \in Nat /\ Hazards \subseteq AllHazards

VARIABLES
    file,      \* ivorysql.scheduler_databases in the configuration file
    guc,       \* the launcher's own value of it
    reload,    \* ConfigReloadPending of the launcher
    up,        \* the launcher process is there
    entry,     \* dbworkers: registry entry of each database
    worker,    \* background workers, by registration
    term,      \* registrations whose slot has the terminate flag
    lost,      \* history: registrations whose handle a failed launcher held
    outages    \* launcher errors and server crashes so far

vars == <<file, guc, reload, up, entry, worker, term, lost, outages>>

Entry == [known: BOOLEAN, active: BOOLEAN, gaveUp: BOOLEAN,
          handle: Workers \cup {None}]
NoEntry == [known |-> FALSE, active |-> FALSE, gaveUp |-> FALSE, handle |-> None]
Worker == [db: Databases \cup {None}, st: {"unused", "pending", "running", "gone"}]
NoWorker == [db |-> None, st |-> "unused"]

(* BGWH_STARTED or BGWH_NOT_YET_STARTED.                                     *)
OnTheBooks(w) == worker[w].st \in {"pending", "running"}

Init ==
    /\ file \in SUBSET Databases /\ guc = file
    /\ reload = FALSE /\ up = TRUE
    /\ entry = [d \in Databases |-> NoEntry]
    /\ worker = [w \in Workers |-> NoWorker] /\ term = {} /\ lost = {}
    /\ outages = 0

(* The administrator edits the list and reloads; SIGHUP reaches every child. *)
Reload(list) ==
    /\ \/ "relist_early" \in Hazards
       \/ \A d \in list \ guc, w \in Workers :
            worker[w].db = d => ~OnTheBooks(w)
    /\ file' = list /\ reload' = TRUE
    /\ UNCHANGED <<guc, up, entry, worker, term, lost, outages>>

\* A reload clears gave_up of every registry entry.
Cleared(e) == IF reload THEN [e EXCEPT !.gaveUp = FALSE] ELSE e

\* Fault: a database given up on is started again on the next cycle.
ToStartAlways(d) == Cleared(entry[d]).handle = None

\* Fault: only a database not seen before is started.
ToStartNew(d) == ~entry[d].known

(* A listed database is started when it is new, or when it has no handle and *)
(* has not been given up on.                                                 *)
ToStart(d) == Cleared(entry[d]).handle = None /\ ~Cleared(entry[d]).gaveUp

\* Fault: only a running worker counts, one waiting to be forked does not.
StoppedPending(d) == entry[d].handle # None /\ worker[entry[d].handle].st # "running"

(* The worker of a database stopped on its own.                              *)
Stopped(d) == entry[d].handle # None /\ ~OnTheBooks(entry[d].handle)

\* Fault: the handle is dropped, the worker is not told to stop.
TerminatedNone(list) == {}

(* Workers of databases no longer listed are told to stop.                   *)
Terminated(list) == {entry[d].handle : d \in Databases \ list} \ {None}

(* What a cycle makes of one registry entry; started is the handle of the    *)
(* worker registered for it, None when none was.                             *)
NewEntry(d, listed, started) ==
    IF ~listed THEN [Cleared(entry[d]) EXCEPT !.active = FALSE, !.handle = None]
    ELSE IF ToStart(d)
    THEN [known |-> TRUE, active |-> TRUE, gaveUp |-> started = None,
          handle |-> started]
    ELSE IF Stopped(d) /\ ~Cleared(entry[d]).gaveUp
    THEN [known |-> TRUE, active |-> TRUE, gaveUp |-> TRUE, handle |-> None]
    ELSE [Cleared(entry[d]) EXCEPT !.active = TRUE]

(* One iteration of the launcher's loop.  started maps the databases whose   *)
(* registration succeeds to their workers; the others found the server out   *)
(* of background worker slots.                                               *)
LauncherCycle ==
    LET list == IF reload THEN file ELSE guc
        unused == {w \in Workers : worker[w].st = "unused"}
    IN  /\ up
        /\ Cardinality({d \in list : ToStart(d)}) <= Cardinality(unused)
        /\ \E started \in [{d \in list : ToStart(d)} -> unused \cup {None}] :
             /\ \A c, d \in DOMAIN started :
                  started[c] = started[d] /\ started[c] # None => c = d
             /\ entry' = [d \in Databases |->
                   NewEntry(d, d \in list,
                            IF d \in DOMAIN started THEN started[d] ELSE None)]
             /\ worker' = [w \in Workers |->
                   IF \E d \in DOMAIN started : started[d] = w
                   THEN [db |-> CHOOSE d \in DOMAIN started : started[d] = w,
                         st |-> "pending"]
                   ELSE worker[w]]
        /\ term' = term \cup Terminated(list)
        /\ guc' = list /\ reload' = FALSE
        /\ UNCHANGED <<file, up, lost, outages>>

(* The postmaster forks a registered worker, unless it was told to stop.     *)
WorkerStart(w) ==
    /\ worker[w].st = "pending" /\ w \notin term
    /\ worker' = [worker EXCEPT ![w].st = "running"]
    /\ UNCHANGED <<file, guc, reload, up, entry, term, lost, outages>>

(* A worker told to stop goes: unforked, or through its SIGTERM handler.     *)
WorkerStop(w) ==
    /\ OnTheBooks(w) /\ w \in term
    /\ worker' = [worker EXCEPT ![w].st = "gone"]
    /\ UNCHANGED <<file, guc, reload, up, entry, term, lost, outages>>

(* A database scheduler exits on its own: no extension, no such database, an *)
(* error it could not work through.  BGW_NEVER_RESTART: it stays down.       *)
WorkerQuits(w) ==
    /\ worker[w].st = "running"
    /\ worker' = [worker EXCEPT ![w].st = "gone"]
    /\ UNCHANGED <<file, guc, reload, up, entry, term, lost, outages>>

(* An error ends the launcher; its registry was in its own memory.           *)
LauncherError ==
    /\ up /\ "launcher_error" \in Hazards
    /\ outages < MaxOutages /\ outages' = outages + 1
    /\ up' = FALSE /\ entry' = [d \in Databases |-> NoEntry]
    /\ lost' = lost \cup ({entry[d].handle : d \in Databases} \ {None})
    /\ UNCHANGED <<file, guc, reload, worker, term>>

(* bgw_restart_time: the postmaster starts the launcher again.               *)
LauncherRestart ==
    /\ ~up
    /\ up' = TRUE /\ guc' = file /\ reload' = FALSE
    /\ UNCHANGED <<file, entry, worker, term, lost, outages>>

(* A crash takes every process; workers that never restart are forgotten.    *)
ServerCrash ==
    /\ up
    /\ outages < MaxOutages /\ outages' = outages + 1
    /\ up' = FALSE /\ entry' = [d \in Databases |-> NoEntry]
    /\ worker' = [w \in Workers |-> IF OnTheBooks(w)
                                    THEN [worker[w] EXCEPT !.st = "gone"]
                                    ELSE worker[w]]
    /\ UNCHANGED <<file, guc, reload, term, lost>>

WorkerNext(w) == WorkerStart(w) \/ WorkerStop(w) \/ WorkerQuits(w)

Next ==
    \/ \E list \in SUBSET Databases : Reload(list)
    \/ LauncherCycle
    \/ \E w \in Workers : WorkerNext(w)
    \/ LauncherError \/ LauncherRestart \/ ServerCrash

Spec == Init /\ [][Next]_vars

(* The launcher wakes at least every ten seconds, the postmaster forks and   *)
(* restarts, and a process told to stop stops.                               *)
Fairness ==
    /\ WF_vars(LauncherCycle) /\ WF_vars(LauncherRestart)
    /\ \A w \in Workers : WF_vars(WorkerStart(w)) /\ WF_vars(WorkerStop(w))

FairSpec == Spec /\ Fairness

(******************************* Properties *********************************)

(* Every variable has its type.                                              *)
TypeOK ==
    /\ file \subseteq Databases /\ guc \subseteq Databases
    /\ reload \in BOOLEAN /\ up \in BOOLEAN
    /\ entry \in [Databases -> Entry] /\ worker \in [Workers -> Worker]
    /\ term \subseteq Workers /\ lost \subseteq Workers
    /\ outages \in 0 .. MaxOutages

(* The launcher holds the handle of every scheduler it has not told to stop: *)
(* none is left running that a later cycle could not stop or replace, but    *)
(* for those whose handle was lost with a launcher that failed.              *)
NoStrayScheduler ==
    \A w \in Workers : OnTheBooks(w) /\ w \notin term \cup lost =>
        entry[worker[w].db].handle = w

(* The inductive invariant behind NoStrayScheduler and RestartNeedsReload: a *)
(* registration that was used names its database, a listed database that the *)
(* launcher knows has a handle or was given up on, and a launcher that is    *)
(* down knows nothing.                                                       *)
RegistryInv ==
    /\ \A w \in Workers : worker[w].st # "unused" => worker[w].db \in Databases
    /\ NoStrayScheduler
    /\ \A d \in guc : entry[d].known /\ entry[d].handle = None => entry[d].gaveUp
    /\ ~up => \A d \in Databases : ~entry[d].known

(* A scheduler "that stops on its own is reported and left stopped" and      *)
(* "reloading the configuration retries": a database the launcher already    *)
(* knows gets another scheduler only in a cycle that takes in a reload.      *)
RestartNeedsReload ==
    [][\A w \in Workers :
          /\ worker[w].st = "unused" /\ worker'[w].st = "pending"
          /\ entry[worker'[w].db].known
          => reload]_vars

(* The model has no registrations left for a cycle that starts everything.   *)
Exhausted ==
    Cardinality({w \in Workers : worker[w].st = "unused"})
        < Cardinality(Databases)

(* A database that stays listed comes to have a scheduler on the books or a  *)
(* verdict that it was given up on.                                          *)
ListedServed ==
    \A d \in Databases :
        d \in file ~> \/ d \notin file
                      \/ entry[d].gaveUp
                      \/ \E w \in Workers : OnTheBooks(w) /\ worker[w].db = d
                      \/ Exhausted

(* "Stop workers for databases no longer listed": a database taken off the   *)
(* list ends up without a scheduler, unless it is listed again or the handle *)
(* went with a launcher that failed.                                         *)
DelistedStops ==
    \A d \in Databases :
        d \notin file ~> \/ d \in file
                         \/ \A w \in Workers \ lost :
                              worker[w].db = d => ~OnTheBooks(w)
                         \/ Exhausted
=============================================================================
