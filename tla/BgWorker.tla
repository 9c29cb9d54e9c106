------------------------------ MODULE BgWorker ------------------------------
(* Dynamic background workers (postmaster/bgworker.c): the slots in shared   *)
(* memory, the postmaster's own list of them, the processes it forks, and    *)
(* the backends that register, terminate and wait for workers.  The          *)
(* scheduler's launcher and its database schedulers are such backends.       *)
(*                                                                           *)
(* Backends serialise on BackgroundWorkerLock (module LWLock), so a section  *)
(* under it is one action; the postmaster takes no lock, and its handlers    *)
(* are one action per slot they visit, a notification after it.              *)
EXTENDS Integers, FiniteSets

CONSTANTS
    Slots,        \* slots: max_worker_processes of them
    Procs,        \* backends that use background workers
    Waiters,      \* those of them that ask to be notified, and may wait
    Nobody,       \* a bgw_notify_pid of 0
    Kinds,        \* the kinds of workers they register
    MaxGen,       \* bounds the registrations of one slot
    MaxParallel,  \* max_parallel_workers
    CountMod,     \* the parallel counters are unsigned: modulo 2^32 in the code
    MaxFailures   \* bounds failing forks

(* Whether a worker is restarted when it fails: bgw_restart_time.  Parallel  *)
(* workers never are.                                                        *)
AllKinds == {"never", "parallel", "restart"}
Handles == Slots \X (1 .. MaxGen)
NoHandle == <<Nobody, 0>>

ASSUME BgWorkerAssumption ==
    /\ IsFiniteSet(Slots) /\ Waiters \subseteq Procs /\ Nobody \notin Slots \cup Procs
    /\ Kinds \subseteq AllKinds
    /\ {MaxGen, MaxParallel, MaxFailures} \subseteq Nat
    /\ CountMod \in Nat /\ MaxParallel < CountMod

VARIABLES
    slot,         \* BackgroundWorkerData->slot
    parReg,       \* parallel_register_count
    parTerm,      \* parallel_terminate_count
    change,       \* PMSIGNAL_BACKGROUND_WORKER_CHANGE is pending
    rw,           \* BackgroundWorkerList, by rw_shmem_slot
    pm,           \* what the postmaster is doing, the slots it has still to
                  \* visit, and whom it is about to notify
    stopping,     \* pmState is PM_STOP_BACKENDS or later
    startNeeded,  \* StartWorkerNeeded
    haveCrashed,  \* HaveCrashedWorker
    proc,         \* the process of each registration
    latch,        \* latch of each backend
    at,           \* where each backend is
    handle,       \* the handle it holds
    failures      \* forks that failed

slotVars == <<slot, parReg, parTerm>>
pmVars == <<rw, pm, stopping, startNeeded, haveCrashed>>
procVars == <<latch, at, handle>>
vars == <<slotVars, change, pmVars, proc, procVars, failures>>

FreeSlot == [inUse |-> FALSE, terminate |-> FALSE, pid |-> "none", gen |-> 0,
             kind |-> "never", notify |-> Nobody]
Unlisted == [listed |-> FALSE, pid |-> "none", crashed |-> "no",
             terminate |-> FALSE, notify |-> Nobody]
Idle == [at |-> "idle", todo |-> {}, notify |-> {}]

Init ==
    /\ slot = [s \in Slots |-> FreeSlot] /\ parReg = 0 /\ parTerm = 0
    /\ change = FALSE
    /\ rw = [s \in Slots |-> Unlisted] /\ pm = Idle
    /\ stopping = FALSE /\ startNeeded = FALSE /\ haveCrashed = FALSE
    /\ proc = [h \in Handles |-> "none"]
    /\ latch = [p \in Procs |-> FALSE] /\ at = [p \in Procs |-> "idle"]
    /\ handle = [p \in Procs |-> NoHandle]
    /\ failures = 0

(********************************* Backends *********************************)

(* GetBackgroundWorkerPid: InvalidPid, 0 or a pid.                           *)
Pid(h) ==
    IF h[2] # slot[h[1]].gen \/ ~slot[h[1]].inUse THEN "none" ELSE slot[h[1]].pid

(* A parallel worker is not one too many.                                    *)
ParallelRoom == (parReg - parTerm) % CountMod < MaxParallel

(* RegisterDynamicBackgroundWorker: which of the free slots it finds does    *)
(* not matter.  A handle the backend already had is let go.                  *)
Register(p, s, kind, notify) ==
    /\ at[p] = "idle"
    /\ kind = "parallel" => ParallelRoom
    /\ ~slot[s].inUse /\ slot[s].gen < MaxGen
    /\ slot' = [slot EXCEPT ![s] =
                   [inUse |-> TRUE, terminate |-> FALSE, pid |-> "invalid",
                    gen |-> slot[s].gen + 1, kind |-> kind, notify |-> notify]]
    /\ parReg' = IF kind = "parallel" THEN (parReg + 1) % CountMod ELSE parReg
    /\ handle' = [handle EXCEPT ![p] = <<s, slot[s].gen + 1>>]
    /\ at' = [at EXCEPT ![p] = "signal"]
    /\ UNCHANGED <<parTerm, change, pmVars, proc, latch, failures>>

\* Fault: the postmaster is not signalled.
TerminateSilent(p) ==
    /\ at[p] = "idle" /\ handle[p] # NoHandle
    /\ handle[p][2] = slot[handle[p][1]].gen
    /\ slot' = [slot EXCEPT ![handle[p][1]].terminate = TRUE]
    /\ UNCHANGED <<parReg, parTerm, change, pmVars, proc, procVars, failures>>

(* TerminateBackgroundWorker, unless the slot has been reused.               *)
Terminate(p) ==
    /\ at[p] = "idle" /\ handle[p] # NoHandle
    /\ handle[p][2] = slot[handle[p][1]].gen
    /\ slot' = [slot EXCEPT ![handle[p][1]].terminate = TRUE]
    /\ at' = [at EXCEPT ![p] = "signal"]
    /\ UNCHANGED <<parReg, parTerm, change, pmVars, proc, latch, handle, failures>>

(* SendPostmasterSignal, once the lock is released.                          *)
SendSignal(p) ==
    /\ at[p] = "signal"
    /\ change' = TRUE
    /\ at' = [at EXCEPT ![p] = "idle"]
    /\ UNCHANGED <<slotVars, pmVars, proc, latch, handle, failures>>

(* WaitForBackgroundWorkerStartup and WaitForBackgroundWorkerShutdown: "The  *)
(* caller *must* have set our PID as the worker's bgw_notify_pid".           *)
Wait(p, for) ==
    /\ p \in Waiters /\ at[p] = "idle" /\ handle[p] # NoHandle
    /\ at' = [at EXCEPT ![p] = for]
    /\ UNCHANGED <<slotVars, change, pmVars, proc, latch, handle, failures>>

\* The answer a wait is for.
Awaited(p, for) ==
    IF for = "startup" THEN Pid(handle[p]) # "invalid" ELSE Pid(handle[p]) = "none"

(* The loop of both: the status, and then the latch.                         *)
Check(p, for, asleep) ==
    /\ at[p] = for
    /\ at' = [at EXCEPT ![p] = IF Awaited(p, for) THEN "idle" ELSE asleep]
    /\ UNCHANGED <<slotVars, change, pmVars, proc, latch, handle, failures>>

WaitLatch(p, for, asleep) ==
    /\ at[p] = asleep /\ latch[p]
    /\ latch' = [latch EXCEPT ![p] = FALSE]
    /\ at' = [at EXCEPT ![p] = for]
    /\ UNCHANGED <<slotVars, change, pmVars, proc, handle, failures>>

(* A backend that asks to be notified ends; the postmaster has still to      *)
(* learn of it.  The end of another changes nothing here.                    *)
Exit(p) ==
    /\ p \in Waiters /\ at[p] = "idle"
    /\ at' = [at EXCEPT ![p] = "exited"]
    /\ handle' = [handle EXCEPT ![p] = NoHandle]
    /\ UNCHANGED <<slotVars, change, pmVars, proc, latch, failures>>

BackendStep(p) ==
    \/ SendSignal(p)
    \/ Check(p, "startup", "startup_sleep") \/ WaitLatch(p, "startup", "startup_sleep")
    \/ Check(p, "shutdown", "shutdown_sleep") \/ WaitLatch(p, "shutdown", "shutdown_sleep")

(********************************* Workers **********************************)

(* A worker's process ends, with status 0 or 1.                              *)
WorkerExit(h, code) ==
    /\ proc[h] \in {"running", "told"}
    /\ proc' = [proc EXCEPT ![h] = code]
    /\ UNCHANGED <<slotVars, change, pmVars, procVars, failures>>

(******************************** Postmaster ********************************)

(* The registration that has the slot.                                       *)
Current(s) == <<s, slot[s].gen>>

\* kill(bgw_notify_pid, SIGUSR1), to come.
Whom(p) == {p} \ {Nobody}

(* A handler that has these slots to visit and these backends to notify.     *)
Loop(what, todo, whom) ==
    [at |-> IF todo = {} THEN "idle" ELSE what, todo |-> todo, notify |-> whom]

(* The slot is visited, and somebody may have to hear of it.                 *)
Visited(s, whom) == pm' = Loop(pm.at, pm.todo \ {s}, whom)

Visiting(s, what) == pm.at = what /\ s \in pm.todo /\ pm.notify = {}

\* Fault: a parallel worker that goes is not counted.
ForgetUncounted(s) ==
    /\ slot' = [slot EXCEPT ![s] = [FreeSlot EXCEPT !.gen = slot[s].gen]]
    /\ rw' = [rw EXCEPT ![s] = Unlisted]
    /\ UNCHANGED <<parReg, parTerm>>

(* ForgetBackgroundWorker.  What else a slot that is not in use says is      *)
(* written before it is read again.                                          *)
Forget(s) ==
    /\ slot' = [slot EXCEPT ![s] = [FreeSlot EXCEPT !.gen = slot[s].gen]]
    /\ parTerm' = IF slot[s].kind = "parallel" THEN (parTerm + 1) % CountMod ELSE parTerm
    /\ rw' = [rw EXCEPT ![s] = Unlisted]
    /\ UNCHANGED parReg

(* The signal to a backend sets its latch.                                   *)
Notify ==
    /\ pm.notify # {}
    /\ latch' = [p \in Procs |-> latch[p] \/ p \in pm.notify]
    /\ pm' = [pm EXCEPT !.notify = {}]
    /\ UNCHANGED <<slotVars, change, rw, stopping, startNeeded, haveCrashed, proc,
                   at, handle, failures>>

(* process_pm_pmsignal takes the flag and looks at every slot; it will look  *)
(* for workers to start after that.                                          *)
StateChange ==
    /\ pm = Idle /\ change
    /\ change' = FALSE /\ startNeeded' = TRUE
    /\ pm' = Loop("change", Slots, {})
    /\ UNCHANGED <<slotVars, rw, stopping, haveCrashed, proc, procVars, failures>>

\* Fault: a worker that runs is reported dead when it is sent SIGTERM.
TerminateKnownDead(s) ==
    /\ rw' = [rw EXCEPT ![s].terminate = TRUE]
    /\ proc' = [proc EXCEPT ![Current(s)] = IF @ = "running" THEN "told" ELSE @]
    /\ slot' = [slot EXCEPT ![s].pid = "none"]
    /\ Visited(s, Whom(rw[s].notify))
    /\ UNCHANGED <<parReg, parTerm>>

(* A worker the postmaster knows is to be terminated: SIGTERM if it runs,    *)
(* else it is reported dead.                                                 *)
TerminateKnown(s) ==
    /\ rw' = [rw EXCEPT ![s].terminate = TRUE]
    /\ IF rw[s].pid = "run"
       THEN /\ proc' = [proc EXCEPT ![Current(s)] = IF @ = "running" THEN "told" ELSE @]
            /\ Visited(s, {}) /\ UNCHANGED slot
       ELSE /\ slot' = [slot EXCEPT ![s].pid = "none"]
            /\ Visited(s, Whom(rw[s].notify)) /\ UNCHANGED proc
    /\ UNCHANGED <<parReg, parTerm>>

\* Fault: the slot is released, and its registrant is not told.
RejectNewSilent(s) ==
    /\ Forget(s)
    /\ Visited(s, {}) /\ UNCHANGED proc

(* A worker it does not know yet is to be terminated, or comes too late: the *)
(* slot is released at once.                                                 *)
RejectNew(s) ==
    /\ Forget(s)
    /\ Visited(s, Whom(slot[s].notify)) /\ UNCHANGED proc

\* The backends in the postmaster's list of children.
Backends == {p \in Procs : at[p] # "down"}

(* A new worker is entered in the list; PostmasterMarkPIDForWorkerNotify     *)
(* knows the backends that are still there.                                  *)
Enlist(s) ==
    /\ rw' = [rw EXCEPT ![s] = [Unlisted EXCEPT !.listed = TRUE,
                 !.notify = IF slot[s].notify \in Backends THEN slot[s].notify
                            ELSE Nobody]]
    /\ Visited(s, {}) /\ UNCHANGED <<slotVars, proc>>

(* BackgroundWorkerStateChange, one slot.                                    *)
StateChangeSlot(s) ==
    /\ Visiting(s, "change")
    /\ \/ /\ ~slot[s].inUse \/ (rw[s].listed /\ (slot[s].terminate => rw[s].terminate))
          /\ Visited(s, {}) /\ UNCHANGED <<slotVars, rw, proc>>
       \/ /\ slot[s].inUse /\ rw[s].listed /\ slot[s].terminate /\ ~rw[s].terminate
          /\ TerminateKnown(s)
       \/ /\ slot[s].inUse /\ ~rw[s].listed /\ (slot[s].terminate \/ stopping)
          /\ RejectNew(s)
       \/ /\ slot[s].inUse /\ ~rw[s].listed /\ ~slot[s].terminate /\ ~stopping
          /\ Enlist(s)
    /\ UNCHANGED <<change, stopping, startNeeded, haveCrashed, procVars, failures>>

(* maybe_start_bgworkers                                                     *)
MaybeStart ==
    /\ pm = Idle /\ (startNeeded \/ haveCrashed)
    /\ startNeeded' = FALSE /\ haveCrashed' = FALSE
    /\ pm' = Loop("start", {s \in Slots : rw[s].listed}, {})
    /\ UNCHANGED <<slotVars, change, rw, stopping, proc, procVars, failures>>

(* StartBackgroundWorker succeeds.                                           *)
Launch(s) ==
    /\ rw' = [rw EXCEPT ![s].pid = "run", ![s].crashed = "no"]
    /\ proc' = [proc EXCEPT ![Current(s)] = "running"]
    /\ slot' = [slot EXCEPT ![s].pid = "run"]
    /\ Visited(s, Whom(rw[s].notify))
    /\ UNCHANGED <<parReg, parTerm, startNeeded, failures>>

(* StartBackgroundWorker fails: the loop gives up for now.                   *)
LaunchFails(s) ==
    /\ failures < MaxFailures /\ failures' = failures + 1
    /\ rw' = [rw EXCEPT ![s].crashed = "recent"]
    /\ startNeeded' = TRUE
    /\ pm' = Idle
    /\ UNCHANGED <<slotVars, proc>>

(* A worker that could not be started, or failed, and is not restarted.      *)
GivesUp(s) == rw[s].crashed # "no" /\ slot[s].kind # "restart"

(* One entry of the list.                                                    *)
MaybeStartSlot(s) ==
    LET resting == rw[s].crashed = "recent" /\ slot[s].kind = "restart"
        ready == rw[s].pid = "none" /\ ~rw[s].terminate /\ ~GivesUp(s) /\ ~resting
    IN  /\ Visiting(s, "start")
        /\ \/ /\ rw[s].pid # "none" \/ (ready /\ stopping)
              /\ Visited(s, {})
              /\ UNCHANGED <<slotVars, rw, proc, startNeeded, haveCrashed, failures>>
           \/ /\ rw[s].pid = "none" /\ rw[s].terminate
              /\ Forget(s) /\ Visited(s, {})
              /\ UNCHANGED <<proc, startNeeded, haveCrashed, failures>>
           \/ /\ rw[s].pid = "none" /\ ~rw[s].terminate /\ GivesUp(s)
              /\ Forget(s) /\ Visited(s, Whom(rw[s].notify))
              /\ UNCHANGED <<proc, startNeeded, haveCrashed, failures>>
           \/ /\ rw[s].pid = "none" /\ ~rw[s].terminate /\ resting
              /\ haveCrashed' = TRUE /\ Visited(s, {})
              /\ UNCHANGED <<slotVars, rw, proc, startNeeded, failures>>
           \/ /\ ready /\ ~stopping
              /\ Launch(s) \/ LaunchFails(s)
              /\ UNCHANGED haveCrashed
        /\ UNCHANGED <<change, stopping, procVars>>

(* The exit of a worker is its last.                                         *)
Unregisters(s, code) ==
    rw[s].terminate \/ code = "exit0" \/ slot[s].kind # "restart"

(* CleanupBackend of a worker, with ReportBackgroundWorkerExit.              *)
CleanupWorker(h, code) ==
    LET s == h[1]
    IN  /\ pm = Idle /\ proc[h] = code
        /\ proc' = [proc EXCEPT ![h] = "none"]
        /\ IF Unregisters(s, code) THEN Forget(s)
           ELSE /\ rw' = [rw EXCEPT ![s].pid = "none", ![s].crashed = "recent"]
                /\ slot' = [slot EXCEPT ![s].pid = "none"]
                /\ UNCHANGED <<parReg, parTerm>>
        /\ pm' = [pm EXCEPT !.notify = Whom(rw[s].notify)]
        /\ haveCrashed' = TRUE
        /\ UNCHANGED <<change, stopping, startNeeded, procVars, failures>>

(* CleanupBackend of a backend, with BackgroundWorkerStopNotifications.      *)
CleanupBackend(p) ==
    /\ pm = Idle /\ at[p] = "exited"
    /\ at' = [at EXCEPT ![p] = "down"]
    /\ rw' = [s \in Slots |-> IF rw[s].notify = p THEN [rw[s] EXCEPT !.notify = Nobody]
                              ELSE rw[s]]
    /\ UNCHANGED <<slotVars, change, pm, stopping, startNeeded, haveCrashed, proc,
                   latch, handle, failures>>

(* bgw_restart_time has passed.                                              *)
RestartTimePasses(s) ==
    /\ rw[s].crashed = "recent" /\ slot[s].kind = "restart"
    /\ rw' = [rw EXCEPT ![s].crashed = "past"]
    /\ UNCHANGED <<slotVars, change, pm, stopping, startNeeded, haveCrashed, proc,
                   procVars, failures>>

(* A shutdown reaches PM_STOP_BACKENDS: requests for workers not started yet *)
(* are cancelled, the others get SIGTERM.                                    *)
StopBackends ==
    /\ pm = Idle /\ ~stopping
    /\ stopping' = TRUE
    /\ pm' = Loop("forget", {s \in Slots : rw[s].listed}, {})
    /\ proc' = [h \in Handles |-> IF proc[h] = "running" THEN "told" ELSE proc[h]]
    /\ UNCHANGED <<slotVars, change, rw, startNeeded, haveCrashed, procVars, failures>>

(* ForgetUnstartedBackgroundWorkers, one entry.                              *)
ForgetUnstarted(s) ==
    /\ Visiting(s, "forget")
    /\ IF slot[s].pid = "invalid" /\ rw[s].notify # Nobody
       THEN Forget(s) /\ Visited(s, Whom(rw[s].notify))
       ELSE Visited(s, {}) /\ UNCHANGED <<slotVars, rw>>
    /\ UNCHANGED <<change, stopping, startNeeded, haveCrashed, proc, procVars, failures>>

(****************************** Specification *******************************)

Codes == {"exit0", "exit1"}

(* The postmaster goes on with what it is doing.                             *)
Handling ==
    \/ Notify
    \/ \E s \in Slots : StateChangeSlot(s) \/ MaybeStartSlot(s) \/ ForgetUnstarted(s)

Reap(h) == \E code \in Codes : CleanupWorker(h, code)

Next ==
    \/ \E p \in Procs :
         \/ \E s \in Slots, kind \in Kinds :
              Register(p, s, kind, IF p \in Waiters THEN p ELSE Nobody)
         \/ Terminate(p) \/ Wait(p, "startup") \/ Wait(p, "shutdown")
         \/ Exit(p) \/ BackendStep(p) \/ CleanupBackend(p)
    \/ \E h \in Handles, code \in Codes : WorkerExit(h, code)
    \/ Handling \/ StateChange \/ MaybeStart \/ StopBackends
    \/ \E h \in Handles : Reap(h)
    \/ \E s \in Slots : RestartTimePasses(s)

Spec == Init /\ [][Next]_vars

(* Every round of ServerLoop handles the signals that are pending and reaps  *)
(* the children that are gone before it starts workers; a backend in a call  *)
(* goes on; a worker sent SIGTERM exits; time passes.                        *)
Fairness ==
    /\ WF_vars(Handling) /\ SF_vars(StateChange) /\ WF_vars(MaybeStart)
    /\ \A h \in Handles :
         /\ SF_vars(Reap(h))
         /\ WF_vars(proc[h] = "told" /\ \E code \in Codes : WorkerExit(h, code))
    /\ \A p \in Procs : WF_vars(BackendStep(p))
    /\ \A s \in Slots : WF_vars(RestartTimePasses(s))

FairSpec == Spec /\ Fairness

(******************************* Properties *********************************)

(* Every variable has its type.                                              *)
TypeOK ==
    /\ slot \in [Slots -> [inUse: BOOLEAN, terminate: BOOLEAN,
                           pid: {"invalid", "none", "run"}, gen: 0 .. MaxGen,
                           kind: AllKinds, notify: Procs \cup {Nobody}]]
    /\ {parReg, parTerm} \subseteq 0 .. CountMod - 1
    /\ rw \in [Slots -> [listed: BOOLEAN, pid: {"none", "run"},
                         crashed: {"no", "recent", "past"}, terminate: BOOLEAN,
                         notify: Procs \cup {Nobody}]]
    /\ pm \in [at: {"idle", "change", "start", "forget"}, todo: SUBSET Slots,
               notify: SUBSET Procs]
    /\ {change, stopping, startNeeded, haveCrashed} \subseteq BOOLEAN
    /\ proc \in [Handles -> {"none", "running", "told"} \cup Codes]
    /\ latch \in [Procs -> BOOLEAN]
    /\ at \in [Procs -> {"idle", "signal", "startup", "startup_sleep", "shutdown",
                         "shutdown_sleep", "exited", "down"}]
    /\ handle \in [Procs -> Handles \cup {NoHandle}]
    /\ failures \in 0 .. MaxFailures

(* What a handle says of its registration over time: "gone" is the           *)
(* BGWH_STOPPED that is final.                                               *)
Status ==
    [h \in Handles |->
        LET s == slot[h[1]] r == rw[h[1]]
        IN  IF h[2] > s.gen THEN "none"
            ELSE IF h[2] < s.gen \/ ~s.inUse THEN "gone"
            ELSE IF s.pid = "invalid" THEN "waiting"
            ELSE IF s.pid = "run" THEN "started"
            ELSE IF s.kind = "restart" /\ ~r.terminate THEN "resting" ELSE "gone"]

Alive == {h \in Handles : proc[h] \in {"running", "told"}}

Promise == INSTANCE BgHandle WITH status <- Status, alive <- Alive

(* Handles keep their promise: the scheduler takes a BGWH_STOPPED of a       *)
(* worker it registered BGW_NEVER_RESTART as proof that the process is dead  *)
(* and that there will be no other, however its slot is reused.              *)
HandlesAsPromised == Promise!Spec

(* The slots are well-formed, and "the subtraction will still give the right *)
(* number" although the counters of parallel workers overflow: it is the     *)
(* number of slots they have, which never exceeds max_parallel_workers.      *)
SlotsExact ==
    /\ TypeOK
    /\ LET taken == {s \in Slots : slot[s].inUse /\ slot[s].kind = "parallel"}
       IN  /\ (parReg - parTerm) % CountMod = Cardinality(taken)
           /\ Cardinality(taken) <= MaxParallel

(* A backend asleep in a wait that is over has been, or is about to be, told *)
(* so: whichever of its paths releases a slot, the postmaster signals after  *)
(* the shared memory says it.                                                *)
NoLostNotice ==
    \A p \in Procs :
        \/ at[p] = "startup_sleep" /\ Awaited(p, "startup")
        \/ at[p] = "shutdown_sleep" /\ Awaited(p, "shutdown")
        => latch[p] \/ p \in pm.notify

(* DetermineSleepTime forgets workers without telling anybody; by the time   *)
(* it looks, maybe_start_bgworkers has left it none.                         *)
SleepForgetsNobody ==
    pm = Idle /\ haveCrashed /\ ~startNeeded =>
        \A s \in Slots : rw[s].listed /\ rw[s].crashed # "no" =>
            slot[s].kind = "restart" /\ ~rw[s].terminate

(* What a backend asks for happens.  A worker told to terminate is gone for  *)
(* good, even one that is just being registered, started or restarted; a     *)
(* wait for startup returns, and one for shutdown when the worker is gone.   *)
RequestsHonoured ==
    /\ \A h \in Handles :
         h = Current(h[1]) /\ slot[h[1]].inUse /\ slot[h[1]].terminate
             ~> Status[h] = "gone"
    /\ \A p \in Waiters :
         /\ at[p] = "startup" ~> at[p] = "idle"
         /\ at[p] = "shutdown" /\ Status[handle[p]] = "gone" ~> at[p] = "idle"
=============================================================================
