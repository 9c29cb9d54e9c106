--------------------------- MODULE BgWorkerProofs ---------------------------
(* Background workers, for any number of slots, backends and registrations:  *)
(* handles keep their promise (HandlesAsPromised), parallel workers are      *)
(* counted right (SlotsExact), nobody misses the notice it waits for         *)
(* (NoLostNotice), and the postmaster's silent clean-up never finds anything *)
(* (SleepForgetsNobody).                                                     *)
EXTENDS BgWorker, FiniteSetTheorems, TLAPS

\* First-order reasoning does for most steps, arithmetic for the others.
USE ZenonT(10), SMTT(30)

Places == {"idle", "signal", "startup", "startup_sleep", "shutdown",
           "shutdown_sleep", "exited", "down"}

SlotRecords == [inUse: BOOLEAN, terminate: BOOLEAN, pid: {"invalid", "none", "run"},
                gen: 0 .. MaxGen, kind: AllKinds, notify: Procs \cup {Nobody}]

ListRecords == [listed: BOOLEAN, pid: {"none", "run"}, crashed: {"no", "recent", "past"},
                terminate: BOOLEAN, notify: Procs \cup {Nobody}]

PmRecords == [at: {"idle", "change", "start", "forget"}, todo: SUBSET Slots,
              notify: SUBSET Procs]

Types ==
    /\ slot \in [Slots -> SlotRecords] /\ rw \in [Slots -> ListRecords]
    /\ pm \in PmRecords /\ proc \in [Handles -> {"none", "running", "told"} \cup Codes]
    /\ latch \in [Procs -> BOOLEAN] /\ at \in [Procs -> Places]
    /\ handle \in [Procs -> Handles \cup {NoHandle}]
    /\ startNeeded \in BOOLEAN

(* The postmaster's list and the shared slot agree: what is listed is in     *)
(* use; a pid is reported when there is one; a slot says that its worker is  *)
(* dead only if it will be restarted or is to be forgotten.                  *)
Booked(s) ==
    /\ slot[s].inUse => slot[s].gen >= 1
    /\ rw[s].listed => slot[s].inUse
    /\ ~rw[s].listed => rw[s].pid = "none" /\ ~rw[s].terminate /\ rw[s].crashed = "no"
    /\ rw[s].pid = "run" => slot[s].pid = "run"
    /\ slot[s].inUse /\ slot[s].pid = "run" => rw[s].pid = "run"
    /\ slot[s].inUse /\ ~rw[s].listed => slot[s].pid = "invalid"
    /\ slot[s].inUse /\ slot[s].pid = "none" => slot[s].kind = "restart" \/ rw[s].terminate
    /\ rw[s].terminate /\ rw[s].pid = "none" => slot[s].pid = "none"

Books == \A s \in Slots : Booked(s)

(* A process belongs to the registration its slot has now.                   *)
Processes ==
    \A h \in Handles :
        proc[h] # "none" => h[2] = slot[h[1]].gen /\ rw[h[1]].pid = "run"

(* A loop over the list meets what is on the list.                           *)
LoopListed == pm.at \in {"start", "forget"} => \A s \in pm.todo : rw[s].listed

HandlesInv == Types /\ Books /\ Processes /\ LoopListed

(* Types that a record or a function update keeps.                           *)
LEMMA Constants ==
    /\ FreeSlot.inUse = FALSE /\ FreeSlot.pid = "none" /\ FreeSlot.kind = "never"
    /\ Unlisted \in ListRecords /\ Unlisted.listed = FALSE /\ Unlisted.pid = "none"
    /\ Unlisted.terminate = FALSE /\ Unlisted.crashed = "no"
    /\ Idle \in PmRecords /\ Idle.at = "idle" /\ Idle.todo = {} /\ Idle.notify = {}
BY DEF FreeSlot, Unlisted, ListRecords, Idle, PmRecords

(* What remains of a loop after a visit.                                     *)
LEMMA VisitedLoop ==
    ASSUME pm \in PmRecords, NEW s \in Slots, NEW whom \in SUBSET Procs,
           Visited(s, whom)
    PROVE  /\ pm' \in PmRecords /\ pm'.notify = whom /\ pm'.todo = pm.todo \ {s}
           /\ pm'.at = pm.at \/ (pm'.at = "idle" /\ pm'.todo = {})
BY DEF Visited, Loop, PmRecords

(* A step that touches one slot keeps the books of the others.               *)
LEMMA OneSlot ==
    ASSUME HandlesInv, NEW s \in Slots, Types', Booked(s)',
           \A r \in Slots \ {s} : slot'[r] = slot[r] /\ rw'[r] = rw[r],
           \A h \in Handles : h[1] # s => proc'[h] = proc[h],
           \A h \in Handles : h[1] = s /\ proc'[h] # "none" =>
               h[2] = slot'[s].gen /\ rw'[s].pid = "run",
           LoopListed'
    PROVE  HandlesInv'
<1>1. Books'
  <2> SUFFICES ASSUME NEW r \in Slots, r # s PROVE Booked(r)'
    BY DEF Books
  <2> QED BY DEF HandlesInv, Books, Booked
<1>2. Processes'
  <2> SUFFICES ASSUME NEW h \in Handles, h[1] # s, proc'[h] # "none"
               PROVE  h[2] = slot'[h[1]].gen /\ rw'[h[1]].pid = "run"
    BY DEF Processes
  <2>1. h[1] \in Slots \ {s} BY DEF Handles
  <2> QED BY <2>1 DEF HandlesInv, Processes
<1> QED BY <1>1, <1>2 DEF HandlesInv

(* Forgetting a worker that has no process.                                  *)
LEMMA ForgetFields ==
    ASSUME HandlesInv, NEW s \in Slots, Forget(s)
    PROVE  /\ slot' \in [Slots -> SlotRecords] /\ rw' \in [Slots -> ListRecords]
           /\ slot'[s].inUse = FALSE /\ slot'[s].pid = "none"
           /\ slot'[s].gen = slot[s].gen /\ rw'[s] = Unlisted
           /\ \A r \in Slots \ {s} : slot'[r] = slot[r] /\ rw'[r] = rw[r]
           /\ Booked(s)'
<1>1. slot[s].gen \in 0 .. MaxGen BY DEF HandlesInv, Types, SlotRecords
<1>2. [FreeSlot EXCEPT !.gen = slot[s].gen] \in SlotRecords
  BY <1>1 DEF FreeSlot, SlotRecords, AllKinds
<1>3. slot' \in [Slots -> SlotRecords] /\ rw' \in [Slots -> ListRecords]
  BY <1>2, Constants DEF HandlesInv, Types, Forget
<1>4. /\ slot'[s] = [FreeSlot EXCEPT !.gen = slot[s].gen] /\ rw'[s] = Unlisted
      /\ \A r \in Slots \ {s} : slot'[r] = slot[r] /\ rw'[r] = rw[r]
  BY DEF HandlesInv, Types, Forget
<1>5. slot'[s].inUse = FALSE /\ slot'[s].gen = slot[s].gen /\ slot'[s].pid = "none"
  BY <1>4 DEF FreeSlot
<1>6. Booked(s)' BY <1>4, <1>5, Constants DEF Booked
<1> QED BY <1>3, <1>4, <1>5, <1>6

(* ... and what a visit leaves of the loop when it does.                     *)
LEMMA VisitLoopListed ==
    ASSUME HandlesInv, NEW s \in Slots, NEW whom \in SUBSET Procs, Visited(s, whom),
           \A r \in Slots \ {s} : rw'[r].listed = rw[r].listed
    PROVE  LoopListed' /\ pm' \in PmRecords
<1>1. /\ pm' \in PmRecords /\ pm'.todo = pm.todo \ {s}
      /\ pm'.at = pm.at \/ (pm'.at = "idle" /\ pm'.todo = {})
  BY VisitedLoop DEF HandlesInv, Types
<1>2. pm.todo \subseteq Slots BY DEF HandlesInv, Types, PmRecords
<1> QED BY <1>1, <1>2 DEF HandlesInv, LoopListed

(* A visit of a loop that forgets the slot.                                  *)
LEMMA VisitForgets ==
    ASSUME HandlesInv, NEW s \in Slots, NEW whom \in SUBSET Procs, Forget(s),
           Visited(s, whom), rw[s].pid = "none",
           UNCHANGED <<proc, procVars>>, startNeeded' \in BOOLEAN
    PROVE  HandlesInv'
<1>1. LoopListed' /\ pm' \in PmRecords
  BY ForgetFields, VisitLoopListed
<1>2. Types' BY <1>1, ForgetFields DEF HandlesInv, Types, procVars
<1>3. \A h \in Handles : h[1] = s => proc'[h] = "none"
  BY DEF HandlesInv, Processes
<1> QED BY <1>1, <1>2, <1>3, ForgetFields, OneSlot

(* Steps of backends and workers.                                            *)
LEMMA BackendKeeps ==
    ASSUME HandlesInv, NEW p \in Procs,
           \/ BackendStep(p) \/ Wait(p, "startup") \/ Wait(p, "shutdown") \/ Exit(p)
    PROVE  HandlesInv'
<1>1. UNCHANGED <<slot, rw, pm, proc, startNeeded>>
  BY DEF BackendStep, SendSignal, Check, WaitLatch, Wait, Exit, slotVars, pmVars
<1>2. /\ latch' \in [Procs -> BOOLEAN] /\ at' \in [Procs -> Places]
      /\ handle' \in [Procs -> Handles \cup {NoHandle}]
  BY DEF HandlesInv, Types, Places, BackendStep, SendSignal, Check, WaitLatch, Wait, Exit
<1> QED BY <1>1, <1>2 DEF HandlesInv, Types, Books, Booked, Processes, LoopListed

(* A registration: a fresh generation of a free slot.                        *)
LEMMA RegisterKeeps ==
    ASSUME HandlesInv, NEW p \in Procs, NEW s \in Slots, NEW kind \in Kinds,
           NEW notify \in Procs \cup {Nobody}, Register(p, s, kind, notify)
    PROVE  HandlesInv'
<1>0. /\ slot \in [Slots -> SlotRecords] /\ slot[s].gen \in 0 .. MaxGen /\ MaxGen \in Nat
      /\ UNCHANGED <<rw, pm, proc, latch, startNeeded>>
  BY BgWorkerAssumption DEF HandlesInv, Types, SlotRecords, Register, pmVars
<1>1. /\ slot'[s].inUse /\ slot'[s].pid = "invalid" /\ slot'[s].gen = slot[s].gen + 1
      /\ \A r \in Slots \ {s} : slot'[r] = slot[r]
  BY <1>0 DEF Register
<1>2. slot[s].gen + 1 \in 1 .. MaxGen BY <1>0 DEF Register
<1>3. slot' \in [Slots -> SlotRecords]
  <2>1. [inUse |-> TRUE, terminate |-> FALSE, pid |-> "invalid",
         gen |-> slot[s].gen + 1, kind |-> kind, notify |-> notify] \in SlotRecords
    BY <1>2, BgWorkerAssumption DEF SlotRecords
  <2> QED BY <1>0, <2>1 DEF Register
<1>4. <<s, slot[s].gen + 1>> \in Handles BY <1>2 DEF Handles
<1>5. Types'
  <2>1. at' \in [Procs -> Places] BY DEF HandlesInv, Types, Register, Places
  <2>2. handle' \in [Procs -> Handles \cup {NoHandle}]
    BY <1>4 DEF HandlesInv, Types, Register
  <2> QED BY <1>0, <1>3, <2>1, <2>2 DEF HandlesInv, Types
<1>6. ~slot[s].inUse /\ Booked(s) BY DEF Register, HandlesInv, Books
<1>7. ~rw[s].listed /\ rw[s].pid = "none" /\ ~rw[s].terminate
  BY <1>6 DEF Booked
<1>8. Booked(s)' BY <1>0, <1>1, <1>2, <1>6, <1>7 DEF Booked
<1>9. \A h \in Handles : h[1] = s => proc'[h] = "none"
  BY <1>0, <1>7 DEF HandlesInv, Processes
<1> QED BY <1>0, <1>1, <1>5, <1>8, <1>9, OneSlot DEF HandlesInv, LoopListed

(* TerminateBackgroundWorker sets a flag of its slot.                        *)
LEMMA TerminateKeeps ==
    ASSUME HandlesInv, NEW p \in Procs, Terminate(p)
    PROVE  HandlesInv'
<1> DEFINE s == handle[p][1]
<1>0. s \in Slots BY DEF HandlesInv, Types, Terminate, Handles
<1>1. UNCHANGED <<rw, pm, proc, latch, handle, startNeeded>>
  BY DEF Terminate, pmVars
<1>2. slot' \in [Slots -> SlotRecords]
  <2>1. slot \in [Slots -> SlotRecords] BY DEF HandlesInv, Types
  <2>2. [slot[s] EXCEPT !.terminate = TRUE] \in SlotRecords
    BY <1>0, <2>1, ZenonT(60) DEF SlotRecords
  <2> QED BY <1>0, <2>1, <2>2 DEF Terminate
<1>3. \A r \in Slots : /\ slot'[r].inUse = slot[r].inUse /\ slot'[r].pid = slot[r].pid
                       /\ slot'[r].gen = slot[r].gen /\ slot'[r].kind = slot[r].kind
  BY <1>0 DEF HandlesInv, Types, SlotRecords, Terminate
<1>4. at' \in [Procs -> Places] BY DEF HandlesInv, Types, Terminate, Places
<1>5. Types' BY <1>1, <1>2, <1>4 DEF HandlesInv, Types
<1>6. Books' BY <1>1, <1>3 DEF HandlesInv, Books, Booked
<1>7. Processes'
  <2>1. \A h \in Handles : h[1] \in Slots BY DEF Handles
  <2> QED BY <1>1, <1>3, <2>1 DEF HandlesInv, Processes
<1> QED BY <1>1, <1>5, <1>6, <1>7 DEF HandlesInv, LoopListed

(* A process ends; its slot and entry do not know.                           *)
LEMMA WorkerExitKeeps ==
    ASSUME HandlesInv, NEW h \in Handles, NEW code \in Codes, WorkerExit(h, code)
    PROVE  HandlesInv'
<1>1. UNCHANGED <<slot, rw, pm, latch, at, handle, startNeeded>>
  BY DEF WorkerExit, slotVars, pmVars, procVars
<1>2. /\ proc' \in [Handles -> {"none", "running", "told"} \cup Codes]
      /\ \A g \in Handles : proc'[g] # "none" => proc[g] # "none"
  BY DEF HandlesInv, Types, WorkerExit
<1> QED BY <1>1, <1>2 DEF HandlesInv, Types, Books, Booked, Processes, LoopListed

(* Steps of the postmaster that do not touch a slot.                         *)
LEMMA PostmasterKeeps ==
    ASSUME HandlesInv, Notify \/ StateChange \/ MaybeStart \/ StopBackends
    PROVE  HandlesInv'
<1>1. UNCHANGED <<slot, rw, at, handle>>
  BY DEF Notify, StateChange, MaybeStart, StopBackends, slotVars, procVars
<1>2. pm' \in PmRecords /\ LoopListed'
  <2>1. CASE Notify BY <2>1 DEF HandlesInv, Types, PmRecords, LoopListed, Notify
  <2>2. CASE StateChange
    BY <2>2 DEF StateChange, Loop, PmRecords, LoopListed
  <2>3. CASE MaybeStart \/ StopBackends
    BY <1>1, <2>3 DEF MaybeStart, StopBackends, Loop, PmRecords, LoopListed
  <2> QED BY <2>1, <2>2, <2>3
<1>3. latch' \in [Procs -> BOOLEAN] /\ startNeeded' \in BOOLEAN
  BY DEF HandlesInv, Types, PmRecords, Notify, StateChange, MaybeStart, StopBackends,
         procVars
<1>4. /\ proc' \in [Handles -> {"none", "running", "told"} \cup Codes]
      /\ \A h \in Handles : proc'[h] # "none" => proc[h] # "none"
  BY DEF HandlesInv, Types, Notify, StateChange, MaybeStart, StopBackends
<1> QED BY <1>1, <1>2, <1>3, <1>4 DEF HandlesInv, Types, Books, Booked, Processes

(* A visit that only changes the entry of the list, if that.                 *)
LEMMA VisitKeeps ==
    ASSUME HandlesInv, NEW s \in Slots, NEW whom \in SUBSET Procs, Visited(s, whom),
           rw' \in [Slots -> ListRecords], slot' \in [Slots -> SlotRecords],
           \A r \in Slots \ {s} : slot'[r] = slot[r] /\ rw'[r] = rw[r],
           slot'[s].gen = slot[s].gen, Booked(s)',
           rw[s].pid = "run" => rw'[s].pid = "run",
           proc' \in [Handles -> {"none", "running", "told"} \cup Codes],
           \A h \in Handles : h[1] # s => proc'[h] = proc[h],
           \A h \in Handles : h[1] = s => (proc'[h] # "none" => proc[h] # "none"),
           UNCHANGED procVars, startNeeded' \in BOOLEAN
    PROVE  HandlesInv'
<1>1. LoopListed' /\ pm' \in PmRecords BY VisitLoopListed
<1>2. Types' BY <1>1 DEF HandlesInv, Types, procVars
<1>3. \A h \in Handles : h[1] = s /\ proc'[h] # "none" =>
          h[2] = slot'[s].gen /\ rw'[s].pid = "run"
  BY DEF HandlesInv, Processes
<1> QED BY <1>1, <1>2, <1>3, OneSlot

(* Only backends are notified.                                               *)
LEMMA WhomType ==
    ASSUME Types, NEW s \in Slots
    PROVE  Whom(rw[s].notify) \in SUBSET Procs /\ Whom(slot[s].notify) \in SUBSET Procs
BY DEF Types, ListRecords, SlotRecords, Whom

(* BackgroundWorkerStateChange, one slot.                                    *)
LEMMA StateChangeKeeps ==
    ASSUME HandlesInv, NEW s \in Slots, StateChangeSlot(s)
    PROVE  HandlesInv'
<1>0. /\ Types /\ Booked(s) /\ rw[s] \in ListRecords /\ slot[s] \in SlotRecords
      /\ rw \in [Slots -> ListRecords] /\ slot \in [Slots -> SlotRecords]
      /\ proc \in [Handles -> {"none", "running", "told"} \cup Codes]
      /\ UNCHANGED <<latch, at, handle, startNeeded>> /\ startNeeded \in BOOLEAN
      /\ UNCHANGED procVars
  BY DEF HandlesInv, Types, Books, StateChangeSlot, procVars
<1>1. CASE Visited(s, {}) /\ UNCHANGED <<slotVars, rw, proc>>
  <2>1. Booked(s)' BY <1>0, <1>1 DEF Booked, slotVars
  <2> QED BY <1>0, <1>1, <2>1, VisitKeeps DEF slotVars
<1>2. CASE slot[s].inUse /\ rw[s].listed /\ TerminateKnown(s)
  <2>1. /\ rw' \in [Slots -> ListRecords]
        /\ rw'[s].terminate = TRUE /\ rw'[s].pid = rw[s].pid
        /\ rw'[s].listed = rw[s].listed
        /\ \A r \in Slots \ {s} : rw'[r] = rw[r]
    BY <1>0, <1>2 DEF TerminateKnown, ListRecords
  <2>2. CASE rw[s].pid = "run"
    <3>1. UNCHANGED slot /\ Visited(s, {}) BY <1>2, <2>2 DEF TerminateKnown
    <3>2. /\ proc' \in [Handles -> {"none", "running", "told"} \cup Codes]
          /\ \A h \in Handles : h[1] # s => proc'[h] = proc[h]
          /\ \A h \in Handles : proc'[h] # "none" => proc[h] # "none"
      BY <1>0, <1>2, <2>2 DEF TerminateKnown, Current
    <3>3. Booked(s)' BY <1>0, <2>1, <2>2, <3>1 DEF Booked
    <3> QED BY <1>0, <2>1, <3>1, <3>2, <3>3, VisitKeeps
  <2>3. CASE rw[s].pid # "run"
    <3>0. /\ slot' = [slot EXCEPT ![s].pid = "none"] /\ UNCHANGED proc
          /\ Visited(s, Whom(rw[s].notify))
      BY <1>2, <2>3 DEF TerminateKnown
    <3>1. /\ slot' \in [Slots -> SlotRecords]
          /\ slot'[s].pid = "none" /\ slot'[s].gen = slot[s].gen
          /\ slot'[s].inUse = slot[s].inUse /\ slot'[s].kind = slot[s].kind
          /\ \A r \in Slots \ {s} : slot'[r] = slot[r]
      BY <1>0, <3>0 DEF SlotRecords
    <3>2. rw[s].pid = "none" BY <1>0, <2>3 DEF ListRecords
    <3>3. Booked(s)' BY <1>0, <1>2, <2>1, <3>1, <3>2 DEF Booked
    <3> QED BY <1>0, <2>1, <2>3, <3>0, <3>1, <3>3, VisitKeeps, WhomType
  <2> QED BY <2>2, <2>3
<1>3. CASE ~rw[s].listed /\ RejectNew(s)
  <2>1. rw[s].pid = "none" BY <1>0, <1>3 DEF Booked
  <2> QED BY <1>0, <1>3, <2>1, VisitForgets, WhomType DEF RejectNew
<1>4. CASE slot[s].inUse /\ ~rw[s].listed /\ Enlist(s)
  <2>1. UNCHANGED <<slot, proc>> /\ Visited(s, {}) BY <1>4 DEF Enlist, slotVars
  <2>2. PICK n \in Procs \cup {Nobody} :
          rw' = [rw EXCEPT ![s] = [Unlisted EXCEPT !.listed = TRUE, !.notify = n]]
    BY <1>4 DEF Enlist, Backends
  <2>3. [Unlisted EXCEPT !.listed = TRUE, !.notify = n] \in ListRecords
    BY DEF Unlisted, ListRecords
  <2>4. /\ rw' \in [Slots -> ListRecords] /\ rw'[s].listed /\ rw'[s].pid = "none"
        /\ ~rw'[s].terminate /\ \A r \in Slots \ {s} : rw'[r] = rw[r]
    BY <1>0, <2>2, <2>3 DEF Unlisted
  <2>5. rw[s].pid = "none" /\ slot[s].pid = "invalid" BY <1>0, <1>4 DEF Booked
  <2>6. Booked(s)' BY <1>0, <1>4, <2>1, <2>4, <2>5 DEF Booked
  <2> QED BY <1>0, <2>1, <2>4, <2>5, <2>6, VisitKeeps
<1> QED BY <1>1, <1>2, <1>3, <1>4 DEF StateChangeSlot

(* maybe_start_bgworkers, one entry.                                         *)
LEMMA MaybeStartKeeps ==
    ASSUME HandlesInv, NEW s \in Slots, MaybeStartSlot(s)
    PROVE  HandlesInv'
<1>0. /\ Types /\ Booked(s) /\ rw[s] \in ListRecords /\ slot[s] \in SlotRecords
      /\ rw \in [Slots -> ListRecords] /\ slot \in [Slots -> SlotRecords]
      /\ proc \in [Handles -> {"none", "running", "told"} \cup Codes]
      /\ startNeeded \in BOOLEAN /\ UNCHANGED procVars
  BY DEF HandlesInv, Types, Books, MaybeStartSlot
<1>1. CASE Visited(s, {}) /\ UNCHANGED <<slotVars, rw, proc, startNeeded>>
  <2>1. Booked(s)' BY <1>0, <1>1 DEF Booked, slotVars
  <2> QED BY <1>0, <1>1, <2>1, VisitKeeps DEF slotVars
<1>2. ASSUME NEW whom \in SUBSET Procs, rw[s].pid = "none", Forget(s),
             Visited(s, whom), UNCHANGED <<proc, startNeeded>>
      PROVE  HandlesInv'
  BY <1>0, <1>2, VisitForgets
<1>3. rw[s].listed
  BY DEF MaybeStartSlot, Visiting, HandlesInv, LoopListed
<1>4. slot[s].inUse /\ slot[s].gen \in 1 .. MaxGen
  BY <1>0, <1>3, BgWorkerAssumption DEF Booked, SlotRecords
<1>5. CASE rw[s].pid = "none" /\ ~rw[s].terminate /\ Launch(s)
  <2>1. /\ rw' \in [Slots -> ListRecords]
        /\ rw'[s].pid = "run" /\ rw'[s].listed
        /\ rw'[s].terminate = rw[s].terminate
        /\ \A r \in Slots \ {s} : rw'[r] = rw[r]
    BY <1>0, <1>3, <1>5 DEF Launch, ListRecords
  <2>2. /\ slot' \in [Slots -> SlotRecords]
        /\ slot'[s].pid = "run" /\ slot'[s].gen = slot[s].gen
        /\ slot'[s].inUse = slot[s].inUse
        /\ \A r \in Slots \ {s} : slot'[r] = slot[r]
    BY <1>0, <1>5 DEF Launch, SlotRecords
  <2>3. /\ proc' \in [Handles -> {"none", "running", "told"} \cup Codes]
        /\ \A h \in Handles : h # Current(s) => proc'[h] = proc[h]
    BY <1>0, <1>5 DEF Launch
  <2>4. Booked(s)' BY <1>0, <1>4, <2>1, <2>2 DEF Booked
  <2>5. \A h \in Handles : h[1] = s /\ proc'[h] # "none" =>
            h[2] = slot'[s].gen /\ rw'[s].pid = "run"
    BY <1>5, <2>1, <2>2, <2>3 DEF HandlesInv, Processes, Current
  <2>6. \A h \in Handles : h[1] # s => proc'[h] = proc[h] BY <2>3 DEF Current
  <2>7. LoopListed' /\ pm' \in PmRecords
    BY <1>0, <1>5, <2>1, VisitLoopListed, WhomType DEF Launch
  <2>8. Types' BY <1>0, <1>5, <2>1, <2>2, <2>3, <2>7 DEF Launch, Types, procVars
  <2> QED BY <2>1, <2>2, <2>4, <2>5, <2>6, <2>7, <2>8, OneSlot
<1>6. CASE rw[s].pid = "none" /\ ~rw[s].terminate /\ LaunchFails(s)
  <2>1. /\ rw' \in [Slots -> ListRecords]
        /\ rw'[s].pid = "none" /\ rw'[s].listed
        /\ rw'[s].terminate = rw[s].terminate
        /\ \A r \in Slots \ {s} : rw'[r] = rw[r]
    BY <1>0, <1>3, <1>6 DEF LaunchFails, ListRecords
  <2>2. UNCHANGED <<slot, proc>> /\ startNeeded' = TRUE /\ pm' = Idle
    BY <1>6 DEF LaunchFails, slotVars
  <2>3. Booked(s)' BY <1>0, <1>4, <1>6, <2>1, <2>2 DEF Booked
  <2>4. \A h \in Handles : h[1] = s => proc'[h] = "none"
    BY <1>6, <2>2 DEF HandlesInv, Processes
  <2>5. LoopListed' BY <2>2, Constants DEF LoopListed
  <2>6. Types' BY <1>0, <2>1, <2>2, Constants DEF Types, procVars
  <2> QED BY <2>1, <2>2, <2>3, <2>4, <2>5, <2>6, OneSlot
<1>7. Whom(rw[s].notify) \in SUBSET Procs /\ {} \in SUBSET Procs
  BY <1>0, WhomType
<1> QED BY <1>1, <1>2, <1>5, <1>6, <1>7 DEF MaybeStartSlot

(* ForgetUnstartedBackgroundWorkers, one entry.                              *)
LEMMA ForgetUnstartedKeeps ==
    ASSUME HandlesInv, NEW s \in Slots, ForgetUnstarted(s)
    PROVE  HandlesInv'
<1>0. /\ Types /\ Booked(s) /\ rw[s] \in ListRecords
      /\ rw \in [Slots -> ListRecords] /\ slot \in [Slots -> SlotRecords]
      /\ proc \in [Handles -> {"none", "running", "told"} \cup Codes]
      /\ startNeeded \in BOOLEAN /\ UNCHANGED <<proc, procVars, startNeeded>>
  BY DEF HandlesInv, Types, Books, ForgetUnstarted
<1>1. CASE Visited(s, {}) /\ UNCHANGED <<slotVars, rw>>
  <2>1. Booked(s)' BY <1>0, <1>1 DEF Booked, slotVars
  <2> QED BY <1>0, <1>1, <2>1, VisitKeeps DEF slotVars
<1>2. CASE slot[s].pid = "invalid" /\ Forget(s) /\ Visited(s, Whom(rw[s].notify))
  <2>1. rw[s].pid = "none" BY <1>0, <1>2 DEF Booked, ListRecords
  <2> QED BY <1>0, <1>2, <2>1, VisitForgets, WhomType
<1> QED BY <1>1, <1>2 DEF ForgetUnstarted

(* CleanupBackend of a worker.                                               *)
LEMMA CleanupWorkerKeeps ==
    ASSUME HandlesInv, NEW h \in Handles, NEW code \in Codes, CleanupWorker(h, code)
    PROVE  HandlesInv'
<1> DEFINE s == h[1]
<1>0. /\ s \in Slots /\ Types /\ Booked(s) /\ rw[s] \in ListRecords
      /\ rw \in [Slots -> ListRecords] /\ slot \in [Slots -> SlotRecords]
      /\ UNCHANGED <<latch, at, handle, startNeeded>>
  BY DEF HandlesInv, Types, Books, Handles, CleanupWorker, procVars
<1>1. /\ proc' \in [Handles -> {"none", "running", "told"} \cup Codes]
      /\ proc'[h] = "none" /\ \A g \in Handles : g # h => proc'[g] = proc[g]
  BY DEF HandlesInv, Types, CleanupWorker
<1>2. h[2] = slot[s].gen /\ rw[s].pid = "run"
  BY DEF HandlesInv, Processes, CleanupWorker, Codes
<1>3. \A g \in Handles : g[1] = s => proc'[g] = "none"
  <2> SUFFICES ASSUME NEW g \in Handles, g[1] = s, proc'[g] # "none" PROVE FALSE
    OBVIOUS
  <2>1. g # h /\ proc[g] # "none" BY <1>1
  <2>2. g[2] = slot[s].gen BY <2>1 DEF HandlesInv, Processes
  <2> QED BY <1>2, <2>1, <2>2 DEF Handles
<1>4. \A g \in Handles : g[1] # s => proc'[g] = proc[g] BY <1>1
<1>5. pm' \in PmRecords /\ LoopListed'
  BY <1>0, WhomType, Constants DEF CleanupWorker, PmRecords, Idle, LoopListed
<1>6. CASE Forget(s)
  <2>1. Types' BY <1>0, <1>1, <1>5, <1>6, ForgetFields DEF Types
  <2> QED BY <1>0, <1>3, <1>4, <1>5, <1>6, <2>1, ForgetFields, OneSlot
<1>7. CASE /\ ~Unregisters(s, code)
           /\ rw' = [rw EXCEPT ![s].pid = "none", ![s].crashed = "recent"]
           /\ slot' = [slot EXCEPT ![s].pid = "none"]
  <2>1. ~rw[s].terminate /\ slot[s].kind = "restart" BY <1>7 DEF Unregisters
  <2>2. /\ rw' \in [Slots -> ListRecords]
        /\ rw'[s].pid = "none" /\ rw'[s].listed = rw[s].listed
        /\ rw'[s].terminate = rw[s].terminate
        /\ \A r \in Slots \ {s} : rw'[r] = rw[r]
    BY <1>0, <1>7 DEF ListRecords
  <2>3. /\ slot' \in [Slots -> SlotRecords]
        /\ slot'[s].pid = "none" /\ slot'[s].gen = slot[s].gen
        /\ slot'[s].inUse = slot[s].inUse /\ slot'[s].kind = slot[s].kind
        /\ \A r \in Slots \ {s} : slot'[r] = slot[r]
    BY <1>0, <1>7 DEF SlotRecords
  <2>4. Types' BY <1>0, <1>1, <1>5, <2>2, <2>3 DEF Types
  <2>5. rw[s].listed BY <1>0, <1>2 DEF Booked
  <2>6. Booked(s)' BY <1>0, <2>1, <2>2, <2>3, <2>5 DEF Booked
  <2> QED BY <1>0, <1>3, <1>4, <1>5, <2>2, <2>3, <2>4, <2>6, OneSlot
<1> QED BY <1>6, <1>7 DEF CleanupWorker

(* CleanupBackend of a backend changes only whom to notify.                  *)
LEMMA CleanupBackendKeeps ==
    ASSUME HandlesInv, NEW p \in Procs, CleanupBackend(p)
    PROVE  HandlesInv'
<1>1. UNCHANGED <<slot, pm, proc, latch, handle, startNeeded>>
  BY DEF CleanupBackend, slotVars
<1>2. rw' \in [Slots -> ListRecords]
  BY DEF HandlesInv, Types, CleanupBackend, ListRecords
<1>3. \A s \in Slots : /\ rw'[s].listed = rw[s].listed /\ rw'[s].pid = rw[s].pid
                       /\ rw'[s].terminate = rw[s].terminate
                       /\ rw'[s].crashed = rw[s].crashed
  BY DEF HandlesInv, Types, CleanupBackend, ListRecords
<1>4. at' \in [Procs -> Places] BY DEF HandlesInv, Types, CleanupBackend, Places
<1>5. Books' BY <1>1, <1>3 DEF HandlesInv, Books, Booked
<1>6. Processes'
  <2>1. \A h \in Handles : h[1] \in Slots BY DEF Handles
  <2> QED BY <1>1, <1>3, <2>1 DEF HandlesInv, Processes
<1>7. LoopListed' BY <1>1, <1>3 DEF HandlesInv, LoopListed, Types, PmRecords
<1> QED BY <1>1, <1>2, <1>4, <1>5, <1>6, <1>7 DEF HandlesInv, Types

(* The passing of bgw_restart_time.                                          *)
LEMMA RestartTimeKeeps ==
    ASSUME HandlesInv, NEW s \in Slots, RestartTimePasses(s)
    PROVE  HandlesInv'
<1>1. UNCHANGED <<slot, pm, proc, latch, at, handle, startNeeded>>
  BY DEF RestartTimePasses, slotVars, procVars
<1>2. rw' \in [Slots -> ListRecords]
  BY DEF HandlesInv, Types, RestartTimePasses, ListRecords
<1>3. \A r \in Slots : /\ rw'[r].listed = rw[r].listed /\ rw'[r].pid = rw[r].pid
                       /\ rw'[r].terminate = rw[r].terminate
  BY DEF HandlesInv, Types, RestartTimePasses, ListRecords
<1>4. \A r \in Slots : rw'[r].crashed = "no" <=> rw[r].crashed = "no"
  BY DEF HandlesInv, Types, RestartTimePasses, ListRecords
<1>5. Books' BY <1>1, <1>3, <1>4 DEF HandlesInv, Books, Booked
<1>6. Processes'
  <2>1. \A h \in Handles : h[1] \in Slots BY DEF Handles
  <2> QED BY <1>1, <1>3, <2>1 DEF HandlesInv, Processes
<1>7. LoopListed' BY <1>1, <1>3 DEF HandlesInv, LoopListed, Types, PmRecords
<1> QED BY <1>1, <1>2, <1>5, <1>6, <1>7 DEF HandlesInv, Types

(* The books are in order initially.                                         *)
LEMMA HandlesInit == Init => HandlesInv
<1> SUFFICES ASSUME Init PROVE HandlesInv
  OBVIOUS
<1>1. FreeSlot \in SlotRecords
  BY BgWorkerAssumption DEF FreeSlot, SlotRecords, AllKinds
<1>2. Types BY <1>1, Constants DEF Init, Types, Places
<1>3. Books BY Constants DEF Init, Books, Booked
<1> QED BY <1>2, <1>3, Constants DEF Init, HandlesInv, Processes, LoopListed

(* Every step keeps the books in order.                                      *)
LEMMA HandlesStep == HandlesInv /\ [Next]_vars => HandlesInv'
<1> SUFFICES ASSUME HandlesInv, [Next]_vars PROVE HandlesInv'
  OBVIOUS
<1>1. ASSUME NEW p \in Procs, NEW s \in Slots, NEW kind \in Kinds,
             Register(p, s, kind, IF p \in Waiters THEN p ELSE Nobody)
      PROVE  HandlesInv'
  BY <1>1, RegisterKeeps
<1>2. CASE Handling
  BY <1>2, PostmasterKeeps, StateChangeKeeps, MaybeStartKeeps, ForgetUnstartedKeeps
     DEF Handling
<1>3. ASSUME NEW h \in Handles, Reap(h) PROVE HandlesInv'
  BY <1>3, CleanupWorkerKeeps DEF Reap
<1>4. CASE UNCHANGED vars
  BY <1>4 DEF vars, slotVars, pmVars, procVars, HandlesInv, Types, Books, Booked,
              Processes, LoopListed
<1> QED BY <1>1, <1>2, <1>3, <1>4, BackendKeeps, TerminateKeeps, WorkerExitKeeps,
           PostmasterKeeps, CleanupBackendKeeps, RestartTimeKeeps DEF Next

(****************************** The refinement ******************************)

(* What a handle says depends on its own slot and entry.                     *)
LEMMA SameStatus ==
    ASSUME HandlesInv, NEW h \in Handles, slot'[h[1]].gen = slot[h[1]].gen,
           \/ h[2] # slot[h[1]].gen
           \/ /\ slot'[h[1]].inUse = slot[h[1]].inUse /\ slot'[h[1]].pid = slot[h[1]].pid
              /\ slot'[h[1]].kind = slot[h[1]].kind
              /\ \/ rw'[h[1]].terminate = rw[h[1]].terminate
                 \/ slot[h[1]].pid \in {"invalid", "run"}
    PROVE  Status'[h] = Status[h]
<1>1. h[2] \in Int /\ h[1] \in Slots BY DEF Handles
<1>2. slot[h[1]].gen \in Int BY <1>1 DEF HandlesInv, Types, SlotRecords
<1> QED BY <1>1, <1>2 DEF Status

(* A step that touches one slot and leaves its generation says nothing new   *)
(* of other registrations.                                                   *)
LEMMA OneStatus ==
    ASSUME HandlesInv, NEW s \in Slots, slot'[s].gen = slot[s].gen,
           \A r \in Slots \ {s} : slot'[r] = slot[r] /\ rw'[r] = rw[r]
    PROVE  \A h \in Handles : h # Current(s) => Status'[h] = Status[h]
<1> SUFFICES ASSUME NEW h \in Handles, h # Current(s) PROVE Status'[h] = Status[h]
  OBVIOUS
<1>1. h[1] \in Slots /\ h = <<h[1], h[2]>> BY DEF Handles
<1>2. CASE h[1] = s
  <2>1. h[2] # slot[s].gen BY <1>1, <1>2 DEF Current
  <2> QED BY <1>2, <2>1, SameStatus
<1>3. CASE h[1] # s BY <1>1, <1>3, SameStatus
<1> QED BY <1>2, <1>3

(* One answer changes.                                                       *)
LEMMA StatusExcept ==
    ASSUME NEW c \in Handles, NEW v, Status'[c] = v,
           \A h \in Handles : h # c => Status'[h] = Status[h]
    PROVE  Status' = [Status EXCEPT ![c] = v]
<1> DEFINE f == Status g == Status'
<1>1. f = [h \in Handles |-> f[h]] BY DEF Status
<1>2. g = [h \in Handles |-> g[h]] BY DEF Status
<1>3. g[c] = v /\ \A h \in Handles : h # c => g[h] = f[h] OBVIOUS
<1> HIDE DEF f, g
<1>4. g = [f EXCEPT ![c] = v] BY <1>1, <1>2, <1>3
<1> QED BY <1>4 DEF f, g

(* A registration in use becomes "gone" when no process runs for it.         *)
LEMMA GoneRefines ==
    ASSUME HandlesInv, NEW s \in Slots, slot[s].inUse, slot'[s].gen = slot[s].gen,
           \A r \in Slots \ {s} : slot'[r] = slot[r] /\ rw'[r] = rw[r],
           Current(s) \notin Alive, UNCHANGED Alive, Status'[Current(s)] = "gone"
    PROVE  Promise!Next \/ UNCHANGED <<Status, Alive>>
<1> DEFINE c == Current(s)
<1>1. c \in Handles
  BY DEF HandlesInv, Books, Booked, Types, SlotRecords, Current, Handles
<1>2. \A h \in Handles : h # c => Status'[h] = Status[h] BY OneStatus
<1>3. Status' = [Status EXCEPT ![c] = "gone"] BY <1>1, <1>2, StatusExcept
<1>4. Status[c] \in {"waiting", "started", "resting", "gone"}
  BY <1>1 DEF Status, Current, HandlesInv, Types, SlotRecords, Handles
<1>5. CASE Status[c] = "gone"
  <2>1. Status' = Status BY <1>1, <1>2, <1>5 DEF Status
  <2> QED BY <2>1
<1>6. CASE Status[c] # "gone"
  <2>1. Promise!Unregister(c) BY <1>3, <1>4, <1>6 DEF Promise!Unregister
  <2> QED BY <1>1, <2>1 DEF Promise!Next
<1> QED BY <1>5, <1>6

(* ForgetBackgroundWorker, when no process is left.                          *)
LEMMA ForgetRefines ==
    ASSUME HandlesInv, NEW s \in Slots, Forget(s), slot[s].inUse,
           Current(s) \notin Alive, UNCHANGED Alive
    PROVE  Promise!Next \/ UNCHANGED <<Status, Alive>>
<1>1. /\ slot'[s].gen = slot[s].gen /\ slot'[s].inUse = FALSE
      /\ \A r \in Slots \ {s} : slot'[r] = slot[r] /\ rw'[r] = rw[r]
  BY ForgetFields
<1>2. Current(s) \in Handles
  BY DEF HandlesInv, Books, Booked, Types, SlotRecords, Current, Handles
<1>3. Status'[Current(s)] = "gone"
  BY <1>1, <1>2 DEF Status, Current, HandlesInv, Types, SlotRecords
<1> QED BY <1>1, <1>3, GoneRefines

(* No process runs where the list says there is none.                        *)
LEMMA NotAlive ==
    ASSUME HandlesInv, NEW s \in Slots, slot[s].inUse, rw[s].pid = "none"
    PROVE  Current(s) \in Handles /\ Current(s) \notin Alive
<1>1. Current(s) \in Handles
  BY DEF HandlesInv, Books, Booked, Types, SlotRecords, Current, Handles
<1>2. proc[Current(s)] = "none"
  BY <1>1 DEF HandlesInv, Processes, Current
<1> QED BY <1>1, <1>2 DEF Alive

(* A registration begins the life of a handle nobody has had.                *)
LEMMA RegisterRefines ==
    ASSUME HandlesInv, NEW p \in Procs, NEW s \in Slots, NEW kind \in Kinds,
           NEW notify \in Procs \cup {Nobody}, Register(p, s, kind, notify)
    PROVE  Promise!Next
<1> DEFINE c == <<s, slot[s].gen + 1>>
<1>0. /\ slot \in [Slots -> SlotRecords] /\ slot[s].gen \in 0 .. MaxGen /\ MaxGen \in Nat
      /\ UNCHANGED <<rw, proc>> /\ ~slot[s].inUse
  BY BgWorkerAssumption DEF HandlesInv, Types, SlotRecords, Register, pmVars
<1>1. /\ slot'[s].inUse /\ slot'[s].pid = "invalid" /\ slot'[s].gen = slot[s].gen + 1
      /\ \A r \in Slots \ {s} : slot'[r] = slot[r]
  BY <1>0 DEF Register
<1>2. c \in Handles /\ slot[s].gen + 1 \in 1 .. MaxGen BY <1>0 DEF Register, Handles
<1>3. Status[c] = "none" /\ Status'[c] = "waiting"
  BY <1>0, <1>1, <1>2 DEF Status
<1>4. ASSUME NEW h \in Handles, h # c PROVE Status'[h] = Status[h]
  <2>1. h[1] \in Slots /\ h[2] \in 1 .. MaxGen /\ h = <<h[1], h[2]>> BY DEF Handles
  <2>2. CASE h[1] = s
    <3>1. h[2] # slot[s].gen + 1 BY <1>4, <2>1, <2>2
    <3>2. CASE h[2] > slot[s].gen
      BY <1>0, <1>1, <2>1, <2>2, <3>1, <3>2 DEF Status
    <3>3. CASE h[2] <= slot[s].gen
      BY <1>0, <1>1, <2>1, <2>2, <3>3 DEF Status
    <3> QED BY <1>0, <2>1, <3>2, <3>3
  <2>3. CASE h[1] # s BY <1>0, <1>1, <2>1, <2>3, SameStatus
  <2> QED BY <2>2, <2>3
<1>5. Status' = [Status EXCEPT ![c] = "waiting"] BY <1>2, <1>3, <1>4, StatusExcept
<1>6. UNCHANGED Alive BY <1>0 DEF Alive
<1>7. Promise!Register(c) BY <1>3, <1>5, <1>6 DEF Promise!Register
<1> QED BY <1>2, <1>7 DEF Promise!Next

(* Launch starts the worker; its process is new.                             *)
LEMMA LaunchRefines ==
    ASSUME HandlesInv, NEW s \in Slots, rw[s].listed, rw[s].pid = "none",
           ~rw[s].terminate, ~GivesUp(s), Launch(s)
    PROVE  Promise!Next
<1> DEFINE c == Current(s)
<1>0. /\ slot \in [Slots -> SlotRecords] /\ rw \in [Slots -> ListRecords]
      /\ proc \in [Handles -> {"none", "running", "told"} \cup Codes]
  BY DEF HandlesInv, Types
<1>1. slot[s].inUse /\ c \in Handles /\ c \notin Alive
  BY NotAlive DEF HandlesInv, Books, Booked
<1>2. /\ slot'[s].gen = slot[s].gen /\ slot'[s].pid = "run" /\ slot'[s].inUse
      /\ \A r \in Slots \ {s} : slot'[r] = slot[r] /\ rw'[r] = rw[r]
  BY <1>0, <1>1 DEF Launch
<1>3. \A h \in Handles : h # c => Status'[h] = Status[h] BY <1>2, OneStatus
<1>4. Status[c] \in {"waiting", "resting"} /\ Status'[c] = "started"
  <2>1. slot[s].gen \in Int BY <1>0 DEF SlotRecords
  <2>2. slot[s].pid = "invalid" \/ (slot[s].pid = "none" /\ slot[s].kind = "restart")
    BY <1>0, <1>1 DEF SlotRecords, HandlesInv, Books, Booked
  <2>3. Status[c] \in {"waiting", "resting"} BY <1>1, <2>1, <2>2 DEF Status, Current
  <2>4. Status'[c] = "started" BY <1>1, <1>2, <2>1 DEF Status, Current
  <2> QED BY <2>3, <2>4
<1>5. Status' = [Status EXCEPT ![c] = "started"] BY <1>1, <1>3, <1>4, StatusExcept
<1>6. Alive' = Alive \cup {c} BY <1>0, <1>1 DEF Alive, Launch
<1>7. Promise!Start(c) BY <1>1, <1>4, <1>5, <1>6 DEF Promise!Start
<1> QED BY <1>1, <1>7 DEF Promise!Next

(* An exit is the death of the process; its handle does not know yet.        *)
LEMMA WorkerExitRefines ==
    ASSUME HandlesInv, NEW h \in Handles, NEW code \in Codes, WorkerExit(h, code)
    PROVE  Promise!Next
<1>1. UNCHANGED Status BY DEF WorkerExit, slotVars, pmVars, Status
<1>2. /\ proc[h] \in {"running", "told"} /\ proc'[h] \notin {"running", "told"}
      /\ \A g \in Handles : g # h => proc'[g] = proc[g]
  BY DEF HandlesInv, Types, WorkerExit, Codes
<1>3. h \in Alive BY <1>2 DEF Alive
<1>4. Alive' = Alive \ {h} BY <1>2 DEF Alive
<1>5. Promise!Die(h) BY <1>1, <1>3, <1>4 DEF Promise!Die
<1> QED BY <1>5 DEF Promise!Next

(* The postmaster learns of it: the worker rests, or that was all.           *)
LEMMA CleanupWorkerRefines ==
    ASSUME HandlesInv, NEW h \in Handles, NEW code \in Codes, CleanupWorker(h, code)
    PROVE  Promise!Next \/ UNCHANGED <<Status, Alive>>
<1> DEFINE s == h[1]
<1>0. /\ slot \in [Slots -> SlotRecords] /\ rw \in [Slots -> ListRecords]
      /\ proc \in [Handles -> {"none", "running", "told"} \cup Codes]
  BY DEF HandlesInv, Types
<1>1. s \in Slots /\ h = <<s, h[2]>> BY DEF Handles
<1>2. proc[h] = code /\ code \notin {"none", "running", "told"}
  BY DEF CleanupWorker, Codes
<1>3. h[2] = slot[s].gen /\ rw[s].pid = "run" BY <1>2 DEF HandlesInv, Processes
<1>4. h = Current(s) BY <1>1, <1>3 DEF Current
<1>5. slot[s].pid = "run" /\ slot[s].inUse
  BY <1>1, <1>3 DEF HandlesInv, Books, Booked
<1>6. h \notin Alive /\ UNCHANGED Alive
  <2>1. proc'[h] = "none" /\ \A g \in Handles : g # h => proc'[g] = proc[g]
    BY <1>0 DEF CleanupWorker
  <2>2. h \notin Alive BY <1>2 DEF Alive
  <2>3. \A g \in Handles : proc'[g] \in {"running", "told"} <=> proc[g] \in {"running", "told"}
    BY <1>2, <2>1
  <2>4. UNCHANGED Alive BY <2>3 DEF Alive
  <2> QED BY <2>2, <2>4
<1>7. CASE Unregisters(s, code)
  <2>1. Forget(s) BY <1>7 DEF CleanupWorker
  <2> QED BY <1>1, <1>4, <1>5, <1>6, <2>1, ForgetRefines
<1>8. CASE ~Unregisters(s, code)
  <2>1. /\ rw' = [rw EXCEPT ![s].pid = "none", ![s].crashed = "recent"]
        /\ slot' = [slot EXCEPT ![s].pid = "none"]
    BY <1>8 DEF CleanupWorker
  <2>2. /\ slot'[s].gen = slot[s].gen /\ slot'[s].inUse /\ slot'[s].pid = "none"
        /\ slot'[s].kind = slot[s].kind /\ rw'[s].terminate = rw[s].terminate
        /\ \A r \in Slots \ {s} : slot'[r] = slot[r] /\ rw'[r] = rw[r]
    BY <1>0, <1>1, <1>5, <2>1
  <2>3. \A g \in Handles : g # h => Status'[g] = Status[g]
    BY <1>1, <1>4, <2>2, OneStatus
  <2>4. Status[h] = "started" /\ Status'[h] = "resting"
    <3>1. slot[s].gen \in Int BY <1>0, <1>1 DEF SlotRecords
    <3>2. slot[s].kind = "restart" /\ ~rw[s].terminate BY <1>8 DEF Unregisters
    <3> QED BY <1>1, <1>3, <1>5, <2>2, <3>1, <3>2 DEF Status
  <2>5. Status' = [Status EXCEPT ![h] = "resting"] BY <2>3, <2>4, StatusExcept
  <2>6. Promise!Rest(h) BY <1>6, <2>4, <2>5 DEF Promise!Rest
  <2> QED BY <2>6 DEF Promise!Next
<1> QED BY <1>7, <1>8

(* A worker told to stop: one that runs still does, another is gone.         *)
LEMMA TerminateKnownRefines ==
    ASSUME HandlesInv, NEW s \in Slots, slot[s].inUse, rw[s].listed, TerminateKnown(s)
    PROVE  Promise!Next \/ UNCHANGED <<Status, Alive>>
<1>0. /\ slot \in [Slots -> SlotRecords] /\ rw \in [Slots -> ListRecords]
      /\ proc \in [Handles -> {"none", "running", "told"} \cup Codes]
  BY DEF HandlesInv, Types
<1>1. /\ rw'[s].terminate
      /\ \A r \in Slots \ {s} : rw'[r] = rw[r]
  BY <1>0 DEF TerminateKnown
<1>2. CASE rw[s].pid = "run"
  <2>1. UNCHANGED slot BY <1>2 DEF TerminateKnown
  <2>2. slot[s].pid = "run" BY <1>2 DEF HandlesInv, Books, Booked
  <2>3. ASSUME NEW h \in Handles PROVE Status'[h] = Status[h]
    <3>1. h[1] \in Slots BY DEF Handles
    <3>2. CASE h[1] = s BY <2>1, <2>2, <3>2, SameStatus
    <3>3. CASE h[1] # s BY <1>1, <2>1, <3>1, <3>3, SameStatus
    <3> QED BY <3>2, <3>3
  <2>4. UNCHANGED Status BY <2>3 DEF Status
  <2>5. UNCHANGED Alive
    <3>1. proc' = [proc EXCEPT ![Current(s)] = IF @ = "running" THEN "told" ELSE @]
      BY <1>2 DEF TerminateKnown
    <3> QED BY <1>0, <3>1 DEF Alive
  <2> QED BY <2>4, <2>5
<1>3. CASE rw[s].pid # "run"
  <2>1. slot' = [slot EXCEPT ![s].pid = "none"] /\ UNCHANGED proc
    BY <1>3 DEF TerminateKnown
  <2>2. /\ slot'[s].gen = slot[s].gen /\ slot'[s].inUse /\ slot'[s].pid = "none"
        /\ \A r \in Slots \ {s} : slot'[r] = slot[r]
    BY <1>0, <2>1
  <2>3. rw[s].pid = "none" BY <1>0, <1>3 DEF ListRecords
  <2>4. Current(s) \in Handles /\ Current(s) \notin Alive BY <2>3, NotAlive
  <2>5. Status'[Current(s)] = "gone"
    <3>1. slot[s].gen \in Int BY <1>0 DEF SlotRecords
    <3> QED BY <1>1, <2>2, <2>4, <3>1 DEF Status, Current
  <2>6. UNCHANGED Alive BY <2>1 DEF Alive
  <2> QED BY <1>1, <2>2, <2>4, <2>5, <2>6, GoneRefines
<1> QED BY <1>2, <1>3

(* Every visit of a handler is a step of the promise, or none.               *)
LEMMA VisitRefines ==
    ASSUME HandlesInv, NEW s \in Slots,
           StateChangeSlot(s) \/ MaybeStartSlot(s) \/ ForgetUnstarted(s)
    PROVE  Promise!Next \/ UNCHANGED <<Status, Alive>>
<1>0. UNCHANGED proc => UNCHANGED Alive BY DEF Alive
<1>1. UNCHANGED <<slot, rw>> => UNCHANGED Status BY DEF Status
<1>2. CASE StateChangeSlot(s)
  <2>1. CASE UNCHANGED <<slotVars, rw, proc>> BY <1>0, <1>1, <2>1 DEF slotVars
  <2>2. CASE slot[s].inUse /\ rw[s].listed /\ TerminateKnown(s)
    BY <2>2, TerminateKnownRefines
  <2>3. CASE slot[s].inUse /\ ~rw[s].listed /\ RejectNew(s)
    <3>1. rw[s].pid = "none" BY <2>3 DEF HandlesInv, Books, Booked
    <3>2. Current(s) \notin Alive BY <2>3, <3>1, NotAlive
    <3> QED BY <1>0, <2>3, <3>2, ForgetRefines DEF RejectNew
  <2>4. CASE slot[s].inUse /\ ~rw[s].listed /\ Enlist(s)
    <3>1. UNCHANGED <<slot, proc>> BY <2>4 DEF Enlist, slotVars
    <3>2. rw \in [Slots -> ListRecords] /\ slot[s].pid = "invalid"
      BY <2>4 DEF HandlesInv, Types, Books, Booked
    <3>3. \A r \in Slots \ {s} : rw'[r] = rw[r] BY <2>4, <3>2 DEF Enlist
    <3>4. ASSUME NEW h \in Handles PROVE Status'[h] = Status[h]
      <4>1. h[1] \in Slots BY DEF Handles
      <4>2. CASE h[1] = s BY <3>1, <3>2, <4>2, SameStatus
      <4>3. CASE h[1] # s BY <3>1, <3>3, <4>1, <4>3, SameStatus
      <4> QED BY <4>2, <4>3
    <3>5. UNCHANGED Status BY <3>4 DEF Status
    <3> QED BY <1>0, <3>1, <3>5
  <2> QED BY <1>2, <2>1, <2>2, <2>3, <2>4 DEF StateChangeSlot
<1>3. CASE MaybeStartSlot(s)
  <2>0. rw[s].listed /\ slot[s].inUse
    BY <1>3 DEF MaybeStartSlot, Visiting, HandlesInv, LoopListed, Books, Booked
  <2>1. CASE UNCHANGED <<slotVars, rw, proc>> BY <1>0, <1>1, <2>1 DEF slotVars
  <2>2. CASE rw[s].pid = "none" /\ Forget(s) /\ UNCHANGED proc
    BY <1>0, <2>0, <2>2, NotAlive, ForgetRefines
  <2>3. CASE rw[s].pid = "none" /\ ~rw[s].terminate /\ ~GivesUp(s) /\ Launch(s)
    BY <2>0, <2>3, LaunchRefines
  <2>4. CASE LaunchFails(s)
    <3>1. UNCHANGED <<slot, proc>> BY <2>4 DEF LaunchFails, slotVars
    <3>2. \A r \in Slots : rw'[r].terminate = rw[r].terminate
      BY <2>4 DEF LaunchFails, HandlesInv, Types
    <3>3. ASSUME NEW h \in Handles PROVE Status'[h] = Status[h]
      <4>1. h[1] \in Slots BY DEF Handles
      <4> QED BY <3>1, <3>2, <4>1, SameStatus
    <3>4. UNCHANGED Status BY <3>3 DEF Status
    <3> QED BY <1>0, <3>1, <3>4
  <2> QED BY <1>3, <2>1, <2>2, <2>3, <2>4 DEF MaybeStartSlot
<1>4. CASE ForgetUnstarted(s)
  <2>0. rw[s].listed /\ slot[s].inUse
    BY <1>4 DEF ForgetUnstarted, Visiting, HandlesInv, LoopListed, Books, Booked
  <2>1. CASE UNCHANGED <<slotVars, rw>>
    BY <1>0, <1>1, <1>4, <2>1 DEF slotVars, ForgetUnstarted
  <2>2. CASE slot[s].pid = "invalid" /\ Forget(s)
    <3>1. rw[s].pid = "none" BY <2>2 DEF HandlesInv, Types, ListRecords, Books, Booked
    <3> QED BY <1>0, <1>4, <2>0, <2>2, <3>1, NotAlive, ForgetRefines DEF ForgetUnstarted
  <2> QED BY <1>4, <2>1, <2>2 DEF ForgetUnstarted
<1> QED BY <1>2, <1>3, <1>4

(* ... and so is every other step of the system.                             *)
LEMMA NextRefines ==
    ASSUME HandlesInv, [Next]_vars
    PROVE  [Promise!Next]_<<Status, Alive>>
<1>0. UNCHANGED proc => UNCHANGED Alive BY DEF Alive
<1>1. UNCHANGED <<slot, rw>> => UNCHANGED Status BY DEF Status
<1>2. CASE UNCHANGED <<slot, rw, proc>> BY <1>0, <1>1, <1>2
<1>3. ASSUME NEW p \in Procs, NEW s \in Slots, NEW kind \in Kinds,
             Register(p, s, kind, IF p \in Waiters THEN p ELSE Nobody)
      PROVE  Promise!Next
  BY <1>3, RegisterRefines
<1>4. ASSUME NEW p \in Procs, Terminate(p) PROVE UNCHANGED <<Status, Alive>>
  <2>1. UNCHANGED <<rw, proc>> BY <1>4 DEF Terminate, pmVars
  <2>2. \A r \in Slots : /\ slot'[r].gen = slot[r].gen /\ slot'[r].inUse = slot[r].inUse
                         /\ slot'[r].pid = slot[r].pid /\ slot'[r].kind = slot[r].kind
    BY <1>4 DEF Terminate, HandlesInv, Types
  <2>3. ASSUME NEW h \in Handles PROVE Status'[h] = Status[h]
    <3>1. h[1] \in Slots BY DEF Handles
    <3> QED BY <2>1, <2>2, <3>1, SameStatus
  <2>4. UNCHANGED Status BY <2>3 DEF Status
  <2> QED BY <1>0, <2>1, <2>4
<1>5. ASSUME NEW p \in Procs, CleanupBackend(p) PROVE UNCHANGED <<Status, Alive>>
  <2>1. UNCHANGED <<slot, proc>> BY <1>5 DEF CleanupBackend, slotVars
  <2>2. \A r \in Slots : rw'[r].terminate = rw[r].terminate
    BY <1>5 DEF CleanupBackend, HandlesInv, Types
  <2>3. ASSUME NEW h \in Handles PROVE Status'[h] = Status[h]
    <3>1. h[1] \in Slots BY DEF Handles
    <3> QED BY <2>1, <2>2, <3>1, SameStatus
  <2>4. UNCHANGED Status BY <2>3 DEF Status
  <2> QED BY <1>0, <2>1, <2>4
<1>6. ASSUME NEW s \in Slots, RestartTimePasses(s) PROVE UNCHANGED <<Status, Alive>>
  <2>1. UNCHANGED <<slot, proc>> BY <1>6 DEF RestartTimePasses, slotVars
  <2>2. \A r \in Slots : rw'[r].terminate = rw[r].terminate
    BY <1>6 DEF RestartTimePasses, HandlesInv, Types
  <2>3. ASSUME NEW h \in Handles PROVE Status'[h] = Status[h]
    <3>1. h[1] \in Slots BY DEF Handles
    <3> QED BY <2>1, <2>2, <3>1, SameStatus
  <2>4. UNCHANGED Status BY <2>3 DEF Status
  <2> QED BY <1>0, <2>1, <2>4
<1>7. CASE StopBackends
  <2>1. UNCHANGED <<slot, rw>> BY <1>7 DEF StopBackends, slotVars
  <2>2. \A h \in Handles : proc'[h] \in {"running", "told"} <=> proc[h] \in {"running", "told"}
    BY <1>7 DEF StopBackends
  <2>3. UNCHANGED Alive BY <2>2 DEF Alive
  <2> QED BY <1>1, <2>1, <2>3
<1>8. ASSUME NEW h \in Handles, NEW code \in Codes, WorkerExit(h, code)
      PROVE  Promise!Next
  BY <1>8, WorkerExitRefines
<1>9. ASSUME NEW h \in Handles, Reap(h)
      PROVE  Promise!Next \/ UNCHANGED <<Status, Alive>>
  BY <1>9, CleanupWorkerRefines DEF Reap
<1>10. ASSUME NEW s \in Slots, StateChangeSlot(s) \/ MaybeStartSlot(s) \/ ForgetUnstarted(s)
       PROVE  Promise!Next \/ UNCHANGED <<Status, Alive>>
  BY <1>10, VisitRefines
<1>11. ASSUME NEW p \in Procs, \/ Wait(p, "startup") \/ Wait(p, "shutdown") \/ Exit(p)
                               \/ BackendStep(p)
       PROVE  UNCHANGED <<slot, rw, proc>>
  BY <1>11 DEF Wait, Exit, BackendStep, SendSignal, Check, WaitLatch, slotVars, pmVars
<1>12. CASE Notify \/ StateChange \/ MaybeStart
  <2>1. UNCHANGED <<slot, rw, proc>>
    BY <1>12 DEF Notify, StateChange, MaybeStart, slotVars
  <2> QED BY <1>0, <1>1, <2>1
<1>13. CASE Next
  BY <1>0, <1>1, <1>3, <1>4, <1>5, <1>6, <1>7, <1>8, <1>9, <1>10, <1>11, <1>12, <1>13
     DEF Next, Handling
<1>14. CASE UNCHANGED vars BY <1>2, <1>14 DEF vars, slotVars, pmVars
<1> QED BY <1>13, <1>14

(* Handles of dynamic background workers keep their promise, for every       *)
(* number of slots, backends and registrations: a registration goes from     *)
(* waiting through started and resting to gone, its process is there only    *)
(* while the handle does not say otherwise, and nothing follows "gone".      *)
THEOREM HandlesImplementBgHandle == Spec => HandlesAsPromised
<1>1. Init => HandlesInv BY HandlesInit
<1>2. HandlesInv /\ [Next]_vars => HandlesInv' BY HandlesStep
<1>3. Init => Promise!Init
  <2> SUFFICES ASSUME Init PROVE Promise!Init OBVIOUS
  <2>1. \A h \in Handles : h[1] \in Slots /\ h[2] > 0 BY BgWorkerAssumption DEF Handles
  <2>2. \A s \in Slots : slot[s].gen = 0 BY DEF Init, FreeSlot
  <2>3. \A h \in Handles : Status[h] = "none" BY <2>1, <2>2 DEF Status
  <2>4. Status = [h \in Handles |-> "none"]
    <3> DEFINE f == Status
    <3>1. f = [h \in Handles |-> f[h]] BY DEF Status
    <3>2. \A h \in Handles : f[h] = "none" BY <2>3
    <3> HIDE DEF f
    <3>3. f = [h \in Handles |-> "none"] BY <3>1, <3>2
    <3> QED BY <3>3 DEF f
  <2>5. Alive = {} BY DEF Alive, Init
  <2> QED BY <2>4, <2>5 DEF Promise!Init
<1>4. HandlesInv /\ [Next]_vars => [Promise!Next]_<<Status, Alive>> BY NextRefines
<1> QED BY <1>1, <1>2, <1>3, <1>4, PTL DEF Spec, HandlesAsPromised, Promise!Spec, Promise!vars

(************************* Counting parallel workers ************************)

(* The slots that parallel workers have.                                     *)
Taken == {s \in Slots : slot[s].inUse /\ slot[s].kind = "parallel"}

(* What a step does to the slots that are in use.                            *)
SameUse ==
    /\ UNCHANGED <<parReg, parTerm>>
    /\ \A r \in Slots : slot'[r].inUse = slot[r].inUse /\ slot'[r].kind = slot[r].kind
NewUse(s, kind) ==
    /\ ~slot[s].inUse /\ slot'[s].inUse /\ slot'[s].kind = kind
    /\ \A r \in Slots \ {s} : slot'[r] = slot[r]
    /\ kind = "parallel" => ParallelRoom
    /\ parReg' = IF kind = "parallel" THEN (parReg + 1) % CountMod ELSE parReg
    /\ UNCHANGED parTerm

(* A step leaves the use of every slot alone, gives one to a registration,   *)
(* or takes one in use away from its worker.                                 *)
LEMMA UseStep ==
    ASSUME HandlesInv, [Next]_vars
    PROVE  \/ SameUse
           \/ \E s \in Slots, kind \in Kinds : NewUse(s, kind)
           \/ \E s \in Slots : slot[s].inUse /\ Forget(s)
<1>0. /\ slot \in [Slots -> SlotRecords] /\ Books
  BY DEF HandlesInv, Types
<1>1. UNCHANGED slotVars => SameUse BY DEF slotVars, SameUse
<1>2. ASSUME NEW s \in Slots, NEW x \in {"none", "run"},
             slot' = [slot EXCEPT ![s].pid = x], UNCHANGED <<parReg, parTerm>>
      PROVE  SameUse
  BY <1>0, <1>2 DEF SameUse, SlotRecords
<1>3. ASSUME NEW p \in Procs, NEW s \in Slots, NEW kind \in Kinds,
             Register(p, s, kind, IF p \in Waiters THEN p ELSE Nobody)
      PROVE  NewUse(s, kind)
  <2>1. slot'[s].inUse /\ slot'[s].kind = kind /\ \A r \in Slots \ {s} : slot'[r] = slot[r]
    BY <1>0, <1>3 DEF Register
  <2> QED BY <1>3, <2>1 DEF Register, NewUse
<1>4. ASSUME NEW p \in Procs, Terminate(p) PROVE SameUse
  <2>1. handle[p][1] \in Slots BY <1>4 DEF HandlesInv, Types, Terminate, Handles
  <2>2. \A r \in Slots : slot'[r].inUse = slot[r].inUse /\ slot'[r].kind = slot[r].kind
    BY <1>0, <1>4, <2>1 DEF Terminate, SlotRecords
  <2> QED BY <1>4, <2>2 DEF Terminate, SameUse
<1>5. ASSUME NEW p \in Procs,
             \/ Wait(p, "startup") \/ Wait(p, "shutdown") \/ Exit(p) \/ BackendStep(p)
             \/ CleanupBackend(p)
      PROVE  SameUse
  BY <1>1, <1>5 DEF Wait, Exit, BackendStep, SendSignal, Check, WaitLatch,
     CleanupBackend
<1>6. ASSUME \/ \E h \in Handles, code \in Codes : WorkerExit(h, code)
             \/ Notify \/ StateChange \/ MaybeStart \/ StopBackends
             \/ \E s \in Slots : RestartTimePasses(s)
      PROVE  SameUse
  BY <1>1, <1>6 DEF WorkerExit, Notify, StateChange, MaybeStart, StopBackends,
     RestartTimePasses
<1>7. ASSUME NEW s \in Slots, StateChangeSlot(s)
      PROVE  SameUse \/ (slot[s].inUse /\ Forget(s))
  <2>1. CASE TerminateKnown(s)
    BY <1>1, <1>2, <2>1 DEF TerminateKnown, slotVars
  <2>2. CASE slot[s].inUse /\ RejectNew(s) BY <2>2 DEF RejectNew
  <2>3. CASE Enlist(s) \/ UNCHANGED slotVars BY <1>1, <2>3 DEF Enlist
  <2> QED BY <1>7, <2>1, <2>2, <2>3 DEF StateChangeSlot
<1>8. ASSUME NEW s \in Slots, MaybeStartSlot(s)
      PROVE  SameUse \/ (slot[s].inUse /\ Forget(s))
  <2>0. slot[s].inUse
    BY <1>0, <1>8 DEF MaybeStartSlot, Visiting, HandlesInv, LoopListed, Books, Booked
  <2>1. CASE Forget(s) BY <2>0, <2>1
  <2>2. CASE Launch(s) BY <1>2, <2>2 DEF Launch
  <2>3. CASE LaunchFails(s) \/ UNCHANGED slotVars BY <1>1, <2>3 DEF LaunchFails
  <2> QED BY <1>8, <2>1, <2>2, <2>3 DEF MaybeStartSlot
<1>9. ASSUME NEW s \in Slots, ForgetUnstarted(s)
      PROVE  SameUse \/ (slot[s].inUse /\ Forget(s))
  <2>0. slot[s].inUse
    BY <1>0, <1>9 DEF ForgetUnstarted, Visiting, HandlesInv, LoopListed, Books, Booked
  <2> QED BY <1>1, <1>9, <2>0 DEF ForgetUnstarted
<1>10. ASSUME NEW h \in Handles, Reap(h)
       PROVE  SameUse \/ \E s \in Slots : slot[s].inUse /\ Forget(s)
  <2>1. PICK code \in Codes : CleanupWorker(h, code) BY <1>10 DEF Reap
  <2>2. h[1] \in Slots BY DEF Handles
  <2>3. rw[h[1]].pid = "run"
    BY <2>1 DEF HandlesInv, Processes, CleanupWorker, Codes
  <2>4. slot[h[1]].inUse BY <1>0, <2>2, <2>3 DEF Books, Booked
  <2>5. CASE Forget(h[1]) BY <2>2, <2>4, <2>5
  <2>6. CASE slot' = [slot EXCEPT ![h[1]].pid = "none"] /\ UNCHANGED <<parReg, parTerm>>
    BY <1>2, <2>2, <2>6
  <2> QED BY <2>1, <2>5, <2>6 DEF CleanupWorker
<1>11. CASE Next
  BY <1>3, <1>4, <1>5, <1>6, <1>7, <1>8, <1>9, <1>10, <1>11 DEF Next, Handling
<1>12. CASE UNCHANGED vars BY <1>1, <1>12 DEF vars
<1> QED BY <1>11, <1>12

(* Unsigned arithmetic modulo m, of numbers that are not far off.            *)
LEMMA ModWithin ==
    ASSUME NEW m \in Nat \ {0}, NEW x \in Int
    PROVE  /\ x % m \in 0 .. m - 1
           /\ 0 <= x /\ x < m => x % m = x
           /\ -m <= x /\ x < 0 => x % m = x + m
           /\ x = m => x % m = 0
<1>1. x % m \in 0 .. m - 1 BY SMT
<1>2. 0 <= x /\ x < m => x % m = x BY SMT
<1>3. -m <= x /\ x < 0 => x % m = x + m BY SMT
<1>4. x = m => x % m = 0 BY SMT
<1> QED BY <1>1, <1>2, <1>3, <1>4

(* Counting one registration more, or one exit more, although the counters   *)
(* wrap.                                                                     *)
LEMMA CountersWrap ==
    ASSUME NEW m \in Nat, NEW a \in 0 .. m - 1, NEW b \in 0 .. m - 1
    PROVE  /\ (a - b) % m < m - 1 => (((a + 1) % m) - b) % m = ((a - b) % m) + 1
           /\ (a - b) % m > 0 => (a - ((b + 1) % m)) % m = ((a - b) % m) - 1
<1>0. m \in Nat \ {0} /\ a \in Int /\ b \in Int
  OBVIOUS
<1> DEFINE d == (a - b) % m
<1>1. d = IF a >= b THEN a - b ELSE a - b + m
  <2> DEFINE x == a - b
  <2>1. x \in Int BY <1>0
  <2> HIDE DEF x
  <2>2. /\ 0 <= x /\ x < m => x % m = x
        /\ -m <= x /\ x < 0 => x % m = x + m
        /\ x = m => x % m = 0
    BY <1>0, <2>1, ModWithin
  <2> QED BY <1>0, <2>2 DEF x
<1>2. (a + 1) % m = IF a = m - 1 THEN 0 ELSE a + 1
  <2> DEFINE x == a + 1
  <2>1. x \in Int BY <1>0
  <2> HIDE DEF x
  <2>2. /\ 0 <= x /\ x < m => x % m = x
        /\ -m <= x /\ x < 0 => x % m = x + m
        /\ x = m => x % m = 0
    BY <1>0, <2>1, ModWithin
  <2> QED BY <1>0, <2>2 DEF x
<1>3. (b + 1) % m = IF b = m - 1 THEN 0 ELSE b + 1
  <2> DEFINE x == b + 1
  <2>1. x \in Int BY <1>0
  <2> HIDE DEF x
  <2>2. /\ 0 <= x /\ x < m => x % m = x
        /\ -m <= x /\ x < 0 => x % m = x + m
        /\ x = m => x % m = 0
    BY <1>0, <2>1, ModWithin
  <2> QED BY <1>0, <2>2 DEF x
<1> HIDE DEF d
<1>4. ASSUME d < m - 1 PROVE (((a + 1) % m) - b) % m = d + 1
  <2> DEFINE x == ((a + 1) % m) - b
  <2>1. x = IF a = m - 1 THEN 0 - b ELSE a + 1 - b BY <1>2
  <2> HIDE DEF x
  <2>2. x \in Int BY <1>0, <2>1
  <2>3. x % m = d + 1
    <3>1. CASE 0 <= x
      <4>1. x < m /\ x = d + 1 BY <1>0, <1>1, <1>4, <2>1, <3>1
      <4> QED BY <1>0, <2>2, <3>1, <4>1, ModWithin
    <3>2. CASE x < 0
      <4>1. -m <= x /\ x + m = d + 1 BY <1>0, <1>1, <1>4, <2>1, <3>2
      <4> QED BY <1>0, <2>2, <3>2, <4>1, ModWithin
    <3> QED BY <2>2, <3>1, <3>2
  <2> QED BY <2>3 DEF x
<1>5. ASSUME d > 0 PROVE (a - ((b + 1) % m)) % m = d - 1
  <2> DEFINE x == a - ((b + 1) % m)
  <2>1. x = IF b = m - 1 THEN a ELSE a - (b + 1) BY <1>3, <1>0
  <2> HIDE DEF x
  <2>2. x \in Int BY <1>0, <2>1
  <2>3. x % m = d - 1
    <3>1. CASE 0 <= x
      <4>1. x < m /\ x = d - 1 BY <1>0, <1>1, <1>5, <2>1, <3>1
      <4> QED BY <1>0, <2>2, <3>1, <4>1, ModWithin
    <3>2. CASE x < 0
      <4>1. -m <= x /\ x + m = d - 1 BY <1>0, <1>1, <1>5, <2>1, <3>2
      <4> QED BY <1>0, <2>2, <3>2, <4>1, ModWithin
    <3> QED BY <2>2, <3>1, <3>2
  <2> QED BY <2>3 DEF x
<1> QED BY <1>4, <1>5 DEF d

(* What TypeOK says beyond HandlesInv, and the count.                        *)
CountInv ==
    /\ {parReg, parTerm} \subseteq 0 .. CountMod - 1
    /\ {change, stopping, haveCrashed} \subseteq BOOLEAN
    /\ failures \in 0 .. MaxFailures
    /\ (parReg - parTerm) % CountMod = Cardinality(Taken)
    /\ Cardinality(Taken) <= MaxParallel

(* The count is kept.                                                        *)
LEMMA CountStep == HandlesInv /\ CountInv /\ [Next]_vars => CountInv'
<1> SUFFICES ASSUME HandlesInv, CountInv, [Next]_vars PROVE CountInv'
  OBVIOUS
<1>0. /\ CountMod \in Nat /\ MaxParallel \in Nat /\ MaxParallel < CountMod
      /\ MaxFailures \in Nat /\ CountMod \in Nat \ {0}
      /\ parReg \in 0 .. CountMod - 1 /\ parTerm \in 0 .. CountMod - 1
  BY BgWorkerAssumption DEF CountInv
<1>1. IsFiniteSet(Taken) /\ Cardinality(Taken) \in Nat
  <2>1. Taken \in SUBSET Slots BY DEF Taken
  <2> QED BY <2>1, BgWorkerAssumption, FS_Subset, FS_CardinalityType
<1>2. {change', stopping', haveCrashed'} \subseteq BOOLEAN /\ failures' \in 0 .. MaxFailures
  <2>1. failures' \in 0 .. MaxFailures
    <3>1. failures' = failures \/ (failures < MaxFailures /\ failures' = failures + 1)
      BY DEF Next, Handling, Register, Terminate, Wait, Exit, BackendStep, SendSignal,
         Check, WaitLatch, CleanupBackend, WorkerExit, Notify, StateChangeSlot,
         MaybeStartSlot, Launch, LaunchFails, ForgetUnstarted, StateChange,
         MaybeStart, StopBackends, Reap, CleanupWorker, RestartTimePasses, vars
    <3> QED BY <1>0, <3>1 DEF CountInv
  <2>2. /\ change' \in {change, TRUE, FALSE} /\ stopping' \in {stopping, TRUE}
        /\ haveCrashed' \in {haveCrashed, TRUE, FALSE}
    BY DEF Next, Handling, Register, Terminate, Wait, Exit, BackendStep, SendSignal,
       Check, WaitLatch, CleanupBackend, WorkerExit, Notify, StateChangeSlot,
       MaybeStartSlot, Launch, LaunchFails, ForgetUnstarted, StateChange,
       MaybeStart, StopBackends, Reap, CleanupWorker, RestartTimePasses, vars, pmVars
  <2> QED BY <2>1, <2>2 DEF CountInv
<1>3. CASE SameUse
  <2>1. Taken' = Taken BY <1>3 DEF Taken, SameUse
  <2> QED BY <1>2, <1>3, <2>1 DEF CountInv, SameUse
<1>4. ASSUME NEW s \in Slots, NEW kind \in Kinds, NewUse(s, kind) PROVE CountInv'
  <2>1. s \notin Taken BY <1>4 DEF NewUse, Taken
  <2>2. CASE kind # "parallel"
    <3>1. Taken' = Taken BY <1>4, <2>2 DEF NewUse, Taken
    <3>2. UNCHANGED <<parReg, parTerm>> BY <1>4, <2>2 DEF NewUse
    <3> QED BY <1>2, <3>1, <3>2 DEF CountInv
  <2>3. CASE kind = "parallel"
    <3>1. Taken' = Taken \cup {s} BY <1>4, <2>3 DEF NewUse, Taken
    <3>2. Cardinality(Taken') = Cardinality(Taken) + 1
      BY <1>1, <2>1, <3>1, FS_AddElement
    <3>3. /\ parReg' = (parReg + 1) % CountMod /\ parTerm' = parTerm
          /\ (parReg - parTerm) % CountMod < MaxParallel
      BY <1>4, <2>3 DEF NewUse, ParallelRoom
    <3>4. Cardinality(Taken) < MaxParallel BY <3>3 DEF CountInv
    <3>5. (parReg - parTerm) % CountMod < CountMod - 1
      BY <1>0, <1>1, <3>4 DEF CountInv
    <3>6. (parReg' - parTerm') % CountMod = ((parReg - parTerm) % CountMod) + 1
      BY <1>0, <3>3, <3>5, CountersWrap
    <3>7. parReg' \in 0 .. CountMod - 1
      <4>1. parReg + 1 \in Int BY <1>0
      <4> QED BY <1>0, <3>3, <4>1, ModWithin
    <3>8. Cardinality(Taken') <= MaxParallel BY <1>0, <1>1, <3>2, <3>4
    <3>9. (parReg' - parTerm') % CountMod = Cardinality(Taken')
      BY <3>2, <3>6 DEF CountInv
    <3> QED BY <1>0, <1>2, <3>3, <3>7, <3>8, <3>9 DEF CountInv
  <2> QED BY <2>2, <2>3
<1>5. ASSUME NEW s \in Slots, slot[s].inUse, Forget(s) PROVE CountInv'
  <2>0. slot'[s].inUse = FALSE /\ \A r \in Slots \ {s} : slot'[r] = slot[r]
    BY <1>5, ForgetFields
  <2>1. Taken' = Taken \ {s} BY <2>0 DEF Taken
  <2>2. CASE slot[s].kind # "parallel"
    <3>1. Taken' = Taken BY <2>1, <2>2 DEF Taken
    <3>2. UNCHANGED <<parReg, parTerm>> BY <1>5, <2>2 DEF Forget
    <3> QED BY <1>2, <3>1, <3>2 DEF CountInv
  <2>3. CASE slot[s].kind = "parallel"
    <3>1. s \in Taken BY <1>5, <2>3 DEF Taken
    <3>2. Cardinality(Taken') = Cardinality(Taken) - 1
      BY <1>1, <2>1, <3>1, FS_RemoveElement
    <3>3. Cardinality(Taken) # 0 BY <1>1, <3>1, FS_EmptySet
    <3>4. parTerm' = (parTerm + 1) % CountMod /\ parReg' = parReg
      BY <1>5, <2>3 DEF Forget
    <3>5. (parReg - parTerm) % CountMod > 0
      BY <1>1, <3>3 DEF CountInv
    <3>6. (parReg' - parTerm') % CountMod = ((parReg - parTerm) % CountMod) - 1
      BY <1>0, <3>4, <3>5, CountersWrap
    <3>7. parTerm' \in 0 .. CountMod - 1
      <4>1. parTerm + 1 \in Int BY <1>0
      <4> QED BY <1>0, <3>4, <4>1, ModWithin
    <3>8. Cardinality(Taken') <= MaxParallel
      BY <1>0, <1>1, <3>2 DEF CountInv
    <3>9. (parReg' - parTerm') % CountMod = Cardinality(Taken')
      BY <3>2, <3>6 DEF CountInv
    <3> QED BY <1>0, <1>2, <3>4, <3>7, <3>8, <3>9 DEF CountInv
  <2> QED BY <2>2, <2>3
<1> QED BY <1>3, <1>4, <1>5, UseStep

(* "The subtraction will still give the right number" of parallel workers    *)
(* however often the unsigned counters of bgworker.c overflow, and there are *)
(* never more of them than max_parallel_workers; the slots are well-formed.  *)
THEOREM ParallelWorkersCounted == Spec => []SlotsExact
<1>1. Init => HandlesInv /\ CountInv
  <2> SUFFICES ASSUME Init PROVE CountInv BY HandlesInit
  <2>1. \A s \in Slots : slot[s].inUse = FALSE BY DEF Init, FreeSlot
  <2>2. Taken = {} BY <2>1 DEF Taken
  <2>3. Cardinality(Taken) = 0 BY <2>2, FS_EmptySet
  <2>4. CountMod \in Nat \ {0} /\ MaxParallel \in Nat /\ MaxFailures \in Nat
    BY BgWorkerAssumption
  <2>5. parReg = 0 /\ parTerm = 0 /\ failures = 0 BY DEF Init
  <2>6. (parReg - parTerm) % CountMod = 0
    <3>1. parReg - parTerm = 0 BY <2>5
    <3>2. 0 % CountMod = 0 BY <2>4, ModWithin
    <3> QED BY <3>1, <3>2
  <2>7. {change, stopping, haveCrashed} \subseteq BOOLEAN BY DEF Init
  <2> QED BY <2>3, <2>4, <2>5, <2>6, <2>7 DEF CountInv
<1>2. HandlesInv /\ CountInv => SlotsExact
  BY DEF HandlesInv, Types, CountInv, SlotsExact, TypeOK, Taken, SlotRecords,
     ListRecords, PmRecords, Places
<1> QED BY <1>1, <1>2, HandlesStep, CountStep, PTL DEF Spec

(************************* DetermineSleepTime *******************************)

(* Nothing DetermineSleepTime would forget.                                  *)
Clean(s) ==
    rw[s].listed /\ rw[s].crashed # "no" => slot[s].kind = "restart" /\ ~rw[s].terminate

(* What it would forget, maybe_start_bgworkers is still to visit.            *)
SleepInv ==
    /\ pm.at = "change" => startNeeded
    /\ \A s \in Slots : rw[s].pid = "run" => rw[s].crashed = "no"
    /\ \A s \in Slots : Clean(s) \/ startNeeded \/ (pm.at = "start" /\ s \in pm.todo)

(* A visit that leaves its slot clean, or asks for another round.            *)
LEMMA VisitCleans ==
    ASSUME HandlesInv, SleepInv, NEW s \in Slots, NEW whom \in SUBSET Procs,
           Visited(s, whom), startNeeded' = startNeeded,
           \A r \in Slots \ {s} : slot'[r] = slot[r] /\ rw'[r] = rw[r],
           rw'[s].pid = "run" => rw'[s].crashed = "no",
           Clean(s)' \/ startNeeded
    PROVE  SleepInv'
<1>1. /\ pm'.todo = pm.todo \ {s}
      /\ pm'.at = pm.at \/ (pm'.at = "idle" /\ pm'.todo = {})
  BY VisitedLoop DEF HandlesInv, Types
<1>2. \A r \in Slots \ {s} : Clean(r)' = Clean(r) BY DEF Clean
<1> QED BY <1>1, <1>2 DEF SleepInv

(* StateChangeSlot: a round has been asked for.                              *)
LEMMA StateChangeCleans ==
    ASSUME HandlesInv, SleepInv, NEW s \in Slots, StateChangeSlot(s)
    PROVE  SleepInv'
<1>0. /\ slot \in [Slots -> SlotRecords] /\ rw \in [Slots -> ListRecords]
      /\ startNeeded /\ startNeeded' = startNeeded
      /\ Whom(rw[s].notify) \in SUBSET Procs /\ Whom(slot[s].notify) \in SUBSET Procs
  BY WhomType DEF HandlesInv, Types, SleepInv, StateChangeSlot, Visiting
<1>1. CASE UNCHANGED <<slotVars, rw>> /\ Visited(s, {})
  BY <1>0, <1>1, VisitCleans DEF slotVars, SleepInv
<1>2. CASE TerminateKnown(s)
  <2>1. \A r \in Slots \ {s} : slot'[r] = slot[r] /\ rw'[r] = rw[r]
    BY <1>0, <1>2 DEF TerminateKnown
  <2>2. rw'[s].pid = rw[s].pid /\ rw'[s].crashed = rw[s].crashed
    BY <1>0, <1>2 DEF TerminateKnown
  <2>3. \E whom \in SUBSET Procs : Visited(s, whom)
    BY <1>0, <1>2 DEF TerminateKnown
  <2> QED BY <1>0, <2>1, <2>2, <2>3, VisitCleans DEF SleepInv
<1>3. CASE RejectNew(s)
  BY <1>0, <1>3, ForgetFields, Constants, VisitCleans DEF RejectNew
<1>4. CASE Enlist(s)
  <2>1. /\ \A r \in Slots \ {s} : slot'[r] = slot[r] /\ rw'[r] = rw[r]
        /\ rw'[s].pid = "none"
    BY <1>0, <1>4 DEF Enlist, slotVars, Unlisted
  <2> QED BY <1>0, <1>4, <2>1, VisitCleans DEF Enlist
<1> QED BY <1>1, <1>2, <1>3, <1>4 DEF StateChangeSlot

(* MaybeStartSlot: nothing is left for the sleep to forget, unless the loop  *)
(* stops and asks for another round.                                         *)
LEMMA MaybeStartCleans ==
    ASSUME HandlesInv, SleepInv, NEW s \in Slots, MaybeStartSlot(s)
    PROVE  SleepInv'
<1>0. /\ slot \in [Slots -> SlotRecords] /\ rw \in [Slots -> ListRecords]
      /\ Whom(rw[s].notify) \in SUBSET Procs
  BY WhomType DEF HandlesInv, Types
<1>1. CASE /\ rw[s].pid # "none" \/ (~rw[s].terminate /\ ~GivesUp(s))
           /\ Visited(s, {}) /\ UNCHANGED <<slotVars, rw, startNeeded>>
  <2>1. Clean(s)
    BY <1>0, <1>1 DEF Clean, GivesUp, SleepInv, ListRecords
  <2> QED BY <1>1, <2>1, VisitCleans DEF slotVars, SleepInv, Clean
<1>2. CASE Forget(s) /\ startNeeded' = startNeeded /\ \E whom \in SUBSET Procs : Visited(s, whom)
  <2>1. Clean(s)' BY <1>2, ForgetFields, Constants DEF Clean
  <2> QED BY <1>2, <2>1, ForgetFields, Constants, VisitCleans
<1>3. CASE Launch(s)
  <2>1. /\ rw'[s].crashed = "no"
        /\ \A r \in Slots \ {s} : slot'[r] = slot[r] /\ rw'[r] = rw[r]
    BY <1>0, <1>3 DEF Launch
  <2>2. startNeeded' = startNeeded /\ Visited(s, Whom(rw[s].notify)) BY <1>3 DEF Launch
  <2>3. Clean(s)' BY <2>1 DEF Clean
  <2> QED BY <1>0, <2>1, <2>2, <2>3, VisitCleans
<1>4. CASE rw[s].pid = "none" /\ LaunchFails(s)
  <2>1. startNeeded' /\ pm' = Idle BY <1>4 DEF LaunchFails
  <2>2. /\ rw'[s].pid = "none" /\ \A r \in Slots \ {s} : rw'[r] = rw[r]
    BY <1>0, <1>4 DEF LaunchFails
  <2> QED BY <2>1, <2>2, Constants DEF SleepInv
<1>5. CASE rw[s].pid = "none" /\ ~rw[s].terminate /\ GivesUp(s) /\ Forget(s)
           /\ Visited(s, Whom(rw[s].notify)) /\ startNeeded' = startNeeded
  BY <1>0, <1>2, <1>5
<1>6. CASE /\ rw[s].crashed = "recent" /\ slot[s].kind = "restart" /\ ~rw[s].terminate
           /\ Visited(s, {}) /\ UNCHANGED <<slotVars, rw, startNeeded>>
  <2>1. Clean(s) BY <1>6 DEF Clean
  <2> QED BY <1>6, <2>1, VisitCleans DEF slotVars, SleepInv, Clean
<1> QED BY <1>1, <1>2, <1>3, <1>4, <1>5, <1>6 DEF MaybeStartSlot

(* The rest of the system.                                                   *)
LEMMA SleepStep == HandlesInv /\ SleepInv /\ [Next]_vars => SleepInv'
<1> SUFFICES ASSUME HandlesInv, SleepInv, [Next]_vars PROVE SleepInv'
  OBVIOUS
<1>0. slot \in [Slots -> SlotRecords] /\ rw \in [Slots -> ListRecords]
  BY DEF HandlesInv, Types
<1>1. CASE UNCHANGED <<slot, rw, pm, startNeeded>> BY <1>1 DEF SleepInv, Clean
<1>2. ASSUME NEW p \in Procs, NEW s \in Slots, NEW kind \in Kinds, NEW n,
             Register(p, s, kind, n)
      PROVE  SleepInv'
  <2>1. ~rw[s].listed BY <1>2 DEF Register, HandlesInv, Books, Booked
  <2>2. UNCHANGED <<rw, pm, startNeeded>> BY <1>2 DEF Register, pmVars
  <2>3. \A r \in Slots \ {s} : slot'[r] = slot[r] BY <1>0, <1>2 DEF Register
  <2>4. \A r \in Slots : Clean(r) => Clean(r)' BY <2>1, <2>2, <2>3 DEF Clean
  <2> QED BY <2>2, <2>4 DEF SleepInv
<1>3. ASSUME NEW p \in Procs, Terminate(p) PROVE SleepInv'
  <2>1. UNCHANGED <<rw, pm, startNeeded>> BY <1>3 DEF Terminate, pmVars
  <2>2. \A r \in Slots : slot'[r].kind = slot[r].kind BY <1>0, <1>3 DEF Terminate
  <2> QED BY <2>1, <2>2 DEF SleepInv, Clean
<1>4. ASSUME NEW p \in Procs, CleanupBackend(p) PROVE SleepInv'
  <2>1. UNCHANGED <<slot, pm, startNeeded>> BY <1>4 DEF CleanupBackend, slotVars
  <2>2. \A r \in Slots : /\ rw'[r].listed = rw[r].listed /\ rw'[r].pid = rw[r].pid
                         /\ rw'[r].crashed = rw[r].crashed
                         /\ rw'[r].terminate = rw[r].terminate
    BY <1>0, <1>4 DEF CleanupBackend
  <2> QED BY <2>1, <2>2 DEF SleepInv, Clean
<1>5. ASSUME NEW s \in Slots, RestartTimePasses(s) PROVE SleepInv'
  <2>1. UNCHANGED <<slot, pm, startNeeded>> BY <1>5 DEF RestartTimePasses, slotVars
  <2>2. \A r \in Slots : /\ rw'[r].listed = rw[r].listed /\ rw'[r].pid = rw[r].pid
                         /\ rw'[r].crashed = "no" <=> rw[r].crashed = "no"
                         /\ rw'[r].terminate = rw[r].terminate
    BY <1>0, <1>5 DEF RestartTimePasses
  <2> QED BY <2>1, <2>2 DEF SleepInv, Clean
<1>6. ASSUME NEW h \in Handles, NEW code \in Codes, CleanupWorker(h, code) PROVE SleepInv'
  <2> DEFINE s == h[1]
  <2>1. s \in Slots BY DEF Handles
  <2>2. pm.at = "idle" /\ pm'.at = "idle" /\ startNeeded' = startNeeded
    BY <1>6, Constants DEF CleanupWorker, Idle
  <2>3. CASE Forget(s)
    <3>1. rw'[s] = Unlisted /\ \A r \in Slots \ {s} : slot'[r] = slot[r] /\ rw'[r] = rw[r]
      BY <2>1, <2>3, ForgetFields
    <3>2. ~rw'[s].listed /\ rw'[s].crashed = "no" BY <3>1 DEF Unlisted
    <3>3. Clean(s)' BY <3>2 DEF Clean
    <3>4. \A r \in Slots \ {s} : Clean(r)' = Clean(r) BY <3>1 DEF Clean
    <3>5. \A r \in Slots : rw'[r].pid = "run" => rw'[r].crashed = "no"
      BY <3>1, <3>2 DEF SleepInv
    <3>6. \A r \in Slots : Clean(r)' \/ startNeeded'
      BY <2>2, <3>3, <3>4 DEF SleepInv
    <3> QED BY <2>2, <3>5, <3>6 DEF SleepInv
  <2>4. CASE /\ ~Unregisters(s, code)
             /\ rw' = [rw EXCEPT ![s].pid = "none", ![s].crashed = "recent"]
             /\ slot' = [slot EXCEPT ![s].pid = "none"]
    <3>1. rw'[s].pid = "none" /\ rw'[s].terminate = rw[s].terminate
      BY <1>0, <2>1, <2>4
    <3>2. slot'[s].kind = slot[s].kind BY <1>0, <2>1, <2>4
    <3>3. \A r \in Slots \ {s} : slot'[r] = slot[r] /\ rw'[r] = rw[r]
      BY <1>0, <2>4
    <3>4. Clean(s)' BY <2>4, <3>1, <3>2 DEF Clean, Unregisters
    <3> QED BY <2>2, <3>1, <3>3, <3>4 DEF SleepInv, Clean
  <2> QED BY <1>6, <2>3, <2>4 DEF CleanupWorker
<1>7. ASSUME NEW s \in Slots, ForgetUnstarted(s) PROVE SleepInv'
  <2>0. startNeeded' = startNeeded /\ Whom(rw[s].notify) \in SUBSET Procs
    BY <1>7, WhomType DEF ForgetUnstarted, HandlesInv
  <2>1. CASE Forget(s) /\ Visited(s, Whom(rw[s].notify))
    <3>1. Clean(s)' BY <2>1, ForgetFields, Constants DEF Clean
    <3> QED BY <2>0, <2>1, <3>1, ForgetFields, Constants, VisitCleans
  <2>2. CASE Visited(s, {}) /\ UNCHANGED <<slotVars, rw>>
    <3>1. Clean(s) \/ startNeeded BY <1>7 DEF SleepInv, ForgetUnstarted, Visiting
    <3>2. Clean(s)' \/ startNeeded BY <2>2, <3>1 DEF Clean, slotVars
    <3> QED BY <2>0, <2>2, <3>2, VisitCleans DEF slotVars, SleepInv
  <2> QED BY <1>7, <2>1, <2>2 DEF ForgetUnstarted
<1>8. CASE StateChange
  <2>1. startNeeded' /\ UNCHANGED <<slot, rw>> BY <1>8 DEF StateChange, slotVars
  <2> QED BY <2>1 DEF SleepInv
<1>9. CASE MaybeStart
  <2>1. UNCHANGED <<slot, rw>> BY <1>9 DEF MaybeStart, slotVars
  <2>2. pm'.todo = {s \in Slots : rw[s].listed} BY <1>9 DEF MaybeStart, Loop
  <2>3. pm'.at = IF pm'.todo = {} THEN "idle" ELSE "start"
    BY <1>9 DEF MaybeStart, Loop
  <2> QED BY <2>1, <2>2, <2>3 DEF SleepInv, Clean
<1>10. CASE StopBackends
  <2>1. UNCHANGED <<slot, rw, startNeeded>> /\ pm = Idle BY <1>10 DEF StopBackends, slotVars
  <2>2. pm'.at \in {"idle", "forget"} BY <1>10 DEF StopBackends, Loop
  <2> QED BY <2>1, <2>2, Constants DEF SleepInv, Clean
<1>11. CASE Notify
  <2>1. UNCHANGED <<slot, rw, startNeeded>> BY <1>11 DEF Notify, slotVars
  <2>2. pm'.at = pm.at /\ pm'.todo = pm.todo
    BY <1>11 DEF Notify, HandlesInv, Types, PmRecords
  <2> QED BY <2>1, <2>2 DEF SleepInv, Clean
<1>12. ASSUME NEW p \in Procs, \/ Wait(p, "startup") \/ Wait(p, "shutdown") \/ Exit(p)
                               \/ BackendStep(p)
       PROVE  SleepInv'
  <2>1. UNCHANGED <<slot, rw, pm, startNeeded>>
    BY <1>12 DEF Wait, Exit, BackendStep, SendSignal, Check, WaitLatch, slotVars, pmVars
  <2> QED BY <1>1, <2>1
<1>13. ASSUME NEW h \in Handles, NEW code \in Codes, WorkerExit(h, code) PROVE SleepInv'
  <2>1. UNCHANGED <<slot, rw, pm, startNeeded>> BY <1>13 DEF WorkerExit, slotVars, pmVars
  <2> QED BY <1>1, <2>1
<1>14. CASE UNCHANGED vars BY <1>1, <1>14 DEF vars, slotVars, pmVars
<1> QED BY <1>2, <1>3, <1>4, <1>5, <1>6, <1>7, <1>8, <1>9, <1>10, <1>11, <1>12, <1>13,
           <1>14, StateChangeCleans, MaybeStartCleans DEF Next, Handling, Reap

(* By the time DetermineSleepTime looks for workers that crashed, those it   *)
(* would forget without telling anybody are gone: maybe_start_bgworkers,     *)
(* which tells, has come first.                                              *)
THEOREM SleepIsSilentForNobody == Spec => []SleepForgetsNobody
<1>1. Init => HandlesInv BY HandlesInit
<1>2. HandlesInv /\ [Next]_vars => HandlesInv' BY HandlesStep
<1>3. Init => SleepInv
  BY DEF Init, Idle, Unlisted, SleepInv, Clean
<1>4. HandlesInv /\ SleepInv /\ [Next]_vars => SleepInv' BY SleepStep
<1>5. SleepInv => SleepForgetsNobody
  BY Constants DEF SleepInv, Clean, SleepForgetsNobody
<1> QED BY <1>1, <1>2, <1>3, <1>4, <1>5, PTL DEF Spec

(******************************** Notices ***********************************)

Asleep == {"startup_sleep", "shutdown_sleep"}
Waiting == {"startup", "shutdown"} \cup Asleep

(* Who waits asked to be notified, and the slot and the list know it.        *)
Registrants ==
    /\ \A p \in Procs : at[p] \notin {"idle", "signal"} => p \in Waiters
    /\ \A p \in Procs : at[p] \in Waiting => handle[p] \in Handles
    /\ \A p \in Procs : at[p] \in {"exited", "down"} => handle[p] = NoHandle
    /\ \A p \in Procs : handle[p] \in Handles => handle[p][2] <= slot[handle[p][1]].gen
    /\ \A p \in Waiters, s \in Slots : handle[p] = Current(s) /\ slot[s].inUse =>
          slot[s].notify = p /\ (rw[s].listed => rw[s].notify = p)

(* What a wait is for is told by the pid of its own registration.            *)
LEMMA SamePid ==
    ASSUME HandlesInv, NEW h \in Handles, slot'[h[1]].gen = slot[h[1]].gen,
           \/ h[2] # slot[h[1]].gen
           \/ slot'[h[1]].inUse = slot[h[1]].inUse /\ slot'[h[1]].pid = slot[h[1]].pid
           \/ slot[h[1]].pid = "none" /\ ~slot'[h[1]].inUse
    PROVE  Pid(h)' = Pid(h)
BY DEF Pid

(* A step that touches one slot, of which whoever waits for it hears.        *)
LEMMA Noticed ==
    ASSUME HandlesInv, Registrants, NoLostNotice, NEW s \in Slots,
           UNCHANGED <<at, handle, latch>>, pm.notify = {},
           slot'[s].gen = slot[s].gen, \A r \in Slots \ {s} : slot'[r] = slot[r],
           \/ slot'[s].inUse = slot[s].inUse /\ slot'[s].pid = slot[s].pid
           \/ slot[s].pid = "none" /\ ~slot'[s].inUse
           \/ \A p \in Waiters : handle[p] = Current(s) /\ slot[s].inUse => p \in pm'.notify
           \/ ~slot[s].inUse /\ ~slot'[s].inUse
    PROVE  NoLostNotice'
<1> SUFFICES ASSUME NEW p \in Procs,
                    \/ at[p] = "startup_sleep" /\ Awaited(p, "startup")'
                    \/ at[p] = "shutdown_sleep" /\ Awaited(p, "shutdown")'
             PROVE  latch[p] \/ p \in pm'.notify
  BY DEF NoLostNotice
<1>1. p \in Waiters /\ handle[p] \in Handles
  BY DEF Registrants, Waiting, Asleep
<1>2. handle[p][1] \in Slots /\ handle[p] = <<handle[p][1], handle[p][2]>>
  BY <1>1 DEF Handles
<1>3. CASE Pid(handle[p])' = Pid(handle[p])
  BY <1>3 DEF NoLostNotice, Awaited
<1>4. CASE handle[p][1] # s BY <1>1, <1>2, <1>3, <1>4, SamePid
<1>5. CASE handle[p][1] = s /\ handle[p][2] # slot[s].gen
  BY <1>1, <1>2, <1>3, <1>5, SamePid
<1>6. CASE handle[p] = Current(s)
  <2>1. handle[p][1] = s BY <1>6 DEF Current
  <2>2. CASE slot[s].inUse /\ \A q \in Waiters : handle[q] = Current(s) => q \in pm'.notify
    BY <1>1, <1>6, <2>2
  <2>3. CASE ~slot[s].inUse /\ ~slot'[s].inUse
    <3>1. Pid(handle[p])' = Pid(handle[p]) BY <2>1, <2>3 DEF Pid
    <3> QED BY <1>3, <3>1
  <2>4. CASE \/ slot'[s].inUse = slot[s].inUse /\ slot'[s].pid = slot[s].pid
             \/ slot[s].pid = "none" /\ ~slot'[s].inUse
    BY <1>1, <1>3, <2>1, <2>4, SamePid
  <2>5. CASE ~slot[s].inUse
    <3>1. Pid(handle[p]) = "none" BY <2>1, <2>5 DEF Pid
    <3>2. Awaited(p, "startup") /\ Awaited(p, "shutdown") BY <3>1 DEF Awaited
    <3> QED BY <3>2 DEF NoLostNotice
  <2> QED BY <2>2, <2>3, <2>4, <2>5
<1> QED BY <1>2, <1>4, <1>5, <1>6 DEF Current

(* ... and that lets the registrant stay where it was.                       *)
LEMMA Registered ==
    ASSUME HandlesInv, Registrants, NEW s \in Slots, UNCHANGED <<at, handle>>,
           slot'[s].gen = slot[s].gen,
           \A r \in Slots \ {s} : slot'[r] = slot[r] /\ rw'[r] = rw[r],
           slot'[s].inUse => /\ slot[s].inUse /\ slot'[s].notify = slot[s].notify
                             /\ rw'[s].listed =>
                                  \/ rw[s].listed /\ rw'[s].notify = rw[s].notify
                                  \/ slot[s].notify \in Backends =>
                                        rw'[s].notify = slot[s].notify
    PROVE  Registrants'
<1>1. \A r \in Slots : slot'[r].gen = slot[r].gen OBVIOUS
<1>2. \A p \in Procs : handle[p] \in Handles => handle[p][1] \in Slots BY DEF Handles
<1>3. \A r \in Slots : Current(r)' = Current(r) BY <1>1 DEF Current
<1>4. ASSUME NEW p \in Waiters, NEW r \in Slots, handle[p] = Current(r), slot'[r].inUse
      PROVE  slot'[r].notify = p /\ (rw'[r].listed => rw'[r].notify = p)
  <2>1. CASE r # s BY <1>4, <2>1 DEF Registrants
  <2>2. CASE r = s
    <3>1. slot[s].inUse /\ slot[s].notify = p /\ slot'[s].notify = p
      BY <1>4, <2>2 DEF Registrants
    <3>2. p \in Procs BY BgWorkerAssumption
    <3>3. handle[p] # NoHandle
      BY <1>4, BgWorkerAssumption DEF Current, NoHandle
    <3>4. p \in Backends BY <3>2, <3>3 DEF Registrants, Backends
    <3> QED BY <1>4, <2>2, <3>1, <3>4 DEF Registrants
  <2> QED BY <2>1, <2>2
<1> QED BY <1>1, <1>2, <1>3, <1>4 DEF Registrants

NoticeInv == Registrants /\ NoLostNotice

(* Signalling bgw_notify_pid, as the slot or the list has it, reaches the    *)
(* backend that holds the handle.                                            *)
LEMMA WhomHears ==
    ASSUME HandlesInv, Registrants, NEW s \in Slots, NEW p \in Waiters,
           handle[p] = Current(s), slot[s].inUse
    PROVE  p \in Whom(slot[s].notify) /\ (rw[s].listed => p \in Whom(rw[s].notify))
<1>1. p # Nobody BY BgWorkerAssumption
<1>2. slot[s].notify = p /\ (rw[s].listed => rw[s].notify = p) BY DEF Registrants
<1> QED BY <1>1, <1>2 DEF Whom

(* A slot that is released, and its registrant told.                         *)
LEMMA ForgetNotices ==
    ASSUME HandlesInv, NoticeInv, NEW s \in Slots, Forget(s), UNCHANGED procVars,
           pm.notify = {}, slot[s].inUse,
           \/ pm'.notify = Whom(slot[s].notify)
           \/ rw[s].listed /\ pm'.notify = Whom(rw[s].notify)
           \/ slot[s].pid = "none"
    PROVE  NoticeInv'
<1>1. /\ slot'[s].inUse = FALSE /\ slot'[s].gen = slot[s].gen
      /\ \A r \in Slots \ {s} : slot'[r] = slot[r] /\ rw'[r] = rw[r]
  BY ForgetFields
<1>2. \/ slot[s].pid = "none" /\ ~slot'[s].inUse
      \/ \A p \in Waiters : handle[p] = Current(s) /\ slot[s].inUse => p \in pm'.notify
  BY <1>1, WhomHears DEF NoticeInv
<1>3. NoLostNotice' BY <1>1, <1>2, Noticed DEF NoticeInv, procVars
<1>4. Registrants' BY <1>1, Registered DEF NoticeInv, procVars
<1> QED BY <1>3, <1>4 DEF NoticeInv

(* BackgroundWorkerStateChange.                                              *)
LEMMA StateChangeNotices ==
    ASSUME HandlesInv, NoticeInv, NEW s \in Slots, StateChangeSlot(s)
    PROVE  NoticeInv'
<1>0. /\ slot \in [Slots -> SlotRecords] /\ rw \in [Slots -> ListRecords] /\ pm \in PmRecords
      /\ Whom(rw[s].notify) \in SUBSET Procs /\ Whom(slot[s].notify) \in SUBSET Procs
      /\ UNCHANGED procVars /\ UNCHANGED <<at, handle, latch>> /\ pm.notify = {}
  BY WhomType DEF HandlesInv, Types, StateChangeSlot, Visiting, procVars
<1>1. CASE UNCHANGED <<slotVars, rw>>
  <2>1. UNCHANGED <<slot, rw>> BY <1>1 DEF slotVars
  <2>2. NoLostNotice' BY <1>0, <2>1, Noticed DEF NoticeInv
  <2>3. Registrants' BY <1>0, <2>1 DEF NoticeInv, Registrants, Current
  <2> QED BY <2>2, <2>3 DEF NoticeInv
<1>2. CASE slot[s].inUse /\ rw[s].listed /\ TerminateKnown(s)
  <2>0. rw' = [rw EXCEPT ![s].terminate = TRUE] BY <1>2 DEF TerminateKnown
  <2>1. /\ rw'[s].notify = rw[s].notify /\ rw'[s].listed = rw[s].listed
        /\ \A r \in Slots \ {s} : rw'[r] = rw[r]
    BY <1>0, <2>0
  <2>2. CASE rw[s].pid = "run"
    <3>1. UNCHANGED slot BY <1>2, <2>2 DEF TerminateKnown
    <3>2. NoLostNotice' BY <1>0, <3>1, Noticed DEF NoticeInv
    <3>3. Registrants' BY <1>0, <1>2, <2>1, <3>1, Registered DEF NoticeInv
    <3> QED BY <3>2, <3>3 DEF NoticeInv
  <2>3. CASE rw[s].pid # "run"
    <3>1. slot' = [slot EXCEPT ![s].pid = "none"] /\ Visited(s, Whom(rw[s].notify))
      BY <1>2, <2>3 DEF TerminateKnown
    <3>2. /\ slot'[s].gen = slot[s].gen /\ slot'[s].inUse = slot[s].inUse
          /\ slot'[s].notify = slot[s].notify
          /\ \A r \in Slots \ {s} : slot'[r] = slot[r]
      BY <1>0, <3>1
    <3>3. pm'.notify = Whom(rw[s].notify) BY <1>0, <3>1, VisitedLoop
    <3>4. \A p \in Waiters : handle[p] = Current(s) /\ slot[s].inUse => p \in pm'.notify
      BY <1>2, <3>3, WhomHears DEF NoticeInv
    <3>5. NoLostNotice' BY <1>0, <3>2, <3>4, Noticed DEF NoticeInv
    <3>6. Registrants' BY <1>0, <1>2, <2>1, <3>2, Registered DEF NoticeInv
    <3> QED BY <3>5, <3>6 DEF NoticeInv
  <2> QED BY <2>2, <2>3
<1>3. CASE slot[s].inUse /\ RejectNew(s)
  <2>1. pm'.notify = Whom(slot[s].notify) BY <1>0, <1>3, VisitedLoop DEF RejectNew
  <2> QED BY <1>0, <1>3, <2>1, ForgetNotices DEF RejectNew
<1>4. CASE slot[s].inUse /\ Enlist(s)
  <2>1. UNCHANGED slot BY <1>4 DEF Enlist, slotVars
  <2>2. \A r \in Slots \ {s} : rw'[r] = rw[r] BY <1>0, <1>4 DEF Enlist
  <2>3. slot[s].notify \in Backends => rw'[s].notify = slot[s].notify
    <3> DEFINE n == IF slot[s].notify \in Backends THEN slot[s].notify ELSE Nobody
    <3>1. rw' = [rw EXCEPT ![s] = [Unlisted EXCEPT !.listed = TRUE, !.notify = n]]
      BY <1>4 DEF Enlist
    <3> HIDE DEF n
    <3>2. rw'[s].notify = n BY <1>0, <3>1 DEF Unlisted
    <3> QED BY <3>2 DEF n
  <2>4. NoLostNotice' BY <1>0, <2>1, Noticed DEF NoticeInv
  <2>5. Registrants' BY <1>0, <1>4, <2>1, <2>2, <2>3, Registered DEF NoticeInv
  <2> QED BY <2>4, <2>5 DEF NoticeInv
<1> QED BY <1>1, <1>2, <1>3, <1>4 DEF StateChangeSlot

(* maybe_start_bgworkers.                                                    *)
LEMMA MaybeStartNotices ==
    ASSUME HandlesInv, NoticeInv, NEW s \in Slots, MaybeStartSlot(s)
    PROVE  NoticeInv'
<1>0. /\ slot \in [Slots -> SlotRecords] /\ rw \in [Slots -> ListRecords] /\ pm \in PmRecords
      /\ Whom(rw[s].notify) \in SUBSET Procs
      /\ UNCHANGED procVars /\ UNCHANGED <<at, handle, latch>> /\ pm.notify = {}
  BY WhomType DEF HandlesInv, Types, MaybeStartSlot, Visiting, procVars
<1>1. rw[s].listed /\ slot[s].inUse
  BY DEF MaybeStartSlot, Visiting, HandlesInv, LoopListed, Books, Booked
<1>2. CASE UNCHANGED <<slotVars, rw>>
  <2>1. UNCHANGED <<slot, rw>> BY <1>2 DEF slotVars
  <2>2. NoLostNotice' BY <1>0, <2>1, Noticed DEF NoticeInv
  <2>3. Registrants' BY <1>0, <2>1 DEF NoticeInv, Registrants, Current
  <2> QED BY <2>2, <2>3 DEF NoticeInv
<1>3. CASE rw[s].pid = "none" /\ rw[s].terminate /\ Forget(s)
  <2>1. slot[s].pid = "none" BY <1>3 DEF HandlesInv, Books, Booked
  <2> QED BY <1>0, <1>1, <1>3, <2>1, ForgetNotices
<1>4. CASE Forget(s) /\ Visited(s, Whom(rw[s].notify))
  <2>1. pm'.notify = Whom(rw[s].notify) BY <1>0, <1>4, VisitedLoop
  <2> QED BY <1>0, <1>1, <1>4, <2>1, ForgetNotices
<1>5. CASE Launch(s)
  <2>1. /\ slot'[s].gen = slot[s].gen /\ slot'[s].inUse = slot[s].inUse
        /\ slot'[s].notify = slot[s].notify
        /\ rw'[s].notify = rw[s].notify
        /\ \A r \in Slots \ {s} : slot'[r] = slot[r] /\ rw'[r] = rw[r]
    BY <1>0, <1>5 DEF Launch
  <2>2. pm'.notify = Whom(rw[s].notify) BY <1>0, <1>5, VisitedLoop DEF Launch
  <2>3. \A p \in Waiters : handle[p] = Current(s) /\ slot[s].inUse => p \in pm'.notify
    BY <1>1, <2>2, WhomHears DEF NoticeInv
  <2>4. NoLostNotice' BY <1>0, <2>1, <2>3, Noticed DEF NoticeInv
  <2>5. Registrants' BY <1>0, <1>1, <2>1, Registered DEF NoticeInv
  <2> QED BY <2>4, <2>5 DEF NoticeInv
<1>6. CASE LaunchFails(s)
  <2>1. UNCHANGED slot BY <1>6 DEF LaunchFails, slotVars
  <2>2. rw'[s].notify = rw[s].notify /\ \A r \in Slots \ {s} : rw'[r] = rw[r]
    BY <1>0, <1>6 DEF LaunchFails
  <2>3. NoLostNotice' BY <1>0, <2>1, Noticed DEF NoticeInv
  <2>4. Registrants' BY <1>0, <1>1, <2>1, <2>2, Registered DEF NoticeInv
  <2> QED BY <2>3, <2>4 DEF NoticeInv
<1> QED BY <1>2, <1>3, <1>4, <1>5, <1>6 DEF MaybeStartSlot

(* ForgetUnstartedBackgroundWorkers and CleanupBackend of a worker.          *)
LEMMA CleanupNotices ==
    ASSUME HandlesInv, NoticeInv,
           \/ \E s \in Slots : ForgetUnstarted(s)
           \/ \E h \in Handles, code \in Codes : CleanupWorker(h, code)
    PROVE  NoticeInv'
<1>1. ASSUME NEW s \in Slots, ForgetUnstarted(s) PROVE NoticeInv'
  <2>0. /\ pm \in PmRecords /\ Whom(rw[s].notify) \in SUBSET Procs
        /\ UNCHANGED procVars /\ UNCHANGED <<at, handle, latch>> /\ pm.notify = {}
        /\ rw[s].listed /\ slot[s].inUse
    BY <1>1, WhomType DEF HandlesInv, Types, ForgetUnstarted, Visiting, procVars,
                          LoopListed, Books, Booked
  <2>1. CASE UNCHANGED <<slotVars, rw>>
    <3>1. UNCHANGED <<slot, rw>> BY <2>1 DEF slotVars
    <3>2. NoLostNotice' BY <2>0, <3>1, Noticed DEF NoticeInv
    <3>3. Registrants' BY <2>0, <3>1 DEF NoticeInv, Registrants, Current
    <3> QED BY <3>2, <3>3 DEF NoticeInv
  <2>2. CASE Forget(s) /\ Visited(s, Whom(rw[s].notify))
    <3>1. pm'.notify = Whom(rw[s].notify) BY <2>0, <2>2, VisitedLoop
    <3> QED BY <2>0, <2>2, <3>1, ForgetNotices
  <2> QED BY <1>1, <2>1, <2>2 DEF ForgetUnstarted
<1>2. ASSUME NEW h \in Handles, NEW code \in Codes, CleanupWorker(h, code) PROVE NoticeInv'
  <2> DEFINE s == h[1]
  <2>0. /\ slot \in [Slots -> SlotRecords] /\ rw \in [Slots -> ListRecords]
        /\ s \in Slots /\ pm \in PmRecords
        /\ UNCHANGED procVars /\ UNCHANGED <<at, handle, latch>> /\ pm.notify = {}
    BY <1>2, Constants DEF HandlesInv, Types, CleanupWorker, procVars, Handles
  <2>1. rw[s].pid = "run" BY <1>2 DEF HandlesInv, Processes, CleanupWorker, Codes
  <2>2. rw[s].listed /\ slot[s].inUse BY <2>0, <2>1 DEF HandlesInv, Books, Booked
  <2>3. pm'.notify = Whom(rw[s].notify) BY <1>2, <2>0 DEF CleanupWorker, PmRecords
  <2>4. CASE Forget(s) BY <2>0, <2>2, <2>3, <2>4, ForgetNotices
  <2>5. CASE /\ rw' = [rw EXCEPT ![s].pid = "none", ![s].crashed = "recent"]
             /\ slot' = [slot EXCEPT ![s].pid = "none"]
    <3>1. /\ slot'[s].gen = slot[s].gen /\ slot'[s].inUse = slot[s].inUse
          /\ slot'[s].notify = slot[s].notify
          /\ \A r \in Slots \ {s} : slot'[r] = slot[r]
      BY <2>0, <2>5
    <3>2. rw'[s].notify = rw[s].notify /\ \A r \in Slots \ {s} : rw'[r] = rw[r]
      BY <2>0, <2>5
    <3>3. \A p \in Waiters : handle[p] = Current(s) /\ slot[s].inUse => p \in pm'.notify
      BY <2>0, <2>2, <2>3, WhomHears DEF NoticeInv
    <3>4. NoLostNotice' BY <2>0, <3>1, <3>3, Noticed DEF NoticeInv
    <3>5. Registrants' BY <2>0, <2>2, <3>1, <3>2, Registered DEF NoticeInv
    <3> QED BY <3>4, <3>5 DEF NoticeInv
  <2> QED BY <1>2, <2>4, <2>5 DEF CleanupWorker
<1> QED BY <1>1, <1>2

(* Backends: a sleep starts only when there is something to wait for, and a  *)
(* latch is reset before the status is looked at again.                      *)
LEMMA BackendNotices ==
    ASSUME HandlesInv, NoticeInv, NEW p \in Procs,
           \/ SendSignal(p) \/ Exit(p)
           \/ \E for \in {"startup", "shutdown"} : Wait(p, for)
           \/ Check(p, "startup", "startup_sleep") \/ WaitLatch(p, "startup", "startup_sleep")
           \/ Check(p, "shutdown", "shutdown_sleep")
           \/ WaitLatch(p, "shutdown", "shutdown_sleep")
    PROVE  NoticeInv'
<1>0. /\ at \in [Procs -> Places] /\ latch \in [Procs -> BOOLEAN]
      /\ handle \in [Procs -> Handles \cup {NoHandle}]
      /\ UNCHANGED <<slot, rw, pm>>
  BY DEF HandlesInv, Types, SendSignal, Exit, Wait, Check, WaitLatch, slotVars, pmVars
<1>1. \A q \in Procs \ {p} : at'[q] = at[q] /\ latch'[q] = latch[q] /\ handle'[q] = handle[q]
  BY <1>0 DEF SendSignal, Exit, Wait, Check, WaitLatch
<1>2. handle'[p] = handle[p] \/ (handle'[p] = NoHandle /\ at'[p] = "exited")
  BY <1>0 DEF SendSignal, Exit, Wait, Check, WaitLatch
<1>3. /\ at'[p] \in Asleep => ~Awaited(p, IF at'[p] = "startup_sleep" THEN "startup" ELSE "shutdown")
      /\ at'[p] \in Asleep => handle'[p] = handle[p]
  BY <1>0 DEF SendSignal, Exit, Wait, Check, WaitLatch, Asleep
<1>4. NoHandle \notin Handles BY BgWorkerAssumption DEF NoHandle, Handles
<1>5. /\ at'[p] \notin {"idle", "signal"} => p \in Waiters
      /\ at'[p] \in Waiting => handle'[p] \in Handles
      /\ at'[p] \in {"exited", "down"} => handle'[p] = NoHandle
  <2>1. at[p] \in Waiting => handle[p] \in Handles /\ p \in Waiters
    BY DEF NoticeInv, Registrants, Waiting, Asleep
  <2>2. CASE SendSignal(p)
    BY <1>0, <2>2 DEF SendSignal, Waiting, Asleep
  <2>3. CASE Exit(p) BY <1>0, <2>3 DEF Exit, Waiting, Asleep
  <2>4. ASSUME NEW for \in {"startup", "shutdown"}, Wait(p, for)
        PROVE  at'[p] = for /\ p \in Waiters /\ handle'[p] \in Handles
    BY <1>0, <2>4 DEF Wait
  <2>5. CASE Check(p, "startup", "startup_sleep")
    BY <1>0, <2>1, <2>5 DEF Check, Waiting, Asleep
  <2>6. CASE Check(p, "shutdown", "shutdown_sleep")
    BY <1>0, <2>1, <2>6 DEF Check, Waiting, Asleep
  <2>7. CASE WaitLatch(p, "startup", "startup_sleep")
    BY <1>0, <2>1, <2>7 DEF WaitLatch, Waiting, Asleep
  <2>8. CASE WaitLatch(p, "shutdown", "shutdown_sleep")
    BY <1>0, <2>1, <2>8 DEF WaitLatch, Waiting, Asleep
  <2> QED BY <2>2, <2>3, <2>4, <2>5, <2>6, <2>7, <2>8
<1>6. Registrants'
  <2>1. \A q \in Procs : handle'[q] \in Handles => handle'[q] = handle[q]
    BY <1>1, <1>2, <1>4
  <2>2. \A s \in Slots : Current(s)' = Current(s) BY <1>0 DEF Current
  <2>3. ASSUME NEW q \in Waiters, NEW s \in Slots, handle'[q] = Current(s), slot[s].inUse
        PROVE  slot[s].notify = q /\ (rw[s].listed => rw[s].notify = q)
    <3>1. handle'[q] # NoHandle BY <2>3, BgWorkerAssumption DEF Current, NoHandle
    <3>2. handle'[q] = handle[q] BY <1>1, <1>2, <3>1, BgWorkerAssumption
    <3>3. handle[q] = Current(s) /\ slot[s].inUse =>
            slot[s].notify = q /\ (rw[s].listed => rw[s].notify = q)
      BY DEF NoticeInv, Registrants
    <3> QED BY <2>3, <3>2, <3>3
  <2> QED BY <1>0, <1>1, <1>5, <2>1, <2>2, <2>3 DEF NoticeInv, Registrants
<1>7. NoLostNotice'
  <2> SUFFICES ASSUME NEW q \in Procs,
                      \/ at'[q] = "startup_sleep" /\ Awaited(q, "startup")'
                      \/ at'[q] = "shutdown_sleep" /\ Awaited(q, "shutdown")'
               PROVE  latch'[q] \/ q \in pm'.notify
    BY DEF NoLostNotice
  <2>1. q # p BY <1>0, <1>3 DEF Awaited, Pid, Asleep
  <2> QED BY <1>0, <1>1, <2>1 DEF NoticeInv, NoLostNotice, Awaited, Pid
<1> QED BY <1>6, <1>7 DEF NoticeInv

(* RegisterDynamicBackgroundWorker and TerminateBackgroundWorker.            *)
LEMMA RegisterNotices ==
    ASSUME HandlesInv, NoticeInv, NEW p \in Procs,
           \/ Terminate(p)
           \/ \E s \in Slots, kind \in Kinds :
                Register(p, s, kind, IF p \in Waiters THEN p ELSE Nobody)
    PROVE  NoticeInv'
<1>0. /\ slot \in [Slots -> SlotRecords] /\ at \in [Procs -> Places]
      /\ handle \in [Procs -> Handles \cup {NoHandle}]
  BY DEF HandlesInv, Types
<1>1. CASE Terminate(p)
  <2>1. UNCHANGED <<rw, pm, latch, handle>> BY <1>1 DEF Terminate, pmVars
  <2>2. \A s \in Slots : /\ slot'[s].gen = slot[s].gen /\ slot'[s].pid = slot[s].pid
                         /\ slot'[s].inUse = slot[s].inUse
                         /\ slot'[s].notify = slot[s].notify
    BY <1>0, <1>1 DEF Terminate
  <2>3. at[p] = "idle" /\ at'[p] = "signal" /\ \A q \in Procs \ {p} : at'[q] = at[q]
    BY <1>0, <1>1 DEF Terminate
  <2>4. Registrants'
    <3>1. \A h \in Handles : h[1] \in Slots BY DEF Handles
    <3>2. \A s \in Slots : Current(s)' = Current(s) BY <2>2 DEF Current
    <3> QED BY <2>1, <2>2, <2>3, <3>1, <3>2 DEF NoticeInv, Registrants, Waiting, Asleep
  <2>5. NoLostNotice'
    <3> SUFFICES ASSUME NEW q \in Procs,
                        \/ at'[q] = "startup_sleep" /\ Awaited(q, "startup")'
                        \/ at'[q] = "shutdown_sleep" /\ Awaited(q, "shutdown")'
                 PROVE  latch'[q] \/ q \in pm'.notify
      BY DEF NoLostNotice
    <3>1. at'[q] = at[q] BY <2>3
    <3>2. handle[q] \in Handles BY <3>1 DEF NoticeInv, Registrants, Waiting, Asleep
    <3>3. handle[q][1] \in Slots BY <3>2 DEF Handles
    <3>4. Pid(handle[q])' = Pid(handle[q]) BY <2>1, <2>2, <3>3 DEF Pid
    <3> QED BY <2>1, <3>1, <3>4 DEF NoticeInv, NoLostNotice, Awaited
  <2> QED BY <2>4, <2>5 DEF NoticeInv
<1>2. ASSUME NEW s \in Slots, NEW kind \in Kinds,
             Register(p, s, kind, IF p \in Waiters THEN p ELSE Nobody)
      PROVE  NoticeInv'
  <2> DEFINE n == IF p \in Waiters THEN p ELSE Nobody
  <2>1. /\ UNCHANGED <<rw, pm, latch>> /\ ~slot[s].inUse /\ ~rw[s].listed
        /\ slot[s].gen \in 0 .. MaxGen /\ MaxGen \in Nat /\ slot[s].gen < MaxGen
    BY <1>0, <1>2, BgWorkerAssumption DEF Register, pmVars, SlotRecords, HandlesInv, Books, Booked
  <2>2. /\ slot'[s].gen = slot[s].gen + 1 /\ slot'[s].notify = n
        /\ \A r \in Slots \ {s} : slot'[r] = slot[r]
    BY <1>0, <1>2 DEF Register
  <2>3. /\ at[p] = "idle" /\ at'[p] = "signal" /\ handle'[p] = <<s, slot[s].gen + 1>>
        /\ \A q \in Procs \ {p} : at'[q] = at[q] /\ handle'[q] = handle[q]
    BY <1>0, <1>2 DEF Register
  <2>4. handle'[p] \in Handles BY <2>1, <2>3 DEF Handles
  <2>5. \A q \in Procs \ {p} : handle[q] \in Handles =>
            /\ handle[q][1] \in Slots /\ handle[q][2] \in Int
            /\ handle[q][2] <= slot[handle[q][1]].gen
    BY DEF NoticeInv, Registrants, Handles
  <2>6. Registrants'
    <3>1. \A q \in Procs : at'[q] \notin {"idle", "signal"} => q \in Waiters
      BY <2>3 DEF NoticeInv, Registrants
    <3>2. \A q \in Procs : /\ at'[q] \in Waiting => handle'[q] \in Handles
                           /\ at'[q] \in {"exited", "down"} => handle'[q] = NoHandle
      BY <2>3, <2>4 DEF NoticeInv, Registrants
    <3>3. ASSUME NEW q \in Procs, handle'[q] \in Handles
          PROVE  handle'[q][2] <= slot'[handle'[q][1]].gen
      <4>1. CASE q = p BY <2>1, <2>2, <2>3, <4>1
      <4>2. CASE q # p /\ handle[q][1] = s
        BY <2>1, <2>2, <2>3, <2>5, <3>3, <4>2
      <4>3. CASE q # p /\ handle[q][1] # s
        BY <2>2, <2>3, <2>5, <3>3, <4>3
      <4> QED BY <4>1, <4>2, <4>3
    <3>4. ASSUME NEW q \in Waiters, NEW r \in Slots,
                 handle'[q] = Current(r)', slot'[r].inUse
          PROVE  slot'[r].notify = q /\ (rw'[r].listed => rw'[r].notify = q)
      <4>0. q \in Procs BY BgWorkerAssumption
      <4>1. CASE r = s /\ q = p BY <2>1, <2>2, <4>1
      <4>2. CASE r = s /\ q # p
        <5>1. handle[q] = <<s, slot[s].gen + 1>> BY <2>2, <2>3, <3>4, <4>0, <4>2 DEF Current
        <5>2. handle[q] \in Handles BY <5>1, <2>1 DEF Handles
        <5> QED BY <2>1, <2>5, <4>0, <4>2, <5>1, <5>2
      <4>3. CASE r # s
        <5>1. handle'[q] = Current(r) BY <2>2, <3>4, <4>3 DEF Current
        <5>2. q # p BY <2>3, <4>3, <5>1 DEF Current
        <5>3. handle[q] = Current(r) /\ slot[r].inUse BY <2>2, <2>3, <3>4, <4>0, <4>3, <5>1, <5>2
        <5> QED BY <2>1, <2>2, <4>3, <5>3 DEF NoticeInv, Registrants
      <4> QED BY <4>1, <4>2, <4>3
    <3> QED BY <3>1, <3>2, <3>3, <3>4 DEF Registrants
  <2>7. NoLostNotice'
    <3> SUFFICES ASSUME NEW q \in Procs,
                        \/ at'[q] = "startup_sleep" /\ Awaited(q, "startup")'
                        \/ at'[q] = "shutdown_sleep" /\ Awaited(q, "shutdown")'
                 PROVE  latch'[q] \/ q \in pm'.notify
      BY DEF NoLostNotice
    <3>1. q # p /\ at'[q] = at[q] /\ handle'[q] = handle[q] BY <2>3
    <3>2. handle[q] \in Handles BY <3>1 DEF NoticeInv, Registrants, Waiting, Asleep
    <3>3. Pid(handle[q])' = Pid(handle[q])
      <4>1. CASE handle[q][1] = s
        BY <2>1, <2>2, <2>5, <3>1, <3>2, <4>1 DEF Pid
      <4>2. CASE handle[q][1] # s
        BY <2>2, <2>5, <3>1, <3>2, <4>2 DEF Pid
      <4> QED BY <4>1, <4>2
    <3> QED BY <2>1, <3>1, <3>3 DEF NoticeInv, NoLostNotice, Awaited
  <2> QED BY <2>6, <2>7 DEF NoticeInv
<1> QED BY <1>1, <1>2

(* The rest of the system keeps it too.                                      *)
LEMMA NoticeStep == HandlesInv /\ NoticeInv /\ [Next]_vars => NoticeInv'
<1> SUFFICES ASSUME HandlesInv, NoticeInv, [Next]_vars PROVE NoticeInv'
  OBVIOUS
<1>1. ASSUME UNCHANGED <<slot, latch, at, handle>>,
             pm'.notify = pm.notify,
             \A s \in Slots : rw'[s].listed = rw[s].listed /\ rw'[s].notify = rw[s].notify
      PROVE  NoticeInv'
  BY <1>1 DEF NoticeInv, Registrants, NoLostNotice, Awaited, Pid, Current
<1>2. ASSUME NEW p \in Procs, CleanupBackend(p) PROVE NoticeInv'
  <2>1. UNCHANGED <<slot, pm, latch, handle>> BY <1>2 DEF CleanupBackend, slotVars
  <2>2. /\ at[p] = "exited" /\ at'[p] = "down" /\ \A q \in Procs \ {p} : at'[q] = at[q]
    BY <1>2 DEF CleanupBackend, HandlesInv, Types
  <2>3. \A s \in Slots : /\ rw'[s].listed = rw[s].listed
                         /\ rw[s].notify # p => rw'[s].notify = rw[s].notify
    BY <1>2 DEF CleanupBackend, HandlesInv, Types
  <2>4. handle[p] = NoHandle BY <2>2 DEF NoticeInv, Registrants
  <2>5. \A s \in Slots : NoHandle # Current(s) BY BgWorkerAssumption DEF NoHandle, Current
  <2>6. Registrants'
    <3>1. \A s \in Slots : Current(s)' = Current(s) BY <2>1 DEF Current
    <3>2. \A q \in Procs : /\ at'[q] \notin {"idle", "signal"} => q \in Waiters
                           /\ at'[q] \in Waiting => handle[q] \in Handles
                           /\ at'[q] \in {"exited", "down"} => handle[q] = NoHandle
      BY <2>2, <2>4 DEF NoticeInv, Registrants, Waiting, Asleep
    <3> QED BY <2>1, <2>3, <2>4, <2>5, <3>1, <3>2 DEF NoticeInv, Registrants
  <2>7. NoLostNotice'
    BY <2>1, <2>2 DEF NoticeInv, NoLostNotice, Awaited, Pid
  <2> QED BY <2>6, <2>7 DEF NoticeInv
<1>3. CASE Notify
  <2>1. UNCHANGED <<slot, rw, at, handle>> BY <1>3 DEF Notify, slotVars
  <2>2. \A p \in Procs : latch[p] \/ p \in pm.notify => latch'[p] BY <1>3 DEF Notify
  <2>3. Registrants' BY <2>1 DEF NoticeInv, Registrants, Current
  <2>4. NoLostNotice' BY <2>1, <2>2 DEF NoticeInv, NoLostNotice, Awaited, Pid
  <2> QED BY <2>3, <2>4 DEF NoticeInv
<1>4. ASSUME NEW s \in Slots, RestartTimePasses(s) PROVE NoticeInv'
  <2>1. UNCHANGED <<slot, pm, latch, at, handle>>
    BY <1>4 DEF RestartTimePasses, slotVars, procVars
  <2>2. \A r \in Slots : rw'[r].listed = rw[r].listed /\ rw'[r].notify = rw[r].notify
    BY <1>4 DEF RestartTimePasses, HandlesInv, Types
  <2> QED BY <1>1, <2>1, <2>2
<1>5. CASE StateChange \/ MaybeStart \/ StopBackends
  <2>1. UNCHANGED <<slot, rw, latch, at, handle>>
    BY <1>5 DEF StateChange, MaybeStart, StopBackends, slotVars, procVars
  <2>2. pm = Idle /\ pm'.notify = {} BY <1>5 DEF StateChange, MaybeStart, StopBackends, Loop
  <2> QED BY <1>1, <2>1, <2>2, Constants
<1>6. ASSUME NEW h \in Handles, NEW code \in Codes, WorkerExit(h, code) PROVE NoticeInv'
  <2>1. UNCHANGED <<slot, rw, pm, latch, at, handle>>
    BY <1>6 DEF WorkerExit, slotVars, pmVars, procVars
  <2> QED BY <1>1, <2>1
<1>7. CASE UNCHANGED vars
  <2>1. UNCHANGED <<slot, rw, pm, latch, at, handle>>
    BY <1>7 DEF vars, slotVars, pmVars, procVars
  <2> QED BY <1>1, <2>1
<1>8. ASSUME NEW p \in Procs, BackendStep(p) PROVE NoticeInv'
  BY <1>8, BackendNotices DEF BackendStep
<1> QED BY <1>2, <1>3, <1>4, <1>5, <1>6, <1>7, <1>8, BackendNotices, RegisterNotices,
           CleanupNotices, StateChangeNotices, MaybeStartNotices DEF Next, Handling, Reap

(* Nobody misses the notice it waits for: whichever way its worker comes up, *)
(* ends or is refused, the backend asleep on the answer has its latch set,   *)
(* or is about to be signalled, for every number of slots and backends.      *)
THEOREM NobodyMissesNotice == Spec => []NoLostNotice
<1>1. Init => HandlesInv BY HandlesInit
<1>2. HandlesInv /\ [Next]_vars => HandlesInv' BY HandlesStep
<1>3. Init => NoticeInv
  <2> SUFFICES ASSUME Init PROVE NoticeInv OBVIOUS
  <2>1. \A p \in Procs : at[p] = "idle" /\ handle[p] = NoHandle BY DEF Init
  <2>2. \A s \in Slots : NoHandle # Current(s) BY BgWorkerAssumption DEF NoHandle, Current
  <2>3. NoHandle \notin Handles BY BgWorkerAssumption DEF NoHandle, Handles
  <2> QED BY <2>1, <2>2, <2>3, BgWorkerAssumption
          DEF NoticeInv, Registrants, NoLostNotice, Waiting, Asleep
<1>4. HandlesInv /\ NoticeInv /\ [Next]_vars => NoticeInv' BY NoticeStep
<1>5. NoticeInv => NoLostNotice BY DEF NoticeInv
<1> QED BY <1>1, <1>2, <1>3, <1>4, <1>5, PTL DEF Spec
=============================================================================
