------------------------------- MODULE LWLock -------------------------------
(* One lightweight lock (storage/lmgr/lwlock.c): the atomic state word, the  *)
(* wait list under its spin bit, the lwWaiting field and the semaphore of    *)
(* each process, and the calls that acquire, wait for, update and release.   *)
(* LWLocks protect the background worker slots, the process array and        *)
(* whatever else the scheduler's processes share.                            *)
(*                                                                           *)
(* One action is one atomic operation on the state word, or one section      *)
(* under LW_FLAG_LOCKED after its acquisition.  A compare-and-exchange loop  *)
(* is the one iteration that succeeds.                                       *)
EXTENDS Naturals, Sequences, FiniteSets

CONSTANTS
    Procs,        \* processes that use the lock
    MaxBackends,  \* MAX_BACKENDS
    MaxCalls,     \* bounds the acquiring calls of all processes together
    Calls,        \* the acquiring calls they make
    MaxVal,       \* bounds the values the variable of the lock takes
    MaxSignals    \* bounds semaphore signals that come from elsewhere

(* LWLockAcquire, LWLockConditionalAcquire and LWLockAcquireOrWait with the  *)
(* mode asked for, LWLockWaitForVar with the value seen last.                *)
Call ==
    [kind: {"acquire", "conditional", "or_wait"}, mode: {"S", "X"}, old: {0}]
        \cup [kind: {"var"}, mode: {"X"}, old: 0 .. MaxVal]
NoCall == [kind |-> "none", mode |-> "S", old |-> 0]

ASSUME LWLockAssumption ==
    /\ IsFiniteSet(Procs) /\ MaxBackends \in Nat
    /\ Cardinality(Procs) <= MaxBackends
    /\ MaxCalls \in Nat /\ MaxVal \in Nat /\ MaxSignals \in Nat
    /\ Calls \subseteq Call

VARIABLES
    count,       \* state & LW_LOCK_MASK
    hasWaiters,  \* LW_FLAG_HAS_WAITERS
    wip,         \* LW_FLAG_WAKE_IN_PROGRESS
    locked,      \* LW_FLAG_LOCKED
    queue,       \* waiters: the wait list
    val,         \* the variable of LWLockWaitForVar
    waiting,     \* lwWaiting of each process: "no", "waiting", "pending"
    sem,         \* count of each process's semaphore
    pc,          \* where each process is
    call,        \* the call it is in: kind, mode, and the value waited on
    extra,       \* extraWaits
    toWake,      \* wakeup: processes it has dequeued and must awaken
    post,        \* the one of them it has told so and must still signal
    held,        \* held_lwlocks, from the moment the state word says so
    calls,       \* acquiring calls made
    signals      \* semaphore signals from elsewhere, so far

bounds == <<calls, signals>>
lockVars == <<count, hasWaiters, wip, locked, queue, val>>
procVars == <<waiting, sem, pc, call, extra, toWake, post, held>>
vars == <<lockVars, procVars, bounds>>

LW_VAL_EXCLUSIVE == MaxBackends + 1
LW_VAL_SHARED == 1

Init ==
    /\ count = 0 /\ hasWaiters = FALSE /\ wip = FALSE /\ locked = FALSE
    /\ queue = <<>> /\ val = 0
    /\ waiting = [p \in Procs |-> "no"] /\ sem = [p \in Procs |-> 0]
    /\ pc = [p \in Procs |-> "idle"]
    /\ call = [p \in Procs |-> NoCall]
    /\ extra = [p \in Procs |-> 0] /\ toWake = [p \in Procs |-> {}]
    /\ post = [p \in Procs |-> {}]
    /\ held = [p \in Procs |-> "no"] /\ calls = 0
    /\ signals = [p \in Procs |-> 0]

Goto(p, l) == pc' = [pc EXCEPT ![p] = l]

Continue(p, l) == Goto(p, l) /\ UNCHANGED <<sem, extra, call>>

\* Fault: absorbed wakeups are not given back.
ReturnKeeps(p, taken) ==
    /\ Goto(p, "idle")
    /\ sem' = [sem EXCEPT ![p] = @ - taken]
    /\ extra' = [extra EXCEPT ![p] = 0]
    /\ call' = [call EXCEPT ![p] = NoCall]

(* The call returns: absorbed wakeups are given back to the semaphore, from  *)
(* which the last one was just taken if taken is 1.                          *)
Return(p, taken) ==
    /\ Goto(p, "idle")
    /\ sem' = [sem EXCEPT ![p] = @ - taken + extra[p]]
    /\ extra' = [extra EXCEPT ![p] = 0]
    /\ call' = [call EXCEPT ![p] = NoCall]

\* lwWaitMode of a queued process: LW_WAIT_UNTIL_FREE but for LWLockAcquire.
WaitMode(p) == IF call[p].kind = "acquire" THEN call[p].mode ELSE "F"

(******************************** Acquiring *********************************)

(* A process that does not hold the lock calls LWLockAcquire,                *)
(* LWLockConditionalAcquire, LWLockAcquireOrWait or LWLockWaitForVar.        *)
Begin(p, c) ==
    /\ pc[p] = "idle" /\ held[p] = "no"
    /\ calls < MaxCalls /\ calls' = calls + 1
    /\ call' = [call EXCEPT ![p] = c]
    /\ Goto(p, "attempt")
    /\ UNCHANGED <<lockVars, waiting, sem, extra, toWake, post, held, signals>>

\* Fault: a shared locker tests the count as an exclusive one would write it.
LockFreeLimit(mode) == IF mode = "X" THEN count = 0 ELSE count <= LW_VAL_EXCLUSIVE

(* What LWLockAttemptLock finds in the state word.                           *)
LockFree(mode) == IF mode = "X" THEN count = 0 ELSE count < LW_VAL_EXCLUSIVE

(* LWLockAttemptLock of a call that takes the lock.                          *)
Take(p) ==
    /\ LockFree(call[p].mode)
    /\ count' = count + (IF call[p].mode = "X" THEN LW_VAL_EXCLUSIVE ELSE LW_VAL_SHARED)
    /\ held' = [held EXCEPT ![p] = call[p].mode]

(* The first attempt.                                                        *)
Attempt(p) ==
    /\ pc[p] = "attempt" /\ call[p].kind # "var"
    /\ \/ Take(p) /\ Return(p, 0)
       \/ /\ ~LockFree(call[p].mode)
          /\ IF call[p].kind = "conditional" THEN Return(p, 0)
             ELSE Continue(p, "queue")
          /\ UNCHANGED <<count, held>>
    /\ UNCHANGED <<hasWaiters, wip, locked, queue, val, waiting, toWake, post, bounds>>

(* LWLockWaitListLock: spins until the bit is clear.                         *)
WaitListLock(p, from, to) ==
    /\ pc[p] = from /\ ~locked
    /\ locked' = TRUE
    /\ Goto(p, to)
    /\ UNCHANGED <<count, hasWaiters, wip, queue, val, waiting, sem, call, extra,
                   toWake, post, held, bounds>>

\* Fault: everybody goes to the tail.
EnqueuedTail(p) == Append(queue, p)

\* LW_WAIT_UNTIL_FREE waiters go to the front.
Enqueued(p) == IF WaitMode(p) = "F" THEN <<p>> \o queue ELSE Append(queue, p)

(* LWLockQueueSelf                                                           *)
QueueSelf(p) ==
    /\ pc[p] = "enqueue"
    /\ hasWaiters' = TRUE /\ locked' = FALSE
    /\ queue' = Enqueued(p)
    /\ waiting' = [waiting EXCEPT ![p] = "waiting"]
    /\ Goto(p, IF call[p].kind = "var" THEN "clear" ELSE "recheck")
    /\ UNCHANGED <<count, wip, val, sem, call, extra, toWake, post, held, bounds>>

\* Fault: no second attempt once queued.
RecheckNot(p) ==
    /\ pc[p] = "recheck" /\ call[p].kind # "var"
    /\ Goto(p, "sleep")
    /\ UNCHANGED <<lockVars, waiting, sem, call, extra, toWake, post, held, bounds>>

(* The second attempt, once queued.                                          *)
Recheck(p) ==
    /\ pc[p] = "recheck" /\ call[p].kind # "var"
    /\ \/ Take(p) /\ Goto(p, "dequeue")
       \/ ~LockFree(call[p].mode) /\ Goto(p, "sleep") /\ UNCHANGED <<count, held>>
    /\ UNCHANGED <<hasWaiters, wip, locked, queue, val, waiting, sem, call, extra,
                   toWake, post, bounds>>

(* The wait list, in its order, once some are deleted from it.               *)
Without(ps) ==
    LET kept == {i \in DOMAIN queue : queue[i] \notin ps}
        place(i) == Cardinality({j \in kept : j <= i})
    IN  [k \in 1 .. Cardinality(kept) |-> queue[CHOOSE i \in kept : place(i) = k]]

(* LWLockDequeueSelf, under the wait list lock.                              *)
DequeueSelf(p) ==
    /\ pc[p] = "unlink"
    /\ queue' = Without({p})
    /\ hasWaiters' = (hasWaiters /\ queue' # <<>>)
    /\ locked' = FALSE
    /\ IF waiting[p] = "waiting"
       THEN waiting' = [waiting EXCEPT ![p] = "no"] /\ Return(p, 0)
       ELSE Continue(p, "absorb_clear") /\ UNCHANGED waiting
    /\ UNCHANGED <<count, wip, val, toWake, post, held, bounds>>

\* Fault: the flag is left as it is.
ClearWakeNot(p, from, to) ==
    /\ pc[p] = from
    /\ Goto(p, to)
    /\ UNCHANGED <<lockVars, waiting, sem, call, extra, toWake, post, held, bounds>>

(* LW_FLAG_WAKE_IN_PROGRESS is cleared: a retry, a superfluous wakeup, or a  *)
(* process that queued in LWLockWaitForVar.                                  *)
ClearWake(p, from, to) ==
    /\ pc[p] = from
    /\ wip' = FALSE
    /\ Goto(p, to)
    /\ UNCHANGED <<count, hasWaiters, locked, queue, val, waiting, sem, call,
                   extra, toWake, post, held, bounds>>

\* lwWaiting == LW_WS_NOT_WAITING
Awakened(p) == waiting[p] = "no"

(* PGSemaphoreLock, then the test of lwWaiting: bogus wakeups are counted.   *)
SemaphoreLock(p) ==
    /\ pc[p] \in {"sleep", "absorb"} /\ sem[p] > 0
    /\ \/ /\ ~Awakened(p)
          /\ sem' = [sem EXCEPT ![p] = @ - 1]
          /\ extra' = [extra EXCEPT ![p] = @ + 1] /\ UNCHANGED <<pc, call>>
       \/ /\ Awakened(p) /\ (pc[p] = "absorb" \/ call[p].kind = "or_wait")
          /\ Return(p, 1)
       \/ /\ Awakened(p) /\ pc[p] = "sleep" /\ call[p].kind # "or_wait"
          /\ Goto(p, IF call[p].kind = "var" THEN "attempt" ELSE "retry")
          /\ sem' = [sem EXCEPT ![p] = @ - 1] /\ UNCHANGED <<extra, call>>
    /\ UNCHANGED <<lockVars, waiting, toWake, post, held, bounds>>

(* What LWLockWaitForVar does with an answer that it need not wait.          *)
NoWait(p, first) == IF first THEN Return(p, 0) ELSE Continue(p, "dequeue")

(* LWLockConflictsWithVar reads the state word and then the variable.        *)
ReadState(p) ==
    /\ pc[p] \in {"attempt", "recheck"} /\ call[p].kind = "var"
    /\ IF count < LW_VAL_EXCLUSIVE THEN NoWait(p, pc[p] = "attempt")
       ELSE Continue(p, IF pc[p] = "attempt" THEN "attempt_val" ELSE "recheck_val")
    /\ UNCHANGED <<lockVars, waiting, toWake, post, held, bounds>>

ReadVar(p) ==
    /\ pc[p] \in {"attempt_val", "recheck_val"} /\ call[p].kind = "var"
    /\ IF val # call[p].old THEN NoWait(p, pc[p] = "attempt_val")
       ELSE Continue(p, IF pc[p] = "attempt_val" THEN "queue" ELSE "sleep")
    /\ UNCHANGED <<lockVars, waiting, toWake, post, held, bounds>>

(************************* Releasing and updating ***************************)

(* The exchange LWLockUpdateVar and LWLockReleaseClearVar start with.        *)
SetVar(p, v, to) ==
    /\ pc[p] = "idle" /\ held[p] = "X" /\ v # val
    /\ val' = v
    /\ Goto(p, to)
    /\ UNCHANGED <<count, hasWaiters, wip, locked, queue, waiting, sem, call,
                   extra, toWake, post, held, bounds>>

\* check_waiters, from the state word the release left.
CheckWaiters(c) == hasWaiters /\ ~wip /\ c = 0

(* LWLockRelease                                                             *)
Release(p) ==
    /\ pc[p] \in {"idle", "release"} /\ held[p] # "no"
    /\ LET c == count - (IF held[p] = "X" THEN LW_VAL_EXCLUSIVE ELSE LW_VAL_SHARED)
       IN  count' = c /\ Goto(p, IF CheckWaiters(c) THEN "wake" ELSE "idle")
    /\ held' = [held EXCEPT ![p] = "no"]
    /\ UNCHANGED <<hasWaiters, wip, locked, queue, val, waiting, sem, call, extra,
                   toWake, post, bounds>>

(* Whom the scan of LWLockWakeup takes: an exclusive waiter if everybody     *)
(* before it only waits until the lock is free, anyone else unless such an   *)
(* exclusive waiter ended the scan.                                          *)
Woken ==
    LET ends(i) == WaitMode(queue[i]) = "X" /\ \A j \in 1 .. i - 1 : WaitMode(queue[j]) = "F"
    IN  {queue[i] : i \in {i \in DOMAIN queue :
            IF WaitMode(queue[i]) = "X" THEN ends(i)
            ELSE ~\E j \in 1 .. i - 1 : ends(j)}}

(* Those at the head of the list that wait until the lock is free.           *)
UntilFree ==
    {queue[i] : i \in {i \in DOMAIN queue :
        \A j \in 1 .. i : WaitMode(queue[j]) = "F"}}

\* Fault: processes taken off the list are not marked.
UnlinkSilent(p, ps) ==
    /\ queue' = Without(ps)
    /\ UNCHANGED waiting
    /\ toWake' = [toWake EXCEPT ![p] = ps]
    /\ locked' = FALSE
    /\ Goto(p, IF ps = {} THEN "idle" ELSE "awaken")

(* The processes are taken off the wait list and marked as such, to be       *)
(* awakened once the list is unlocked.                                       *)
Unlink(p, ps) ==
    /\ queue' = Without(ps)
    /\ waiting' = [q \in Procs |-> IF q \in ps THEN "pending" ELSE waiting[q]]
    /\ toWake' = [toWake EXCEPT ![p] = ps]
    /\ locked' = FALSE
    /\ Goto(p, IF ps = {} THEN "idle" ELSE "awaken")

\* Fault: waiters until free count as lockers that will retry.
WakesLockerAny(ps) == ps # {}

\* new_wake_in_progress
WakesLocker(ps) == \E q \in ps : WaitMode(q) # "F"

(* LWLockWakeup, under the wait list lock, and the flags it leaves.          *)
Wakeup(p) ==
    /\ pc[p] = "collect"
    /\ Unlink(p, Woken)
    /\ wip' = WakesLocker(Woken)
    /\ hasWaiters' = (hasWaiters /\ queue' # <<>>)
    /\ UNCHANGED <<count, val, sem, call, extra, post, held, bounds>>

(* LWLockUpdateVar, under the wait list lock: no flag changes.               *)
UpdateVar(p) ==
    /\ pc[p] = "collect_var"
    /\ Unlink(p, UntilFree)
    /\ UNCHANGED <<count, hasWaiters, wip, val, sem, call, extra, post, held, bounds>>

(* A dequeued process is told so, and only then is its semaphore raised: a   *)
(* process awake for another reason may go on in between.                    *)
Awaken(p) ==
    /\ pc[p] = "awaken"
    /\ \E q \in toWake[p] :
         /\ waiting' = [waiting EXCEPT ![q] = "no"]
         /\ toWake' = [toWake EXCEPT ![p] = @ \ {q}]
         /\ post' = [post EXCEPT ![p] = {q}]
    /\ Goto(p, "post")
    /\ UNCHANGED <<lockVars, sem, call, extra, held, bounds>>

SemaphoreUnlock(p) ==
    /\ pc[p] = "post"
    /\ sem' = [q \in Procs |-> IF q \in post[p] THEN sem[q] + 1 ELSE sem[q]]
    /\ post' = [post EXCEPT ![p] = {}]
    /\ Goto(p, IF toWake[p] = {} THEN "idle" ELSE "awaken")
    /\ UNCHANGED <<lockVars, waiting, call, extra, toWake, held, bounds>>

(* Another user of the semaphore (group XID clearing, group commit) raises   *)
(* it after the process it was meant for has gone on.                        *)
Signal(p) ==
    /\ Cardinality({q \in Procs : signals[q] > 0}) < MaxSignals /\ signals[p] = 0
    /\ signals' = [signals EXCEPT ![p] = @ + 1]
    /\ sem' = [sem EXCEPT ![p] = @ + 1]
    /\ UNCHANGED <<lockVars, waiting, pc, call, extra, toWake, post, held, calls>>

(****************************** Specification *******************************)

(* What a process does once it is in a call, or holds the lock.              *)
Step(p) ==
    \/ Attempt(p) \/ ReadState(p) \/ ReadVar(p)
    \/ WaitListLock(p, "queue", "enqueue") \/ QueueSelf(p)
    \/ ClearWake(p, "clear", "recheck") \/ Recheck(p)
    \/ SemaphoreLock(p) \/ ClearWake(p, "retry", "attempt")
    \/ WaitListLock(p, "dequeue", "unlink") \/ DequeueSelf(p)
    \/ ClearWake(p, "absorb_clear", "absorb")
    \/ Release(p)
    \/ WaitListLock(p, "wake", "collect") \/ Wakeup(p)
    \/ WaitListLock(p, "update", "collect_var") \/ UpdateVar(p)
    \/ Awaken(p) \/ SemaphoreUnlock(p)

Next ==
    \/ \E p \in Procs : Step(p) \/ Signal(p)
    \/ \E p \in Procs : \E c \in Calls : Begin(p, c)
    \/ \E p \in Procs :
         \/ val < MaxVal /\ SetVar(p, val + 1, "update")
         \/ SetVar(p, 0, "release")

Spec == Init /\ [][Next]_vars

(* A process in a call goes on when it can, and who holds the lock releases  *)
(* it: LWLocks "protect not-very-long sections of computation".              *)
FairSpec == Spec /\ \A p \in Procs : WF_vars(Step(p))

(******************************* Properties *********************************)

Locations == {"idle", "attempt", "attempt_val", "queue", "enqueue", "clear",
              "recheck", "recheck_val", "sleep", "retry", "dequeue", "unlink",
              "absorb_clear", "absorb", "release", "wake", "collect", "update",
              "collect_var", "awaken", "post"}

(* Every variable has its type.                                              *)
TypeOK ==
    /\ count \in Nat /\ {hasWaiters, wip, locked} \subseteq BOOLEAN
    /\ queue \in Seq(Procs) /\ val \in 0 .. MaxVal
    /\ waiting \in [Procs -> {"no", "waiting", "pending"}]
    /\ sem \in [Procs -> Nat] /\ extra \in [Procs -> Nat]
    /\ pc \in [Procs -> Locations] /\ call \in [Procs -> Call \cup {NoCall}]
    /\ toWake \in [Procs -> SUBSET Procs] /\ post \in [Procs -> SUBSET Procs]
    /\ held \in [Procs -> {"no", "S", "X"}]
    /\ calls \in 0 .. MaxCalls /\ signals \in [Procs -> Nat]

Holders(mode) == {p \in Procs : held[p] = mode}

(* The one number in the state word tells the holders exactly: nobody beside *)
(* an exclusive holder, and a share count that never reaches the sentinel    *)
(* value of the exclusive lock.                                              *)
CountExact ==
    count = IF Holders("X") # {} THEN LW_VAL_EXCLUSIVE ELSE Cardinality(Holders("S"))

(* The state word and the lists agree.  lwWaiting says where a process is,   *)
(* so that LWLockDequeueSelf may trust it instead of searching: on the wait  *)
(* list exactly when WAITING, in exactly one wakeup list when                *)
(* PENDING_WAKEUP, and neither when it is about to queue ("queueing for lock *)
(* while waiting on another one" is never reached).  LW_FLAG_HAS_WAITERS is  *)
(* set as long as the list is not empty, and the count tells the holders.    *)
StateExact ==
    /\ TypeOK /\ CountExact
    /\ queue # <<>> => hasWaiters
    /\ \A i, j \in DOMAIN queue : queue[i] = queue[j] => i = j
    /\ \A p \in Procs :
         /\ waiting[p] = "waiting" <=> \E i \in DOMAIN queue : queue[i] = p
         /\ waiting[p] = "pending" <=> \E q \in Procs : p \in toWake[q]
         /\ \A q, r \in Procs : p \in toWake[q] \cap toWake[r] => q = r
         /\ pc[p] \in {"idle", "attempt", "queue", "enqueue"} => waiting[p] = "no"

(* The process has still to absorb the wakeup it queued for.                 *)
OwesWait(p) ==
    pc[p] \in {"clear", "recheck", "recheck_val", "sleep", "dequeue", "unlink",
               "absorb_clear", "absorb"}

(* Nothing is lost or invented on a semaphore, however bogus wakeups, late   *)
(* signals, dequeued processes and given back counts interleave: what is     *)
(* there or will come is what came from elsewhere, plus the one wakeup a     *)
(* queued process waits for.                                                 *)
SignalsBalance ==
    \A p \in Procs :
        sem[p] + extra[p]
          + Cardinality({q \in Procs : p \in toWake[q]})
          + Cardinality({q \in Procs : p \in post[q]})
          + (IF waiting[p] = "waiting" THEN 1 ELSE 0)
        = signals[p] + (IF OwesWait(p) THEN 1 ELSE 0)

Asleep(p) == pc[p] \in {"sleep", "absorb"} /\ sem[p] = 0

(* "We're now guaranteed to be woken up if necessary": when everybody who is *)
(* in a call sleeps, somebody holds the lock.  In between attempt, queueing, *)
(* second attempt and sleep, no release goes unnoticed.                      *)
NoLostWakeup ==
    (\E p \in Procs : Asleep(p)) =>
        \E p \in Procs : held[p] # "no" \/ (pc[p] # "idle" /\ ~Asleep(p))

(* A process asleep in LWLockWaitForVar has nothing to see yet, or whoever   *)
(* changed the variable or freed the lock is on the way to awaken it: no     *)
(* wakeup under way for somebody else keeps a release from waking it.        *)
VarWaiterInformed ==
    \A p \in Procs :
        pc[p] = "sleep" /\ call[p].kind = "var" /\ waiting[p] = "waiting" =>
            \/ count >= LW_VAL_EXCLUSIVE /\ val = call[p].old
            \/ \E q \in Procs : pc[q] \in {"release", "wake", "collect", "update",
                                           "collect_var"}

(* Where a process is that has not got the lock yet, if it ever will.        *)
Acquiring == {"attempt", "attempt_val", "queue", "enqueue", "clear", "recheck",
              "recheck_val", "sleep", "retry"}

(* The mode in which a process waits in LWLockAcquire.                       *)
Wanted ==
    [p \in Procs |-> IF pc[p] \in Acquiring /\ call[p].kind = "acquire"
                     THEN call[p].mode ELSE "no"]

Abstract == INSTANCE RWLock WITH hold <- held, want <- Wanted

(* The holders the state word admits are those of a reader-writer lock:      *)
(* every step of the protocol takes, gives back or leaves the lock as        *)
(* RWLock allows, whatever the flags and the wait list say.                  *)
HoldersAsPromised == Abstract!Spec

(* Beyond that, a lock that stays grantable to processes in LWLockAcquire is *)
(* granted to one of them.                                                   *)
LockAsPromised == Abstract!FairSpec

(* Every call returns, LWLockAcquireOrWait and LWLockWaitForVar included,    *)
(* when holders release.                                                     *)
CallsReturn == \A p \in Procs : pc[p] # "idle" ~> pc[p] = "idle"
=============================================================================
