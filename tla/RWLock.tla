------------------------------- MODULE RWLock -------------------------------
(* What an LWLock promises: a lock held by one process exclusively or by any *)
(* number shared, which some waiter gets when waiters could have it.         *)
(* LWLock implements it (LWLock!LockAsPromised).                             *)
CONSTANT Procs

VARIABLES
    hold,  \* how each process holds the lock: "no", "S", "X"
    want   \* how each process waits for it: "no", "S", "X"

vars == <<hold, want>>

Modes == {"S", "X"}

Init == hold = [p \in Procs |-> "no"] /\ want = [p \in Procs |-> "no"]

(* Nobody holds the lock in a mode that excludes mode.                       *)
Free(mode) ==
    \A p \in Procs : hold[p] # "X" /\ (mode = "X" => hold[p] = "no")

(* A call that waits as long as it takes.                                    *)
Call(p, mode) ==
    /\ hold[p] = "no" /\ want[p] = "no"
    /\ want' = [want EXCEPT ![p] = mode]
    /\ UNCHANGED hold

Grant(p) ==
    /\ want[p] # "no" /\ Free(want[p])
    /\ hold' = [hold EXCEPT ![p] = want[p]]
    /\ want' = [want EXCEPT ![p] = "no"]

(* A call that may return without the lock, and got it.                      *)
TryGrant(p, mode) ==
    /\ hold[p] = "no" /\ want[p] = "no" /\ Free(mode)
    /\ hold' = [hold EXCEPT ![p] = mode]
    /\ UNCHANGED want

Release(p) ==
    /\ hold[p] # "no"
    /\ hold' = [hold EXCEPT ![p] = "no"]
    /\ UNCHANGED want

Next ==
    \E p \in Procs :
        Grant(p) \/ Release(p) \/ \E mode \in Modes : Call(p, mode) \/ TryGrant(p, mode)

Spec == Init /\ [][Next]_vars

(* A lock that stays grantable is granted to somebody.                       *)
FairSpec == Spec /\ WF_vars(\E p \in Procs : Grant(p))
=============================================================================
