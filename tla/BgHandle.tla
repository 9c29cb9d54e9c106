------------------------------ MODULE BgHandle ------------------------------
(* What the handle of a dynamic background worker promises its holder: the   *)
(* answers of GetBackgroundWorkerPid over time, beside the process they are  *)
(* about.  BGWH_STOPPED is final unless the worker asked to be restarted,    *)
(* and nothing runs for a registration whose answer is final.  BgWorker      *)
(* implements it (BgWorker!HandlesAsPromised).                               *)
CONSTANT Handles

VARIABLES
    status,  \* "none", "waiting", "started", "resting" or "gone"; a handle
             \* answers BGWH_STOPPED in the last two
    alive    \* the registrations whose worker's process is there

vars == <<status, alive>>

Init ==
    /\ status = [h \in Handles |-> "none"]
    /\ alive = {}

Register(h) ==
    /\ status[h] = "none"
    /\ status' = [status EXCEPT ![h] = "waiting"]
    /\ UNCHANGED alive

Start(h) ==
    /\ status[h] \in {"waiting", "resting"} /\ h \notin alive
    /\ status' = [status EXCEPT ![h] = "started"]
    /\ alive' = alive \cup {h}

Die(h) ==
    /\ h \in alive
    /\ alive' = alive \ {h}
    /\ UNCHANGED status

(* The process is gone, and there will be another one.                       *)
Rest(h) ==
    /\ status[h] = "started" /\ h \notin alive
    /\ status' = [status EXCEPT ![h] = "resting"]
    /\ UNCHANGED alive

(* There will be none any more.                                              *)
Unregister(h) ==
    /\ status[h] \in {"waiting", "started", "resting"} /\ h \notin alive
    /\ status' = [status EXCEPT ![h] = "gone"]
    /\ UNCHANGED alive

Next ==
    \E h \in Handles :
        Register(h) \/ Start(h) \/ Die(h) \/ Rest(h) \/ Unregister(h)

Spec == Init /\ [][Next]_vars
=============================================================================
