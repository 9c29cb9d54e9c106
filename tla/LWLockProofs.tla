---------------------------- MODULE LWLockProofs ----------------------------
(* For any set of processes no larger than MAX_BACKENDS and any number of    *)
(* calls, the lightweight lock is a reader-writer lock (HoldersAsPromised),  *)
(* its state word, its lists and lwWaiting agree (StateExact), nothing is    *)
(* lost or invented on a semaphore (SignalsBalance), and nobody is left      *)
(* asleep (NoLostWakeup, VarWaiterInformed).  Each rests on the invariant of *)
(* the one before it: HoldersInv, ListsInv, BalanceInv, WakeInv.             *)
EXTENDS LWLock, FiniteSetTheorems, WellFoundedInduction, TLAPS

\* First-order reasoning does for most steps, arithmetic for the others.
USE ZenonT(10), SMTT(30)

Types ==
    /\ count \in Nat /\ pc \in [Procs -> Locations]
    /\ call \in [Procs -> Call \cup {NoCall}]
    /\ held \in [Procs -> {"no", "S", "X"}]

(* Why the count is exact: one process at most holds the lock exclusively,   *)
(* then nobody else does, and a process on its way to the lock is not        *)
(* counted yet.                                                              *)
HoldersInv ==
    /\ Types /\ CountExact
    /\ \A p, q \in Procs : held[p] = "X" /\ held[q] # "no" => p = q
    /\ \A p \in Procs : pc[p] \in Acquiring => held[p] = "no"

(* The share count is a number below the exclusive value.                    *)
LEMMA SharersFit ==
    ASSUME NEW S \in SUBSET Procs
    PROVE  /\ IsFiniteSet(S) /\ Cardinality(S) \in Nat
           /\ Cardinality(S) < LW_VAL_EXCLUSIVE /\ LW_VAL_EXCLUSIVE \in Nat
<1>1. /\ IsFiniteSet(S) /\ Cardinality(S) <= Cardinality(Procs)
      /\ Cardinality(S) \in Nat /\ Cardinality(Procs) \in Nat
  BY LWLockAssumption, FS_Subset, FS_CardinalityType
<1> QED BY <1>1, LWLockAssumption DEF LW_VAL_EXCLUSIVE

(* What the state word says when a process finds the lock free.              *)
LEMMA FreeMeansFree ==
    ASSUME HoldersInv, NEW p \in Procs, NEW mode \in {"S", "X"}, LockFree(mode)
    PROVE  \A q \in Procs : held[q] # "X" /\ (mode = "X" => held[q] = "no")
<1>1. Holders("S") \in SUBSET Procs /\ Holders("X") \in SUBSET Procs
  BY DEF Holders
<1>2. Holders("X") = {}
  BY <1>1, SharersFit DEF HoldersInv, CountExact, LockFree, LW_VAL_EXCLUSIVE
<1>3. ASSUME mode = "X" PROVE Holders("S") = {}
  <2>1. Cardinality(Holders("S")) = 0
    BY <1>2, <1>3 DEF HoldersInv, CountExact, LockFree
  <2> QED BY <1>1, <2>1, SharersFit, FS_EmptySet
<1> QED BY <1>2, <1>3 DEF Holders, HoldersInv, Types

(* Taking the lock keeps the count exact.                                    *)
LEMMA TakeCounts ==
    ASSUME HoldersInv, NEW p \in Procs, held[p] = "no", call[p].mode \in {"S", "X"},
           Take(p)
    PROVE  /\ CountExact' /\ count' \in Nat
           /\ held' \in [Procs -> {"no", "S", "X"}]
           /\ \A q, r \in Procs : held'[q] = "X" /\ held'[r] # "no" => q = r
<1>0. held \in [Procs -> {"no", "S", "X"}] BY DEF HoldersInv, Types
<1>1. \A q \in Procs : held[q] # "X" /\ (call[p].mode = "X" => held[q] = "no")
  BY FreeMeansFree DEF Take
<1>2. /\ held'[p] = call[p].mode /\ \A q \in Procs \ {p} : held'[q] = held[q]
      /\ held' \in [Procs -> {"no", "S", "X"}]
  BY <1>0 DEF Take
<1>3. \A q, r \in Procs : held'[q] = "X" /\ held'[r] # "no" => q = r
  BY <1>0, <1>1, <1>2
<1>4. Holders("X") = {} BY <1>1 DEF Holders
<1>5. count = Cardinality(Holders("S")) BY <1>4 DEF HoldersInv, CountExact
<1>6. CASE call[p].mode = "X"
  <2>1. Holders("X")' # {} BY <1>2, <1>6 DEF Holders
  <2>2. Holders("S") = {} BY <1>1, <1>6 DEF Holders
  <2>3. count = 0 BY <1>5, <2>2, FS_EmptySet
  <2>4. count' = LW_VAL_EXCLUSIVE
    BY <1>6, <2>3, SharersFit DEF Take
  <2>5. LW_VAL_EXCLUSIVE \in Nat BY SharersFit
  <2> QED BY <1>2, <1>3, <2>1, <2>4, <2>5 DEF CountExact
<1>7. CASE call[p].mode = "S"
  <2>1. Holders("X")' = {} BY <1>1, <1>2, <1>7 DEF Holders
  <2>2. Holders("S")' = Holders("S") \cup {p} /\ p \notin Holders("S")
    BY <1>2, <1>7 DEF Holders
  <2>3. Holders("S") \in SUBSET Procs BY DEF Holders
  <2>4. Cardinality(Holders("S")') = Cardinality(Holders("S")) + 1
    BY <2>2, <2>3, SharersFit, FS_AddElement
  <2>5. count' = count + 1 BY <1>7 DEF Take, LW_VAL_SHARED
  <2>6. Cardinality(Holders("S")) \in Nat BY <2>3, SharersFit
  <2> QED BY <1>2, <1>3, <1>5, <2>1, <2>4, <2>5, <2>6 DEF CountExact
<1> QED BY <1>6, <1>7

(* Giving it back does too.                                                  *)
LEMMA ReleaseCounts ==
    ASSUME HoldersInv, NEW p \in Procs, Release(p)
    PROVE  /\ CountExact' /\ count' \in Nat
           /\ held' \in [Procs -> {"no", "S", "X"}]
           /\ \A q, r \in Procs : held'[q] = "X" /\ held'[r] # "no" => q = r
<1>0. held \in [Procs -> {"no", "S", "X"}] /\ count \in Nat
  BY DEF HoldersInv, Types
<1>1. /\ held'[p] = "no" /\ \A q \in Procs \ {p} : held'[q] = held[q]
      /\ held' \in [Procs -> {"no", "S", "X"}] /\ held[p] # "no"
  BY <1>0 DEF Release
<1>2. \A q, r \in Procs : held'[q] = "X" /\ held'[r] # "no" => q = r
  BY <1>1 DEF HoldersInv
<1>3. CASE held[p] = "X"
  <2>1. \A q \in Procs \ {p} : held[q] = "no" BY <1>3 DEF HoldersInv
  <2>2. Holders("X")' = {} /\ Holders("S")' = {} BY <1>1, <2>1 DEF Holders
  <2>3. count = LW_VAL_EXCLUSIVE
    BY <1>3 DEF HoldersInv, CountExact, Holders
  <2>4. count' = 0
    BY <1>0, <1>3, <2>3 DEF Release
  <2> QED BY <1>1, <1>2, <2>2, <2>4, FS_EmptySet DEF CountExact
<1>4. CASE held[p] = "S"
  <2>1. Holders("X") = {} BY <1>1, <1>4 DEF HoldersInv, Holders
  <2>2. Holders("X")' = {} BY <1>1, <2>1 DEF Holders
  <2>3. Holders("S")' = Holders("S") \ {p} /\ p \in Holders("S")
    BY <1>1, <1>4 DEF Holders
  <2>4. Holders("S") \in SUBSET Procs BY DEF Holders
  <2>5. /\ Cardinality(Holders("S")') = Cardinality(Holders("S")) - 1
        /\ Cardinality(Holders("S")') \in Nat
    BY <2>3, <2>4, SharersFit, FS_RemoveElement, FS_CardinalityType
  <2>6. count' = count - 1 BY <1>4 DEF Release, LW_VAL_SHARED
  <2>7. count = Cardinality(Holders("S")) BY <2>1 DEF HoldersInv, CountExact
  <2> QED BY <1>1, <1>2, <2>2, <2>5, <2>6, <2>7 DEF CountExact
<1> QED BY <1>0, <1>1, <1>3, <1>4

(* A step that leaves the holders alone and takes a process on its way to    *)
(* the lock no further than that.                                            *)
LEMMA QuietStep ==
    ASSUME HoldersInv, NEW p \in Procs, UNCHANGED <<count, held>>, NEW l \in Locations,
           pc' = [pc EXCEPT ![p] = l], l \in Acquiring => held[p] = "no",
           call' \in [Procs -> Call \cup {NoCall}]
    PROVE  HoldersInv'
<1>1. Types' BY DEF HoldersInv, Types
<1>2. CountExact' BY DEF HoldersInv, CountExact, Holders
<1>3. \A q \in Procs : pc'[q] \in Acquiring => held'[q] = "no"
  BY DEF HoldersInv, Types
<1> QED BY <1>1, <1>2, <1>3 DEF HoldersInv

(* A step that takes the lock.                                               *)
LEMMA TakeStep ==
    ASSUME HoldersInv, NEW p \in Procs, pc[p] \in {"attempt", "recheck"}, Take(p),
           NEW l \in {"idle", "dequeue"}, pc' = [pc EXCEPT ![p] = l],
           call' \in [Procs -> Call \cup {NoCall}]
    PROVE  HoldersInv'
<1>1. held[p] = "no" BY DEF HoldersInv, Acquiring
<1>2. call[p].mode \in {"S", "X"} BY DEF HoldersInv, Types, Call, NoCall
<1>3. l \in Locations \ Acquiring BY DEF Locations, Acquiring
<1>4. Types' BY <1>1, <1>2, <1>3, TakeCounts DEF HoldersInv, Types
<1>5. \A q \in Procs : pc'[q] \in Acquiring => held'[q] = "no"
  BY <1>3 DEF HoldersInv, Types, Take
<1> QED BY <1>1, <1>2, <1>4, <1>5, TakeCounts DEF HoldersInv

(* The first steps of a call.                                                *)
LEMMA AttemptStep ==
    ASSUME HoldersInv, NEW p \in Procs,
           Attempt(p) \/ Recheck(p) \/ ReadState(p) \/ ReadVar(p)
    PROVE  HoldersInv'
<1> USE DEF Goto, Continue
<1>0. /\ call \in [Procs -> Call \cup {NoCall}]
      /\ [call EXCEPT ![p] = NoCall] \in [Procs -> Call \cup {NoCall}]
  BY DEF HoldersInv, Types
<1>1. {"idle", "dequeue", "queue", "sleep", "attempt_val", "recheck_val"} \subseteq Locations
  BY DEF Locations
<1>2. {"idle", "dequeue"} \cap Acquiring = {} BY DEF Acquiring
<1>3. pc[p] \in {"attempt", "recheck", "attempt_val", "recheck_val"} => held[p] = "no"
  BY DEF HoldersInv, Acquiring
<1>4. CASE Attempt(p)
  <2>1. CASE Take(p) /\ Return(p, 0)
    BY <1>0, <1>4, <2>1, TakeStep DEF Attempt, Return
  <2>2. CASE UNCHANGED <<count, held>> /\ Return(p, 0)
    BY <1>0, <1>1, <1>2, <2>2, QuietStep DEF Return
  <2>3. CASE UNCHANGED <<count, held>> /\ Continue(p, "queue")
    BY <1>0, <1>1, <1>3, <1>4, <2>3, QuietStep DEF Attempt
  <2> QED BY <1>4, <2>1, <2>2, <2>3 DEF Attempt
<1>5. CASE Recheck(p)
  <2>1. CASE Take(p) /\ Goto(p, "dequeue")
    BY <1>0, <1>5, <2>1, TakeStep DEF Recheck
  <2>2. CASE UNCHANGED <<count, held>> /\ Goto(p, "sleep")
    BY <1>0, <1>1, <1>3, <1>5, <2>2, QuietStep DEF Recheck
  <2> QED BY <1>5, <2>1, <2>2 DEF Recheck
<1>6. CASE ReadState(p) \/ ReadVar(p)
  <2>1. UNCHANGED <<count, held>> /\ held[p] = "no"
    BY <1>3, <1>6 DEF ReadState, ReadVar, lockVars
  <2>2. \/ Return(p, 0)
        \/ \E l \in {"dequeue", "queue", "sleep", "attempt_val", "recheck_val"} :
             Continue(p, l)
    BY <1>6 DEF ReadState, ReadVar, NoWait
  <2> QED BY <1>0, <1>1, <1>2, <2>1, <2>2, QuietStep DEF Return
<1> QED BY <1>4, <1>5, <1>6

(* The count of the state word tells the holders, after every step.          *)
LEMMA HoldersStep == HoldersInv /\ [Next]_vars => HoldersInv'
<1> SUFFICES ASSUME HoldersInv, [Next]_vars PROVE HoldersInv'
  OBVIOUS
<1> USE DEF Goto, Continue
<1>0. /\ pc \in [Procs -> Locations] /\ call \in [Procs -> Call \cup {NoCall}]
      /\ \A p \in Procs : /\ [call EXCEPT ![p] = NoCall] \in [Procs -> Call \cup {NoCall}]
                          /\ pc = [pc EXCEPT ![p] = pc[p]]
  BY DEF HoldersInv, Types
<1>1. \A p \in Procs : pc[p] \in Acquiring => held[p] = "no" BY DEF HoldersInv
<1>2. ASSUME NEW p \in Procs, NEW c \in Calls, Begin(p, c) PROVE HoldersInv'
  <2>1. call' \in [Procs -> Call \cup {NoCall}]
    BY <1>0, <1>2, LWLockAssumption DEF Begin
  <2> QED BY <1>2, <2>1, QuietStep DEF Begin, lockVars, Locations
<1>3. ASSUME NEW p \in Procs,
             NEW ft \in {<<"queue", "enqueue">>, <<"dequeue", "unlink">>,
                         <<"wake", "collect">>, <<"update", "collect_var">>},
             WaitListLock(p, ft[1], ft[2])
      PROVE  HoldersInv'
  <2>1. ft[2] \in Locations /\ (ft[2] \in Acquiring => ft[1] \in Acquiring)
    BY DEF Locations, Acquiring
  <2> QED BY <1>0, <1>1, <1>3, <2>1, QuietStep DEF WaitListLock
<1>4. ASSUME NEW p \in Procs,
             NEW ft \in {<<"clear", "recheck">>, <<"retry", "attempt">>,
                         <<"absorb_clear", "absorb">>},
             ClearWake(p, ft[1], ft[2])
      PROVE  HoldersInv'
  <2>1. ft[2] \in Locations /\ (ft[2] \in Acquiring => ft[1] \in Acquiring)
    BY DEF Locations, Acquiring
  <2> QED BY <1>0, <1>1, <1>4, <2>1, QuietStep DEF ClearWake
<1>5. ASSUME NEW p \in Procs, QueueSelf(p) PROVE HoldersInv'
  <2>1. /\ {"clear", "recheck"} \subseteq Locations /\ "enqueue" \in Acquiring
    BY DEF Locations, Acquiring
  <2> QED BY <1>0, <1>1, <1>5, <2>1, QuietStep DEF QueueSelf
<1>6. ASSUME NEW p \in Procs, SemaphoreLock(p) PROVE HoldersInv'
  <2>0. /\ {"idle", "attempt", "retry"} \subseteq Locations
        /\ "idle" \notin Acquiring /\ "sleep" \in Acquiring
    BY DEF Locations, Acquiring
  <2>1. UNCHANGED <<count, held>> BY <1>6 DEF SemaphoreLock, lockVars
  <2>2. CASE UNCHANGED <<pc, call>>
    BY <1>0, <1>1, <2>1, <2>2, QuietStep
  <2>3. CASE Return(p, 1)
    BY <1>0, <2>0, <2>1, <2>3, QuietStep DEF Return
  <2>4. CASE /\ pc[p] = "sleep" /\ UNCHANGED call
             /\ Goto(p, IF call[p].kind = "var" THEN "attempt" ELSE "retry")
    BY <1>0, <1>1, <2>0, <2>1, <2>4, QuietStep
  <2> QED BY <1>6, <2>2, <2>3, <2>4 DEF SemaphoreLock
<1>7. ASSUME NEW p \in Procs, DequeueSelf(p) PROVE HoldersInv'
  <2>0. {"idle", "absorb_clear"} \subseteq Locations \ Acquiring
    BY DEF Locations, Acquiring
  <2>1. UNCHANGED <<count, held>> BY <1>7 DEF DequeueSelf
  <2>2. Return(p, 0) \/ Continue(p, "absorb_clear") BY <1>7 DEF DequeueSelf
  <2> QED BY <1>0, <2>0, <2>1, <2>2, QuietStep DEF Return
<1>8. ASSUME NEW p \in Procs, NEW v, NEW l \in {"update", "release"}, SetVar(p, v, l)
      PROVE  HoldersInv'
  <2>1. l \in Locations \ Acquiring BY DEF Locations, Acquiring
  <2> QED BY <1>0, <1>8, <2>1, QuietStep DEF SetVar
<1>9. ASSUME NEW p \in Procs, Release(p) PROVE HoldersInv'
  <2>0. {"wake", "idle"} \subseteq Locations \ Acquiring BY DEF Locations, Acquiring
  <2>1. PICK l \in {"wake", "idle"} : pc' = [pc EXCEPT ![p] = l]
    BY <1>9 DEF Release
  <2>2. \A q \in Procs : pc'[q] \in Acquiring => held'[q] = "no"
    BY <1>0, <1>1, <1>9, <2>0, <2>1 DEF Release, HoldersInv, Types
  <2>3. pc' \in [Procs -> Locations] BY <1>0, <2>0, <2>1
  <2>4. call' \in [Procs -> Call \cup {NoCall}] BY <1>0, <1>9 DEF Release
  <2>5. Types' BY <1>9, <2>3, <2>4, ReleaseCounts DEF Types
  <2> QED BY <1>9, <2>2, <2>5, ReleaseCounts DEF HoldersInv
<1>10. ASSUME NEW p \in Procs,
              Wakeup(p) \/ UpdateVar(p) \/ Awaken(p) \/ SemaphoreUnlock(p)
       PROVE  HoldersInv'
  <2>0. {"idle", "awaken", "post"} \subseteq Locations \ Acquiring
    BY DEF Locations, Acquiring
  <2>1. /\ UNCHANGED <<count, held, call>>
        /\ \E l \in {"idle", "awaken", "post"} : pc' = [pc EXCEPT ![p] = l]
    BY <1>10 DEF Wakeup, UpdateVar, Awaken, SemaphoreUnlock, Unlink, lockVars
  <2> QED BY <1>0, <2>0, <2>1, QuietStep
<1>11. ASSUME NEW p \in Procs, Signal(p) PROVE HoldersInv'
  BY <1>0, <1>1, <1>11, QuietStep DEF Signal, lockVars
<1>12. CASE UNCHANGED vars
  BY <1>12 DEF vars, lockVars, procVars, HoldersInv, Types, CountExact, Holders
<1>13. ASSUME NEW p \in Procs, Step(p) PROVE HoldersInv'
  <2>1. WaitListLock(p, "queue", "enqueue") => HoldersInv' BY <1>3
  <2>2. WaitListLock(p, "dequeue", "unlink") => HoldersInv' BY <1>3
  <2>3. WaitListLock(p, "wake", "collect") => HoldersInv' BY <1>3
  <2>4. WaitListLock(p, "update", "collect_var") => HoldersInv' BY <1>3
  <2>5. ClearWake(p, "clear", "recheck") => HoldersInv' BY <1>4
  <2>6. ClearWake(p, "retry", "attempt") => HoldersInv' BY <1>4
  <2>7. ClearWake(p, "absorb_clear", "absorb") => HoldersInv' BY <1>4
  <2> QED BY <1>5, <1>6, <1>7, <1>9, <1>10, <1>13, <2>1, <2>2, <2>3, <2>4, <2>5,
             <2>6, <2>7, AttemptStep DEF Step
<1> QED BY <1>2, <1>8, <1>11, <1>12, <1>13 DEF Next

(* The initial state.                                                        *)
LEMMA HoldersInit == Init => HoldersInv
<1> SUFFICES ASSUME Init PROVE HoldersInv
  OBVIOUS
<1>1. Holders("X") = {} /\ Holders("S") = {} BY DEF Init, Holders
<1>2. CountExact BY <1>1, FS_EmptySet DEF CountExact, Init
<1>3. Types BY DEF Types, Init, Locations
<1> QED BY <1>2, <1>3 DEF HoldersInv, Init, Acquiring

(* The number in the state word is exact in every reachable state: one       *)
(* exclusive holder and nobody else, or as many sharers as it says.          *)
THEOREM CountIsExact == Spec => []CountExact
<1>1. HoldersInv => CountExact BY DEF HoldersInv
<1> QED BY <1>1, HoldersInit, HoldersStep, PTL DEF Spec

(* Where only one process moves, and not past the point where it takes the   *)
(* lock, nobody comes to wait for it or ceases to.                           *)
LEMMA SameWanted ==
    ASSUME HoldersInv, NEW p \in Procs, NEW l, pc' = [pc EXCEPT ![p] = l],
           call' = call \/ call' = [call EXCEPT ![p] = NoCall],
           \/ l \in Acquiring /\ pc[p] \in Acquiring /\ call' = call
           \/ /\ l \notin Acquiring
              /\ pc[p] \notin Acquiring \/ call[p].kind # "acquire"
    PROVE  UNCHANGED Wanted
<1>1. \A q \in Procs : Wanted'[q] = Wanted[q]
  BY DEF HoldersInv, Types, Wanted
<1> QED BY <1>1 DEF Wanted

(* Taking the lock is Grant for a process in LWLockAcquire, TryGrant for one *)
(* that would have returned without.                                         *)
LEMMA TakeGrants ==
    ASSUME HoldersInv, NEW p \in Procs, pc[p] \in {"attempt", "recheck"}, Take(p),
           NEW l \in {"idle", "dequeue"}, pc' = [pc EXCEPT ![p] = l],
           call' = call \/ call' = [call EXCEPT ![p] = NoCall]
    PROVE  Abstract!Next
<1>1. call[p].mode \in {"S", "X"} /\ held[p] = "no"
  BY DEF Call, NoCall, HoldersInv, Types, Acquiring
<1>2. Abstract!Free(call[p].mode)
  BY <1>1, FreeMeansFree DEF Take, Abstract!Free
<1>3. held' = [held EXCEPT ![p] = call[p].mode] BY DEF Take
<1>4. l \notin Acquiring /\ pc[p] \in Acquiring BY DEF Acquiring
<1>5. CASE call[p].kind = "acquire"
  <2>1. Wanted[p] = call[p].mode BY <1>4, <1>5 DEF Wanted
  <2>2. Wanted' = [Wanted EXCEPT ![p] = "no"]
    BY <1>4 DEF Wanted, HoldersInv, Types
  <2>3. Abstract!Grant(p) BY <1>1, <1>2, <1>3, <2>1, <2>2 DEF Abstract!Grant
  <2> QED BY <2>3 DEF Abstract!Next
<1>6. CASE call[p].kind # "acquire"
  <2>1. Wanted[p] = "no" BY <1>6 DEF Wanted
  <2>2. UNCHANGED Wanted BY <1>4, <1>6, SameWanted
  <2>3. Abstract!TryGrant(p, call[p].mode)
    BY <1>1, <1>2, <1>3, <2>1, <2>2 DEF Abstract!TryGrant
  <2> QED BY <1>1, <2>3 DEF Abstract!Next, Abstract!Modes
<1> QED BY <1>5, <1>6

(* Every step of the protocol is a step of the reader-writer lock, or none.  *)
LEMMA StepRefines ==
    HoldersInv /\ [Next]_vars => Abstract!Next \/ UNCHANGED <<held, Wanted>>
<1> SUFFICES ASSUME HoldersInv, [Next]_vars
             PROVE  Abstract!Next \/ UNCHANGED <<held, Wanted>>
  OBVIOUS
<1> USE DEF Goto, Continue
<1>0. \A p \in Procs : pc = [pc EXCEPT ![p] = pc[p]] BY DEF HoldersInv, Types
<1>1. ASSUME NEW p \in Procs, NEW c \in Calls, Begin(p, c)
      PROVE  Abstract!Next \/ UNCHANGED <<held, Wanted>>
  <2>0. /\ pc[p] \notin Acquiring /\ "attempt" \in Acquiring /\ held[p] = "no"
        /\ UNCHANGED held /\ Wanted[p] = "no"
    BY <1>1 DEF Begin, Acquiring, Wanted
  <2>1. CASE c.kind = "acquire"
    <3>1. c.mode \in {"S", "X"} BY LWLockAssumption DEF Call
    <3>2. Wanted' = [Wanted EXCEPT ![p] = c.mode]
      BY <1>1, <2>0, <2>1 DEF Begin, Wanted, HoldersInv, Types
    <3>3. Abstract!Call(p, c.mode) BY <2>0, <3>2 DEF Abstract!Call
    <3> QED BY <3>1, <3>3 DEF Abstract!Next, Abstract!Modes
  <2>2. CASE c.kind # "acquire"
    <3>1. \A q \in Procs : Wanted'[q] = Wanted[q]
      BY <1>1, <2>0, <2>2 DEF Begin, Wanted, HoldersInv, Types
    <3> QED BY <2>0, <3>1 DEF Wanted
  <2> QED BY <2>1, <2>2
<1>2. ASSUME NEW p \in Procs, Attempt(p)
      PROVE  Abstract!Next \/ UNCHANGED <<held, Wanted>>
  <2>0. /\ pc[p] \in Acquiring /\ "idle" \notin Acquiring /\ "queue" \in Acquiring
    BY <1>2 DEF Attempt, Acquiring
  <2>1. CASE Take(p) /\ Return(p, 0)
    BY <1>2, <2>1, TakeGrants DEF Attempt, Return
  <2>2. CASE UNCHANGED held /\ Return(p, 0) /\ call[p].kind = "conditional"
    BY <2>0, <2>2, SameWanted DEF Return
  <2>3. CASE UNCHANGED held /\ Continue(p, "queue")
    BY <2>0, <2>3, SameWanted
  <2> QED BY <1>2, <2>1, <2>2, <2>3 DEF Attempt
<1>3. ASSUME NEW p \in Procs, Recheck(p)
      PROVE  Abstract!Next \/ UNCHANGED <<held, Wanted>>
  <2>0. pc[p] \in Acquiring /\ "sleep" \in Acquiring
    BY <1>3 DEF Recheck, Acquiring
  <2>1. CASE Take(p) /\ Goto(p, "dequeue")
    BY <1>3, <2>1, TakeGrants DEF Recheck
  <2>2. CASE UNCHANGED held /\ Goto(p, "sleep")
    BY <1>3, <2>0, <2>2, SameWanted DEF Recheck
  <2> QED BY <1>3, <2>1, <2>2 DEF Recheck
<1>4. ASSUME NEW p \in Procs, ReadState(p) \/ ReadVar(p)
      PROVE  UNCHANGED <<held, Wanted>>
  <2>0. /\ pc[p] \in Acquiring /\ {"idle", "dequeue"} \cap Acquiring = {}
        /\ {"queue", "sleep", "attempt_val", "recheck_val"} \subseteq Acquiring
        /\ call[p].kind = "var" /\ UNCHANGED held
    BY <1>4 DEF ReadState, ReadVar, Acquiring
  <2>1. \/ Return(p, 0)
        \/ \E l \in {"dequeue", "queue", "sleep", "attempt_val", "recheck_val"} :
             Continue(p, l)
    BY <1>4 DEF ReadState, ReadVar, NoWait
  <2> QED BY <2>0, <2>1, SameWanted DEF Return
<1>5. ASSUME NEW p \in Procs, NEW from, NEW to,
             WaitListLock(p, from, to) \/ ClearWake(p, from, to),
             from \in Acquiring <=> to \in Acquiring
      PROVE  UNCHANGED <<held, Wanted>>
  BY <1>5, SameWanted DEF WaitListLock, ClearWake
<1>6. ASSUME NEW p \in Procs, QueueSelf(p) PROVE UNCHANGED <<held, Wanted>>
  <2>1. {"enqueue", "clear", "recheck"} \subseteq Acquiring BY DEF Acquiring
  <2> QED BY <1>6, <2>1, SameWanted DEF QueueSelf
<1>7. ASSUME NEW p \in Procs, SemaphoreLock(p) PROVE UNCHANGED <<held, Wanted>>
  <2>0. /\ {"sleep", "attempt", "retry"} \subseteq Acquiring
        /\ {"idle", "absorb"} \cap Acquiring = {}
    BY DEF Acquiring
  <2>1. UNCHANGED held BY <1>7 DEF SemaphoreLock
  <2>2. CASE UNCHANGED <<pc, call>> BY <2>1, <2>2 DEF Wanted
  <2>3. CASE Return(p, 1) /\ (pc[p] = "absorb" \/ call[p].kind = "or_wait")
    BY <2>0, <2>1, <2>3, SameWanted DEF Return
  <2>4. CASE /\ pc[p] = "sleep" /\ UNCHANGED call
             /\ Goto(p, IF call[p].kind = "var" THEN "attempt" ELSE "retry")
    BY <2>0, <2>1, <2>4, SameWanted
  <2> QED BY <1>7, <2>2, <2>3, <2>4 DEF SemaphoreLock
<1>8. ASSUME NEW p \in Procs, DequeueSelf(p) PROVE UNCHANGED <<held, Wanted>>
  <2>0. {"unlink", "idle", "absorb_clear"} \cap Acquiring = {} BY DEF Acquiring
  <2>1. /\ UNCHANGED held /\ pc[p] = "unlink"
        /\ Return(p, 0) \/ Continue(p, "absorb_clear")
    BY <1>8 DEF DequeueSelf
  <2> QED BY <2>0, <2>1, SameWanted DEF Return
<1>9. ASSUME NEW p \in Procs, NEW v, NEW l \in {"update", "release"}, SetVar(p, v, l)
      PROVE  UNCHANGED <<held, Wanted>>
  <2>1. l \notin Acquiring /\ "idle" \notin Acquiring BY DEF Acquiring
  <2> QED BY <1>9, <2>1, SameWanted DEF SetVar
<1>10. ASSUME NEW p \in Procs, Release(p) PROVE Abstract!Next
  <2>0. {"idle", "release", "wake"} \cap Acquiring = {} BY DEF Acquiring
  <2>1. PICK l \in {"wake", "idle"} : pc' = [pc EXCEPT ![p] = l]
    BY <1>10 DEF Release
  <2>2. UNCHANGED Wanted BY <1>10, <2>0, <2>1, SameWanted DEF Release
  <2>3. Abstract!Release(p) BY <1>10, <2>2 DEF Release, Abstract!Release
  <2> QED BY <2>3 DEF Abstract!Next
<1>11. ASSUME NEW p \in Procs,
              Wakeup(p) \/ UpdateVar(p) \/ Awaken(p) \/ SemaphoreUnlock(p)
       PROVE  UNCHANGED <<held, Wanted>>
  <2>0. {"idle", "awaken", "post", "collect", "collect_var"} \cap Acquiring = {}
    BY DEF Acquiring
  <2>1. /\ UNCHANGED <<held, call>>
        /\ pc[p] \in {"awaken", "post", "collect", "collect_var"}
        /\ \E l \in {"idle", "awaken", "post"} : pc' = [pc EXCEPT ![p] = l]
    BY <1>11 DEF Wakeup, UpdateVar, Awaken, SemaphoreUnlock, Unlink
  <2> QED BY <2>0, <2>1, SameWanted
<1>12. ASSUME UNCHANGED <<pc, call, held>> PROVE UNCHANGED <<held, Wanted>>
  BY <1>12 DEF Wanted
<1>13. ASSUME NEW p \in Procs, Step(p)
       PROVE  Abstract!Next \/ UNCHANGED <<held, Wanted>>
  <2>1. /\ "queue" \in Acquiring <=> "enqueue" \in Acquiring
        /\ "clear" \in Acquiring <=> "recheck" \in Acquiring
        /\ "retry" \in Acquiring <=> "attempt" \in Acquiring
        /\ "dequeue" \in Acquiring <=> "unlink" \in Acquiring
        /\ "absorb_clear" \in Acquiring <=> "absorb" \in Acquiring
        /\ "wake" \in Acquiring <=> "collect" \in Acquiring
        /\ "update" \in Acquiring <=> "collect_var" \in Acquiring
    BY DEF Acquiring
  <2> QED BY <1>2, <1>3, <1>4, <1>5, <1>6, <1>7, <1>8, <1>10, <1>11, <1>13, <2>1
         DEF Step
<1>14. ASSUME NEW p \in Procs, Signal(p) PROVE UNCHANGED <<held, Wanted>>
  BY <1>12, <1>14 DEF Signal
<1>15. CASE UNCHANGED vars BY <1>12, <1>15 DEF vars, procVars
<1> QED BY <1>1, <1>9, <1>13, <1>14, <1>15 DEF Next

(* The lightweight lock is a reader-writer lock: whatever the flags, the     *)
(* wait list and the semaphores do, holders come and go as RWLock allows.    *)
THEOREM LockImplementsRWLock == Spec => HoldersAsPromised
<1>1. Init => Abstract!Init
  <2>1. "idle" \notin Acquiring BY DEF Acquiring
  <2> QED BY <2>1 DEF Init, Abstract!Init, Wanted
<1>2. HoldersInv /\ [Next]_vars => [Abstract!Next]_<<held, Wanted>>
  BY StepRefines
<1> QED BY <1>1, <1>2, HoldersInit, HoldersStep, PTL
       DEF Spec, HoldersAsPromised, Abstract!Spec, Abstract!vars
(****************************** The wait list *******************************)

(* What is left of the wait list is taken from it in its order, and is all   *)
(* that was not deleted.                                                     *)
LEMMA WithoutKeepsOrder ==
    ASSUME NEW ps, queue \in Seq(Procs)
    PROVE  /\ Without(ps) \in Seq(Procs)
           /\ \E at \in [DOMAIN Without(ps) -> DOMAIN queue] :
                /\ \A k \in DOMAIN at : /\ Without(ps)[k] = queue[at[k]]
                                        /\ queue[at[k]] \notin ps
                /\ \A k, m \in DOMAIN at : k < m => at[k] < at[m]
                /\ \A i \in DOMAIN queue : queue[i] \notin ps =>
                     \E k \in DOMAIN at : at[k] = i
<1> DEFINE kept == {i \in DOMAIN queue : queue[i] \notin ps}
           n == Cardinality(kept)
           upto(i) == {j \in kept : j <= i}
           rank(i) == Cardinality(upto(i))
           place == [i \in kept |-> rank(i)]
           at == [k \in 1 .. n |-> CHOOSE i \in kept : rank(i) = k]
<1>1. kept \subseteq 1 .. Len(queue) /\ Len(queue) \in Nat /\ DOMAIN queue = 1 .. Len(queue)
  OBVIOUS
<1>2. Without(ps) = [k \in 1 .. n |-> queue[at[k]]]
  BY DEF Without
<1>3. \A i \in DOMAIN queue : i \in kept <=> queue[i] \notin ps
  OBVIOUS
<1>4. \A i \in kept : place[i] = rank(i) /\ rank(i) = Cardinality(upto(i))
  OBVIOUS
<1>5. \A k \in 1 .. n : (\E i \in kept : place[i] = k) => at[k] \in kept /\ place[at[k]] = k
  <2> HIDE DEF rank, kept, n
  <2> QED OBVIOUS
<1>6. /\ \A i \in kept : upto(i) \subseteq kept /\ i \in upto(i)
      /\ \A i, j \in kept : i < j => upto(i) \subseteq upto(j) /\ j \notin upto(i)
  <2>1. \A i \in kept : i \in Nat BY <1>1
  <2>2. ASSUME NEW i \in kept PROVE upto(i) \subseteq kept /\ i \in upto(i)
    BY <2>1
  <2>3. ASSUME NEW i \in kept, NEW j \in kept, i < j
        PROVE  upto(i) \subseteq upto(j) /\ j \notin upto(i)
    <3> HIDE DEF kept
    <3>1. i \in Nat /\ j \in Nat BY <2>1
    <3>2. ASSUME NEW x \in upto(i) PROVE x \in upto(j) BY <2>1, <2>3, <3>1
    <3>3. j \notin upto(i) BY <2>3, <3>1
    <3> HIDE DEF upto
    <3> QED BY <3>2, <3>3
  <2> QED BY <2>2, <2>3
<1>7. DOMAIN place = kept /\ DOMAIN at = 1 .. n
  OBVIOUS
<1> HIDE DEF kept, upto, rank, place
<1>8. IsFiniteSet(kept) /\ n \in Nat
  <2>1. IsFiniteSet(1 .. Len(queue)) BY <1>1, FS_Interval
  <2> QED BY <1>1, <2>1, FS_Subset, FS_CardinalityType
<1> HIDE DEF n, at
<1>9. \A i \in kept : IsFiniteSet(upto(i)) /\ place[i] \in 1 .. n
  <2> SUFFICES ASSUME NEW i \in kept PROVE IsFiniteSet(upto(i)) /\ place[i] \in 1 .. n
    OBVIOUS
  <2>1. IsFiniteSet(upto(i)) /\ place[i] <= n /\ place[i] \in Nat
    BY <1>4, <1>6, <1>8, FS_Subset, FS_CardinalityType DEF n
  <2>2. place[i] # 0 BY <1>4, <1>6, <2>1, FS_EmptySet
  <2> QED BY <1>8, <2>1, <2>2
<1>10. \A i, j \in kept : i < j => place[i] < place[j]
  <2> SUFFICES ASSUME NEW i \in kept, NEW j \in kept, i < j PROVE place[i] < place[j]
    OBVIOUS
  <2>1. place[i] <= place[j] /\ place[i] # place[j]
    BY <1>4, <1>6, <1>9, FS_Subset
  <2> QED BY <1>8, <1>9, <2>1
<1>11. place \in Injection(kept, 1 .. n)
  <2>1. place \in [kept -> 1 .. n] BY <1>9 DEF place
  <2>2. \A i, j \in kept : place[i] = place[j] => i = j
    BY <1>1, <1>8, <1>9, <1>10
  <2> QED BY <2>1, <2>2 DEF Injection, IsInjective
<1>12. \A k \in 1 .. n : at[k] \in kept /\ place[at[k]] = k
  <2>1. IsFiniteSet(1 .. n) /\ Cardinality(1 .. n) = n
    BY <1>8, FS_Interval
  <2>2. place \in Surjection(kept, 1 .. n) BY <1>11, <2>1, FS_Injection DEF n
  <2> QED BY <1>5, <2>2 DEF Surjection
<1>13. Without(ps) \in Seq(Procs)
  <2>1. \A i \in DOMAIN queue : queue[i] \in Procs OBVIOUS
  <2>2. \A k \in 1 .. n : queue[at[k]] \in Procs BY <1>1, <1>12, <2>1
  <2> QED BY <1>2, <1>8, <2>2
<1>14. DOMAIN Without(ps) = 1 .. n /\ \A k \in 1 .. n : Without(ps)[k] = queue[at[k]]
  BY <1>2
<1>15. at \in [1 .. n -> DOMAIN queue] /\ \A k \in 1 .. n : queue[at[k]] \notin ps
  <2>1. \A k \in 1 .. n : at[k] \in DOMAIN queue BY <1>1, <1>12
  <2> QED BY <1>3, <1>12, <2>1 DEF at
<1>16. \A k, m \in 1 .. n : k < m => at[k] < at[m]
  <2> SUFFICES ASSUME NEW k \in 1 .. n, NEW m \in 1 .. n, k < m PROVE at[k] < at[m]
    OBVIOUS
  <2>1. at[m] < at[k] => m < k BY <1>10, <1>12
  <2>2. kept \subseteq Nat BY <1>1
  <2>3. at[k] \in Nat /\ at[m] \in Nat BY <1>12, <2>2
  <2>4. at[k] # at[m] BY <1>12
  <2> QED BY <1>8, <2>1, <2>3, <2>4
<1>17. \A i \in kept : \E k \in 1 .. n : at[k] = i
  BY <1>9, <1>11, <1>12 DEF Injection, IsInjective
<1>18. DOMAIN at = DOMAIN Without(ps) BY <1>14, <1>15
<1>19. \A i \in DOMAIN queue : queue[i] \notin ps => \E k \in DOMAIN at : at[k] = i
  BY <1>3, <1>14, <1>17, <1>18
<1> QED BY <1>13, <1>14, <1>15, <1>16, <1>18, <1>19

(* The processes taken off the list were on it.                              *)
LEMMA WokenQueued ==
    ASSUME NEW q \in Woken \cup UntilFree
    PROVE  \E i \in DOMAIN queue : queue[i] = q
BY DEF Woken, UntilFree

(* The rest of the types.                                                    *)
Fields ==
    /\ {hasWaiters, wip, locked} \subseteq BOOLEAN
    /\ queue \in Seq(Procs) /\ val \in 0 .. MaxVal
    /\ waiting \in [Procs -> {"no", "waiting", "pending"}]
    /\ sem \in [Procs -> Nat] /\ extra \in [Procs -> Nat]
    /\ toWake \in [Procs -> SUBSET Procs] /\ post \in [Procs -> SUBSET Procs]
    /\ calls \in 0 .. MaxCalls /\ signals \in [Procs -> Nat]

(* The end of a call leaves numbers in the semaphore and in extraWaits.      *)
LEMMA ReturnTypes ==
    ASSUME Fields, NEW p \in Procs, NEW taken \in {0, 1}, sem[p] >= taken,
           Return(p, taken)
    PROVE  sem' \in [Procs -> Nat] /\ extra' \in [Procs -> Nat]
<1>1. sem[p] - taken + extra[p] \in Nat BY DEF Fields
<1> QED BY <1>1 DEF Fields, Return

(* Every step keeps the types.                                              *)
LEMMA FieldsStep == HoldersInv /\ Fields /\ [Next]_vars => Fields'
<1> SUFFICES ASSUME HoldersInv, Fields, [Next]_vars PROVE Fields'
  OBVIOUS
<1> USE DEF Goto, Continue
<1>0. \A p \in Procs : sem[p] >= 0 BY DEF Fields
<1>1. ASSUME NEW p \in Procs, Attempt(p) \/ ReadState(p) \/ ReadVar(p) PROVE Fields'
  <2>1. UNCHANGED <<hasWaiters, wip, locked, queue, val, waiting, toWake, post, bounds>>
    BY <1>1 DEF Attempt, ReadState, ReadVar, lockVars
  <2>2. Return(p, 0) \/ UNCHANGED <<sem, extra>>
    BY <1>1 DEF Attempt, ReadState, ReadVar, NoWait
  <2> QED BY <1>0, <2>1, <2>2, ReturnTypes DEF Fields, bounds
<1>2. ASSUME NEW p \in Procs, NEW from, NEW to,
             WaitListLock(p, from, to) \/ ClearWake(p, from, to)
      PROVE  Fields'
  BY <1>2 DEF Fields, WaitListLock, ClearWake, bounds
<1>3. ASSUME NEW p \in Procs, QueueSelf(p) PROVE Fields'
  <2>1. queue' \in Seq(Procs) BY <1>3 DEF Fields, QueueSelf, Enqueued
  <2> QED BY <1>3, <2>1 DEF Fields, QueueSelf, bounds
<1>4. ASSUME NEW p \in Procs, DequeueSelf(p) PROVE Fields'
  <2>1. queue' \in Seq(Procs) /\ hasWaiters' \in BOOLEAN
    BY <1>4, WithoutKeepsOrder DEF Fields, DequeueSelf
  <2>2. /\ Return(p, 0) \/ UNCHANGED <<sem, extra>>
        /\ waiting' \in [Procs -> {"no", "waiting", "pending"}]
    BY <1>4 DEF Fields, DequeueSelf
  <2>3. sem' \in [Procs -> Nat] /\ extra' \in [Procs -> Nat]
    BY <1>0, <2>2, ReturnTypes DEF Fields
  <2> QED BY <1>4, <2>1, <2>2, <2>3 DEF Fields, DequeueSelf, bounds
<1>5. ASSUME NEW p \in Procs, SemaphoreLock(p) PROVE Fields'
  <2>1. sem[p] >= 1 BY <1>5 DEF SemaphoreLock, Fields
  <2>2. UNCHANGED <<lockVars, waiting, toWake, post, bounds>>
    BY <1>5 DEF SemaphoreLock
  <2>3. sem' \in [Procs -> Nat] /\ extra' \in [Procs -> Nat]
    <3>1. CASE Return(p, 1) BY <2>1, <3>1, ReturnTypes
    <3>2. sem[p] - 1 \in Nat /\ extra[p] + 1 \in Nat BY <2>1 DEF Fields
    <3>3. CASE ~Return(p, 1)
      <4>1. /\ sem' = [sem EXCEPT ![p] = sem[p] - 1]
            /\ extra' = [extra EXCEPT ![p] = extra[p] + 1] \/ UNCHANGED extra
        BY <1>5, <3>3, Zenon DEF SemaphoreLock
      <4> QED BY <3>2, <4>1, SMTT(30) DEF Fields
    <3> QED BY <3>1, <3>3
  <2> QED BY <2>2, <2>3 DEF Fields, bounds, lockVars
<1>6. ASSUME NEW p \in Procs, Recheck(p) \/ Release(p) PROVE Fields'
  BY <1>6 DEF Fields, Recheck, Release, bounds
<1>7. ASSUME NEW p \in Procs, NEW ps \in {Woken, UntilFree}, Unlink(p, ps),
             UNCHANGED <<val, sem, extra, post, bounds>>,
             {hasWaiters', wip'} \subseteq BOOLEAN
      PROVE  Fields'
  <2>1. ps \subseteq Procs BY WokenQueued DEF Fields
  <2>2. queue' \in Seq(Procs) BY <1>7, WithoutKeepsOrder DEF Unlink, Fields
  <2> QED BY <1>7, <2>1, <2>2 DEF Fields, Unlink, bounds
<1>8. ASSUME NEW p \in Procs, Wakeup(p) \/ UpdateVar(p) PROVE Fields'
  <2>1. {hasWaiters', wip'} \subseteq BOOLEAN
    BY <1>8 DEF Wakeup, UpdateVar, Fields, WakesLocker
  <2> QED BY <1>7, <1>8, <2>1 DEF Wakeup, UpdateVar
<1>9. ASSUME NEW p \in Procs, Awaken(p) PROVE Fields'
  BY <1>9 DEF Fields, Awaken, lockVars, bounds
<1>10. ASSUME NEW p \in Procs, SemaphoreUnlock(p) PROVE Fields'
  BY <1>10 DEF Fields, SemaphoreUnlock, lockVars, bounds
<1>11. ASSUME NEW p \in Procs, Signal(p) PROVE Fields'
  BY <1>11 DEF Fields, Signal, lockVars
<1>12. ASSUME NEW p \in Procs, NEW c \in Calls, Begin(p, c) PROVE Fields'
  BY <1>12, LWLockAssumption DEF Fields, Begin, lockVars
<1>13. ASSUME NEW p \in Procs, NEW v \in 0 .. MaxVal, NEW l, SetVar(p, v, l) PROVE Fields'
  BY <1>13 DEF Fields, SetVar, bounds
<1>14. CASE UNCHANGED vars
  BY <1>14 DEF Fields, vars, lockVars, procVars, bounds
<1>15. 0 \in 0 .. MaxVal /\ (val < MaxVal => val + 1 \in 0 .. MaxVal)
  BY LWLockAssumption DEF Fields
<1> QED BY <1>1, <1>2, <1>3, <1>4, <1>5, <1>6, <1>8, <1>9, <1>10, <1>11, <1>12, <1>13,
           <1>14, <1>15 DEF Next, Step

(* Where a process is, and what the lists and the lock say of it.            *)
Local(p) ==
    /\ waiting[p] # "no" => OwesWait(p)
    /\ pc[p] \in {"absorb_clear", "absorb"} => waiting[p] # "waiting"
    /\ toWake[p] # {} => pc[p] \in {"awaken", "post"}
    /\ post[p] # {} => pc[p] = "post"
    /\ pc[p] = "release" => held[p] = "X"
    /\ pc[p] \in {"clear", "recheck_val"} => call[p].kind = "var"
    /\ pc[p] \in {"dequeue", "unlink", "absorb_clear", "absorb"} /\ call[p].kind # "var"
         => held[p] # "no"

(* The wait list, the lists of those to awaken and lwWaiting agree, and      *)
(* those who wait until the lock is free come first.                         *)
Lists ==
    /\ queue # <<>> => hasWaiters
    /\ \A i, j \in DOMAIN queue : queue[i] = queue[j] => i = j
    /\ \A i, j \in DOMAIN queue :
         i < j /\ WaitMode(queue[j]) = "F" => WaitMode(queue[i]) = "F"
    /\ \A p \in Procs :
         /\ waiting[p] = "waiting" <=> \E i \in DOMAIN queue : queue[i] = p
         /\ waiting[p] = "pending" <=> \E q \in Procs : p \in toWake[q]
         /\ \A q, r \in Procs : p \in toWake[q] \cap toWake[r] => q = r

ListsInv == HoldersInv /\ Fields /\ Lists /\ \A p \in Procs : Local(p)

(* A step is the step of one process: it changes nothing that is another's   *)
(* but lwWaiting and the semaphore, and lwWaiting only towards the wakeup.   *)
Others(p) ==
    \A q \in Procs \ {p} :
        /\ pc'[q] = pc[q] /\ call'[q] = call[q] /\ held'[q] = held[q]
        /\ toWake'[q] = toWake[q] /\ post'[q] = post[q]
        /\ waiting'[q] = "waiting" => waiting[q] = "waiting"
        /\ waiting'[q] # "no" => waiting[q] # "no"

(* What a process does, or has happen to its semaphore.                      *)
Moves(p) ==
    \/ Step(p) \/ Signal(p) \/ \E c \in Calls : Begin(p, c)
    \/ \E v : SetVar(p, v, "update") \/ SetVar(p, v, "release")

USE DEF Moves

(* What a step leaves alone.                                                *)
LEMMA OthersStay ==
    ASSUME ListsInv, NEW p \in Procs, Moves(p)
    PROVE  Others(p)
<1> USE DEF Goto, Continue
<1>0. /\ pc \in [Procs -> Locations] /\ call \in [Procs -> Call \cup {NoCall}]
      /\ held \in [Procs -> {"no", "S", "X"}]
      /\ waiting \in [Procs -> {"no", "waiting", "pending"}]
      /\ toWake \in [Procs -> SUBSET Procs] /\ post \in [Procs -> SUBSET Procs]
  BY DEF ListsInv, HoldersInv, Types, Fields
<1>1. CASE Attempt(p) \/ ReadState(p) \/ ReadVar(p) \/ Recheck(p) \/ SemaphoreLock(p)
  BY <1>0, <1>1 DEF Others, Attempt, ReadState, ReadVar, Recheck, SemaphoreLock, Take,
                    Return, NoWait
<1>2. ASSUME NEW from, NEW to, WaitListLock(p, from, to) \/ ClearWake(p, from, to)
      PROVE  Others(p)
  BY <1>0, <1>2 DEF Others, WaitListLock, ClearWake
<1>3. CASE QueueSelf(p) \/ DequeueSelf(p) \/ Release(p)
  BY <1>0, <1>3 DEF Others, QueueSelf, DequeueSelf, Return, Release
<1>4. CASE Wakeup(p) \/ UpdateVar(p)
  <2>1. PICK ps \in {Woken, UntilFree} : Unlink(p, ps) /\ UNCHANGED <<call, held, post>>
    BY <1>4 DEF Wakeup, UpdateVar
  <2>2. \A q \in ps \cap Procs : waiting[q] = "waiting"
    BY <2>1, WokenQueued DEF ListsInv, Lists
  <2> QED BY <1>0, <2>1, <2>2 DEF Others, Unlink
<1>5. CASE Awaken(p) \/ SemaphoreUnlock(p)
  BY <1>0, <1>5 DEF Others, Awaken, SemaphoreUnlock
<1>6. CASE \/ Signal(p) \/ \E c \in Calls : Begin(p, c)
           \/ \E v : SetVar(p, v, "update") \/ SetVar(p, v, "release")
  BY <1>0, <1>6 DEF Others, Signal, Begin, SetVar
<1> QED BY <1>1, <1>2, <1>3, <1>4, <1>5, <1>6 DEF Step

(* What is said of a process stays true, whoever moves.                      *)
LEMMA LocalStep ==
    ASSUME ListsInv, NEW p \in Procs, Moves(p)
    PROVE  \A q \in Procs : Local(q)'
<1> USE DEF Goto, Continue
<1>0. /\ pc \in [Procs -> Locations] /\ call \in [Procs -> Call \cup {NoCall}]
      /\ held \in [Procs -> {"no", "S", "X"}]
      /\ waiting \in [Procs -> {"no", "waiting", "pending"}]
      /\ toWake \in [Procs -> SUBSET Procs] /\ post \in [Procs -> SUBSET Procs]
      /\ Local(p)
  BY DEF ListsInv, HoldersInv, Types, Fields
<1>m. call[p].mode # "no" BY <1>0 DEF Call, NoCall
<1>1. ASSUME NEW q \in Procs \ {p} PROVE Local(q)'
  <2>1. /\ pc'[q] = pc[q] /\ call'[q] = call[q] /\ held'[q] = held[q]
        /\ toWake'[q] = toWake[q] /\ post'[q] = post[q]
        /\ waiting'[q] = "waiting" => waiting[q] = "waiting"
        /\ waiting'[q] # "no" => waiting[q] # "no"
    BY OthersStay DEF Others
  <2>2. Local(q) BY DEF ListsInv
  <2> QED BY <2>1, <2>2 DEF Local, OwesWait
<1> SUFFICES Local(p)' BY <1>1
<1>2. CASE Attempt(p) \/ Recheck(p)
  BY <1>0, <1>2, <1>m DEF Local, OwesWait, Attempt, Recheck, Take, Return
<1>3. CASE ReadState(p) \/ ReadVar(p)
  BY <1>0, <1>3 DEF Local, OwesWait, ReadState, ReadVar, NoWait, Return
<1>4. CASE SemaphoreLock(p)
  BY <1>0, <1>4 DEF Local, OwesWait, SemaphoreLock, Return, Awakened
<1>5. ASSUME NEW from, NEW to, WaitListLock(p, from, to) \/ ClearWake(p, from, to),
             <<from, to>> \in {<<"queue", "enqueue">>, <<"clear", "recheck">>,
                 <<"retry", "attempt">>, <<"dequeue", "unlink">>, <<"wake", "collect">>,
                 <<"absorb_clear", "absorb">>, <<"update", "collect_var">>}
      PROVE  Local(p)'
  BY <1>0, <1>5 DEF Local, OwesWait, WaitListLock, ClearWake
<1>6. CASE QueueSelf(p)
  BY <1>0, <1>6 DEF Local, OwesWait, QueueSelf
<1>7. CASE DequeueSelf(p)
  BY <1>0, <1>7 DEF Local, OwesWait, DequeueSelf, Return
<1>8. CASE Release(p)
  BY <1>0, <1>8 DEF Local, OwesWait, Release
<1>9. CASE Wakeup(p) \/ UpdateVar(p)
  <2>1. p \notin Woken \cup UntilFree
    BY <1>0, <1>9, WokenQueued DEF Local, OwesWait, Wakeup, UpdateVar, ListsInv, Lists
  <2> QED BY <1>0, <1>9, <2>1 DEF Local, OwesWait, Wakeup, UpdateVar, Unlink
<1>10. CASE Awaken(p) \/ SemaphoreUnlock(p)
  BY <1>0, <1>10 DEF Local, OwesWait, Awaken, SemaphoreUnlock
<1>11. CASE \/ Signal(p) \/ \E c \in Calls : Begin(p, c)
            \/ \E v : SetVar(p, v, "update") \/ SetVar(p, v, "release")
  BY <1>0, <1>11 DEF Local, OwesWait, Signal, Begin, SetVar
<1>12. Step(p) => Local(p)'
  BY <1>2, <1>3, <1>4, <1>5, <1>6, <1>7, <1>8, <1>9, <1>10 DEF Step
<1> QED BY <1>11, <1>12

(* Steps that leave the lists alone.                                         *)
LEMMA ListsSame ==
    ASSUME ListsInv, NEW p \in Procs, Others(p),
           UNCHANGED <<hasWaiters, queue, waiting, toWake>>,
           call'[p] = call[p] \/ waiting[p] = "no"
    PROVE  Lists'
<1>1. \A i \in DOMAIN queue : queue[i] \in Procs /\ call'[queue[i]] = call[queue[i]]
  <2>1. \A i \in DOMAIN queue : queue[i] \in Procs BY DEF ListsInv, Fields
  <2> QED BY <2>1 DEF ListsInv, Lists, Others
<1>2. \A i \in DOMAIN queue : WaitMode(queue[i])' = WaitMode(queue[i])
  BY <1>1 DEF WaitMode
<1> QED BY <1>2 DEF ListsInv, Lists

(* Steps that take processes off the list.                                   *)
LEMMA ListsShorter ==
    ASSUME ListsInv, NEW ps, queue' = Without(ps),
           \A q \in Procs : q \notin ps => call'[q] = call[q],
           hasWaiters' = (hasWaiters /\ queue' # <<>>) \/ UNCHANGED hasWaiters
    PROVE  /\ queue' # <<>> => hasWaiters'
           /\ \A i, j \in DOMAIN queue' : queue'[i] = queue'[j] => i = j
           /\ \A i, j \in DOMAIN queue' :
                i < j /\ WaitMode(queue[j])' = "F" => WaitMode(queue[i])' = "F"
           /\ \A q \in Procs : (\E i \in DOMAIN queue' : queue'[i] = q)
                <=> (\E i \in DOMAIN queue : queue[i] = q) /\ q \notin ps
<1>0. queue \in Seq(Procs) /\ queue' \in Seq(Procs) BY WithoutKeepsOrder DEF ListsInv, Fields
<1>1. PICK at \in [DOMAIN queue' -> DOMAIN queue] :
         /\ \A k \in DOMAIN at : queue'[k] = queue[at[k]] /\ queue[at[k]] \notin ps
         /\ \A k, m \in DOMAIN at : k < m => at[k] < at[m]
         /\ \A i \in DOMAIN queue : queue[i] \notin ps => \E k \in DOMAIN at : at[k] = i
  BY <1>0, WithoutKeepsOrder
<1>2. queue' # <<>> => queue # <<>>
  <2> SUFFICES ASSUME queue' # <<>> PROVE queue # <<>>
    OBVIOUS
  <2>1. 1 \in DOMAIN queue' BY <1>0
  <2> QED BY <1>1, <2>1
<1>3. \A i, j \in DOMAIN queue' : queue'[i] = queue'[j] => i = j
  <2> SUFFICES ASSUME NEW i \in DOMAIN queue', NEW j \in DOMAIN queue', queue'[i] = queue'[j]
               PROVE  i = j
    OBVIOUS
  <2>1. at[i] = at[j] BY <1>1 DEF ListsInv, Lists
  <2>2. i \in Nat /\ j \in Nat /\ at[i] \in Nat BY <1>0, <1>1
  <2> QED BY <1>1, <2>1, <2>2
<1>4. \A i, j \in DOMAIN queue' :
         i < j /\ WaitMode(queue[j])' = "F" => WaitMode(queue[i])' = "F"
  <2>1. \A k \in DOMAIN queue' : call'[queue'[k]] = call[queue[at[k]]] BY <1>0, <1>1
  <2> QED BY <1>1, <2>1 DEF ListsInv, Lists, WaitMode
<1>5. \A q \in Procs : (\E i \in DOMAIN queue' : queue'[i] = q)
                <=> (\E i \in DOMAIN queue : queue[i] = q) /\ q \notin ps
  BY <1>1
<1>6. queue' # <<>> => hasWaiters' BY <1>2 DEF ListsInv, Lists
<1> QED BY <1>3, <1>4, <1>5, <1>6

(* LWLockQueueSelf                                                           *)
LEMMA ListsLonger ==
    ASSUME ListsInv, NEW p \in Procs, QueueSelf(p)
    PROVE  Lists'
<1>0. /\ queue \in Seq(Procs) /\ UNCHANGED <<call, toWake>> /\ waiting[p] = "no"
      /\ waiting \in [Procs -> {"no", "waiting", "pending"}]
  BY DEF ListsInv, Fields, QueueSelf, Local, OwesWait
<1>1. ~\E i \in DOMAIN queue : queue[i] = p BY <1>0 DEF ListsInv, Lists
<1>2. /\ waiting'[p] = "waiting" /\ \A q \in Procs \ {p} : waiting'[q] = waiting[q]
      /\ hasWaiters'
  BY <1>0 DEF QueueSelf
<1>4. CASE WaitMode(p) = "F"
  <2>1. queue' = <<p>> \o queue BY <1>4 DEF QueueSelf, Enqueued
  <2>2. /\ DOMAIN queue' = 1 .. Len(queue) + 1 /\ DOMAIN queue = 1 .. Len(queue)
        /\ queue'[1] = p /\ \A i \in DOMAIN queue : queue'[i + 1] = queue[i]
        /\ \A i \in DOMAIN queue' : i = 1 \/ (i - 1 \in DOMAIN queue /\ queue'[i] = queue[i - 1])
    BY <1>0, <2>1
  <2>3. \A i, j \in DOMAIN queue' : queue'[i] = queue'[j] => i = j
    BY <1>0, <1>1, <2>2 DEF ListsInv, Lists
  <2>4. \A i, j \in DOMAIN queue' :
          i < j /\ WaitMode(queue[j])' = "F" => WaitMode(queue[i])' = "F"
    BY <1>0, <1>4, <2>2 DEF ListsInv, Lists, WaitMode
  <2>5. \A q \in Procs : (\E i \in DOMAIN queue' : queue'[i] = q)
          <=> (\E i \in DOMAIN queue : queue[i] = q) \/ q = p
    BY <1>0, <2>2
  <2> QED BY <1>0, <1>1, <1>2, <2>3, <2>4, <2>5 DEF ListsInv, Lists
<1>5. CASE WaitMode(p) # "F"
  <2>1. queue' = Append(queue, p) BY <1>5 DEF QueueSelf, Enqueued
  <2>2. /\ DOMAIN queue' = 1 .. Len(queue) + 1 /\ DOMAIN queue = 1 .. Len(queue)
        /\ queue'[Len(queue) + 1] = p /\ \A i \in DOMAIN queue : queue'[i] = queue[i]
        /\ \A i \in DOMAIN queue' : i = Len(queue) + 1 \/ i \in DOMAIN queue
    BY <1>0, <2>1
  <2>3. \A i, j \in DOMAIN queue' : queue'[i] = queue'[j] => i = j
    BY <1>0, <1>1, <2>2 DEF ListsInv, Lists
  <2>4. \A i, j \in DOMAIN queue' :
          i < j /\ WaitMode(queue[j])' = "F" => WaitMode(queue[i])' = "F"
    BY <1>0, <1>5, <2>2 DEF ListsInv, Lists, WaitMode
  <2>5. \A q \in Procs : (\E i \in DOMAIN queue' : queue'[i] = q)
          <=> (\E i \in DOMAIN queue : queue[i] = q) \/ q = p
    BY <1>0, <2>2
  <2> QED BY <1>0, <1>1, <1>2, <2>3, <2>4, <2>5 DEF ListsInv, Lists
<1> QED BY <1>4, <1>5

(* LWLockDequeueSelf                                                         *)
LEMMA ListsDequeue ==
    ASSUME ListsInv, NEW p \in Procs, DequeueSelf(p)
    PROVE  Lists'
<1>0. /\ waiting \in [Procs -> {"no", "waiting", "pending"}]
      /\ call \in [Procs -> Call \cup {NoCall}]
  BY DEF ListsInv, Fields, HoldersInv, Types
<1>1. \A q \in Procs : q \notin {p} => call'[q] = call[q]
  BY <1>0 DEF DequeueSelf, Return, Continue
<1>2. /\ queue' # <<>> => hasWaiters'
      /\ \A i, j \in DOMAIN queue' : queue'[i] = queue'[j] => i = j
      /\ \A i, j \in DOMAIN queue' :
           i < j /\ WaitMode(queue[j])' = "F" => WaitMode(queue[i])' = "F"
      /\ \A q \in Procs : (\E i \in DOMAIN queue' : queue'[i] = q)
            <=> (\E i \in DOMAIN queue : queue[i] = q) /\ q \notin {p}
  BY <1>1, ListsShorter DEF DequeueSelf
<1>3. /\ waiting'[p] # "waiting"
      /\ waiting'[p] = "pending" <=> waiting[p] = "pending"
      /\ \A q \in Procs \ {p} : waiting'[q] = waiting[q]
      /\ UNCHANGED toWake
  BY <1>0 DEF DequeueSelf
<1>4. \A q \in Procs : /\ waiting'[q] = "waiting" <=> \E i \in DOMAIN queue' : queue'[i] = q
                       /\ waiting'[q] = "pending" <=> waiting[q] = "pending"
  BY <1>2, <1>3 DEF ListsInv, Lists
<1> QED BY <1>2, <1>3, <1>4 DEF ListsInv, Lists

(* LWLockWakeup and LWLockUpdateVar                                          *)
LEMMA ListsUnlink ==
    ASSUME ListsInv, NEW p \in Procs, pc[p] \in {"collect", "collect_var"},
           NEW ps \in {Woken, UntilFree}, Unlink(p, ps), UNCHANGED call,
           hasWaiters' = (hasWaiters /\ queue' # <<>>) \/ UNCHANGED hasWaiters
    PROVE  Lists'
<1>0. /\ waiting \in [Procs -> {"no", "waiting", "pending"}]
      /\ toWake \in [Procs -> SUBSET Procs] /\ toWake[p] = {}
  BY DEF ListsInv, Fields, Local
<1>1. /\ queue' # <<>> => hasWaiters'
      /\ \A i, j \in DOMAIN queue' : queue'[i] = queue'[j] => i = j
      /\ \A i, j \in DOMAIN queue' :
           i < j /\ WaitMode(queue[j])' = "F" => WaitMode(queue[i])' = "F"
      /\ \A q \in Procs : (\E i \in DOMAIN queue' : queue'[i] = q)
            <=> (\E i \in DOMAIN queue : queue[i] = q) /\ q \notin ps
  BY ListsShorter DEF Unlink
<1>2. \A q \in ps \cap Procs : waiting[q] = "waiting"
  BY WokenQueued DEF ListsInv, Lists
<1>3. \A q \in Procs : waiting'[q] = IF q \in ps THEN "pending" ELSE waiting[q]
  BY <1>0 DEF Unlink
<1>4. toWake'[p] = ps /\ \A q \in Procs \ {p} : toWake'[q] = toWake[q]
  BY <1>0 DEF Unlink
<1>5. ASSUME NEW x \in Procs
      PROVE  /\ waiting'[x] = "pending" <=> \E q \in Procs : x \in toWake'[q]
             /\ \A q, r \in Procs : x \in toWake'[q] \cap toWake'[r] => q = r
  <2>1. CASE x \in ps
    <3>1. \A q \in Procs : x \notin toWake[q] BY <1>2, <2>1 DEF ListsInv, Lists
    <3> QED BY <1>3, <1>4, <2>1, <3>1
  <2>2. CASE x \notin ps
    <3>1. \A q \in Procs : x \in toWake'[q] <=> x \in toWake[q] BY <1>0, <1>4, <2>2
    <3> QED BY <1>3, <2>2, <3>1 DEF ListsInv, Lists
  <2> QED BY <2>1, <2>2
<1>6. \A q \in Procs : waiting'[q] = "waiting" <=> \E i \in DOMAIN queue' : queue'[i] = q
  BY <1>1, <1>3 DEF ListsInv, Lists
<1> QED BY <1>1, <1>5, <1>6 DEF Lists

(* A dequeued process is told so.                                            *)
LEMMA ListsAwaken ==
    ASSUME ListsInv, NEW p \in Procs, Awaken(p)
    PROVE  Lists'
<1>0. /\ waiting \in [Procs -> {"no", "waiting", "pending"}]
      /\ toWake \in [Procs -> SUBSET Procs]
  BY DEF ListsInv, Fields
<1>1. PICK x \in toWake[p] : /\ waiting' = [waiting EXCEPT ![x] = "no"]
                             /\ toWake' = [toWake EXCEPT ![p] = @ \ {x}]
  BY DEF Awaken
<1>2. x \in Procs /\ waiting[x] = "pending" BY <1>0, <1>1 DEF ListsInv, Lists
<1>3. /\ waiting'[x] = "no" /\ \A q \in Procs \ {x} : waiting'[q] = waiting[q]
      /\ toWake'[p] = toWake[p] \ {x} /\ \A q \in Procs \ {p} : toWake'[q] = toWake[q]
  BY <1>0, <1>1, <1>2
<1>4. \A q \in Procs : x \notin toWake'[q] BY <1>1, <1>2, <1>3 DEF ListsInv, Lists
<1>5. \A y \in Procs \ {x} : \A q \in Procs : y \in toWake'[q] <=> y \in toWake[q]
  BY <1>3
<1>6. UNCHANGED <<hasWaiters, queue, call>> BY DEF Awaken, lockVars
<1> QED BY <1>2, <1>3, <1>4, <1>5, <1>6 DEF ListsInv, Lists, WaitMode

(* The lists agree after every step.                                         *)
LEMMA ListsStep == ListsInv /\ [Next]_vars => ListsInv'
<1> SUFFICES ASSUME ListsInv, [Next]_vars PROVE ListsInv'
  OBVIOUS
<1>0. HoldersInv' /\ Fields' BY HoldersStep, FieldsStep DEF ListsInv
<1>1. ASSUME NEW p \in Procs, Moves(p)
      PROVE  ListsInv'
  <2>1. Others(p) BY <1>1, OthersStay
  <2>2. \A q \in Procs : Local(q)' BY <1>1, LocalStep
  <2>3. pc[p] \notin {"clear", "recheck", "recheck_val", "sleep", "dequeue", "unlink",
                      "absorb_clear", "absorb"} => waiting[p] = "no"
    BY DEF ListsInv, Local, OwesWait
  <2>4. CASE QueueSelf(p) \/ DequeueSelf(p) \/ Awaken(p) \/ Wakeup(p) \/ UpdateVar(p)
    <3>1. Wakeup(p) \/ UpdateVar(p) => Lists'
      BY ListsUnlink DEF Wakeup, UpdateVar
    <3>2. Lists' BY <2>4, <3>1, ListsLonger, ListsDequeue, ListsAwaken
    <3> QED BY <1>0, <2>2, <3>2 DEF ListsInv
  <2>5. CASE ~(QueueSelf(p) \/ DequeueSelf(p) \/ Awaken(p) \/ Wakeup(p) \/ UpdateVar(p))
    <3>1. UNCHANGED <<hasWaiters, queue, waiting, toWake>>
      BY <1>1, <2>5 DEF Step, Attempt, ReadState, ReadVar, WaitListLock, ClearWake, Recheck,
           SemaphoreLock, Release, SemaphoreUnlock, Signal, Begin, SetVar, lockVars
    <3>2. call'[p] = call[p] \/ waiting[p] = "no"
      BY <1>1, <2>3, <2>5 DEF Step, Attempt, ReadState, ReadVar, WaitListLock, ClearWake, Recheck,
           SemaphoreLock, Release, SemaphoreUnlock, Signal, Begin, SetVar, NoWait, Continue,
           Awakened
    <3>3. Lists' BY <2>1, <3>1, <3>2, ListsSame
    <3> QED BY <1>0, <2>2, <3>3 DEF ListsInv
  <2> QED BY <2>4, <2>5
<1>2. CASE UNCHANGED vars
  BY <1>0, <1>2 DEF ListsInv, Lists, Local, OwesWait, WaitMode, vars, lockVars, procVars
<1> QED BY <1>1, <1>2 DEF Next

(* The lists are empty at first.                                            *)
LEMMA ListsInit == Init => ListsInv
<1> SUFFICES ASSUME Init PROVE ListsInv
  OBVIOUS
<1>1. Fields
  <2>1. 0 \in 0 .. MaxVal /\ 0 \in 0 .. MaxCalls /\ 0 \in Nat /\ <<>> \in Seq(Procs)
    BY LWLockAssumption
  <2> QED BY <2>1 DEF Init, Fields
<1>2. Lists /\ \A p \in Procs : Local(p) BY DEF Init, Lists, Local
<1> QED BY <1>1, <1>2, HoldersInit DEF ListsInv

(* lwWaiting, the wait list, the wakeup lists, the flag and the count agree  *)
(* in every reachable state, for any number of processes and calls: what     *)
(* LWLockDequeueSelf trusts instead of searching the list.                   *)
THEOREM StateIsExact == Spec => []StateExact
<1>1. ListsInv => StateExact
  <2> SUFFICES ASSUME ListsInv PROVE StateExact
    OBVIOUS
  <2>1. TypeOK BY DEF ListsInv, HoldersInv, Types, Fields, TypeOK
  <2>2. \A p \in Procs : pc[p] \in {"idle", "attempt", "queue", "enqueue"} => waiting[p] = "no"
    BY DEF ListsInv, Local, OwesWait
  <2> QED BY <2>1, <2>2 DEF ListsInv, HoldersInv, Lists, StateExact
<1> QED BY <1>1, ListsInit, ListsStep, PTL DEF Spec

(* Those on the way to raise the semaphore of a process.                     *)
Posters(p) == {q \in Procs : p \in post[q]}

(* What came from elsewhere and what is owed is there, absorbed or under     *)
(* way; and what was absorbed came from elsewhere.                           *)
Balance(p) ==
    /\ sem[p] + extra[p] + Cardinality(Posters(p)) + (IF waiting[p] # "no" THEN 1 ELSE 0)
         = signals[p] + (IF OwesWait(p) THEN 1 ELSE 0)
    /\ extra[p] <= signals[p]

BalanceInv == ListsInv /\ \A p \in Procs : Balance(p)

(* They can be counted.                                                     *)
LEMMA PostersFinite ==
    ASSUME NEW x PROVE IsFiniteSet(Posters(x)) /\ Cardinality(Posters(x)) \in Nat
<1>1. Posters(x) \in SUBSET Procs BY DEF Posters
<1> QED BY <1>1, SharersFit

(* The semaphores of others are left alone, but by those who awaken them.    *)
LEMMA OthersBalance ==
    ASSUME BalanceInv, NEW p \in Procs, NEW x \in Procs \ {p},
           ~Awaken(p), ~SemaphoreUnlock(p),
           Moves(p)
    PROVE  Balance(x)'
<1> USE DEF Goto, Continue
<1> DEFINE Same == /\ sem'[x] = sem[x] /\ extra'[x] = extra[x] /\ signals'[x] = signals[x]
                   /\ waiting'[x] = "no" <=> waiting[x] = "no"
                   /\ UNCHANGED post
<1>0. /\ sem \in [Procs -> Nat] /\ extra \in [Procs -> Nat] /\ signals \in [Procs -> Nat]
      /\ waiting \in [Procs -> {"no", "waiting", "pending"}]
  BY DEF BalanceInv, ListsInv, Fields
<1>1. ASSUME Same PROVE Balance(x)'
  <2>1. OwesWait(x)' <=> OwesWait(x) BY OthersStay DEF Others, OwesWait, BalanceInv
  <2>2. Posters(x)' = Posters(x) BY <1>1 DEF Posters
  <2> QED BY <1>1, <2>1, <2>2 DEF BalanceInv, Balance
<1> SUFFICES Same BY <1>1
<1>2. CASE Attempt(p) \/ ReadState(p) \/ ReadVar(p) \/ Recheck(p) \/ SemaphoreLock(p)
  BY <1>0, <1>2 DEF Attempt, ReadState, ReadVar, Recheck, SemaphoreLock, Return, NoWait,
                    bounds
<1>3. ASSUME NEW from, NEW to, WaitListLock(p, from, to) \/ ClearWake(p, from, to)
      PROVE  Same
  BY <1>3 DEF WaitListLock, ClearWake, bounds
<1>4. CASE QueueSelf(p) \/ DequeueSelf(p) \/ Release(p)
  BY <1>0, <1>4 DEF QueueSelf, DequeueSelf, Return, Release, bounds
<1>5. CASE Wakeup(p) \/ UpdateVar(p)
  <2>1. PICK ps \in {Woken, UntilFree} :
           Unlink(p, ps) /\ UNCHANGED <<sem, extra, post, bounds>>
    BY <1>5 DEF Wakeup, UpdateVar
  <2>2. x \in ps => waiting[x] = "waiting"
    BY <2>1, WokenQueued DEF BalanceInv, ListsInv, Lists
  <2> QED BY <1>0, <2>1, <2>2 DEF Unlink, bounds
<1>6. CASE \/ Signal(p) \/ \E c \in Calls : Begin(p, c)
           \/ \E v : SetVar(p, v, "update") \/ SetVar(p, v, "release")
  BY <1>0, <1>6 DEF Signal, Begin, SetVar, bounds
<1> QED BY <1>2, <1>3, <1>4, <1>5, <1>6 DEF Step

(* Nothing is lost or invented by the process itself.                        *)
LEMMA OwnBalance ==
    ASSUME BalanceInv, NEW p \in Procs, ~Awaken(p), ~SemaphoreUnlock(p),
           Moves(p)
    PROVE  Balance(p)'
<1> USE DEF Goto, Continue
<1> DEFINE n == Cardinality(Posters(p))
<1>0. /\ sem \in [Procs -> Nat] /\ extra \in [Procs -> Nat] /\ signals \in [Procs -> Nat]
      /\ waiting \in [Procs -> {"no", "waiting", "pending"}] /\ pc \in [Procs -> Locations]
      /\ n \in Nat /\ Balance(p) /\ Local(p)
  BY PostersFinite DEF BalanceInv, ListsInv, Fields, HoldersInv, Types
<1>1. UNCHANGED post
  BY DEF Step, Attempt, ReadState, ReadVar, WaitListLock, QueueSelf, ClearWake, Recheck,
         SemaphoreLock, DequeueSelf, Release, Wakeup, UpdateVar, Signal, Begin, SetVar
<1>2. Cardinality(Posters(p)') = n BY <1>1 DEF Posters
<1> HIDE DEF n
<1>3. Balance(p)' <=>
        /\ sem'[p] + extra'[p] + n + (IF waiting'[p] # "no" THEN 1 ELSE 0)
             = signals'[p] + (IF OwesWait(p)' THEN 1 ELSE 0)
        /\ extra'[p] <= signals'[p]
  BY <1>2 DEF Balance
<1>4. /\ sem[p] + extra[p] + n + (IF waiting[p] # "no" THEN 1 ELSE 0)
           = signals[p] + (IF OwesWait(p) THEN 1 ELSE 0)
      /\ extra[p] <= signals[p]
  BY <1>0 DEF Balance, n
<1> USE DEF OwesWait, Local
<1>5. ASSUME NEW taken \in {0, 1}, Return(p, taken), waiting'[p] = "no", UNCHANGED signals,
             OwesWait(p) <=> taken = 1 \/ waiting[p] # "no", taken = 0 \/ waiting[p] = "no"
      PROVE  Balance(p)'
  BY <1>0, <1>3, <1>4, <1>5 DEF Return
<1>6. ASSUME UNCHANGED <<sem, extra, signals>>, waiting'[p] = waiting[p],
             OwesWait(p)' <=> OwesWait(p)
      PROVE  Balance(p)'
  BY <1>3, <1>4, <1>6
<1>7. CASE Attempt(p)
  <2>1. pc[p] = "attempt" /\ UNCHANGED <<waiting, signals>> BY <1>7 DEF Attempt, bounds
  <2>2. CASE Return(p, 0) BY <1>0, <1>5, <2>1, <2>2
  <2>3. CASE Continue(p, "queue") BY <1>0, <1>6, <2>1, <2>3
  <2> QED BY <1>7, <2>2, <2>3 DEF Attempt
<1>8. CASE ReadState(p) \/ ReadVar(p)
  <2>1. UNCHANGED <<waiting, signals>> BY <1>8 DEF ReadState, ReadVar, bounds
  <2>2. CASE Return(p, 0) /\ pc[p] \in {"attempt", "attempt_val"}
    BY <1>0, <1>5, <2>1, <2>2
  <2>3. CASE /\ pc[p] \in {"recheck", "recheck_val"}
             /\ Continue(p, "dequeue") \/ Continue(p, "recheck_val") \/ Continue(p, "sleep")
    BY <1>0, <1>6, <2>1, <2>3
  <2>4. CASE /\ pc[p] \in {"attempt", "attempt_val"}
             /\ Continue(p, "attempt_val") \/ Continue(p, "queue")
    BY <1>0, <1>6, <2>1, <2>4
  <2> QED BY <1>8, <2>2, <2>3, <2>4 DEF ReadState, ReadVar, NoWait
<1>9. CASE Recheck(p) \/ Release(p)
  BY <1>0, <1>6, <1>9 DEF Recheck, Release, bounds
<1>10. ASSUME NEW from, NEW to, WaitListLock(p, from, to) \/ ClearWake(p, from, to),
             <<from, to>> \in {<<"queue", "enqueue">>, <<"clear", "recheck">>,
                 <<"retry", "attempt">>, <<"dequeue", "unlink">>, <<"wake", "collect">>,
                 <<"absorb_clear", "absorb">>, <<"update", "collect_var">>}
      PROVE  Balance(p)'
  BY <1>0, <1>6, <1>10 DEF WaitListLock, ClearWake, bounds
<1>11. CASE QueueSelf(p)
  <2>1. /\ UNCHANGED <<sem, extra, signals>> /\ waiting[p] = "no" /\ waiting'[p] = "waiting"
        /\ OwesWait(p)' /\ ~OwesWait(p)
    BY <1>0, <1>11 DEF QueueSelf, bounds
  <2> QED BY <1>0, <1>3, <1>4, <2>1
<1>12. CASE DequeueSelf(p)
  <2>1. OwesWait(p) /\ UNCHANGED signals BY <1>12 DEF DequeueSelf, bounds
  <2>2. CASE waiting[p] = "waiting"
    BY <1>0, <1>5, <1>12, <2>1, <2>2 DEF DequeueSelf
  <2>3. CASE waiting[p] # "waiting"
    BY <1>0, <1>6, <1>12, <2>1, <2>3 DEF DequeueSelf
  <2> QED BY <2>2, <2>3
<1>13. CASE SemaphoreLock(p)
  <2>1. OwesWait(p) /\ UNCHANGED <<waiting, signals>> /\ sem[p] > 0
    BY <1>13 DEF SemaphoreLock, bounds
  <2>2. CASE waiting[p] # "no"
    <3>1. /\ sem'[p] = sem[p] - 1 /\ extra'[p] = extra[p] + 1 /\ OwesWait(p)'
      BY <1>0, <1>13, <2>1, <2>2 DEF SemaphoreLock, Awakened
    <3> QED BY <1>0, <1>3, <1>4, <2>1, <2>2, <3>1
  <2>3. CASE waiting[p] = "no" /\ Return(p, 1)
    BY <1>0, <1>5, <2>1, <2>3
  <2>4. CASE waiting[p] = "no" /\ ~Return(p, 1)
    <3>1. /\ sem'[p] = sem[p] - 1 /\ extra'[p] = extra[p] /\ ~OwesWait(p)'
      BY <1>0, <1>13, <2>1, <2>4 DEF SemaphoreLock, Awakened
    <3> QED BY <1>0, <1>3, <1>4, <2>1, <2>4, <3>1
  <2> QED BY <2>2, <2>3, <2>4
<1>14. CASE Wakeup(p) \/ UpdateVar(p)
  <2>1. p \notin Woken \cup UntilFree
    BY <1>0, <1>14, WokenQueued DEF Wakeup, UpdateVar, BalanceInv, ListsInv, Lists
  <2> QED BY <1>0, <1>6, <1>14, <2>1 DEF Wakeup, UpdateVar, Unlink, bounds
<1>15. CASE Signal(p)
  <2>1. /\ sem'[p] = sem[p] + 1 /\ signals'[p] = signals[p] + 1
        /\ UNCHANGED <<extra, waiting, pc>>
    BY <1>0, <1>15 DEF Signal
  <2> QED BY <1>0, <1>3, <1>4, <2>1
<1>16. CASE \/ \E c \in Calls : Begin(p, c)
            \/ \E v : SetVar(p, v, "update") \/ SetVar(p, v, "release")
  BY <1>0, <1>6, <1>16 DEF Begin, SetVar, bounds
<1> QED BY <1>7, <1>8, <1>9, <1>10, <1>11, <1>12, <1>13, <1>14, <1>15, <1>16 DEF Step

(* One wakeup moves from the list of those to awaken to the semaphore.       *)
LEMMA AwakenBalance ==
    ASSUME BalanceInv, NEW p \in Procs, Awaken(p) \/ SemaphoreUnlock(p), NEW x \in Procs
    PROVE  Balance(x)'
<1>0. /\ sem \in [Procs -> Nat] /\ extra \in [Procs -> Nat] /\ signals \in [Procs -> Nat]
      /\ waiting \in [Procs -> {"no", "waiting", "pending"}] /\ pc \in [Procs -> Locations]
      /\ post \in [Procs -> SUBSET Procs] /\ toWake \in [Procs -> SUBSET Procs]
      /\ IsFiniteSet(Posters(x)) /\ Cardinality(Posters(x)) \in Nat
  BY PostersFinite DEF BalanceInv, ListsInv, Fields, HoldersInv, Types
<1>1. /\ UNCHANGED <<extra, signals>>
      /\ OwesWait(x)' <=> OwesWait(x)
  BY <1>0 DEF Awaken, SemaphoreUnlock, Goto, OwesWait, bounds
<1>2. CASE Awaken(p)
  <2>1. PICK q \in toWake[p] : /\ waiting' = [waiting EXCEPT ![q] = "no"]
                               /\ post' = [post EXCEPT ![p] = {q}]
    BY <1>2 DEF Awaken
  <2>2. q \in Procs /\ waiting[q] = "pending" /\ p \notin Posters(q) /\ post[p] = {}
    BY <1>0, <1>2, <2>1, ZenonT(60) DEF BalanceInv, ListsInv, Lists, Local, Awaken, Posters
  <2>3. UNCHANGED sem BY <1>2 DEF Awaken
  <2>4. CASE x = q
    <3>1. Posters(x)' = Posters(x) \cup {p} BY <1>0, <2>1, <2>4 DEF Posters
    <3>2. IsFiniteSet(Posters(x)) /\ p \notin Posters(x) BY <1>0, <2>2, <2>4
    <3>3. Cardinality(Posters(x)') = Cardinality(Posters(x)) + 1
      BY <3>1, <3>2, FS_AddElement
    <3> QED BY <1>0, <1>1, <2>1, <2>2, <2>3, <2>4, <3>3 DEF BalanceInv, Balance
  <2>5. CASE x # q
    <3>1. Posters(x)' = Posters(x) BY <1>0, <2>1, <2>2, <2>5 DEF Posters
    <3> QED BY <1>0, <1>1, <2>1, <2>3, <2>5, <3>1 DEF BalanceInv, Balance
  <2> QED BY <2>4, <2>5
<1>3. CASE SemaphoreUnlock(p)
  <2>1. /\ UNCHANGED waiting /\ post' = [post EXCEPT ![p] = {}]
        /\ sem'[x] = IF x \in post[p] THEN sem[x] + 1 ELSE sem[x]
    BY <1>3 DEF SemaphoreUnlock
  <2>2. CASE x \in post[p]
    <3>1. Posters(x)' = Posters(x) \ {p} /\ p \in Posters(x)
      BY <1>0, <2>1, <2>2 DEF Posters
    <3>2. Cardinality(Posters(x)') = Cardinality(Posters(x)) - 1
      BY <1>0, <3>1, FS_RemoveElement
    <3> QED BY <1>0, <1>1, <2>1, <2>2, <3>2 DEF BalanceInv, Balance
  <2>3. CASE x \notin post[p]
    <3>1. Posters(x)' = Posters(x) BY <1>0, <2>1, <2>3 DEF Posters
    <3> QED BY <1>0, <1>1, <2>1, <2>3, <3>1 DEF BalanceInv, Balance
  <2> QED BY <2>2, <2>3
<1> QED BY <1>2, <1>3

(* No step upsets the balance of anybody.                                   *)
LEMMA BalanceStep == BalanceInv /\ [Next]_vars => BalanceInv'
<1> SUFFICES ASSUME BalanceInv, [Next]_vars PROVE BalanceInv'
  OBVIOUS
<1>0. ListsInv' BY ListsStep DEF BalanceInv
<1>1. ASSUME NEW p \in Procs, Moves(p),
             NEW x \in Procs
      PROVE  Balance(x)'
  BY <1>1, OthersBalance, OwnBalance, AwakenBalance
<1>2. CASE UNCHANGED vars
  <2>1. \A x \in Procs : Balance(x)'
    BY <1>2 DEF BalanceInv, Balance, Posters, OwesWait, vars, procVars, bounds
  <2> QED BY <1>0, <2>1 DEF BalanceInv
<1> QED BY <1>0, <1>1, <1>2 DEF BalanceInv, Next

(* Nothing is owed at first.                                                *)
LEMMA BalanceInit == Init => BalanceInv
<1> SUFFICES ASSUME Init PROVE BalanceInv
  OBVIOUS
<1>1. ASSUME NEW x \in Procs PROVE Cardinality(Posters(x)) = 0
  <2>1. Posters(x) = {} BY DEF Posters, Init
  <2> QED BY <2>1, FS_EmptySet
<1>2. \A x \in Procs : Balance(x)
  BY <1>1 DEF Init, Balance, OwesWait
<1> QED BY <1>2, ListsInit DEF BalanceInv

(* Nothing is lost or invented on a semaphore, for any number of processes,  *)
(* calls and late signals.                                                   *)
THEOREM SignalsAlwaysBalance == Spec => []SignalsBalance
<1>1. BalanceInv => SignalsBalance
  <2> SUFFICES ASSUME BalanceInv, NEW p \in Procs
               PROVE  sem[p] + extra[p] + Cardinality({q \in Procs : p \in toWake[q]})
                        + Cardinality({q \in Procs : p \in post[q]})
                        + (IF waiting[p] = "waiting" THEN 1 ELSE 0)
                      = signals[p] + (IF OwesWait(p) THEN 1 ELSE 0)
    BY DEF SignalsBalance
  <2>1. /\ sem[p] \in Nat /\ extra[p] \in Nat /\ waiting[p] \in {"no", "waiting", "pending"}
        /\ Cardinality(Posters(p)) \in Nat /\ Balance(p)
    BY PostersFinite DEF BalanceInv, ListsInv, Fields
  <2>2. Cardinality({q \in Procs : p \in toWake[q]})
          = IF waiting[p] = "pending" THEN 1 ELSE 0
    <3>1. CASE waiting[p] = "pending"
      <4>1. PICK q \in Procs : p \in toWake[q] BY <3>1 DEF BalanceInv, ListsInv, Lists
      <4>2. {r \in Procs : p \in toWake[r]} = {q} BY <4>1 DEF BalanceInv, ListsInv, Lists
      <4> QED BY <3>1, <4>2, FS_Singleton
    <3>2. CASE waiting[p] # "pending"
      <4>1. {q \in Procs : p \in toWake[q]} = {} BY <3>2 DEF BalanceInv, ListsInv, Lists
      <4> QED BY <3>2, <4>1, FS_EmptySet
    <3> QED BY <3>1, <3>2
  <2> QED BY <2>1, <2>2 DEF Balance, Posters
<1> QED BY <1>1, BalanceInit, BalanceStep, PTL DEF Spec

(* A set of numbers that is not empty has a least one.                       *)
LEMMA LeastNumber ==
    ASSUME NEW T \in SUBSET Nat, T # {}
    PROVE  \E j \in T : \A k \in T : ~(k < j)
<1>1. \E j \in T : \A k \in T : ~(<<k, j>> \in OpToRel(<, Nat))
  BY NatLessThanWellFounded, WFMin, Zenon
<1> QED BY <1>1 DEF OpToRel

(* Whoever waits until the lock is free is taken off the list by a wakeup    *)
(* and by an update alike.                                                   *)
LEMMA UntilFreeWoken ==
    ASSUME ListsInv, NEW x \in Procs, waiting[x] = "waiting", WaitMode(x) = "F"
    PROVE  x \in Woken \cap UntilFree
<1>1. PICK i \in DOMAIN queue : queue[i] = x BY DEF ListsInv, Lists
<1>2. DOMAIN queue = 1 .. Len(queue) /\ Len(queue) \in Nat BY DEF ListsInv, Fields
<1>3. \A j \in 1 .. i : j \in DOMAIN queue /\ WaitMode(queue[j]) = "F"
  BY <1>1, <1>2 DEF ListsInv, Lists
<1>4. ~\E j \in 1 .. i - 1 : WaitMode(queue[j]) = "X" BY <1>2, <1>3
<1>5. x \in UntilFree BY <1>1, <1>3 DEF UntilFree
<1>6. x \in Woken BY <1>1, <1>4 DEF Woken
<1> QED BY <1>5, <1>6

(* A wakeup that leaves somebody on the list has woken a locker: the first   *)
(* on the list that does not wait until the lock is free.                    *)
LEMMA LockerWoken ==
    ASSUME ListsInv, NEW x \in Procs, waiting[x] = "waiting", x \notin Woken
    PROVE  \E q \in Woken : WaitMode(q) # "F"
<1> DEFINE T == {j \in DOMAIN queue : WaitMode(queue[j]) # "F"}
<1>1. PICK i \in DOMAIN queue : queue[i] = x BY DEF ListsInv, Lists
<1>2. DOMAIN queue = 1 .. Len(queue) /\ Len(queue) \in Nat BY DEF ListsInv, Fields
<1>3. i \in T BY <1>1, UntilFreeWoken
<1>4. T \in SUBSET Nat BY <1>2
<1>5. PICK j \in T : \A k \in T : ~(k < j)
  <2> HIDE DEF T
  <2> QED BY <1>3, <1>4, LeastNumber
<1>6. \A k \in 1 .. j - 1 : WaitMode(queue[k]) = "F"
  <2>1. \A k \in 1 .. j - 1 : k \in DOMAIN queue /\ k < j BY <1>2
  <2> QED BY <1>5, <2>1
<1>7. queue[j] \in Woken BY <1>6 DEF Woken
<1> QED BY <1>7

(* A woken locker, which will clear LW_FLAG_WAKE_IN_PROGRESS.                *)
Clears(q) ==
    /\ call[q].kind \notin {"var", "or_wait"}
    /\ \/ pc[q] \in {"retry", "absorb_clear"}
       \/ pc[q] \in {"recheck", "sleep", "dequeue", "unlink"} /\ waiting[q] # "waiting"

(* A process that will still try to take the lock.                           *)
Tries(q) ==
    \/ call[q].kind # "var" /\ pc[q] \in {"attempt", "retry"}
    \/ /\ call[q].kind \notin {"var", "or_wait"}
       /\ pc[q] \in {"recheck", "sleep"} /\ waiting[q] # "waiting"

(* Somebody will see to those who sleep: the lock is held, somebody is about *)
(* to awaken them, or somebody is about to take the lock.                    *)
Watched ==
    \E q \in Procs : held[q] # "no" \/ pc[q] \in {"wake", "collect"} \/ Tries(q)

(* What a process in LWLockWaitForVar relies on once it is queued: no wakeup *)
(* under way for somebody else keeps a release from waking it, and the       *)
(* release it did not see will.                                              *)
VarWatched(p) ==
    call[p].kind = "var" /\ waiting[p] = "waiting" =>
        /\ pc[p] # "clear" => ~wip
        /\ pc[p] \in {"recheck_val", "sleep"} =>
             count >= LW_VAL_EXCLUSIVE \/ \E q \in Procs : pc[q] \in {"wake", "collect"}

(* No one is left asleep: whoever waits has somebody to see to it, and the   *)
(* flag that keeps releases from waking is only set while a locker will      *)
(* clear it.                                                                 *)
WakeInv ==
    /\ BalanceInv /\ VarWaiterInformed
    /\ wip => \E q \in Procs : Clears(q)
    /\ \A p \in Procs : VarWatched(p)
    /\ \A p \in Procs : pc[p] = "sleep" /\ waiting[p] = "waiting" => Watched

(* The flag is only left set while a locker is there to clear it.            *)
LEMMA ClearsStep ==
    ASSUME WakeInv, NEW p \in Procs, wip',
           Moves(p)
    PROVE  \E q \in Procs : Clears(q)'
<1>0. /\ pc \in [Procs -> Locations] /\ call \in [Procs -> Call \cup {NoCall}]
      /\ waiting \in [Procs -> {"no", "waiting", "pending"}] /\ ListsInv /\ Others(p)
  BY OthersStay DEF WakeInv, BalanceInv, ListsInv, HoldersInv, Types, Fields
<1>1. CASE Wakeup(p)
  <2>1. PICK q \in Woken : WaitMode(q) # "F" BY <1>1 DEF Wakeup, WakesLocker
  <2>2. q \in Procs /\ waiting[q] = "waiting"
    BY <1>0, WokenQueued DEF ListsInv, Lists, Fields
  <2>3. /\ call[q].kind = "acquire" /\ UNCHANGED call /\ waiting'[q] = "pending"
        /\ pc[q] \in {"recheck", "sleep", "dequeue", "unlink"}
    BY <1>0, <1>1, <2>1, <2>2 DEF WaitMode, ListsInv, Local, OwesWait, Wakeup, Unlink
  <2>4. q # p BY <1>1, <2>3 DEF Wakeup
  <2>5. Clears(q)' BY <1>0, <2>2, <2>3, <2>4 DEF Clears, Others
  <2> QED BY <2>2, <2>5
<1>2. CASE ~Wakeup(p)
  <2>1. wip
    BY <1>2 DEF Step, Attempt, ReadState, ReadVar, WaitListLock, QueueSelf, ClearWake,
         Recheck, SemaphoreLock, DequeueSelf, Release, UpdateVar, Awaken, SemaphoreUnlock,
         Signal, Begin, SetVar, lockVars
  <2>2. PICK q \in Procs : Clears(q) BY <2>1 DEF WakeInv
  <2>3. CASE q # p BY <1>0, <2>2, <2>3 DEF Clears, Others
  <2>4. CASE q = p
    <3>0. pc[p] \in {"retry", "absorb_clear", "recheck", "sleep", "dequeue", "unlink"}
      BY <2>2, <2>4 DEF Clears
    <3>1. ~ClearWake(p, "retry", "attempt") /\ ~ClearWake(p, "absorb_clear", "absorb")
          /\ ~ClearWake(p, "clear", "recheck")
      BY DEF ClearWake
    <3>2. \/ Recheck(p) \/ SemaphoreLock(p) \/ WaitListLock(p, "dequeue", "unlink")
          \/ DequeueSelf(p) \/ ReadState(p) \/ UNCHANGED <<pc, call, waiting>>
      BY <1>2, <3>0, <3>1 DEF Step, Attempt, ReadVar, WaitListLock, QueueSelf, Release,
           UpdateVar, Awaken, SemaphoreUnlock, Signal, Begin, SetVar
    <3>3. Clears(p)'
      BY <1>0, <2>2, <2>4, <3>2 DEF Clears, Recheck, SemaphoreLock, WaitListLock, DequeueSelf,
           ReadState, Goto, Continue, Awakened
    <3> QED BY <3>3
  <2> QED BY <2>2, <2>3, <2>4
<1> QED BY <1>1, <1>2

(* A release that leaves the lock free to somebody who waits for the         *)
(* variable goes on to wake it.                                              *)
LEMMA ReleaseWakes ==
    ASSUME WakeInv, NEW p \in Procs, NEW x \in Procs, Release(p),
           call[x].kind = "var", waiting[x] = "waiting", pc[x] # "clear",
           count >= LW_VAL_EXCLUSIVE \/ held[p] = "X"
    PROVE  pc'[p] = "wake"
<1>0. HoldersInv /\ pc \in [Procs -> Locations]
  BY DEF WakeInv, BalanceInv, ListsInv, HoldersInv, Types
<1>1. held[p] = "X"
  <2>1. Holders("S") \in SUBSET Procs BY DEF Holders
  <2>2. CASE count >= LW_VAL_EXCLUSIVE
    <3>1. Holders("X") # {}
      BY <1>0, <2>1, <2>2, SharersFit DEF HoldersInv, CountExact
    <3> QED BY <1>0, <3>1 DEF HoldersInv, Holders, Release
  <2> QED BY <2>2
<1>2. count = LW_VAL_EXCLUSIVE /\ LW_VAL_EXCLUSIVE \in Nat
  <2>1. Holders("X") # {} BY <1>1 DEF Holders
  <2>2. LW_VAL_EXCLUSIVE \in Nat BY SharersFit
  <2> QED BY <1>0, <2>1, <2>2 DEF HoldersInv, CountExact
<1>3. hasWaiters /\ ~wip
  <2>1. queue # <<>> BY DEF WakeInv, BalanceInv, ListsInv, Lists
  <2> QED BY <2>1 DEF WakeInv, BalanceInv, ListsInv, Lists, VarWatched
<1> QED BY <1>0, <1>1, <1>2, <1>3 DEF Release, CheckWaiters, Goto

(* Who waits for the variable stays watched and informed.                    *)
LEMMA VarStep ==
    ASSUME WakeInv, NEW p \in Procs, NEW x \in Procs,
           Moves(p),
           call'[x].kind = "var", waiting'[x] = "waiting"
    PROVE  /\ VarWatched(x)'
           /\ pc'[x] = "sleep" =>
                \/ count' >= LW_VAL_EXCLUSIVE /\ val' = call'[x].old
                \/ \E q \in Procs : pc'[q] \in {"release", "wake", "collect", "update",
                                               "collect_var"}
<1>0. /\ pc \in [Procs -> Locations] /\ call \in [Procs -> Call \cup {NoCall}]
      /\ waiting \in [Procs -> {"no", "waiting", "pending"}] /\ ListsInv /\ Others(p)
      /\ Local(p) /\ VarWatched(x)
  BY OthersStay DEF WakeInv, BalanceInv, ListsInv, HoldersInv, Types, Fields
<1>1. ~Wakeup(p) /\ ~UpdateVar(p)
  <2> SUFFICES ASSUME Wakeup(p) \/ UpdateVar(p) PROVE FALSE
    OBVIOUS
  <2>1. /\ UNCHANGED call /\ waiting[x] = "waiting"
        /\ x \notin Woken \/ x \notin UntilFree
    BY <1>0 DEF Wakeup, UpdateVar, Unlink
  <2>2. WaitMode(x) = "F" BY <2>1 DEF WaitMode
  <2> QED BY <1>0, <2>1, <2>2, UntilFreeWoken
<1>2. wip' => wip
  BY <1>1 DEF Step, Attempt, ReadState, ReadVar, WaitListLock, QueueSelf, ClearWake,
         Recheck, SemaphoreLock, DequeueSelf, Release, UpdateVar, Awaken, SemaphoreUnlock,
         Signal, Begin, SetVar, lockVars
<1>n. LW_VAL_EXCLUSIVE \in Nat /\ LW_VAL_EXCLUSIVE > 0 /\ count \in Nat
  BY <1>0, LWLockAssumption DEF LW_VAL_EXCLUSIVE, ListsInv, HoldersInv, Types
<1>3. count >= LW_VAL_EXCLUSIVE => count' = count \/ Release(p)
  <2>1. count >= LW_VAL_EXCLUSIVE => ~Take(p)
    BY <1>n DEF Take, LockFree
  <2> QED
    BY <1>1, <2>1 DEF Step, Attempt, ReadState, ReadVar, WaitListLock, QueueSelf, ClearWake,
         Recheck, SemaphoreLock, DequeueSelf, Awaken, SemaphoreUnlock,
         Signal, Begin, SetVar, lockVars
<1>4. UNCHANGED val \/ pc'[p] \in {"update", "release"}
  BY <1>0, <1>1 DEF Step, Attempt, ReadState, ReadVar, WaitListLock, QueueSelf, ClearWake,
         Recheck, SemaphoreLock, DequeueSelf, Release, Awaken, SemaphoreUnlock,
         Signal, Begin, SetVar, lockVars, Goto
<1>5. /\ pc[p] \in {"wake", "collect"} => pc'[p] \in {"wake", "collect"}
      /\ pc[p] \in {"update", "collect_var"} => pc'[p] \in {"update", "collect_var"}
      /\ pc[p] = "release" => pc'[p] = "release" \/ Release(p)
  <2>1. pc[p] \in {"release", "wake", "collect", "update", "collect_var"} =>
          \/ WaitListLock(p, "wake", "collect") \/ WaitListLock(p, "update", "collect_var")
          \/ Release(p) \/ UNCHANGED pc
    BY <1>1 DEF Step, Attempt, ReadState, ReadVar, WaitListLock, QueueSelf, ClearWake,
         Recheck, SemaphoreLock, DequeueSelf, Awaken, SemaphoreUnlock, Signal, Begin, SetVar
  <2> QED BY <1>0, <2>1 DEF WaitListLock, Release, Goto
<1>6. CASE x # p
  <2>1. /\ call'[x] = call[x] /\ pc'[x] = pc[x] /\ waiting[x] = "waiting"
        /\ \A q \in Procs \ {p} : pc'[q] = pc[q]
    BY <1>0, <1>6 DEF Others
  <2>2. ASSUME pc[x] \in {"recheck_val", "sleep"}, Release(p),
               count >= LW_VAL_EXCLUSIVE \/ pc[p] = "release"
        PROVE  pc'[p] = "wake"
    BY <1>0, <2>1, <2>2, ReleaseWakes DEF Local
  <2>3. VarWatched(x)'
    BY <1>0, <1>2, <1>3, <1>5, <2>1, <2>2 DEF VarWatched
  <2>4. pc[x] = "sleep" =>
          \/ count >= LW_VAL_EXCLUSIVE /\ val = call[x].old
          \/ \E q \in Procs : pc[q] \in {"release", "wake", "collect", "update", "collect_var"}
    BY <2>1 DEF WakeInv, VarWaiterInformed
  <2> QED BY <1>3, <1>4, <1>5, <2>1, <2>2, <2>3, <2>4
<1>7. CASE x = p
  <2>1. CASE QueueSelf(p)
    <3>1. /\ pc'[p] \in {"clear", "recheck"} /\ call'[p] = call[p]
          /\ pc'[p] = "clear" <=> call[p].kind = "var"
      BY <1>0, <2>1 DEF QueueSelf, Goto
    <3> QED BY <1>7, <3>1 DEF VarWatched
  <2>2. CASE ~QueueSelf(p)
    <3>1. waiting[p] = "waiting" /\ OwesWait(p)
      <4>1. waiting[p] = "waiting"
        BY <1>0, <1>1, <1>7, <2>2 DEF Step, Attempt, ReadState, ReadVar, WaitListLock, ClearWake,
             Recheck, SemaphoreLock, DequeueSelf, Release, Awaken, SemaphoreUnlock,
             Signal, Begin, SetVar
      <4> QED BY <1>0, <4>1 DEF Local
    <3>2. UNCHANGED call
      <4>1. ~Return(p, 0) /\ ~Return(p, 1) BY <1>0, <1>7 DEF Return, NoCall
      <4>2. pc[p] \notin {"idle", "attempt"} BY <3>1 DEF OwesWait
      <4> QED BY <1>1, <2>2, <4>1, <4>2 DEF Step, Attempt, ReadState, ReadVar, WaitListLock,
             ClearWake, Recheck, SemaphoreLock, DequeueSelf, Release, Awaken, SemaphoreUnlock,
             Signal, Begin, SetVar, NoWait, Continue
    <3>3. \/ ReadState(p) /\ pc[p] = "recheck"
          \/ ReadVar(p) /\ pc[p] = "recheck_val"
          \/ ClearWake(p, "clear", "recheck") \/ WaitListLock(p, "dequeue", "unlink")
          \/ UNCHANGED <<pc, count, val>>
      BY <1>0, <1>1, <1>7, <2>2, <3>1, <3>2 DEF Step, Attempt, ReadState, ReadVar, WaitListLock,
             ClearWake, Recheck, SemaphoreLock, DequeueSelf, Release, Awaken, SemaphoreUnlock,
             Signal, Begin, SetVar, Local, OwesWait, Awakened, lockVars
    <3>4. CASE ReadState(p) /\ pc[p] = "recheck"
      BY <1>0, <1>n, <1>2, <1>7, <3>1, <3>2, <3>4
         DEF ReadState, NoWait, Continue, Goto, VarWatched, lockVars
    <3>5. CASE ReadVar(p) /\ pc[p] = "recheck_val"
      BY <1>0, <1>2, <1>7, <3>1, <3>2, <3>5
         DEF ReadVar, NoWait, Continue, Goto, VarWatched, lockVars
    <3>6. CASE ClearWake(p, "clear", "recheck") \/ WaitListLock(p, "dequeue", "unlink")
      BY <1>0, <1>2, <1>7, <3>1, <3>2, <3>6 DEF ClearWake, WaitListLock, Goto, VarWatched
    <3>7. CASE UNCHANGED <<pc, count, val>>
      BY <1>0, <1>2, <1>7, <3>1, <3>2, <3>7 DEF VarWatched, WakeInv, VarWaiterInformed
    <3> QED BY <3>3, <3>4, <3>5, <3>6, <3>7
  <2> QED BY <2>1, <2>2
<1> QED BY <1>6, <1>7

(* An attempt that fails has seen a holder.                                  *)
LEMMA FailedAttempt ==
    ASSUME HoldersInv, NEW mode, ~LockFree(mode)
    PROVE  \E q \in Procs : held[q] # "no"
<1>1. Holders("S") \in SUBSET Procs /\ LW_VAL_EXCLUSIVE > 0
  BY LWLockAssumption DEF Holders, LW_VAL_EXCLUSIVE
<1>2. count # 0 BY <1>1 DEF LockFree
<1>3. Holders("X") # {} \/ Holders("S") # {}
  BY <1>2, FS_EmptySet DEF HoldersInv, CountExact
<1> QED BY <1>3 DEF Holders

(* Those who sleep stay watched.                                             *)
LEMMA WatchedStep ==
    ASSUME WakeInv, NEW p \in Procs, NEW x \in Procs,
           Moves(p),
           pc'[x] = "sleep", waiting'[x] = "waiting"
    PROVE  Watched'
<1>0. /\ pc \in [Procs -> Locations] /\ call \in [Procs -> Call \cup {NoCall}]
      /\ held \in [Procs -> {"no", "S", "X"}]
      /\ waiting \in [Procs -> {"no", "waiting", "pending"}] /\ ListsInv /\ Others(p)
      /\ HoldersInv /\ \A q \in Procs : Local(q)
  BY OthersStay DEF WakeInv, BalanceInv, ListsInv, HoldersInv, Types, Fields
<1>1. \A q \in Procs : q # p => held'[q] = held[q] /\ pc'[q] = pc[q]
  BY <1>0 DEF Others
<1>5. \A q \in Procs : q # p /\ Tries(q) => Tries(q)'
  BY <1>0 DEF Others, Tries
<1>6. ASSUME NEW q \in Procs,
             held'[q] # "no" \/ pc'[q] \in {"wake", "collect"} \/ Tries(q)'
      PROVE  Watched'
  BY <1>6 DEF Watched
<1>2. CASE Release(p)
  <2>1. x # p /\ pc[x] = "sleep" /\ waiting[x] = "waiting"
    BY <1>0, <1>2 DEF Release, Goto, Others
  <2>2. CASE \E q \in Procs \ {p} : held[q] # "no" BY <1>1, <1>6, <2>2
  <2>3. CASE ~\E q \in Procs \ {p} : held[q] # "no"
    <3>1. count' = 0
      <4>1. Holders("X")' = {} /\ Holders("S")' = {}
        BY <1>0, <1>1, <1>2, <2>3 DEF Holders, Release
      <4> QED BY <1>0, <1>2, <4>1, ReleaseCounts, FS_EmptySet DEF CountExact
    <3>2. hasWaiters
      <4>1. Lists BY <1>0 DEF ListsInv
      <4>2. PICK i \in DOMAIN queue : queue[i] = x BY <2>1, <4>1 DEF Lists
      <4> QED BY <4>1, <4>2 DEF Lists
    <3>3. CASE ~wip
      <4>1. pc'[p] = "wake" BY <1>0, <1>2, <3>1, <3>2, <3>3 DEF Release, CheckWaiters, Goto
      <4> QED BY <4>1 DEF Watched
    <3>4. CASE wip
      <4>1. PICK q \in Procs : Clears(q) BY <3>4 DEF WakeInv
      <4>2. q # p BY <1>2, <4>1 DEF Clears, Release
      <4>3. Tries(q) \/ held[q] # "no" BY <1>0, <4>1 DEF Clears, Tries, Local
      <4> QED BY <1>1, <1>5, <1>6, <4>2, <4>3
    <3> QED BY <3>3, <3>4
  <2> QED BY <2>2, <2>3
<1>3. CASE Wakeup(p)
  <2>1. /\ waiting[x] = "waiting" /\ x \notin Woken
    BY <1>0, <1>3 DEF Wakeup, Unlink
  <2>2. PICK q \in Woken : WaitMode(q) # "F" BY <1>0, <2>1, LockerWoken
  <2>3. q \in Procs /\ waiting[q] = "waiting"
    <3>1. Lists /\ queue \in Seq(Procs) BY <1>0 DEF ListsInv, Fields
    <3>2. PICK i \in DOMAIN queue : queue[i] = q BY WokenQueued
    <3>3. q \in Procs BY <3>1, <3>2
    <3> QED BY <3>1, <3>2, <3>3 DEF Lists
  <2>4. /\ call[q].kind = "acquire" /\ UNCHANGED call /\ waiting'[q] = "pending"
        /\ pc[q] \in {"recheck", "sleep", "dequeue", "unlink"}
    BY <1>0, <1>3, <2>2, <2>3 DEF WaitMode, Local, OwesWait, Wakeup, Unlink
  <2>5. q # p BY <1>3, <2>4 DEF Wakeup
  <2>6. Tries(q)' \/ held'[q] # "no"
    BY <1>0, <1>1, <2>3, <2>4, <2>5 DEF Tries, Local
  <2> QED BY <2>3, <2>6 DEF Watched
<1>4. CASE ~Release(p) /\ ~Wakeup(p)
  <2>1. ASSUME \E q \in Procs : held[q] # "no" PROVE Watched'
    <3>1. held'[p] = held[p] \/ Take(p)
      BY <1>4 DEF Step, Attempt, ReadState, ReadVar, WaitListLock, QueueSelf, ClearWake,
         Recheck, SemaphoreLock, DequeueSelf, UpdateVar, Awaken, SemaphoreUnlock,
         Signal, Begin, SetVar
    <3>2. Take(p) => held'[p] # "no"
      BY <1>0 DEF Take, Call, NoCall
    <3> QED BY <1>1, <1>6, <2>1, <3>1, <3>2
  <2>2. ASSUME \E q \in Procs : pc[q] \in {"wake", "collect"} PROVE Watched'
    <3>1. pc[p] \in {"wake", "collect"} => UNCHANGED pc \/ WaitListLock(p, "wake", "collect")
      BY <1>4 DEF Step, Attempt, ReadState, ReadVar, WaitListLock, QueueSelf, ClearWake,
         Recheck, SemaphoreLock, DequeueSelf, Release, UpdateVar, Awaken, SemaphoreUnlock,
         Signal, Begin, SetVar
    <3>2. pc[p] \in {"wake", "collect"} => pc'[p] \in {"wake", "collect"}
      BY <1>0, <3>1 DEF WaitListLock, Goto
    <3> QED BY <1>1, <1>6, <2>2, <3>2
  <2>3. ASSUME Attempt(p) \/ Recheck(p) PROVE Watched'
    <3>1. CASE Take(p)
      BY <1>0, <3>1 DEF Take, Call, NoCall, Watched
    <3>2. CASE ~Take(p)
      BY <2>1, <2>3, <3>2, FailedAttempt, <1>0 DEF Attempt, Recheck
    <3> QED BY <3>1, <3>2
  <2>4. ASSUME Tries(p) PROVE Watched'
    <3>1. CASE Attempt(p) \/ Recheck(p) BY <2>3, <3>1
    <3>2. CASE ~(Attempt(p) \/ Recheck(p))
      <4>1. \/ SemaphoreLock(p) \/ ClearWake(p, "retry", "attempt")
            \/ UNCHANGED <<pc, call, waiting>>
        BY <1>4, <2>4, <3>2 DEF Tries, Step, ReadState, ReadVar, WaitListLock, QueueSelf,
           ClearWake, DequeueSelf, Release, UpdateVar, Awaken, SemaphoreUnlock,
           Signal, Begin, SetVar
      <4>2. Tries(p)'
        BY <1>0, <2>4, <4>1 DEF Tries, SemaphoreLock, ClearWake, Goto, Awakened
      <4> QED BY <4>2 DEF Watched
    <3> QED BY <3>1, <3>2
  <2>5. ASSUME Watched PROVE Watched'
    <3>1. PICK q \in Procs : held[q] # "no" \/ pc[q] \in {"wake", "collect"} \/ Tries(q)
      BY <2>5 DEF Watched
    <3> QED BY <1>5, <1>6, <2>1, <2>2, <2>4, <3>1
  <2>6. CASE pc[x] = "sleep" /\ waiting[x] = "waiting" BY <2>5, <2>6 DEF WakeInv
  <2>7. CASE ~(pc[x] = "sleep" /\ waiting[x] = "waiting")
    <3>1. x = p BY <1>0, <2>7 DEF Others
    <3>2. Recheck(p) \/ ReadVar(p)
      BY <1>0, <1>4, <2>7, <3>1 DEF Step, Attempt, ReadState, NoWait, Continue, Return, Goto,
         WaitListLock, QueueSelf, ClearWake, SemaphoreLock, DequeueSelf, Release,
         UpdateVar, Unlink, Awaken, SemaphoreUnlock, Signal, Begin, SetVar
    <3>3. CASE ReadVar(p)
      <4>1. /\ pc[p] = "recheck_val" /\ call[p].kind = "var" /\ waiting[p] = "waiting"
        BY <1>0, <3>1, <3>3 DEF ReadVar, NoWait, Continue, Return, Goto
      <4>2. CASE count >= LW_VAL_EXCLUSIVE
        <5>1. ~LockFree("S")
          BY <1>0, <4>2, LWLockAssumption DEF LockFree, LW_VAL_EXCLUSIVE, HoldersInv, Types
        <5> QED BY <1>0, <2>1, <5>1, FailedAttempt
      <4>3. CASE ~(count >= LW_VAL_EXCLUSIVE)
        BY <2>2, <4>1, <4>3 DEF WakeInv, VarWatched
      <4> QED BY <4>2, <4>3
    <3> QED BY <2>3, <3>2, <3>3
  <2> QED BY <2>6, <2>7
<1> QED BY <1>2, <1>3, <1>4

(* Those who wait stay watched, whoever moves.                              *)
LEMMA WakeStep == WakeInv /\ [Next]_vars => WakeInv'
<1> SUFFICES ASSUME WakeInv, [Next]_vars PROVE WakeInv'
  OBVIOUS
<1>0. BalanceInv' BY BalanceStep DEF WakeInv
<1>1. ASSUME NEW p \in Procs, Moves(p)
      PROVE  WakeInv'
  <2>1. wip' => \E q \in Procs : Clears(q)' BY <1>1, ClearsStep
  <2>2. ASSUME NEW x \in Procs PROVE VarWatched(x)'
    BY <1>1, VarStep DEF VarWatched
  <2>3. VarWaiterInformed' BY <1>1, VarStep DEF VarWaiterInformed
  <2>4. ASSUME NEW x \in Procs, pc'[x] = "sleep", waiting'[x] = "waiting" PROVE Watched'
    BY <1>1, <2>4, WatchedStep
  <2> QED BY <1>0, <2>1, <2>2, <2>3, <2>4 DEF WakeInv
<1>2. CASE UNCHANGED vars
  BY <1>0, <1>2 DEF WakeInv, VarWaiterInformed, VarWatched, Clears, Tries, Watched,
     vars, lockVars, procVars
<1> QED BY <1>1, <1>2 DEF Next

(* Nobody waits at first.                                                   *)
LEMMA WakeInit == Init => WakeInv
<1> SUFFICES ASSUME Init PROVE WakeInv
  OBVIOUS
<1>1. ~wip /\ \A p \in Procs : pc[p] = "idle" /\ waiting[p] = "no" BY DEF Init
<1> QED BY <1>1, BalanceInit DEF WakeInv, VarWaiterInformed, VarWatched

(* Whoever sleeps in LWLockWaitForVar has nothing to see yet, or is about to *)
(* be awakened, for any number of processes, calls and values.               *)
THEOREM VarWaitersInformed == Spec => []VarWaiterInformed
<1>1. WakeInv => VarWaiterInformed BY DEF WakeInv
<1> QED BY <1>1, WakeInit, WakeStep, PTL DEF Spec

(* No wakeup is lost: it never happens that everybody in a call sleeps while *)
(* nobody holds the lock, for any number of processes, calls and signals.    *)
THEOREM NobodySleepsOnAFreeLock == Spec => []NoLostWakeup
<1>1. WakeInv => NoLostWakeup
  <2> SUFFICES ASSUME WakeInv, NEW p \in Procs, Asleep(p),
                      \A q \in Procs : held[q] = "no" /\ (pc[q] = "idle" \/ Asleep(q))
               PROVE  FALSE
    BY DEF NoLostWakeup
  <2>1. \A q \in Procs : pc[q] \in {"idle", "sleep", "absorb"} BY DEF Asleep
  <2>2. \A q \in Procs : toWake[q] = {} /\ post[q] = {}
    BY <2>1 DEF WakeInv, BalanceInv, ListsInv, Local
  <2>3. ASSUME NEW q \in Procs, Asleep(q) PROVE pc[q] = "sleep" /\ waiting[q] = "waiting"
    <3>1. Posters(q) = {} BY <2>2 DEF Posters
    <3>2. /\ sem[q] = 0 /\ extra[q] \in Nat /\ signals[q] \in Nat
          /\ Cardinality(Posters(q)) = 0 /\ OwesWait(q)
      BY <2>3, <3>1, FS_EmptySet
         DEF Asleep, OwesWait, WakeInv, BalanceInv, ListsInv, Fields
    <3>3. waiting[q] # "no" BY <3>2 DEF WakeInv, BalanceInv, Balance
    <3>4. waiting[q] = "waiting"
      BY <2>2, <3>3 DEF WakeInv, BalanceInv, ListsInv, Lists, Fields
    <3> QED BY <2>3, <3>4 DEF Asleep, WakeInv, BalanceInv, ListsInv, Local
  <2>4. Watched BY <2>3 DEF WakeInv
  <2>5. PICK q \in Procs : Tries(q) BY <2>1, <2>4 DEF Watched
  <2> QED BY <2>1, <2>3, <2>5 DEF Tries
<1> QED BY <1>1, WakeInit, WakeStep, PTL DEF Spec
=============================================================================
