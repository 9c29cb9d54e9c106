--------------------------- MODULE LauncherProofs ---------------------------
(* What the launcher promises of its registry, for every set of databases    *)
(* and of registrations and any number of outages.                           *)
EXTENDS Launcher, TLAPS

\* First-order reasoning does for most steps, arithmetic for the others.
USE ZenonT(10), SMTT(30)

(* A reload clears gave_up and nothing else of a registry entry.             *)
LEMMA ClearedFacts ==
    ASSUME NEW e \in Entry, reload \in BOOLEAN
    PROVE  /\ Cleared(e) \in Entry
           /\ Cleared(e).known = e.known /\ Cleared(e).handle = e.handle
           /\ ~reload => Cleared(e).gaveUp = e.gaveUp
           /\ reload => ~Cleared(e).gaveUp
  BY DEF Cleared, Entry

(* An entry the launcher writes anew.                                        *)
LEMMA EntryTyped ==
    ASSUME NEW g \in BOOLEAN, NEW h \in Workers \cup {None}
    PROVE  [known |-> TRUE, active |-> TRUE, gaveUp |-> g, handle |-> h] \in Entry
  BY DEF Entry

(* What one cycle of SchedulerLauncherMain makes of a registry entry.        *)
LEMMA NewEntryFacts ==
    ASSUME TypeOK, NEW d \in Databases, NEW b \in BOOLEAN,
           NEW h \in Workers \cup {None}
    PROVE  /\ NewEntry(d, b, h) \in Entry
           /\ b /\ ToStart(d) => NewEntry(d, b, h).handle = h
           /\ b /\ entry[d].handle # None /\ ~Stopped(d)
                => NewEntry(d, b, h).handle = entry[d].handle
           /\ b /\ NewEntry(d, b, h).handle = None => NewEntry(d, b, h).gaveUp
<1>1. entry[d] \in Entry /\ reload \in BOOLEAN
  BY DEF TypeOK
<1> DEFINE c == Cleared(entry[d])
<1>2. /\ c \in Entry /\ c.known = entry[d].known /\ c.handle = entry[d].handle
      /\ ~reload => c.gaveUp = entry[d].gaveUp
      /\ reload => ~c.gaveUp
  BY <1>1, ClearedFacts
<1>3. CASE ~b
  <2>1. NewEntry(d, b, h) = [c EXCEPT !.active = FALSE, !.handle = None]
    BY <1>3 DEF NewEntry
  <2> HIDE DEF c
  <2> QED BY <1>2, <1>3, <2>1 DEF Entry
<1>4. CASE b /\ ToStart(d)
  <2> DEFINE g == h = None
  <2>1. NewEntry(d, b, h) = [known |-> TRUE, active |-> TRUE, gaveUp |-> g, handle |-> h]
    BY <1>4 DEF NewEntry
  <2>2. c.handle = None /\ g \in BOOLEAN /\ (h = None => g)
    BY <1>4 DEF ToStart
  <2> HIDE DEF c, g
  <2>3. NewEntry(d, b, h) \in Entry
    BY <2>1, <2>2, EntryTyped
  <2>4. NewEntry(d, b, h).handle = h
    BY <2>1
  <2>5. NewEntry(d, b, h).gaveUp = g
    BY <2>1
  <2> QED BY <1>2, <1>4, <2>2, <2>3, <2>4, <2>5
<1>5. CASE b /\ ~ToStart(d) /\ Stopped(d) /\ ~c.gaveUp
  <2>1. NewEntry(d, b, h) = [known |-> TRUE, active |-> TRUE, gaveUp |-> TRUE, handle |-> None]
    BY <1>5 DEF NewEntry
  <2> HIDE DEF c
  <2>2. NewEntry(d, b, h) \in Entry
    BY <2>1, EntryTyped
  <2>3. NewEntry(d, b, h).gaveUp
    BY <2>1
  <2> QED BY <1>5, <2>2, <2>3
<1>6. CASE b /\ ~ToStart(d) /\ ~(Stopped(d) /\ ~c.gaveUp)
  <2>1. NewEntry(d, b, h) = [c EXCEPT !.active = TRUE]
    BY <1>6 DEF NewEntry
  <2>2. c.handle = None => c.gaveUp
    BY <1>6 DEF ToStart
  <2> HIDE DEF c
  <2> QED BY <1>2, <1>6, <2>1, <2>2 DEF Entry
<1> QED BY <1>3, <1>4, <1>5, <1>6

(* A cycle leaves no scheduler that is on the books without a handle.        *)
LEMMA CycleKeeps ==
    ASSUME TypeOK, RegistryInv, LauncherCycle
    PROVE  TypeOK' /\ RegistryInv'
<1> DEFINE list == IF reload THEN file ELSE guc
           ours == {d \in list : ToStart(d)}
           unused == {w \in Workers : worker[w].st = "unused"}
<1>1. PICK started \in [ours -> unused \cup {None}] :
        /\ \A c, d \in DOMAIN started :
             started[c] = started[d] /\ started[c] # None => c = d
        /\ entry' = [d \in Databases |->
              NewEntry(d, d \in list, IF d \in DOMAIN started THEN started[d] ELSE None)]
        /\ worker' = [w \in Workers |->
              IF \E d \in DOMAIN started : started[d] = w
              THEN [db |-> CHOOSE d \in DOMAIN started : started[d] = w, st |-> "pending"]
              ELSE worker[w]]
  BY DEF LauncherCycle
<1>2. /\ up /\ term' = term \cup Terminated(list) /\ guc' = list /\ reload' = FALSE
      /\ UNCHANGED <<file, up, lost, outages>>
  BY DEF LauncherCycle
<1>3. list \subseteq Databases /\ DOMAIN started = ours /\ ours \subseteq list
  BY DEF TypeOK
<1> DEFINE new(d) == IF d \in ours THEN started[d] ELSE None
<1>4. \A d \in Databases : new(d) \in Workers \cup {None} /\ (d \in list) \in BOOLEAN
  OBVIOUS
<1>5. \A d \in Databases : entry'[d] = NewEntry(d, d \in list, new(d))
  BY <1>1, <1>3
<1>6. ASSUME NEW d \in Databases
      PROVE  /\ entry'[d] \in Entry
             /\ d \in ours => entry'[d].handle = started[d]
             /\ d \in list /\ entry[d].handle # None /\ ~Stopped(d)
                  => entry'[d].handle = entry[d].handle
             /\ d \in list /\ entry'[d].handle = None => entry'[d].gaveUp
  <2> DEFINE b == d \in list
             h == new(d)
  <2>1. b \in BOOLEAN /\ h \in Workers \cup {None} /\ entry'[d] = NewEntry(d, b, h)
    BY <1>4, <1>5
  <2>2. (d \in list <=> b) /\ (d \in ours => b /\ ToStart(d) /\ started[d] = h)
    OBVIOUS
  <2> HIDE DEF b, h
  <2>3. /\ NewEntry(d, b, h) \in Entry
        /\ b /\ ToStart(d) => NewEntry(d, b, h).handle = h
        /\ b /\ entry[d].handle # None /\ ~Stopped(d)
             => NewEntry(d, b, h).handle = entry[d].handle
        /\ b /\ NewEntry(d, b, h).handle = None => NewEntry(d, b, h).gaveUp
    BY <2>1, NewEntryFacts
  <2> HIDE DEF list, ours
  <2> QED BY <2>1, <2>2, <2>3
<1>7. ASSUME NEW w \in Workers, NEW d \in ours, started[d] = w
      PROVE  worker'[w].db = d /\ worker'[w].st = "pending" /\ worker'[w] \in Worker
  <2>1. w # None
    BY LauncherAssumption
  <2>2. (CHOOSE c \in ours : started[c] = w) = d
    BY <1>1, <1>3, <1>7, <2>1
  <2>3. worker'[w] = [db |-> d, st |-> "pending"]
    BY <1>1, <1>3, <1>7, <2>2
  <2> QED BY <1>3, <2>3 DEF Worker
<1>8. ASSUME NEW w \in Workers, ~\E d \in ours : started[d] = w
      PROVE  worker'[w] = worker[w]
  BY <1>1, <1>3, <1>8
<1> HIDE DEF list, ours, unused, new
<1>9. TypeOK'
  <2>1. entry' \in [Databases -> Entry]
    BY <1>1, <1>6
  <2>2. worker' \in [Workers -> Worker]
    <3>1. \A w \in Workers : worker'[w] \in Worker
      BY <1>7, <1>8 DEF TypeOK
    <3> QED BY <1>1, <3>1
  <2>3. Terminated(list) \subseteq Workers
    BY DEF Terminated, TypeOK, Entry
  <2> QED BY <1>2, <1>3, <2>1, <2>2, <2>3 DEF TypeOK
<1>10. ASSUME NEW w \in Workers, worker'[w].st # "unused"
       PROVE  worker'[w].db \in Databases
  BY <1>3, <1>7, <1>8, <1>10 DEF RegistryInv
<1>11. ASSUME NEW w \in Workers, worker'[w].st \in {"pending", "running"},
              w \notin term' \cup lost'
       PROVE  entry'[worker'[w].db].handle = w
  <2>1. CASE \E d \in ours : started[d] = w
    BY <1>3, <1>6, <1>7, <2>1
  <2>2. CASE ~\E d \in ours : started[d] = w
    <3> DEFINE d == worker[w].db
    <3>1. worker'[w] = worker[w] /\ OnTheBooks(w) /\ d \in Databases
      BY <1>8, <1>11, <2>2 DEF OnTheBooks, RegistryInv
    <3>2. entry[d].handle = w /\ w # None
      BY <1>2, <1>11, <3>1, LauncherAssumption DEF RegistryInv, NoStrayScheduler
    <3>3. d \in list
      BY <1>2, <1>11, <3>1, <3>2 DEF Terminated
    <3>4. ~Stopped(d)
      BY <3>1, <3>2 DEF Stopped
    <3> QED BY <1>6, <3>1, <3>2, <3>3, <3>4
  <2> QED BY <2>1, <2>2
<1>12. NoStrayScheduler'
  BY <1>11 DEF NoStrayScheduler, OnTheBooks
<1>13. \A d \in guc' : entry'[d].known /\ entry'[d].handle = None => entry'[d].gaveUp
  BY <1>2, <1>3, <1>6
<1> QED BY <1>2, <1>9, <1>10, <1>12, <1>13 DEF RegistryInv

(* Every other step changes the registry only when the launcher goes down.   *)
LEMMA OthersKeep ==
    ASSUME TypeOK, RegistryInv,
           \/ \E list \in SUBSET Databases : Reload(list)
           \/ \E w \in Workers : WorkerNext(w)
           \/ LauncherError \/ LauncherRestart \/ ServerCrash \/ UNCHANGED vars
    PROVE  TypeOK' /\ RegistryInv'
<1>1. CASE \E list \in SUBSET Databases : Reload(list)
  <2>1. TypeOK'
    BY <1>1 DEF Reload, TypeOK
  <2>2. UNCHANGED <<guc, up, entry, worker, term, lost>>
    BY <1>1 DEF Reload
  <2> QED BY <2>1, <2>2 DEF RegistryInv, NoStrayScheduler, OnTheBooks
<1>2. CASE \E w \in Workers : WorkerNext(w)
  <2>1. PICK w \in Workers : WorkerNext(w)
    BY <1>2
  <2>2. /\ OnTheBooks(w) /\ UNCHANGED <<file, guc, reload, up, entry, term, lost, outages>>
        /\ \E st \in {"running", "gone"} : worker' = [worker EXCEPT ![w].st = st]
    BY <2>1 DEF WorkerNext, WorkerStart, WorkerStop, WorkerQuits, OnTheBooks
  <2>3. PICK st \in {"running", "gone"} : worker' = [worker EXCEPT ![w].st = st]
    BY <2>2
  <2>4. /\ worker' \in [Workers -> Worker]
        /\ \A v \in Workers : worker'[v].db = worker[v].db
        /\ \A v \in Workers \ {w} : worker'[v] = worker[v]
    BY <2>3 DEF TypeOK, Worker
  <2>5. TypeOK'
    BY <2>2, <2>4 DEF TypeOK
  <2>6. NoStrayScheduler'
    BY <2>2, <2>4 DEF RegistryInv, NoStrayScheduler, OnTheBooks
  <2>7. \A v \in Workers : worker'[v].st # "unused" => worker'[v].db \in Databases
    BY <2>2, <2>4 DEF RegistryInv, OnTheBooks
  <2> QED BY <2>2, <2>5, <2>6, <2>7 DEF RegistryInv
<1>3. NoEntry \in Entry /\ ~NoEntry.known
  BY DEF NoEntry, Entry
<1>4. CASE LauncherError \/ ServerCrash
  <2>1. /\ entry' = [d \in Databases |-> NoEntry] /\ up' = FALSE
        /\ UNCHANGED <<file, guc, reload, term>> /\ outages' \in 0 .. MaxOutages
    BY <1>4, LauncherAssumption DEF LauncherError, ServerCrash, TypeOK
  <2>2. \A d \in Databases : entry'[d] = NoEntry
    BY <2>1
  <2>3. CASE LauncherError
    <3>1. /\ UNCHANGED worker
          /\ lost' = lost \cup ({entry[d].handle : d \in Databases} \ {None})
      BY <2>3 DEF LauncherError
    <3>2. lost' \subseteq Workers
      BY <3>1 DEF TypeOK, Entry
    <3>3. \A w \in Workers : OnTheBooks(w) => w \in term' \cup lost'
      BY <2>1, <3>1, LauncherAssumption DEF RegistryInv, NoStrayScheduler, OnTheBooks
    <3>4. TypeOK'
      BY <1>3, <2>1, <3>1, <3>2 DEF TypeOK
    <3>5. NoStrayScheduler'
      BY <3>1, <3>3 DEF NoStrayScheduler, OnTheBooks
    <3> QED BY <1>3, <2>1, <2>2, <3>1, <3>4, <3>5 DEF RegistryInv, TypeOK
  <2>4. CASE ServerCrash
    <3>1. /\ UNCHANGED lost
          /\ worker' = [w \in Workers |-> IF OnTheBooks(w)
                                          THEN [worker[w] EXCEPT !.st = "gone"]
                                          ELSE worker[w]]
      BY <2>4 DEF ServerCrash
    <3>2. ASSUME NEW w \in Workers
          PROVE  /\ worker'[w] \in Worker /\ worker'[w].db = worker[w].db
                 /\ worker'[w].st \notin {"pending", "running"}
                 /\ worker'[w].st # "unused" => worker[w].st # "unused"
      <4> DEFINE r == worker[w]
      <4>1. r \in Worker
        BY DEF TypeOK
      <4>2. CASE OnTheBooks(w)
        <5>1. worker'[w] = [r EXCEPT !.st = "gone"] /\ r.st # "unused"
          BY <3>1, <4>2 DEF OnTheBooks
        <5> HIDE DEF r
        <5>2. worker'[w] \in Worker /\ worker'[w].db = r.db /\ worker'[w].st = "gone"
          BY <4>1, <5>1 DEF Worker
        <5> QED BY <5>1, <5>2 DEF r
      <4>3. CASE ~OnTheBooks(w)
        BY <3>1, <4>1, <4>3 DEF OnTheBooks
      <4> QED BY <4>2, <4>3
    <3>3. TypeOK'
      BY <1>3, <2>1, <3>1, <3>2 DEF TypeOK
    <3>4. NoStrayScheduler'
      BY <3>2 DEF NoStrayScheduler, OnTheBooks
    <3> QED BY <1>3, <2>1, <2>2, <3>2, <3>3, <3>4 DEF RegistryInv, TypeOK
  <2> QED BY <1>4, <2>3, <2>4
<1>5. CASE LauncherRestart
  <2>1. /\ ~up /\ up' = TRUE /\ guc' = file /\ reload' = FALSE
        /\ UNCHANGED <<file, entry, worker, term, lost, outages>>
    BY <1>5 DEF LauncherRestart
  <2>2. TypeOK'
    BY <2>1 DEF TypeOK
  <2> QED BY <2>1, <2>2 DEF RegistryInv, NoStrayScheduler, OnTheBooks, TypeOK
<1>6. CASE UNCHANGED vars
  <2>1. UNCHANGED <<file, guc, reload, up, entry, worker, term, lost, outages>>
    BY <1>6 DEF vars
  <2> QED BY <2>1 DEF TypeOK, RegistryInv, NoStrayScheduler, OnTheBooks
<1> QED BY <1>1, <1>2, <1>4, <1>5, <1>6

(* Without a reload the launcher starts only what it has not known before.   *)
LEMMA StartsOnlyNew ==
    ASSUME TypeOK, RegistryInv, [Next]_vars,
           NEW w \in Workers, worker[w].st = "unused", worker'[w].st = "pending",
           entry[worker'[w].db].known
    PROVE  reload
<1>1. SUFFICES ASSUME ~reload PROVE FALSE
  OBVIOUS
<1>2. CASE LauncherCycle
  <2> DEFINE list == IF reload THEN file ELSE guc
             unused == {v \in Workers : worker[v].st = "unused"}
  <2>1. PICK started \in [{d \in list : ToStart(d)} -> unused \cup {None}] :
          worker' = [v \in Workers |->
              IF \E d \in DOMAIN started : started[d] = v
              THEN [db |-> CHOOSE d \in DOMAIN started : started[d] = v, st |-> "pending"]
              ELSE worker[v]]
    BY <1>2 DEF LauncherCycle
  <2>2. PICK d \in DOMAIN started : started[d] = w
    BY <2>1
  <2>3. worker'[w].db \in DOMAIN started
    BY <2>1, <2>2
  <2>4. PICK c \in guc : c = worker'[w].db /\ ToStart(c)
    BY <1>1, <2>3
  <2>5. c \in Databases /\ entry[c] \in Entry
    BY DEF TypeOK
  <2>6. entry[c].handle = None /\ ~entry[c].gaveUp
    BY <1>1, <2>4 DEF ToStart, Cleared
  <2> QED BY <2>4, <2>6 DEF RegistryInv
<1>3. CASE ~LauncherCycle
  BY <1>3 DEF Next, vars, Reload, WorkerNext, WorkerStart, WorkerStop, WorkerQuits,
     LauncherError, LauncherRestart, ServerCrash, OnTheBooks, TypeOK, Worker
<1> QED BY <1>2, <1>3

(* The launcher keeps the handle of every scheduler it may have to stop, and *)
(* a database it knows gets another one only when a reload was taken in:     *)
(* scheduler_launcher.c's registry, whatever its size and its outages.       *)
THEOREM LauncherCorrect ==
    Spec => [](TypeOK /\ NoStrayScheduler) /\ RestartNeedsReload
<1>1. Init => TypeOK /\ RegistryInv
  <2>1. SUFFICES ASSUME Init PROVE TypeOK /\ RegistryInv
    OBVIOUS
  <2>2. NoEntry \in Entry /\ NoWorker \in Worker
    BY DEF NoEntry, Entry, NoWorker, Worker
  <2>3. TypeOK
    <3>1. file \subseteq Databases /\ guc \subseteq Databases /\ term = {} /\ lost = {}
      BY <2>1 DEF Init
    <3>2. reload \in BOOLEAN /\ up \in BOOLEAN
      BY <2>1 DEF Init
    <3>3. entry \in [Databases -> Entry] /\ worker \in [Workers -> Worker]
      BY <2>1, <2>2 DEF Init
    <3>4. outages \in 0 .. MaxOutages
      BY <2>1, LauncherAssumption DEF Init
    <3> QED BY <3>1, <3>2, <3>3, <3>4 DEF TypeOK
  <2>4. \A w \in Workers : worker[w].st = "unused"
    BY <2>1 DEF Init, NoWorker
  <2>5. \A d \in Databases : ~entry[d].known
    BY <2>1 DEF Init, NoEntry
  <2> QED BY <2>1, <2>3, <2>4, <2>5 DEF Init, RegistryInv, NoStrayScheduler, OnTheBooks
<1>2. TypeOK /\ RegistryInv /\ [Next]_vars => TypeOK' /\ RegistryInv'
  BY CycleKeeps, OthersKeep DEF Next
<1>3. RegistryInv => NoStrayScheduler
  BY DEF RegistryInv
<1>4. TypeOK /\ RegistryInv /\ [Next]_vars =>
        [\A w \in Workers :
            /\ worker[w].st = "unused" /\ worker'[w].st = "pending"
            /\ entry[worker'[w].db].known
            => reload]_vars
  BY StartsOnlyNew
<1> QED BY <1>1, <1>2, <1>3, <1>4, PTL DEF Spec, RestartNeedsReload

(* A scheduler that stopped by itself is started again only after a reload,  *)
(* for any number of databases and workers.                                  *)
THEOREM RestartsNeedReload == Spec => RestartNeedsReload
BY LauncherCorrect, PTL
=============================================================================
