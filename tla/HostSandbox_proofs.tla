------------------------- MODULE HostSandbox_proofs -------------------------
(***************************************************************************)
(* Proofs about HostSandbox, for every value of its constants.             *)
(***************************************************************************)
EXTENDS HostSandbox, FiniteSetTheorems, TLAPS

LEMMA TypedInit == Init => TypeOK
BY DEF Init, TypeOK

LEMMA TypedStep == TypeOK /\ [Next]_vars => TypeOK'
<1> SUFFICES ASSUME TypeOK, [Next]_vars PROVE TypeOK'
  OBVIOUS
<1> USE ProviderAssumption, OwnerAssumption DEF TypeOK
<1>1. ASSUME NEW r \in Runs, Create(r) PROVE TypeOK'
  BY <1>1 DEF Create, CreateBusy, CreateChecks, CreateIdFails, CreateTakesSlot,
              teardown, procs
<1>2. ASSUME NEW q \in Procs, ExecChecks(q) PROVE TypeOK'
  BY <1>2 DEF ExecChecks, slots, teardown
<1>3. ASSUME NEW q \in Procs, ExecSpawned(q) PROVE TypeOK'
  BY <1>3 DEF ExecSpawned, slots, teardown
<1>4. ASSUME NEW q \in Procs,
             ExecSpawnFails(q) \/ ExecSettles(q) \/ ExecAborted(q)
      PROVE  TypeOK'
  BY <1>4 DEF ExecSpawnFails, ExecSettles, ExecAborted, slots, teardown
<1>5. ASSUME NEW q \in Procs, ExecAborts(q) PROVE TypeOK'
  BY <1>5 DEF ExecAborts, slots, teardown
<1>6. ASSUME NEW q \in Procs, ProcExits(q) PROVE TypeOK'
  BY <1>6 DEF ProcExits, slots, teardown
<1>7. ASSUME NEW r \in Runs, NEW c \in Callers, DestroyStarts(r, c)
      PROVE  TypeOK'
  BY <1>7 DEF DestroyStarts, Teardowns, slots, procs
<1>8. ASSUME NEW r \in Runs, NEW c \in Callers, DestroyKills(r, c)
      PROVE  TypeOK'
  <2>1. PICK q \in Procs :
          /\ target' = [target EXCEPT ![<<r, c>>] = q]
          /\ toKill' = [toKill EXCEPT ![<<r, c>>] = @ \ {q}]
          /\ termed' = [termed EXCEPT ![q] = TRUE]
    BY <1>8 DEF DestroyKills, Teardowns
  <2> QED
    BY <1>8, <2>1 DEF DestroyKills, Teardowns, slots
<1>9. ASSUME NEW r \in Runs, NEW c \in Callers, DestroyAwaits(r, c)
      PROVE  TypeOK'
  BY <1>9 DEF DestroyAwaits, Teardowns, slots, procs
<1>10. ASSUME NEW r \in Runs, NEW c \in Callers, DestroyFinishes(r, c)
       PROVE  TypeOK'
  BY <1>10 DEF DestroyFinishes, Teardowns
<1>11. CASE UNCHANGED vars
  BY <1>11 DEF vars, slots, teardown, procs
<1> QED
  BY <1>1, <1>2, <1>3, <1>4, <1>5, <1>6, <1>7, <1>8, <1>9, <1>10, <1>11
  DEF Next, Exec, Destroy

\* Every reachable state of the Host layer is typed: in particular only handles of
\* spawned processes are ever registered.
THEOREM TypedAlways == Spec => []TypeOK
BY TypedInit, TypedStep, PTL DEF Spec

-----------------------------------------------------------------------------
\* The slot of a provider names the sandbox that holds it, is free while a
\* create has passed its check, and only one create is past its check: that is
\* what a switch of fibers inside create would break.
SlotNamesHolder ==
  /\ \A r \in Runs : Holding(r) => activeId[ProviderOf[r]] = r
  /\ \A r \in Runs : phase[r] = "checked" => activeId[ProviderOf[r]] = NoRun
  /\ \A r, s \in Runs :
       phase[r] = "checked" /\ phase[s] = "checked"
       /\ ProviderOf[r] = ProviderOf[s] => r = s

LEMMA SlotInit == Init => SlotNamesHolder
BY DEF Init, SlotNamesHolder, Holding

LEMMA SlotStep ==
  ASSUME ~FiberYields
  PROVE  TypeOK /\ SlotNamesHolder /\ [Next]_vars => SlotNamesHolder'
<1> SUFFICES ASSUME TypeOK, SlotNamesHolder, [Next]_vars
             PROVE  SlotNamesHolder'
  OBVIOUS
<1> USE ProviderAssumption, RunsAssumption DEF TypeOK, SlotNamesHolder, Holding
<1>1. ASSUME NEW r \in Runs, CreateBusy(r) \/ CreateIdFails(r)
      PROVE  SlotNamesHolder'
  BY <1>1 DEF CreateBusy, CreateIdFails, teardown
<1>2. ASSUME NEW r \in Runs, CreateChecks(r) PROVE SlotNamesHolder'
  BY <1>2 DEF CreateChecks, InCreate, teardown
<1>3. ASSUME NEW r \in Runs, CreateTakesSlot(r) PROVE SlotNamesHolder'
  <2>1. \A s \in Runs : s # r /\ ProviderOf[s] = ProviderOf[r] =>
          ~Holding(s) /\ phase[s] # "checked"
    BY <1>3 DEF CreateTakesSlot
  <2> QED
    BY <1>3, <2>1 DEF CreateTakesSlot, teardown
<1>4. ASSUME NEW r \in Runs, NEW c \in Callers, DestroyStarts(r, c)
      PROVE  SlotNamesHolder'
  BY <1>4 DEF DestroyStarts, slots, Teardowns
<1>5. ASSUME NEW r \in Runs, NEW c \in Callers, DestroyFinishes(r, c)
      PROVE  SlotNamesHolder'
  <2>1. /\ phase' = phase
        /\ \A s \in Runs : Holding(s)' => Holding(s) /\ s # r
    BY <1>5 DEF DestroyFinishes, Teardowns
  <2>2. activeId' = [activeId EXCEPT ![ProviderOf[r]] =
                       IF @ = r THEN NoRun ELSE @]
    BY <1>5 DEF DestroyFinishes
  <2> QED
    BY <2>1, <2>2
<1>6. ASSUME UNCHANGED <<slots, down>> PROVE SlotNamesHolder'
  BY <1>6 DEF slots
<1>7. \/ \E q \in Procs : Exec(q) \/ ProcExits(q)
      \/ \E r \in Runs, c \in Callers :
           DestroyKills(r, c) \/ DestroyAwaits(r, c)
      \/ UNCHANGED vars
      => UNCHANGED <<slots, down>>
  BY DEF Exec, ExecChecks, ExecSpawned, ExecSpawnFails, ExecSettles, ExecAborts,
         ExecAborted, ProcExits, DestroyKills, DestroyAwaits, vars, teardown
<1> QED
  BY <1>1, <1>2, <1>3, <1>4, <1>5, <1>6, <1>7 DEF Next, Create, Destroy

\* One active Host sandbox per provider, for any number of runs, processes and
\* racing destroys, if the scheduler does not switch fibers inside create.
THEOREM SlotExclusive ==
  ASSUME ~FiberYields
  PROVE  Spec => []OneActivePerProvider
<1>1. SlotNamesHolder => OneActivePerProvider
  BY DEF SlotNamesHolder, OneActivePerProvider
<1> QED
  BY <1>1, SlotInit, SlotStep, TypedAlways, PTL DEF Spec

-----------------------------------------------------------------------------
\* What the lock sees of the runs.
Answered == {r \in Runs : phase[r] \in {"open", "refused"}}
Over == {r \in Runs : \E c \in Callers : down[<<r, c>>] = "done"}

\* Only a sandbox that was created is destroyed.
DestroysOpen ==
  \A r \in Runs, c \in Callers : down[<<r, c>>] # "idle" => phase[r] = "open"

LEMMA DestroysStep == TypeOK /\ DestroysOpen /\ [Next]_vars => DestroysOpen'
<1> SUFFICES ASSUME TypeOK, DestroysOpen, [Next]_vars PROVE DestroysOpen'
  OBVIOUS
<1> USE DEF TypeOK, DestroysOpen, Teardowns
<1>1. ASSUME NEW r \in Runs, Create(r) PROVE DestroysOpen'
  BY <1>1 DEF Create, CreateBusy, CreateChecks, CreateIdFails, CreateTakesSlot,
              teardown
<1>2. ASSUME NEW r \in Runs, NEW c \in Callers, Destroy(r, c)
      PROVE  DestroysOpen'
  BY <1>2
  DEF Destroy, DestroyStarts, DestroyKills, DestroyAwaits, DestroyFinishes, slots
<1>3. \/ \E q \in Procs : Exec(q) \/ ProcExits(q)
      \/ UNCHANGED vars
      => UNCHANGED <<phase, down>>
  BY DEF Exec, ExecChecks, ExecSpawned, ExecSpawnFails, ExecSettles, ExecAborts,
         ExecAborted, ProcExits, vars, slots, teardown
<1> QED
  BY <1>1, <1>2, <1>3 DEF Next

\* A sandbox whose destroy has ended does not have the slot any more.
OverIsFree == \A r \in Over : activeId[ProviderOf[r]] # r

LEMMA OverStep ==
  TypeOK /\ DestroysOpen /\ OverIsFree /\ [Next]_vars => OverIsFree'
<1> SUFFICES ASSUME TypeOK, DestroysOpen, OverIsFree, [Next]_vars
             PROVE  OverIsFree'
  OBVIOUS
<1> USE ProviderAssumption, RunsAssumption DEF TypeOK, OverIsFree, Over
<1>1. ASSUME NEW r \in Runs, CreateTakesSlot(r) PROVE OverIsFree'
  <2>1. \A c \in Callers : down[<<r, c>>] # "done"
    BY <1>1 DEF CreateTakesSlot, DestroysOpen
  <2> QED
    BY <1>1, <2>1 DEF CreateTakesSlot, teardown
<1>2. ASSUME NEW r \in Runs, NEW c \in Callers, DestroyFinishes(r, c)
      PROVE  OverIsFree'
  <2>1. \A s \in Over' : s # r => s \in Over
    BY <1>2 DEF DestroyFinishes, Teardowns
  <2>2. activeId' = [activeId EXCEPT ![ProviderOf[r]] =
                       IF @ = r THEN NoRun ELSE @]
    BY <1>2 DEF DestroyFinishes
  <2> QED
    BY <2>1, <2>2
<1>3. ASSUME NEW r \in Runs, NEW c \in Callers, DestroyStarts(r, c)
      PROVE  OverIsFree'
  BY <1>3 DEF DestroyStarts, slots, Teardowns
<1>4. ASSUME UNCHANGED <<activeId, down>> PROVE OverIsFree'
  BY <1>4
<1> QED
  BY <1>1, <1>2, <1>3, <1>4
  DEF Next, Create, CreateBusy, CreateChecks, CreateIdFails, Exec, ExecChecks,
      ExecSpawned, ExecSpawnFails, ExecSettles, ExecAborts, ExecAborted,
      ProcExits, Destroy, DestroyKills, DestroyAwaits, slots, teardown, vars

LEMMA LockStep ==
  ASSUME TypeOK, SlotNamesHolder, DestroysOpen, OverIsFree, [Next]_vars
  PROVE  Slot!Next \/ UNCHANGED Slot!vars
<1> USE ProviderAssumption DEF TypeOK, SlotNamesHolder
<1>1. ASSUME UNCHANGED <<phase, activeId, down>> PROVE UNCHANGED Slot!vars
  BY <1>1 DEF Slot!vars
<1>2. ASSUME NEW r \in Runs, CreateBusy(r) \/ CreateIdFails(r)
      PROVE  Slot!Refuse(r)
  <2>1. /\ UNCHANGED <<activeId, down>> /\ r \notin Answered
        /\ phase' = [phase EXCEPT ![r] = "refused"]
    BY <1>2 DEF CreateBusy, CreateIdFails, teardown, Answered
  <2>2. Answered' = Answered \union {r}
    BY <2>1 DEF Answered
  <2>3. UNCHANGED Over
    BY <2>1 DEF Over
  <2> QED
    BY <2>1, <2>2, <2>3 DEF Slot!Refuse, Answered, Over
<1>3. ASSUME NEW r \in Runs, CreateChecks(r) PROVE UNCHANGED Slot!vars
  <2>1. /\ UNCHANGED <<activeId, down>> /\ r \notin Answered
        /\ phase' = [phase EXCEPT ![r] = "checked"]
    BY <1>3 DEF CreateChecks, teardown, Answered
  <2>2. UNCHANGED Answered
    BY <2>1 DEF Answered
  <2> QED
    BY <2>1, <2>2 DEF Slot!vars, Answered
<1>4. ASSUME NEW r \in Runs, CreateTakesSlot(r) PROVE Slot!Acquire(r)
  <2>1. /\ UNCHANGED down /\ r \notin Answered
        /\ phase' = [phase EXCEPT ![r] = "open"]
        /\ activeId[ProviderOf[r]] = NoRun
        /\ activeId' = [activeId EXCEPT ![ProviderOf[r]] = r]
    BY <1>4 DEF CreateTakesSlot, teardown, Answered
  <2>2. Answered' = Answered \union {r}
    BY <2>1 DEF Answered
  <2>3. UNCHANGED Over
    BY <2>1 DEF Over
  <2> QED
    BY <2>1, <2>2, <2>3 DEF Slot!Acquire, Answered, Over
<1>5. ASSUME NEW r \in Runs, NEW c \in Callers, DestroyStarts(r, c)
      PROVE  UNCHANGED Slot!vars
  <2>1. \A s \in Runs, b \in Callers :
          down'[<<s, b>>] = "done" <=> down[<<s, b>>] = "done"
    BY <1>5 DEF DestroyStarts, Teardowns
  <2>2. UNCHANGED slots
    BY <1>5 DEF DestroyStarts
  <2> QED
    BY <2>1, <2>2 DEF slots, Slot!vars
<1>6. ASSUME NEW r \in Runs, NEW c \in Callers, DestroyFinishes(r, c)
      PROVE  Slot!Release(r) \/ UNCHANGED Slot!vars
  <2>1. /\ UNCHANGED phase /\ down' = [down EXCEPT ![<<r, c>>] = "done"]
        /\ activeId' = [activeId EXCEPT ![ProviderOf[r]] =
                          IF @ = r THEN NoRun ELSE @]
        /\ phase[r] = "open" /\ <<r, c>> \in Teardowns
    BY <1>6 DEF DestroyFinishes, DestroysOpen, Teardowns
  <2>2. Over' = Over \union {r}
    <3>1. \A s \in Runs, b \in Callers :
            down'[<<s, b>>] = "done" <=> down[<<s, b>>] = "done" \/ <<s, b>> = <<r, c>>
      BY <2>1 DEF Teardowns
    <3> QED
      BY <3>1 DEF Over
  <2>3. CASE r \in Over
    <3>1. activeId[ProviderOf[r]] # r
      BY <2>3 DEF OverIsFree
    <3>2. activeId' = activeId
      BY <2>1, <3>1
    <3>3. Over' = Over
      BY <2>2, <2>3
    <3> QED
      BY <2>1, <3>2, <3>3 DEF Slot!vars, Over
  <2>4. CASE r \notin Over
    <3>1. activeId[ProviderOf[r]] = r
      BY <2>1, <2>4 DEF Holding, Over
    <3>2. activeId' = [activeId EXCEPT ![ProviderOf[r]] = NoRun]
      BY <2>1, <3>1
    <3> QED
      BY <2>1, <2>2, <2>4, <3>1, <3>2 DEF Slot!Release, Over
  <2> QED
    BY <2>3, <2>4
<1>7. \/ \E q \in Procs : Exec(q) \/ ProcExits(q)
      \/ \E r \in Runs, c \in Callers :
           DestroyKills(r, c) \/ DestroyAwaits(r, c)
      \/ UNCHANGED vars
      => UNCHANGED <<phase, activeId, down>>
  BY DEF Exec, ExecChecks, ExecSpawned, ExecSpawnFails, ExecSettles, ExecAborts,
         ExecAborted, ProcExits, DestroyKills, DestroyAwaits, vars, slots,
         teardown
<1> QED
  <2>1. CASE \E r \in Runs : Create(r)
    BY <1>2, <1>3, <1>4, <2>1 DEF Create, Slot!Next
  <2>2. CASE \E r \in Runs, c \in Callers :
               DestroyStarts(r, c) \/ DestroyFinishes(r, c)
    BY <1>5, <1>6, <2>2 DEF Slot!Next
  <2> QED
    BY <1>1, <1>7, <2>1, <2>2 DEF Next, Destroy

\* Whatever the execs, the processes and the racing destroys do, the Host layer
\* is a lock per provider for its callers (create and releaseSlot), if the
\* scheduler does not switch fibers inside create.
THEOREM LockKept ==
  ASSUME ~FiberYields
  PROVE  Spec => KeepsLock
<1>1. Init => DestroysOpen /\ OverIsFree
  BY DEF Init, DestroysOpen, OverIsFree, Over, Teardowns
<1>2. Init => Slot!Init
  BY DEF Init, Slot!Init, Teardowns
<1>3. TypeOK /\ SlotNamesHolder /\ DestroysOpen /\ OverIsFree /\ [Next]_vars
      => [Slot!Next]_(Slot!vars)
  BY LockStep
<1> QED
  BY <1>1, <1>2, <1>3, SlotInit, SlotStep, DestroysStep, OverStep, TypedAlways,
     PTL DEF Spec, KeepsLock, Slot!Spec

-----------------------------------------------------------------------------
\* The life of an exec call, its process and its registration.
ExecFits ==
  /\ \A q \in Procs : alive[q] => exec[q] \in {"running", "aborting"}
  /\ \A r \in Runs : \A q \in children[r] :
       exec[q] = "running" /\ OwnerOf[q] = r

\* What a destroy call has found registered was spawned, and is dead unless it
\* is still to be killed or being awaited.
KilledAt(d) ==
  /\ \A q \in pending[d] :
       /\ exec[q] \in {"running", "aborting", "settled"}
       /\ alive[q] => q \in toKill[d] \/ q = target[d]
  /\ down[d] # "killing" => target[d] = NoProc /\ toKill[d] = {}

Killed == \A d \in Teardowns : KilledAt(d)

ProcsFit == ExecFits /\ Killed

LEMMA ProcsInit == Init => ProcsFit
BY DEF Init, ProcsFit, ExecFits, Killed, KilledAt

LEMMA ProcsStep == TypeOK /\ ProcsFit /\ [Next]_vars => ProcsFit'
<1> SUFFICES ASSUME TypeOK, ProcsFit, [Next]_vars PROVE ProcsFit'
  OBVIOUS
<1> USE OwnerAssumption, RunsAssumption 
        DEF TypeOK, ProcsFit, ExecFits, Killed, KilledAt
<1>1. ASSUME NEW r \in Runs, Create(r) PROVE ProcsFit'
  BY <1>1 DEF Create, CreateBusy, CreateChecks, CreateIdFails, CreateTakesSlot,
              teardown, procs
<1>2. ASSUME NEW q \in Procs, ExecChecks(q) PROVE ProcsFit'
  BY <1>2 DEF ExecChecks, slots, teardown
<1>3. ASSUME NEW q \in Procs, ExecSpawned(q) PROVE ProcsFit'
  <2>1. \A d \in Teardowns : q \notin pending[d]
    BY <1>3 DEF ExecSpawned
  <2>2. ExecFits'
    BY <1>3 DEF ExecSpawned
  <2>3. Killed'
    BY <1>3, <2>1 DEF ExecSpawned, teardown
  <2> QED
    BY <2>2, <2>3
<1>4. ASSUME NEW q \in Procs,
             ExecSpawnFails(q) \/ ExecSettles(q) \/ ExecAborted(q)
      PROVE  ProcsFit'
  BY <1>4 DEF ExecSpawnFails, ExecSettles, ExecAborted, slots, teardown
<1>5. ASSUME NEW q \in Procs, ExecAborts(q) PROVE ProcsFit'
  <2>1. exec' = [exec EXCEPT ![q] = "aborting"] /\ UNCHANGED <<alive, teardown>>
    BY <1>5 DEF ExecAborts
  <2>2. \A r \in Runs : children'[r] \subseteq children[r] \ {q}
    BY <1>5 DEF ExecAborts
  <2>3. ExecFits'
    BY <2>1, <2>2
  <2>4. Killed'
    BY <2>1 DEF teardown
  <2> QED
    BY <2>3, <2>4
<1>6. ASSUME NEW q \in Procs, ProcExits(q) PROVE ProcsFit'
  <2>1. ExecFits'
    BY <1>6 DEF ProcExits
  <2>2. Killed'
    BY <1>6 DEF ProcExits, teardown
  <2> QED
    BY <2>1, <2>2
<1>7. ASSUME NEW r \in Runs, NEW c \in Callers, DestroyStarts(r, c)
      PROVE  ProcsFit'
  BY <1>7 DEF DestroyStarts, Teardowns, slots, procs
<1>8. ASSUME NEW r \in Runs, NEW c \in Callers, DestroyKills(r, c)
      PROVE  ProcsFit'
  <2> DEFINE e == <<r, c>>
  <2>0. e \in Teardowns
    BY DEF Teardowns
  <2>1. ExecFits'
    BY <1>8 DEF DestroyKills
  <2>2. /\ down[e] = "killing" /\ target[e] = NoProc
        /\ UNCHANGED <<down, pending, exec, alive>>
        /\ \E q \in toKill[e] : /\ target' = [target EXCEPT ![e] = q]
                               /\ toKill' = [toKill EXCEPT ![e] = @ \ {q}]
    BY <1>8 DEF DestroyKills
  <2> HIDE DEF e
  <2>3. ASSUME NEW d \in Teardowns PROVE KilledAt(d)'
    <3>1. PICK q \in toKill[e] : /\ target' = [target EXCEPT ![e] = q]
                                /\ toKill' = [toKill EXCEPT ![e] = @ \ {q}]
      BY <2>2
    <3>2. CASE d = e
      <4>1. target'[e] = q /\ toKill'[e] = toKill[e] \ {q}
        BY <2>0, <3>1
      <4> QED
        BY <2>0, <2>2, <3>2, <4>1
    <3>3. CASE d # e
      BY <2>0, <2>2, <3>1, <3>3
    <3> QED
      BY <3>2, <3>3
  <2> QED
    BY <2>1, <2>3
<1>9. ASSUME NEW r \in Runs, NEW c \in Callers, DestroyAwaits(r, c)
      PROVE  ProcsFit'
  <2> DEFINE e == <<r, c>>
  <2>0. e \in Teardowns
    BY DEF Teardowns
  <2>1. ExecFits'
    BY <1>9 DEF DestroyAwaits, procs
  <2>2. /\ ~alive[target[e]]
        /\ target' = [target EXCEPT ![e] = NoProc]
        /\ UNCHANGED <<down, pending, toKill, exec, alive>>
    BY <1>9 DEF DestroyAwaits, procs
  <2> HIDE DEF e
  <2>3. ASSUME NEW d \in Teardowns PROVE KilledAt(d)'
    BY <2>0, <2>2
  <2> QED
    BY <2>1, <2>3
<1>10. ASSUME NEW r \in Runs, NEW c \in Callers, DestroyFinishes(r, c)
       PROVE  ProcsFit'
  <2> DEFINE e == <<r, c>>
  <2>0. e \in Teardowns
    BY DEF Teardowns
  <2>1. /\ target[e] = NoProc /\ toKill[e] = {}
        /\ down' = [down EXCEPT ![e] = "done"]
        /\ UNCHANGED <<exec, alive, pending, toKill, target>>
    BY <1>10 DEF DestroyFinishes
  <2>2. ExecFits'
    BY <1>10, <2>1 DEF DestroyFinishes
  <2> HIDE DEF e
  <2>3. ASSUME NEW d \in Teardowns PROVE KilledAt(d)'
    BY <2>0, <2>1
  <2> QED
    BY <2>2, <2>3
<1>11. CASE UNCHANGED vars
  BY <1>11 DEF vars, slots, teardown, procs
<1> QED
  BY <1>1, <1>2, <1>3, <1>4, <1>5, <1>6, <1>7, <1>8, <1>9, <1>10, <1>11
  DEF Next, Exec, Destroy

LEMMA ProcsAlways == Spec => []ProcsFit
BY TypedAlways, ProcsInit, ProcsStep, PTL DEF Spec

\* A destroy that has ended outlived every process it found registered, in
\* whatever order processes exit, execs settle and destroys race.
THEOREM DestroyWaits == Spec => []DestroyOutlivesChildren
<1>1. TypeOK /\ ProcsFit => DestroyOutlivesChildren
  BY RunsAssumption
  DEF ProcsFit, Killed, KilledAt, DestroyOutlivesChildren, TypeOK
<1> QED
  BY <1>1, TypedAlways, ProcsAlways, PTL

-----------------------------------------------------------------------------
\* An exec in progress belongs to an open sandbox, on which no destroy has begun
\* unless it raced with its execs.
BusyIsOpen ==
  /\ \A q \in Procs : exec[q] \notin {"idle", "settled"} =>
       /\ phase[OwnerOf[q]] = "open"
       /\ OwnerOf[q] \in raced \/ ~destroyed[OwnerOf[q]]
  /\ \A d \in Teardowns : down[d] # "idle" => destroyed[d[1]]

LEMMA BusyStep == TypeOK /\ BusyIsOpen /\ [Next]_vars => BusyIsOpen'
<1> SUFFICES ASSUME TypeOK, BusyIsOpen, [Next]_vars PROVE BusyIsOpen'
  OBVIOUS
<1> USE OwnerAssumption DEF TypeOK, BusyIsOpen, Teardowns
<1>1. ASSUME NEW r \in Runs, Create(r) PROVE BusyIsOpen'
  BY <1>1 DEF Create, CreateBusy, CreateChecks, CreateIdFails, CreateTakesSlot,
              teardown, procs
<1>2. ASSUME NEW q \in Procs, Exec(q) \/ ProcExits(q) PROVE BusyIsOpen'
  BY <1>2 DEF Exec, ExecChecks, Usable, ExecSpawned, ExecSpawnFails,
              ExecSettles, ExecAborts, ExecAborted, ProcExits, slots, teardown
<1>3. ASSUME NEW r \in Runs, NEW c \in Callers, DestroyStarts(r, c)
      PROVE  BusyIsOpen'
  BY <1>3 DEF DestroyStarts, Quiet, slots, procs
<1>4. ASSUME NEW r \in Runs, NEW c \in Callers,
             DestroyKills(r, c) \/ DestroyAwaits(r, c)
      PROVE  BusyIsOpen'
  BY <1>4 DEF DestroyKills, DestroyAwaits, slots, procs
<1>5. ASSUME NEW r \in Runs, NEW c \in Callers, DestroyFinishes(r, c)
      PROVE  BusyIsOpen'
  BY <1>5 DEF DestroyFinishes
<1>6. CASE UNCHANGED vars
  BY <1>6 DEF vars, slots, teardown, procs
<1> QED
  BY <1>1, <1>2, <1>3, <1>4, <1>5, <1>6 DEF Next, Destroy

LEMMA BusyAlways == Spec => []BusyIsOpen
<1>1. Init => BusyIsOpen
  BY DEF Init, BusyIsOpen, Teardowns
<1> QED
  BY <1>1, BusyStep, TypedAlways, PTL DEF Spec

\* No process of an earlier sandbox that was destroyed while quiet runs beside
\* the one that holds the slot, not even one that ignores SIGTERM.
THEOREM NoLeftovers ==
  ASSUME ~FiberYields
  PROVE  Spec => []QuietLeavesNothing
<1>1. TypeOK /\ ProcsFit /\ BusyIsOpen /\ OneActivePerProvider
        => QuietLeavesNothing
  <2> SUFFICES ASSUME TypeOK, ProcsFit, BusyIsOpen, OneActivePerProvider,
                      NEW q \in Procs, NEW r \in Runs, OwnerOf[q] \notin raced,
                      alive[q], Holding(r),
                      ProviderOf[OwnerOf[q]] = ProviderOf[r]
               PROVE  OwnerOf[q] = r
    BY DEF QuietLeavesNothing, Beside
  <2>1. OwnerOf[q] \in Runs
    BY OwnerAssumption
  <2>2. phase[OwnerOf[q]] = "open" /\ ~destroyed[OwnerOf[q]]
    BY DEF ProcsFit, ExecFits, BusyIsOpen
  <2>3. \A c \in Callers : down[<<OwnerOf[q], c>>] = "idle"
    BY <2>1, <2>2 DEF BusyIsOpen, Teardowns
  <2>4. Holding(OwnerOf[q])
    BY <2>2, <2>3 DEF Holding
  <2> QED
    BY <2>1, <2>4 DEF OneActivePerProvider
<1> QED
  BY <1>1, BusyAlways, SlotExclusive, ProcsAlways, TypedAlways, PTL

-----------------------------------------------------------------------------
\* The course of one destroy. How many of its own steps a destroy that has begun
\* still takes:
DestroyLeft(d) ==
  2 * Cardinality(toKill[d]) + (IF target[d] = NoProc THEN 0 ELSE 1)
    + (IF down[d] = "done" THEN 0 ELSE 1)

CourseOf(d) == <<down[d], toKill[d], target[d]>>

DestroyGetsNearer ==
  [][\A d \in Teardowns : down[d] = "killing" =>
       UNCHANGED CourseOf(d) \/ DestroyLeft(d)' < DestroyLeft(d)]_vars

LEMMA KillsNearer ==
  ASSUME IsFiniteSet(Procs), TypeOK, NEW r \in Runs, NEW c \in Callers,
         DestroyKills(r, c)
  PROVE  DestroyLeft(<<r, c>>)' < DestroyLeft(<<r, c>>)
<1> DEFINE d == <<r, c>>
<1>1. d \in Teardowns
  BY DEF Teardowns
<1>2. PICK q \in toKill[d] : /\ target' = [target EXCEPT ![d] = q]
                             /\ toKill' = [toKill EXCEPT ![d] = @ \ {q}]
  BY DEF DestroyKills
<1>3. down[d] = "killing" /\ down'[d] = "killing" /\ target[d] = NoProc
  BY DEF DestroyKills
<1>4. toKill[d] \subseteq Procs /\ toKill'[d] = toKill[d] \ {q} /\ target'[d] = q
  BY <1>1, <1>2 DEF TypeOK
<1>5. q # NoProc
  BY <1>2, <1>4, RunsAssumption
<1>6. IsFiniteSet(toKill[d])
  BY <1>4, FS_Subset
<1>7. /\ Cardinality(toKill[d]) \in Nat
      /\ Cardinality(toKill'[d]) = Cardinality(toKill[d]) - 1
  BY <1>2, <1>4, <1>6, FS_RemoveElement, FS_CardinalityType
<1>8. /\ DestroyLeft(d) = 2 * Cardinality(toKill[d]) + 1
      /\ DestroyLeft(d)' = 2 * Cardinality(toKill'[d]) + 1 + 1
  BY <1>3, <1>4, <1>5, <1>7 DEF DestroyLeft
<1> HIDE DEF d
<1>9. \A n, m \in Int : m = n - 1 => 2 * m + 1 + 1 < 2 * n + 1
  OBVIOUS
<1>10. Cardinality(toKill'[d]) \in Int
  BY <1>7
<1>11. DestroyLeft(d)' < DestroyLeft(d)
  BY <1>7, <1>8, <1>9, <1>10
<1> QED
  BY <1>11 DEF d

\* Every step of a destroy, whoever called it and whatever execs and processes do
\* meanwhile, brings it nearer to its end: it kills each handle of its snapshot
\* once, awaits it once and gives the slot back (destroy in sandbox-provider.ts).
THEOREM DestroyAlwaysGetsNearer ==
  ASSUME IsFiniteSet(Procs)
  PROVE  Spec => DestroyGetsNearer
<1>1. ASSUME TypeOK, [Next]_vars, NEW d \in Teardowns, down[d] = "killing"
      PROVE  UNCHANGED CourseOf(d) \/ DestroyLeft(d)' < DestroyLeft(d)
  <2> USE <1>1
  <2> USE DEF CourseOf
  <2>1. ASSUME NEW r \in Runs, Create(r) PROVE UNCHANGED CourseOf(d)
    BY <2>1 DEF Create, CreateBusy, CreateChecks, CreateIdFails, CreateTakesSlot,
                teardown
  <2>2. ASSUME NEW q \in Procs, Exec(q) \/ ProcExits(q) PROVE UNCHANGED CourseOf(d)
    BY <2>2 DEF Exec, ExecChecks, ExecSpawned, ExecSpawnFails, ExecSettles,
                ExecAborts, ExecAborted, ProcExits, teardown
  <2>3. ASSUME NEW r \in Runs, NEW c \in Callers, Destroy(r, c), d # <<r, c>>
        PROVE  UNCHANGED CourseOf(d)
    BY <2>3 DEF Destroy, DestroyStarts, DestroyKills, DestroyAwaits,
                DestroyFinishes, TypeOK
  <2>4. ASSUME NEW r \in Runs, NEW c \in Callers, Destroy(r, c), d = <<r, c>>
        PROVE  DestroyLeft(d)' < DestroyLeft(d)
    <3>1. IsFiniteSet(toKill[d])
      BY FS_Subset DEF TypeOK
    <3>2. Cardinality(toKill[d]) \in Nat
      BY <3>1, FS_CardinalityType
    <3>3. ~DestroyStarts(r, c)
      BY <2>4 DEF DestroyStarts
    <3>4. CASE DestroyKills(r, c)
      BY <2>4, <3>4, KillsNearer
    <3>5. CASE DestroyAwaits(r, c)
      <4>1. target[d] # NoProc /\ target'[d] = NoProc /\ UNCHANGED <<down, toKill>>
        BY <2>4, <3>5 DEF DestroyAwaits, TypeOK
      <4> QED
        BY <3>2, <4>1 DEF DestroyLeft
    <3>6. CASE DestroyFinishes(r, c)
      <4>1. down'[d] = "done" /\ UNCHANGED <<target, toKill>>
        BY <2>4, <3>6 DEF DestroyFinishes, TypeOK
      <4> QED
        BY <3>2, <4>1 DEF DestroyLeft
    <3> QED
      BY <2>4, <3>3, <3>4, <3>5, <3>6 DEF Destroy
  <2>5. UNCHANGED vars => UNCHANGED CourseOf(d)
    BY DEF vars, teardown
  <2> QED
    BY <2>1, <2>2, <2>3, <2>4, <2>5 DEF Next
<1>2. TypeOK /\ [Next]_vars =>
        [\A d \in Teardowns : down[d] = "killing" =>
           UNCHANGED CourseOf(d) \/ DestroyLeft(d)' < DestroyLeft(d)]_vars
  BY <1>1
<1> QED
  BY <1>2, TypedAlways, PTL DEF Spec, DestroyGetsNearer

-----------------------------------------------------------------------------
\* What a destroy awaits has been sent SIGTERM.
Signalled == \A d \in Teardowns : target[d] # NoProc => termed[target[d]]

LEMMA SignalledStep == TypeOK /\ Signalled /\ [Next]_vars => Signalled'
<1> SUFFICES ASSUME TypeOK, Signalled, [Next]_vars PROVE Signalled'
  OBVIOUS
<1> USE DEF TypeOK, Signalled
<1>1. ASSUME NEW r \in Runs, NEW c \in Callers, DestroyKills(r, c)
      PROVE  Signalled'
  <2>1. PICK q \in toKill[<<r, c>>] :
          /\ target' = [target EXCEPT ![<<r, c>>] = q]
          /\ termed' = [termed EXCEPT ![q] = TRUE]
    BY <1>1 DEF DestroyKills
  <2>2. q \in Procs
    BY <2>1 DEF Teardowns
  <2> QED
    BY <2>1, <2>2
<1>2. ASSUME NEW r \in Runs, NEW c \in Callers,
             DestroyStarts(r, c) \/ DestroyAwaits(r, c) \/ DestroyFinishes(r, c)
      PROVE  Signalled'
  BY <1>2 DEF DestroyStarts, DestroyAwaits, DestroyFinishes, procs
<1>3. ASSUME UNCHANGED target,
             \A q \in Procs : termed[q] => termed'[q]
      PROVE  Signalled'
  BY <1>3
<1>4. ASSUME NEW r \in Runs, Create(r) PROVE Signalled'
  BY <1>3, <1>4 DEF Create, CreateBusy, CreateChecks, CreateIdFails,
                    CreateTakesSlot, teardown, procs
<1>5. ASSUME NEW q \in Procs, Exec(q) \/ ProcExits(q) PROVE Signalled'
  BY <1>3, <1>5 DEF Exec, ExecChecks, ExecSpawned, ExecSpawnFails, ExecSettles,
                    ExecAborts, ExecAborted, ProcExits, teardown
<1>6. CASE UNCHANGED vars
  BY <1>3, <1>6 DEF vars, teardown, procs
<1> QED
  BY <1>1, <1>2, <1>4, <1>5, <1>6 DEF Next, Destroy

\* Whatever a destroy waits for has been sent SIGTERM first (the kill loop in
\* sandbox-provider.ts). As the guards of its other steps ask for nothing outside the
\* destroy, it is a process that ignores the signal, or none, that holds one up.
THEOREM AwaitedIsSignalled == Spec => []Signalled
<1>1. Init => Signalled
  BY DEF Init, Signalled
<1> QED
  BY <1>1, SignalledStep, TypedAlways, PTL DEF Spec
=============================================================================
