--------------------- MODULE ObjectSetControllerProofs ---------------------
(***************************************************************************)
(* Proofs about the object set controller, for any number of releases,     *)
(* manifests, resources and goroutines.  What is known of the lock table   *)
(* and of the register carries over: every step of the controller is one   *)
(* that their proofs cover, or leaves them alone.                          *)
(***************************************************************************)
EXTENDS ObjectSetController, LockTableProofs, ObjectSetRegisterProofs

Budget == [calls : 0 .. MaxCalls, edits : 0 .. MaxEdits, failures : 0 .. MaxFailures]

\* What the controller has of its own.
OwnTypeOK ==
  /\ queue \subseteq SetKey
  /\ worker \in [SetKey -> Work]
  /\ cluster \in [Resource -> Content]
  /\ pending \subseteq Resource
  /\ purging \in [Thread -> SUBSET Resource]
  /\ budget \in Budget
  /\ intent \in [SetKey -> ObjectSet \cup {NoObjects}]

\* An OnChange has the state that it applies, and the set that it is about to lock.
WorkerOK(work) ==
  /\ work.pc \in {"unlock", "check", "scope", "read"} => work.obj \in Ptr
  /\ work.pc = "lock" => work.os \in ObjectSet

WorkersOK == \A key \in SetKey : WorkerOK(worker[key])

ControllerInv ==
  /\ TableInv
  /\ RegisterInv
  /\ OwnTypeOK
  /\ WorkersOK

\* What a step does to the two parts.
PartsStep ==
  /\ TableInv'
  /\ RegisterInv'
  /\ CurrentForm
  /\ [TableNext]_tableVars

-----------------------------------------------------------------------------
\* The workers hold at most one state for each key.
LEMMA HeldAffordable == ASSUME OwnTypeOK PROVE Affordable(Held)
<1> DEFINE f == [key \in SetKey |-> worker[key].obj]
<1>1. Held = {f[key] : key \in SetKey}
  BY DEF Held
<1>2. DOMAIN f = SetKey /\ f = [key \in SetKey |-> f[key]]
  OBVIOUS
<1>3. Held \subseteq Ptr \cup {Nil}
  BY DEF Held, OwnTypeOK, Work
<1>4. IsFiniteSet(SetKey)
  BY RegisterAssumption
<1>5. IsFiniteSet(Held) /\ Cardinality(Held) <= Cardinality(SetKey)
  <2> HIDE DEF f
  <2> QED BY <1>1, <1>2, <1>4, ImageBound
<1>6. /\ Cardinality(SetKey) \in Nat /\ Cardinality(Thread) \in Nat /\ Cardinality(Held) \in Nat
      /\ Cap \in Nat /\ MaxPtr \in Nat
  BY <1>4, <1>5, RegisterAssumption, FS_CardinalityType
<1>7. MaxPtr >= 2 * Cardinality(SetKey) + Cap + Cardinality(Thread) + Cardinality(Held)
  BY <1>5, <1>6, ControllerHeapAssumption
<1> QED BY <1>3, <1>5, <1>7 DEF Affordable

\* A resource resolves to a key or to nothing.
LEMMA ResolveType ==
  ASSUME TableInv, NEW res \in Resource
  PROVE  Resolve(keyMap, res) \in SetKey \cup {NoKey}
<1>1. keyMap \in Table
  BY DEF TableInv, TableTypeOK
<1> QED BY <1>1, TableForm DEF Resolve

\* Unlocking a key drops its entries and no others.
LEMMA UnlockStep ==
  ASSUME TableInv, NEW key \in SetKey, UnlockEntries(key)
  PROVE  /\ TableInv' /\ [TableNext]_tableVars
         /\ Entries(keyMap', key) = {}
         /\ \A other \in SetKey : other # key =>
                   Entries(keyMap', other) = Entries(keyMap, other)
<1>1. [TableNext]_tableVars
  BY DEF TableNext
<1>2. keyMap \in Table /\ keyMap' = RemoveAllEntries(keyMap, key)
  BY DEF TableInv, TableTypeOK, UnlockEntries
<1>3. \A res \in Resource :
        Resolve(keyMap', res) = IF Resolve(keyMap, res) = key THEN NoKey ELSE Resolve(keyMap, res)
  BY <1>2, RemoveResolve
<1>4. NoKey \notin SetKey
  BY NamesAssumption
<1> QED BY <1>1, <1>3, <1>4, TableInvStep DEF Entries

\* Locking a set leaves its key with entries of this set only, or as it was, and no other key
\* with more or less than it had.  When every Watch succeeds it is the whole set.
LEMMA LockStep ==
  ASSUME TableInv, NEW key \in SetKey, NEW os \in ObjectSet, LockEntries(key, os)
  PROVE  /\ TableInv' /\ [TableNext]_tableVars
         /\ \/ Entries(keyMap', key) = Entries(keyMap, key)
            \/ /\ Entries(keyMap', key) \subseteq Objects[os]
               /\ FlakyGVK = {} => Entries(keyMap', key) = Objects[os]
         /\ \A other \in SetKey : other # key =>
                   Entries(keyMap', other) = Entries(keyMap, other)
<1>1. [TableNext]_tableVars
  BY DEF TableNext
<1>2. TableInv'
  BY <1>1, TableInvStep
<1>3. Objects[os] \subseteq Resource
  BY LockTableAssumption
<1>4. ASSUME NEW visited \in SUBSET Kinds(os), CanLock(keyMap, key, os),
             keyMap' = Relocked(key, os, visited)
      PROVE  /\ Entries(keyMap', key) = {res \in Objects[os] : res[1] \in visited}
             /\ \A other \in SetKey : other # key =>
                   Entries(keyMap', other) = Entries(keyMap, other)
  <2>1. \A res \in Resource :
          Resolve(keyMap', res) = IF res \in Objects[os] /\ res[1] \in visited THEN key
                                  ELSE IF Resolve(keyMap, res) = key THEN NoKey
                                  ELSE Resolve(keyMap, res)
    BY <1>4, RelockedResolve
  <2>2. \A res \in Objects[os] : Resolve(keyMap, res) \in {key, NoKey}
    BY <1>4 DEF CanLock
  <2>3. NoKey \notin SetKey
    BY NamesAssumption
  <2>4. Entries(keyMap', key) = {res \in Objects[os] : res[1] \in visited}
    BY <1>3, <2>1, <2>3 DEF Entries
  <2>5. \A other \in SetKey : other # key => Entries(keyMap', other) = Entries(keyMap, other)
    BY <2>1, <2>2, <2>3 DEF Entries
  <2> QED BY <2>4, <2>5
<1>5. CASE LockAll(key, os)
  <2>1. CanLock(keyMap, key, os) /\ keyMap' = Relocked(key, os, Kinds(os))
    BY <1>5 DEF LockAll, Relocked
  <2>2. {res \in Objects[os] : res[1] \in Kinds(os)} = Objects[os]
    BY DEF Kinds
  <2> QED BY <1>1, <1>2, <1>4, <2>1, <2>2
<1>6. CASE LockPart(key, os)
  <2>1. FlakyGVK # {} /\ CanLock(keyMap, key, os)
    BY <1>6 DEF LockPart
  <2>2. PICK visited \in SUBSET Kinds(os) : keyMap' = Relocked(key, os, visited)
    <3>1. PICK gvk \in Kinds(os), before \in SUBSET Kinds(os) :
            keyMap' = AddEntries(RemoveAllEntries(keyMap, key), key, os, before \cup {gvk})
      BY <1>6 DEF LockPart
    <3>2. before \cup {gvk} \in SUBSET Kinds(os)
      BY <3>1
    <3> QED BY <3>1, <3>2 DEF Relocked
  <2> QED BY <1>1, <1>2, <1>4, <2>1, <2>2
<1>7. CASE LockRefused(key, os)
  BY <1>1, <1>2, <1>7 DEF LockRefused, tableVars
<1> QED BY <1>5, <1>6, <1>7 DEF LockEntries

\* Nothing happens to the two parts.
LEMMA PartsStutter ==
  ASSUME TableInv, RegisterInv, UNCHANGED tableVars, UNCHANGED registerVars
  PROVE  PartsStep
<1>1. TableInv' /\ [TableNext]_tableVars
  BY TableInvStep
<1> QED BY <1>1, RegisterStutters DEF PartsStep

\* Spending keeps the budget within its bounds.
LEMMA SpendType ==
  ASSUME budget \in Budget, NEW what \in {"calls", "edits", "failures"}, Spend(what)
  PROVE  budget' \in Budget
<1>1. MaxCalls \in Nat /\ MaxEdits \in Nat /\ MaxFailures \in Nat
  BY ControllerAssumption
<1>2. budget' = [budget EXCEPT ![what] = budget[what] - 1] /\ budget[what] > 0
  BY DEF Spend
<1>3. CASE what = "calls"
  BY <1>1, <1>2, <1>3 DEF Budget
<1>4. CASE what = "edits"
  BY <1>1, <1>2, <1>4 DEF Budget
<1>5. CASE what = "failures"
  BY <1>1, <1>2, <1>5 DEF Budget
<1> QED BY <1>3, <1>4, <1>5

\* What is written is content, and what changes is pending.
LEMMA WriteType ==
  ASSUME OwnTypeOK, NEW res \in Resource, NEW content \in Content, Write(res, content)
  PROVE  cluster' \in [Resource -> Content] /\ pending' \subseteq Resource
BY DEF OwnTypeOK, Write

-----------------------------------------------------------------------------
\* A call of the register inside of the controller.
LEMMA GoOnParts ==
  ASSUME ControllerInv, NEW t \in Thread, GoOn(t)
  PROVE  PartsStep
<1> USE DEF ControllerInv
<1>1. call[t] \in Frame /\ call \in [Thread -> Frame]
  BY DEF RegisterInv, RegisterTypeOK
<1>2. Idle \in Frame /\ Idle.pc = "idle"
  BY DEF Idle, Frame, Operations, CallSteps
<1>3. ASSUME NEW pc \in {"list_owned", "delete_owned"}
      PROVE  /\ [call[t] EXCEPT !.pc = pc] \in Frame
             /\ [call[t] EXCEPT !.pc = pc].pc = pc
             /\ [call[t] EXCEPT !.pc = pc].key = call[t].key
  BY <1>1 DEF Frame, CallSteps
<1>4. ASSUME call[t].pc \in {"on_remove", "list_owned", "delete_owned"},
             Return(t) \/ Step(t, "list_owned") \/ Step(t, "delete_owned"),
             UNCHANGED <<stateByKey, heap, mapWriter, stateChanges, store, synced>>
      PROVE  RegisterInv' /\ CurrentForm
  <2>1. call[t].key \in SetKey
    BY <1>4 DEF RegisterInv, FramesOK, Callable
  <2>2. CASE Return(t)
    BY <1>2, <1>4, <2>2, CallbackStep DEF Return
  <2>3. ASSUME NEW pc \in {"list_owned", "delete_owned"}, Step(t, pc)
        PROVE  RegisterInv' /\ CurrentForm
    <3> DEFINE frame == [call[t] EXCEPT !.pc = pc]
    <3>1. call' = [call EXCEPT ![t] = frame]
      BY <1>1, <2>3 DEF Step
    <3>2. frame \in Frame /\ frame.pc = pc /\ frame.key = call[t].key
      BY <1>3
    <3> HIDE DEF frame
    <3>3. frame.pc \in {"idle", "list_owned", "delete_owned"} /\ frame.key \in SetKey
      BY <2>1, <3>2
    <3> QED BY <1>4, <3>1, <3>2, <3>3, CallbackStep
  <2> QED BY <1>4, <2>2, <2>3
<1>5. CASE CallStep(t, Held) /\ UNCHANGED tableVars
  <2>1. RegisterInv' /\ CurrentForm
    BY <1>5, HeldAffordable, CallStepInv
  <2>2. TableInv' /\ [TableNext]_tableVars
    BY <1>5, TableInvStep
  <2> QED BY <2>1, <2>2 DEF PartsStep
<1>6. CASE OnRemove(t)
  <2>1. call[t].pc = "on_remove" /\ call[t].key \in SetKey
    BY <1>6 DEF OnRemove, RegisterInv, FramesOK, Callable
  <2>2. TableInv' /\ [TableNext]_tableVars
    BY <1>6, <2>1, UnlockStep DEF OnRemove
  <2> QED BY <1>4, <1>6, <2>1, <2>2 DEF OnRemove, PartsStep
<1>7. CASE ListOwned(t)
  <2>1. TableInv' /\ [TableNext]_tableVars
    BY <1>7, TableInvStep DEF ListOwned
  <2> QED BY <1>4, <1>7, <2>1 DEF ListOwned, PartsStep
<1>8. ASSUME NEW res \in Resource, DeleteOwned(t, res)
      PROVE  PartsStep
  <2>1. Purged(t, res)
    BY <1>8 DEF DeleteOwned
  <2>2. TableInv' /\ [TableNext]_tableVars
    BY <2>1, TableInvStep DEF Purged
  <2>3. CASE Return(t)
    BY <1>4, <2>1, <2>2, <2>3 DEF Purged, PartsStep
  <2>4. CASE UNCHANGED call
    BY <2>1, <2>2, <2>4, RegisterStutters DEF Purged, PartsStep, registerVars
  <2> QED BY <2>1, <2>3, <2>4 DEF Purged
<1> QED BY <1>5, <1>6, <1>7, <1>8 DEF GoOn, tableVars

\* A call of the release controller is Set, Delete or Unlock.
LEMMA ReleaseCallParts ==
  ASSUME ControllerInv, NEW t \in Thread, NEW key \in SetKey, ReleaseCall(t, key)
  PROVE  PartsStep
<1> USE DEF ControllerInv
<1>1. ASSUME UNCHANGED tableVars
      PROVE  TableInv' /\ [TableNext]_tableVars
  BY <1>1, TableInvStep
<1>2. ASSUME NEW os \in Manifests[key], CallSet(t, key, os)
      PROVE  PartsStep
  <2>1. os \in ObjectSet
    BY ControllerAssumption
  <2> QED BY <1>1, <1>2, <2>1, StartSetStep DEF CallSet, PartsStep
<1>3. ASSUME NEW op \in DeleteOps, CallDelete(t, key, op)
      PROVE  PartsStep
  <2>1. op \in Operations
    BY ControllerAssumption DEF Operations
  <2> QED BY <1>1, <1>3, <2>1, StartDeleteStep DEF CallDelete, PartsStep
<1> QED BY <1>2, <1>3 DEF ReleaseCall

\* An Unlock of the release controller is a step of the lock table alone.
LEMMA CallUnlockParts ==
  ASSUME ControllerInv, NEW key \in SetKey, CallUnlock(key)
  PROVE  PartsStep
<1>1. TableInv' /\ [TableNext]_tableVars
  BY UnlockStep DEF CallUnlock, ControllerInv
<1> QED BY <1>1, RegisterStutters DEF CallUnlock, PartsStep, ControllerInv

\* A change of a resource is handed to Enqueue, or to nobody.
LEMMA DeliverParts ==
  ASSUME ControllerInv, NEW t \in Thread, NEW res \in Resource, Deliver(t, res)
  PROVE  PartsStep
<1> USE DEF ControllerInv
<1>1. UNCHANGED tableVars
  BY DEF Deliver
<1>2. TableInv' /\ [TableNext]_tableVars
  BY <1>1, TableInvStep
<1>3. CASE UNCHANGED registerVars
  BY <1>1, <1>3, PartsStutter
<1>4. CASE Resolve(keyMap, res) # NoKey /\ StartEnqueue(t, Resolve(keyMap, res))
  <2>1. Resolve(keyMap, res) \in SetKey
    BY <1>4, ResolveType
  <2> QED BY <1>2, <1>4, <2>1, StartEnqueueStep DEF PartsStep
<1> QED BY <1>3, <1>4 DEF Deliver

\* And those of a worker.
LEMMA WorkParts ==
  ASSUME ControllerInv, NEW key \in SetKey, WorkStep(key)
  PROVE  PartsStep
<1> USE DEF ControllerInv
<1>1. CASE UnlockForApply(key)
  <2>1. TableInv' /\ [TableNext]_tableVars
    BY <1>1, UnlockStep DEF UnlockForApply
  <2> QED BY <1>1, <2>1, RegisterStutters DEF UnlockForApply, PartsStep
<1>2. CASE LockAfterApply(key)
  <2>1. worker[key].os \in ObjectSet
    BY <1>2 DEF LockAfterApply, WorkersOK, WorkerOK
  <2>2. TableInv' /\ [TableNext]_tableVars
    BY <1>2, <2>1, LockStep DEF LockAfterApply
  <2> QED BY <1>2, <2>2, RegisterStutters DEF LockAfterApply, PartsStep
<1>3. CASE UNCHANGED tableVars /\ UNCHANGED registerVars
  BY <1>3, PartsStutter
<1> QED BY <1>1, <1>2, <1>3 DEF WorkStep, TakeWork, CheckLocked, ConfigureApply, BeginApply,
                                GetToLock, ApplyObject

\* The table and the register only take steps that their own proofs know.
LEMMA PartsInv ==
  ASSUME ControllerInv, [ControllerNext]_controllerVars
  PROVE  PartsStep
<1> USE DEF ControllerInv
<1>1. ASSUME UNCHANGED tableVars
      PROVE  TableInv' /\ [TableNext]_tableVars
  BY <1>1, TableInvStep
<1>2. CASE Start
  BY <1>1, <1>2, RunStep DEF Start, PartsStep
<1>3. CASE ReceiveEvent
  BY <1>1, <1>3, ReceiveStep DEF ReceiveEvent, PartsStep
<1>4. CASE Resync
  BY <1>4, PartsStutter DEF Resync
<1>5. CASE Environment
  <2>1. CASE \E t \in Thread, key \in SetKey : ReleaseCall(t, key)
    BY <2>1, ReleaseCallParts
  <2>2. CASE \E key \in SetKey : CallUnlock(key)
    BY <2>2, CallUnlockParts
  <2>3. CASE \E res \in Resource : \E content : Edit(res, content)
    BY <2>3, PartsStutter DEF Edit
  <2> QED BY <1>5, <2>1, <2>2, <2>3 DEF Environment
<1>6. CASE Failure
  <2>1. CASE \E key \in SetKey, res \in Resource : FailObject(key, res)
    BY <2>1, PartsStutter DEF FailObject
  <2>2. ASSUME NEW t \in Thread, NEW res \in Resource, FailDelete(t, res)
        PROVE  PartsStep
    <3>1. Purged(t, res)
      BY <2>2 DEF FailDelete
    <3>2. CASE UNCHANGED call
      BY <3>1, <3>2, PartsStutter DEF Purged, registerVars
    <3>3. CASE Return(t)
      <4>1. Idle \in Frame /\ Idle.pc = "idle"
        BY DEF Idle, Frame, Operations, CallSteps
      <4>2. RegisterInv' /\ CurrentForm
        BY <3>1, <3>3, <4>1, CallbackStep DEF Purged, Return
      <4> QED BY <1>1, <3>1, <4>2 DEF Purged, PartsStep
    <3> QED BY <3>1, <3>2, <3>3 DEF Purged
  <2> QED BY <1>6, <2>1, <2>2 DEF Failure
<1>7. CASE \E key \in SetKey : WorkStep(key)
  BY <1>7, WorkParts
<1>8. CASE \E t \in Thread : GoOn(t)
  BY <1>8, GoOnParts
<1>9. CASE \E t \in Thread, res \in Resource : Deliver(t, res)
  BY <1>9, DeliverParts
<1>10. CASE UNCHANGED controllerVars
  BY <1>10, PartsStutter DEF controllerVars
<1> QED BY <1>2, <1>3, <1>4, <1>5, <1>6, <1>7, <1>8, <1>9, <1>10 DEF ControllerNext

-----------------------------------------------------------------------------
\* A worker that goes on with a frame of the right kind.
LEMMA WorkTyped ==
  ASSUME OwnTypeOK, WorkersOK, NEW key \in SetKey, NEW work \in Work, WorkerOK(work),
         worker' = [worker EXCEPT ![key] = work]
  PROVE  /\ worker' \in [SetKey -> Work]
         /\ WorkersOK'
         /\ \A other \in SetKey : worker'[other] = IF other = key THEN work ELSE worker[other]
<1>1. worker' \in [SetKey -> Work]
  BY DEF OwnTypeOK
<1>2. \A other \in SetKey : worker'[other] = IF other = key THEN work ELSE worker[other]
  BY DEF OwnTypeOK
<1> QED BY <1>1, <1>2 DEF WorkersOK

\* A worker without work has nothing to respect.
LEMMA NoWorkOK == NoWork \in Work /\ WorkerOK(NoWork) /\ NoWork.pc = "idle"
BY DEF NoWork, Work, WorkSteps, WorkerOK

\* The last step of a worker.
LEMMA FinishTyped ==
  ASSUME OwnTypeOK, WorkersOK, NEW key \in SetKey, FinishWork(key)
  PROVE  /\ worker' \in [SetKey -> Work] /\ WorkersOK' /\ queue' \subseteq SetKey
<1>1. worker' = [worker EXCEPT ![key] = NoWork]
  BY DEF FinishWork
<1>2. queue' \subseteq SetKey
  BY DEF FinishWork, OwnTypeOK
<1> QED BY <1>1, <1>2, NoWorkOK, WorkTyped

\* What the workers have stays of its type.
LEMMA WorkTypes ==
  ASSUME ControllerInv, NEW key \in SetKey, WorkStep(key)
  PROVE  OwnTypeOK' /\ WorkersOK'
<1> USE DEF ControllerInv
<1>1. worker[key] \in Work /\ WorkerOK(worker[key]) /\ heap \in [Ptr -> State]
  BY DEF OwnTypeOK, WorkersOK, RegisterInv, RegisterTypeOK
<1>2. ASSUME NEW work \in Work, WorkerOK(work), worker' = [worker EXCEPT ![key] = work],
             UNCHANGED <<queue, cluster, pending, purging, budget, intent>>
      PROVE  OwnTypeOK' /\ WorkersOK'
  BY <1>2, WorkTyped DEF OwnTypeOK
<1>3. CASE TakeWork(key)
  <2>1. /\ queue' \subseteq SetKey
        /\ UNCHANGED <<cluster, pending, purging, budget, intent>>
    BY <1>3 DEF TakeWork, OwnTypeOK
  <2>2. CASE store[key] = Nil
    <3>1. worker' = worker
      BY <1>3, <2>2 DEF TakeWork
    <3> QED BY <2>1, <3>1 DEF OwnTypeOK, WorkersOK
  <2>3. CASE store[key] # Nil
    <3> DEFINE work == [NoWork EXCEPT !.pc = "unlock", !.obj = store[key]]
    <3>1. worker' = [worker EXCEPT ![key] = work]
      BY <1>3, <2>3 DEF TakeWork
    <3>2. store[key] \in Ptr
      BY <2>3 DEF RegisterInv, RegisterTypeOK
    <3>3. work \in Work /\ WorkerOK(work)
      BY <3>2 DEF NoWork, Work, WorkSteps, WorkerOK
    <3> HIDE DEF work
    <3> QED BY <2>1, <3>1, <3>3, WorkTyped DEF OwnTypeOK
  <2> QED BY <2>2, <2>3
<1>4. CASE UnlockForApply(key)
  <2> DEFINE work == [worker[key] EXCEPT !.pc = "check"]
  <2>1. worker' = [worker EXCEPT ![key] = work] /\ worker[key].pc = "unlock"
    BY <1>4 DEF UnlockForApply, OwnTypeOK
  <2>2. work \in Work /\ WorkerOK(work)
    BY <1>1, <2>1 DEF Work, WorkSteps, WorkerOK
  <2> HIDE DEF work
  <2> QED BY <1>2, <1>4, <2>1, <2>2 DEF UnlockForApply
<1>5. CASE CheckLocked(key)
  <2> DEFINE work == IF heap[worker[key].obj].locked THEN [worker[key] EXCEPT !.pc = "scope"]
                     ELSE NoWork
  <2>1. worker' = [worker EXCEPT ![key] = work] /\ worker[key].pc = "check"
    BY <1>5 DEF CheckLocked, OwnTypeOK
  <2>2. work \in Work /\ WorkerOK(work)
    BY <1>1, <2>1, NoWorkOK DEF Work, WorkSteps, WorkerOK
  <2> HIDE DEF work
  <2> QED BY <1>2, <1>5, <2>1, <2>2 DEF CheckLocked
<1>6. CASE ConfigureApply(key)
  <2> DEFINE os    == heap[worker[key].obj].os
             kinds == IF os = NoObjects THEN GVK ELSE Kinds(os)
             work  == [worker[key] EXCEPT !.pc = "read", !.kinds = kinds]
  <2>1. worker' = [worker EXCEPT ![key] = work] /\ worker[key].pc = "scope"
    BY <1>6 DEF ConfigureApply, OwnTypeOK
  <2>2. os \in ObjectSet \cup {NoObjects}
    BY <1>1, <2>1 DEF WorkerOK, State
  <2>3. kinds \subseteq GVK
    BY <2>2, LockTableAssumption DEF Kinds, Resource
  <2> HIDE DEF kinds, os
  <2>4. work \in Work /\ WorkerOK(work)
    BY <1>1, <2>1, <2>3 DEF Work, WorkSteps, WorkerOK
  <2> HIDE DEF work
  <2> QED BY <1>2, <1>6, <2>1, <2>4 DEF ConfigureApply
<1>7. CASE BeginApply(key)
  <2> DEFINE os    == heap[worker[key].obj].os
             prune == {res \in Owned(key) : res[1] \in worker[key].kinds}
             todo  == ObjectsOf(os) \cup prune
             work  == [worker[key] EXCEPT !.pc = "apply", !.obj = Nil, !.os = os,
                                          !.kinds = {}, !.todo = todo]
  <2>1. worker' = [worker EXCEPT ![key] = work] /\ worker[key].pc = "read"
    BY <1>7 DEF BeginApply, OwnTypeOK
  <2>2. os \in ObjectSet \cup {NoObjects}
    BY <1>1, <2>1 DEF WorkerOK, State
  <2>3. todo \subseteq Resource
    BY <2>2, LockTableAssumption DEF ObjectsOf, Owned
  <2> HIDE DEF todo, os
  <2>4. work \in Work /\ WorkerOK(work)
    BY <1>1, <2>1, <2>2, <2>3 DEF Work, WorkSteps, WorkerOK
  <2> HIDE DEF work
  <2> QED BY <1>2, <1>7, <2>1, <2>4 DEF BeginApply
<1>8. ASSUME NEW res \in Resource, ApplyObject(key, res)
      PROVE  OwnTypeOK' /\ WorkersOK'
  <2> DEFINE work    == [worker[key] EXCEPT !.todo = worker[key].todo \ {res}]
             content == IF res \in ObjectsOf(worker[key].os) THEN AppliedBy(key, worker[key].os)
                        ELSE Absent
  <2>1. /\ worker' = [worker EXCEPT ![key] = work] /\ worker[key].pc = "apply"
        /\ Write(res, content)
        /\ UNCHANGED <<queue, purging, budget, intent>>
    BY <1>8 DEF ApplyObject, OwnTypeOK
  <2>2. work \in Work /\ WorkerOK(work)
    BY <1>1, <2>1 DEF Work, WorkerOK
  <2>3. content \in Content
    BY <1>1 DEF Content, AppliedBy, Absent, Work
  <2> HIDE DEF work, content
  <2>4. cluster' \in [Resource -> Content] /\ pending' \subseteq Resource
    BY <2>1, <2>3, WriteType
  <2> QED BY <2>1, <2>2, <2>4, WorkTyped DEF OwnTypeOK
<1>9. CASE GetToLock(key)
  <2> DEFINE obj == stateByKey[key]
             os  == IF obj = Nil THEN NoObjects ELSE heap[obj].os
             work == [worker[key] EXCEPT !.pc = "lock", !.os = os]
  <2>1. /\ UNCHANGED <<cluster, pending, purging, budget, intent>>
        /\ \/ FinishWork(key)
           \/ os # NoObjects /\ worker' = [worker EXCEPT ![key] = work] /\ UNCHANGED queue
    BY <1>9 DEF GetToLock, OwnTypeOK
  <2>2. CASE FinishWork(key)
    BY <2>1, <2>2, FinishTyped DEF OwnTypeOK
  <2>3. CASE os # NoObjects /\ worker' = [worker EXCEPT ![key] = work] /\ UNCHANGED queue
    <3>1. os \in ObjectSet
      BY <1>1, <2>3 DEF RegisterInv, RegisterTypeOK, State
    <3> HIDE DEF os
    <3>2. work \in Work /\ WorkerOK(work)
      BY <1>1, <3>1 DEF Work, WorkSteps, WorkerOK
    <3> HIDE DEF work
    <3> QED BY <1>2, <2>1, <2>3, <3>2
  <2> QED BY <2>1, <2>2, <2>3
<1>10. CASE LockAfterApply(key)
  <2>1. /\ FinishWork(key) /\ pending' \subseteq Resource
        /\ UNCHANGED <<cluster, purging, budget, intent>>
    BY <1>10 DEF LockAfterApply, OwnTypeOK
  <2> QED BY <2>1, FinishTyped DEF OwnTypeOK
<1> QED BY <1>3, <1>4, <1>5, <1>6, <1>7, <1>8, <1>9, <1>10 DEF WorkStep

\* And what the others have.
LEMMA OwnTypes ==
  ASSUME ControllerInv, [ControllerNext]_controllerVars
  PROVE  OwnTypeOK' /\ WorkersOK'
<1> USE DEF ControllerInv
<1>1. CASE UNCHANGED <<queue, worker, cluster, pending, purging, budget, intent>>
  BY <1>1 DEF OwnTypeOK, WorkersOK
<1>2. CASE ReceiveEvent
  <2>1. Head(stateChanges) \in Event
    BY <1>2 DEF ReceiveEvent, Receive, RegisterInv, RegisterTypeOK
  <2>2. Head(stateChanges).key \in SetKey
    BY <2>1 DEF Event
  <2> QED BY <1>2, <2>2 DEF ReceiveEvent, OwnTypeOK, WorkersOK
<1>3. CASE Resync
  BY <1>3 DEF Resync, OwnTypeOK, WorkersOK
<1>4. ASSUME NEW t \in Thread, NEW key \in SetKey, ReleaseCall(t, key)
      PROVE  OwnTypeOK' /\ WorkersOK'
  <2>1. /\ Spend("calls")
        /\ UNCHANGED <<queue, worker, cluster, pending, purging>>
        /\ intent' = [intent EXCEPT ![key] = NoObjects]
             \/ \E os \in Manifests[key] : intent' = [intent EXCEPT ![key] = os]
    BY <1>4 DEF ReleaseCall, CallSet, CallDelete
  <2>2. Manifests[key] \subseteq ObjectSet
    BY ControllerAssumption
  <2>3. budget' \in Budget
    BY <2>1, SpendType DEF OwnTypeOK
  <2> QED BY <2>1, <2>2, <2>3 DEF OwnTypeOK, WorkersOK
<1>5. ASSUME NEW key \in SetKey, CallUnlock(key)
      PROVE  OwnTypeOK' /\ WorkersOK'
  <2>1. Spend("calls") /\ UNCHANGED <<queue, worker, cluster, pending, purging, intent>>
    BY <1>5 DEF CallUnlock
  <2> QED BY <2>1, SpendType DEF OwnTypeOK, WorkersOK
<1>6. ASSUME NEW res \in Resource, NEW content \in Content, Edit(res, content)
      PROVE  OwnTypeOK' /\ WorkersOK'
  <2>1. /\ Spend("edits") /\ Write(res, content)
        /\ UNCHANGED <<queue, worker, purging, intent>>
    BY <1>6 DEF Edit
  <2>2. budget' \in Budget
    BY <2>1, SpendType DEF OwnTypeOK
  <2> QED BY <2>1, <2>2, WriteType DEF OwnTypeOK, WorkersOK
<1>7. CASE Environment
  <2>1. \A res \in Resource : Absent \in Content /\ [cluster[res] EXCEPT !.data = Drift] \in Content
    BY DEF OwnTypeOK, Absent, Content
  <2> QED BY <1>4, <1>5, <1>6, <1>7, <2>1 DEF Environment
<1>8. ASSUME NEW key \in SetKey, NEW res \in Resource, FailObject(key, res)
      PROVE  OwnTypeOK' /\ WorkersOK'
  <2> DEFINE work == [worker[key] EXCEPT !.todo = worker[key].todo \ {res}, !.failed = TRUE]
  <2>1. /\ Spend("failures") /\ worker[key].pc = "apply"
        /\ worker' = [worker EXCEPT ![key] = work]
        /\ UNCHANGED <<queue, cluster, pending, purging, intent>>
    BY <1>8 DEF FailObject, OwnTypeOK
  <2>2. work \in Work /\ WorkerOK(work)
    BY <2>1 DEF OwnTypeOK, Work, WorkerOK
  <2> HIDE DEF work
  <2>3. budget' \in Budget
    BY <2>1, SpendType DEF OwnTypeOK
  <2> QED BY <2>1, <2>2, <2>3, WorkTyped DEF OwnTypeOK
<1>9. ASSUME NEW t \in Thread, NEW res \in Resource, Purged(t, res)
      PROVE  /\ purging' \in [Thread -> SUBSET Resource]
             /\ UNCHANGED <<queue, worker, intent>>
  BY <1>9 DEF Purged, OwnTypeOK
<1>10. ASSUME NEW t \in Thread, NEW res \in Resource, FailDelete(t, res)
       PROVE  OwnTypeOK' /\ WorkersOK'
  <2>1. Purged(t, res) /\ Spend("failures") /\ UNCHANGED <<cluster, pending>>
    BY <1>10 DEF FailDelete
  <2>2. budget' \in Budget
    BY <2>1, SpendType DEF OwnTypeOK
  <2> QED BY <1>9, <2>1, <2>2 DEF OwnTypeOK, WorkersOK
<1>11. CASE Failure
  BY <1>8, <1>10, <1>11 DEF Failure
<1>12. ASSUME NEW t \in Thread, GoOn(t)
       PROVE  OwnTypeOK' /\ WorkersOK'
  <2>1. CASE ListOwned(t)
    BY <2>1 DEF ListOwned, Owned, OwnTypeOK, WorkersOK
  <2>2. ASSUME NEW res \in Resource, DeleteOwned(t, res)
        PROVE  OwnTypeOK' /\ WorkersOK'
    <3>1. Purged(t, res) /\ Write(res, Absent) /\ UNCHANGED budget
      BY <2>2 DEF DeleteOwned
    <3>2. Absent \in Content
      BY DEF Absent, Content
    <3> QED BY <1>9, <3>1, <3>2, WriteType DEF OwnTypeOK, WorkersOK
  <2> QED BY <1>1, <1>12, <2>1, <2>2 DEF GoOn, OnRemove
<1>13. ASSUME NEW t \in Thread, NEW res \in Resource, Deliver(t, res)
       PROVE  OwnTypeOK' /\ WorkersOK'
  BY <1>13 DEF Deliver, OwnTypeOK, WorkersOK
<1> QED BY <1>1, <1>2, <1>3, <1>7, <1>11, <1>12, <1>13, WorkTypes
        DEF ControllerNext, Start, controllerVars

\* ControllerInv holds when the controller starts.
LEMMA ControllerInitInv == ControllerInit => ControllerInv
<1> SUFFICES ASSUME ControllerInit PROVE ControllerInv
  OBVIOUS
<1>1. TableInv /\ RegisterInv
  BY TableInvInit, RegisterInitInv DEF ControllerInit
<1>2. budget \in Budget
  BY ControllerAssumption DEF ControllerInit, Budget
<1>3. Absent \in Content
  BY DEF Absent, Content
<1>4. OwnTypeOK
  BY <1>2, <1>3, NoWorkOK DEF ControllerInit, OwnTypeOK
<1>5. WorkersOK
  BY NoWorkOK DEF ControllerInit, WorkersOK
<1> QED BY <1>1, <1>4, <1>5 DEF ControllerInv

\* ControllerInv is inductive.
LEMMA ControllerStepInv == ControllerInv /\ [ControllerNext]_controllerVars => ControllerInv'
BY PartsInv, OwnTypes DEF ControllerInv, PartsStep

\* ControllerInv in every state of the controller.
LEMMA ControllerInvariant == ControllerSpec => []ControllerInv
BY ControllerInitInv, ControllerStepInv, PTL DEF ControllerSpec

\* Every part of the controller keeps its type, whatever the release controller, the users and
\* the cluster do.
THEOREM ControllerTypeCorrect == ControllerSpec => []ControllerTypeOK
<1>1. ControllerInv => ControllerTypeOK
  BY DEF ControllerInv, TableInv, RegisterInv, OwnTypeOK, Budget, ControllerTypeOK
<1> QED BY <1>1, ControllerInvariant, PTL

-----------------------------------------------------------------------------
\* A step that the worker of key has no part in: at most it unlocks the key, and once the
\* informer runs, what it serves for the key does not change without the key being queued.
Elsewhere(key) ==
  /\ worker'[key] = worker[key]
  /\ key \in queue => key \in queue'
  /\ Entries(keyMap', key) \in {Entries(keyMap, key), {}}
  /\ \/ store'[key] = store[key] /\ (EventsOf(key) # {} => EventsOf(key)' # {})
     \/ key \in queue'
     \/ ~ synced

\* The steps of OnChange that neither unlock nor lock.
ApplyStep(key) ==
  \/ CheckLocked(key) \/ ConfigureApply(key) \/ BeginApply(key)
  \/ \E res \in Resource : ApplyObject(key, res) \/ FailObject(key, res)

\* A step of the worker inside of OnChange.
Within(key) ==
  /\ ApplyStep(key)
  /\ worker[key].pc \in {"check", "scope", "read", "apply"}
  /\ worker'[key].pc \in {"idle", "scope", "read", "apply"}
  /\ keyMap' = keyMap
  /\ key \in queue => key \in queue'
  /\ UNCHANGED registerVars

\* The register's own steps leave the store alone and take no event off the channel.
LEMMA CallKeeps ==
  ASSUME RegisterInv, NEW t \in Thread, CallStep(t, Held)
  PROVE  store' = store /\ \A key \in SetKey : EventsOf(key) # {} => EventsOf(key)' # {}
<1>1. CASE stateChanges' = stateChanges
  BY <1>1 DEF CallStep, GetOriginal, CopyObjects, CopyLocked, StoreState, Publish, BlockOnSend,
              UnblockSend, RemoveState, ClearObjects, ClearLocked, SendDeleted, EventsOf
<1>2. ASSUME NEW event, stateChanges' = Append(stateChanges, event)
      PROVE  \A key \in SetKey : EventsOf(key) # {} => EventsOf(key)' # {}
  <2>1. stateChanges \in Seq(Event)
    BY DEF RegisterInv, RegisterTypeOK
  <2>2. \A i \in DOMAIN stateChanges :
            i \in DOMAIN stateChanges' /\ stateChanges'[i] = stateChanges[i]
    BY <1>2, <2>1
  <2>3. \A key \in SetKey : EventsOf(key) \subseteq EventsOf(key)'
    BY <2>2 DEF EventsOf
  <2> QED BY <2>3
<1>3. /\ store' = store
      /\ stateChanges' = stateChanges \/ \E event : stateChanges' = Append(stateChanges, event)
  BY DEF CallStep, GetOriginal, CopyObjects, CopyLocked, StoreState, Publish, BlockOnSend,
         UnblockSend, RemoveState, ClearObjects, ClearLocked, SendDeleted
<1> QED BY <1>1, <1>2, <1>3

\* Nor does the start of a call.
LEMMA BeginKeeps ==
  ASSUME NEW t, NEW frame, Begin(t, frame)
  PROVE  store' = store /\ \A key \in SetKey : EventsOf(key) # {} => EventsOf(key)' # {}
BY DEF Begin, EventsOf

\* What a step is for a key: something elsewhere, or the step of its worker.
LEMMA StepOn ==
  ASSUME ControllerInv, [ControllerNext]_controllerVars, NEW key \in SetKey
  PROVE  \/ Elsewhere(key)
         \/ TakeWork(key) \/ UnlockForApply(key) \/ Within(key)
         \/ GetToLock(key) \/ LockAfterApply(key)
<1> USE DEF ControllerInv
<1>1. ASSUME store' = store /\ (EventsOf(key) # {} => EventsOf(key)' # {}),
             worker' = worker, queue' = queue, keyMap' = keyMap
      PROVE  Elsewhere(key)
  BY <1>1 DEF Elsewhere
<1>2. ASSUME UNCHANGED registerVars
      PROVE  store' = store /\ (EventsOf(key) # {} => EventsOf(key)' # {})
  BY <1>2 DEF registerVars, EventsOf
<1>3. CASE Start
  BY <1>3 DEF Start, Run, Elsewhere, tableVars
<1>4. CASE ReceiveEvent
  <2> DEFINE event == Head(stateChanges)
  <2>1. stateChanges \in Seq(Event) /\ stateChanges # <<>> /\ stateChanges' = Tail(stateChanges)
    BY <1>4 DEF ReceiveEvent, Receive, RegisterInv, RegisterTypeOK
  <2>2. event = stateChanges[1]
    BY <2>1
  <2>3. event.key # key /\ EventsOf(key) # {} => EventsOf(key)' # {}
    <3>1. SUFFICES ASSUME event.key # key, NEW i \in EventsOf(key) PROVE EventsOf(key)' # {}
      OBVIOUS
    <3>2. i \in DOMAIN stateChanges
      BY DEF EventsOf
    <3> HIDE DEF event
    <3> QED BY <2>1, <2>2, <3>1, <3>2, EventsAfterReceive
  <2>4. event.key # key => store'[key] = store[key]
    BY <1>4 DEF ReceiveEvent, Receive, RegisterInv, RegisterTypeOK
  <2> QED BY <1>4, <2>3, <2>4 DEF ReceiveEvent, Elsewhere, tableVars
<1>5. CASE Resync
  BY <1>2, <1>5 DEF Resync, Elsewhere, tableVars
<1>6. ASSUME NEW t \in Thread, NEW other \in SetKey, ReleaseCall(t, other)
      PROVE  Elsewhere(key)
  <2>1. (\E frame : Begin(t, frame)) /\ UNCHANGED <<tableVars, queue, worker>>
    BY <1>6 DEF ReleaseCall, CallSet, StartSet, CallDelete, StartDelete
  <2> QED BY <1>1, <2>1, BeginKeeps DEF tableVars
<1>7. ASSUME NEW other \in SetKey, CallUnlock(other)
      PROVE  Elsewhere(key)
  <2>1. Entries(keyMap', key) \in {Entries(keyMap, key), {}}
    BY <1>7, UnlockStep DEF CallUnlock
  <2> QED BY <1>2, <1>7, <2>1 DEF CallUnlock, Elsewhere
<1>8. ASSUME NEW res \in Resource, NEW content, Edit(res, content)
      PROVE  Elsewhere(key)
  BY <1>1, <1>2, <1>8 DEF Edit, tableVars
<1>9. CASE Environment
  BY <1>6, <1>7, <1>8, <1>9 DEF Environment
<1>10. ASSUME NEW other \in SetKey, NEW res \in Resource, FailObject(other, res)
       PROVE  Elsewhere(key) \/ Within(key)
  <2>1. /\ worker[other].pc = "apply" /\ UNCHANGED <<tableVars, registerVars, queue>>
        /\ worker' = [worker EXCEPT ![other].todo = @ \ {res}, ![other].failed = TRUE]
    BY <1>10 DEF FailObject
  <2>2. other # key => worker'[key] = worker[key]
    BY <2>1 DEF OwnTypeOK
  <2>3. other = key => worker'[key].pc = "apply"
    BY <2>1 DEF OwnTypeOK, Work
  <2>4. other = key => ApplyStep(key)
    BY <1>10 DEF ApplyStep
  <2> QED BY <1>2, <2>1, <2>2, <2>3, <2>4 DEF Elsewhere, Within, tableVars
<1>11. ASSUME NEW t \in Thread, NEW res \in Resource, Purged(t, res)
       PROVE  Elsewhere(key)
  BY <1>1, <1>11 DEF Purged, EventsOf, tableVars
<1>12. CASE Failure
  BY <1>10, <1>11, <1>12 DEF Failure, FailDelete
<1>13. ASSUME NEW t \in Thread, GoOn(t)
       PROVE  Elsewhere(key)
  <2>1. CASE CallStep(t, Held) /\ UNCHANGED <<tableVars, queue, worker>>
    BY <1>1, <2>1, CallKeeps DEF tableVars
  <2>2. CASE OnRemove(t)
    <3>1. call[t].key \in SetKey /\ UnlockEntries(call[t].key)
      BY <2>2 DEF OnRemove, RegisterInv, FramesOK, Callable
    <3>2. Entries(keyMap', key) \in {Entries(keyMap, key), {}}
      BY <3>1, UnlockStep
    <3> QED BY <2>2, <3>2 DEF OnRemove, Elsewhere, EventsOf
  <2>3. CASE ListOwned(t)
    BY <1>1, <2>3 DEF ListOwned, EventsOf, tableVars
  <2> QED BY <1>11, <1>13, <2>1, <2>2, <2>3 DEF GoOn, DeleteOwned
<1>14. ASSUME NEW t \in Thread, NEW res \in Resource, Deliver(t, res)
       PROVE  Elsewhere(key)
  <2>1. /\ UNCHANGED <<tableVars, queue, worker>>
        /\ UNCHANGED registerVars \/ \E frame : Begin(t, frame)
    BY <1>14 DEF Deliver, StartEnqueue
  <2> QED BY <1>1, <1>2, <2>1, BeginKeeps DEF tableVars
<1>15. ASSUME NEW other \in SetKey, other # key, WorkStep(other)
       PROVE  Elsewhere(key)
  <2>1. UNCHANGED registerVars
    BY <1>15 DEF WorkStep, TakeWork, UnlockForApply, CheckLocked, ConfigureApply, BeginApply,
                 GetToLock, LockAfterApply, ApplyObject
  <2>2. worker'[key] = worker[key]
    BY <1>15 DEF WorkStep, TakeWork, UnlockForApply, CheckLocked, ConfigureApply, BeginApply,
                 GetToLock, LockAfterApply, ApplyObject, FinishWork, OwnTypeOK
  <2>3. key \in queue => key \in queue'
    BY <1>15 DEF WorkStep, TakeWork, UnlockForApply, CheckLocked, ConfigureApply, BeginApply,
                 GetToLock, LockAfterApply, ApplyObject, FinishWork
  <2>4. Entries(keyMap', key) = Entries(keyMap, key)
    <3>1. CASE UnlockForApply(other)
      BY <1>15, <3>1, UnlockStep DEF UnlockForApply
    <3>2. CASE LockAfterApply(other)
      <4>1. worker[other].os \in ObjectSet
        BY <3>2 DEF LockAfterApply, WorkersOK, WorkerOK
      <4> QED BY <1>15, <3>2, <4>1, LockStep DEF LockAfterApply
    <3>3. CASE keyMap' = keyMap
      BY <3>3
    <3> QED BY <1>15, <3>1, <3>2, <3>3 DEF WorkStep, TakeWork, CheckLocked, ConfigureApply,
                                            BeginApply, GetToLock, ApplyObject, tableVars
  <2> QED BY <1>2, <2>1, <2>2, <2>3, <2>4 DEF Elsewhere
<1>16. CASE CheckLocked(key)
  <2>1. worker'[key].pc \in {"idle", "scope"}
    BY <1>16, NoWorkOK DEF CheckLocked, OwnTypeOK, Work
  <2> QED BY <1>16, <2>1 DEF CheckLocked, Within, ApplyStep, tableVars
<1>17. CASE ConfigureApply(key)
  <2>1. worker'[key].pc = "read"
    BY <1>17 DEF ConfigureApply, OwnTypeOK, Work
  <2> QED BY <1>17, <2>1 DEF ConfigureApply, Within, ApplyStep, tableVars
<1>18. CASE BeginApply(key)
  <2>1. worker'[key].pc = "apply"
    BY <1>18 DEF BeginApply, OwnTypeOK, Work
  <2> QED BY <1>18, <2>1 DEF BeginApply, Within, ApplyStep, tableVars
<1>19. ASSUME NEW res \in Resource, ApplyObject(key, res)
       PROVE  Within(key)
  <2>1. worker'[key].pc = "apply"
    BY <1>19 DEF ApplyObject, OwnTypeOK, Work
  <2> QED BY <1>19, <2>1 DEF ApplyObject, Within, ApplyStep, tableVars
<1>20. CASE UNCHANGED controllerVars
  BY <1>1, <1>2, <1>20 DEF controllerVars, tableVars
<1> QED BY <1>3, <1>4, <1>5, <1>9, <1>12, <1>13, <1>14, <1>15, <1>16, <1>17, <1>18, <1>19, <1>20
        DEF ControllerNext, WorkStep

-----------------------------------------------------------------------------
\* Nobody but the worker of a key locks it, and it has unlocked the key before it applies.
LEMMA UnlockedStep ==
  ASSUME ControllerInv, UnlockedDuringApply, [ControllerNext]_controllerVars
  PROVE  UnlockedDuringApply'
<1> DEFINE applying == {"check", "scope", "read", "apply", "lock"}
<1>1. SUFFICES ASSUME NEW key \in SetKey, worker'[key].pc \in applying
               PROVE  Entries(keyMap', key) = {}
  BY DEF UnlockedDuringApply
<1>2. worker[key].pc \in applying => Entries(keyMap, key) = {}
  BY DEF UnlockedDuringApply
<1>3. CASE Elsewhere(key)
  BY <1>1, <1>2, <1>3 DEF Elsewhere
<1>4. CASE TakeWork(key)
  <2>1. keyMap' = keyMap /\ (worker'[key] = worker[key] \/ worker'[key].pc = "unlock")
    BY <1>4 DEF TakeWork, tableVars, NoWork, ControllerInv, OwnTypeOK
  <2> QED BY <1>1, <1>2, <2>1
<1>5. CASE UnlockForApply(key)
  BY <1>5, UnlockStep DEF UnlockForApply, ControllerInv
<1>6. CASE Within(key)
  BY <1>2, <1>6 DEF Within
<1>7. CASE GetToLock(key)
  BY <1>2, <1>7 DEF GetToLock, tableVars
<1>8. CASE LockAfterApply(key)
  <2>1. worker'[key].pc = "idle"
    BY <1>8, NoWorkOK DEF LockAfterApply, FinishWork, ControllerInv, OwnTypeOK
  <2> QED BY <1>1, <2>1
<1> QED BY <1>3, <1>4, <1>5, <1>6, <1>7, <1>8, StepOn

\* While OnChange applies a set, a change of one of its resources is a change of nothing that is
\* locked, so it makes no Enqueue: whatever releases and goroutines do meanwhile.
THEOREM UnlockedDuringApplyCorrect == ControllerSpec => []UnlockedDuringApply
<1>1. ControllerInit => UnlockedDuringApply
  BY NoWorkOK DEF ControllerInit, UnlockedDuringApply
<1>2. ControllerInv /\ UnlockedDuringApply /\ [ControllerNext]_controllerVars
        => UnlockedDuringApply'
  BY UnlockedStep
<1> QED BY <1>1, <1>2, ControllerInvariant, PTL DEF ControllerSpec

-----------------------------------------------------------------------------
\* The objects that the register holds for key.
Current(key) == heap[stateByKey[key]].os

\* Nothing that would start another OnChange is on its way, and the one that runs has unlocked
\* the key.
Informed(key) == EventsOf(key) = {} /\ key \notin queue /\ worker[key].pc # "unlock"

\* From then on, what is locked is of the current set, and what is going to be locked as well.
LockCurrent(key) ==
  Agreed(key) /\ Informed(key) =>
    /\ Entries(keyMap, key) \subseteq ObjectsOf(Current(key))
    /\ FlakyGVK = {} => Entries(keyMap, key) \in {{}, ObjectsOf(Current(key))}
    /\ worker[key].pc = "lock" => worker[key].os = Current(key)

LocksCurrent == \A key \in SetKey : LockCurrent(key)

\* A key that a step leaves agreed and informed was so before, with the same set, unless the
\* step is the one that unlocks it.
LEMMA InformedBefore ==
  ASSUME ControllerInv, [ControllerNext]_controllerVars, NEW key \in SetKey,
         Agreed(key)', Informed(key)'
  PROVE  /\ Current(key)' = Current(key)
         /\ heap'[stateByKey'[key]] = heap[stateByKey[key]]
         /\ stateByKey'[key] = stateByKey[key]
         /\ (Agreed(key) /\ Informed(key)) \/ UnlockForApply(key)
<1>1. stateByKey'[key] # Nil /\ store'[key] = stateByKey'[key]
  BY DEF Agreed
<1>2. EventsOf(key)' = {} /\ key \notin queue' /\ worker'[key].pc # "unlock"
  BY DEF Informed
<1>3. stateByKey'[key] = stateByKey[key] /\ heap'[stateByKey[key]] = heap[stateByKey[key]]
  BY <1>1, <1>2, PartsInv DEF PartsStep, CurrentForm
<1>4. CASE Elsewhere(key)
  <2>1. synced
    BY <1>1, <1>3 DEF ControllerInv, RegisterInv, QuietBeforeSync
  <2> QED BY <1>1, <1>2, <1>3, <1>4, <2>1 DEF Elsewhere, Agreed, Informed, Current
<1>5. CASE TakeWork(key)
  <2>1. store'[key] = store[key]
    BY <1>5 DEF TakeWork, registerVars
  <2>2. worker'[key].pc = "unlock"
    BY <1>1, <1>5, <2>1 DEF TakeWork, NoWork, ControllerInv, OwnTypeOK
  <2> QED BY <1>2, <2>2
<1>6. CASE Within(key)
  <2>1. worker[key].pc # "unlock" /\ key \notin queue
    BY <1>2, <1>6 DEF Within
  <2>2. store' = store /\ EventsOf(key)' = EventsOf(key)
    BY <1>6 DEF Within, registerVars, EventsOf
  <2> QED BY <1>1, <1>2, <1>3, <2>1, <2>2 DEF Agreed, Informed, Current
<1>7. CASE GetToLock(key) \/ LockAfterApply(key)
  <2>1. worker[key].pc # "unlock" /\ key \notin queue
    BY <1>2, <1>7 DEF GetToLock, LockAfterApply, FinishWork
  <2>2. store' = store /\ EventsOf(key)' = EventsOf(key)
    BY <1>7 DEF GetToLock, LockAfterApply, registerVars, EventsOf
  <2> QED BY <1>1, <1>2, <1>3, <2>1, <2>2 DEF Agreed, Informed, Current
<1>8. CASE UnlockForApply(key)
  BY <1>3, <1>8 DEF Current
<1> QED BY <1>3, <1>4, <1>5, <1>6, <1>7, <1>8, StepOn DEF Current

\* Every step keeps the lock of a key that is at rest in step with the register.
LEMMA LocksCurrentStep ==
  ASSUME ControllerInv, LocksCurrent, [ControllerNext]_controllerVars
  PROVE  LocksCurrent'
<1>1. SUFFICES ASSUME NEW key \in SetKey, Agreed(key)', Informed(key)'
               PROVE  /\ Entries(keyMap', key) \subseteq ObjectsOf(Current(key)')
                      /\ FlakyGVK = {} => Entries(keyMap', key) \in {{}, ObjectsOf(Current(key)')}
                      /\ worker'[key].pc = "lock" => worker'[key].os = Current(key)'
  BY DEF LocksCurrent, LockCurrent, ObjectsOf
<1>2. /\ Current(key)' = Current(key)
      /\ (Agreed(key) /\ Informed(key)) \/ UnlockForApply(key)
  BY <1>1, InformedBefore
<1>3. CASE UnlockForApply(key)
  <2>1. Entries(keyMap', key) = {}
    BY <1>3, UnlockStep DEF UnlockForApply, ControllerInv
  <2>2. worker'[key].pc = "check"
    BY <1>3 DEF UnlockForApply, ControllerInv, OwnTypeOK, Work
  <2> QED BY <2>1, <2>2
<1>4. CASE Agreed(key) /\ Informed(key)
  <2>1. /\ Entries(keyMap, key) \subseteq ObjectsOf(Current(key))
        /\ FlakyGVK = {} => Entries(keyMap, key) \in {{}, ObjectsOf(Current(key))}
        /\ worker[key].pc = "lock" => worker[key].os = Current(key)
    BY <1>4 DEF LocksCurrent, LockCurrent
  <2>2. CASE Elsewhere(key)
    BY <1>2, <2>1, <2>2 DEF Elsewhere
  <2>3. CASE TakeWork(key)
    BY <1>4, <2>3 DEF TakeWork, Informed
  <2>4. CASE Within(key)
    BY <1>2, <2>1, <2>4 DEF Within
  <2>5. CASE GetToLock(key)
    <3>1. stateByKey[key] # Nil /\ keyMap' = keyMap
      BY <1>4, <2>5 DEF Agreed, GetToLock, tableVars
    <3>2. worker'[key].pc = "lock" => worker'[key].os = Current(key)
      BY <2>5, <3>1, NoWorkOK
         DEF GetToLock, FinishWork, Current, ControllerInv, OwnTypeOK, Work
    <3> QED BY <1>2, <2>1, <3>1, <3>2
  <2>6. CASE LockAfterApply(key)
    <3>1. worker[key].os \in ObjectSet /\ worker[key].os = Current(key)
      BY <2>1, <2>6 DEF LockAfterApply, ControllerInv, WorkersOK, WorkerOK
    <3>2. ObjectsOf(Current(key)) = Objects[worker[key].os]
      BY <3>1, RegisterAssumption DEF ObjectsOf
    <3>3. worker'[key].pc = "idle"
      BY <2>6, NoWorkOK DEF LockAfterApply, FinishWork, ControllerInv, OwnTypeOK
    <3>4. \/ Entries(keyMap', key) = Entries(keyMap, key)
          \/ /\ Entries(keyMap', key) \subseteq Objects[worker[key].os]
             /\ FlakyGVK = {} => Entries(keyMap', key) = Objects[worker[key].os]
      BY <2>6, <3>1, LockStep DEF LockAfterApply, ControllerInv
    <3> QED BY <1>2, <2>1, <3>2, <3>3, <3>4
  <2> QED BY <1>3, <2>2, <2>3, <2>4, <2>5, <2>6, StepOn
<1> QED BY <1>2, <1>3, <1>4

\* LocksCurrent in every state of the controller.
LEMMA LocksCurrentInvariant == ControllerSpec => []LocksCurrent
<1>1. ControllerInit => LocksCurrent
  BY DEF ControllerInit, RegisterInit, LocksCurrent, LockCurrent, Agreed
<1>2. ControllerInv /\ LocksCurrent /\ [ControllerNext]_controllerVars => LocksCurrent'
  BY LocksCurrentStep
<1> QED BY <1>1, <1>2, ControllerInvariant, PTL DEF ControllerSpec

\* What the two properties of a key at rest ask is part of LockCurrent.
LEMMA RestingLock ==
  ASSUME LocksCurrent, NEW key \in SetKey, Quiet(key), Agreed(key)
  PROVE  /\ Entries(keyMap, key) \subseteq ObjectsOf(Served(key).os)
         /\ FlakyGVK = {} => Entries(keyMap, key) \in {{}, ObjectsOf(Served(key).os)}
<1>1. Informed(key)
  BY DEF Quiet, Informed
<1>2. Served(key).os = Current(key)
  BY DEF Agreed, Served, Current
<1> QED BY <1>1, <1>2 DEF LocksCurrent, LockCurrent

\* A key at rest has locked resources of the set that the register holds, never of one that a
\* Set, an Enqueue or a Delete replaced while its OnChange was under way.
THEOREM RestingLockIsCurrentCorrect == ControllerSpec => []RestingLockIsCurrent
<1>1. LocksCurrent => RestingLockIsCurrent
  BY RestingLock DEF RestingLockIsCurrent
<1> QED BY <1>1, LocksCurrentInvariant, PTL

\* All of them, or none when another release has one of them, as long as no Watch fails.
THEOREM RestingLockIsWholeCorrect ==
  ASSUME FlakyGVK = {}
  PROVE  ControllerSpec => []RestingLockIsWhole
<1>1. LocksCurrent => RestingLockIsWhole
  BY RestingLock DEF RestingLockIsWhole
<1> QED BY <1>1, LocksCurrentInvariant, PTL

\* Through the whole controller, a release never takes or drops a resource of another.
THEOREM ControllerImplementsOwnership == ControllerSpec => OwnershipSpec
<1>1. ControllerInit => Ownership!Init
  BY DEF ControllerInit, TableInit, Ownership!Init, Resolve
<1>2. ControllerInv /\ [ControllerNext]_controllerVars
        => [Ownership!Next]_([res \in Resource |-> Resolve(keyMap, res)])
  BY PartsInv, OwnershipStep DEF ControllerInv, PartsStep
<1> QED BY <1>1, <1>2, ControllerInvariant, PTL DEF ControllerSpec, OwnershipSpec, Ownership!Spec

\* And the informer of the register serves no state that was replaced, inside the controller too.
THEOREM ServedStateIsCurrent == ControllerSpec => [](NoStaleState /\ LastEventIsCurrent)
<1>1. ControllerInv => NoStaleState /\ LastEventIsCurrent
  BY DEF ControllerInv, RegisterInv
<1> QED BY <1>1, ControllerInvariant, PTL
=============================================================================
