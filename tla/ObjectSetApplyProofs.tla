----------------------- MODULE ObjectSetApplyProofs -----------------------
(***************************************************************************)
(* What the handler makes of the cluster: a proof that a set that is at    *)
(* rest has been applied, for any number of releases whose manifests have  *)
(* no resource in common, and of goroutines, failures and transitions.     *)
(***************************************************************************)
EXTENDS ObjectSetControllerProofs

\* The resources that the release of key may bring, and the objects that a state of it may have.
Reach(key) == UNION {Objects[os] : os \in Manifests[key]}

Own(key) == Manifests[key] \cup {NoObjects}

\* Nobody edits or purges, and no release has a resource of another in a manifest.
Undisturbed ==
  /\ MaxEdits = 0
  /\ "purge" \notin DeleteOps
  /\ \A key, other \in SetKey : key # other => Reach(key) \cap Reach(other) = {}

\* A state that is somebody's for key has objects of key.
OwnState(key, obj) == obj \in Ptr => heap[obj].os \in Own(key)

OwnFrame(frame) ==
  frame.key \in SetKey => OwnState(frame.key, frame.obj) /\ frame.os \in Own(frame.key)

RegisterProvenance ==
  /\ \A key \in SetKey : OwnState(key, stateByKey[key]) /\ OwnState(key, store[key])
  /\ \A i \in DOMAIN stateChanges : OwnState(stateChanges[i].key, stateChanges[i].obj)
  /\ \A t \in Thread : OwnFrame(call[t])

WorkProvenance ==
  \A key \in SetKey : OwnState(key, worker[key].obj) /\ worker[key].os \in Own(key)

Provenance == RegisterProvenance /\ WorkProvenance

\* A release owns and writes nothing but resources of its manifests.
OwnersApart ==
  \A key \in SetKey, res \in Resource :
    /\ cluster[res].owner = key => res \in Reach(key)
    /\ res \in worker[key].todo => res \in Reach(key)

NoPurge ==
  \A t \in Thread : call[t].op # "purge" /\ call[t].pc \notin {"list_owned", "delete_owned"}

IdleBeforeSync ==
  ~ synced => queue = {} /\ \A key \in SetKey : worker[key].pc = "idle" /\ store[key] = Nil

\* Unless the key is queued again, an OnChange that has not read its set yet is about the state
\* that the informer serves.
WorkCurrent ==
  \A key \in SetKey :
    key \notin queue /\ worker[key].pc \in {"unlock", "check", "scope", "read"}
      => worker[key].obj = store[key]

IdleWorkers == \A key \in SetKey : worker[key].pc = "idle" => worker[key] = NoWork

\* The resources of the current set of key, but for those in todo, are as they should be.
AppliedBut(key, todo) ==
  \A res \in Resource :
    res \in ObjectsOf(Current(key)) \ todo => cluster[res] = AppliedBy(key, Current(key))

\* When nothing that would start another OnChange is on its way, the one that runs applies the
\* current set, or the last one has.
ClusterCurrent(key) ==
  Agreed(key) /\ Informed(key) /\ heap[stateByKey[key]].locked /\ Current(key) # NoObjects =>
    /\ worker[key].pc = "apply" => worker[key].os = Current(key)
    /\ worker[key].pc \in {"idle", "apply", "lock"}
         => worker[key].failed \/ AppliedBut(key, worker[key].todo)
    /\ worker[key].pc = "lock" => worker[key].todo = {}

ClustersCurrent == \A key \in SetKey : ClusterCurrent(key)

ApplyInv ==
  /\ Provenance
  /\ OwnersApart
  /\ NoPurge
  /\ IdleBeforeSync
  /\ WorkCurrent
  /\ IdleWorkers

-----------------------------------------------------------------------------
\* What is in a state that somebody refers to changes only when a deletion empties it.
LEMMA HeapKept ==
  ASSUME ControllerInv, [ControllerNext]_controllerVars, NEW p \in Ptr, p \in InUse(Held)
  PROVE  heap'[p].os \in {heap[p].os, NoObjects}
<1>1. CASE heap' = heap
  BY <1>1
<1>2. ASSUME NEW t \in Thread, Publish(t, Held)
      PROVE  heap'[p].os \in {heap[p].os, NoObjects}
  <2>1. \E obj \in Ptr : obj \notin InUse(Held)
    BY <1>2, FreePtr, HeldAffordable DEF Publish, ControllerInv, RegisterInv
  <2> DEFINE obj == CHOOSE new \in Ptr : new \notin InUse(Held)
             next == [os |-> call[t].os, locked |-> call[t].locked]
  <2>2. obj \notin InUse(Held)
    BY <2>1
  <2>3. heap' = [q \in Ptr |-> IF q = obj THEN next
                               ELSE IF q \in InUse(Held) THEN heap[q] ELSE NewState]
    BY <1>2 DEF Publish
  <2> HIDE DEF obj, next
  <2> QED BY <2>2, <2>3
<1>3. ASSUME NEW t \in Thread, ClearObjects(t) \/ ClearLocked(t)
      PROVE  heap'[p].os \in {heap[p].os, NoObjects}
  <2>1. heap[p] \in State /\ heap \in [Ptr -> State]
    BY DEF ControllerInv, RegisterInv, RegisterTypeOK
  <2> QED BY <1>3, <2>1 DEF ClearObjects, ClearLocked, State
<1>4. ASSUME NEW t \in Thread, CallStep(t, Held)
      PROVE  heap'[p].os \in {heap[p].os, NoObjects}
  BY <1>1, <1>2, <1>3, <1>4 DEF CallStep, GetOriginal, CopyObjects, CopyLocked, StoreState,
     BlockOnSend, UnblockSend, RemoveState, SendDeleted
<1>5. ASSUME NEW t \in Thread, GoOn(t)
      PROVE  heap'[p].os \in {heap[p].os, NoObjects}
  BY <1>1, <1>4, <1>5 DEF GoOn, OnRemove, ListOwned, DeleteOwned, Purged
<1>6. ASSUME NEW key \in SetKey, WorkStep(key)
      PROVE  heap' = heap
  BY <1>6 DEF WorkStep, TakeWork, UnlockForApply, CheckLocked, ConfigureApply, BeginApply,
              GetToLock, LockAfterApply, ApplyObject, registerVars
<1>7. CASE Environment
  <2>1. ASSUME NEW t \in Thread, NEW key \in SetKey, ReleaseCall(t, key)
        PROVE  heap' = heap
    BY <2>1 DEF ReleaseCall, CallSet, CallDelete, StartSet, StartDelete, Begin
  <2> QED BY <1>1, <1>7, <2>1 DEF Environment, CallUnlock, Edit, registerVars
<1>8. CASE Failure
  BY <1>1, <1>8 DEF Failure, FailObject, FailDelete, Purged, registerVars
<1>9. ASSUME NEW t \in Thread, NEW res \in Resource, Deliver(t, res)
      PROVE  heap' = heap
  BY <1>9 DEF Deliver, StartEnqueue, Begin, registerVars
<1>10. CASE Start \/ ReceiveEvent \/ Resync \/ UNCHANGED controllerVars
  BY <1>1, <1>10 DEF Start, Run, ReceiveEvent, Receive, Resync, controllerVars, registerVars
<1> QED BY <1>1, <1>5, <1>6, <1>7, <1>8, <1>9, <1>10 DEF ControllerNext

\* So a state that is referred to keeps its provenance.
LEMMA OwnKept ==
  ASSUME ControllerInv, [ControllerNext]_controllerVars, NEW key \in SetKey,
         NEW p \in InUse(Held), OwnState(key, p)
  PROVE  p \in Ptr => heap'[p].os \in Own(key)
BY HeapKept DEF OwnState, Own

\* A step that is over with the frame of one call.
LEMMA OwnedFrame ==
  ASSUME RegisterInv, RegisterProvenance, NEW t \in Thread, NEW frame, OwnFrame(frame),
         call' = [call EXCEPT ![t] = frame],
         UNCHANGED <<stateByKey, heap, stateChanges, store>>
  PROVE  RegisterProvenance'
<1>1. \A u \in Thread : call'[u] = IF u = t THEN frame ELSE call[u]
  BY DEF RegisterInv, RegisterTypeOK
<1>2. \A u \in Thread : call'[u].key \in SetKey =>
        /\ call'[u].obj \in Ptr => heap[call'[u].obj].os \in Own(call'[u].key)
        /\ call'[u].os \in Own(call'[u].key)
  BY <1>1 DEF RegisterProvenance, OwnFrame, OwnState
<1> QED BY <1>2 DEF RegisterProvenance, OwnFrame, OwnState

\* An idle thread holds nothing.
LEMMA OwnedIdle == OwnFrame(Idle)
BY NamesAssumption DEF OwnFrame, Idle

\* The calls that have nothing to register yet copy what is their own.
LEMMA OwnedCopy ==
  ASSUME RegisterInv, RegisterProvenance, NEW t \in Thread,
         GetOriginal(t) \/ CopyObjects(t) \/ CopyLocked(t) \/ BlockOnSend(t)
  PROVE  RegisterProvenance'
<1>1. call[t] \in Frame /\ heap \in [Ptr -> State] /\ call \in [Thread -> Frame]
  BY DEF RegisterInv, RegisterTypeOK
<1>2. OwnFrame(call[t]) /\ Nil \notin Ptr
  BY RegisterAssumption DEF RegisterProvenance, Nil, Ptr
<1>3. UNCHANGED <<stateByKey, heap, stateChanges, store>>
  BY DEF GetOriginal, CopyObjects, CopyLocked, BlockOnSend
<1>4. CASE GetOriginal(t)
  <2> DEFINE obj   == stateByKey[call[t].key]
             frame == [call[t] EXCEPT !.pc = IF obj = Nil THEN "store" ELSE "copy_objects",
                                      !.obj = obj]
  <2>1. call' = [call EXCEPT ![t] = frame]
    BY <1>1, <1>4 DEF GetOriginal
  <2>2. frame.key = call[t].key /\ frame.obj = obj /\ frame.os = call[t].os
    BY <1>1 DEF Frame
  <2> HIDE DEF frame
  <2>3. OwnFrame(frame)
    BY <1>2, <2>2 DEF OwnFrame, RegisterProvenance
  <2> QED BY <1>3, <2>1, <2>3, OwnedFrame
<1>5. CASE CopyObjects(t)
  <2> DEFINE frame == [call[t] EXCEPT !.pc = "copy_locked", !.os = heap[call[t].obj].os]
  <2>1. call' = [call EXCEPT ![t] = frame] /\ call[t].obj \in Ptr
    BY <1>1, <1>5 DEF CopyObjects, RegisterInv, FramesOK, Callable, Holding
  <2>2. frame.key = call[t].key /\ frame.obj = call[t].obj /\ frame.os = heap[call[t].obj].os
    BY <1>1 DEF Frame
  <2> HIDE DEF frame
  <2>3. OwnFrame(frame)
    BY <1>2, <2>1, <2>2 DEF OwnFrame, OwnState
  <2> QED BY <1>3, <2>1, <2>3, OwnedFrame
<1>6. CASE CopyLocked(t)
  <2> DEFINE frame == [call[t] EXCEPT !.pc = "store", !.obj = Nil,
                                      !.locked = heap[call[t].obj].locked]
  <2>1. call' = [call EXCEPT ![t] = frame]
    BY <1>1, <1>6 DEF CopyLocked
  <2>2. frame.key = call[t].key /\ frame.obj = Nil /\ frame.os = call[t].os
    BY <1>1 DEF Frame
  <2> HIDE DEF frame
  <2>3. OwnFrame(frame)
    BY <1>2, <2>2 DEF OwnFrame, OwnState
  <2> QED BY <1>3, <2>1, <2>3, OwnedFrame
<1>7. CASE BlockOnSend(t)
  <2> DEFINE frame == [call[t] EXCEPT !.pc = "send"]
  <2>1. call' = [call EXCEPT ![t] = frame]
    BY <1>1, <1>7 DEF BlockOnSend, Step
  <2>2. frame.key = call[t].key /\ frame.obj = call[t].obj /\ frame.os = call[t].os
    BY <1>1 DEF Frame
  <2> HIDE DEF frame
  <2>3. OwnFrame(frame)
    BY <1>2, <2>2 DEF OwnFrame, OwnState
  <2> QED BY <1>3, <2>1, <2>3, OwnedFrame
<1> QED BY <1>4, <1>5, <1>6, <1>7

\* The state of the primed pointers, when their provenance is what their keys ask.
LEMMA OwnedPrime ==
  ASSUME \A key \in SetKey :
           /\ stateByKey'[key] \in Ptr => heap'[stateByKey'[key]].os \in Own(key)
           /\ store'[key] \in Ptr => heap'[store'[key]].os \in Own(key),
         \A i \in DOMAIN stateChanges' :
           stateChanges'[i].obj \in Ptr =>
           heap'[stateChanges'[i].obj].os \in Own(stateChanges'[i].key),
         \A t \in Thread : call'[t].key \in SetKey =>
           /\ call'[t].obj \in Ptr => heap'[call'[t].obj].os \in Own(call'[t].key)
           /\ call'[t].os \in Own(call'[t].key)
  PROVE  RegisterProvenance'
BY DEF RegisterProvenance, OwnFrame, OwnState

\* An event on the channel is about a key.
LEMMA EventKeys ==
  ASSUME RegisterInv, NEW i \in DOMAIN stateChanges
  PROVE  stateChanges[i].key \in SetKey
<1>1. stateChanges[i] \in Event
  BY DEF RegisterInv, RegisterTypeOK
<1> QED BY <1>1 DEF Event

\* Everything that is still referred to in the same place.
LEMMA OwnedRest ==
  ASSUME ControllerInv, RegisterProvenance, [ControllerNext]_controllerVars
  PROVE  /\ \A key \in SetKey :
              /\ stateByKey[key] \in Ptr => heap'[stateByKey[key]].os \in Own(key)
              /\ store[key] \in Ptr => heap'[store[key]].os \in Own(key)
         /\ \A i \in DOMAIN stateChanges : stateChanges[i].key \in SetKey =>
              (stateChanges[i].obj \in Ptr =>
                 heap'[stateChanges[i].obj].os \in Own(stateChanges[i].key))
         /\ \A t \in Thread : call[t].key \in SetKey =>
              /\ call[t].obj \in Ptr => heap'[call[t].obj].os \in Own(call[t].key)
              /\ call[t].os \in Own(call[t].key)
<1>1. \A key \in SetKey : stateByKey[key] \in InUse(Held) /\ store[key] \in InUse(Held)
  BY DEF InUse
<1>2. \A i \in DOMAIN stateChanges : stateChanges[i].obj \in InUse(Held)
  BY DEF InUse
<1>3. \A t \in Thread : call[t].obj \in InUse(Held)
  BY DEF InUse
<1> QED BY <1>1, <1>2, <1>3, OwnKept DEF RegisterProvenance, OwnFrame

\* setState registers, and sends, what the frame of its caller has.
LEMMA OwnedPublish ==
  ASSUME ControllerInv, RegisterProvenance, [ControllerNext]_controllerVars,
         NEW t \in Thread, call[t].key \in SetKey, Publish(t, Held)
  PROVE  RegisterProvenance'
<1> DEFINE key   == call[t].key
           obj   == CHOOSE new \in Ptr : new \notin InUse(Held)
           next  == [os |-> call[t].os, locked |-> call[t].locked]
           event == [type |-> "put", key |-> key, obj |-> obj]
<1>1. \E new \in Ptr : new \notin InUse(Held)
  BY FreePtr, HeldAffordable DEF Publish, ControllerInv, RegisterInv
<1>2. obj \in Ptr
  BY <1>1
<1>3. /\ heap' = [p \in Ptr |-> IF p = obj THEN next
                                 ELSE IF p \in InUse(Held) THEN heap[p] ELSE NewState]
      /\ stateChanges' = Append(stateChanges, event)
      /\ stateByKey' = [stateByKey EXCEPT ![key] = obj]
      /\ call' = [call EXCEPT ![t] = Idle]
      /\ store' = store
  BY DEF Publish, Return
<1>4. event.key = key /\ event.obj = obj
  OBVIOUS
<1> HIDE DEF obj
<1>5. heap'[obj].os \in Own(key)
  BY <1>2, <1>3 DEF RegisterProvenance, OwnFrame
<1> HIDE DEF next, event
<1>6. /\ \A other \in SetKey : stateByKey'[other] = IF other = key THEN obj ELSE stateByKey[other]
      /\ \A u \in Thread : call'[u] = IF u = t THEN Idle ELSE call[u]
  BY <1>3 DEF ControllerInv, RegisterInv, RegisterTypeOK
<1>7. \A i \in DOMAIN stateChanges' :
        stateChanges'[i] = event \/ (i \in DOMAIN stateChanges /\ stateChanges'[i] = stateChanges[i])
  BY <1>3 DEF ControllerInv, RegisterInv, RegisterTypeOK
<1>8. \A i \in DOMAIN stateChanges : stateChanges[i].key \in SetKey
  BY EventKeys DEF ControllerInv
<1>9. \A i \in DOMAIN stateChanges' :
        stateChanges'[i].obj \in Ptr =>
           heap'[stateChanges'[i].obj].os \in Own(stateChanges'[i].key)
  BY <1>4, <1>5, <1>7, <1>8, OwnedRest
<1>10. Idle.key \notin SetKey
  BY NamesAssumption DEF Idle
<1>11. \A u \in Thread : call'[u].key \in SetKey =>
         /\ call'[u].obj \in Ptr => heap'[call'[u].obj].os \in Own(call'[u].key)
         /\ call'[u].os \in Own(call'[u].key)
  BY <1>6, <1>10, OwnedRest
<1>12. \A other \in SetKey :
         /\ stateByKey'[other] \in Ptr => heap'[stateByKey'[other]].os \in Own(other)
         /\ store'[other] \in Ptr => heap'[store'[other]].os \in Own(other)
  BY <1>3, <1>5, <1>6, OwnedRest
<1> QED BY <1>9, <1>11, <1>12, OwnedPrime

\* deleteState drops, empties and announces what it has got of its key.
LEMMA OwnedDelete ==
  ASSUME ControllerInv, RegisterProvenance, [ControllerNext]_controllerVars, NEW t \in Thread,
         RemoveState(t) \/ ClearObjects(t) \/ ClearLocked(t) \/ SendDeleted(t)
  PROVE  RegisterProvenance'
<1>1. /\ call \in [Thread -> Frame] /\ call[t] \in Frame /\ stateChanges \in Seq(Event)
      /\ stateByKey \in [SetKey -> Ptr \cup {Nil}]
  BY DEF ControllerInv, RegisterInv, RegisterTypeOK
<1>2. call[t].key \in SetKey /\ Nil \notin Ptr
  BY RegisterAssumption
     DEF RemoveState, ClearObjects, ClearLocked, SendDeleted, ControllerInv, RegisterInv, FramesOK,
         Callable, Nil, Ptr
<1>3. \A i \in DOMAIN stateChanges : stateChanges[i].key \in SetKey
  BY EventKeys DEF ControllerInv
<1>4. \A u \in Thread : /\ call'[u].key = call[u].key /\ call'[u].os = call[u].os
                        /\ call'[u].obj \in {call[u].obj, Nil}
  BY <1>1 DEF RemoveState, ClearObjects, ClearLocked, SendDeleted, Step, Frame
<1>5. \A key \in SetKey : stateByKey'[key] \in {stateByKey[key], Nil} /\ store'[key] = store[key]
  BY <1>1 DEF RemoveState, ClearObjects, ClearLocked, SendDeleted
<1>6. \A i \in DOMAIN stateChanges' :
        stateChanges'[i].obj \in Ptr =>
           heap'[stateChanges'[i].obj].os \in Own(stateChanges'[i].key)
  <2>1. CASE stateChanges' = stateChanges
    BY <1>3, <2>1, OwnedRest
  <2>2. CASE SendDeleted(t)
    <3> DEFINE event == [type |-> "deleted", key |-> call[t].key, obj |-> call[t].obj]
    <3>1. /\ stateChanges' = Append(stateChanges, event)
          /\ event.key = call[t].key /\ event.obj = call[t].obj
      BY <2>2 DEF SendDeleted
    <3> HIDE DEF event
    <3>2. \A i \in DOMAIN stateChanges' :
            stateChanges'[i] = event \/ (i \in DOMAIN stateChanges /\ stateChanges'[i] = stateChanges[i])
      BY <1>1, <3>1
    <3> QED BY <1>2, <1>3, <3>1, <3>2, OwnedRest
  <2> QED BY <2>1, <2>2 DEF RemoveState, ClearObjects, ClearLocked
<1>7. \A u \in Thread : call'[u].key \in SetKey =>
        /\ call'[u].obj \in Ptr => heap'[call'[u].obj].os \in Own(call'[u].key)
        /\ call'[u].os \in Own(call'[u].key)
  BY <1>2, <1>4, OwnedRest
<1>8. \A key \in SetKey :
        /\ stateByKey'[key] \in Ptr => heap'[stateByKey'[key]].os \in Own(key)
        /\ store'[key] \in Ptr => heap'[store'[key]].os \in Own(key)
  BY <1>2, <1>5, OwnedRest
<1> QED BY <1>6, <1>7, <1>8, OwnedPrime

\* A call begins with a manifest of its key, or with the state that is registered for it.
LEMMA OwnedBegin ==
  ASSUME ControllerInv, RegisterProvenance, NEW t \in Thread, NEW key \in SetKey
  PROVE  /\ ReleaseCall(t, key) => RegisterProvenance'
         /\ StartEnqueue(t, key) => RegisterProvenance'
<1> USE DEF ControllerInv
<1>1. ASSUME NEW frame, OwnFrame(frame), Begin(t, frame)
      PROVE  RegisterProvenance'
  BY <1>1, OwnedFrame DEF Begin
<1>2. Nil \notin Ptr
  BY RegisterAssumption DEF Nil, Ptr
<1>3. ASSUME NEW os \in Manifests[key], StartSet(t, key, os)
      PROVE  RegisterProvenance'
  <2> DEFINE frame == [Idle EXCEPT !.op = "set", !.pc = "store", !.key = key, !.os = os,
                                   !.locked = TRUE]
  <2>1. OwnFrame(frame)
    BY <1>2 DEF OwnFrame, OwnState, Own, Idle
  <2>2. Begin(t, frame)
    BY <1>3 DEF StartSet
  <2> HIDE DEF frame
  <2> QED BY <1>1, <2>1, <2>2
<1>4. ASSUME NEW op, StartDelete(t, key, op)
      PROVE  RegisterProvenance'
  <2> DEFINE obj   == stateByKey[key]
             frame == [Idle EXCEPT !.op = op, !.key = key, !.obj = obj,
                                   !.pc = IF obj = Nil THEN "on_remove" ELSE "remove"]
  <2>1. frame.key = key /\ frame.obj = stateByKey[key] /\ frame.os = NoObjects
    BY DEF Idle
  <2>2. Begin(t, frame)
    BY <1>4 DEF StartDelete
  <2> HIDE DEF frame
  <2>3. OwnFrame(frame)
    BY <2>1 DEF OwnFrame, Own, RegisterProvenance
  <2> QED BY <1>1, <2>2, <2>3
<1>5. ASSUME StartEnqueue(t, key)
      PROVE  RegisterProvenance'
  <2> DEFINE frame == [Idle EXCEPT !.op = "enqueue", !.pc = "get", !.key = key]
  <2>1. OwnFrame(frame)
    BY <1>2 DEF OwnFrame, OwnState, Own, Idle
  <2>2. Begin(t, frame)
    BY <1>5 DEF StartEnqueue
  <2> HIDE DEF frame
  <2> QED BY <1>1, <2>1, <2>2
<1> QED BY <1>3, <1>4, <1>5 DEF ReleaseCall, CallSet, CallDelete

\* The informer's store gets what an event of the key carries.
LEMMA OwnedReceive ==
  ASSUME ControllerInv, RegisterProvenance, Receive \/ Run
  PROVE  RegisterProvenance'
<1>1. CASE Run
  BY <1>1 DEF Run, RegisterProvenance, OwnFrame, OwnState
<1>2. CASE Receive
  <2> DEFINE event == stateChanges[1]
  <2>1. /\ stateChanges \in Seq(Event) /\ stateChanges # <<>> /\ stateChanges' = Tail(stateChanges)
        /\ UNCHANGED <<stateByKey, heap, call>>
    BY <1>2 DEF Receive, ControllerInv, RegisterInv, RegisterTypeOK
  <2>2. event = Head(stateChanges) /\ event.key \in SetKey /\ 1 \in DOMAIN stateChanges
    BY <2>1, EventKeys DEF ControllerInv
  <2>3. OwnState(event.key, event.obj) /\ Nil \notin Ptr
    BY <2>2, RegisterAssumption DEF RegisterProvenance, Nil, Ptr
  <2>4. store' = [store EXCEPT ![event.key] = IF event.type = "deleted" THEN Nil ELSE event.obj]
    BY <1>2, <2>2 DEF Receive
  <2> HIDE DEF event
  <2>5. \A key \in SetKey : store'[key] \in Ptr => heap'[store'[key]].os \in Own(key)
    BY <2>1, <2>2, <2>3, <2>4
       DEF RegisterProvenance, OwnState, ControllerInv, RegisterInv, RegisterTypeOK
  <2>6. \A i \in DOMAIN stateChanges' :
            i + 1 \in DOMAIN stateChanges /\ stateChanges'[i] = stateChanges[i + 1]
    BY <2>1
  <2> QED BY <2>1, <2>5, <2>6 DEF RegisterProvenance, OwnFrame, OwnState
<1> QED BY <1>1, <1>2

\* Every step of the register keeps each set with the release that it was made for.
LEMMA OwnedStep ==
  ASSUME ControllerInv, RegisterProvenance, [ControllerNext]_controllerVars
  PROVE  RegisterProvenance'
<1> USE DEF ControllerInv
<1>1. CASE UNCHANGED registerVars
  BY <1>1 DEF registerVars, RegisterProvenance, OwnFrame, OwnState
<1>2. ASSUME NEW t \in Thread, CallStep(t, Held)
      PROVE  RegisterProvenance'
  <2>1. CASE StoreState(t, Held) \/ UnblockSend(t, Held)
    <3>1. call[t].key \in SetKey /\ Publish(t, Held)
      BY <2>1 DEF StoreState, UnblockSend, RegisterInv, FramesOK, Callable
    <3> QED BY <3>1, OwnedPublish
  <2> QED BY <1>2, <2>1, OwnedCopy, OwnedDelete DEF CallStep
<1>3. ASSUME NEW t \in Thread, Return(t) \/ UNCHANGED call \/ \E pc : Step(t, pc),
             UNCHANGED <<stateByKey, heap, stateChanges, store>>
      PROVE  RegisterProvenance'
  <2>1. CASE Return(t)
    BY <1>3, <2>1, OwnedFrame, OwnedIdle DEF Return
  <2>2. CASE UNCHANGED call
    BY <1>3, <2>2 DEF RegisterProvenance, OwnFrame, OwnState
  <2>3. ASSUME NEW pc, Step(t, pc)
        PROVE  RegisterProvenance'
    <3> DEFINE frame == [call[t] EXCEPT !.pc = pc]
    <3>1. call[t] \in Frame /\ call' = [call EXCEPT ![t] = frame]
      BY <2>3 DEF Step, RegisterInv, RegisterTypeOK
    <3>2. frame.key = call[t].key /\ frame.obj = call[t].obj /\ frame.os = call[t].os
      BY <3>1 DEF Frame
    <3> HIDE DEF frame
    <3>3. OwnFrame(frame)
      BY <3>2 DEF OwnFrame, RegisterProvenance
    <3> QED BY <1>3, <3>1, <3>3, OwnedFrame
  <2> QED BY <1>3, <2>1, <2>2, <2>3
<1>4. ASSUME NEW t \in Thread, NEW res \in Resource, Purged(t, res)
      PROVE  RegisterProvenance'
  BY <1>3, <1>4 DEF Purged
<1>5. ASSUME NEW t \in Thread, GoOn(t)
      PROVE  RegisterProvenance'
  BY <1>2, <1>3, <1>4, <1>5 DEF GoOn, OnRemove, ListOwned, DeleteOwned
<1>6. CASE Environment
  BY <1>1, <1>6, OwnedBegin DEF Environment, CallUnlock, Edit
<1>7. CASE Failure
  BY <1>1, <1>4, <1>7 DEF Failure, FailObject, FailDelete
<1>8. ASSUME NEW key \in SetKey, WorkStep(key)
      PROVE  UNCHANGED registerVars
  BY <1>8 DEF WorkStep, TakeWork, UnlockForApply, CheckLocked, ConfigureApply, BeginApply,
              GetToLock, LockAfterApply, ApplyObject
<1>9. ASSUME NEW t \in Thread, NEW res \in Resource, Deliver(t, res)
      PROVE  RegisterProvenance'
  BY <1>1, <1>9, ResolveType, OwnedBegin DEF Deliver
<1> QED BY <1>1, <1>5, <1>6, <1>7, <1>8, <1>9, OwnedReceive
        DEF ControllerNext, Start, ReceiveEvent, Resync, controllerVars

-----------------------------------------------------------------------------
\* A worker has what the informer served for its key, or what the register held.
LEMMA WorkOwned ==
  ASSUME ControllerInv, Provenance, [ControllerNext]_controllerVars
  PROVE  WorkProvenance'
<1> USE DEF ControllerInv
<1>1. SUFFICES ASSUME NEW key \in SetKey
               PROVE  /\ worker'[key].obj \in Ptr => heap'[worker'[key].obj].os \in Own(key)
                      /\ worker'[key].os \in Own(key)
  BY DEF WorkProvenance, OwnState
<1>2. OwnState(key, worker[key].obj) /\ worker[key].os \in Own(key) /\ worker[key] \in Work
  BY DEF Provenance, WorkProvenance, OwnTypeOK
<1>3. CASE worker'[key].obj = worker[key].obj /\ worker'[key].os = worker[key].os
  <2>1. worker[key].obj \in InUse(Held)
    BY DEF InUse, Held
  <2> QED BY <1>2, <1>3, <2>1, OwnKept
<1>4. Nil \notin Ptr /\ NoObjects \in Own(key)
  BY RegisterAssumption DEF Nil, Ptr, Own
<1>5. CASE worker'[key] = NoWork
  BY <1>4, <1>5 DEF NoWork
<1>6. CASE Elsewhere(key)
  BY <1>3, <1>6 DEF Elsewhere
<1>7. CASE TakeWork(key)
  <2>1. CASE worker' = worker
    BY <1>3, <2>1
  <2>2. CASE worker' = [worker EXCEPT ![key] = [NoWork EXCEPT !.pc = "unlock", !.obj = store[key]]]
    <3>1. worker'[key].obj = store[key] /\ worker'[key].os = NoObjects
      BY <2>2 DEF NoWork, OwnTypeOK
    <3>2. heap' = heap
      BY <1>7 DEF TakeWork, registerVars
    <3> QED BY <1>4, <3>1, <3>2 DEF Provenance, RegisterProvenance, OwnState
  <2> QED BY <1>7, <2>1, <2>2 DEF TakeWork
<1>8. CASE UnlockForApply(key) \/ ConfigureApply(key)
  <2>1. worker'[key].obj = worker[key].obj /\ worker'[key].os = worker[key].os
    BY <1>2, <1>8 DEF UnlockForApply, ConfigureApply, OwnTypeOK, Work
  <2> QED BY <1>3, <2>1
<1>9. CASE CheckLocked(key)
  <2>1. \/ worker'[key] = NoWork
        \/ worker'[key].obj = worker[key].obj /\ worker'[key].os = worker[key].os
    BY <1>2, <1>9 DEF CheckLocked, OwnTypeOK, Work
  <2> QED BY <1>3, <1>5, <2>1
<1>10. CASE BeginApply(key)
  <2>1. worker[key].obj \in Ptr
    BY <1>10 DEF BeginApply, WorkersOK, WorkerOK
  <2>2. worker'[key].obj = Nil /\ worker'[key].os = heap[worker[key].obj].os
    BY <1>2, <1>10 DEF BeginApply, OwnTypeOK, Work
  <2> QED BY <1>2, <1>4, <2>1, <2>2 DEF OwnState
<1>11. ASSUME NEW res \in Resource, ApplyObject(key, res) \/ FailObject(key, res)
       PROVE  worker'[key].obj = worker[key].obj /\ worker'[key].os = worker[key].os
  BY <1>2, <1>11 DEF ApplyObject, FailObject, OwnTypeOK, Work
<1>12. CASE GetToLock(key)
  <2> DEFINE obj == stateByKey[key]
             os  == IF obj = Nil THEN NoObjects ELSE heap[obj].os
  <2>1. os \in Own(key)
    BY <1>4 DEF Provenance, RegisterProvenance, OwnState, RegisterInv, RegisterTypeOK
  <2>2. \/ worker'[key] = NoWork
        \/ worker'[key].obj = worker[key].obj /\ worker'[key].os = os
    BY <1>2, <1>12 DEF GetToLock, FinishWork, OwnTypeOK, Work
  <2>3. heap' = heap
    BY <1>12 DEF GetToLock, registerVars
  <2> HIDE DEF os
  <2> QED BY <1>2, <1>5, <2>1, <2>2, <2>3 DEF OwnState
<1>13. CASE LockAfterApply(key)
  <2>1. worker'[key] = NoWork
    BY <1>13 DEF LockAfterApply, FinishWork, OwnTypeOK
  <2> QED BY <1>5, <2>1
<1>14. CASE Within(key)
  BY <1>3, <1>8, <1>9, <1>10, <1>11, <1>14 DEF Within, ApplyStep
<1> QED BY <1>6, <1>7, <1>8, <1>12, <1>13, <1>14, StepOn

\* Nothing calls or follows up a purge.
LEMMA NoPurgeStep ==
  ASSUME Undisturbed, ControllerInv, NoPurge, [ControllerNext]_controllerVars
  PROVE  NoPurge'
<1> USE DEF ControllerInv
<1>1. CASE UNCHANGED call
  BY <1>1 DEF NoPurge
<1>2. ASSUME NEW t \in Thread, NEW frame, call' = [call EXCEPT ![t] = frame],
             frame.op # "purge" /\ frame.pc \notin {"list_owned", "delete_owned"}
      PROVE  NoPurge'
  BY <1>2 DEF NoPurge, RegisterInv, RegisterTypeOK
<1>3. Idle.op = "none" /\ Idle.pc = "idle"
  BY DEF Idle
<1>4. ASSUME NEW t \in Thread, CallStep(t, Held)
      PROVE  NoPurge'
  <2>1. call \in [Thread -> Frame] /\ call[t] \in Frame /\ call[t].op # "purge"
    BY DEF RegisterInv, RegisterTypeOK, NoPurge
  <2>2. CASE Return(t)
    BY <1>2, <1>3, <2>2 DEF Return
  <2>3. CASE ~ Return(t)
    <3>1. call'[t].op = call[t].op /\ call'[t].pc \notin {"list_owned", "delete_owned"}
      BY <1>4, <2>1, <2>3 DEF CallStep, GetOriginal, CopyObjects, CopyLocked, StoreState, Publish,
         BlockOnSend, UnblockSend, RemoveState, ClearObjects, ClearLocked, SendDeleted, Step, Frame
    <3>2. \A u \in Thread : u # t => call'[u] = call[u]
      BY <1>4, <2>1, <2>3 DEF CallStep, GetOriginal, CopyObjects, CopyLocked, StoreState, Publish,
         BlockOnSend, UnblockSend, RemoveState, ClearObjects, ClearLocked, SendDeleted, Step
    <3> QED BY <2>1, <3>1, <3>2 DEF NoPurge
  <2> QED BY <2>2, <2>3
<1>5. ASSUME NEW t \in Thread, GoOn(t)
      PROVE  NoPurge'
  <2>1. call[t].op # "purge" /\ call[t].pc \notin {"list_owned", "delete_owned"}
    BY DEF NoPurge
  <2>2. CASE OnRemove(t)
    BY <1>2, <1>3, <2>1, <2>2 DEF OnRemove, Return
  <2> QED BY <1>4, <1>5, <2>1, <2>2 DEF GoOn, ListOwned, DeleteOwned, Purged
<1>6. ASSUME NEW t \in Thread, NEW key \in SetKey, ReleaseCall(t, key) \/ StartEnqueue(t, key)
      PROVE  NoPurge'
  <2>1. ASSUME NEW frame, Begin(t, frame), frame.op # "purge",
               frame.pc \notin {"list_owned", "delete_owned"}
        PROVE  NoPurge'
    BY <1>2, <2>1 DEF Begin
  <2>2. CASE StartEnqueue(t, key)
    <3> DEFINE frame == [Idle EXCEPT !.op = "enqueue", !.pc = "get", !.key = key]
    <3>1. frame.op = "enqueue" /\ frame.pc = "get" /\ Begin(t, frame)
      BY <2>2 DEF StartEnqueue, Idle
    <3> HIDE DEF frame
    <3> QED BY <2>1, <3>1
  <2>3. ASSUME NEW os \in Manifests[key], CallSet(t, key, os)
        PROVE  NoPurge'
    <3> DEFINE frame == [Idle EXCEPT !.op = "set", !.pc = "store", !.key = key, !.os = os,
                                     !.locked = TRUE]
    <3>1. frame.op = "set" /\ frame.pc = "store" /\ Begin(t, frame)
      BY <2>3 DEF CallSet, StartSet, Idle
    <3> HIDE DEF frame
    <3> QED BY <2>1, <3>1
  <2>4. ASSUME NEW op \in DeleteOps, CallDelete(t, key, op)
        PROVE  NoPurge'
    <3> DEFINE obj   == stateByKey[key]
               frame == [Idle EXCEPT !.op = op, !.key = key, !.obj = obj,
                                     !.pc = IF obj = Nil THEN "on_remove" ELSE "remove"]
    <3>1. frame.op = op /\ frame.pc \in {"on_remove", "remove"} /\ Begin(t, frame)
      BY <2>4 DEF CallDelete, StartDelete, Idle
    <3> HIDE DEF frame
    <3>2. op # "purge"
      BY DEF Undisturbed
    <3> QED BY <2>1, <3>1, <3>2
  <2> QED BY <1>6, <2>2, <2>3, <2>4 DEF ReleaseCall
<1>7. CASE Environment
  BY <1>1, <1>6, <1>7 DEF Environment, CallUnlock, Edit, registerVars
<1>8. CASE Failure
  BY <1>1, <1>8 DEF Failure, FailObject, FailDelete, Purged, NoPurge, registerVars
<1>9. ASSUME NEW key \in SetKey, WorkStep(key)
      PROVE  UNCHANGED call
  BY <1>9 DEF WorkStep, TakeWork, UnlockForApply, CheckLocked, ConfigureApply, BeginApply,
              GetToLock, LockAfterApply, ApplyObject, registerVars
<1>10. ASSUME NEW t \in Thread, NEW res \in Resource, Deliver(t, res)
       PROVE  NoPurge'
  BY <1>1, <1>6, <1>10, ResolveType DEF Deliver, registerVars
<1> QED BY <1>1, <1>5, <1>7, <1>8, <1>9, <1>10
        DEF ControllerNext, Start, Run, ReceiveEvent, Receive, Resync, controllerVars, registerVars

\* Before the informer runs nothing is queued, so nothing is applied.
LEMMA IdleBeforeSyncStep ==
  ASSUME ControllerInv, IdleBeforeSync, [ControllerNext]_controllerVars
  PROVE  IdleBeforeSync'
<1> USE DEF ControllerInv
<1>1. CASE queue' = queue /\ worker' = worker /\ store' = store /\ synced' = synced
  BY <1>1 DEF IdleBeforeSync
<1>2. CASE synced
  <2>1. CASE Start \/ ReceiveEvent \/ Resync \/ Environment
    BY <1>2, <2>1 DEF Start, Run, ReceiveEvent, Receive, Resync, Environment, ReleaseCall, CallSet,
       StartSet, CallDelete, StartDelete, Begin, CallUnlock, Edit, registerVars, IdleBeforeSync
  <2>2. CASE Failure
    BY <1>2, <2>2 DEF Failure, FailObject, FailDelete, Purged, registerVars, IdleBeforeSync
  <2>3. ASSUME NEW key \in SetKey, WorkStep(key)
        PROVE  synced' = synced
    BY <2>3 DEF WorkStep, TakeWork, UnlockForApply, CheckLocked, ConfigureApply, BeginApply,
       GetToLock, LockAfterApply, ApplyObject, registerVars
  <2>4. ASSUME NEW t \in Thread, GoOn(t)
        PROVE  synced' = synced
    <3>1. CASE CallStep(t, Held)
      BY <3>1 DEF CallStep, GetOriginal, CopyObjects, CopyLocked, StoreState, Publish, BlockOnSend,
         UnblockSend, RemoveState, ClearObjects, ClearLocked, SendDeleted
    <3> QED BY <2>4, <3>1 DEF GoOn, OnRemove, ListOwned, DeleteOwned, Purged
  <2>5. ASSUME NEW t \in Thread, NEW res \in Resource, Deliver(t, res)
        PROVE  synced' = synced
    BY <2>5 DEF Deliver, StartEnqueue, Begin, registerVars
  <2> QED BY <1>2, <2>1, <2>2, <2>3, <2>4, <2>5
          DEF ControllerNext, controllerVars, registerVars, IdleBeforeSync
<1>3. ASSUME ~ synced
      PROVE  IdleBeforeSync'
  <2>1. queue = {} /\ \A key \in SetKey : worker[key].pc = "idle"
    BY <1>3 DEF IdleBeforeSync
  <2>2. \A t \in Thread : call[t].pc = "idle"
    BY <1>3 DEF RegisterInv, QuietBeforeSync
  <2>3. CASE Start
    BY <2>3 DEF Start, Run, IdleBeforeSync
  <2>4. CASE ReceiveEvent \/ Resync \/ Environment
    <3>1. \A res \in Resource : \A content :
            Edit(res, content) => UNCHANGED <<registerVars, queue, worker>>
      BY DEF Edit
    <3> QED BY <1>1, <1>3, <2>4, <3>1 DEF ReceiveEvent, Receive, Resync, Environment, ReleaseCall,
       CallSet, StartSet, CallDelete, StartDelete, Begin, CallUnlock, registerVars
  <2>5. ~ Failure
    BY <2>1, <2>2 DEF Failure, FailObject, FailDelete, Purged
  <2>6. ~ (\E key \in SetKey : WorkStep(key)) /\ ~ (\E t \in Thread : GoOn(t))
    <3>1. ASSUME NEW key \in SetKey
          PROVE  ~ WorkStep(key)
      BY <2>1 DEF WorkStep, TakeWork, UnlockForApply, CheckLocked, ConfigureApply, BeginApply,
         GetToLock, LockAfterApply, ApplyObject
    <3>2. ASSUME NEW t \in Thread
          PROVE  ~ GoOn(t)
      <4>1. ~ CallStep(t, Held)
        BY <2>2 DEF CallStep, GetOriginal, CopyObjects, CopyLocked, StoreState, BlockOnSend,
           UnblockSend, RemoveState, ClearObjects, ClearLocked, SendDeleted
      <4> QED BY <2>2, <4>1 DEF GoOn, OnRemove, ListOwned, DeleteOwned, Purged
    <3> QED BY <3>1, <3>2
  <2>7. CASE \E t \in Thread, res \in Resource : Deliver(t, res)
    BY <1>1, <1>3, <2>7 DEF Deliver, StartEnqueue, Begin, registerVars
  <2> QED BY <1>1, <2>3, <2>4, <2>5, <2>6, <2>7 DEF ControllerNext, controllerVars, registerVars
<1> QED BY <1>2, <1>3

\* What becomes of the frame of a worker inside of OnChange.
LEMMA WithinForm ==
  ASSUME ControllerInv, NEW key \in SetKey, ApplyStep(key)
  PROVE  \/ /\ worker[key].pc = "check" /\ ~ heap[worker[key].obj].locked
            /\ worker'[key] = NoWork
         \/ /\ worker[key].pc \in {"check", "scope"} /\ worker'[key].pc \in {"scope", "read"}
            /\ worker'[key].obj = worker[key].obj /\ worker'[key].todo = worker[key].todo
         \/ /\ worker[key].pc = "read" /\ worker'[key].pc = "apply"
            /\ worker'[key].os = heap[worker[key].obj].os
            /\ ObjectsOf(heap[worker[key].obj].os) \subseteq worker'[key].todo
            /\ worker'[key].todo \subseteq ObjectsOf(heap[worker[key].obj].os) \cup Owned(key)
         \/ /\ worker[key].pc = "apply" /\ worker'[key].pc = "apply"
            /\ worker'[key].os = worker[key].os
            /\ worker'[key].todo \subseteq worker[key].todo
            /\ \/ worker'[key].failed
               \/ \E res \in Resource : /\ worker'[key].todo = worker[key].todo \ {res}
                                       /\ worker'[key].failed = worker[key].failed
                                       /\ ApplyObject(key, res)
<1>1. worker \in [SetKey -> Work] /\ worker[key] \in Work
  BY DEF ControllerInv, OwnTypeOK
<1>2. CASE CheckLocked(key)
  BY <1>1, <1>2 DEF CheckLocked, Work
<1>3. CASE ConfigureApply(key)
  BY <1>1, <1>3 DEF ConfigureApply, Work
<1>4. CASE BeginApply(key)
  BY <1>1, <1>4 DEF BeginApply, Work
<1>5. ASSUME NEW res \in Resource, ApplyObject(key, res)
      PROVE  /\ worker[key].pc = "apply" /\ worker'[key].pc = "apply"
             /\ worker'[key].os = worker[key].os
             /\ worker'[key].todo = worker[key].todo \ {res}
             /\ worker'[key].failed = worker[key].failed
  BY <1>1, <1>5 DEF ApplyObject, Work
<1>6. ASSUME NEW res \in Resource, FailObject(key, res)
      PROVE  /\ worker[key].pc = "apply" /\ worker'[key].pc = "apply"
             /\ worker'[key].os = worker[key].os
             /\ worker'[key].todo \subseteq worker[key].todo
             /\ worker'[key].failed
  BY <1>1, <1>6 DEF FailObject, Work
<1> QED BY <1>2, <1>3, <1>4, <1>5, <1>6 DEF ApplyStep

\* And outside of it.
LEMMA TurnForm ==
  ASSUME ControllerInv, NEW key \in SetKey
  PROVE  /\ TakeWork(key) =>
              /\ worker[key].pc = "idle"
              /\ \/ worker'[key] = worker[key]
                 \/ /\ worker'[key].pc = "unlock" /\ worker'[key].obj = store[key]
                    /\ worker'[key].todo = {}
         /\ UnlockForApply(key) =>
              /\ worker[key].pc = "unlock" /\ worker'[key].pc = "check"
              /\ worker'[key].obj = worker[key].obj /\ worker'[key].todo = worker[key].todo
         /\ GetToLock(key) =>
              /\ worker[key].pc = "apply" /\ worker[key].todo = {}
              /\ \/ worker'[key] = NoWork /\ (stateByKey[key] = Nil \/ Current(key) = NoObjects)
                 \/ /\ worker'[key].pc = "lock" /\ worker'[key].todo = {}
                    /\ worker'[key].failed = worker[key].failed
         /\ LockAfterApply(key) =>
              /\ worker[key].pc = "lock" /\ worker'[key] = NoWork
              /\ worker[key].failed => key \in queue'
<1>1. worker \in [SetKey -> Work] /\ worker[key] \in Work
  BY DEF ControllerInv, OwnTypeOK
<1>2. TakeWork(key) =>
        /\ worker[key].pc = "idle"
        /\ \/ worker'[key] = worker[key]
           \/ /\ worker'[key].pc = "unlock" /\ worker'[key].obj = store[key]
              /\ worker'[key].todo = {}
  BY <1>1 DEF TakeWork, NoWork
<1>3. UnlockForApply(key) =>
        /\ worker[key].pc = "unlock" /\ worker'[key].pc = "check"
        /\ worker'[key].obj = worker[key].obj /\ worker'[key].todo = worker[key].todo
  BY <1>1 DEF UnlockForApply, Work
<1>4. GetToLock(key) =>
        /\ worker[key].pc = "apply" /\ worker[key].todo = {}
        /\ \/ worker'[key] = NoWork /\ (stateByKey[key] = Nil \/ Current(key) = NoObjects)
           \/ /\ worker'[key].pc = "lock" /\ worker'[key].todo = {}
              /\ worker'[key].failed = worker[key].failed
  BY <1>1 DEF GetToLock, FinishWork, Work, Current
<1>5. LockAfterApply(key) =>
        /\ worker[key].pc = "lock" /\ worker'[key] = NoWork
        /\ worker[key].failed => key \in queue'
  BY <1>1 DEF LockAfterApply, FinishWork
<1> QED BY <1>2, <1>3, <1>4, <1>5

\* The frame of an idle worker.
LEMMA NoWorkFields == NoWork.pc = "idle" /\ NoWork.todo = {} /\ ~ NoWork.failed
BY DEF NoWork

\* An idle worker has nothing left over.
LEMMA IdleWorkersStep ==
  ASSUME ControllerInv, IdleWorkers, [ControllerNext]_controllerVars
  PROVE  IdleWorkers'
<1>1. SUFFICES ASSUME NEW key \in SetKey, worker'[key].pc = "idle" PROVE worker'[key] = NoWork
  BY DEF IdleWorkers
<1>2. worker[key].pc = "idle" => worker[key] = NoWork
  BY DEF IdleWorkers
<1>3. CASE Elsewhere(key)
  BY <1>1, <1>2, <1>3 DEF Elsewhere
<1>4. CASE TakeWork(key) \/ UnlockForApply(key) \/ GetToLock(key) \/ LockAfterApply(key)
  BY <1>1, <1>2, <1>4, TurnForm
<1>5. CASE Within(key)
  BY <1>1, <1>5, WithinForm DEF Within
<1> QED BY <1>3, <1>4, <1>5, StepOn

\* The informer does not serve another state without queueing the key.
LEMMA WorkCurrentStep ==
  ASSUME ControllerInv, IdleBeforeSync, WorkCurrent, [ControllerNext]_controllerVars
  PROVE  WorkCurrent'
<1> DEFINE early == {"unlock", "check", "scope", "read"}
<1>1. SUFFICES ASSUME NEW key \in SetKey, key \notin queue', worker'[key].pc \in early
               PROVE  worker'[key].obj = store'[key]
  BY DEF WorkCurrent
<1>2. key \notin queue /\ worker[key].pc \in early => worker[key].obj = store[key]
  BY DEF WorkCurrent
<1>3. CASE Elsewhere(key)
  <2>1. synced
    BY <1>1, <1>3 DEF Elsewhere, IdleBeforeSync
  <2> QED BY <1>1, <1>2, <1>3, <2>1 DEF Elsewhere
<1>4. CASE TakeWork(key)
  <2>1. store' = store
    BY <1>4 DEF TakeWork, registerVars
  <2> QED BY <1>1, <1>4, <2>1, TurnForm
<1>5. CASE UnlockForApply(key)
  <2>1. store' = store /\ queue' = queue
    BY <1>5 DEF UnlockForApply, registerVars
  <2> QED BY <1>1, <1>2, <1>5, <2>1, TurnForm
<1>6. CASE Within(key)
  <2>1. store' = store /\ key \notin queue
    BY <1>1, <1>6 DEF Within, registerVars
  <2> QED BY <1>1, <1>2, <1>6, <2>1, WithinForm, NoWorkFields DEF Within
<1>7. CASE GetToLock(key) \/ LockAfterApply(key)
  BY <1>1, <1>7, TurnForm, NoWorkFields
<1> QED BY <1>3, <1>4, <1>5, <1>6, <1>7, StepOn

-----------------------------------------------------------------------------
\* A resource changes only when the handler applies it.
LEMMA ClusterKept ==
  ASSUME Undisturbed, ControllerInv, NoPurge, [ControllerNext]_controllerVars,
         NEW res \in Resource
  PROVE  cluster'[res] = cluster[res] \/ \E key \in SetKey : ApplyObject(key, res)
<1> USE DEF ControllerInv
<1>1. CASE UNCHANGED cluster
  BY <1>1
<1>2. ASSUME NEW key \in SetKey, NEW other \in Resource, ApplyObject(key, other)
      PROVE  cluster'[res] = cluster[res] \/ ApplyObject(key, res)
  BY <1>2 DEF ApplyObject, Write, OwnTypeOK
<1>3. ASSUME NEW other \in Resource, NEW content
      PROVE  ~ Edit(other, content)
  <2>1. MaxEdits = 0 /\ budget.edits \in 0 .. MaxEdits
    BY DEF Undisturbed, OwnTypeOK, Budget
  <2>2. ~ (budget["edits"] > 0)
    BY <2>1
  <2> QED BY <2>2 DEF Edit, Spend
<1>4. CASE Environment
  BY <1>1, <1>3, <1>4 DEF Environment, ReleaseCall, CallSet, CallDelete, CallUnlock
<1>5. CASE Failure
  BY <1>1, <1>5 DEF Failure, FailObject, FailDelete
<1>6. ASSUME NEW key \in SetKey, WorkStep(key)
      PROVE  UNCHANGED cluster \/ \E other \in Resource : ApplyObject(key, other)
  BY <1>6 DEF WorkStep, TakeWork, UnlockForApply, CheckLocked, ConfigureApply, BeginApply,
              GetToLock, LockAfterApply
<1>7. ASSUME NEW t \in Thread, GoOn(t)
      PROVE  UNCHANGED cluster
  BY <1>7 DEF GoOn, OnRemove, ListOwned, DeleteOwned, Purged, NoPurge
<1> QED BY <1>1, <1>2, <1>4, <1>5, <1>6, <1>7
        DEF ControllerNext, Start, ReceiveEvent, Resync, Deliver, controllerVars

\* The objects of a set that a release may have are among its resources.
LEMMA OwnReach ==
  ASSUME NEW key \in SetKey, NEW os \in Own(key)
  PROVE  ObjectsOf(os) \subseteq Reach(key)
BY DEF ObjectsOf, Own, Reach

\* So no release comes to own, or to write, a resource of another.
LEMMA OwnersApartStep ==
  ASSUME Undisturbed, ControllerInv, ApplyInv, [ControllerNext]_controllerVars
  PROVE  OwnersApart'
<1> USE DEF ControllerInv, ApplyInv
<1>1. ASSUME NEW key \in SetKey, NEW res \in Resource, cluster'[res].owner = key
      PROVE  res \in Reach(key)
  <2>1. CASE cluster'[res] = cluster[res]
    BY <1>1, <2>1 DEF OwnersApart
  <2>2. ASSUME NEW other \in SetKey, ApplyObject(other, res)
        PROVE  res \in Reach(key)
    <3>1. cluster'[res] \in {AppliedBy(other, worker[other].os), Absent}
      BY <2>2 DEF ApplyObject, Write, OwnTypeOK
    <3>2. key = other
      BY <1>1, <3>1, NamesAssumption DEF AppliedBy, Absent
    <3> QED BY <2>2, <3>2 DEF ApplyObject, OwnersApart
  <2> QED BY <2>1, <2>2, ClusterKept
<1>2. ASSUME NEW key \in SetKey, NEW res \in Resource, res \in worker'[key].todo
      PROVE  res \in Reach(key)
  <2>1. res \in worker[key].todo => res \in Reach(key)
    BY DEF OwnersApart
  <2>2. CASE Elsewhere(key)
    BY <1>2, <2>1, <2>2 DEF Elsewhere
  <2>3. CASE TakeWork(key) \/ UnlockForApply(key) \/ GetToLock(key) \/ LockAfterApply(key)
    BY <1>2, <2>1, <2>3, TurnForm, NoWorkFields
  <2>4. CASE Within(key)
    <3>1. CASE worker[key].pc = "read"
      <4>1. worker[key].obj \in Ptr
        BY <3>1 DEF WorkersOK, WorkerOK
      <4>2. heap[worker[key].obj].os \in Own(key)
        BY <4>1 DEF Provenance, WorkProvenance, OwnState
      <4>3. res \in ObjectsOf(heap[worker[key].obj].os) \cup Owned(key)
        BY <1>2, <2>4, <3>1, WithinForm DEF Within
      <4> QED BY <4>2, <4>3, OwnReach DEF Owned, OwnersApart
    <3>2. CASE worker[key].pc # "read"
      BY <1>2, <2>1, <2>4, <3>2, WithinForm, NoWorkFields DEF Within
    <3> QED BY <3>1, <3>2
  <2> QED BY <2>2, <2>3, <2>4, StepOn
<1> QED BY <1>1, <1>2 DEF OwnersApart

\* ApplyInv is inductive.
LEMMA ApplyInvStep ==
  ASSUME Undisturbed, ControllerInv, ApplyInv, [ControllerNext]_controllerVars
  PROVE  ApplyInv'
BY OwnedStep, WorkOwned, OwnersApartStep, NoPurgeStep, IdleBeforeSyncStep, WorkCurrentStep,
   IdleWorkersStep DEF ApplyInv, Provenance

-----------------------------------------------------------------------------
\* An OnChange that nothing else will follow applies the current set.
LEMMA ClustersCurrentStep ==
  ASSUME Undisturbed, ControllerInv, ApplyInv, ClustersCurrent, [ControllerNext]_controllerVars
  PROVE  ClustersCurrent'
<1> USE DEF ControllerInv, ApplyInv
<1>1. SUFFICES ASSUME NEW key \in SetKey, Agreed(key)', Informed(key)',
                      heap'[stateByKey'[key]].locked, Current(key)' # NoObjects
               PROVE  /\ worker'[key].pc = "apply" => worker'[key].os = Current(key)'
                      /\ worker'[key].pc \in {"idle", "apply", "lock"}
                           => \/ worker'[key].failed
                              \/ AppliedBut(key, worker[key].todo)'
                      /\ worker'[key].pc = "lock" => worker'[key].todo = {}
  BY DEF ClustersCurrent, ClusterCurrent
<1> DEFINE os == Current(key)
<1>2. /\ Current(key)' = os /\ stateByKey'[key] = stateByKey[key]
      /\ heap'[stateByKey'[key]] = heap[stateByKey[key]]
      /\ (Agreed(key) /\ Informed(key)) \/ UnlockForApply(key)
  BY <1>1, InformedBefore
<1>3. CASE UnlockForApply(key)
  BY <1>3, TurnForm
<1>4. CASE Agreed(key) /\ Informed(key)
  <2>1. heap[stateByKey[key]].locked /\ os # NoObjects /\ stateByKey[key] # Nil
    BY <1>1, <1>2, <1>4 DEF Agreed
  <2>2. /\ worker[key].pc = "apply" => worker[key].os = os
        /\ worker[key].pc \in {"idle", "apply", "lock"}
             => worker[key].failed \/ AppliedBut(key, worker[key].todo)
        /\ worker[key].pc = "lock" => worker[key].todo = {}
    BY <1>4, <2>1 DEF ClustersCurrent, ClusterCurrent
  <2>3. worker[key].pc \in {"check", "scope", "read"} => worker[key].obj = stateByKey[key]
    BY <1>4 DEF WorkCurrent, Agreed, Informed
  <2>4. ASSUME NEW res \in Resource, res \in ObjectsOf(os), cluster'[res] # cluster[res]
        PROVE  ApplyObject(key, res)
    <3>1. PICK other \in SetKey : ApplyObject(other, res)
      BY <2>4, ClusterKept
    <3>2. res \in Reach(other)
      BY <3>1 DEF ApplyObject, OwnersApart
    <3>3. stateByKey[key] \in Ptr
      BY <2>1 DEF RegisterInv, RegisterTypeOK
    <3>4. os \in Own(key)
      BY <3>3 DEF Provenance, RegisterProvenance, OwnState, Current
    <3>5. res \in Reach(key)
      BY <2>4, <3>4, OwnReach
    <3> QED BY <3>1, <3>2, <3>5 DEF Undisturbed
  <2>5. ASSUME NEW todo, AppliedBut(key, todo),
               \A res \in ObjectsOf(os) \ todo : ~ ApplyObject(key, res)
        PROVE  \A res \in Resource :
                 res \in ObjectsOf(os) \ todo => cluster'[res] = AppliedBy(key, os)
    BY <2>4, <2>5 DEF AppliedBut
  <2>6. SUFFICES /\ worker'[key].pc = "apply" => worker'[key].os = os
                 /\ worker'[key].pc \in {"idle", "apply", "lock"}
                      => \/ worker'[key].failed
                         \/ \A res \in Resource : res \in ObjectsOf(os) \ worker'[key].todo
                              => cluster'[res] = AppliedBy(key, os)
                 /\ worker'[key].pc = "lock" => worker'[key].todo = {}
    BY <1>2 DEF AppliedBut
  <2> HIDE DEF os
  <2>7. ASSUME cluster' = cluster, AppliedBut(key, {}), worker'[key].todo = {}
        PROVE  \A res \in Resource : res \in ObjectsOf(os) \ worker'[key].todo
                              => cluster'[res] = AppliedBy(key, os)
    BY <2>7 DEF AppliedBut, os
  <2>8. CASE Elsewhere(key)
    <3>1. worker'[key] = worker[key]
      BY <2>8 DEF Elsewhere
    <3>2. \A res \in Resource : ~ ApplyObject(key, res)
      BY <3>1 DEF ApplyObject, OwnTypeOK, Work
    <3>3. ObjectsOf(os) \subseteq Resource
      BY <2>1, LockTableAssumption DEF os, Current, ObjectsOf, RegisterInv, RegisterTypeOK, State
    <3> QED BY <2>2, <2>5, <3>1, <3>2, <3>3
  <2>9. CASE TakeWork(key)
    BY <1>4, <2>9 DEF TakeWork, Informed
  <2>10. CASE Within(key)
    <3>1. ApplyStep(key)
      BY <2>10 DEF Within
    <3>2. CASE worker[key].pc \in {"check", "scope"}
      BY <2>1, <2>3, <3>1, <3>2, WithinForm
    <3>3. CASE worker[key].pc = "read"
      BY <2>3, <3>1, <3>3, WithinForm DEF os, Current
    <3>4. CASE worker[key].pc = "apply"
      <4>1. worker'[key].pc = "apply" /\ worker'[key].os = os
        BY <2>2, <3>1, <3>4, WithinForm
      <4>2. CASE worker'[key].failed
        BY <4>1, <4>2
      <4>3. ASSUME NEW res \in Resource, worker'[key].todo = worker[key].todo \ {res},
                   ApplyObject(key, res), AppliedBut(key, worker[key].todo)
            PROVE  \A other \in Resource : other \in ObjectsOf(os) \ worker'[key].todo
                     => cluster'[other] = AppliedBy(key, os)
        <5>1. \A other \in Resource : cluster'[other] =
                 IF other = res
                 THEN IF res \in ObjectsOf(os) THEN AppliedBy(key, os) ELSE Absent
                 ELSE cluster[other]
          BY <2>2, <3>4, <4>3 DEF ApplyObject, Write, OwnTypeOK
        <5> QED BY <4>3, <5>1 DEF AppliedBut, os
      <4> QED BY <2>2, <3>1, <3>4, <4>1, <4>2, <4>3, WithinForm
    <3> QED BY <2>10, <3>2, <3>3, <3>4 DEF Within
  <2>11. CASE GetToLock(key)
    <3>1. cluster' = cluster
      BY <2>11 DEF GetToLock
    <3>2. /\ worker[key].pc = "apply" /\ worker[key].todo = {}
          /\ worker'[key].pc = "lock" /\ worker'[key].todo = {}
          /\ worker'[key].failed = worker[key].failed
      BY <2>1, <2>11, TurnForm DEF os
    <3> QED BY <2>2, <2>7, <3>1, <3>2
  <2>12. CASE LockAfterApply(key)
    <3>1. cluster' = cluster
      BY <2>12 DEF LockAfterApply
    <3>2. worker[key].pc = "lock" /\ worker'[key] = NoWork /\ ~ worker[key].failed
      BY <1>1, <2>12, TurnForm DEF Informed
    <3> QED BY <2>2, <2>7, <3>1, <3>2, NoWorkFields
  <2>13. CASE UnlockForApply(key)
    BY <2>13, TurnForm
  <2> QED BY <2>8, <2>9, <2>10, <2>11, <2>12, <2>13, StepOn
<1> QED BY <1>2, <1>3, <1>4

\* Both invariants hold when the controller starts.
LEMMA ApplyInit == ControllerInit => ApplyInv /\ ClustersCurrent
<1> SUFFICES ASSUME ControllerInit PROVE ApplyInv /\ ClustersCurrent
  OBVIOUS
<1>1. Nil \notin Ptr
  BY RegisterAssumption DEF Nil, Ptr
<1>2. /\ \A key \in SetKey : stateByKey[key] = Nil /\ store[key] = Nil /\ worker[key] = NoWork
      /\ \A t \in Thread : call[t] = Idle
      /\ DOMAIN stateChanges = {} /\ queue = {}
      /\ \A res \in Resource : cluster[res] = Absent
  BY DEF ControllerInit, RegisterInit
<1>3. NoWork.obj = Nil /\ NoWork.os = NoObjects /\ Idle.op = "none" /\ Idle.pc = "idle"
  BY DEF NoWork, Idle
<1>4. Provenance
  BY <1>1, <1>2, <1>3, OwnedIdle DEF Provenance, RegisterProvenance, WorkProvenance, OwnState, Own
<1>5. OwnersApart
  BY <1>2, NoWorkFields, NamesAssumption DEF OwnersApart, Absent
<1>6. NoPurge /\ IdleBeforeSync /\ WorkCurrent /\ IdleWorkers
  BY <1>2, <1>3, NoWorkFields DEF NoPurge, IdleBeforeSync, WorkCurrent, IdleWorkers
<1>7. ClustersCurrent
  BY <1>2 DEF ClustersCurrent, ClusterCurrent, Agreed
<1> QED BY <1>4, <1>5, <1>6, <1>7 DEF ApplyInv

\* A registered set that is at rest is in the cluster as its manifest says, when no release has a
\* resource of another and nobody edits or purges: failed writes, failed watches, transitions,
\* deletions, and sets replaced while they are applied, do not change that.
THEOREM RestingClusterIsAppliedCorrect ==
  ASSUME Undisturbed
  PROVE  ControllerSpec => []RestingClusterIsApplied
<1>1. ControllerInv /\ ApplyInv /\ ClustersCurrent /\ [ControllerNext]_controllerVars
        => (ApplyInv /\ ClustersCurrent)'
  BY ApplyInvStep, ClustersCurrentStep
<1>2. ControllerInv /\ ApplyInv /\ ClustersCurrent => RestingClusterIsApplied
  <2>1. SUFFICES ASSUME ControllerInv, ApplyInv, ClustersCurrent, NEW key \in SetKey, Quiet(key),
                        Enforced(key)
                 PROVE  AsApplied(key)
    BY DEF RestingClusterIsApplied
  <2>2. /\ Agreed(key) /\ Informed(key) /\ Served(key) = heap[stateByKey[key]]
        /\ Served(key).os = Current(key) /\ worker[key].pc = "idle"
    BY <2>1 DEF Enforced, Agreed, Quiet, Informed, Served, Current
  <2>3. worker[key] = NoWork
    BY <2>1, <2>2 DEF ApplyInv, IdleWorkers
  <2>4. AppliedBut(key, {})
    BY <2>1, <2>2, <2>3, NoWorkFields DEF ClustersCurrent, ClusterCurrent, Enforced
  <2>5. ObjectsOf(Current(key)) \subseteq Resource
    BY <2>1, <2>2, LockTableAssumption
       DEF Agreed, Current, ObjectsOf, ControllerInv, RegisterInv, RegisterTypeOK, State
  <2> QED BY <2>2, <2>4, <2>5 DEF AsApplied, AppliedBut
<1> QED BY <1>1, <1>2, ApplyInit, ControllerInvariant, PTL DEF ControllerSpec
=============================================================================
