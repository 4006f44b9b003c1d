---------------------- MODULE ObjectSetRegisterProofs ----------------------
(***************************************************************************)
(* Proofs about the register of object sets, for any number of keys,       *)
(* object sets and goroutines and a channel of any capacity.               *)
(*                                                                         *)
(* The lemmas about its steps leave open which pointers other components   *)
(* hold, so that they are also about the register inside of the object set *)
(* controller.                                                             *)
(***************************************************************************)
EXTENDS ObjectSetRegister, FiniteSetTheorems, TLAPS

\* A goroutine holds a state while it copies or deletes it.
Holding ==
  {"copy_objects", "copy_locked", "remove", "clear_objects", "clear_locked", "send_deleted"}

\* deleteState has taken the state out of the map.
Clearing == {"clear_objects", "clear_locked", "send_deleted"}

\* A call is about a key, and holds a state when it needs one.
Callable(frame) ==
  /\ frame.pc # "idle" => frame.key \in SetKey
  /\ frame.pc \in Holding => frame.obj \in Ptr

FramesOK == \A t \in Thread : Callable(call[t])

\* No state is registered for two keys.
KeysApart ==
  \A key, other \in SetKey :
    stateByKey[key] = stateByKey[other] /\ stateByKey[key] # Nil => key = other

\* A deletion only touches states that are not registered, but for the one of its key that it
\* is about to take out of the map.
Disposes(frame) ==
  /\ frame.pc = "remove" => \A key \in SetKey : stateByKey[key] = frame.obj => key = frame.key
  /\ frame.pc \in Clearing => \A key \in SetKey : stateByKey[key] # frame.obj

DisposalsApart == \A t \in Thread : Disposes(call[t])

\* Nobody calls the register before its informer has started.
QuietBeforeSync ==
  ~ synced => /\ \A t \in Thread : call[t].pc = "idle"
              /\ \A key \in SetKey : stateByKey[key] = Nil

RegisterInv ==
  /\ RegisterTypeOK
  /\ FramesOK
  /\ KeysApart
  /\ DisposalsApart
  /\ QuietBeforeSync
  /\ LastEventIsCurrent
  /\ NoStaleState

\* What a step does to what is registered: a key that keeps its state keeps what is in it, and
\* one that gets another state has an event on its way.
CurrentForm ==
  \A key \in SetKey :
    \/ stateByKey'[key] = Nil
    \/ stateByKey'[key] = stateByKey[key] /\ heap'[stateByKey[key]] = heap[stateByKey[key]]
    \/ EventsOf(key)' # {}

-----------------------------------------------------------------------------
\* The values of a function are not more than its arguments.
LEMMA ImageBound ==
  ASSUME NEW S, IsFiniteSet(S), NEW f, DOMAIN f = S, f = [x \in S |-> f[x]]
  PROVE  IsFiniteSet({f[x] : x \in S}) /\ Cardinality({f[x] : x \in S}) <= Cardinality(S)
<1> DEFINE image == {f[x] : x \in S}
<1>1. f \in Surjection(S, image)
  BY DEF Surjection
<1>2. IsFiniteSet(image) /\ Cardinality(image) <= Cardinality(S)
  BY <1>1, FS_Surjection
<1> QED BY <1>2

\* Nor are those of two sets together more than those of each.
LEMMA UnionBound ==
  ASSUME NEW S, IsFiniteSet(S), NEW T, IsFiniteSet(T), NEW m \in Nat, NEW n \in Nat,
         Cardinality(S) <= m, Cardinality(T) <= n
  PROVE  IsFiniteSet(S \cup T) /\ Cardinality(S \cup T) <= m + n
<1>1. /\ IsFiniteSet(S \cup T)
      /\ Cardinality(S \cup T) = Cardinality(S) + Cardinality(T) - Cardinality(S \cap T)
  BY FS_Union
<1>2. IsFiniteSet(S \cap T)
  BY FS_Intersection
<1>3. Cardinality(S) \in Nat /\ Cardinality(T) \in Nat /\ Cardinality(S \cap T) \in Nat
  BY <1>2, FS_CardinalityType
<1> QED BY <1>1, <1>3

\* What other components may hold: so much that the heap is still large enough.
Affordable(held) ==
  /\ held \subseteq Ptr \cup {Nil}
  /\ IsFiniteSet(held)
  /\ MaxPtr >= 2 * Cardinality(SetKey) + Cap + Cardinality(Thread) + Cardinality(held)

\* A new state finds a place: an event has left room on the channel.
LEMMA FreePtr ==
  ASSUME RegisterTypeOK, ~ ChannelFull, NEW held, Affordable(held)
  PROVE  \E obj \in Ptr : obj \notin InUse(held)
<1> DEFINE current == {stateByKey[key] : key \in SetKey}
           stored  == {store[key] : key \in SetKey}
           sent    == {stateChanges[i].obj : i \in DOMAIN stateChanges}
           called  == {call[t].obj : t \in Thread}
           keys    == Cardinality(SetKey)
           threads == Cardinality(Thread)
           holders == Cardinality(held)
           events  == Len(stateChanges)
<1>1. /\ IsFiniteSet(SetKey) /\ IsFiniteSet(Thread) /\ IsFiniteSet(held)
      /\ keys \in Nat /\ threads \in Nat /\ holders \in Nat
  BY RegisterAssumption, FS_CardinalityType DEF Affordable
<1>2. events \in Nat /\ events < Cap /\ DOMAIN stateChanges = 1 .. events
  BY RegisterAssumption DEF RegisterTypeOK, ChannelFull
<1>3. IsFiniteSet(current) /\ Cardinality(current) <= keys
  BY <1>1, ImageBound DEF RegisterTypeOK
<1>4. IsFiniteSet(stored) /\ Cardinality(stored) <= keys
  BY <1>1, ImageBound DEF RegisterTypeOK
<1>5. IsFiniteSet(sent) /\ Cardinality(sent) <= events
  <2> DEFINE f == [i \in 1 .. events |-> stateChanges[i].obj]
  <2>1. IsFiniteSet(1 .. events) /\ Cardinality(1 .. events) = events
    <3>1. events \in Int /\ 0 <= events
      BY <1>2
    <3> HIDE DEF events
    <3>2. /\ IsFiniteSet(1 .. events)
          /\ Cardinality(1 .. events) = IF 1 > events THEN 0 ELSE events - 1 + 1
      BY <3>1, FS_Interval
    <3> QED BY <3>1, <3>2
  <2>2. sent = {f[i] : i \in 1 .. events}
    BY <1>2
  <2>3. DOMAIN f = 1 .. events /\ f = [i \in 1 .. events |-> f[i]]
    OBVIOUS
  <2> HIDE DEF f, sent, events
  <2>4. /\ IsFiniteSet({f[i] : i \in 1 .. events})
        /\ Cardinality({f[i] : i \in 1 .. events}) <= Cardinality(1 .. events)
    BY <2>1, <2>3, ImageBound
  <2> QED BY <2>1, <2>2, <2>4
<1>6. IsFiniteSet(called) /\ Cardinality(called) <= threads
  <2> DEFINE f == [t \in Thread |-> call[t].obj]
  <2>1. called = {f[t] : t \in Thread}
    OBVIOUS
  <2>2. DOMAIN f = Thread /\ f = [t \in Thread |-> f[t]]
    OBVIOUS
  <2> HIDE DEF f, called
  <2> QED BY <1>1, <2>1, <2>2, ImageBound
<1>7. InUse(held) = (((current \cup stored) \cup sent) \cup called) \cup held
  BY DEF InUse
<1> HIDE DEF current, stored, sent, called, keys, threads, holders, events
<1>8. IsFiniteSet(current \cup stored) /\ Cardinality(current \cup stored) <= keys + keys
  BY <1>1, <1>3, <1>4, UnionBound
<1>9. keys + keys \in Nat /\ keys + keys + events \in Nat /\ keys + keys + events + threads \in Nat
  BY <1>1, <1>2
<1> DEFINE two   == keys + keys
           three == keys + keys + events
           four  == keys + keys + events + threads
           some  == (current \cup stored) \cup sent
           most  == some \cup called
<1>10. IsFiniteSet(InUse(held)) /\ Cardinality(InUse(held)) <= four + holders
  <2>1. IsFiniteSet(some) /\ Cardinality(some) <= three
    <3> DEFINE few == current \cup stored
    <3>1. IsFiniteSet(few) /\ Cardinality(few) <= two /\ two \in Nat /\ three = two + events
      BY <1>8, <1>9
    <3>2. some = few \cup sent
      OBVIOUS
    <3> HIDE DEF few, some, two, three
    <3> QED BY <1>2, <1>5, <3>1, <3>2, UnionBound
  <2>2. IsFiniteSet(most) /\ Cardinality(most) <= four
    <3>1. three \in Nat /\ four = three + threads /\ most = some \cup called
      BY <1>9
    <3> HIDE DEF some, most, three, four
    <3> QED BY <1>1, <1>6, <2>1, <3>1, UnionBound
  <2>3. Cardinality(held) <= holders
    BY <1>1 DEF holders
  <2>4. four \in Nat /\ InUse(held) = most \cup held
    BY <1>7, <1>9
  <2> HIDE DEF most, four
  <2> QED BY <1>1, <2>2, <2>3, <2>4, UnionBound
<1>11. Cardinality(InUse(held)) <= keys + keys + events + threads + holders
  BY <1>10
<1>12. Cardinality(Ptr) = MaxPtr
  BY RegisterAssumption, FS_Interval DEF Ptr
<1>13. Cardinality(InUse(held)) < MaxPtr
  <2>1. MaxPtr >= 2 * keys + Cap + threads + holders
    BY DEF Affordable, keys, threads, holders
  <2>2. Cardinality(InUse(held)) \in Nat
    BY <1>10, FS_CardinalityType
  <2> QED BY <1>1, <1>2, <1>11, <2>1, <2>2, RegisterAssumption
<1>14. SUFFICES ASSUME Ptr \subseteq InUse(held) PROVE FALSE
  OBVIOUS
<1>15. Cardinality(Ptr) <= Cardinality(InUse(held))
  BY <1>10, <1>14, FS_Subset
<1> QED BY <1>10, <1>12, <1>13, <1>15, FS_CardinalityType, RegisterAssumption

-----------------------------------------------------------------------------
\* Dropping a key is up to the frames of the calls on it.
LEMMA DroppingKept ==
  ASSUME NEW t \in Thread, NEW frame, call \in [Thread -> Frame],
         call' = [call EXCEPT ![t] = frame], call[t].pc \notin Clearing,
         NEW key \in SetKey, Dropping(key)
  PROVE  Dropping(key)'
<1>1. PICK u \in Thread : call[u].key = key /\ call[u].pc \in Clearing
  BY DEF Dropping, CallsOn, Clearing
<1>2. call'[u] = call[u]
  BY <1>1
<1> QED BY <1>1, <1>2 DEF Dropping, CallsOn, Clearing

\* A step of a call that only moves its frame, and maybe takes stateMapLock.
LEMMA FrameStep ==
  ASSUME RegisterInv, NEW t \in Thread, NEW frame \in Frame,
         synced, call[t].pc \notin Clearing, Callable(frame), Disposes(frame),
         call' = [call EXCEPT ![t] = frame], mapWriter' \in Thread \cup {NoThread},
         UNCHANGED <<stateByKey, heap, stateChanges, store, synced>>
  PROVE  RegisterInv' /\ CurrentForm
<1>1. RegisterTypeOK'
  BY DEF RegisterInv, RegisterTypeOK
<1>2. \A u \in Thread : call'[u] = IF u = t THEN frame ELSE call[u]
  BY DEF RegisterInv, RegisterTypeOK
<1>3. FramesOK'
  BY <1>2 DEF RegisterInv, FramesOK, Callable
<1>4. KeysApart'
  BY DEF RegisterInv, KeysApart
<1>5. DisposalsApart'
  BY <1>2 DEF RegisterInv, DisposalsApart, Disposes
<1>6. QuietBeforeSync'
  BY DEF QuietBeforeSync
<1>7. \A key \in SetKey : EventsOf(key)' = EventsOf(key)
  BY DEF EventsOf
<1>8. \A key \in SetKey : ~ Dropping(key)' => ~ Dropping(key)
  BY DroppingKept DEF RegisterInv, RegisterTypeOK
<1>9. LastEventIsCurrent'
  BY <1>7, <1>8 DEF RegisterInv, LastEventIsCurrent
<1>10. NoStaleState'
  BY <1>7, <1>8 DEF RegisterInv, NoStaleState
<1>11. CurrentForm
  BY DEF CurrentForm
<1> QED BY <1>1, <1>3, <1>4, <1>5, <1>6, <1>9, <1>10, <1>11 DEF RegisterInv

-----------------------------------------------------------------------------
\* What is on the channel after an event has been sent.
LEMMA EventsAfterSend ==
  ASSUME stateChanges \in Seq(Event), NEW event \in Event,
         stateChanges' = Append(stateChanges, event)
  PROVE  /\ stateChanges' \in Seq(Event)
         /\ Len(stateChanges') = Len(stateChanges) + 1
         /\ \A i \in DOMAIN stateChanges : stateChanges'[i] = stateChanges[i]
         /\ stateChanges'[Len(stateChanges) + 1] = event
         /\ \A key \in SetKey :
              EventsOf(key)' = IF event.key = key THEN EventsOf(key) \cup {Len(stateChanges) + 1}
                               ELSE EventsOf(key)
<1>1. /\ stateChanges' \in Seq(Event)
      /\ Len(stateChanges') = Len(stateChanges) + 1
      /\ \A i \in DOMAIN stateChanges : stateChanges'[i] = stateChanges[i]
      /\ stateChanges'[Len(stateChanges) + 1] = event
  OBVIOUS
<1>2. /\ Len(stateChanges) \in Nat
      /\ DOMAIN stateChanges = 1 .. Len(stateChanges)
      /\ DOMAIN stateChanges' = 1 .. Len(stateChanges) + 1
  BY <1>1
<1>3. DOMAIN stateChanges' = DOMAIN stateChanges \cup {Len(stateChanges) + 1}
  BY <1>2
<1>4. ASSUME NEW key \in SetKey
      PROVE  EventsOf(key)' = IF event.key = key THEN EventsOf(key) \cup {Len(stateChanges) + 1}
                              ELSE EventsOf(key)
  <2>1. EventsOf(key)' = {i \in DOMAIN stateChanges' : stateChanges'[i].key = key}
    BY DEF EventsOf
  <2> QED BY <1>1, <1>3, <2>1 DEF EventsOf
<1> QED BY <1>1, <1>4

\* And after the informer has taken the first one.
LEMMA EventsAfterReceive ==
  ASSUME stateChanges \in Seq(Event), stateChanges # <<>>, stateChanges' = Tail(stateChanges)
  PROVE  /\ stateChanges' \in Seq(Event)
         /\ Len(stateChanges') = Len(stateChanges) - 1
         /\ \A i \in DOMAIN stateChanges' : stateChanges'[i] = stateChanges[i + 1]
         /\ \A key \in SetKey : \A i \in DOMAIN stateChanges :
              i \in EventsOf(key) <=>
                 (i = 1 /\ stateChanges[1].key = key) \/ i - 1 \in EventsOf(key)'
<1>1. /\ stateChanges' \in Seq(Event)
      /\ Len(stateChanges') = Len(stateChanges) - 1
      /\ \A i \in DOMAIN stateChanges' : stateChanges'[i] = stateChanges[i + 1]
  OBVIOUS
<1>2. /\ Len(stateChanges) \in Nat
      /\ DOMAIN stateChanges = 1 .. Len(stateChanges)
      /\ DOMAIN stateChanges' = 1 .. Len(stateChanges) - 1
  BY <1>1
<1>3. ASSUME NEW key \in SetKey, NEW i \in DOMAIN stateChanges
      PROVE  i \in EventsOf(key) <=>
                 (i = 1 /\ stateChanges[1].key = key) \/ i - 1 \in EventsOf(key)'
  <2>1. EventsOf(key)' = {n \in DOMAIN stateChanges' : stateChanges'[n].key = key}
    BY DEF EventsOf
  <2>2. i \in Nat /\ 1 <= i /\ i <= Len(stateChanges)
    BY <1>2
  <2>3. CASE i = 1
    <3>1. i - 1 \notin DOMAIN stateChanges'
      BY <1>2, <2>3
    <3> QED BY <2>1, <2>3, <3>1 DEF EventsOf
  <2>4. CASE i # 1
    <3>1. i - 1 \in DOMAIN stateChanges' /\ (i - 1) + 1 = i
      BY <1>2, <2>2, <2>4
    <3>2. stateChanges'[i - 1] = stateChanges[i]
      BY <1>1, <3>1
    <3> QED BY <2>1, <2>4, <3>1, <3>2 DEF EventsOf
  <2> QED BY <2>3, <2>4
<1> QED BY <1>1, <1>3

-----------------------------------------------------------------------------
\* setState leaves the other keys alone, and an event of its own on the channel.
LEMMA PublishStep ==
  ASSUME RegisterInv, NEW held, Affordable(held), NEW t \in Thread,
         synced, call[t].pc \notin Clearing, call[t].key \in SetKey, Publish(t, held)
  PROVE  RegisterInv' /\ CurrentForm
<1> DEFINE key  == call[t].key
           used == InUse(held)
           obj  == CHOOSE new \in Ptr : new \notin used
           next == [os |-> call[t].os, locked |-> call[t].locked]
           event == [type |-> "put", key |-> key, obj |-> obj]
<1> USE DEF RegisterInv
<1>1. obj \in Ptr /\ obj \notin used
  BY FreePtr DEF Publish
<1>2. /\ call[t] \in Frame
      /\ next \in State
      /\ event \in Event
  <2>1. call[t] \in Frame
    BY DEF RegisterTypeOK
  <2> HIDE DEF obj
  <2> QED BY <1>1, <2>1 DEF Frame, State, Event
<1>3. /\ ~ ChannelFull
      /\ heap' = [p \in Ptr |-> IF p = obj THEN next ELSE IF p \in used THEN heap[p] ELSE NewState]
      /\ stateChanges' = Append(stateChanges, event)
      /\ stateByKey' = [stateByKey EXCEPT ![key] = obj]
      /\ mapWriter' = NoThread
      /\ call' = [call EXCEPT ![t] = Idle]
      /\ UNCHANGED <<store, synced>>
  BY DEF Publish, Return
<1>4. \A other \in SetKey : stateByKey[other] \in used
  BY DEF InUse
<1>5. \A u \in Thread : call[u].obj \in used
  BY DEF InUse
<1> HIDE DEF obj, used, next, event
<1>6. Idle \in Frame
  BY DEF Idle, Frame, Operations, CallSteps
<1>7. RegisterTypeOK'
  <2>1. stateByKey' \in [SetKey -> Ptr \cup {Nil}]
    BY <1>1, <1>3 DEF RegisterTypeOK
  <2>2. NewState \in State
    BY DEF NewState, State
  <2>3. heap' \in [Ptr -> State]
    BY <1>2, <1>3, <2>2 DEF RegisterTypeOK
  <2>4. stateChanges' \in Seq(Event) /\ Len(stateChanges') <= Cap
    <3>1. stateChanges' \in Seq(Event) /\ Len(stateChanges') = Len(stateChanges) + 1
      BY <1>2, <1>3, EventsAfterSend DEF RegisterTypeOK
    <3>2. Len(stateChanges) \in Nat /\ Len(stateChanges) <= Cap /\ Len(stateChanges) # Cap
      BY <1>3 DEF RegisterTypeOK, ChannelFull
    <3> QED BY <3>1, <3>2, RegisterAssumption
  <2>5. call' \in [Thread -> Frame]
    BY <1>3, <1>6 DEF RegisterTypeOK
  <2> QED BY <1>3, <2>1, <2>3, <2>4, <2>5 DEF RegisterTypeOK
<1>8. \A u \in Thread : call'[u] = IF u = t THEN Idle ELSE call[u]
  BY <1>3 DEF RegisterTypeOK
<1>9. \A other \in SetKey : stateByKey'[other] = IF other = key THEN obj ELSE stateByKey[other]
  BY <1>3 DEF RegisterTypeOK
<1>10. Idle.pc = "idle"
  BY DEF Idle
<1>11. FramesOK'
  BY <1>8, <1>10 DEF FramesOK, Callable, Holding
<1>12. KeysApart'
  BY <1>1, <1>4, <1>9 DEF KeysApart
<1>13. DisposalsApart'
  BY <1>1, <1>5, <1>8, <1>9, <1>10 DEF DisposalsApart, Disposes, Clearing
<1>14. QuietBeforeSync'
  BY <1>3 DEF QuietBeforeSync
<1>15. \A other \in SetKey : ~ Dropping(other)' => ~ Dropping(other)
  BY <1>3, DroppingKept DEF RegisterTypeOK
<1>16. /\ event.key = key /\ event.type = "put" /\ event.obj = obj
       /\ Len(stateChanges) \in Nat /\ DOMAIN stateChanges = 1 .. Len(stateChanges)
  BY DEF event, RegisterTypeOK
<1>17. /\ \A i \in DOMAIN stateChanges : stateChanges'[i] = stateChanges[i]
       /\ stateChanges'[Len(stateChanges) + 1] = event
       /\ \A other \in SetKey :
            EventsOf(other)' = IF key = other THEN EventsOf(other) \cup {Len(stateChanges) + 1}
                               ELSE EventsOf(other)
  BY <1>2, <1>3, <1>16, EventsAfterSend DEF RegisterTypeOK
<1>18. \A other \in SetKey : EventsOf(other) \subseteq DOMAIN stateChanges
  BY DEF EventsOf
<1>19. LastEventIsCurrent'
  <2>1. SUFFICES ASSUME NEW other \in SetKey, NEW i \in EventsOf(other)',
                        stateChanges'[i].type = "put", \A j \in EventsOf(other)' : j <= i,
                        ~ Dropping(other)'
                 PROVE  stateByKey'[other] = stateChanges'[i].obj
    BY DEF LastEventIsCurrent
  <2>2. CASE other = key
    <3>1. i \in EventsOf(other) => i <= Len(stateChanges) /\ i \in Nat
      BY <1>16, <1>18
    <3>2. Len(stateChanges) + 1 <= i
      BY <1>17, <2>1, <2>2
    <3>3. i = Len(stateChanges) + 1
      BY <1>16, <1>17, <2>2, <3>1, <3>2
    <3> QED BY <1>9, <1>16, <1>17, <2>2, <3>3
  <2>3. CASE other # key
    BY <1>9, <1>15, <1>17, <1>18, <2>1, <2>3 DEF LastEventIsCurrent
  <2> QED BY <2>2, <2>3
<1>20. NoStaleState'
  <2>1. \A other \in SetKey : EventsOf(other)' = {} => other # key /\ EventsOf(other) = {}
    BY <1>17
  <2> QED BY <1>3, <1>9, <1>15, <2>1 DEF NoStaleState
<1>21. CurrentForm
  <2>1. \A other \in SetKey : other = key => EventsOf(other)' # {}
    BY <1>17
  <2>2. \A p \in Ptr : p \in used => heap'[p] = heap[p]
    BY <1>1, <1>3
  <2>3. \A other \in SetKey : stateByKey[other] \in Ptr \cup {Nil}
    BY DEF RegisterTypeOK
  <2> QED BY <1>4, <1>9, <2>1, <2>2, <2>3 DEF CurrentForm
<1> QED BY <1>7, <1>11, <1>12, <1>13, <1>14, <1>19, <1>20, <1>21

-----------------------------------------------------------------------------
\* deleteState takes the state of its key out of the map.
LEMMA RemoveStateStep ==
  ASSUME RegisterInv, NEW t \in Thread, RemoveState(t)
  PROVE  RegisterInv' /\ CurrentForm
<1> DEFINE key   == call[t].key
           frame == [call[t] EXCEPT !.pc = "clear_objects"]
<1> USE DEF RegisterInv
<1>1. /\ call[t].pc = "remove" /\ call[t] \in Frame
      /\ stateByKey' = [stateByKey EXCEPT ![key] = Nil]
      /\ call' = [call EXCEPT ![t] = frame]
      /\ UNCHANGED <<heap, mapWriter, stateChanges, store, synced>>
  BY DEF RemoveState, Step, RegisterTypeOK
<1>2. /\ key \in SetKey /\ call[t].obj \in Ptr /\ synced
      /\ \A other \in SetKey : stateByKey[other] = call[t].obj => other = key
  BY <1>1 DEF FramesOK, Callable, Holding, QuietBeforeSync, DisposalsApart, Disposes
<1>3. frame \in Frame /\ frame.pc = "clear_objects" /\ frame.key = key /\ frame.obj = call[t].obj
  BY <1>1 DEF Frame, CallSteps
<1> HIDE DEF frame
<1>4. RegisterTypeOK'
  BY <1>1, <1>3 DEF RegisterTypeOK
<1>5. \A u \in Thread : call'[u] = IF u = t THEN frame ELSE call[u]
  BY <1>1 DEF RegisterTypeOK
<1>6. \A other \in SetKey : stateByKey'[other] = IF other = key THEN Nil ELSE stateByKey[other]
  BY <1>1 DEF RegisterTypeOK
<1>7. FramesOK'
  BY <1>2, <1>3, <1>5 DEF FramesOK, Callable
<1>8. KeysApart'
  BY <1>6 DEF KeysApart
<1>9. Nil \notin Ptr
  BY RegisterAssumption DEF Nil, Ptr
<1>10. DisposalsApart'
  <2>1. call'[t].pc # "remove" /\ \A other \in SetKey : stateByKey'[other] # call'[t].obj
    BY <1>2, <1>3, <1>5, <1>6, <1>9
  <2>2. ASSUME NEW u \in Thread, u # t 
      PROVE  /\ call'[u].pc = "remove" =>
                  \A other \in SetKey : stateByKey'[other] = call'[u].obj => other = call'[u].key
             /\ call'[u].pc \in Clearing => \A other \in SetKey : stateByKey'[other] # call'[u].obj
    <3>1. call'[u] = call[u] /\ Disposes(call[u]) /\ Callable(call[u])
      BY <1>5, <2>2 DEF DisposalsApart, FramesOK
    <3> QED BY <1>6, <1>9, <3>1 DEF Disposes, Callable, Holding, Clearing
  <2> QED BY <2>1, <2>2 DEF DisposalsApart, Disposes
<1>11. QuietBeforeSync'
  BY <1>1, <1>2 DEF QuietBeforeSync
<1>12. \A other \in SetKey : other = key => Dropping(other)'
  BY <1>3, <1>5 DEF Dropping, CallsOn
<1>13. \A other \in SetKey : ~ Dropping(other)' => ~ Dropping(other)
  BY <1>1, DroppingKept DEF RegisterTypeOK, Clearing
<1>14. \A other \in SetKey : EventsOf(other)' = EventsOf(other)
  BY <1>1 DEF EventsOf
<1>15. LastEventIsCurrent'
  BY <1>1, <1>6, <1>12, <1>13, <1>14 DEF LastEventIsCurrent
<1>16. NoStaleState'
  BY <1>1, <1>6, <1>12, <1>13, <1>14 DEF NoStaleState
<1>17. CurrentForm
  BY <1>1, <1>6 DEF CurrentForm
<1> QED BY <1>4, <1>7, <1>8, <1>10, <1>11, <1>15, <1>16, <1>17

\* Clearing a state is no change of anything that is registered.
LEMMA ClearStep ==
  ASSUME RegisterInv, NEW t \in Thread, NEW frame \in Frame, NEW cleared \in State,
         call[t].pc \in Clearing, frame.pc \in Clearing,
         frame.key = call[t].key, frame.obj = call[t].obj,
         call' = [call EXCEPT ![t] = frame], heap' = [heap EXCEPT ![call[t].obj] = cleared],
         UNCHANGED <<stateByKey, mapWriter, stateChanges, store, synced>>
  PROVE  RegisterInv' /\ CurrentForm
<1> USE DEF RegisterInv
<1>1. /\ call[t].key \in SetKey /\ call[t].obj \in Ptr /\ synced
      /\ \A key \in SetKey : stateByKey[key] # call[t].obj
  BY DEF FramesOK, Callable, Holding, Clearing, QuietBeforeSync, DisposalsApart, Disposes
<1>2. RegisterTypeOK'
  BY DEF RegisterTypeOK
<1>3. \A u \in Thread : call'[u] = IF u = t THEN frame ELSE call[u]
  BY DEF RegisterTypeOK
<1>4. FramesOK'
  BY <1>1, <1>3 DEF FramesOK, Callable
<1>5. KeysApart'
  BY DEF KeysApart
<1>6. DisposalsApart'
  BY <1>1, <1>3 DEF DisposalsApart, Disposes, Clearing
<1>7. QuietBeforeSync'
  BY <1>1 DEF QuietBeforeSync
<1>8. \A key \in SetKey : EventsOf(key)' = EventsOf(key) /\ (Dropping(key) => Dropping(key)')
  BY <1>3 DEF EventsOf, Dropping, CallsOn, Clearing
<1>9. LastEventIsCurrent'
  BY <1>8 DEF LastEventIsCurrent
<1>10. NoStaleState'
  BY <1>8 DEF NoStaleState
<1>11. CurrentForm
  BY <1>1 DEF CurrentForm, RegisterTypeOK
<1> QED BY <1>2, <1>4, <1>5, <1>6, <1>7, <1>9, <1>10, <1>11

\* Delete empties the state that it has taken out of the map.
LEMMA ClearObjectsStep ==
  ASSUME RegisterInv, NEW t \in Thread, ClearObjects(t)
  PROVE  RegisterInv' /\ CurrentForm
<1> DEFINE frame   == [call[t] EXCEPT !.pc = "clear_locked"]
           cleared == [heap[call[t].obj] EXCEPT !.os = NoObjects]
<1>1. call[t] \in Frame /\ heap \in [Ptr -> State] /\ call \in [Thread -> Frame]
  BY DEF RegisterInv, RegisterTypeOK
<1>2. /\ call[t].pc = "clear_objects"
      /\ heap' = [heap EXCEPT ![call[t].obj] = cleared]
      /\ call' = [call EXCEPT ![t] = frame]
      /\ UNCHANGED <<stateByKey, mapWriter, stateChanges, store, synced>>
  BY <1>1 DEF ClearObjects, Step
<1>3. call[t].obj \in Ptr
  BY <1>2 DEF RegisterInv, FramesOK, Callable, Holding
<1>4. /\ frame \in Frame /\ frame.pc = "clear_locked"
      /\ frame.key = call[t].key /\ frame.obj = call[t].obj
  BY <1>1 DEF Frame, CallSteps
<1>5. cleared \in State
  BY <1>1, <1>3 DEF State
<1> HIDE DEF frame, cleared
<1>6. call[t].pc \in Clearing /\ frame.pc \in Clearing
  BY <1>2, <1>4 DEF Clearing
<1> QED BY <1>2, <1>4, <1>5, <1>6, ClearStep

\* Delete unlocks the state that it has taken out of the map.
LEMMA ClearLockedStep ==
  ASSUME RegisterInv, NEW t \in Thread, ClearLocked(t)
  PROVE  RegisterInv' /\ CurrentForm
<1> DEFINE frame   == [call[t] EXCEPT !.pc = "send_deleted"]
           cleared == [heap[call[t].obj] EXCEPT !.locked = FALSE]
<1>1. call[t] \in Frame /\ heap \in [Ptr -> State] /\ call \in [Thread -> Frame]
  BY DEF RegisterInv, RegisterTypeOK
<1>2. /\ call[t].pc = "clear_locked"
      /\ heap' = [heap EXCEPT ![call[t].obj] = cleared]
      /\ call' = [call EXCEPT ![t] = frame]
      /\ UNCHANGED <<stateByKey, mapWriter, stateChanges, store, synced>>
  BY <1>1 DEF ClearLocked, Step
<1>3. call[t].obj \in Ptr
  BY <1>2 DEF RegisterInv, FramesOK, Callable, Holding
<1>4. /\ frame \in Frame /\ frame.pc = "send_deleted"
      /\ frame.key = call[t].key /\ frame.obj = call[t].obj
  BY <1>1 DEF Frame, CallSteps
<1>5. cleared \in State
  BY <1>1, <1>3 DEF State
<1> HIDE DEF frame, cleared
<1>6. call[t].pc \in Clearing /\ frame.pc \in Clearing
  BY <1>2, <1>4 DEF Clearing
<1> QED BY <1>2, <1>4, <1>5, <1>6, ClearStep

\* The event of a deletion is no put, and it covers for the end of the deletion.
LEMMA SendDeletedStep ==
  ASSUME RegisterInv, NEW t \in Thread, SendDeleted(t)
  PROVE  RegisterInv' /\ CurrentForm
<1> DEFINE key   == call[t].key
           frame == [call[t] EXCEPT !.pc = "on_remove", !.obj = Nil]
           event == [type |-> "deleted", key |-> key, obj |-> call[t].obj]
<1> USE DEF RegisterInv
<1>1. /\ call[t].pc = "send_deleted" /\ call[t] \in Frame
      /\ ~ ChannelFull
      /\ stateChanges' = Append(stateChanges, event)
      /\ call' = [call EXCEPT ![t] = frame]
      /\ UNCHANGED <<stateByKey, heap, mapWriter, store, synced>>
  BY DEF SendDeleted, RegisterTypeOK
<1>2. key \in SetKey /\ call[t].obj \in Ptr /\ synced
  BY <1>1 DEF FramesOK, Callable, Holding, QuietBeforeSync
<1>3. frame \in Frame /\ frame.pc = "on_remove" /\ frame.key = key
  BY <1>1 DEF Frame, CallSteps
<1>4. event \in Event /\ event.key = key /\ event.type = "deleted"
  BY <1>2 DEF Event
<1> HIDE DEF frame, event
<1>5. /\ Len(stateChanges) \in Nat /\ DOMAIN stateChanges = 1 .. Len(stateChanges)
      /\ Len(stateChanges) <= Cap /\ Len(stateChanges) # Cap
  BY <1>1 DEF RegisterTypeOK, ChannelFull
<1>6. /\ stateChanges' \in Seq(Event)
      /\ Len(stateChanges') = Len(stateChanges) + 1
      /\ \A i \in DOMAIN stateChanges : stateChanges'[i] = stateChanges[i]
      /\ stateChanges'[Len(stateChanges) + 1] = event
      /\ \A other \in SetKey :
           EventsOf(other)' = IF key = other THEN EventsOf(other) \cup {Len(stateChanges) + 1}
                              ELSE EventsOf(other)
  BY <1>1, <1>4, EventsAfterSend DEF RegisterTypeOK
<1>7. Len(stateChanges') <= Cap
  <2>1. Len(stateChanges') = Len(stateChanges) + 1
    BY <1>6
  <2>2. Len(stateChanges) \in Nat /\ Len(stateChanges) <= Cap /\ Len(stateChanges) # Cap
    BY <1>5
  <2> QED BY <2>1, <2>2, RegisterAssumption
<1>8. RegisterTypeOK'
  BY <1>1, <1>3, <1>6, <1>7 DEF RegisterTypeOK
<1>9. \A u \in Thread : call'[u] = IF u = t THEN frame ELSE call[u]
  BY <1>1 DEF RegisterTypeOK
<1>10. FramesOK'
  BY <1>2, <1>3, <1>9 DEF FramesOK, Callable, Holding
<1>11. KeysApart'
  BY <1>1 DEF KeysApart
<1>12. DisposalsApart'
  BY <1>1, <1>3, <1>9 DEF DisposalsApart, Disposes, Clearing
<1>13. QuietBeforeSync'
  BY <1>1, <1>2 DEF QuietBeforeSync
<1>14. \A other \in SetKey : other # key /\ Dropping(other) => Dropping(other)'
  BY <1>9 DEF Dropping, CallsOn
<1>15. \A other \in SetKey : EventsOf(other) \subseteq DOMAIN stateChanges
  BY DEF EventsOf
<1>16. LastEventIsCurrent'
  <2>1. SUFFICES ASSUME NEW other \in SetKey, NEW i \in EventsOf(other)',
                        stateChanges'[i].type = "put", \A j \in EventsOf(other)' : j <= i,
                        ~ Dropping(other)'
                 PROVE  stateByKey'[other] = stateChanges'[i].obj
    BY DEF LastEventIsCurrent
  <2>2. CASE other = key
    <3>1. i \in EventsOf(other) => i <= Len(stateChanges) /\ i \in Nat
      BY <1>5, <1>15
    <3>2. Len(stateChanges) + 1 <= i
      BY <1>6, <2>1, <2>2
    <3>3. i = Len(stateChanges) + 1
      BY <1>5, <1>6, <2>2, <3>1, <3>2
    <3> QED BY <1>4, <1>6, <2>1, <3>3
  <2>3. CASE other # key
    BY <1>1, <1>6, <1>14, <1>15, <2>1, <2>3 DEF LastEventIsCurrent
  <2> QED BY <2>2, <2>3
<1>17. NoStaleState'
  <2>1. \A other \in SetKey : EventsOf(other)' = {} => other # key /\ EventsOf(other) = {}
    BY <1>6
  <2> QED BY <1>1, <1>14, <2>1 DEF NoStaleState
<1>18. CurrentForm
  BY <1>1 DEF CurrentForm
<1> QED BY <1>8, <1>10, <1>11, <1>12, <1>13, <1>16, <1>17, <1>18

-----------------------------------------------------------------------------
\* The informer lists an empty register.
LEMMA RunStep ==
  ASSUME RegisterInv, Run
  PROVE  RegisterInv' /\ CurrentForm
<1> USE DEF RegisterInv
<1>1. /\ synced' = TRUE /\ store' = stateByKey
      /\ UNCHANGED <<stateByKey, heap, mapWriter, stateChanges, call>>
  BY DEF Run
<1>2. RegisterTypeOK'
  BY <1>1 DEF RegisterTypeOK
<1>3. FramesOK' /\ KeysApart' /\ DisposalsApart' /\ QuietBeforeSync'
  BY <1>1 DEF FramesOK, KeysApart, DisposalsApart, Disposes, QuietBeforeSync
<1>4. LastEventIsCurrent'
  BY <1>1 DEF LastEventIsCurrent, EventsOf, Dropping, CallsOn
<1>5. NoStaleState'
  BY <1>1 DEF NoStaleState
<1>6. CurrentForm
  BY <1>1 DEF CurrentForm
<1> QED BY <1>2, <1>3, <1>4, <1>5, <1>6

\* The informer serves what the event carries, which is current when it is the last one.
LEMMA ReceiveStep ==
  ASSUME RegisterInv, Receive
  PROVE  RegisterInv' /\ CurrentForm
<1> DEFINE event == stateChanges[1]
<1> USE DEF RegisterInv
<1>1. /\ synced /\ stateChanges # <<>> /\ stateChanges' = Tail(stateChanges)
      /\ store' = [store EXCEPT ![event.key] = IF event.type = "deleted" THEN Nil ELSE event.obj]
      /\ UNCHANGED <<stateByKey, heap, mapWriter, synced, call>>
  <2>1. stateChanges # <<>> => Head(stateChanges) = stateChanges[1]
    BY DEF RegisterTypeOK
  <2> QED BY <2>1 DEF Receive
<1>2. /\ Len(stateChanges) \in Nat /\ Len(stateChanges) <= Cap
      /\ DOMAIN stateChanges = 1 .. Len(stateChanges) /\ 1 \in DOMAIN stateChanges
      /\ event \in Event
  BY <1>1 DEF RegisterTypeOK
<1>3. /\ stateChanges' \in Seq(Event)
      /\ Len(stateChanges') = Len(stateChanges) - 1
      /\ \A i \in DOMAIN stateChanges' : stateChanges'[i] = stateChanges[i + 1]
      /\ \A key \in SetKey : \A i \in DOMAIN stateChanges :
           i \in EventsOf(key) <=> (i = 1 /\ event.key = key) \/ i - 1 \in EventsOf(key)'
  BY <1>1, EventsAfterReceive DEF RegisterTypeOK
<1>4. DOMAIN stateChanges' = 1 .. Len(stateChanges) - 1
  BY <1>2, <1>3
<1>5. /\ \A key \in SetKey : EventsOf(key) \subseteq DOMAIN stateChanges
      /\ \A key \in SetKey : EventsOf(key)' \subseteq DOMAIN stateChanges'
  BY DEF EventsOf
<1>6. event.key \in SetKey /\ event.obj \in Ptr /\ event.type \in {"put", "deleted"}
  BY <1>2 DEF Event
<1>7. event.key \in SetKey /\ 1 \in EventsOf(event.key)
  BY <1>2, <1>6 DEF EventsOf
<1> HIDE DEF event
<1>8. RegisterTypeOK'
  <2>1. Len(stateChanges') <= Cap
    BY <1>2, <1>3, RegisterAssumption
  <2> QED BY <1>1, <1>3, <1>6, <2>1 DEF RegisterTypeOK
<1>9. FramesOK' /\ KeysApart' /\ DisposalsApart' /\ QuietBeforeSync'
  BY <1>1 DEF FramesOK, KeysApart, DisposalsApart, Disposes, QuietBeforeSync
<1>10. \A key \in SetKey : Dropping(key)' = Dropping(key)
  BY <1>1 DEF Dropping, CallsOn
<1>11. ASSUME NEW key \in SetKey, NEW i \in EventsOf(key)'
       PROVE  i \in Nat /\ i + 1 \in EventsOf(key) /\ stateChanges'[i] = stateChanges[i + 1]
  <2>1. i \in DOMAIN stateChanges' /\ i \in Nat /\ i + 1 \in DOMAIN stateChanges /\ (i + 1) - 1 = i
    BY <1>2, <1>4, <1>5
  <2> QED BY <1>3, <2>1
<1>12. ASSUME NEW key \in SetKey, NEW j \in EventsOf(key)
       PROVE  j \in Nat /\ 1 <= j /\ ((j = 1 /\ event.key = key) \/ j - 1 \in EventsOf(key)')
  BY <1>2, <1>3, <1>5
<1>13. LastEventIsCurrent'
  <2>1. SUFFICES ASSUME NEW key \in SetKey, NEW i \in EventsOf(key)',
                        stateChanges'[i].type = "put", \A j \in EventsOf(key)' : j <= i,
                        ~ Dropping(key)'
                 PROVE  stateByKey'[key] = stateChanges'[i].obj
    BY DEF LastEventIsCurrent
  <2>2. \A j \in EventsOf(key) : j <= i + 1
    BY <1>11, <1>12, <2>1
  <2> QED BY <1>1, <1>10, <1>11, <2>1, <2>2 DEF LastEventIsCurrent
<1>14. NoStaleState'
  <2>1. SUFFICES ASSUME NEW key \in SetKey, EventsOf(key)' = {}, ~ Dropping(key)'
                 PROVE  store'[key] \in {Nil, stateByKey'[key]}
    BY DEF NoStaleState
  <2>2. \A j \in EventsOf(key) : j = 1 /\ event.key = key
    BY <1>12, <2>1
  <2>3. CASE event.key = key
    <3>1. store'[key] = IF event.type = "deleted" THEN Nil ELSE event.obj
      BY <1>1, <2>3 DEF RegisterTypeOK
    <3>2. event.type = "put" => stateByKey[key] = event.obj
      BY <1>7, <1>10, <2>1, <2>2, <2>3 DEF LastEventIsCurrent, event
    <3> QED BY <1>1, <1>6, <3>1, <3>2
  <2>4. CASE event.key # key
    <3>1. EventsOf(key) = {} /\ store'[key] = store[key]
      BY <1>1, <2>2, <2>4 DEF RegisterTypeOK
    <3> QED BY <1>1, <1>10, <2>1, <3>1 DEF NoStaleState
  <2> QED BY <2>3, <2>4
<1>15. CurrentForm
  BY <1>1 DEF CurrentForm
<1> QED BY <1>8, <1>9, <1>13, <1>14, <1>15

-----------------------------------------------------------------------------
\* Starting a call: one that deletes holds the state that its key is registered with.
LEMMA BeginStep ==
  ASSUME RegisterInv, NEW t \in Thread, NEW frame \in Frame,
         Callable(frame), Disposes(frame), Begin(t, frame)
  PROVE  RegisterInv' /\ CurrentForm
<1>1. mapWriter' \in Thread \cup {NoThread} /\ call[t].pc \notin Clearing
  BY DEF Begin, RegisterInv, RegisterTypeOK, Clearing
<1> QED BY <1>1, FrameStep DEF Begin

\* A call of Set begins: it holds no state yet.
LEMMA StartSetStep ==
  ASSUME RegisterInv, NEW t \in Thread, NEW key \in SetKey, NEW os \in ObjectSet,
         StartSet(t, key, os)
  PROVE  RegisterInv' /\ CurrentForm
<1> DEFINE frame == [Idle EXCEPT !.op = "set", !.pc = "store", !.key = key, !.os = os,
                                 !.locked = TRUE]
<1>1. frame \in Frame /\ Callable(frame) /\ Disposes(frame)
  BY DEF Idle, Frame, Operations, CallSteps, Callable, Holding, Disposes, Clearing
<1>2. Begin(t, frame)
  BY DEF StartSet
<1> HIDE DEF frame
<1> QED BY <1>1, <1>2, BeginStep

\* A call of Enqueue begins: it holds no state yet.
LEMMA StartEnqueueStep ==
  ASSUME RegisterInv, NEW t \in Thread, NEW key \in SetKey, StartEnqueue(t, key)
  PROVE  RegisterInv' /\ CurrentForm
<1> DEFINE frame == [Idle EXCEPT !.op = "enqueue", !.pc = "get", !.key = key]
<1>1. frame \in Frame /\ Callable(frame) /\ Disposes(frame)
  BY DEF Idle, Frame, Operations, CallSteps, Callable, Holding, Disposes, Clearing
<1>2. Begin(t, frame)
  BY DEF StartEnqueue
<1> HIDE DEF frame
<1> QED BY <1>1, <1>2, BeginStep

\* A call of Delete begins with the state that the map holds for its key.
LEMMA StartDeleteStep ==
  ASSUME RegisterInv, NEW t \in Thread, NEW key \in SetKey, NEW op \in Operations,
         StartDelete(t, key, op)
  PROVE  RegisterInv' /\ CurrentForm
<1> DEFINE obj   == stateByKey[key]
           frame == [Idle EXCEPT !.op = op, !.key = key, !.obj = obj,
                                 !.pc = IF obj = Nil THEN "on_remove" ELSE "remove"]
<1>1. /\ obj \in Ptr \cup {Nil}
      /\ \A other \in SetKey : stateByKey[other] = obj /\ obj # Nil => other = key
  BY DEF RegisterInv, RegisterTypeOK, KeysApart
<1>2. /\ frame \in Frame /\ frame.key = key /\ frame.obj = obj
      /\ frame.pc = IF obj = Nil THEN "on_remove" ELSE "remove"
  BY <1>1 DEF Idle, Frame, Operations, CallSteps
<1>3. Begin(t, frame)
  BY DEF StartDelete
<1> HIDE DEF frame, obj
<1>4. Callable(frame) /\ Disposes(frame)
  BY <1>1, <1>2 DEF Callable, Holding, Disposes, Clearing
<1> QED BY <1>2, <1>3, <1>4, BeginStep

\* The steps that copy the state that is registered.
LEMMA CopyStep ==
  ASSUME RegisterInv, NEW t \in Thread, GetOriginal(t) \/ CopyObjects(t) \/ CopyLocked(t)
  PROVE  RegisterInv' /\ CurrentForm
<1>1. call[t] \in Frame /\ heap \in [Ptr -> State] /\ call \in [Thread -> Frame]
  BY DEF RegisterInv, RegisterTypeOK
<1>2. /\ call[t].pc \in {"get", "copy_objects", "copy_locked"} /\ call[t].pc \notin Clearing
      /\ UNCHANGED <<stateByKey, heap, mapWriter, stateChanges, store, synced>>
  BY DEF GetOriginal, CopyObjects, CopyLocked, Clearing
<1>3. /\ synced /\ call[t].key \in SetKey /\ mapWriter' \in Thread \cup {NoThread}
      /\ call[t].pc # "get" => call[t].obj \in Ptr
  BY <1>2 DEF RegisterInv, RegisterTypeOK, QuietBeforeSync, FramesOK, Callable, Holding
<1>4. CASE GetOriginal(t)
  <2> DEFINE obj   == stateByKey[call[t].key]
             frame == [call[t] EXCEPT !.pc = IF obj = Nil THEN "store" ELSE "copy_objects",
                                      !.obj = obj]
  <2>1. obj \in Ptr \cup {Nil} /\ call' = [call EXCEPT ![t] = frame]
    BY <1>1, <1>3, <1>4 DEF GetOriginal, RegisterInv, RegisterTypeOK
  <2>2. /\ frame \in Frame /\ frame.key = call[t].key /\ frame.obj = obj
        /\ frame.pc = IF obj = Nil THEN "store" ELSE "copy_objects"
    BY <1>1, <2>1 DEF Frame, CallSteps
  <2> HIDE DEF obj, frame
  <2>3. Callable(frame) /\ Disposes(frame)
    BY <1>3, <2>1, <2>2 DEF Callable, Holding, Disposes, Clearing
  <2> QED BY <1>2, <1>3, <2>1, <2>2, <2>3, FrameStep
<1>5. CASE CopyObjects(t)
  <2> DEFINE frame == [call[t] EXCEPT !.pc = "copy_locked", !.os = heap[call[t].obj].os]
  <2>1. call' = [call EXCEPT ![t] = frame] /\ call[t].obj \in Ptr
    BY <1>1, <1>3, <1>5 DEF CopyObjects
  <2>2. heap[call[t].obj].os \in ObjectSet \cup {NoObjects}
    BY <1>1, <2>1 DEF State
  <2>3. /\ frame \in Frame /\ frame.key = call[t].key /\ frame.obj = call[t].obj
        /\ frame.pc = "copy_locked"
    BY <1>1, <2>2 DEF Frame, CallSteps
  <2> HIDE DEF frame
  <2>4. Callable(frame) /\ Disposes(frame)
    BY <1>3, <2>1, <2>3 DEF Callable, Holding, Disposes, Clearing
  <2> QED BY <1>2, <1>3, <2>1, <2>3, <2>4, FrameStep
<1>6. CASE CopyLocked(t)
  <2> DEFINE frame == [call[t] EXCEPT !.pc = "store", !.obj = Nil,
                                      !.locked = heap[call[t].obj].locked]
  <2>1. call' = [call EXCEPT ![t] = frame] /\ call[t].obj \in Ptr
    BY <1>1, <1>3, <1>6 DEF CopyLocked
  <2>2. heap[call[t].obj].locked \in BOOLEAN
    BY <1>1, <2>1 DEF State
  <2>3. /\ frame \in Frame /\ frame.key = call[t].key /\ frame.pc = "store"
    BY <1>1, <2>2 DEF Frame, CallSteps
  <2> HIDE DEF frame
  <2>4. Callable(frame) /\ Disposes(frame)
    BY <1>3, <2>3 DEF Callable, Holding, Disposes, Clearing
  <2> QED BY <1>2, <1>3, <2>1, <2>3, <2>4, FrameStep
<1> QED BY <1>4, <1>5, <1>6

\* A sender that blocks holds stateMapLock.
LEMMA BlockOnSendStep ==
  ASSUME RegisterInv, NEW t \in Thread, BlockOnSend(t)
  PROVE  RegisterInv' /\ CurrentForm
<1> DEFINE frame == [call[t] EXCEPT !.pc = "send"]
<1>1. call[t] \in Frame /\ call \in [Thread -> Frame]
  BY DEF RegisterInv, RegisterTypeOK
<1>2. /\ call[t].pc = "store" /\ mapWriter' \in Thread \cup {NoThread}
      /\ call' = [call EXCEPT ![t] = frame]
      /\ UNCHANGED <<stateByKey, heap, stateChanges, store, synced>>
  BY <1>1 DEF BlockOnSend, Step
<1>3. frame \in Frame /\ frame.key = call[t].key /\ frame.pc = "send"
  BY <1>1 DEF Frame, CallSteps
<1> HIDE DEF frame
<1>4. synced /\ call[t].key \in SetKey /\ call[t].pc \notin Clearing
  BY <1>2 DEF RegisterInv, QuietBeforeSync, FramesOK, Callable, Clearing
<1>5. Callable(frame) /\ Disposes(frame)
  BY <1>3, <1>4 DEF Callable, Holding, Disposes, Clearing
<1> QED BY <1>2, <1>3, <1>4, <1>5, FrameStep

\* Every step of a call before its callback.
LEMMA CallStepInv ==
  ASSUME RegisterInv, NEW held, Affordable(held), NEW t \in Thread, CallStep(t, held)
  PROVE  RegisterInv' /\ CurrentForm
<1>1. CASE GetOriginal(t) \/ CopyObjects(t) \/ CopyLocked(t)
  BY <1>1, CopyStep
<1>2. CASE StoreState(t, held) \/ UnblockSend(t, held)
  <2>1. Publish(t, held) /\ call[t].pc \in {"store", "send"}
    BY <1>2 DEF StoreState, UnblockSend
  <2>2. synced /\ call[t].pc \notin Clearing /\ call[t].key \in SetKey
    BY <2>1 DEF RegisterInv, QuietBeforeSync, FramesOK, Callable, Clearing
  <2> QED BY <2>1, <2>2, PublishStep
<1>3. CASE BlockOnSend(t)
  BY <1>3, BlockOnSendStep
<1>4. CASE RemoveState(t)
  BY <1>4, RemoveStateStep
<1>5. CASE ClearObjects(t)
  BY <1>5, ClearObjectsStep
<1>6. CASE ClearLocked(t)
  BY <1>6, ClearLockedStep
<1>7. CASE SendDeleted(t)
  BY <1>7, SendDeletedStep
<1> QED BY <1>1, <1>2, <1>3, <1>4, <1>5, <1>6, <1>7 DEF CallStep

\* A call that has nothing left to do to the register moves on to or through its callback.
LEMMA CallbackStep ==
  ASSUME RegisterInv, NEW t \in Thread, NEW frame \in Frame,
         call[t].pc \in {"on_remove", "list_owned", "delete_owned"},
         frame.pc \in {"idle", "list_owned", "delete_owned"},
         frame.pc # "idle" => frame.key \in SetKey,
         call' = [call EXCEPT ![t] = frame],
         UNCHANGED <<stateByKey, heap, mapWriter, stateChanges, store, synced>>
  PROVE  RegisterInv' /\ CurrentForm
<1>1. synced /\ mapWriter' \in Thread \cup {NoThread} /\ call[t].pc \notin Clearing
  BY DEF RegisterInv, RegisterTypeOK, QuietBeforeSync, Clearing
<1>2. Callable(frame) /\ Disposes(frame)
  BY DEF Callable, Holding, Disposes, Clearing
<1> QED BY <1>1, <1>2, FrameStep

\* RegisterInv holds of an empty register.
LEMMA RegisterInitInv == RegisterInit => RegisterInv
<1> SUFFICES ASSUME RegisterInit PROVE RegisterInv
  OBVIOUS
<1>1. Idle \in Frame /\ NewState \in State /\ Idle.pc = "idle"
  BY DEF Idle, Frame, Operations, CallSteps, NewState, State
<1>2. stateChanges \in Seq(Event) /\ Len(stateChanges) <= Cap /\ DOMAIN stateChanges = {}
  BY RegisterAssumption DEF RegisterInit
<1>3. RegisterTypeOK
  BY <1>1, <1>2 DEF RegisterInit, RegisterTypeOK
<1>4. \A t \in Thread : call[t].pc = "idle"
  BY <1>1 DEF RegisterInit
<1>5. \A key \in SetKey : stateByKey[key] = Nil /\ store[key] = Nil
  BY DEF RegisterInit
<1>6. FramesOK /\ KeysApart /\ DisposalsApart /\ QuietBeforeSync
  BY <1>4, <1>5 DEF FramesOK, Callable, Holding, KeysApart, DisposalsApart, Disposes, Clearing,
                    QuietBeforeSync
<1>7. LastEventIsCurrent /\ NoStaleState
  BY <1>2, <1>5 DEF LastEventIsCurrent, NoStaleState, EventsOf
<1> QED BY <1>3, <1>6, <1>7 DEF RegisterInv

\* Nothing happens to the register and its callers.
LEMMA RegisterStutters ==
  ASSUME RegisterInv, UNCHANGED registerVars
  PROVE  RegisterInv' /\ CurrentForm
BY DEF registerVars, RegisterInv, RegisterTypeOK, FramesOK, KeysApart, DisposalsApart, Disposes,
       QuietBeforeSync, LastEventIsCurrent, NoStaleState, EventsOf, Dropping, CallsOn, CurrentForm

\* RegisterInv is inductive.
LEMMA RegisterStepInv == RegisterInv /\ [RegisterNext]_registerVars => RegisterInv'
<1> SUFFICES ASSUME RegisterInv, [RegisterNext]_registerVars PROVE RegisterInv'
  OBVIOUS
<1>1. CASE Run
  BY <1>1, RunStep
<1>2. CASE Receive
  BY <1>2, ReceiveStep
<1>3. ASSUME NEW t \in Thread, CallStep(t, {})
      PROVE  RegisterInv'
  <2>1. Affordable({})
    <3>1. IsFiniteSet({}) /\ Cardinality({}) = 0
      BY FS_EmptySet
    <3>2. Cardinality(SetKey) \in Nat /\ Cardinality(Thread) \in Nat
      BY RegisterAssumption, FS_CardinalityType
    <3> QED BY <3>1, <3>2, RegisterAssumption, HeapAssumption DEF Affordable
  <2> QED BY <1>3, <2>1, CallStepInv
<1>4. ASSUME NEW t \in Thread, TriggerOnDelete(t)
      PROVE  RegisterInv'
  <2>1. Idle \in Frame /\ Idle.pc = "idle"
    BY DEF Idle, Frame, Operations, CallSteps
  <2> QED BY <1>4, <2>1, CallbackStep DEF TriggerOnDelete, Return
<1>5. ASSUME NEW t \in Thread, NEW key \in SetKey, StartCall(t, key)
      PROVE  RegisterInv'
  <2>1. "delete" \in Operations
    BY DEF Operations
  <2> QED BY <1>5, <2>1, StartEnqueueStep, StartSetStep, StartDeleteStep DEF StartCall
<1>6. CASE UNCHANGED registerVars
  BY <1>6, RegisterStutters
<1> QED BY <1>1, <1>2, <1>3, <1>4, <1>5, <1>6 DEF RegisterNext

\* The inductive invariant of the register.
LEMMA RegisterInvariant == RegisterSpec => []RegisterInv
BY RegisterInitInv, RegisterStepInv, PTL DEF RegisterSpec

-----------------------------------------------------------------------------
\* The register, its channel and the frames of its callers have their types, and the channel
\* never holds more than it can, with a new state found at every setState.
THEOREM RegisterTypeCorrect == RegisterSpec => []RegisterTypeOK
<1>1. RegisterInv => RegisterTypeOK
  BY DEF RegisterInv
<1> QED BY <1>1, RegisterInvariant, PTL

\* Once the events of a key are taken and no deletion of it is half done, the informer serves
\* what is registered or nothing (Set, Enqueue and Delete from any number of goroutines).
THEOREM NoStaleStateCorrect == RegisterSpec => []NoStaleState
<1>1. RegisterInv => NoStaleState
  BY DEF RegisterInv
<1> QED BY <1>1, RegisterInvariant, PTL

\* The channel carries the states of a key in the order in which they were registered.
THEOREM LastEventIsCurrentCorrect == RegisterSpec => []LastEventIsCurrent
<1>1. RegisterInv => LastEventIsCurrent
  BY DEF RegisterInv
<1> QED BY <1>1, RegisterInvariant, PTL
=============================================================================
