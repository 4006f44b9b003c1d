------------------------- MODULE ObjectSetRegister -------------------------
(***************************************************************************)
(* The LockableRegister of pkg/objectset/cache.go: the desired state of    *)
(* every object set, and the channel that carries its changes to the       *)
(* informer the register is also the ListerWatcher of.                     *)
(*                                                                         *)
(* An objectSetState is shared by pointer between stateByKey, the events   *)
(* on the channel, the informer's store and whoever is using it, and       *)
(* deleteState writes to it, so the states live in a heap and everything   *)
(* else holds pointers.  A caller is between two of the code's accesses to *)
(* shared state at every value of its frame's pc.                          *)
(***************************************************************************)
EXTENDS ObjectSets, Naturals, Sequences, FiniteSets

CONSTANTS
  Thread,      \* goroutines that call the register
  MaxPtr,      \* bound: how many objectSetStates can be live at once
  Cap,         \* capacity of the stateChanges channel (50 in the code)
  NoObjects,   \* the nil ObjectSet pointer
  NoThread     \* nobody holds stateMapLock for writing

Ptr == 1 .. MaxPtr
Nil == 0

ASSUME RegisterAssumption ==
  /\ MaxPtr \in Nat
  /\ Cap \in Nat \ {0}
  /\ NoObjects \notin ObjectSet
  /\ NoThread \notin Thread
  /\ IsFiniteSet(SetKey)
  /\ IsFiniteSet(Thread)

\* Enough for a new state to be found at all times, as Go's allocator finds one: a pointer for
\* each key in stateByKey and in the store, for each event and for each thread.
ASSUME HeapAssumption ==
  MaxPtr >= 2 * Cardinality(SetKey) + Cap + Cardinality(Thread)

VARIABLES
  stateByKey,    \* desired state: key -> pointer, Nil when the key is not in the map
  heap,          \* the objectSetStates, by pointer
  mapWriter,     \* the thread that holds stateMapLock for writing, across a blocked send
  stateChanges,  \* the channel of watch events
  store,         \* the informer's store: key -> pointer
  synced,        \* the informer has listed and started to watch the register
  call           \* the frame of each thread

registerVars == <<stateByKey, heap, mapWriter, stateChanges, store, synced, call>>

-----------------------------------------------------------------------------
State == [os : ObjectSet \cup {NoObjects}, locked : BOOLEAN]

\* newObjectSetState: no objects, not locked.
NewState == [os |-> NoObjects, locked |-> FALSE]

Event == [type : {"put", "deleted"}, key : SetKey, obj : Ptr]

Operations == {"none", "set", "enqueue", "delete", "purge"}

CallSteps == {"idle", "get", "copy_objects", "copy_locked", "store", "send", "remove",
              "clear_objects", "clear_locked", "send_deleted", "on_remove",
              "list_owned", "delete_owned"}

\* obj is the state that getState returned; os and locked are the fields of the next state.
Frame == [op : Operations, pc : CallSteps, key : SetKey \cup {NoKey}, obj : Ptr \cup {Nil},
          os : ObjectSet \cup {NoObjects}, locked : BOOLEAN]

Idle == [op |-> "none", pc |-> "idle", key |-> NoKey, obj |-> Nil,
         os |-> NoObjects, locked |-> FALSE]

RegisterTypeOK ==
  /\ stateByKey \in [SetKey -> Ptr \cup {Nil}]
  /\ heap \in [Ptr -> State]
  /\ mapWriter \in Thread \cup {NoThread}
  /\ stateChanges \in Seq(Event)
  /\ Len(stateChanges) <= Cap
  /\ store \in [SetKey -> Ptr \cup {Nil}]
  /\ synced \in BOOLEAN
  /\ call \in [Thread -> Frame]

\* A reader of stateByKey waits while a writer holds stateMapLock.
CanRead == mapWriter = NoThread

\* Mutant: one event too many.
ChannelFull_OffByOne == Len(stateChanges) > Cap

ChannelFull == Len(stateChanges) = Cap

Step(t, pc) == call' = [call EXCEPT ![t].pc = pc]

Return(t) == call' = [call EXCEPT ![t] = Idle]

CallsOn(key) == {t \in Thread : call[t].key = key}

EventsOf(key) == {i \in DOMAIN stateChanges : stateChanges[i].key = key}

\* The state of key as the informer serves it.
Served(key) == IF store[key] = Nil THEN NewState ELSE heap[store[key]]

RegisterInit ==
  /\ stateByKey = [key \in SetKey |-> Nil]
  /\ heap = [obj \in Ptr |-> NewState]
  /\ mapWriter = NoThread
  /\ stateChanges = <<>>
  /\ store = [key \in SetKey |-> Nil]
  /\ synced = FALSE
  /\ call = [t \in Thread |-> Idle]

-----------------------------------------------------------------------------
\* Run: init, gvkWatcher.Start and the informer's List and Watch.  The register is empty and
\* nothing calls it yet, because the starters run in order and each one waits for its cache.
Run ==
  /\ ~ synced
  /\ CanRead
  /\ synced' = TRUE
  /\ store' = stateByKey
  /\ UNCHANGED <<stateByKey, heap, mapWriter, stateChanges, call>>

\* Mutant: the register can be called before its informer has listed it.
Begin_BeforeSync(t, frame) ==
  /\ call[t].pc = "idle"
  /\ call' = [call EXCEPT ![t] = frame]
  /\ UNCHANGED <<stateByKey, heap, mapWriter, stateChanges, store, synced>>

Begin(t, frame) ==
  /\ synced
  /\ call[t].pc = "idle"
  /\ call' = [call EXCEPT ![t] = frame]
  /\ UNCHANGED <<stateByKey, heap, mapWriter, stateChanges, store, synced>>

\* Set(key, os, &true): setState replaces both fields of the state, so what getState finds
\* does not matter, and it never returns early: os is freshly parsed, so its pointer differs
\* from the stored one.
StartSet(t, key, os) ==
  Begin(t, [Idle EXCEPT !.op = "set", !.pc = "store", !.key = key, !.os = os, !.locked = TRUE])

\* Enqueue(key): setState keeps both fields of the state that getState finds.
StartEnqueue(t, key) == Begin(t, [Idle EXCEPT !.op = "enqueue", !.pc = "get", !.key = key])

GetOriginal(t) ==
  LET obj == stateByKey[call[t].key]
  IN  /\ call[t].pc = "get"
      /\ CanRead
      /\ call' = [call EXCEPT ![t].pc = IF obj = Nil THEN "store" ELSE "copy_objects",
                              ![t].obj = obj]
      /\ UNCHANGED <<stateByKey, heap, mapWriter, stateChanges, store, synced>>

\* DeepCopy reads the fields of the original one after the other, under no lock.
CopyObjects(t) ==
  /\ call[t].pc = "copy_objects"
  /\ call' = [call EXCEPT ![t].pc = "copy_locked", ![t].os = heap[call[t].obj].os]
  /\ UNCHANGED <<stateByKey, heap, mapWriter, stateChanges, store, synced>>

CopyLocked(t) ==
  /\ call[t].pc = "copy_locked"
  /\ call' = [call EXCEPT ![t].pc = "store", ![t].obj = Nil,
                          ![t].locked = heap[call[t].obj].locked]
  /\ UNCHANGED <<stateByKey, heap, mapWriter, stateChanges, store, synced>>

\* The states that something still refers to; held are the pointers of other components.
InUse(held) ==
  {stateByKey[key] : key \in SetKey} \cup {store[key] : key \in SetKey}
    \cup {stateChanges[i].obj : i \in DOMAIN stateChanges}
    \cup {call[t].obj : t \in Thread} \cup held

\* Mutant: only a key that is new is stored.
Publish_OnlyAdds(t, held) ==
  LET key  == call[t].key
      used == InUse(held)
      obj  == CHOOSE new \in Ptr : new \notin used
  IN  /\ ~ ChannelFull
      /\ heap' = [heap EXCEPT ![obj] = [os |-> call[t].os, locked |-> call[t].locked]]
      /\ stateChanges' = Append(stateChanges, [type |-> "put", key |-> key, obj |-> obj])
      /\ stateByKey' = [stateByKey EXCEPT ![key] = IF @ = Nil THEN obj ELSE @]
      /\ mapWriter' = NoThread
      /\ Return(t)
      /\ UNCHANGED <<store, synced>>

\* setState, the critical section: send the event, then store the new state, which goes
\* where nothing refers to any more.
Publish(t, held) ==
  LET key  == call[t].key
      used == InUse(held)
      obj  == CHOOSE new \in Ptr : new \notin used
      next == [os |-> call[t].os, locked |-> call[t].locked]
  IN  /\ ~ ChannelFull
      /\ heap' = [p \in Ptr |-> IF p = obj THEN next ELSE IF p \in used THEN heap[p] ELSE NewState]
      /\ stateChanges' = Append(stateChanges, [type |-> "put", key |-> key, obj |-> obj])
      /\ stateByKey' = [stateByKey EXCEPT ![key] = obj]
      /\ mapWriter' = NoThread
      /\ Return(t)
      /\ UNCHANGED <<store, synced>>

StoreState(t, held) ==
  /\ call[t].pc = "store"
  /\ CanRead
  /\ Publish(t, held)

\* The channel is full: the sender blocks with stateMapLock held ...
BlockOnSend(t) ==
  /\ call[t].pc = "store"
  /\ CanRead
  /\ ChannelFull
  /\ mapWriter' = t
  /\ Step(t, "send")
  /\ UNCHANGED <<stateByKey, heap, stateChanges, store, synced>>

\* ... until the informer has taken an event off it.
UnblockSend(t, held) ==
  /\ call[t].pc = "send"
  /\ Publish(t, held)

-----------------------------------------------------------------------------
\* Delete(key, purge): deleteState begins with getState, and has nothing to do when the key
\* is not there.
StartDelete(t, key, op) ==
  LET obj == stateByKey[key]
  IN  /\ CanRead
      /\ Begin(t, [Idle EXCEPT !.op = op, !.key = key, !.obj = obj,
                               !.pc = IF obj = Nil THEN "on_remove" ELSE "remove"])

\* Mutant: no event is sent for a deletion.
RemoveState_Silent(t) ==
  /\ call[t].pc = "remove"
  /\ CanRead
  /\ stateByKey' = [stateByKey EXCEPT ![call[t].key] = Nil]
  /\ Step(t, "on_remove")
  /\ UNCHANGED <<heap, mapWriter, stateChanges, store, synced>>

RemoveState(t) ==
  /\ call[t].pc = "remove"
  /\ CanRead
  /\ stateByKey' = [stateByKey EXCEPT ![call[t].key] = Nil]
  /\ Step(t, "clear_objects")
  /\ UNCHANGED <<heap, mapWriter, stateChanges, store, synced>>

\* s.ObjectSet = nil and s.Locked = false, on the shared state and under no lock.
ClearObjects(t) ==
  /\ call[t].pc = "clear_objects"
  /\ heap' = [heap EXCEPT ![call[t].obj].os = NoObjects]
  /\ Step(t, "clear_locked")
  /\ UNCHANGED <<stateByKey, mapWriter, stateChanges, store, synced>>

ClearLocked(t) ==
  /\ call[t].pc = "clear_locked"
  /\ heap' = [heap EXCEPT ![call[t].obj].locked = FALSE]
  /\ Step(t, "send_deleted")
  /\ UNCHANGED <<stateByKey, mapWriter, stateChanges, store, synced>>

\* The event of the deletion is sent after stateMapLock has been released.
SendDeleted(t) ==
  /\ call[t].pc = "send_deleted"
  /\ ~ ChannelFull
  /\ stateChanges' = Append(stateChanges,
       [type |-> "deleted", key |-> call[t].key, obj |-> call[t].obj])
  /\ call' = [call EXCEPT ![t].pc = "on_remove", ![t].obj = Nil]
  /\ UNCHANGED <<stateByKey, heap, mapWriter, store, synced>>

\* Delete ends in triggerOnDelete, the OnRemove of the handler, which ObjectSetController
\* models; the register is left alone by it.
TriggerOnDelete(t) ==
  /\ call[t].pc = "on_remove"
  /\ Return(t)
  /\ UNCHANGED <<stateByKey, heap, mapWriter, stateChanges, store, synced>>

-----------------------------------------------------------------------------
\* The informer takes the next event off ResultChan and brings its store up to date.
Receive ==
  /\ synced
  /\ stateChanges # <<>>
  /\ LET event == Head(stateChanges)
     IN  store' = [store EXCEPT ![event.key] =
                     IF event.type = "deleted" THEN Nil ELSE event.obj]
  /\ stateChanges' = Tail(stateChanges)
  /\ UNCHANGED <<stateByKey, heap, mapWriter, synced, call>>

\* The next step of a call before its callback.
CallStep(t, held) ==
  \/ GetOriginal(t) \/ CopyObjects(t) \/ CopyLocked(t)
  \/ StoreState(t, held) \/ BlockOnSend(t) \/ UnblockSend(t, held)
  \/ RemoveState(t) \/ ClearObjects(t) \/ ClearLocked(t) \/ SendDeleted(t)

\* Whether a deletion purges is a matter of its callback only.
StartCall(t, key) ==
  \/ StartEnqueue(t, key)
  \/ \E os \in ObjectSet : StartSet(t, key, os)
  \/ StartDelete(t, key, "delete")

RegisterNext ==
  \/ Run
  \/ Receive
  \/ \E t \in Thread :
       \/ CallStep(t, {})
       \/ TriggerOnDelete(t)
       \/ \E key \in SetKey : StartCall(t, key)

\* The informer and every goroutine inside a call run on; nobody has to make a call.  The
\* mutex and the channel serve their waiters in turn, so a call that can go on again and again
\* does.
RegisterFairness ==
  /\ WF_registerVars(Run)
  /\ WF_registerVars(Receive)
  /\ \A t \in Thread :
       /\ SF_registerVars(CallStep(t, {}))
       /\ WF_registerVars(TriggerOnDelete(t))

RegisterSpec == RegisterInit /\ [][RegisterNext]_registerVars /\ RegisterFairness

-----------------------------------------------------------------------------
\* Whether a deletion of key has dropped a state whose event is not on the channel yet.
Dropping(key) ==
  \E t \in CallsOn(key) :
    call[t].pc \in {"clear_objects", "clear_locked", "send_deleted"}

\* However the calls interleave, once the channel has drained the informer serves either the
\* state the register holds or none: never a state that a later call replaced or dropped
\* (send and store under one stateMapLock in setState, delete before the send in deleteState).
NoStaleState ==
  \A key \in SetKey :
    EventsOf(key) = {} /\ ~ Dropping(key) => store[key] \in {Nil, stateByKey[key]}

\* The events of a key are in the order of the states they carry: the last one put on the
\* channel, when no deletion is behind it, is the state that the register holds.
LastEventIsCurrent ==
  \A key \in SetKey :
    \A i \in EventsOf(key) :
      /\ stateChanges[i].type = "put"
      /\ \A j \in EventsOf(key) : j <= i
      /\ ~ Dropping(key)
      => stateByKey[key] = stateChanges[i].obj

\* The register cannot wedge: whoever has called it gets out again, although setState sends
\* on a bounded channel with stateMapLock held and the reader of the channel started by taking
\* that lock (List).
CallsReturn == \A t \in Thread : call[t].pc # "idle" ~> call[t].pc = "idle"
=============================================================================
