------------------------ MODULE ObjectSetController ------------------------
(***************************************************************************)
(* The controller of pkg/objectset at work: the register, the lock table,  *)
(* the handler that applies what the informer serves (OnChange), the       *)
(* callback of a deletion (OnRemove), the watch of the locked resources    *)
(* that calls Enqueue, and the cluster that users and the handler write to.*)
(*                                                                         *)
(* The work queue (lasso) runs one worker per key at a time.  The apply    *)
(* engine (wrangler) writes the objects of a set one by one, deletes what  *)
(* the set owned and no longer lists, and leaves alone what is as it should *)
(* be.  Both are modelled from how src/ uses them.                         *)
(***************************************************************************)
EXTENDS LockTable, ObjectSetRegister

CONSTANTS
  Drift,        \* the contents of a resource that somebody has edited
  Manifests,    \* Manifests[key]: the object sets that the release of key may have
  MaxCalls,     \* bound: calls of Set, Delete and Unlock by the release controller
  MaxEdits,     \* bound: edits of resources by users
  MaxFailures,  \* bound: writes to the cluster that fail
  DeleteOps,    \* the deletions to consider: "delete", "purge" or both
  UserUnlocks,  \* whether the release controller calls Unlock (a release in transition)
  Resyncs       \* whether ten hours ever go by

ASSUME ControllerAssumption ==
  /\ MaxCalls \in Nat /\ MaxEdits \in Nat /\ MaxFailures \in Nat
  /\ Manifests \in [SetKey -> SUBSET ObjectSet]
  /\ Drift \notin ObjectSet
  /\ Drift # NoObjects
  /\ DeleteOps \subseteq {"delete", "purge"}
  /\ UserUnlocks \in BOOLEAN
  /\ Resyncs \in BOOLEAN

\* The workers hold pointers too, one for each key.
ASSUME ControllerHeapAssumption ==
  MaxPtr >= 3 * Cardinality(SetKey) + Cap + Cardinality(Thread)

VARIABLES
  queue,     \* the keys waiting in the work queue
  worker,    \* the frame of the handler for each key
  cluster,   \* the resources as they are in Kubernetes
  pending,   \* watched resources with a change not yet handed to Resolve
  purging,   \* what a purge in OnRemove still has to delete, by thread
  budget,    \* what is left of the bounds
  intent     \* history: the set that the last Set of a key brought, none after a Delete

controllerVars == <<tableVars, registerVars, queue, worker, cluster, pending, purging,
                    budget, intent>>

-----------------------------------------------------------------------------
Content == [data : ObjectSet \cup {Drift, NoObjects}, owner : SetKey \cup {NoKey}]

Absent == [data |-> NoObjects, owner |-> NoKey]

\* A resource as the handler leaves it when it applies the set os of key.
AppliedBy(key, os) == [data |-> os, owner |-> key]

WorkSteps == {"idle", "unlock", "check", "scope", "read", "apply", "lock"}

\* kinds is the scope in which apply prunes, todo what it has yet to write, failed whether
\* one of its writes has failed.
Work == [pc : WorkSteps, obj : Ptr \cup {Nil}, os : ObjectSet \cup {NoObjects},
         kinds : SUBSET GVK, todo : SUBSET Resource, failed : BOOLEAN]

NoWork == [pc |-> "idle", obj |-> Nil, os |-> NoObjects,
           kinds |-> {}, todo |-> {}, failed |-> FALSE]

ControllerTypeOK ==
  /\ TableTypeOK
  /\ RegisterTypeOK
  /\ queue \subseteq SetKey
  /\ worker \in [SetKey -> Work]
  /\ cluster \in [Resource -> Content]
  /\ pending \subseteq Resource
  /\ purging \in [Thread -> SUBSET Resource]
  /\ budget \in [calls : 0 .. MaxCalls, edits : 0 .. MaxEdits, failures : 0 .. MaxFailures]
  /\ intent \in [SetKey -> ObjectSet \cup {NoObjects}]

ObjectsOf(os) == IF os = NoObjects THEN {} ELSE Objects[os]

Held == {worker[key].obj : key \in SetKey}

Owned(key) == {res \in Resource : cluster[res].owner = key}

ControllerInit ==
  /\ TableInit
  /\ RegisterInit
  /\ queue = {}
  /\ worker = [key \in SetKey |-> NoWork]
  /\ cluster = [res \in Resource |-> Absent]
  /\ pending = {}
  /\ purging = [t \in Thread |-> {}]
  /\ budget = [calls |-> MaxCalls, edits |-> MaxEdits, failures |-> MaxFailures]
  /\ intent = [key \in SetKey |-> NoObjects]

-----------------------------------------------------------------------------
\* A write to the cluster: no event unless it changes something, and nobody is told of the
\* event unless the kind is watched.
Write(res, content) ==
  /\ cluster' = [cluster EXCEPT ![res] = content]
  /\ pending' = IF content # cluster[res] /\ res[1] \in watched
                THEN pending \cup {res} ELSE pending

Spend(what) ==
  /\ budget[what] > 0
  /\ budget' = [budget EXCEPT ![what] = @ - 1]

\* Mutants: an error of OnChange is swallowed, or every key goes back to the queue.
FinishWork_NoRetry(key) ==
  /\ worker' = [worker EXCEPT ![key] = NoWork]
  /\ UNCHANGED queue

FinishWork_AlwaysRetry(key) ==
  /\ worker' = [worker EXCEPT ![key] = NoWork]
  /\ queue' = queue \cup {key}

\* The worker of key is done; a failed reconcile goes back to the queue.
FinishWork(key) ==
  /\ worker' = [worker EXCEPT ![key] = NoWork]
  /\ queue' = IF worker[key].failed THEN queue \cup {key} ELSE queue

-----------------------------------------------------------------------------
\* OnChange of the handler, from the work queue.  Nothing to do when the store has no state.
TakeWork(key) ==
  /\ key \in queue
  /\ worker[key].pc = "idle"
  /\ queue' = queue \ {key}
  /\ worker' = IF store[key] = Nil THEN worker
               ELSE [worker EXCEPT ![key] = [NoWork EXCEPT !.pc = "unlock", !.obj = store[key]]]
  /\ UNCHANGED <<tableVars, registerVars, cluster, pending, purging, budget, intent>>

\* Mutants: OnChange applies with its resources locked, or does nothing when they are locked.
UnlockForApply_NoUnlock(key) ==
  /\ worker[key].pc = "unlock"
  /\ worker' = [worker EXCEPT ![key].pc = "check"]
  /\ UNCHANGED <<tableVars, registerVars, queue, cluster, pending, purging, budget, intent>>

UnlockForApply_SkipLocked(key) ==
  /\ worker[key].pc = "unlock"
  /\ worker' = IF Entries(keyMap, key) = {} THEN [worker EXCEPT ![key].pc = "check"]
               ELSE [worker EXCEPT ![key] = NoWork]
  /\ UNCHANGED <<tableVars, registerVars, queue, cluster, pending, purging, budget, intent>>

UnlockForApply(key) ==
  /\ worker[key].pc = "unlock"
  /\ UnlockEntries(key)
  /\ worker' = [worker EXCEPT ![key].pc = "check"]
  /\ UNCHANGED <<registerVars, queue, cluster, pending, purging, budget, intent>>

CheckLocked(key) ==
  /\ worker[key].pc = "check"
  /\ worker' = IF heap[worker[key].obj].locked
               THEN [worker EXCEPT ![key].pc = "scope"]
               ELSE [worker EXCEPT ![key] = NoWork]
  /\ UNCHANGED <<tableVars, registerVars, queue, cluster, pending, purging, budget, intent>>

\* configureApply: the kinds of the set, or every kind when it has no objects.
ConfigureApply(key) ==
  LET os == heap[worker[key].obj].os
  IN  /\ worker[key].pc = "scope"
      /\ worker' = [worker EXCEPT ![key].pc = "read",
                                  ![key].kinds = IF os = NoObjects THEN GVK ELSE Kinds(os)]
      /\ UNCHANGED <<tableVars, registerVars, queue, cluster, pending, purging, budget, intent>>

\* Apply reads the ObjectSet of the state once more, and lists what the set owns.
BeginApply(key) ==
  LET os    == heap[worker[key].obj].os
      prune == {res \in Owned(key) : res[1] \in worker[key].kinds}
  IN  /\ worker[key].pc = "read"
      /\ worker' = [worker EXCEPT ![key].pc = "apply", ![key].obj = Nil, ![key].os = os,
                                  ![key].kinds = {}, ![key].todo = ObjectsOf(os) \cup prune]
      /\ UNCHANGED <<tableVars, registerVars, queue, cluster, pending, purging, budget, intent>>

ApplyObject(key, res) ==
  /\ worker[key].pc = "apply"
  /\ res \in worker[key].todo
  /\ worker' = [worker EXCEPT ![key].todo = @ \ {res}]
  /\ Write(res, IF res \in ObjectsOf(worker[key].os) THEN AppliedBy(key, worker[key].os) ELSE Absent)
  /\ UNCHANGED <<tableVars, registerVars, queue, purging, budget, intent>>

\* A write fails; Apply goes on with the other objects and returns the error in the end.
FailObject(key, res) ==
  /\ worker[key].pc = "apply"
  /\ res \in worker[key].todo
  /\ Spend("failures")
  /\ worker' = [worker EXCEPT ![key].todo = @ \ {res}, ![key].failed = TRUE]
  /\ UNCHANGED <<tableVars, registerVars, queue, cluster, pending, purging, intent>>

\* The deferred Lock, first access: the state that the register holds by now.
GetToLock(key) ==
  LET obj == stateByKey[key]
      os  == IF obj = Nil THEN NoObjects ELSE heap[obj].os
  IN  /\ worker[key].pc = "apply"
      /\ worker[key].todo = {}
      /\ CanRead
      /\ IF os = NoObjects
         THEN FinishWork(key)
         ELSE /\ worker' = [worker EXCEPT ![key].pc = "lock", ![key].os = os]
              /\ UNCHANGED queue
      /\ UNCHANGED <<tableVars, registerVars, cluster, pending, purging, budget, intent>>

\* The deferred Lock, second access.  A kind that is watched for the first time delivers
\* everything that exists of it.
LockAfterApply(key) ==
  /\ worker[key].pc = "lock"
  /\ LockEntries(key, worker[key].os)
  /\ pending' = pending \cup {res \in Resource : /\ res[1] \in watched' \ watched
                                                 /\ cluster[res] # Absent}
  /\ FinishWork(key)
  /\ UNCHANGED <<registerVars, cluster, purging, budget, intent>>

WorkStep(key) ==
  \/ TakeWork(key) \/ UnlockForApply(key) \/ CheckLocked(key) \/ ConfigureApply(key)
  \/ BeginApply(key) \/ GetToLock(key) \/ LockAfterApply(key)
  \/ \E res \in Resource : ApplyObject(key, res)

-----------------------------------------------------------------------------
\* OnRemove, called by Delete in the goroutine of its caller, beside the worker of the key.
OnRemove(t) ==
  /\ call[t].pc = "on_remove"
  /\ UnlockEntries(call[t].key)
  /\ IF call[t].op = "purge" THEN Step(t, "list_owned") ELSE Return(t)
  /\ UNCHANGED <<stateByKey, heap, mapWriter, stateChanges, store, synced,
                 queue, worker, cluster, pending, purging, budget, intent>>

\* ApplyObjects(): an empty set, which deletes what the key owns.
ListOwned(t) ==
  /\ call[t].pc = "list_owned"
  /\ purging' = [purging EXCEPT ![t] = Owned(call[t].key)]
  /\ IF Owned(call[t].key) = {} THEN Return(t) ELSE Step(t, "delete_owned")
  /\ UNCHANGED <<tableVars, stateByKey, heap, mapWriter, stateChanges, store, synced,
                 queue, worker, cluster, pending, budget, intent>>

\* The write to res is over; the call returns with the last one.
Purged(t, res) ==
  /\ call[t].pc = "delete_owned"
  /\ res \in purging[t]
  /\ purging' = [purging EXCEPT ![t] = @ \ {res}]
  /\ IF purging[t] = {res} THEN Return(t) ELSE UNCHANGED call
  /\ UNCHANGED <<tableVars, stateByKey, heap, mapWriter, stateChanges, store, synced,
                 queue, worker, intent>>

DeleteOwned(t, res) ==
  /\ Purged(t, res)
  /\ Write(res, Absent)
  /\ UNCHANGED budget

\* A failed purge is logged and nothing else.
FailDelete(t, res) ==
  /\ Purged(t, res)
  /\ Spend("failures")
  /\ UNCHANGED <<cluster, pending>>

\* A goroutine goes on with its call of the register.
GoOn(t) ==
  \/ /\ CallStep(t, Held)
     /\ UNCHANGED <<tableVars, queue, worker, cluster, pending, purging, budget, intent>>
  \/ OnRemove(t) \/ ListOwned(t)
  \/ \E res \in Resource : DeleteOwned(t, res)

-----------------------------------------------------------------------------
\* The release controller works on one key at a time: it makes no call while one is running.
Unoccupied(key) == \A t \in CallsOn(key) : call[t].op = "enqueue"

CallSet(t, key, os) ==
  /\ Unoccupied(key)
  /\ Spend("calls")
  /\ StartSet(t, key, os)
  /\ intent' = [intent EXCEPT ![key] = os]
  /\ UNCHANGED <<tableVars, queue, worker, cluster, pending, purging>>

CallDelete(t, key, op) ==
  /\ Unoccupied(key)
  /\ Spend("calls")
  /\ StartDelete(t, key, op)
  /\ intent' = [intent EXCEPT ![key] = NoObjects]
  /\ UNCHANGED <<tableVars, queue, worker, cluster, pending, purging>>

\* Unlock has one access to shared state, so the call is a single step.
CallUnlock(key) ==
  /\ UserUnlocks
  /\ synced
  /\ Unoccupied(key)
  /\ Spend("calls")
  /\ UnlockEntries(key)
  /\ UNCHANGED <<registerVars, queue, worker, cluster, pending, purging, intent>>

\* A change of a watched resource: Resolve, and the key it names goes to Enqueue.
Deliver(t, res) ==
  LET key == Resolve(keyMap, res)
  IN  /\ res \in pending
      /\ pending' = pending \ {res}
      /\ IF key = NoKey
         THEN UNCHANGED registerVars
         ELSE StartEnqueue(t, key)
      /\ UNCHANGED <<tableVars, queue, worker, cluster, purging, budget, intent>>

\* Mutant: the handler is only told of keys that are new.
ReceiveEvent_OnlyAdds ==
  /\ Receive
  /\ queue' = IF store[Head(stateChanges).key] = Nil
              THEN queue \cup {Head(stateChanges).key} ELSE queue
  /\ UNCHANGED <<tableVars, worker, cluster, pending, purging, budget, intent>>

\* The informer's event handler queues the key of every event ...
ReceiveEvent ==
  /\ Receive
  /\ queue' = queue \cup {Head(stateChanges).key}
  /\ UNCHANGED <<tableVars, worker, cluster, pending, purging, budget, intent>>

\* ... and every ten hours the informer queues all it has.
Resync ==
  /\ Resyncs
  /\ synced
  /\ queue' = queue \cup {key \in SetKey : store[key] # Nil}
  /\ UNCHANGED <<tableVars, registerVars, worker, cluster, pending, purging, budget, intent>>

Start ==
  /\ Run
  /\ UNCHANGED <<tableVars, queue, worker, cluster, pending, purging, budget, intent>>

\* A user edits or deletes a resource.
Edit(res, content) ==
  /\ cluster[res] # Absent
  /\ Spend("edits")
  /\ Write(res, content)
  /\ UNCHANGED <<tableVars, registerVars, queue, worker, purging, intent>>

ReleaseCall(t, key) ==
  \/ \E os \in Manifests[key] : CallSet(t, key, os)
  \/ \E op \in DeleteOps : CallDelete(t, key, op)

Environment ==
  \/ \E t \in Thread, key \in SetKey : ReleaseCall(t, key)
  \/ \E key \in SetKey : CallUnlock(key)
  \/ \E res \in Resource :
       \/ Edit(res, Absent)
       \/ Edit(res, [cluster[res] EXCEPT !.data = Drift])

Failure ==
  \/ \E key \in SetKey, res \in Resource : FailObject(key, res)
  \/ \E t \in Thread, res \in Resource : FailDelete(t, res)

ControllerNext ==
  \/ Start
  \/ ReceiveEvent
  \/ Resync
  \/ Environment
  \/ Failure
  \/ \E key \in SetKey : WorkStep(key)
  \/ \E t \in Thread : GoOn(t) \/ \E res \in Resource : Deliver(t, res)

ControllerSpec == ControllerInit /\ [][ControllerNext]_controllerVars

\* Goroutines run on, and mutexes and channels serve those who wait in turn.  Users, the release
\* controller and failures are under no obligation, and nor is the ten-hour resync.
ControllerFairness ==
  /\ WF_controllerVars(Start)
  /\ WF_controllerVars(ReceiveEvent)
  /\ \A key \in SetKey : SF_controllerVars(WorkStep(key))
  /\ \A t \in Thread : SF_controllerVars(GoOn(t))
  /\ \A res \in Resource : WF_controllerVars(\E t \in Thread : Deliver(t, res))

FairControllerSpec == ControllerSpec /\ ControllerFairness

\* With the resync as well.
ResyncedControllerSpec == FairControllerSpec /\ WF_controllerVars(Resync)

-----------------------------------------------------------------------------
\* Nothing is on its way for key: no call, no event, no work.
Quiet(key) ==
  /\ CallsOn(key) = {}
  /\ EventsOf(key) = {}
  /\ key \notin queue
  /\ worker[key].pc = "idle"

\* The informer and the register agree on a state of key.
Agreed(key) == store[key] # Nil /\ store[key] = stateByKey[key]

\* The register holds a locked set of objects for key.
Enforced(key) == Agreed(key) /\ Served(key).locked /\ Served(key).os # NoObjects

AsApplied(key) ==
  \A res \in ObjectsOf(Served(key).os) : cluster[res] = AppliedBy(key, Served(key).os)

\* While the handler applies a set, none of its resources resolves to it: "ensure that apply
\* does not trigger locking again" (OnChange unlocks first, and only its own deferred Lock
\* locks the key again).
UnlockedDuringApply ==
  \A key \in SetKey :
    worker[key].pc \in {"check", "scope", "read", "apply", "lock"} => Entries(keyMap, key) = {}

\* Once everything on its way for a key has been handled, its locked resources are resources
\* of the set the register now holds, never of one that was replaced meanwhile (Lock reads
\* the register again, and every later change of it leads to another OnChange).
RestingLockIsCurrent ==
  \A key \in SetKey :
    Quiet(key) /\ Agreed(key) => Entries(keyMap, key) \subseteq ObjectsOf(Served(key).os)

\* And they are all of the resources of that set, or none: a conflict with another set leaves
\* no resource half of the set locked, when no Watch fails (canLock comes before the first
\* entry, for every kind).
RestingLockIsWhole ==
  \A key \in SetKey :
    Quiet(key) /\ Agreed(key) => Entries(keyMap, key) \in {{}, ObjectsOf(Served(key).os)}

\* When nobody edits or removes anything, a registered set is as its manifest says as soon as
\* everything on its way has been handled, failed writes and replaced sets notwithstanding.
RestingClusterIsApplied ==
  \A key \in SetKey : Quiet(key) /\ Enforced(key) => AsApplied(key)

\* Whether os is what the register holds for key.
Registered(key, os) ==
  os = IF stateByKey[key] = Nil THEN NoObjects ELSE heap[stateByKey[key]].os

\* The controller comes to rest: applying a set makes events of the resources it locks, which
\* queue the set again, and yet that does not go on for ever, once the register holds the same
\* objects for good.  (Two calls of Enqueue that overlap can put two manifests back in turn, each
\* of them woken by the apply of the other, as long as the schedule keeps them overlapping.)
ComesToRest ==
  \A key \in SetKey :
    \A os \in ObjectSet \cup {NoObjects} :
      <>[]Registered(key, os) => <>[](pending = {} /\ Quiet(key))

\* With the resync, whatever users did to a set that the register holds is undone in the end.
DriftIsReverted == <>[](\A key \in SetKey : Enforced(key) => AsApplied(key))

-----------------------------------------------------------------------------
\* What the documentation says and a race between two of the parts refutes (the runs of these
\* end in a counterexample).

\* README.md:37: "Helm Locker will revert all resources back to what was tracked by the Helm
\* release".  At rest the resources are those of the manifest that the last Set brought; an
\* Enqueue that has read the state before that Set and stores it after it undoes the Set.
LastManifestPrevails ==
  \A key \in SetKey :
    Quiet(key) /\ pending = {} /\ intent[key] # NoObjects
      => \A res \in Objects[intent[key]] : cluster[res] = AppliedBy(key, intent[key])

\* pkg/controllers/release/controller.go:189: "remove the objectset, but don't purge the
\* underlying resources".  Nothing of the only manifest a release has is ever deleted when all
\* its deletions are of that kind; but deleteState empties the state an OnChange is applying.
ResourcesSurviveDelete ==
  [][\A res \in Resource : cluster[res] # Absent => cluster'[res] # Absent]_cluster
=============================================================================
