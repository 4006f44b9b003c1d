----------------------------- MODULE HelmLocker -----------------------------
(***************************************************************************)
(* The whole of Helm Locker: the release controller, the controller of     *)
(* object sets that its register feeds, the resources in the cluster, and  *)
(* operators that stop and start again with nothing in memory.             *)
(*                                                                         *)
(* Calls of the register and the lock table and an apply are single steps: *)
(* ObjectSetController is about what happens inside of them.               *)
(***************************************************************************)
EXTENDS ReleaseController

CONSTANTS
  Name,        \* the names of resources in the cluster
  NameOf,      \* NameOf[obj]: the resource that the object obj describes
  KindOf,      \* KindOf[name]: the kind of a resource
  Absent,      \* there is no such resource
  Drift,       \* the content of a resource that somebody has edited
  Damage,      \* what users do to resources: delete them, edit them or both
  MaxFaults    \* bound: edits of resources, failures of requests and restarts together

ASSUME LockerAssumption ==
  /\ NameOf \in [Object -> Name]
  /\ \A m \in Manifest : \A one, other \in Tracked(m) : NameOf[one] = NameOf[other] => one = other
  /\ {Absent, Drift} \cap Object = {}
  /\ Absent # Drift
  /\ Damage \subseteq {Absent, Drift}
  /\ MaxFaults \in Nat

VARIABLES
  locked,    \* the lock table of each operator: the resources that it has locked for a key
  setQueue,  \* the work queue of each operator for object sets
  applying,  \* the frame of each operator's worker for an object set
  cluster,   \* the resources as they are in Kubernetes
  faults     \* what is left of that bound

setVars == <<locked, setQueue, applying, cluster, faults>>

lockerVars == <<releaseVars, setVars>>

-----------------------------------------------------------------------------
Content == [data : Object \cup {Absent, Drift}, owner : ReleaseKey \cup {NoKey}]

Gone == [data |-> Absent, owner |-> NoKey]

Names(os) == {NameOf[obj] : obj \in os}

Owned(key) == {name \in Name : cluster[name].owner = key}

\* The resources of the kinds that os has: apply prunes no others.
Scope(os) == {name \in Name : \E obj \in os : KindOf[name] = KindOf[NameOf[obj]]}

\* The cluster when the resources of names have been deleted.
Without(names) == [name \in Name |-> IF name \in names THEN Gone ELSE cluster[name]]

Apply == [pc : {"idle", "apply", "lock"}, os : SUBSET Object]

NoApply == [pc |-> "idle", os |-> {}]

LockerTypeOK ==
  /\ ReleaseTypeOK
  /\ locked \in [Operator -> [ReleaseKey -> SUBSET Name]]
  /\ setQueue \in [Operator -> SUBSET ReleaseKey]
  /\ applying \in [Operator -> [ReleaseKey -> Apply]]
  /\ cluster \in [Name -> Content]
  /\ faults \in 0 .. MaxFaults

LockerInit ==
  /\ ReleaseInit
  /\ locked = [o \in Operator |-> [key \in ReleaseKey |-> {}]]
  /\ setQueue = [o \in Operator |-> {}]
  /\ applying = [o \in Operator |-> [key \in ReleaseKey |-> NoApply]]
  /\ cluster = [name \in Name |-> Gone]
  /\ faults = MaxFaults

-----------------------------------------------------------------------------
Fault ==
  /\ faults > 0
  /\ faults' = faults - 1

SetQueued(o, key) == setQueue' = [setQueue EXCEPT ![o] = @ \cup {key}]

SetUnlocked(o, key) == locked' = [locked EXCEPT ![o][key] = {}]

KeyOf(o, h) == work[o][h].obj.key

\* Set: the state goes through the register's informer to the work queue.
SetObjects(o, h) ==
  /\ CallSet(o, h)
  /\ SetQueued(o, KeyOf(o, h))
  /\ UNCHANGED <<locked, applying, cluster, faults>>

UnlockObjects(o, h) ==
  /\ CallUnlock(o, h)
  /\ SetUnlocked(o, KeyOf(o, h))
  /\ UNCHANGED <<setQueue, applying, cluster, faults>>

\* Mutant: nothing is purged for a key that is not in the register.
PurgeObjects_OnlyTracked(o, h) ==
  /\ CallDelete(o, h)
  /\ SetUnlocked(o, KeyOf(o, h))
  /\ cluster' = Without(IF register[o][KeyOf(o, h)].tracked THEN Owned(KeyOf(o, h)) ELSE {})
  /\ UNCHANGED <<setQueue, applying, faults>>

\* Delete(key, true): OnRemove unlocks, and deletes all that the key owns in any kind, whether
\* or not the register had anything for it.
PurgeObjects(o, h) ==
  /\ CallDelete(o, h)
  /\ SetUnlocked(o, KeyOf(o, h))
  /\ cluster' = Without(Owned(KeyOf(o, h)))
  /\ UNCHANGED <<setQueue, applying, faults>>

\* The kinds cannot be listed, or a deletion fails: that is only logged.
PurgeFails(o, h) ==
  /\ CallDelete(o, h)
  /\ Fault
  /\ SetUnlocked(o, KeyOf(o, h))
  /\ \E names \in SUBSET Owned(KeyOf(o, h)) : cluster' = Without(names)
  /\ UNCHANGED <<setQueue, applying>>

\* Delete(key, false): OnRemove unlocks, and leaves the resources behind.
ReleaseObjects(o, h) ==
  /\ CallRemove(o, h)
  /\ SetUnlocked(o, KeyOf(o, h))
  /\ UNCHANGED <<setQueue, applying, cluster, faults>>

-----------------------------------------------------------------------------
\* OnChange: unlock, and apply the set that the register has.
BeginApply(o, key) ==
  /\ key \in setQueue[o]
  /\ applying[o][key].pc = "idle"
  /\ setQueue' = [setQueue EXCEPT ![o] = @ \ {key}]
  /\ IF register[o][key].tracked
     THEN /\ SetUnlocked(o, key)
          /\ applying' = [applying EXCEPT ![o][key] = [pc |-> "apply", os |-> register[o][key].os]]
     ELSE UNCHANGED <<locked, applying>>
  /\ UNCHANGED <<releaseVars, cluster, faults>>

\* The objects of the set are written, and what the key owns of their kinds beside them is pruned.
ApplyObjects(o, key) ==
  LET os == applying[o][key].os
  IN  /\ applying[o][key].pc = "apply"
      /\ applying' = [applying EXCEPT ![o][key] = [NoApply EXCEPT !.pc = "lock"]]
      /\ cluster' = [name \in Name |->
                       IF name \in Names(os)
                       THEN [data |-> CHOOSE obj \in os : NameOf[obj] = name, owner |-> key]
                       ELSE Without(Owned(key) \cap Scope(os))[name]]
      /\ UNCHANGED <<releaseVars, locked, setQueue, faults>>

\* No other key of o has locked any of names.
CanLock(o, key, names) ==
  \A other \in ReleaseKey \ {key} : locked[o][other] \cap names = {}

\* The deferred Lock, of what the register holds by now; it may be refused.
EndApply(o, key) ==
  LET names == Names(register[o][key].os)
  IN  /\ applying[o][key].pc = "lock"
      /\ applying' = [applying EXCEPT ![o][key] = NoApply]
      /\ locked' = IF register[o][key].tracked /\ CanLock(o, key, names)
                   THEN [locked EXCEPT ![o][key] = names] ELSE locked
      /\ UNCHANGED <<releaseVars, setQueue, cluster, faults>>

ApplyStep(o, key) == BeginApply(o, key) \/ ApplyObjects(o, key) \/ EndApply(o, key)

\* Somebody edits or deletes a resource; whoever has locked it is told.
Edit(name, data) ==
  /\ cluster[name] # Gone
  /\ data # cluster[name].data
  /\ Fault
  /\ cluster' = [cluster EXCEPT ![name] = IF data = Absent THEN Gone ELSE [@ EXCEPT !.data = data]]
  /\ setQueue' = [o \in Operator |->
                    setQueue[o] \cup {key \in ReleaseKey : name \in locked[o][key]}]
  /\ UNCHANGED <<releaseVars, locked, applying>>

\* The workers of o have nothing to do.
AtRest(o) ==
  /\ queue[o] = {} /\ setQueue[o] = {}
  /\ \A h \in HelmRelease : work[o][h].pc = "idle"
  /\ \A key \in ReleaseKey : applying[o][key].pc = "idle"

\* Every ten hours the informers queue all they have; nothing takes that long to handle.
Resync(o) ==
  /\ AtRest(o)
  /\ queue' = [queue EXCEPT ![o] = @ \cup {h \in HelmRelease : cache[o][h].exists}]
  /\ setQueue' = [setQueue EXCEPT ![o] = @ \cup {key \in ReleaseKey : register[o][key].tracked}]
  /\ UNCHANGED <<api, secrets, cache, unseen, work, register, budget, locked, applying, cluster, faults>>

\* The operator stops at any moment and starts again: all that it had in memory is lost, and its
\* informers list the HelmReleases and the secrets that exist.
Restart(o) ==
  /\ Fault
  /\ cache' = [cache EXCEPT ![o] = [h \in HelmRelease |-> Missing(0)]]
  /\ unseen' = [unseen EXCEPT ![o] = {key \in ReleaseKey : secrets[key] # NoRelease}]
  /\ queue' = [queue EXCEPT ![o] = {}]
  /\ work' = [work EXCEPT ![o] = [h \in HelmRelease |-> NoWork]]
  /\ register' = [register EXCEPT ![o] = [key \in ReleaseKey |-> Untracked]]
  /\ locked' = [locked EXCEPT ![o] = [key \in ReleaseKey |-> {}]]
  /\ setQueue' = [setQueue EXCEPT ![o] = {}]
  /\ applying' = [applying EXCEPT ![o] = [key \in ReleaseKey |-> NoApply]]
  /\ UNCHANGED <<api, secrets, budget, cluster>>

\* A request of the release controller fails for another reason than a conflict.
Failed(o, h) ==
  /\ Fault
  /\ Failure(o, h)
  /\ UNCHANGED <<locked, setQueue, applying, cluster>>

HandlerStep(o, h) ==
  \/ QuietStep(o, h) /\ UNCHANGED setVars
  \/ SetObjects(o, h) \/ UnlockObjects(o, h) \/ PurgeObjects(o, h) \/ ReleaseObjects(o, h)

EventStep(o) ==
  \/ \E h \in HelmRelease : Observe(o, h) /\ UNCHANGED setVars
  \/ \E key \in ReleaseKey : SecretChange(o, key) /\ UNCHANGED setVars

Environment ==
  \/ (User \/ Helm) /\ UNCHANGED setVars
  \/ \E o \in Operator, h \in HelmRelease : Failed(o, h) \/ PurgeFails(o, h)
  \/ \E name \in Name, data \in Damage : Edit(name, data)
  \/ \E o \in Operator : Restart(o)

LockerNext ==
  \/ Environment
  \/ \E o \in Operator :
       \/ EventStep(o)
       \/ Resync(o)
       \/ \E h \in HelmRelease : HandlerStep(o, h)
       \/ \E key \in ReleaseKey : ApplyStep(o, key)

LockerSpec == LockerInit /\ [][LockerNext]_lockerVars

\* Events arrive and workers go on; an operator that stops is started again, but it may also run
\* on for ever.
LockerFairness ==
  \A o \in Operator :
    /\ \A h \in HelmRelease : WF_lockerVars(HandlerStep(o, h))
    /\ \A h \in HelmRelease : WF_lockerVars(Observe(o, h) /\ UNCHANGED setVars)
    /\ \A key \in ReleaseKey : WF_lockerVars(SecretChange(o, key) /\ UNCHANGED setVars)
    /\ \A key \in ReleaseKey : WF_lockerVars(ApplyStep(o, key))

FairLockerSpec == LockerSpec /\ LockerFairness

-----------------------------------------------------------------------------
\* Ten hours go by, again and again.
Resyncs == \A o \in Operator : WF_lockerVars(Resync(o))

\* The HelmReleases that users want to be kept.
Wanted(h) == api[h].exists /\ ~ api[h].deleting

\* The resources of key are those of the manifest m, and there are no others of their kinds.
AsManifestSays(key, m) ==
  /\ \A obj \in Tracked(m) : cluster[NameOf[obj]] = [data |-> obj, owner |-> key]
  /\ Owned(key) \cap Scope(Tracked(m)) = Names(Tracked(m))

\* README.md:37: when users and Helm are done, the resources of a deployed release are as its
\* manifest says, whatever was edited, whoever held the release before, and although the operator
\* may have lost its memory at any point on the way.
DeployedIsEnforced ==
  Resyncs => <>[](\A h \in HelmRelease :
         LET release == secrets[api[h].key]
         IN  Wanted(h) /\ release # NoRelease /\ StateOf(release) = "Deployed"
               => AsManifestSays(api[h].key, release.manifest))

\* When the secret of a release stays away, what the release has left behind is deleted in the
\* end: also when the operator was stopped when the secret went, and has never heard of it, and
\* when the purge overlaps an apply.
OrphansArePurged ==
  Resyncs => <>[](\A h \in HelmRelease :
         Wanted(h) /\ secrets[api[h].key] = NoRelease => Owned(api[h].key) = {})

\* What the register should hold for a key whose secret is in the state of release.
Follows(entry, release) ==
  CASE release = NoRelease -> entry = Untracked
    [] release # NoRelease /\ StateOf(release) = "Deployed" ->
         entry = Tracking(Tracked(release.manifest))
    [] OTHER -> entry.tracked => entry.unlocked


\* A HelmRelease that a user deletes goes away, whatever conflicts its finalizer runs into.
DeletionEnds ==
  \A h \in HelmRelease : api[h].deleting ~> ~ api[h].deleting

\* README.md:35: "if the release is anything but `deployed`, Helm Locker will not perform any
\* operations on the resources tracked by this release".  Nothing is locked for a key after
\* Unlock; but the state in the register still says Locked, so the next OnChange applies it
\* and locks it again.
UnlockedStaysUnlocked ==
  \A o \in Operator, key \in ReleaseKey : register[o][key].unlocked => locked[o][key] = {}
=============================================================================
