------------------------- MODULE ReleaseController -------------------------
(***************************************************************************)
(* The release controller of pkg/controllers/release, with the scoped      *)
(* remove handler of pkg/remove: from HelmReleases and the release secrets *)
(* of Helm to calls of the register of object sets.                        *)
(*                                                                         *)
(* An operator works on what its informer has cached, and the API server   *)
(* refuses a write that is not based on the latest version.  Between any   *)
(* two requests of a handler, users, Helm and another operator may change  *)
(* what it has read.  Informers, work queue (one worker for a HelmRelease, *)
(* an error puts it back) and API server are external and modelled from    *)
(* how src/ uses them.                                                     *)
(***************************************************************************)
EXTENDS ManifestParser

CONSTANTS
  Operator,      \* the operators at work in the system namespace, by controller name
  HelmRelease,   \* the names of HelmReleases in the system namespace
  ReleaseKey,    \* namespace/name of Helm releases
  NoKey,         \* the release key of a HelmRelease that does not exist
  Release,       \* what the secret of a Helm release may hold: its status and manifest
  History,       \* History[key]: what Helm may make of the release key
  NoRelease,     \* the release is not found
  Unreported,    \* the status of a HelmRelease that no operator has written
  Nobody,        \* there is no managed-by annotation
  MaxCreates,    \* bound: how often users create a HelmRelease
  MaxChanges,    \* bound: how often a release secret or a spec.release changes
  MaxRetargets   \* bound: how many of these changes are of a spec.release

ASSUME ReleaseAssumption ==
  /\ Release \subseteq [status : STRING, manifest : Manifest]
  /\ History \in [ReleaseKey -> SUBSET Release]
  /\ {NoRelease, Unreported} \cap Release = {}
  /\ NoRelease # Unreported
  /\ Nobody \notin Operator
  /\ NoKey \notin ReleaseKey
  /\ MaxCreates \in Nat /\ MaxRetargets \in Nat /\ MaxChanges \in Nat

VARIABLES
  api,       \* the HelmReleases in the API server
  secrets,   \* the latest version of every Helm release, from its secret
  cache,     \* the HelmReleases as the informer of each operator has them
  unseen,    \* the release secrets with a change that an operator has not been told of
  queue,     \* the work queue of each operator
  work,      \* the frame of each operator's worker for a HelmRelease
  register,  \* the object sets in the register of each operator
  budget     \* what is left of the bounds

releaseVars == <<api, secrets, cache, unseen, queue, work, register, budget>>

-----------------------------------------------------------------------------
Report == Release \cup {NoRelease, Unreported}

\* A HelmRelease: version is its resourceVersion, key its spec.release, manager its managed-by
\* annotation, and status the release that its status describes.
CustomResource == [version : Nat, exists : BOOLEAN, key : ReleaseKey \cup {NoKey},
             manager : Operator \cup {Nobody}, finalizer : BOOLEAN, deleting : BOOLEAN,
             status : Report]

Missing(version) ==
  [version |-> version, exists |-> FALSE, key |-> NoKey, manager |-> Nobody,
   finalizer |-> FALSE, deleting |-> FALSE, status |-> Unreported]

\* The state of a HelmRelease (newReleaseInfo, and OnHelmRelease when there is no secret).
StateOf(report) ==
  CASE report = Unreported -> ""
    [] report = NoRelease -> "SecretNotFound"
    [] OTHER -> CASE report.status = "unknown" -> "Unknown"
                  [] report.status = "deployed" -> "Deployed"
                  [] report.status = "uninstalled" -> "Uninstalled"
                  [] report.status = "superseded" -> "Error"
                  [] report.status = "failed" -> "Failed"
                  [] OTHER -> "Transitioning"

\* releaseInfo.Locked
Locked(release) == StateOf(release) = "Deployed"

\* What the register has for a key; unlocked says that Unlock was called after the last Set.
Entry == [tracked : BOOLEAN, os : SUBSET Object, unlocked : BOOLEAN]

Untracked == [tracked |-> FALSE, os |-> {}, unlocked |-> FALSE]

Tracking(os) == [tracked |-> TRUE, os |-> os, unlocked |-> FALSE]

WorkSteps == {"idle", "claim", "claim_again", "last", "delete", "status", "register",
              "finalize", "remove", "unfinalize"}

\* obj is the HelmRelease that the handlers are given, release what Last has returned, and
\* failed whether one of the two handlers has returned an error.
Work == [pc : WorkSteps, obj : CustomResource, release : Release \cup {NoRelease}, failed : BOOLEAN]

NoWork == [pc |-> "idle", obj |-> Missing(0), release |-> NoRelease, failed |-> FALSE]

ReleaseTypeOK ==
  /\ api \in [HelmRelease -> CustomResource]
  /\ secrets \in [ReleaseKey -> Release \cup {NoRelease}]
  /\ cache \in [Operator -> [HelmRelease -> CustomResource]]
  /\ unseen \in [Operator -> SUBSET ReleaseKey]
  /\ queue \in [Operator -> SUBSET HelmRelease]
  /\ work \in [Operator -> [HelmRelease -> Work]]
  /\ register \in [Operator -> [ReleaseKey -> Entry]]
  /\ budget \in [creates : 0 .. MaxCreates, retargets : 0 .. MaxRetargets,
                 changes : 0 .. MaxChanges]

\* Helm may have been at work before the operator is installed.
ReleaseInit ==
  /\ api = [h \in HelmRelease |-> Missing(0)]
  /\ secrets \in {found \in [ReleaseKey -> Release \cup {NoRelease}] :
                    \A key \in ReleaseKey : found[key] \in History[key] \cup {NoRelease}}
  /\ cache = [o \in Operator |-> [h \in HelmRelease |-> Missing(0)]]
  /\ unseen = [o \in Operator |-> {key \in ReleaseKey : secrets[key] # NoRelease}]
  /\ queue = [o \in Operator |-> {}]
  /\ work = [o \in Operator |-> [h \in HelmRelease |-> NoWork]]
  /\ register = [o \in Operator |-> [key \in ReleaseKey |-> Untracked]]
  /\ budget = [creates |-> MaxCreates, retargets |-> MaxRetargets,
               changes |-> MaxChanges]

-----------------------------------------------------------------------------
Spend(what) ==
  /\ \A bound \in what : budget[bound] > 0
  /\ budget' = [bound \in DOMAIN budget |->
                  IF bound \in what THEN budget[bound] - 1 ELSE budget[bound]]

\* Mutant: an update overwrites what others have written since.
Accepts_AnyVersion(h, obj) == api[h].exists

\* The API server takes a write that is based on the latest version of the object.
Accepts(h, obj) == api[h].exists /\ api[h].version = obj.version

\* What the server has after a write: the same version if the write changes nothing.
Stored(h, new) ==
  IF [new EXCEPT !.version = api[h].version] = api[h]
  THEN api[h] ELSE [new EXCEPT !.version = api[h].version + 1]

\* Update leaves the status alone, which is a subresource ...
Update(h, new) == api' = [api EXCEPT ![h] = Stored(h, [new EXCEPT !.status = api[h].status])]

\* ... and UpdateStatus everything else.
WithStatus(h, status) == Stored(h, [api[h] EXCEPT !.status = status])

\* The handlers assign to the object of the cache, unless the informer has replaced it.
AssignStatus(o, h, obj, status) ==
  cache' = IF cache[o][h].version = obj.version
           THEN [cache EXCEPT ![o][h].status = status] ELSE cache

\* Mutant: an error of a handler is swallowed.
Continue_NoRetry(o, h, pc, frame) ==
  /\ work' = [work EXCEPT ![o][h] = IF pc = "idle" THEN NoWork ELSE [frame EXCEPT !.pc = pc]]
  /\ UNCHANGED queue

\* The worker goes on at pc; when both handlers have returned, an error puts h back.
Continue(o, h, pc, frame) ==
  /\ work' = [work EXCEPT ![o][h] = IF pc = "idle" THEN NoWork ELSE [frame EXCEPT !.pc = pc]]
  /\ queue' = IF pc = "idle" /\ frame.failed
              THEN [queue EXCEPT ![o] = @ \cup {h}] ELSE queue

\* The second handler, for an object that is not being deleted: it has to have the finalizer.
AddFinalizerTo(obj) == IF obj.finalizer THEN "idle" ELSE "finalize"

-----------------------------------------------------------------------------
\* A worker takes h off the queue: what shouldManage and the first lines of both handlers make
\* of the cached object.  Without an annotation both handlers claim it; with that of another
\* operator both leave it alone.
Take(o, h) ==
  LET obj == cache[o][h]
      pc  == CASE ~ obj.exists -> "idle"
               [] obj.exists /\ obj.manager = Nobody -> "claim"
               [] obj.exists /\ obj.manager = o /\ obj.deleting -> "remove"
               [] obj.exists /\ obj.manager = o /\ ~ obj.deleting -> "last"
               [] OTHER -> "idle"
  IN  /\ h \in queue[o]
      /\ work[o][h].pc = "idle"
      /\ queue' = [queue EXCEPT ![o] = @ \ {h}]
      /\ work' = IF pc = "idle" THEN work
                 ELSE [work EXCEPT ![o][h] = [NoWork EXCEPT !.pc = pc, !.obj = obj]]
      /\ UNCHANGED <<api, secrets, cache, unseen, register, budget>>

\* The second handler still has the object without the annotation, and claims it once more.
AfterClaim(pc) == IF pc = "claim" THEN "claim_again" ELSE "idle"

\* shouldManage claims a copy of the object, and neither handler does anything else with it:
\* the update makes an event.
Claim(o, h) ==
  LET frame == work[o][h]
  IN  /\ frame.pc \in {"claim", "claim_again"}
      /\ Accepts(h, frame.obj)
      /\ Update(h, [frame.obj EXCEPT !.manager = o])
      /\ Continue(o, h, AfterClaim(frame.pc), frame)
      /\ UNCHANGED <<secrets, cache, unseen, register, budget>>

\* Mutant: nothing is done about a release whose status is up to date.
Last_SkipsReported(o, h) ==
  LET frame == work[o][h]
      found == secrets[frame.obj.key]
      known == found # NoRelease /\ found = frame.obj.status
  IN  /\ frame.pc = "last"
      /\ Continue(o, h, IF known THEN AddFinalizerTo(frame.obj)
                        ELSE IF found = NoRelease THEN "delete" ELSE "status",
                  [frame EXCEPT !.release = found,
                                !.obj.status = IF found = NoRelease THEN @ ELSE found])
      /\ IF found = NoRelease THEN UNCHANGED cache ELSE AssignStatus(o, h, frame.obj, found)
      /\ UNCHANGED <<api, secrets, unseen, register, budget>>

\* OnHelmRelease reads the latest version of the release from Helm's storage.
Last(o, h) ==
  LET frame == work[o][h]
      found == secrets[frame.obj.key]
  IN  /\ frame.pc = "last"
      /\ IF found = NoRelease
         THEN /\ Continue(o, h, "delete", [frame EXCEPT !.release = NoRelease])
              /\ UNCHANGED cache
         ELSE /\ Continue(o, h, "status", [frame EXCEPT !.release = found, !.obj.status = found])
              /\ AssignStatus(o, h, frame.obj, found)
      /\ UNCHANGED <<api, secrets, unseen, register, budget>>

LastFails(o, h) ==
  LET frame == work[o][h]
  IN  /\ frame.pc = "last"
      /\ Continue(o, h, AddFinalizerTo(frame.obj), [frame EXCEPT !.failed = TRUE])
      /\ UNCHANGED <<api, secrets, cache, unseen, register, budget>>

\* Mutant: the set of a release that is not found stays in the register.
CallDelete_Keeps(o, h) ==
  LET frame == work[o][h]
  IN  /\ frame.pc = "delete"
      /\ Continue(o, h, "status", [frame EXCEPT !.obj.status = NoRelease])
      /\ AssignStatus(o, h, frame.obj, NoRelease)
      /\ UNCHANGED <<api, secrets, unseen, register, budget>>

\* No release is found: Delete(releaseKey, true), and the status says so.
CallDelete(o, h) ==
  LET frame == work[o][h]
  IN  /\ frame.pc = "delete"
      /\ register' = [register EXCEPT ![o][frame.obj.key] = Untracked]
      /\ Continue(o, h, "status", [frame EXCEPT !.obj.status = NoRelease])
      /\ AssignStatus(o, h, frame.obj, NoRelease)
      /\ UNCHANGED <<api, secrets, unseen, budget>>

\* UpdateStatus, which comes before the register is told of a release that was found.  The second
\* handler is given the object that the server returns.
ReportStatus(o, h) ==
  LET frame == work[o][h]
      obj   == WithStatus(h, frame.obj.status)
  IN  /\ frame.pc = "status"
      /\ Accepts(h, frame.obj)
      /\ api' = [api EXCEPT ![h] = obj]
      /\ Continue(o, h, IF frame.release = NoRelease THEN AddFinalizerTo(obj) ELSE "register",
                  [frame EXCEPT !.obj = obj])
      /\ UNCHANGED <<secrets, cache, unseen, register, budget>>

\* The release is deployed: Set with what Parse makes of the manifest.
CallSet(o, h) ==
  LET frame == work[o][h]
  IN  /\ frame.pc = "register"
      /\ Locked(frame.release)
      /\ register' = [register EXCEPT ![o][frame.obj.key] = Tracking(Parse(frame.release.manifest))]
      /\ Continue(o, h, AddFinalizerTo(frame.obj), frame)
      /\ UNCHANGED <<api, secrets, cache, unseen, budget>>

\* The release is in any other state: Unlock, which leaves the object set where it is.
CallUnlock(o, h) ==
  LET frame == work[o][h]
  IN  /\ frame.pc = "register"
      /\ ~ Locked(frame.release)
      /\ register' = [register EXCEPT ![o][frame.obj.key].unlocked =
                        register[o][frame.obj.key].tracked]
      /\ Continue(o, h, AddFinalizerTo(frame.obj), frame)
      /\ UNCHANGED <<api, secrets, cache, unseen, budget>>

AddFinalizer(o, h) ==
  LET frame == work[o][h]
  IN  /\ frame.pc = "finalize"
      /\ Accepts(h, frame.obj)
      /\ Update(h, [frame.obj EXCEPT !.finalizer = TRUE])
      /\ Continue(o, h, "idle", frame)
      /\ UNCHANGED <<secrets, cache, unseen, register, budget>>

\* Mutant: only a deployed release is taken to be tracked.
Skippable_Unlocked(obj) == StateOf(obj.status) # "Deployed"

\* OnHelmReleaseRemove takes it from the status that there is nothing to delete.
Skippable(obj) == StateOf(obj.status) \in {"SecretNotFound", "Uninstalled"}

SkipRemove(o, h) ==
  LET frame == work[o][h]
  IN  /\ frame.pc = "remove"
      /\ Skippable(frame.obj)
      /\ Continue(o, h, "unfinalize", frame)
      /\ UNCHANGED <<api, secrets, cache, unseen, register, budget>>

\* Delete(releaseKey, false)
CallRemove(o, h) ==
  LET frame == work[o][h]
  IN  /\ frame.pc = "remove"
      /\ ~ Skippable(frame.obj)
      /\ register' = [register EXCEPT ![o][frame.obj.key] = Untracked]
      /\ Continue(o, h, "unfinalize", frame)
      /\ UNCHANGED <<api, secrets, cache, unseen, budget>>

\* The finalizer is taken off, which was all that kept the object.
RemoveFinalizer(o, h) ==
  LET frame == work[o][h]
  IN  /\ frame.pc = "unfinalize"
      /\ Accepts(h, frame.obj)
      /\ api' = [api EXCEPT ![h] = Missing(api[h].version + 1)]
      /\ Continue(o, h, "idle", frame)
      /\ UNCHANGED <<secrets, cache, unseen, register, budget>>

\* An Update or UpdateStatus returns an error: without a status the register is not told, and
\* the second handler goes on with the object it has.
RequestFails(o, h) ==
  LET frame == work[o][h]
  IN  /\ frame.pc \in {"claim", "claim_again", "status", "finalize", "unfinalize"}
      /\ Continue(o, h, CASE frame.pc = "status" -> AddFinalizerTo(frame.obj)
                          [] OTHER -> AfterClaim(frame.pc),
                  [frame EXCEPT !.failed = TRUE])
      /\ UNCHANGED <<api, secrets, cache, unseen, register, budget>>

Conflict(o, h) ==
  /\ ~ Accepts(h, work[o][h].obj)
  /\ RequestFails(o, h)

OtherFailure(o, h) == RequestFails(o, h)

-----------------------------------------------------------------------------
\* The informer of HelmReleases brings its copy up to date and queues the object.
Observe(o, h) ==
  /\ cache[o][h].version # api[h].version
  /\ cache' = [cache EXCEPT ![o][h] = api[h]]
  /\ queue' = [queue EXCEPT ![o] = @ \cup {h}]
  /\ UNCHANGED <<api, secrets, unseen, work, register, budget>>

\* The HelmReleases that an operator's index has for a release key.
Indexed(o, key) == {h \in HelmRelease : cache[o][h].exists /\ cache[o][h].key = key}

\* resolveHelmRelease, for a release secret that was written or deleted.
SecretChange(o, key) ==
  /\ key \in unseen[o]
  /\ unseen' = [unseen EXCEPT ![o] = @ \ {key}]
  /\ queue' = [queue EXCEPT ![o] = @ \cup Indexed(o, key)]
  /\ UNCHANGED <<api, secrets, cache, work, register, budget>>

\* Users create, edit and delete HelmReleases; an object with a finalizer is only marked.
Create(h, key) ==
  /\ ~ api[h].exists
  /\ Spend({"creates"})
  /\ api' = [api EXCEPT ![h] = [Missing(api[h].version + 1) EXCEPT !.exists = TRUE, !.key = key]]
  /\ UNCHANGED <<secrets, cache, unseen, queue, work, register>>

Retarget(h, key) ==
  /\ api[h].exists
  /\ key # api[h].key
  /\ Spend({"changes", "retargets"})
  /\ api' = [api EXCEPT ![h].key = key, ![h].version = @ + 1]
  /\ UNCHANGED <<secrets, cache, unseen, queue, work, register>>

Delete(h) ==
  /\ api[h].exists
  /\ ~ api[h].deleting
  /\ api' = [api EXCEPT ![h] = IF api[h].finalizer
                               THEN [api[h] EXCEPT !.deleting = TRUE, !.version = @ + 1]
                               ELSE Missing(api[h].version + 1)]
  /\ UNCHANGED <<secrets, cache, unseen, queue, work, register, budget>>

\* Helm works on a release, or its secret is deleted.
ChangeSecret(key, release) ==
  /\ release # secrets[key]
  /\ Spend({"changes"})
  /\ secrets' = [secrets EXCEPT ![key] = release]
  /\ unseen' = [o \in Operator |-> unseen[o] \cup {key}]
  /\ UNCHANGED <<api, cache, queue, work, register>>

\* The steps of a worker that leave the register alone, and those that call it.
QuietStep(o, h) ==
  \/ Take(o, h) \/ Claim(o, h) \/ Last(o, h) \/ ReportStatus(o, h) \/ AddFinalizer(o, h)
  \/ SkipRemove(o, h) \/ RemoveFinalizer(o, h) \/ Conflict(o, h)

WorkStep(o, h) ==
  \/ QuietStep(o, h)
  \/ CallDelete(o, h) \/ CallSet(o, h) \/ CallUnlock(o, h) \/ CallRemove(o, h)

Failure(o, h) == LastFails(o, h) \/ OtherFailure(o, h)

User ==
  \E h \in HelmRelease :
    \/ \E key \in ReleaseKey : Create(h, key) \/ Retarget(h, key)
    \/ Delete(h)

Helm ==
  \E key \in ReleaseKey : \E release \in History[key] \cup {NoRelease} : ChangeSecret(key, release)

ReleaseNext ==
  \/ User
  \/ Helm
  \/ \E o \in Operator, h \in HelmRelease :
       WorkStep(o, h) \/ Observe(o, h) \/ Failure(o, h)
  \/ \E o \in Operator, key \in ReleaseKey : SecretChange(o, key)

ReleaseSpec == ReleaseInit /\ [][ReleaseNext]_releaseVars

-----------------------------------------------------------------------------
Claims == INSTANCE ResourceOwnership
            WITH SetKey <- Operator, Resource <- HelmRelease, NoKey <- Nobody,
                 owner <- [h \in HelmRelease |-> api[h].manager]

\* A HelmRelease has one manager for as long as it exists: however many operators claim it from
\* stale copies, and whatever copies they update later, none takes it from another.
ClaimSpec == Claims!Spec

\* Nobody has edited a spec.release.
NoRetarget == budget.retargets = MaxRetargets

\* What OnHelmReleaseRemove takes for granted when it skips a release that is not found: as
\* long as the status says so the register has nothing for it.  The handler deletes before it
\* reports that a release is gone, and reports that it is back before it registers it.
NotFoundIsUntracked ==
  NoRetarget =>
    \A h \in HelmRelease, o \in Operator :
      api[h].manager = o /\ api[h].status = NoRelease
        => register[o][api[h].key] = Untracked

\* A HelmRelease with a finalizer only disappears when its manager has nothing registered for
\* it any more, whatever state the release was in, except for one that is uninstalled.
RemovedIsReleased ==
  [][\A h \in HelmRelease :
       /\ NoRetarget
       /\ api[h].finalizer
       /\ ~ api'[h].exists
       /\ StateOf(api[h].status) # "Uninstalled"
       => register[api[h].manager][api[h].key] = Untracked]_releaseVars
=============================================================================
