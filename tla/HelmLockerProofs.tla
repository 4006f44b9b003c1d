--------------------------- MODULE HelmLockerProofs ---------------------------
(***************************************************************************)
(* Proofs about the whole of Helm Locker, for any number of operators,     *)
(* HelmReleases, releases and resources: what holds of the release         *)
(* controller goes on to hold when operators stop at any moment and start  *)
(* again with nothing in memory.                                           *)
(***************************************************************************)
EXTENDS HelmLocker, ReleaseStatusProofs

\* A HelmRelease that nobody has ever created looks as it does to an informer that has not seen
\* it yet.
FreshIsMissing == \A h \in HelmRelease : api[h].version = 0 => api[h] = Missing(0)

OwnTypeOK ==
  /\ locked \in [Operator -> [ReleaseKey -> SUBSET Name]]
  /\ setQueue \in [Operator -> SUBSET ReleaseKey]
  /\ applying \in [Operator -> [ReleaseKey -> Apply]]
  /\ cluster \in [Name -> Content]
  /\ faults \in 0 .. MaxFaults

LockerInv == ReleaseInv /\ FreshIsMissing /\ OwnTypeOK

\* What a step of the whole is to the release controllers: one of their own, a restart or a
\* resync.
ReleasePart ==
  \/ [ReleaseNext]_releaseVars
  \/ \E o \in Operator : Restart(o) \/ Resync(o)

-----------------------------------------------------------------------------
\* A step of the whole is, for the release controllers, a step of theirs, unless it is a restart
\* or a resync.
LEMMA LockerParts ==
  ASSUME [LockerNext]_lockerVars
  PROVE  ReleasePart
<1>1. ASSUME NEW o \in Operator, NEW h \in HelmRelease, HandlerStep(o, h)
      PROVE  ReleaseNext
  <2>1. WorkStep(o, h)
    BY <1>1 DEF HandlerStep, SetObjects, UnlockObjects, PurgeObjects, ReleaseObjects, WorkStep
  <2> QED BY <2>1 DEF ReleaseNext
<1>2. ASSUME NEW o \in Operator, NEW key \in ReleaseKey, ApplyStep(o, key)
      PROVE  UNCHANGED releaseVars
  BY <1>2 DEF ApplyStep, BeginApply, ApplyObjects, EndApply
<1>3. ASSUME NEW o \in Operator, EventStep(o)
      PROVE  ReleaseNext
  BY <1>3 DEF EventStep, ReleaseNext
<1>4. ASSUME NEW o \in Operator, NEW h \in HelmRelease, Failed(o, h) \/ PurgeFails(o, h)
      PROVE  ReleaseNext
  <2>1. WorkStep(o, h) \/ Failure(o, h)
    BY <1>4 DEF Failed, PurgeFails, WorkStep
  <2> QED BY <2>1 DEF ReleaseNext
<1>5. ASSUME NEW name \in Name, NEW data \in Damage, Edit(name, data)
      PROVE  UNCHANGED releaseVars
  BY <1>5 DEF Edit
<1>6. CASE Environment
  BY <1>4, <1>5, <1>6 DEF Environment, ReleaseNext, ReleasePart
<1>7. CASE UNCHANGED lockerVars
  BY <1>7 DEF lockerVars, ReleasePart
<1> QED BY <1>1, <1>2, <1>3, <1>6, <1>7 DEF LockerNext, ReleasePart

\* What an operator has after a restart.
LEMMA RestartForm ==
  ASSUME ReleaseTypeOK, NEW o \in Operator, Restart(o)
  PROVE  /\ api' = api /\ secrets' = secrets /\ budget' = budget
         /\ \A h \in HelmRelease : cache'[o][h] = Missing(0) /\ work'[o][h] = NoWork
         /\ \A key \in ReleaseKey : register'[o][key] = Untracked
         /\ \A p \in Operator : p # o => /\ cache'[p] = cache[p] /\ work'[p] = work[p]
                                         /\ register'[p] = register[p]
BY DEF Restart, ReleaseTypeOK

\* The types of an operator's memory after a restart.
LEMMA RestartType ==
  ASSUME ReleaseTypeOK, NEW o \in Operator, Restart(o)
  PROVE  ReleaseTypeOK'
<1>1. Missing(0) \in CustomResource
  BY MissingType
<1>2. NoWork \in Work
  BY <1>1 DEF NoWork, Work, WorkSteps
<1>3. Untracked \in Entry
  BY DEF Untracked, Entry
<1> USE DEF ReleaseTypeOK
<1>4. cache' \in [Operator -> [HelmRelease -> CustomResource]]
  <2> DEFINE new == [h \in HelmRelease |-> Missing(0)]
  <2>1. new \in [HelmRelease -> CustomResource] /\ cache' = [cache EXCEPT ![o] = new]
    BY <1>1 DEF Restart
  <2> HIDE DEF new
  <2> QED BY <2>1
<1>5. work' \in [Operator -> [HelmRelease -> Work]]
  <2> DEFINE new == [h \in HelmRelease |-> NoWork]
  <2>1. new \in [HelmRelease -> Work] /\ work' = [work EXCEPT ![o] = new]
    BY <1>2 DEF Restart
  <2> HIDE DEF new
  <2> QED BY <2>1
<1>6. register' \in [Operator -> [ReleaseKey -> Entry]]
  <2> DEFINE new == [key \in ReleaseKey |-> Untracked]
  <2>1. new \in [ReleaseKey -> Entry] /\ register' = [register EXCEPT ![o] = new]
    BY <1>3 DEF Restart
  <2> HIDE DEF new
  <2> QED BY <2>1
<1>7. unseen' \in [Operator -> SUBSET ReleaseKey] /\ queue' \in [Operator -> SUBSET HelmRelease]
  BY DEF Restart
<1> QED BY <1>4, <1>5, <1>6, <1>7 DEF Restart

\* An operator that starts again has no copies to be wrong about.
LEMMA RestartInv ==
  ASSUME ReleaseInv, FreshIsMissing, NEW o \in Operator, Restart(o)
  PROVE  ReleaseInv'
<1>1. ReleaseTypeOK /\ ReleaseTypeOK'
  BY RestartType DEF ReleaseInv
<1>2. /\ Missing(0).version = 0 /\ Missing(0).manager = Nobody /\ Sound(Missing(0))
      /\ NoWork.pc = "idle"
  BY DEF Missing, Sound, NoWork
<1>3. ASSUME NEW h \in HelmRelease
      PROVE  Agrees(Missing(0), h)
  BY <1>1, <1>2 DEF ReleaseTypeOK, CustomResource, FreshIsMissing, Agrees
<1>4. ASSUME NEW p \in Operator, NEW h \in HelmRelease
      PROVE  /\ Agrees(cache[p][h], h)' /\ Sound(cache'[p][h])
             /\ work'[p][h].pc # "idle" =>
                  /\ Agrees(work[p][h].obj, h)'
                  /\ work'[p][h].obj.exists /\ Sound(work'[p][h].obj)
             /\ work'[p][h].pc \in {"claim", "claim_again"} => work'[p][h].obj.manager = Nobody
  <2>1. CASE p = o
    BY <1>1, <1>2, <1>3, <2>1, RestartForm DEF Agrees
  <2>2. CASE p # o
    BY <1>1, <2>2, RestartForm DEF ReleaseInv, CopiesAgree, Agrees, ObjectsSound, ClaimsAreFree
  <2> QED BY <2>1, <2>2
<1>5. \A h \in HelmRelease : Sound(api'[h])
  BY <1>1, RestartForm DEF ReleaseInv, ObjectsSound
<1> QED BY <1>1, <1>4, <1>5 DEF ReleaseInv, CopiesAgree, ObjectsSound, ClaimsAreFree

\* A resync only queues what there is.
LEMMA ResyncInv ==
  ASSUME ReleaseInv, NEW o \in Operator, Resync(o)
  PROVE  ReleaseInv'
<1>1. /\ UNCHANGED <<api, secrets, cache, unseen, work, register, budget>>
      /\ queue' = [queue EXCEPT ![o] = @ \cup {h \in HelmRelease : cache[o][h].exists}]
  BY DEF Resync
<1>2. ReleaseTypeOK'
  BY <1>1 DEF ReleaseInv, ReleaseTypeOK
<1> QED BY <1>1, <1>2 DEF ReleaseInv, CopiesAgree, Agrees, ObjectsSound, ClaimsAreFree

\* The part of the release controllers keeps their invariant, restarts or not.
LEMMA ReleasePartInv ==
  ASSUME ReleaseInv, FreshIsMissing, ReleasePart
  PROVE  ReleaseInv' /\ FreshIsMissing'
<1>1. ReleaseInv'
  BY ReleaseNextInv, RestartInv, ResyncInv DEF ReleasePart
<1>2. ApiForm
  BY EveryStep DEF ReleasePart, StepForm, ApiForm, releaseVars, Restart, Resync
<1>3. ASSUME NEW h \in HelmRelease
      PROVE  api'[h] = api[h] \/ api'[h].version = api[h].version + 1
  BY <1>2 DEF ApiForm, Written
<1>4. \A h \in HelmRelease : api[h].version \in Nat
  BY DEF ReleaseInv, ReleaseTypeOK, CustomResource
<1>5. FreshIsMissing'
  BY <1>3, <1>4 DEF FreshIsMissing
<1> QED BY <1>1, <1>5

-----------------------------------------------------------------------------
\* A resource that is deleted leaves the cluster well formed.
LEMMA WithoutType ==
  ASSUME OwnTypeOK, NEW names
  PROVE  Without(names) \in [Name -> Content]
<1>1. Gone \in Content
  BY DEF Gone, Content
<1> QED BY <1>1 DEF Without, OwnTypeOK

\* Unlocking is always possible.
LEMMA SetUnlockedType ==
  ASSUME OwnTypeOK, NEW o \in Operator, NEW key \in ReleaseKey, SetUnlocked(o, key)
  PROVE  locked' \in [Operator -> [ReleaseKey -> SUBSET Name]]
<1>1. {} \in SUBSET Name
  OBVIOUS
<1>2. locked' = [locked EXCEPT ![o][key] = {}]
  BY DEF SetUnlocked
<1> QED BY <1>1, <1>2 DEF OwnTypeOK

\* The bound on what goes wrong.
LEMMA FaultType ==
  ASSUME OwnTypeOK, Fault
  PROVE  faults' \in 0 .. MaxFaults
BY LockerAssumption DEF OwnTypeOK, Fault

\* What the register holds has names in the cluster.
LEMMA NamesType ==
  ASSUME NEW os \in SUBSET Object
  PROVE  Names(os) \in SUBSET Name
BY LockerAssumption DEF Names

\* The handlers of the release controller keep the types of the rest.
LEMMA HandlerType ==
  ASSUME LockerInv, NEW o \in Operator, NEW h \in HelmRelease,
         HandlerStep(o, h) \/ PurgeFails(o, h) \/ Failed(o, h)
  PROVE  OwnTypeOK'
<1> USE DEF LockerInv
<1>1. ASSUME work[o][h].pc # "idle"
      PROVE  KeyOf(o, h) \in ReleaseKey
  BY <1>1, FrameSound DEF KeyOf
<1>2. ASSUME UNCHANGED setVars
      PROVE  OwnTypeOK'
  BY <1>2 DEF setVars, OwnTypeOK
<1>3. CASE SetObjects(o, h)
  <2>1. work[o][h].pc # "idle" /\ UNCHANGED <<locked, applying, cluster, faults>>
    BY <1>3 DEF SetObjects, CallSet
  <2>2. setQueue' \in [Operator -> SUBSET ReleaseKey]
    BY <1>1, <1>3, <2>1 DEF SetObjects, SetQueued, OwnTypeOK
  <2> QED BY <2>1, <2>2 DEF OwnTypeOK
<1>4. ASSUME work[o][h].pc # "idle", SetUnlocked(o, KeyOf(o, h)),
             UNCHANGED <<setQueue, applying>>,
             cluster' = cluster \/ \E names : cluster' = Without(names),
             faults' = faults \/ Fault
      PROVE  OwnTypeOK'
  <2>1. locked' \in [Operator -> [ReleaseKey -> SUBSET Name]]
    BY <1>1, <1>4, SetUnlockedType
  <2>2. cluster' \in [Name -> Content]
    BY <1>4, WithoutType DEF OwnTypeOK
  <2>3. faults' \in 0 .. MaxFaults
    BY <1>4, FaultType DEF OwnTypeOK
  <2> QED BY <1>4, <2>1, <2>2, <2>3 DEF OwnTypeOK
<1>5. CASE UnlockObjects(o, h)
  BY <1>4, <1>5 DEF UnlockObjects, CallUnlock
<1>6. CASE PurgeObjects(o, h)
  BY <1>4, <1>6 DEF PurgeObjects, CallDelete
<1>7. CASE PurgeFails(o, h)
  BY <1>4, <1>7 DEF PurgeFails, CallDelete
<1>8. CASE ReleaseObjects(o, h)
  BY <1>4, <1>8 DEF ReleaseObjects, CallRemove
<1>9. CASE Failed(o, h)
  BY <1>9, FaultType DEF Failed, OwnTypeOK
<1> QED BY <1>2, <1>3, <1>5, <1>6, <1>7, <1>8, <1>9 DEF HandlerStep

\* An apply keeps the types.
LEMMA ApplyType ==
  ASSUME LockerInv, NEW o \in Operator, NEW key \in ReleaseKey, ApplyStep(o, key)
  PROVE  OwnTypeOK'
<1> USE DEF LockerInv
<1>1. register[o][key].os \in SUBSET Object
  BY DEF ReleaseInv, ReleaseTypeOK, Entry
<1>2. applying[o][key] \in Apply /\ NoApply \in Apply
  BY DEF OwnTypeOK, Apply, NoApply
<1>3. CASE BeginApply(o, key)
  <2> DEFINE new == [pc |-> "apply", os |-> register[o][key].os]
  <2>1. new \in Apply
    BY <1>1 DEF Apply
  <2>2. /\ UNCHANGED <<cluster, faults>>
        /\ setQueue' = [setQueue EXCEPT ![o] = @ \ {key}]
        /\ \/ UNCHANGED <<locked, applying>>
           \/ SetUnlocked(o, key) /\ applying' = [applying EXCEPT ![o][key] = new]
    BY <1>3 DEF BeginApply
  <2> HIDE DEF new
  <2>3. locked' \in [Operator -> [ReleaseKey -> SUBSET Name]]
    BY <2>2, SetUnlockedType DEF OwnTypeOK
  <2>4. applying' \in [Operator -> [ReleaseKey -> Apply]]
    <3>1. CASE applying' = applying
      BY <3>1 DEF OwnTypeOK
    <3>2. CASE applying' = [applying EXCEPT ![o][key] = new]
      BY <2>1, <3>2 DEF OwnTypeOK
    <3> QED BY <2>2, <3>1, <3>2
  <2>5. setQueue' \in [Operator -> SUBSET ReleaseKey]
    BY <2>2 DEF OwnTypeOK
  <2> QED BY <2>2, <2>3, <2>4, <2>5 DEF OwnTypeOK
<1>4. CASE ApplyObjects(o, key)
  <2> DEFINE os  == applying[o][key].os
             new == [NoApply EXCEPT !.pc = "lock"]
             dropped == Owned(key) \cap Scope(os)
  <2>1. new \in Apply /\ os \in SUBSET Object
    BY <1>2 DEF Apply, NoApply
  <2>2. /\ UNCHANGED <<locked, setQueue, faults>>
        /\ applying' = [applying EXCEPT ![o][key] = new]
        /\ cluster' = [name \in Name |->
                         IF name \in Names(os)
                         THEN [data |-> CHOOSE obj \in os : NameOf[obj] = name, owner |-> key]
                         ELSE Without(dropped)[name]]
    BY <1>4 DEF ApplyObjects
  <2>3. Without(dropped) \in [Name -> Content]
    BY WithoutType
  <2> HIDE DEF new, os, dropped
  <2>4. ASSUME NEW name \in Names(os)
        PROVE  [data |-> CHOOSE obj \in os : NameOf[obj] = name, owner |-> key] \in Content
    <3>1. (CHOOSE obj \in os : NameOf[obj] = name) \in os
      BY <2>4 DEF Names
    <3> QED BY <2>1, <3>1 DEF Content
  <2>5. cluster' \in [Name -> Content]
    BY <2>2, <2>3, <2>4
  <2>6. applying' \in [Operator -> [ReleaseKey -> Apply]]
    BY <2>1, <2>2 DEF OwnTypeOK
  <2> QED BY <2>2, <2>5, <2>6 DEF OwnTypeOK
<1>5. CASE EndApply(o, key)
  <2> DEFINE names == Names(register[o][key].os)
  <2>1. names \in SUBSET Name
    BY <1>1, NamesType
  <2>2. /\ UNCHANGED <<setQueue, cluster, faults>>
        /\ applying' = [applying EXCEPT ![o][key] = NoApply]
        /\ locked' = locked \/ locked' = [locked EXCEPT ![o][key] = names]
    BY <1>5 DEF EndApply
  <2> HIDE DEF names
  <2>3. locked' \in [Operator -> [ReleaseKey -> SUBSET Name]]
    <3>1. CASE locked' = locked
      BY <3>1 DEF OwnTypeOK
    <3>2. CASE locked' = [locked EXCEPT ![o][key] = names]
      BY <2>1, <3>2 DEF OwnTypeOK
    <3> QED BY <2>2, <3>1, <3>2
  <2>4. applying' \in [Operator -> [ReleaseKey -> Apply]]
    BY <1>2, <2>2 DEF OwnTypeOK
  <2> QED BY <2>2, <2>3, <2>4 DEF OwnTypeOK
<1> QED BY <1>3, <1>4, <1>5 DEF ApplyStep

\* Edits keep the types.
LEMMA EditType ==
  ASSUME LockerInv, NEW name \in Name, NEW data \in Damage, Edit(name, data)
  PROVE  OwnTypeOK'
<1> DEFINE new == IF data = Absent THEN Gone ELSE [cluster[name] EXCEPT !.data = data]
<1>1. /\ Fault /\ UNCHANGED <<locked, applying>>
      /\ cluster' = [cluster EXCEPT ![name] = new]
      /\ setQueue' = [o \in Operator |->
                        setQueue[o] \cup {key \in ReleaseKey : name \in locked[o][key]}]
  BY DEF Edit
<1>2. new \in Content
  <2>1. cluster[name] \in Content /\ data \in {Absent, Drift}
    BY LockerAssumption DEF LockerInv, OwnTypeOK
  <2> QED BY <2>1 DEF Gone, Content
<1> HIDE DEF new
<1>3. cluster' \in [Name -> Content] /\ setQueue' \in [Operator -> SUBSET ReleaseKey]
  BY <1>1, <1>2 DEF LockerInv, OwnTypeOK
<1> QED BY <1>1, <1>3, FaultType DEF LockerInv, OwnTypeOK

\* So do restarts, which leave nothing locked, queued or applied, and resyncs.
LEMMA ReviveType ==
  ASSUME LockerInv, NEW o \in Operator, Restart(o) \/ Resync(o)
  PROVE  OwnTypeOK'
<1> USE DEF LockerInv
<1>1. CASE Restart(o)
  <2> DEFINE none == [key \in ReleaseKey |-> {}]
             idle == [key \in ReleaseKey |-> NoApply]
  <2>1. none \in [ReleaseKey -> SUBSET Name] /\ idle \in [ReleaseKey -> Apply]
    BY DEF NoApply, Apply
  <2>2. /\ Fault /\ cluster' = cluster
        /\ locked' = [locked EXCEPT ![o] = none]
        /\ setQueue' = [setQueue EXCEPT ![o] = {}]
        /\ applying' = [applying EXCEPT ![o] = idle]
    BY <1>1 DEF Restart
  <2> HIDE DEF none, idle
  <2>3. /\ locked' \in [Operator -> [ReleaseKey -> SUBSET Name]]
        /\ setQueue' \in [Operator -> SUBSET ReleaseKey]
        /\ applying' \in [Operator -> [ReleaseKey -> Apply]]
    BY <2>1, <2>2 DEF OwnTypeOK
  <2> QED BY <2>2, <2>3, FaultType DEF OwnTypeOK
<1>2. CASE Resync(o)
  <2>1. setQueue' \in [Operator -> SUBSET ReleaseKey]
    BY <1>2 DEF Resync, OwnTypeOK
  <2> QED BY <1>2, <2>1 DEF Resync, OwnTypeOK
<1> QED BY <1>1, <1>2

\* LockerInv is inductive.
LEMMA LockerStepInv == LockerInv /\ [LockerNext]_lockerVars => LockerInv'
<1> SUFFICES ASSUME LockerInv, [LockerNext]_lockerVars PROVE LockerInv'
  OBVIOUS
<1>1. ReleaseInv' /\ FreshIsMissing'
  BY LockerParts, ReleasePartInv DEF LockerInv
<1>2. ASSUME UNCHANGED <<locked, setQueue, applying, cluster, faults>>
      PROVE  OwnTypeOK'
  BY <1>2 DEF LockerInv, OwnTypeOK
<1>3. ASSUME UNCHANGED lockerVars
      PROVE  OwnTypeOK'
  BY <1>2, <1>3 DEF lockerVars, setVars
<1>4. ASSUME Environment
      PROVE  OwnTypeOK'
  <2>1. ASSUME NEW o \in Operator, NEW h \in HelmRelease, Failed(o, h) \/ PurgeFails(o, h)
        PROVE  OwnTypeOK'
    BY <2>1, HandlerType
  <2>2. ASSUME NEW name \in Name, NEW data \in Damage, Edit(name, data)
        PROVE  OwnTypeOK'
    BY <2>2, EditType
  <2>3. ASSUME NEW o \in Operator, Restart(o)
        PROVE  OwnTypeOK'
    BY <2>3, ReviveType
  <2> QED BY <1>2, <1>4, <2>1, <2>2, <2>3 DEF Environment, setVars
<1>5. ASSUME NEW o \in Operator, EventStep(o)
      PROVE  OwnTypeOK'
  BY <1>2, <1>5 DEF EventStep, setVars
<1>6. ASSUME NEW o \in Operator, Resync(o)
      PROVE  OwnTypeOK'
  BY <1>6, ReviveType
<1>7. ASSUME NEW o \in Operator, NEW h \in HelmRelease, HandlerStep(o, h)
      PROVE  OwnTypeOK'
  BY <1>7, HandlerType
<1>8. ASSUME NEW o \in Operator, NEW key \in ReleaseKey, ApplyStep(o, key)
      PROVE  OwnTypeOK'
  BY <1>8, ApplyType
<1>9. OwnTypeOK'
  BY <1>3, <1>4, <1>5, <1>6, <1>7, <1>8 DEF LockerNext
<1> QED BY <1>1, <1>9 DEF LockerInv

\* LockerInv holds before anything has happened.
LEMMA LockerInitInv == LockerInit => LockerInv
<1> SUFFICES ASSUME LockerInit PROVE LockerInv
  OBVIOUS
<1>1. Gone \in Content /\ NoApply \in Apply
  BY DEF Gone, Content, NoApply, Apply
<1>2. OwnTypeOK
  BY <1>1, LockerAssumption DEF LockerInit, OwnTypeOK
<1>3. FreshIsMissing
  BY DEF LockerInit, ReleaseInit, FreshIsMissing
<1> QED BY <1>2, <1>3, ReleaseInitInv DEF LockerInit, LockerInv

\* LockerInv in every state of Helm Locker.
LEMMA LockerInvariant == LockerSpec => []LockerInv
BY LockerInitInv, LockerStepInv, PTL DEF LockerSpec

-----------------------------------------------------------------------------
\* Type correctness of the whole: what is locked, applied and written are the resources of the
\* manifests, through failures, edits and restarts.
THEOREM LockerTypeCorrect == LockerSpec => []LockerTypeOK
<1>1. LockerInv => LockerTypeOK
  BY DEF LockerInv, ReleaseInv, OwnTypeOK, LockerTypeOK
<1> QED BY <1>1, LockerInvariant, PTL

\* Exclusive ownership survives restarts: an operator that has forgotten what it has claimed
\* takes no HelmRelease from another, and gives none up.
THEOREM LockerImplementsOwnership == LockerSpec => ClaimSpec
<1>1. LockerInit => Claims!Init
  BY DEF LockerInit, ReleaseInit, Claims!Init, Missing
<1>2. LockerInv /\ [LockerNext]_lockerVars
        => [Claims!Next]_([h \in HelmRelease |-> api[h].manager])
  <2> SUFFICES ASSUME LockerInv, [LockerNext]_lockerVars
               PROVE  [Claims!Next]_([h \in HelmRelease |-> api[h].manager])
    OBVIOUS
  <2>1. ASSUME api' = api
        PROVE  UNCHANGED [h \in HelmRelease |-> api[h].manager]
    BY <2>1
  <2>2. ASSUME ReleaseNext
        PROVE  [Claims!Next]_([h \in HelmRelease |-> api[h].manager])
    BY <2>2, EveryStep, StepClaims DEF LockerInv
  <2>3. ReleaseNext \/ api' = api
    BY LockerParts DEF ReleasePart, Restart, Resync, releaseVars
  <2> QED BY <2>1, <2>2, <2>3
<1> QED BY <1>1, <1>2, LockerInvariant, PTL DEF LockerSpec, ClaimSpec, Claims!Spec

\* A restart loses the register and the frames of the workers, and nothing that a status says.
LEMMA RestartStatus ==
  ASSUME ReleaseInv, FreshIsMissing, StatusInv, NEW o \in Operator, Restart(o)
  PROVE  StatusInv'
<1>1. /\ ReleaseTypeOK
      /\ api' = api /\ budget' = budget
      /\ \A h \in HelmRelease : cache'[o][h] = Missing(0) /\ work'[o][h] = NoWork
      /\ \A key \in ReleaseKey : register'[o][key] = Untracked
      /\ \A p \in Operator : p # o => /\ cache'[p] = cache[p] /\ work'[p] = work[p]
                                      /\ register'[p] = register[p]
  BY RestartForm DEF ReleaseInv
<1>2. ASSUME NEW h \in HelmRelease
      PROVE  Fits(o, h)'
  <2>1. work'[o][h].pc = "idle" /\ Missing(0).version = 0
    BY <1>1 DEF NoWork, Missing
  <2>2. CopiesUpToDate(o, h)'
    BY <1>1, <2>1 DEF FreshIsMissing, CopiesUpToDate, UpToDate
  <2>3. NotFound(o, h)'
    BY <1>1, ReleaseAssumption DEF NotFound, ReleaseInv, ObjectsSound, Sound
  <2>4. StatusFits(o, h)'
    BY <1>1, <2>1, <2>3
    DEF StatusInv, Fits, StatusFits, ReportsLast, ReportsFirst, FreeIsUnreported, Releases
  <2> QED BY <2>1, <2>2, <2>4 DEF Fits, FrameFits
<1>3. ASSUME NEW p \in Operator, NEW h \in HelmRelease, p # o
      PROVE  Fits(p, h)'
  <2>1. Elsewhere(p, h)
    BY <1>1, <1>3 DEF Elsewhere, StillUntracked, NoRetarget
  <2> QED BY <2>1, ElsewhereFits DEF StatusInv
<1> QED BY <1>2, <1>3 DEF StatusInv

\* StatusInv in every state of Helm Locker, for as long as the keys are apart.
LEMMA LockerStatus == LockerSpec /\ []KeysApart => []StatusInv
<1>1. LockerInv /\ StatusInv /\ KeysApart /\ [LockerNext]_lockerVars => StatusInv'
  <2> SUFFICES ASSUME LockerInv, StatusInv, KeysApart, [LockerNext]_lockerVars
               PROVE  StatusInv'
    OBVIOUS
  <2>1. ASSUME NEW o \in Operator, Resync(o)
        PROVE  StatusInv'
    BY <2>1, NothingFits DEF LockerInv, Resync, NoRetarget
  <2> QED BY <2>1, LockerParts, StatusStep, RestartStatus DEF LockerInv, ReleasePart
<1>2. LockerInit => StatusInv
  BY StatusInit DEF LockerInit
<1> QED BY <1>1, <1>2, LockerInvariant, PTL DEF LockerSpec

\* What a status says of the register goes on to hold through restarts and purges that fail.
THEOREM NotFoundSurvivesRestarts == LockerSpec /\ []KeysApart => []NotFoundIsUntracked
<1>1. StatusInv => NotFoundIsUntracked
  BY DEF StatusInv, Fits, StatusFits, NotFound, NotFoundIsUntracked
<1> QED BY <1>1, LockerStatus, PTL

-----------------------------------------------------------------------------
\* What has a finalizer exists: a restart does not touch the API server.
LEMMA LockerFinalized == LockerSpec => []FinalizedExist
<1>1. LockerInit => FinalizedExist
  BY DEF LockerInit, ReleaseInit, FinalizedExist, Missing
<1>2. LockerInv /\ FinalizedExist /\ [LockerNext]_lockerVars => FinalizedExist'
  <2> SUFFICES ASSUME LockerInv, FinalizedExist, [LockerNext]_lockerVars, NEW h \in HelmRelease
               PROVE  Stays(h)
    BY DEF FinalizedExist, Stays
  <2>1. CASE api' = api
    BY <2>1 DEF Stays
  <2>2. CASE [ReleaseNext]_releaseVars
    BY <2>2, EveryStays DEF LockerInv
  <2> QED BY <2>1, <2>2, LockerParts DEF ReleasePart, Restart, Resync
<1> QED BY <1>1, <1>2, LockerInvariant, PTL DEF LockerSpec

\* A HelmRelease with a finalizer only disappears when its manager has released what it had
\* registered for it: also when the operator stops in the middle of the removal, and the one
\* that starts again takes the finalizer off.
THEOREM RemovedSurvivesRestarts == LockerSpec /\ []KeysApart => RemovedIsReleased
<1> DEFINE Released == \A h \in HelmRelease :
                         /\ NoRetarget
                         /\ api[h].finalizer
                         /\ ~ api'[h].exists
                         /\ StateOf(api[h].status) # "Uninstalled"
                         => register[api[h].manager][api[h].key] = Untracked
<1>1. LockerInv /\ FinalizedExist /\ StatusInv /\ [LockerNext]_lockerVars => Released
  <2> SUFFICES ASSUME LockerInv, FinalizedExist, StatusInv, [LockerNext]_lockerVars
               PROVE  Released
    OBVIOUS
  <2>1. CASE api' = api
    BY <2>1 DEF FinalizedExist
  <2>2. CASE [ReleaseNext]_releaseVars
    BY <2>2, RemovedStep DEF LockerInv
  <2> QED BY <2>1, <2>2, LockerParts DEF ReleasePart, Restart, Resync
<1> QED BY <1>1, LockerStatus, LockerFinalized, LockerInvariant, PTL
        DEF LockerSpec, RemovedIsReleased
=============================================================================
