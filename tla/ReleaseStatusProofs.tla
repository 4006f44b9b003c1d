------------------------- MODULE ReleaseStatusProofs -------------------------
(***************************************************************************)
(* Proofs about what the status of a HelmRelease says of the register: for *)
(* any number of operators, HelmReleases and releases, with requests that  *)
(* fail and writes that conflict at any time, as long as no two            *)
(* HelmReleases have to do with the same release key.                      *)
(***************************************************************************)
EXTENDS ReleaseControllerProofs

\* HelmRelease h names key, or is still being handled under it.
Uses(o, h, key) ==
  \/ api[h].key = key
  \/ work[o][h].pc # "idle" /\ work[o][h].obj.key = key

\* Every release key belongs to one HelmRelease at a time.
KeysApart ==
  \A o \in Operator, key \in ReleaseKey, g, h \in HelmRelease :
    Uses(o, g, key) /\ Uses(o, h, key) => g = h

\* A copy of the latest version is right about the key and the deletion; a handler that assigns
\* a status to it has not seen the object being deleted.
UpToDate(copy, h) ==
  copy.version = api[h].version =>
    /\ copy.key = api[h].key
    /\ copy.deleting = api[h].deleting
    /\ api[h].deleting => copy.status = api[h].status

CopiesUpToDate(o, h) ==
  /\ UpToDate(cache[o][h], h)
  /\ work[o][h].pc # "idle" => UpToDate(work[o][h].obj, h)

\* What a worker knows by the step that it has got to.
FrameFits(o, h) ==
  /\ work[o][h].pc \notin {"idle", "claim", "claim_again"} => work[o][h].obj.manager = o
  /\ work[o][h].pc \in {"last", "delete", "status"} => ~ work[o][h].obj.deleting
  /\ work[o][h].pc = "remove" => work[o][h].obj.deleting
  /\ work[o][h].pc = "delete" => work[o][h].release = NoRelease
  /\ work[o][h].pc = "status" => work[o][h].obj.status = work[o][h].release
  /\ work[o][h].pc = "register" => work[o][h].release # NoRelease

\* Nothing is registered when a worker is about to report that there is no release ...
ReportsLast(o, h) ==
  work[o][h].pc = "status" /\ work[o][h].release = NoRelease
    => register[o][work[o][h].obj.key] = Untracked

\* ... nor does the status still say so when it is about to register one.
ReportsFirst(o, h) ==
  work[o][h].pc = "register" /\ api[h].manager = o => api[h].status # NoRelease

\* Only a manager writes a status.
FreeIsUnreported(h) == api[h].manager = Nobody => api[h].status = Unreported

NotFound(o, h) ==
  NoRetarget /\ api[h].manager = o /\ api[h].status = NoRelease
    => register[o][api[h].key] = Untracked

\* A worker that is allowed to take the finalizer off has nothing registered.
Releases(o, h) ==
  NoRetarget /\ work[o][h].pc = "unfinalize" /\ work[o][h].obj.version = api[h].version
    => \/ register[o][work[o][h].obj.key] = Untracked
       \/ StateOf(api[h].status) = "Uninstalled"

StatusFits(o, h) ==
  /\ ReportsLast(o, h) /\ ReportsFirst(o, h) /\ FreeIsUnreported(h)
  /\ NotFound(o, h) /\ Releases(o, h)

Fits(o, h) == CopiesUpToDate(o, h) /\ FrameFits(o, h) /\ StatusFits(o, h)

StatusInv == \A o \in Operator, h \in HelmRelease : Fits(o, h)

-----------------------------------------------------------------------------
\* A HelmRelease that has changed while operator o has not written it.
Rewritten(o, h) ==
  /\ api'[h].version = api[h].version + 1
  /\ \/ api'[h].manager = Nobody /\ api'[h].status = Unreported
     \/ /\ api'[h].manager = api[h].manager /\ api'[h].status = api[h].status
        /\ NoRetarget' => api'[h].key = api[h].key
     \/ api'[h].manager \notin {o, Nobody}

StillUntracked(o, key) == register[o][key] = Untracked => register'[o][key] = Untracked

\* What happens to the HelmRelease h of operator o when its worker does nothing.
Elsewhere(o, h) ==
  /\ work'[o][h] = work[o][h]
  /\ cache'[o][h] = cache[o][h] \/ (cache'[o][h] = api[h] /\ api'[h] = api[h])
  /\ api'[h] = api[h] \/ Rewritten(o, h)
  /\ \A key \in ReleaseKey : Uses(o, h, key) => StillUntracked(o, key)
  /\ NoRetarget' => NoRetarget

\* Whatever happens elsewhere, the status goes on to fit.
LEMMA ElsewhereFits ==
  ASSUME ReleaseInv, NEW o \in Operator, NEW h \in HelmRelease, Fits(o, h), Elsewhere(o, h)
  PROVE  Fits(o, h)'
<1>1. /\ api[h].version \in Nat /\ cache[o][h].version \in Nat
      /\ cache[o][h].version <= api[h].version
  BY DEF ReleaseInv, ReleaseTypeOK, CustomResource, CopiesAgree, Agrees
<1>2. work[o][h].pc # "idle" =>
        /\ work[o][h].obj.version \in Nat
        /\ work[o][h].obj.version <= api[h].version
  BY DEF ReleaseInv, ReleaseTypeOK, Work, CustomResource, CopiesAgree, Agrees
<1>3. work[o][h].pc # "idle" => StillUntracked(o, work[o][h].obj.key)
  BY FrameSound DEF Elsewhere, Uses
<1>4. api[h].manager = o => StillUntracked(o, api[h].key)
  BY ReleaseAssumption DEF ReleaseInv, ObjectsSound, Sound, Elsewhere, Uses
<1>5. CASE api'[h] = api[h]
  <2>1. CopiesUpToDate(o, h)'
    BY <1>5 DEF Fits, Elsewhere, CopiesUpToDate, UpToDate
  <2>2. FrameFits(o, h)'
    BY DEF Fits, Elsewhere, FrameFits
  <2>3. StatusFits(o, h)'
    BY <1>3, <1>4, <1>5 DEF Fits, Elsewhere, StatusFits, StillUntracked, ReportsLast,
                            ReportsFirst, FreeIsUnreported, NotFound, Releases
  <2> QED BY <2>1, <2>2, <2>3 DEF Fits
<1>6. CASE Rewritten(o, h)
  <2>1. /\ cache'[o][h] = cache[o][h] /\ cache[o][h].version # api'[h].version
        /\ work[o][h].pc # "idle" => work[o][h].obj.version # api'[h].version
    BY <1>1, <1>2, <1>6 DEF Rewritten, Elsewhere
  <2>2. CopiesUpToDate(o, h)'
    BY <2>1 DEF Elsewhere, CopiesUpToDate, UpToDate
  <2>3. FrameFits(o, h)'
    BY DEF Fits, Elsewhere, FrameFits
  <2>4. ReportsLast(o, h)' /\ Releases(o, h)'
    BY <1>3, <2>1 DEF Fits, Elsewhere, StatusFits, StillUntracked, ReportsLast, Releases
  <2>5. ReportsFirst(o, h)' /\ FreeIsUnreported(h)' /\ NotFound(o, h)'
    BY <1>4, <1>6, ReleaseAssumption
    DEF Fits, Elsewhere, StatusFits, StillUntracked, Rewritten, ReportsFirst, FreeIsUnreported,
        NotFound
  <2> QED BY <2>2, <2>3, <2>4, <2>5 DEF Fits, StatusFits
<1> QED BY <1>5, <1>6 DEF Elsewhere

-----------------------------------------------------------------------------
\* What a step of the worker of operator o for h does to what others have to do with.
Effect(o, h) ==
  /\ \A p \in Operator, g \in HelmRelease :
       p # o \/ g # h => work'[p][g] = work[p][g] /\ cache'[p][g] = cache[p][g]
  /\ \A g \in HelmRelease : g # h => api'[g] = api[g]
  /\ \A p \in Operator, key \in ReleaseKey :
       \/ p = o /\ work[o][h].pc # "idle" /\ key = work[o][h].obj.key
       \/ register'[p][key] = register[p][key]
  /\ budget' = budget
  /\ \/ api'[h] = api[h]
     \/ /\ api'[h].version = api[h].version + 1
        /\ \/ api'[h].manager = Nobody /\ api'[h].status = Unreported
           \/ api'[h].manager = o

\* The frame of a worker that goes on.
LEMMA Continues ==
  ASSUME ReleaseInv, NEW o \in Operator, NEW h \in HelmRelease,
         NEW pc \in WorkSteps, NEW frame \in Work, Continue(o, h, pc, frame)
  PROVE  /\ work'[o][h].pc = pc
         /\ pc # "idle" => work'[o][h].obj = frame.obj /\ work'[o][h].release = frame.release
         /\ \A p \in Operator, g \in HelmRelease :
              p # o \/ g # h => work'[p][g] = work[p][g]
<1>1. ReleaseTypeOK
  BY DEF ReleaseInv
<1>2. /\ work'[o][h] = IF pc = "idle" THEN NoWork ELSE [frame EXCEPT !.pc = pc]
      /\ \A p \in Operator, g \in HelmRelease : p # o \/ g # h => work'[p][g] = work[p][g]
  BY <1>1, ContinueForm
<1> QED BY <1>2 DEF NoWork, Work

\* A request that the API server takes comes from a worker that knows the object.
LEMMA Accepted ==
  ASSUME ReleaseInv, NEW o \in Operator, NEW h \in HelmRelease, work[o][h].pc # "idle",
         Fits(o, h), Accepts(h, work[o][h].obj)
  PROVE  /\ api[h] \in CustomResource
         /\ work[o][h].obj.key = api[h].key
         /\ work[o][h].obj.deleting = api[h].deleting
         /\ work[o][h].obj.manager = api[h].manager
<1>1. api[h] \in CustomResource
  BY DEF ReleaseInv, ReleaseTypeOK
<1>2. work[o][h].obj.manager = api[h].manager
  BY FrameSound DEF Agrees, Accepts
<1> QED BY <1>1, <1>2 DEF Fits, CopiesUpToDate, UpToDate, Accepts

\* The calls of the register by a worker concern its key.
LEMMA RegisterEffect ==
  ASSUME ReleaseInv, NEW o \in Operator, NEW h \in HelmRelease, work[o][h].pc # "idle",
         NEW entry, register' = [register EXCEPT ![o][work[o][h].obj.key] = entry]
  PROVE  /\ register'[o][work[o][h].obj.key] = entry
         /\ \A p \in Operator, key \in ReleaseKey :
              \/ p = o /\ key = work[o][h].obj.key
              \/ register'[p][key] = register[p][key]
<1>1. register \in [Operator -> [ReleaseKey -> Entry]] /\ work[o][h].obj.key \in ReleaseKey
  BY FrameSound DEF ReleaseInv, ReleaseTypeOK
<1> QED BY <1>1

\* A worker that leaves the HelmRelease and its own copies alone keeps to the form of a step.
LEMMA LocalEffect ==
  ASSUME ReleaseInv, NEW o \in Operator, NEW h \in HelmRelease,
         NEW pc \in WorkSteps, NEW frame \in Work, Continue(o, h, pc, frame),
         UNCHANGED <<api, cache, budget>>,
         \/ register' = register
         \/ /\ work[o][h].pc # "idle"
            /\ \E entry : register' = [register EXCEPT ![o][work[o][h].obj.key] = entry]
  PROVE  Effect(o, h)
<1>1. \A p \in Operator, g \in HelmRelease : p # o \/ g # h => work'[p][g] = work[p][g]
  BY Continues
<1>2. ASSUME NEW entry, register' = [register EXCEPT ![o][work[o][h].obj.key] = entry],
             work[o][h].pc # "idle"
      PROVE  \A p \in Operator, key \in ReleaseKey :
               \/ p = o /\ key = work[o][h].obj.key
               \/ register'[p][key] = register[p][key]
  <2>1. register \in [Operator -> [ReleaseKey -> Entry]]
    BY DEF ReleaseInv, ReleaseTypeOK
  <2>2. work[o][h].obj.key \in ReleaseKey
    BY <1>2, FrameSound
  <2> QED BY <1>2, <2>1, <2>2
<1>3. api' = api /\ cache' = cache /\ budget' = budget
  OBVIOUS
<1>4. CASE register' = register
  BY <1>1, <1>3, <1>4 DEF Effect
<1>5. ASSUME NEW entry, register' = [register EXCEPT ![o][work[o][h].obj.key] = entry],
             work[o][h].pc # "idle"
      PROVE  Effect(o, h)
  BY <1>1, <1>2, <1>3, <1>5 DEF Effect
<1> QED BY <1>4, <1>5

-----------------------------------------------------------------------------
\* Neither the HelmRelease nor the register changes, and the worker has nothing to report.
LEMMA QuietFits ==
  ASSUME ReleaseInv, NEW o \in Operator, NEW h \in HelmRelease, Fits(o, h),
         UNCHANGED <<api, cache, register, budget>>,
         work'[o][h].pc # "idle" => UpToDate(work'[o][h].obj, h),
         FrameFits(o, h)',
         work'[o][h].pc \notin {"status", "register", "unfinalize"}
  PROVE  Fits(o, h)'
<1>1. api' = api /\ cache' = cache /\ register' = register /\ budget' = budget
  OBVIOUS
<1>2. CopiesUpToDate(o, h)'
  BY <1>1 DEF Fits, CopiesUpToDate, UpToDate
<1>3. StatusFits(o, h)'
  BY <1>1 DEF Fits, StatusFits, ReportsLast, ReportsFirst, FreeIsUnreported, NotFound, Releases,
              NoRetarget
<1> QED BY <1>2, <1>3 DEF Fits

\* A worker starts on the copy that its informer has.
LEMMA TakeFits ==
  ASSUME ReleaseInv, NEW o \in Operator, NEW h \in HelmRelease, Fits(o, h), Take(o, h)
  PROVE  Effect(o, h) /\ Fits(o, h)'
<1> DEFINE obj == cache[o][h]
           pc  == CASE ~ obj.exists -> "idle"
                    [] obj.exists /\ obj.manager = Nobody -> "claim"
                    [] obj.exists /\ obj.manager = o /\ obj.deleting -> "remove"
                    [] obj.exists /\ obj.manager = o /\ ~ obj.deleting -> "last"
                    [] OTHER -> "idle"
           new == [NoWork EXCEPT !.pc = pc, !.obj = obj]
<1>1. /\ work[o][h].pc = "idle"
      /\ work' = IF pc = "idle" THEN work ELSE [work EXCEPT ![o][h] = new]
      /\ api' = api /\ cache' = cache /\ register' = register /\ budget' = budget
  BY DEF Take
<1>2. work \in [Operator -> [HelmRelease -> Work]] /\ obj \in CustomResource
  BY DEF ReleaseInv, ReleaseTypeOK
<1>3. /\ pc \in {"idle", "claim", "remove", "last"}
      /\ pc \in {"remove", "last"} => obj.manager = o
      /\ pc = "remove" => obj.deleting
      /\ pc = "last" => ~ obj.deleting
  BY <1>2 DEF CustomResource
<1>4. new.pc = pc /\ new.obj = obj
  BY DEF NoWork
<1> HIDE DEF new, pc
<1>5. /\ \A p \in Operator, g \in HelmRelease : p # o \/ g # h => work'[p][g] = work[p][g]
      /\ work'[o][h] = IF pc = "idle" THEN work[o][h] ELSE new
  BY <1>1, <1>2
<1>6. Effect(o, h)
  BY <1>1, <1>5 DEF Effect
<1>7. work'[o][h].pc = pc /\ (pc # "idle" => work'[o][h].obj = obj)
  BY <1>1, <1>4, <1>5
<1>8. FrameFits(o, h)'
  BY <1>3, <1>7 DEF FrameFits
<1>9. pc # "idle" => UpToDate(work'[o][h].obj, h)
  BY <1>7 DEF Fits, CopiesUpToDate
<1> QED BY <1>1, <1>3, <1>6, <1>7, <1>8, <1>9, QuietFits

\* What the API server has after an Update that it takes.
LEMMA Updated ==
  ASSUME ReleaseInv, NEW h \in HelmRelease, NEW new \in CustomResource, Update(h, new)
  PROVE  /\ \A g \in HelmRelease : g # h => api'[g] = api[g]
         /\ \/ api'[h] = api[h]
            \/ /\ api'[h].version = api[h].version + 1
               /\ api'[h].key = new.key /\ api'[h].manager = new.manager
               /\ api'[h].deleting = new.deleting /\ api'[h].status = api[h].status
               /\ api'[h].exists = new.exists
<1> DEFINE sent == [new EXCEPT !.status = api[h].status]
<1>1. api \in [HelmRelease -> CustomResource] /\ api[h] \in CustomResource
  BY DEF ReleaseInv, ReleaseTypeOK
<1>2. /\ sent \in CustomResource
      /\ sent.key = new.key /\ sent.manager = new.manager
      /\ sent.deleting = new.deleting /\ sent.status = api[h].status
      /\ sent.exists = new.exists
  BY <1>1 DEF CustomResource
<1>3. api' = [api EXCEPT ![h] = Stored(h, sent)]
  BY DEF Update
<1> HIDE DEF sent
<1>4. Stored(h, sent) = api[h] \/ Stored(h, sent) = [sent EXCEPT !.version = api[h].version + 1]
  BY <1>1, <1>2, StoredForm
<1>5. /\ api'[h] = Stored(h, sent)
      /\ \A g \in HelmRelease : g # h => api'[g] = api[g]
  BY <1>1, <1>3
<1>6. CASE Stored(h, sent) = [sent EXCEPT !.version = api[h].version + 1]
  <2>1. /\ api'[h].version = api[h].version + 1
        /\ api'[h].key = sent.key /\ api'[h].manager = sent.manager
        /\ api'[h].deleting = sent.deleting /\ api'[h].status = sent.status
        /\ api'[h].exists = sent.exists
    BY <1>2, <1>5, <1>6 DEF CustomResource
  <2> QED BY <1>2, <1>5, <2>1
<1> QED BY <1>4, <1>5, <1>6

\* An Update by a worker that leaves the status and the register as they are.
LEMMA UpdateFits ==
  ASSUME ReleaseInv, NEW o \in Operator, NEW h \in HelmRelease, Fits(o, h),
         work[o][h].pc # "idle", Accepts(h, work[o][h].obj),
         NEW new \in CustomResource, Update(h, new),
         new.key = work[o][h].obj.key, new.manager = o,
         api[h].manager = o \/ api[h].status = Unreported,
         NEW pc \in {"idle", "claim_again"}, Continue(o, h, pc, work[o][h]),
         UNCHANGED <<cache, register, budget>>
  PROVE  Effect(o, h) /\ Fits(o, h)'
<1>1. cache' = cache /\ register' = register /\ budget' = budget
  OBVIOUS
<1>2. work[o][h] \in Work /\ pc \in WorkSteps
  BY FrameSound DEF WorkSteps
<1>3. /\ work'[o][h].pc = pc
      /\ pc # "idle" => work'[o][h].obj = work[o][h].obj
      /\ \A p \in Operator, g \in HelmRelease : p # o \/ g # h => work'[p][g] = work[p][g]
  BY <1>2, Continues
<1>4. /\ \A g \in HelmRelease : g # h => api'[g] = api[g]
      /\ \/ api'[h] = api[h]
         \/ /\ api'[h].version = api[h].version + 1
            /\ api'[h].key = api[h].key /\ api'[h].manager = o
            /\ api'[h].status = api[h].status
  BY Updated, Accepted
<1>5. Effect(o, h)
  BY <1>1, <1>3, <1>4 DEF Effect
<1>6. FrameFits(o, h)'
  BY <1>3 DEF FrameFits
<1>7. CopiesUpToDate(o, h)'
  <2>1. /\ api[h].version \in Nat /\ cache[o][h].version <= api[h].version
        /\ cache[o][h].version \in Nat
        /\ work[o][h].obj.version = api[h].version
    BY DEF ReleaseInv, ReleaseTypeOK, CustomResource, CopiesAgree, Agrees, Accepts
  <2> QED BY <1>1, <1>3, <1>4, <2>1 DEF Fits, CopiesUpToDate, UpToDate
<1>8. StatusFits(o, h)'
  BY <1>1, <1>3, <1>4, ReleaseAssumption, ReportType
  DEF Fits, StatusFits, ReportsLast, ReportsFirst, FreeIsUnreported, NotFound, Releases, NoRetarget
<1> QED BY <1>5, <1>6, <1>7, <1>8 DEF Fits

\* A claim finds a HelmRelease that nobody has reported on.
LEMMA ClaimFits ==
  ASSUME ReleaseInv, NEW o \in Operator, NEW h \in HelmRelease, Fits(o, h), Claim(o, h)
  PROVE  Effect(o, h) /\ Fits(o, h)'
<1> DEFINE new == [work[o][h].obj EXCEPT !.manager = o]
<1>1. /\ work[o][h].pc \in {"claim", "claim_again"}
      /\ Accepts(h, work[o][h].obj) /\ Update(h, new)
      /\ Continue(o, h, AfterClaim(work[o][h].pc), work[o][h])
      /\ UNCHANGED <<cache, register, budget>>
  BY DEF Claim
<1>2. work[o][h].obj \in CustomResource
  BY <1>1, FrameSound
<1>3. new \in CustomResource /\ new.key = work[o][h].obj.key /\ new.manager = o
  BY <1>2 DEF CustomResource
<1> HIDE DEF new
<1>4. api[h].status = Unreported
  BY <1>1, Accepted DEF ReleaseInv, ClaimsAreFree, Fits, StatusFits, FreeIsUnreported
<1>5. AfterClaim(work[o][h].pc) \in {"idle", "claim_again"}
  BY DEF AfterClaim
<1> QED BY <1>1, <1>3, <1>4, <1>5, UpdateFits

\* The finalizer is added to what the worker has read.
LEMMA AddFinalizerFits ==
  ASSUME ReleaseInv, NEW o \in Operator, NEW h \in HelmRelease, Fits(o, h), AddFinalizer(o, h)
  PROVE  Effect(o, h) /\ Fits(o, h)'
<1> DEFINE new == [work[o][h].obj EXCEPT !.finalizer = TRUE]
<1>1. /\ work[o][h].pc = "finalize"
      /\ Accepts(h, work[o][h].obj) /\ Update(h, new)
      /\ Continue(o, h, "idle", work[o][h])
      /\ UNCHANGED <<cache, register, budget>>
  BY DEF AddFinalizer
<1>2. work[o][h].obj \in CustomResource
  BY <1>1, FrameSound
<1>3. /\ new \in CustomResource
      /\ new.key = work[o][h].obj.key /\ new.manager = work[o][h].obj.manager
  BY <1>2 DEF CustomResource
<1> HIDE DEF new
<1>4. work[o][h].obj.manager = o /\ api[h].manager = o
  BY <1>1, Accepted DEF Fits, FrameFits
<1> QED BY <1>1, <1>3, <1>4, UpdateFits

-----------------------------------------------------------------------------
\* A status that is assigned to a copy of the latest version is not seen by anybody who would
\* take it for the status of an object that is being deleted.
LEMMA AssignStatusFits ==
  ASSUME ReleaseInv, NEW o \in Operator, NEW h \in HelmRelease, Fits(o, h),
         work[o][h].pc # "idle", ~ work[o][h].obj.deleting,
         NEW status, AssignStatus(o, h, work[o][h].obj, status), api' = api
  PROVE  /\ \A p \in Operator, g \in HelmRelease :
              p # o \/ g # h => cache'[p][g] = cache[p][g]
         /\ UpToDate(cache[o][h], h)'
<1> DEFINE new == [cache[o][h] EXCEPT !.status = status]
<1>1. cache \in [Operator -> [HelmRelease -> CustomResource]] /\ cache[o][h] \in CustomResource
  BY DEF ReleaseInv, ReleaseTypeOK
<1>2. /\ new.version = cache[o][h].version /\ new.key = cache[o][h].key
      /\ new.deleting = cache[o][h].deleting
  BY <1>1 DEF CustomResource
<1>3. CASE cache' = cache
  BY <1>3 DEF Fits, CopiesUpToDate, UpToDate
<1>4. CASE cache[o][h].version = work[o][h].obj.version /\ cache' = [cache EXCEPT ![o][h] = new]
  <2>1. cache[o][h].version = api[h].version => ~ api[h].deleting
    BY <1>4 DEF Fits, CopiesUpToDate, UpToDate
  <2> HIDE DEF new
  <2>2. /\ cache'[o][h] = new
        /\ \A p \in Operator, g \in HelmRelease : p # o \/ g # h => cache'[p][g] = cache[p][g]
    BY <1>1, <1>4
  <2> QED BY <1>2, <2>1, <2>2 DEF Fits, CopiesUpToDate, UpToDate
<1> QED BY <1>3, <1>4 DEF AssignStatus

\* Last: what it returns goes into the frame and into the copies.
LEMMA LastFits ==
  ASSUME ReleaseInv, NEW o \in Operator, NEW h \in HelmRelease, Fits(o, h), Last(o, h)
  PROVE  Effect(o, h) /\ Fits(o, h)'
<1> DEFINE found == secrets[work[o][h].obj.key]
<1>1. /\ work[o][h].pc = "last"
      /\ api' = api /\ register' = register /\ budget' = budget
  BY DEF Last
<1>2. /\ work[o][h] \in Work /\ work[o][h].obj \in CustomResource
      /\ work[o][h].obj.key \in ReleaseKey
  BY <1>1, FrameSound
<1>3. found \in Release \cup {NoRelease}
  BY <1>2 DEF ReleaseInv, ReleaseTypeOK
<1>4. work[o][h].obj.manager = o /\ ~ work[o][h].obj.deleting
  BY <1>1 DEF Fits, FrameFits
<1>5. UpToDate(work[o][h].obj, h)
  BY <1>1 DEF Fits, CopiesUpToDate
<1>6. ASSUME NEW frame \in Work, NEW pc \in {"delete", "status"}, Continue(o, h, pc, frame),
             frame.obj.manager = o, ~ frame.obj.deleting, UpToDate(frame.obj, h),
             frame.release = found,
             pc = "delete" => found = NoRelease,
             pc = "status" => found # NoRelease /\ frame.obj.status = found,
             UpToDate(cache[o][h], h)',
             \A p \in Operator, g \in HelmRelease : p # o \/ g # h => cache'[p][g] = cache[p][g]
      PROVE  Effect(o, h) /\ Fits(o, h)'
  <2>1. /\ work'[o][h].pc = pc
        /\ work'[o][h].obj = frame.obj /\ work'[o][h].release = frame.release
        /\ \A p \in Operator, g \in HelmRelease : p # o \/ g # h => work'[p][g] = work[p][g]
    BY <1>6, Continues DEF WorkSteps
  <2>2. Effect(o, h)
    BY <1>1, <1>6, <2>1 DEF Effect
  <2>3. CopiesUpToDate(o, h)'
    BY <1>1, <1>6, <2>1 DEF CopiesUpToDate, UpToDate
  <2>4. FrameFits(o, h)'
    BY <1>6, <2>1 DEF FrameFits
  <2>5. StatusFits(o, h)'
    BY <1>1, <1>6, <2>1
    DEF Fits, StatusFits, ReportsLast, ReportsFirst, FreeIsUnreported, NotFound, Releases, NoRetarget
  <2> QED BY <2>2, <2>3, <2>4, <2>5 DEF Fits
<1>7. CASE found = NoRelease
  <2> DEFINE frame == [work[o][h] EXCEPT !.release = NoRelease]
  <2>1. frame \in Work /\ frame.obj = work[o][h].obj /\ frame.release = NoRelease
    BY <1>2 DEF Work
  <2>2. Continue(o, h, "delete", frame) /\ cache' = cache
    BY <1>7 DEF Last
  <2> HIDE DEF frame
  <2>3. UpToDate(cache[o][h], h)'
    BY <1>1, <2>2 DEF Fits, CopiesUpToDate, UpToDate
  <2> QED BY <1>4, <1>5, <1>6, <1>7, <2>1, <2>2, <2>3
<1>8. CASE found # NoRelease
  <2> DEFINE frame == [work[o][h] EXCEPT !.release = found, !.obj.status = found]
  <2>1. found \in Release /\ found \in Report
    BY <1>3, <1>8 DEF Report
  <2>2. /\ frame \in Work /\ frame.release = found /\ frame.obj.status = found
        /\ frame.obj = [work[o][h].obj EXCEPT !.status = found]
    BY <1>2, <2>1 DEF Work, CustomResource
  <2>3. /\ frame.obj.version = work[o][h].obj.version /\ frame.obj.key = work[o][h].obj.key
        /\ frame.obj.manager = work[o][h].obj.manager
        /\ frame.obj.deleting = work[o][h].obj.deleting
    BY <1>2, <2>2 DEF CustomResource
  <2>4. Continue(o, h, "status", frame) /\ AssignStatus(o, h, work[o][h].obj, found)
    BY <1>8 DEF Last
  <2> HIDE DEF frame, found
  <2>5. /\ \A p \in Operator, g \in HelmRelease : p # o \/ g # h => cache'[p][g] = cache[p][g]
        /\ UpToDate(cache[o][h], h)'
    BY <1>1, <1>4, <2>4, AssignStatusFits
  <2>6. UpToDate(frame.obj, h)
    BY <1>4, <1>5, <2>3 DEF UpToDate
  <2> QED BY <1>4, <1>6, <1>8, <2>2, <2>3, <2>4, <2>5, <2>6
<1> QED BY <1>7, <1>8

\* Nothing is known of the release, and nothing is done about it.
LEMMA GivesUpFits ==
  ASSUME ReleaseInv, NEW o \in Operator, NEW h \in HelmRelease, Fits(o, h),
         work[o][h].pc # "idle", LastFails(o, h) \/ RequestFails(o, h)
  PROVE  Effect(o, h) /\ Fits(o, h)'
<1> DEFINE frame == [work[o][h] EXCEPT !.failed = TRUE]
<1>1. /\ UNCHANGED <<api, cache, register, budget>>
      /\ \E pc \in {"idle", "finalize", "claim_again"} :
           /\ Continue(o, h, pc, frame)
           /\ pc = "finalize" => work[o][h].pc \in {"last", "status"}
  BY DEF LastFails, RequestFails, AddFinalizerTo, AfterClaim
<1>2. PICK pc \in {"idle", "finalize", "claim_again"} :
        /\ Continue(o, h, pc, frame)
        /\ pc = "finalize" => work[o][h].pc \in {"last", "status"}
  BY <1>1
<1>3. frame \in Work /\ frame.obj = work[o][h].obj
  <2>1. work[o][h] \in Work
    BY FrameSound
  <2> QED BY <2>1 DEF Work
<1> HIDE DEF frame
<1>4. pc \in WorkSteps
  BY DEF WorkSteps
<1>5. work'[o][h].pc = pc /\ (pc # "idle" => work'[o][h].obj = work[o][h].obj)
  BY <1>2, <1>3, <1>4, Continues
<1>6. Effect(o, h)
  BY <1>1, <1>2, <1>3, <1>4, LocalEffect
<1>7. FrameFits(o, h)'
  BY <1>2, <1>5 DEF Fits, FrameFits
<1>8. work'[o][h].pc # "idle" => UpToDate(work'[o][h].obj, h)
  BY <1>5 DEF Fits, CopiesUpToDate
<1> QED BY <1>1, <1>5, <1>6, <1>7, <1>8, QuietFits

-----------------------------------------------------------------------------
\* Only the step of the worker and the register change: the copies are as good as they were.
LEMMA CallFits ==
  ASSUME ReleaseInv, NEW o \in Operator, NEW h \in HelmRelease, Fits(o, h),
         work[o][h].pc \in {"register", "remove"},
         api' = api, cache' = cache, budget' = budget,
         NEW pc \in {"idle", "finalize", "unfinalize"}, Continue(o, h, pc, work[o][h]),
         NEW entry, register' = [register EXCEPT ![o][work[o][h].obj.key] = entry],
         NoRetarget /\ api[h].manager = o /\ api[h].status = NoRelease
             /\ api[h].key = work[o][h].obj.key => entry = Untracked,
         NoRetarget /\ pc = "unfinalize" /\ work[o][h].obj.version = api[h].version
             => entry = Untracked \/ StateOf(api[h].status) = "Uninstalled"
  PROVE  Effect(o, h) /\ Fits(o, h)'
<1>1. work[o][h] \in Work /\ pc \in WorkSteps
  BY FrameSound DEF WorkSteps
<1>2. /\ work'[o][h].pc = pc
      /\ pc # "idle" => work'[o][h].obj = work[o][h].obj
  BY <1>1, Continues
<1>3. Effect(o, h)
  BY <1>1, LocalEffect
<1>4. CopiesUpToDate(o, h)'
  BY <1>2 DEF Fits, CopiesUpToDate, UpToDate
<1>5. FrameFits(o, h)'
  <2>1. CASE pc = "idle"
    BY <1>2, <2>1 DEF FrameFits
  <2>2. CASE pc # "idle" /\ work[o][h].obj.manager = o
    BY <1>2, <2>2 DEF FrameFits
  <2> QED BY <2>1, <2>2 DEF Fits, FrameFits
<1>6. /\ register'[o][work[o][h].obj.key] = entry
      /\ \A p \in Operator, key \in ReleaseKey :
           \/ p = o /\ key = work[o][h].obj.key
           \/ register'[p][key] = register[p][key]
  <2>1. work[o][h].pc # "idle"
    OBVIOUS
  <2> QED BY <2>1, RegisterEffect
<1>7. NotFound(o, h)'
  <2>1. SUFFICES ASSUME NoRetarget, api[h].manager = o, api[h].status = NoRelease
                 PROVE  register'[o][api[h].key] = Untracked
    BY DEF NotFound, NoRetarget
  <2>2. api[h].key \in ReleaseKey
    BY <2>1, ReleaseAssumption DEF ReleaseInv, ObjectsSound, Sound
  <2>3. CASE api[h].key = work[o][h].obj.key
    BY <1>6, <2>1, <2>3
  <2>4. CASE api[h].key # work[o][h].obj.key
    <3>1. register[o][api[h].key] = Untracked
      BY <2>1 DEF Fits, StatusFits, NotFound
    <3>2. register'[o][api[h].key] = register[o][api[h].key]
      BY <1>6, <2>2, <2>4
    <3> QED BY <3>1, <3>2
  <2> QED BY <2>3, <2>4
<1>8. ReportsLast(o, h)' /\ ReportsFirst(o, h)' /\ FreeIsUnreported(h)'
  BY <1>2 DEF Fits, StatusFits, ReportsLast, ReportsFirst, FreeIsUnreported
<1>9. Releases(o, h)'
  BY <1>2, <1>6 DEF Releases, NoRetarget
<1> QED BY <1>3, <1>4, <1>5, <1>7, <1>8, <1>9 DEF Fits, StatusFits

\* Set comes after the status that says that there is a release.
LEMMA CallSetFits ==
  ASSUME ReleaseInv, NEW o \in Operator, NEW h \in HelmRelease, Fits(o, h), CallSet(o, h)
  PROVE  Effect(o, h) /\ Fits(o, h)'
<1> DEFINE entry == Tracking(Parse(work[o][h].release.manifest))
<1>1. /\ work[o][h].pc = "register"
      /\ register' = [register EXCEPT ![o][work[o][h].obj.key] = entry]
      /\ Continue(o, h, AddFinalizerTo(work[o][h].obj), work[o][h])
      /\ api' = api /\ cache' = cache /\ budget' = budget
  BY DEF CallSet
<1> HIDE DEF entry
<1>2. AddFinalizerTo(work[o][h].obj) \in {"idle", "finalize"}
  BY DEF AddFinalizerTo
<1>3. api[h].manager = o => api[h].status # NoRelease
  BY <1>1 DEF Fits, StatusFits, ReportsFirst
<1> QED BY <1>1, <1>2, <1>3, CallFits

\* Unlock has nothing to unlock for a key that is not tracked.
LEMMA CallUnlockFits ==
  ASSUME ReleaseInv, NEW o \in Operator, NEW h \in HelmRelease, Fits(o, h), CallUnlock(o, h)
  PROVE  Effect(o, h) /\ Fits(o, h)'
<1> DEFINE old   == register[o][work[o][h].obj.key]
           entry == [old EXCEPT !.unlocked = old.tracked]
<1>1. /\ work[o][h].pc = "register"
      /\ Continue(o, h, AddFinalizerTo(work[o][h].obj), work[o][h])
      /\ api' = api /\ cache' = cache /\ budget' = budget
  BY DEF CallUnlock
<1>2. register \in [Operator -> [ReleaseKey -> Entry]] /\ work[o][h].obj.key \in ReleaseKey
  BY <1>1, FrameSound DEF ReleaseInv, ReleaseTypeOK
<1>3. register' = [register EXCEPT ![o][work[o][h].obj.key] = entry]
  BY <1>2 DEF CallUnlock
<1> HIDE DEF entry
<1>4. AddFinalizerTo(work[o][h].obj) \in {"idle", "finalize"}
  BY DEF AddFinalizerTo
<1>5. api[h].manager = o => api[h].status # NoRelease
  BY <1>1 DEF Fits, StatusFits, ReportsFirst
<1> QED BY <1>1, <1>3, <1>4, <1>5, CallFits

\* Delete on removal, for any status that is not taken to mean that there is nothing to delete.
LEMMA CallRemoveFits ==
  ASSUME ReleaseInv, NEW o \in Operator, NEW h \in HelmRelease, Fits(o, h), CallRemove(o, h)
  PROVE  Effect(o, h) /\ Fits(o, h)'
BY CallFits DEF CallRemove

\* What is skipped on removal is untracked, or uninstalled: the copy is the latest one when the
\* finalizer goes, and its status has not been assigned since the object was deleted.
LEMMA SkipRemoveFits ==
  ASSUME ReleaseInv, NEW o \in Operator, NEW h \in HelmRelease, Fits(o, h), SkipRemove(o, h)
  PROVE  Effect(o, h) /\ Fits(o, h)'
<1>1. /\ work[o][h].pc = "remove" /\ Skippable(work[o][h].obj)
      /\ Continue(o, h, "unfinalize", work[o][h])
      /\ api' = api /\ cache' = cache /\ budget' = budget /\ register' = register
  BY DEF SkipRemove
<1> DEFINE entry == register[o][work[o][h].obj.key]
<1>2. register' = [register EXCEPT ![o][work[o][h].obj.key] = entry]
  BY <1>1, FrameSound DEF ReleaseInv, ReleaseTypeOK
<1>3. work[o][h].obj.manager = o /\ work[o][h].obj.deleting
  BY <1>1 DEF Fits, FrameFits
<1>4. ASSUME NoRetarget, work[o][h].obj.version = api[h].version
      PROVE  entry = Untracked \/ StateOf(api[h].status) = "Uninstalled"
  <2>1. /\ api[h].manager = o /\ api[h].key = work[o][h].obj.key
        /\ work[o][h].obj.status = api[h].status
    BY <1>1, <1>3, <1>4 DEF ReleaseInv, CopiesAgree, Agrees, Fits, CopiesUpToDate, UpToDate
  <2>2. CASE api[h].status = NoRelease
    BY <1>4, <2>1, <2>2 DEF Fits, StatusFits, NotFound
  <2>3. CASE api[h].status # NoRelease
    <3>1. StateOf(api[h].status) # "SecretNotFound"
      BY <2>3 DEF StateOf
    <3> QED BY <1>1, <2>1, <3>1 DEF Skippable
  <2> QED BY <2>2, <2>3
<1>5. NoRetarget /\ api[h].manager = o /\ api[h].status = NoRelease
        /\ api[h].key = work[o][h].obj.key => entry = Untracked
  BY DEF Fits, StatusFits, NotFound
<1> HIDE DEF entry
<1> QED BY <1>1, <1>2, <1>4, <1>5, CallFits

\* Delete comes before the status that says that there is no release.
LEMMA CallDeleteFits ==
  ASSUME ReleaseInv, NEW o \in Operator, NEW h \in HelmRelease, Fits(o, h), CallDelete(o, h)
  PROVE  Effect(o, h) /\ Fits(o, h)'
<1> DEFINE frame == [work[o][h] EXCEPT !.obj.status = NoRelease]
<1>1. /\ work[o][h].pc = "delete"
      /\ register' = [register EXCEPT ![o][work[o][h].obj.key] = Untracked]
      /\ Continue(o, h, "status", frame)
      /\ AssignStatus(o, h, work[o][h].obj, NoRelease)
      /\ api' = api /\ budget' = budget
  BY DEF CallDelete
<1>2. /\ work[o][h] \in Work /\ work[o][h].obj \in CustomResource
      /\ work[o][h].obj.key \in ReleaseKey
  BY <1>1, FrameSound
<1>3. /\ frame \in Work /\ frame.release = work[o][h].release
      /\ frame.obj = [work[o][h].obj EXCEPT !.status = NoRelease]
  BY <1>2, ReportType DEF Work, CustomResource
<1>4. /\ frame.obj.version = work[o][h].obj.version /\ frame.obj.key = work[o][h].obj.key
      /\ frame.obj.manager = work[o][h].obj.manager
      /\ frame.obj.deleting = work[o][h].obj.deleting
      /\ frame.obj.status = NoRelease
  BY <1>2, <1>3 DEF CustomResource
<1> HIDE DEF frame
<1>5. /\ work[o][h].obj.manager = o /\ ~ work[o][h].obj.deleting
      /\ work[o][h].release = NoRelease
      /\ UpToDate(work[o][h].obj, h)
  BY <1>1 DEF Fits, FrameFits, CopiesUpToDate
<1>6. /\ work'[o][h].pc = "status"
      /\ work'[o][h].obj = frame.obj /\ work'[o][h].release = frame.release
      /\ \A p \in Operator, g \in HelmRelease : p # o \/ g # h => work'[p][g] = work[p][g]
  BY <1>1, <1>3, Continues DEF WorkSteps
<1>7. /\ \A p \in Operator, g \in HelmRelease : p # o \/ g # h => cache'[p][g] = cache[p][g]
      /\ UpToDate(cache[o][h], h)'
  BY <1>1, <1>5, AssignStatusFits
<1>8. /\ register'[o][work[o][h].obj.key] = Untracked
      /\ \A p \in Operator, key \in ReleaseKey :
           \/ p = o /\ key = work[o][h].obj.key
           \/ register'[p][key] = register[p][key]
  <2>1. register' = [register EXCEPT ![o][work[o][h].obj.key] = Untracked]
    BY <1>1
  <2>2. register \in [Operator -> [ReleaseKey -> Entry]]
    BY DEF ReleaseInv, ReleaseTypeOK
  <2> QED BY <1>2, <2>1, <2>2
<1>9. Effect(o, h)
  BY <1>1, <1>6, <1>7, <1>8 DEF Effect
<1>10. CopiesUpToDate(o, h)'
  BY <1>1, <1>4, <1>5, <1>6, <1>7 DEF CopiesUpToDate, UpToDate
<1>11. FrameFits(o, h)'
  BY <1>3, <1>4, <1>5, <1>6 DEF FrameFits
<1>12. NotFound(o, h)'
  <2>1. api[h].manager = o => api[h].key \in ReleaseKey
    BY ReleaseAssumption DEF ReleaseInv, ObjectsSound, Sound
  <2> QED BY <1>1, <1>8, <2>1 DEF Fits, StatusFits, NotFound, NoRetarget
<1>13. StatusFits(o, h)'
  BY <1>1, <1>4, <1>6, <1>8, <1>12
  DEF Fits, StatusFits, ReportsLast, ReportsFirst, FreeIsUnreported, Releases
<1> QED BY <1>9, <1>10, <1>11, <1>13 DEF Fits

\* The status that is reported fits the register: a release that is not found is untracked, and
\* one that is found is about to be registered.
LEMMA ReportStatusFits ==
  ASSUME ReleaseInv, NEW o \in Operator, NEW h \in HelmRelease, Fits(o, h), ReportStatus(o, h)
  PROVE  Effect(o, h) /\ Fits(o, h)'
<1> DEFINE status == work[o][h].obj.status
           sent   == [api[h] EXCEPT !.status = status]
           obj    == WithStatus(h, status)
           pc     == IF work[o][h].release = NoRelease THEN AddFinalizerTo(obj) ELSE "register"
           frame  == [work[o][h] EXCEPT !.obj = obj]
<1>1. /\ work[o][h].pc = "status" /\ Accepts(h, work[o][h].obj)
      /\ api' = [api EXCEPT ![h] = obj]
      /\ Continue(o, h, pc, frame)
      /\ cache' = cache /\ register' = register /\ budget' = budget
  BY DEF ReportStatus
<1>2. work[o][h] \in Work /\ status \in Report
  BY <1>1, FrameSound DEF CustomResource
<1>3. /\ api \in [HelmRelease -> CustomResource] /\ api[h] \in CustomResource
      /\ work[o][h].obj.key = api[h].key
      /\ api[h].manager = o
  <2>1. work[o][h].pc # "idle" /\ work[o][h].obj.manager = o
    BY <1>1 DEF Fits, FrameFits
  <2>2. api \in [HelmRelease -> CustomResource]
    BY DEF ReleaseInv, ReleaseTypeOK
  <2> QED BY <1>1, <2>1, <2>2, Accepted
<1>4. /\ sent \in CustomResource /\ sent.status = status
      /\ sent.key = api[h].key /\ sent.manager = api[h].manager
  BY <1>2, <1>3 DEF CustomResource
<1>5. obj \in CustomResource /\ (obj = api[h] \/ obj = [sent EXCEPT !.version = api[h].version + 1])
  <2> HIDE DEF sent
  <2> QED BY <1>3, <1>4, StoredForm DEF WithStatus, sent
<1>6. /\ obj.status = status /\ obj.key = api[h].key /\ obj.manager = o
      /\ obj = api[h] \/ obj.version = api[h].version + 1
  <2>1. CASE obj = [sent EXCEPT !.version = api[h].version + 1]
    <3> HIDE DEF sent, obj
    <3> QED BY <1>3, <1>4, <2>1 DEF CustomResource
  <2>2. CASE Stored(h, sent) = api[h] /\ obj = api[h]
    <3>1. [sent EXCEPT !.version = api[h].version] = api[h]
      BY <1>3, <2>2 DEF Stored, CustomResource
    <3>2. api[h].status = sent.status
      BY <1>4, <3>1 DEF CustomResource
    <3> QED BY <1>3, <1>4, <2>2, <3>2
  <2> QED BY <1>5, <2>1, <2>2 DEF WithStatus
<1>7. frame \in Work /\ frame.obj = obj /\ frame.release = work[o][h].release
  <2> HIDE DEF obj
  <2> QED BY <1>2, <1>5 DEF Work
<1>8. /\ pc \in {"idle", "finalize", "register"}
      /\ pc = "register" => work[o][h].release # NoRelease
  BY DEF AddFinalizerTo
<1>9. /\ api'[h] = obj
      /\ \A g \in HelmRelease : g # h => api'[g] = api[g]
  <2> HIDE DEF obj
  <2> QED BY <1>1, <1>3
<1> HIDE DEF obj, frame, pc, sent
<1>10. /\ work'[o][h].pc = pc
       /\ pc # "idle" => work'[o][h].obj = obj /\ work'[o][h].release = work[o][h].release
       /\ \A p \in Operator, g \in HelmRelease : p # o \/ g # h => work'[p][g] = work[p][g]
  BY <1>1, <1>7, <1>8, Continues DEF WorkSteps
<1>11. Effect(o, h)
  BY <1>1, <1>6, <1>9, <1>10 DEF Effect
<1>12. CopiesUpToDate(o, h)'
  <2>1. /\ cache[o][h].version \in Nat /\ cache[o][h].version <= api[h].version
        /\ api[h].version \in Nat
    BY <1>3 DEF ReleaseInv, ReleaseTypeOK, CustomResource, CopiesAgree, Agrees
  <2>2. UpToDate(cache[o][h], h)'
    BY <1>1, <1>6, <1>9, <2>1 DEF Fits, CopiesUpToDate, UpToDate
  <2> QED BY <1>9, <1>10, <2>2 DEF CopiesUpToDate, UpToDate
<1>13. FrameFits(o, h)'
  BY <1>6, <1>8, <1>10 DEF FrameFits
<1>14. /\ status = work[o][h].release
       /\ status = NoRelease => register[o][api[h].key] = Untracked
  BY <1>1, <1>3 DEF Fits, FrameFits, StatusFits, ReportsLast
<1>15. StatusFits(o, h)'
  BY <1>1, <1>6, <1>8, <1>9, <1>10, <1>14, ReleaseAssumption
  DEF StatusFits, ReportsLast, ReportsFirst, FreeIsUnreported, NotFound, Releases
<1> QED BY <1>11, <1>12, <1>13, <1>15 DEF Fits

\* With the object goes its status.
LEMMA RemoveFinalizerFits ==
  ASSUME ReleaseInv, NEW o \in Operator, NEW h \in HelmRelease, Fits(o, h), RemoveFinalizer(o, h)
  PROVE  Effect(o, h) /\ Fits(o, h)'
<1>1. /\ work[o][h].pc = "unfinalize"
      /\ api' = [api EXCEPT ![h] = Missing(api[h].version + 1)]
      /\ Continue(o, h, "idle", work[o][h])
      /\ cache' = cache /\ register' = register /\ budget' = budget
  BY DEF RemoveFinalizer
<1>2. /\ api \in [HelmRelease -> CustomResource] /\ api[h].version \in Nat
      /\ cache[o][h].version \in Nat /\ cache[o][h].version <= api[h].version
  BY DEF ReleaseInv, ReleaseTypeOK, CustomResource, CopiesAgree, Agrees
<1>3. /\ api'[h].version = api[h].version + 1
      /\ api'[h].manager = Nobody /\ api'[h].status = Unreported
      /\ \A g \in HelmRelease : g # h => api'[g] = api[g]
  BY <1>1, <1>2 DEF Missing
<1>4. /\ work'[o][h].pc = "idle"
      /\ \A p \in Operator, g \in HelmRelease : p # o \/ g # h => work'[p][g] = work[p][g]
  BY <1>1, FrameSound, Continues DEF WorkSteps
<1>5. Effect(o, h)
  BY <1>1, <1>3, <1>4 DEF Effect
<1>6. CopiesUpToDate(o, h)'
  BY <1>1, <1>2, <1>3, <1>4 DEF CopiesUpToDate, UpToDate
<1>7. FrameFits(o, h)' /\ StatusFits(o, h)'
  BY <1>3, <1>4, ReleaseAssumption
  DEF FrameFits, StatusFits, ReportsLast, ReportsFirst, FreeIsUnreported, NotFound, Releases
<1> QED BY <1>5, <1>6, <1>7 DEF Fits

-----------------------------------------------------------------------------
\* Every step of a worker keeps to the form, and leaves its own HelmRelease fitting.
LEMMA WorkerFits ==
  ASSUME ReleaseInv, NEW o \in Operator, NEW h \in HelmRelease, Fits(o, h),
         WorkStep(o, h) \/ Failure(o, h)
  PROVE  Effect(o, h) /\ Fits(o, h)'
<1>1. CASE QuietStep(o, h)
  <2>1. CASE RequestFails(o, h)
    BY <2>1, GivesUpFits DEF RequestFails
  <2> QED BY <1>1, <2>1, TakeFits, ClaimFits, LastFits, ReportStatusFits, AddFinalizerFits,
             SkipRemoveFits, RemoveFinalizerFits DEF QuietStep, Conflict
<1>2. CASE Failure(o, h)
  <2>1. work[o][h].pc # "idle" /\ (LastFails(o, h) \/ RequestFails(o, h))
    BY <1>2 DEF Failure, OtherFailure, LastFails, RequestFails
  <2> QED BY <2>1, GivesUpFits
<1> QED BY <1>1, <1>2, CallDeleteFits, CallSetFits, CallUnlockFits, CallRemoveFits DEF WorkStep

\* What one worker does is elsewhere for every other.
LEMMA OthersFit ==
  ASSUME ReleaseInv, StatusInv, KeysApart, NEW p \in Operator, NEW g \in HelmRelease, Effect(p, g),
         NEW o \in Operator, NEW h \in HelmRelease, o # p \/ h # g
  PROVE  Fits(o, h)'
<1>1. work'[o][h] = work[o][h] /\ cache'[o][h] = cache[o][h] /\ (NoRetarget' => NoRetarget)
  BY DEF Effect, NoRetarget
<1>2. api'[h] = api[h] \/ Rewritten(o, h)
  BY ReleaseAssumption DEF Effect, Rewritten
<1>3. ASSUME NEW key \in ReleaseKey, Uses(o, h, key)
      PROVE  StillUntracked(o, key)
  <2>1. CASE p = o /\ work[p][g].pc # "idle" /\ key = work[p][g].obj.key
    <3>1. Uses(o, g, key)
      BY <2>1 DEF Uses
    <3> QED BY <1>3, <2>1, <3>1 DEF KeysApart
  <2>2. CASE register'[o][key] = register[o][key]
    BY <2>2 DEF StillUntracked
  <2> QED BY <2>1, <2>2 DEF Effect
<1>4. Elsewhere(o, h)
  BY <1>1, <1>2, <1>3 DEF Elsewhere
<1> QED BY <1>4, ElsewhereFits DEF StatusInv

\* Users write HelmReleases without a status, or leave the status and the manager alone.
LEMMA UserFits ==
  ASSUME ReleaseInv, StatusInv, User, NEW o \in Operator, NEW h \in HelmRelease
  PROVE  Fits(o, h)'
<1>1. /\ cache' = cache /\ work' = work /\ register' = register
      /\ api \in [HelmRelease -> CustomResource]
      /\ budget \in [creates : 0 .. MaxCreates, retargets : 0 .. MaxRetargets,
                     changes : 0 .. MaxChanges]
  BY DEF User, Create, Retarget, Delete, ReleaseInv, ReleaseTypeOK
<1>2. ASSUME NEW g \in HelmRelease, api' = [api EXCEPT ![g] = api'[g]],
             Rewritten(o, g), NoRetarget' => NoRetarget
      PROVE  Fits(o, h)'
  <2>1. api'[h] = api[h] \/ Rewritten(o, h)
    BY <1>1, <1>2
  <2>2. Elsewhere(o, h)
    BY <1>1, <1>2, <2>1 DEF Elsewhere, StillUntracked
  <2> QED BY <2>2, ElsewhereFits DEF StatusInv
<1>3. ASSUME NEW g \in HelmRelease, NEW key \in ReleaseKey, Create(g, key)
      PROVE  Fits(o, h)'
  <2> DEFINE none == Missing(api[g].version + 1)
             new  == [none EXCEPT !.exists = TRUE, !.key = key]
  <2>1. /\ api' = [api EXCEPT ![g] = new] /\ Spend({"creates"})
    BY <1>3 DEF Create
  <2>2. new.version = api[g].version + 1 /\ new.manager = Nobody /\ new.status = Unreported
    BY DEF Missing
  <2> HIDE DEF new
  <2>3. api'[g] = new
    BY <1>1, <2>1
  <2>4. NoRetarget' => NoRetarget
    BY <1>1, <2>1 DEF Spend, NoRetarget
  <2> QED BY <1>2, <2>1, <2>2, <2>3, <2>4 DEF Rewritten
<1>4. ASSUME NEW g \in HelmRelease, NEW key \in ReleaseKey, Retarget(g, key)
      PROVE  Fits(o, h)'
  <2> DEFINE new == [api[g] EXCEPT !.key = key, !.version = @ + 1]
  <2>1. api' = [api EXCEPT ![g] = new] /\ Spend({"changes", "retargets"})
    BY <1>1, <1>4 DEF Retarget, CustomResource
  <2>2. /\ new.version = api[g].version + 1
        /\ new.manager = api[g].manager /\ new.status = api[g].status
    BY <1>1 DEF CustomResource
  <2> HIDE DEF new
  <2>3. api'[g] = new
    BY <1>1, <2>1
  <2>4. ~ NoRetarget'
    BY <1>1, <2>1, ReleaseAssumption DEF Spend, NoRetarget
  <2> QED BY <1>2, <2>1, <2>2, <2>3, <2>4 DEF Rewritten
<1>5. ASSUME NEW g \in HelmRelease, Delete(g)
      PROVE  Fits(o, h)'
  <2> DEFINE marked == [api[g] EXCEPT !.deleting = TRUE, !.version = @ + 1]
             new    == IF api[g].finalizer THEN marked ELSE Missing(api[g].version + 1)
  <2>1. api' = [api EXCEPT ![g] = new] /\ budget' = budget
    BY <1>5 DEF Delete
  <2>2. /\ marked.version = api[g].version + 1 /\ marked.key = api[g].key
        /\ marked.manager = api[g].manager /\ marked.status = api[g].status
    BY <1>1 DEF CustomResource
  <2> HIDE DEF marked
  <2>3. /\ new.version = api[g].version + 1
        /\ \/ new.manager = Nobody /\ new.status = Unreported
           \/ /\ new.manager = api[g].manager /\ new.status = api[g].status
              /\ new.key = api[g].key
    BY <2>2 DEF Missing
  <2> HIDE DEF new
  <2>4. api'[g] = new /\ (NoRetarget' => NoRetarget)
    BY <1>1, <2>1 DEF NoRetarget
  <2> QED BY <1>2, <2>1, <2>3, <2>4 DEF Rewritten
<1> QED BY <1>3, <1>4, <1>5 DEF User

\* The informers bring the latest copy.
LEMMA ObserveFits ==
  ASSUME ReleaseInv, StatusInv, NEW p \in Operator, NEW g \in HelmRelease, Observe(p, g),
         NEW o \in Operator, NEW h \in HelmRelease
  PROVE  Fits(o, h)'
<1>1. cache \in [Operator -> [HelmRelease -> CustomResource]]
  BY DEF ReleaseInv, ReleaseTypeOK
<1>2. /\ cache' = [cache EXCEPT ![p][g] = api[g]]
      /\ api' = api /\ work' = work /\ register' = register /\ budget' = budget
  BY DEF Observe
<1>3. cache'[o][h] = cache[o][h] \/ cache'[o][h] = api[h]
  BY <1>1, <1>2
<1>4. Elsewhere(o, h)
  BY <1>2, <1>3 DEF Elsewhere, StillUntracked, NoRetarget
<1> QED BY <1>4, ElsewhereFits DEF StatusInv

\* Nothing that the status is about changes, or there is less of the bounds left.
LEMMA NothingFits ==
  ASSUME ReleaseInv, StatusInv, UNCHANGED <<api, cache, work, register>>,
         NoRetarget' => NoRetarget
  PROVE  StatusInv'
<1>1. api' = api /\ cache' = cache /\ work' = work /\ register' = register
  OBVIOUS
<1>2. ASSUME NEW o \in Operator, NEW h \in HelmRelease
      PROVE  Elsewhere(o, h)
  BY <1>1 DEF Elsewhere, StillUntracked
<1> QED BY <1>2, ElsewhereFits DEF StatusInv

\* Every step, whoever takes it, leaves the statuses fitting.
LEMMA StatusStep ==
  ASSUME ReleaseInv, StatusInv, KeysApart, [ReleaseNext]_releaseVars
  PROVE  StatusInv'
<1>1. ASSUME NEW p \in Operator, NEW g \in HelmRelease, WorkStep(p, g) \/ Failure(p, g)
      PROVE  StatusInv'
  <2>1. Effect(p, g) /\ Fits(p, g)'
    BY <1>1, WorkerFits DEF StatusInv
  <2> QED BY <2>1, OthersFit DEF StatusInv
<1>2. CASE Helm
  <2>1. /\ UNCHANGED <<api, cache, work, register>>
        /\ Spend({"changes"})
    BY <1>2 DEF Helm, ChangeSecret
  <2>2. NoRetarget' => NoRetarget
    BY <2>1 DEF Spend, NoRetarget, ReleaseInv, ReleaseTypeOK
  <2> QED BY <2>1, <2>2, NothingFits
<1>3. ASSUME NEW p \in Operator, NEW key \in ReleaseKey, SecretChange(p, key)
      PROVE  StatusInv'
  BY <1>3, NothingFits DEF SecretChange, NoRetarget
<1>4. CASE UNCHANGED releaseVars
  BY <1>4, NothingFits DEF releaseVars, NoRetarget
<1>5. CASE User
  BY <1>5, UserFits DEF StatusInv
<1>6. ASSUME NEW p \in Operator, NEW g \in HelmRelease, Observe(p, g)
      PROVE  StatusInv'
  BY <1>6, ObserveFits DEF StatusInv
<1> QED BY <1>1, <1>2, <1>3, <1>4, <1>5, <1>6 DEF ReleaseNext

\* Nothing is reported, and nothing is registered.
LEMMA StatusInit == ReleaseInit => StatusInv
<1> SUFFICES ASSUME ReleaseInit, NEW o \in Operator, NEW h \in HelmRelease
             PROVE  Fits(o, h)
  BY DEF StatusInv
<1>1. /\ api[h] = Missing(0) /\ cache[o][h] = Missing(0) /\ work[o][h].pc = "idle"
  BY DEF ReleaseInit, NoWork
<1>2. Missing(0).status = Unreported
  BY DEF Missing
<1> QED BY <1>1, <1>2, ReleaseAssumption
        DEF Fits, CopiesUpToDate, UpToDate, FrameFits, StatusFits, ReportsLast, ReportsFirst,
            FreeIsUnreported, NotFound, Releases

\* StatusInv in every state, for as long as the keys are apart.
LEMMA StatusInvariant == ReleaseSpec /\ []KeysApart => []StatusInv
<1>1. ReleaseInv /\ StatusInv /\ KeysApart /\ [ReleaseNext]_releaseVars => StatusInv'
  BY StatusStep
<1>2. ReleaseSpec => []ReleaseInv
  BY ReleaseInitInv, ReleaseNextInv, PTL DEF ReleaseSpec
<1> QED BY <1>1, <1>2, StatusInit, PTL DEF ReleaseSpec

\* As long as the status of a HelmRelease says that its release was not found, its manager has
\* nothing registered for it: OnHelmReleaseRemove may skip it.
THEOREM NotFoundIsUntrackedCorrect == ReleaseSpec /\ []KeysApart => []NotFoundIsUntracked
<1>1. StatusInv => NotFoundIsUntracked
  BY DEF StatusInv, Fits, StatusFits, NotFound, NotFoundIsUntracked
<1> QED BY <1>1, StatusInvariant, PTL

-----------------------------------------------------------------------------
\* What has a finalizer exists.
FinalizedExist == \A h \in HelmRelease : api[h].finalizer => api[h].exists

\* A HelmRelease that does not exist after a step had no finalizer, or has lost it in this step.
Stays(h) ==
  \/ api'[h] = api[h]
  \/ api'[h].exists
  \/ /\ ~ api'[h].finalizer
     /\ ~ api[h].finalizer \/ \E o \in Operator : RemoveFinalizer(o, h)

\* An Update by a worker is one of an object that exists.
LEMMA WorkerStays ==
  ASSUME ReleaseInv, NEW o \in Operator, NEW g \in HelmRelease, WorkStep(o, g) \/ Failure(o, g),
         NEW h \in HelmRelease
  PROVE  Stays(h)
<1>1. api \in [HelmRelease -> CustomResource] /\ api[g] \in CustomResource
  BY DEF ReleaseInv, ReleaseTypeOK
<1>2. ASSUME work[o][g].pc # "idle",
             \E obj \in CustomResource : obj.exists /\ Update(g, obj)
      PROVE  Stays(h)
  BY <1>2, Updated DEF Stays
<1>3. CASE Claim(o, g)
  <2> DEFINE new == [work[o][g].obj EXCEPT !.manager = o]
  <2>1. work[o][g].obj \in CustomResource /\ work[o][g].obj.exists /\ work[o][g].pc # "idle"
    BY <1>3, FrameSound DEF Claim
  <2>2. new \in CustomResource /\ new.exists /\ Update(g, new)
    BY <1>3, <2>1 DEF Claim, CustomResource
  <2> QED BY <1>2, <2>1, <2>2
<1>4. CASE AddFinalizer(o, g)
  <2> DEFINE new == [work[o][g].obj EXCEPT !.finalizer = TRUE]
  <2>1. work[o][g].obj \in CustomResource /\ work[o][g].obj.exists /\ work[o][g].pc # "idle"
    BY <1>4, FrameSound DEF AddFinalizer
  <2>2. new \in CustomResource /\ new.exists /\ Update(g, new)
    BY <1>4, <2>1 DEF AddFinalizer, CustomResource
  <2> QED BY <1>2, <2>1, <2>2
<1>5. CASE ReportStatus(o, g)
  <2> DEFINE status == work[o][g].obj.status
             sent   == [api[g] EXCEPT !.status = status]
             obj    == Stored(g, sent)
  <2>1. /\ api[g].exists /\ api' = [api EXCEPT ![g] = obj]
        /\ status \in Report
    BY <1>5, FrameSound DEF ReportStatus, WithStatus, Accepts, CustomResource
  <2>2. sent \in CustomResource /\ sent.exists
    BY <1>1, <2>1 DEF CustomResource
  <2> HIDE DEF sent
  <2>3. obj = api[g] \/ obj = [sent EXCEPT !.version = api[g].version + 1]
    BY <1>1, <2>2, StoredForm
  <2> HIDE DEF obj
  <2>4. obj.exists
    BY <2>1, <2>2, <2>3 DEF CustomResource
  <2> QED BY <1>1, <2>1, <2>4 DEF Stays
<1>6. CASE RemoveFinalizer(o, g)
  <2> DEFINE none == Missing(api[g].version + 1)
  <2>1. api' = [api EXCEPT ![g] = none] /\ ~ none.finalizer
    BY <1>6 DEF RemoveFinalizer, Missing
  <2> HIDE DEF none
  <2> QED BY <1>1, <1>6, <2>1 DEF Stays
<1>7. CASE api' = api
  BY <1>7 DEF Stays
<1> QED BY <1>3, <1>4, <1>5, <1>6, <1>7
        DEF WorkStep, QuietStep, Failure, Take, Last, SkipRemove, Conflict, RequestFails,
            OtherFailure, LastFails, CallDelete, CallSet, CallUnlock, CallRemove

\* A user's deletion only marks what has a finalizer.
LEMMA UserStays ==
  ASSUME ReleaseInv, User, NEW h \in HelmRelease
  PROVE  Stays(h)
<1>1. api \in [HelmRelease -> CustomResource]
  BY DEF ReleaseInv, ReleaseTypeOK
<1>2. ASSUME NEW g \in HelmRelease, NEW key \in ReleaseKey, Create(g, key)
      PROVE  Stays(h)
  <2> DEFINE none == Missing(api[g].version + 1)
             new  == [none EXCEPT !.exists = TRUE, !.key = key]
  <2>1. api' = [api EXCEPT ![g] = new] /\ new.exists
    BY <1>2 DEF Create, Missing
  <2> HIDE DEF new
  <2> QED BY <1>1, <2>1 DEF Stays
<1>3. ASSUME NEW g \in HelmRelease, NEW key \in ReleaseKey, Retarget(g, key)
      PROVE  Stays(h)
  <2> DEFINE new == [api[g] EXCEPT !.key = key, !.version = @ + 1]
  <2>1. api' = [api EXCEPT ![g] = new] /\ new.exists
    BY <1>1, <1>3 DEF Retarget, CustomResource
  <2> HIDE DEF new
  <2> QED BY <1>1, <2>1 DEF Stays
<1>4. ASSUME NEW g \in HelmRelease, Delete(g)
      PROVE  Stays(h)
  <2> DEFINE marked == [api[g] EXCEPT !.deleting = TRUE, !.version = @ + 1]
             none   == Missing(api[g].version + 1)
  <2>1. /\ api' = [api EXCEPT ![g] = IF api[g].finalizer THEN marked ELSE none]
        /\ marked.exists /\ ~ none.finalizer
    BY <1>1, <1>4 DEF Delete, Missing, CustomResource
  <2> HIDE DEF marked, none
  <2> QED BY <1>1, <2>1 DEF Stays
<1> QED BY <1>2, <1>3, <1>4 DEF User

\* HelmReleases go when their last finalizer goes, and no other way.
LEMMA EveryStays ==
  ASSUME ReleaseInv, [ReleaseNext]_releaseVars, NEW h \in HelmRelease
  PROVE  Stays(h)
BY WorkerStays, UserStays
DEF ReleaseNext, Helm, ChangeSecret, Observe, SecretChange, releaseVars, Stays

\* FinalizedExist in every state.
LEMMA FinalizedInvariant == ReleaseSpec => []FinalizedExist
<1>1. ReleaseInit => FinalizedExist
  BY DEF ReleaseInit, FinalizedExist, Missing
<1>2. ReleaseInv /\ FinalizedExist /\ [ReleaseNext]_releaseVars => FinalizedExist'
  BY EveryStays DEF FinalizedExist, Stays
<1>3. ReleaseSpec => []ReleaseInv
  BY ReleaseInitInv, ReleaseNextInv, PTL DEF ReleaseSpec
<1> QED BY <1>1, <1>2, <1>3, PTL DEF ReleaseSpec

\* A HelmRelease with a finalizer disappears by a step of its manager, which has nothing
\* registered for it by then.
LEMMA RemovedStep ==
  ASSUME ReleaseInv, FinalizedExist, StatusInv, [ReleaseNext]_releaseVars,
         NEW h \in HelmRelease, NoRetarget, api[h].finalizer, ~ api'[h].exists,
         StateOf(api[h].status) # "Uninstalled"
  PROVE  register[api[h].manager][api[h].key] = Untracked
<1>1. PICK o \in Operator : RemoveFinalizer(o, h)
  BY EveryStays DEF FinalizedExist, Stays
<1>2. /\ work[o][h].pc = "unfinalize" /\ Accepts(h, work[o][h].obj)
      /\ work[o][h].obj.version = api[h].version
  BY <1>1 DEF RemoveFinalizer, Accepts
<1>3. work[o][h].obj.manager = o
  BY <1>2 DEF StatusInv, Fits, FrameFits
<1>4. api[h].manager = o /\ api[h].key = work[o][h].obj.key
  BY <1>2, <1>3, Accepted DEF StatusInv
<1> QED BY <1>2, <1>4 DEF StatusInv, Fits, StatusFits, Releases

\* A HelmRelease with a finalizer only disappears when its manager has released what it had
\* registered for it, unless the release was uninstalled.
THEOREM RemovedIsReleasedCorrect == ReleaseSpec /\ []KeysApart => RemovedIsReleased
<1> DEFINE Released == \A h \in HelmRelease :
                         /\ NoRetarget
                         /\ api[h].finalizer
                         /\ ~ api'[h].exists
                         /\ StateOf(api[h].status) # "Uninstalled"
                         => register[api[h].manager][api[h].key] = Untracked
<1>1. ReleaseInv /\ FinalizedExist /\ StatusInv /\ [ReleaseNext]_releaseVars => Released
  BY RemovedStep
<1>2. ReleaseSpec => []ReleaseInv
  BY ReleaseInitInv, ReleaseNextInv, PTL DEF ReleaseSpec
<1> QED BY <1>1, <1>2, StatusInvariant, FinalizedInvariant, PTL DEF ReleaseSpec, RemovedIsReleased
=============================================================================
