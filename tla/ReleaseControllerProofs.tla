---------------------- MODULE ReleaseControllerProofs ----------------------
(***************************************************************************)
(* Proofs about the release controller, for any number of operators,       *)
(* HelmReleases and releases, and with requests failing at any time.       *)
(***************************************************************************)
EXTENDS ReleaseController, TLAPS

\* A copy that is as the API server's in all that the claims depend on.
Same(copy, obj) ==
  /\ copy.version = obj.version
  /\ copy.exists = obj.exists
  /\ copy.key = obj.key
  /\ copy.manager = obj.manager

\* A copy of h is not newer than the API server's, and knows the manager if it is as new.
Agrees(copy, h) ==
  /\ copy.version <= api[h].version
  /\ copy.version = api[h].version => copy.manager = api[h].manager

\* What exists has a key, and what does not exist has no manager.
Sound(obj) ==
  /\ obj.exists => obj.key \in ReleaseKey
  /\ ~ obj.exists => obj.manager = Nobody

CopiesAgree ==
  \A o \in Operator, h \in HelmRelease :
    /\ Agrees(cache[o][h], h)
    /\ work[o][h].pc # "idle" => Agrees(work[o][h].obj, h)

ObjectsSound ==
  /\ \A h \in HelmRelease : Sound(api[h])
  /\ \A o \in Operator, h \in HelmRelease :
       /\ Sound(cache[o][h])
       /\ work[o][h].pc # "idle" => work[o][h].obj.exists /\ Sound(work[o][h].obj)

\* A worker that claims has a copy without a manager.
ClaimsAreFree ==
  \A o \in Operator, h \in HelmRelease :
    work[o][h].pc \in {"claim", "claim_again"} => work[o][h].obj.manager = Nobody

ReleaseInv == ReleaseTypeOK /\ CopiesAgree /\ ObjectsSound /\ ClaimsAreFree

-----------------------------------------------------------------------------
\* What a step may do to the HelmReleases in the API server: one write, which makes a new version
\* and sets a manager only where there was none.
Written(h) ==
  /\ \A g \in HelmRelease \ {h} : api'[g] = api[g]
  /\ \/ api'[h] = api[h]
     \/ /\ api'[h].version = api[h].version + 1
        /\ Sound(api'[h])
        /\ \/ api'[h].manager = api[h].manager
           \/ Nobody \in {api[h].manager, api'[h].manager}

ApiForm == api' = api \/ \E h \in HelmRelease : Written(h)

\* ... to the copies in the caches ...
CacheForm ==
  \A o \in Operator, h \in HelmRelease :
    Same(cache'[o][h], cache[o][h]) \/ (Same(cache'[o][h], api[h]) /\ api' = api)

\* ... and to the frames of the workers.
WorkForm ==
  \A o \in Operator, h \in HelmRelease :
    \/ work'[o][h] = work[o][h]
    \/ work'[o][h].pc = "idle"
    \/ /\ \/ work[o][h].pc # "idle" /\ Same(work'[o][h].obj, work[o][h].obj)
          \/ Same(work'[o][h].obj, cache[o][h])
          \/ Same(work'[o][h].obj, api'[h])
       /\ work'[o][h].obj.exists
       /\ work'[o][h].pc \in {"claim", "claim_again"} => work'[o][h].obj.manager = Nobody

StepForm == ReleaseTypeOK' /\ ApiForm /\ CacheForm /\ WorkForm

-----------------------------------------------------------------------------
\* Parse loses nothing of a manifest that decodes, and adds nothing to any: what is registered
\* for a release, and what apply deletes for not being in it, are as good as the decoder.
THEOREM ParseIsWhole ==
  ASSUME NEW m \in Manifest
  PROVE  /\ Parse(m) \subseteq Tracked(m)
         /\ (\A i \in DOMAIN Documents[m] : Documents[m][i] # Broken) => Parse(m) = Tracked(m)
<1>1. Documents[m] \in Seq(Object \cup {Empty, Broken})
  BY ParserAssumption
<1>2. DOMAIN Documents[m] = 1 .. Len(Documents[m]) /\ Len(Documents[m]) \in Nat
  BY <1>1
<1>3. ASSUME NEW i \in DOMAIN Documents[m]
      PROVE  Documents[m][i] \in Object \cup {Empty, Broken}
  BY <1>1, <1>3
<1>4. ASSUME NEW i \in Decoded(m)
      PROVE  i \in DOMAIN Documents[m] /\ Documents[m][i] # Broken
  <2>1. i \in DOMAIN Documents[m] /\ i \in 1 .. i
    BY <1>2 DEF Decoded
  <2> QED BY <2>1 DEF Decoded
<1>5. Parse(m) \subseteq Tracked(m)
  BY <1>3, <1>4 DEF Parse, Tracked
<1>6. ASSUME \A i \in DOMAIN Documents[m] : Documents[m][i] # Broken
      PROVE  Tracked(m) \subseteq Parse(m)
  <2>1. Decoded(m) = DOMAIN Documents[m]
    BY <1>2, <1>6 DEF Decoded
  <2> QED BY <2>1, ParserAssumption DEF Parse, Tracked
<1> QED BY <1>5, <1>6

\* Parse returns objects: it stops at what does not decode, and skips what is empty.
LEMMA ParseTracksObjects ==
  ASSUME NEW m \in Manifest
  PROVE  Parse(m) \in SUBSET Object
<1>1. Documents[m] \in Seq(Object \cup {Empty, Broken})
  BY ParserAssumption
<1>2. ASSUME NEW i \in Decoded(m)
      PROVE  Documents[m][i] \in Object \cup {Empty}
  <2>1. i \in 1 .. Len(Documents[m])
    BY <1>1 DEF Decoded
  <2>2. i \in 1 .. i
    BY <2>1
  <2>3. Documents[m][i] # Broken
    BY <2>2 DEF Decoded
  <2> QED BY <1>1, <2>1, <2>3
<1> QED BY <1>2 DEF Parse

\* A deployed release is one that was found.
LEMMA LockedIsFound ==
  ASSUME NEW release \in Release \cup {NoRelease}, Locked(release)
  PROVE  release.manifest \in Manifest
<1>1. release # NoRelease
  <2>1. StateOf(NoRelease) = "SecretNotFound"
    BY ReleaseAssumption DEF StateOf
  <2> QED BY <2>1 DEF Locked
<1> QED BY <1>1, ReleaseAssumption

\* What the API server has after a write.
LEMMA StoredForm ==
  ASSUME NEW h \in HelmRelease, api \in [HelmRelease -> CustomResource], NEW new \in CustomResource
  PROVE  /\ Stored(h, new) \in CustomResource
         /\ \/ Stored(h, new) = api[h]
            \/ Stored(h, new) = [new EXCEPT !.version = api[h].version + 1]
<1>1. api[h] \in CustomResource
  OBVIOUS
<1>2. api[h].version + 1 \in Nat
  BY <1>1 DEF CustomResource
<1>3. [new EXCEPT !.version = api[h].version + 1] \in CustomResource
  BY <1>2 DEF CustomResource
<1> QED BY <1>1, <1>3 DEF Stored

\* An object that does not exist.
LEMMA MissingType ==
  ASSUME NEW version \in Nat
  PROVE  Missing(version) \in CustomResource
BY DEF Missing, CustomResource, Report

\* A worker that goes on leaves frames behind.
LEMMA ContinueForm ==
  ASSUME ReleaseTypeOK, NEW o \in Operator, NEW h \in HelmRelease,
         NEW pc \in WorkSteps, NEW frame \in Work, Continue(o, h, pc, frame)
  PROVE  /\ work' \in [Operator -> [HelmRelease -> Work]]
         /\ queue' \in [Operator -> SUBSET HelmRelease]
         /\ work'[o][h] = IF pc = "idle" THEN NoWork ELSE [frame EXCEPT !.pc = pc]
         /\ \A p \in Operator, g \in HelmRelease :
              p # o \/ g # h => work'[p][g] = work[p][g]
<1> DEFINE next == IF pc = "idle" THEN NoWork ELSE [frame EXCEPT !.pc = pc]
<1>1. NoWork \in Work
  <2>1. Missing(0) \in CustomResource
    BY MissingType
  <2> QED BY <2>1 DEF NoWork, Work, WorkSteps
<1>2. next \in Work
  BY <1>1 DEF Work
<1>3. work' = [work EXCEPT ![o][h] = next]
  BY DEF Continue
<1>4. work \in [Operator -> [HelmRelease -> Work]] /\ queue \in [Operator -> SUBSET HelmRelease]
  BY DEF ReleaseTypeOK
<1>5. queue' \in [Operator -> SUBSET HelmRelease]
  BY <1>4 DEF Continue
<1> HIDE DEF next
<1>6. /\ work' \in [Operator -> [HelmRelease -> Work]]
      /\ work'[o][h] = next
      /\ \A p \in Operator, g \in HelmRelease : p # o \/ g # h => work'[p][g] = work[p][g]
  BY <1>2, <1>3, <1>4
<1> QED BY <1>5, <1>6 DEF next

\* The assignments to the object in the cache change its status at most.
LEMMA AssignStatusForm ==
  ASSUME ReleaseTypeOK, NEW o \in Operator, NEW h \in HelmRelease,
         NEW obj, NEW status \in Report, AssignStatus(o, h, obj, status)
  PROVE  /\ cache' \in [Operator -> [HelmRelease -> CustomResource]]
         /\ \A p \in Operator, g \in HelmRelease : Same(cache'[p][g], cache[p][g])
<1>1. cache \in [Operator -> [HelmRelease -> CustomResource]]
  BY DEF ReleaseTypeOK
<1>2. cache[o][h] \in CustomResource
  BY <1>1
<1> DEFINE new == [cache[o][h] EXCEPT !.status = status]
<1>3. new \in CustomResource /\ Same(new, cache[o][h])
  BY <1>2 DEF CustomResource, Same
<1>4. CASE cache' = cache
  BY <1>1, <1>4 DEF Same
<1>5. CASE cache' = [cache EXCEPT ![o][h] = new]
  <2> HIDE DEF new
  <2>1. cache' \in [Operator -> [HelmRelease -> CustomResource]]
    BY <1>1, <1>3, <1>5
  <2>2. \A p \in Operator, g \in HelmRelease :
          cache'[p][g] = IF p = o /\ g = h THEN new ELSE cache[p][g]
    BY <1>1, <1>5
  <2> QED BY <2>1, <2>2, <1>3 DEF Same
<1> QED BY <1>4, <1>5 DEF AssignStatus

\* What the invariant says of the frame of a worker that has started.
LEMMA FrameSound ==
  ASSUME ReleaseInv, NEW o \in Operator, NEW h \in HelmRelease, work[o][h].pc # "idle"
  PROVE  /\ work[o][h] \in Work
         /\ work[o][h].obj \in CustomResource
         /\ work[o][h].obj.exists
         /\ work[o][h].obj.key \in ReleaseKey
         /\ Agrees(work[o][h].obj, h)
<1>1. work[o][h] \in Work
  BY DEF ReleaseInv, ReleaseTypeOK
<1>2. work[o][h].obj \in CustomResource
  BY <1>1 DEF Work
<1>3. work[o][h].obj.exists /\ Sound(work[o][h].obj)
  BY DEF ReleaseInv, ObjectsSound
<1>4. Agrees(work[o][h].obj, h)
  BY DEF ReleaseInv, CopiesAgree
<1> QED BY <1>1, <1>2, <1>3, <1>4 DEF Sound

\* A worker that goes on with the object it has, or with what the server has returned, keeps to
\* the form of a step.
LEMMA GoesOn ==
  ASSUME ReleaseInv, NEW o \in Operator, NEW h \in HelmRelease, work[o][h].pc # "idle",
         NEW pc \in WorkSteps, NEW frame \in Work, Continue(o, h, pc, frame),
         \/ Same(frame.obj, work[o][h].obj)
         \/ Same(frame.obj, api'[h]) /\ frame.obj.exists,
         pc \in {"claim", "claim_again"} => frame.obj.manager = Nobody
  PROVE  /\ work' \in [Operator -> [HelmRelease -> Work]]
         /\ queue' \in [Operator -> SUBSET HelmRelease]
         /\ WorkForm
<1>1. ReleaseTypeOK
  BY DEF ReleaseInv
<1>2. /\ work' \in [Operator -> [HelmRelease -> Work]]
      /\ queue' \in [Operator -> SUBSET HelmRelease]
      /\ work'[o][h] = IF pc = "idle" THEN NoWork ELSE [frame EXCEPT !.pc = pc]
      /\ \A p \in Operator, g \in HelmRelease : p # o \/ g # h => work'[p][g] = work[p][g]
  BY <1>1, ContinueForm
<1>3. frame.obj.exists
  BY FrameSound DEF Same
<1>4. CASE pc = "idle"
  <2>1. work'[o][h].pc = "idle"
    BY <1>2, <1>4 DEF NoWork
  <2> QED BY <1>2, <2>1 DEF WorkForm
<1>5. CASE pc # "idle"
  <2>1. work'[o][h].pc = pc /\ work'[o][h].obj = frame.obj
    BY <1>2, <1>5 DEF Work
  <2>2. \A p \in Operator, g \in HelmRelease :
          \/ work'[p][g] = work[p][g]
          \/ p = o /\ g = h
    BY <1>2
  <2> QED BY <1>2, <1>3, <2>1, <2>2 DEF WorkForm
<1> QED BY <1>4, <1>5

\* Nothing is written and nothing is copied.
LEMMA NothingWritten ==
  ASSUME ReleaseInv, UNCHANGED <<api, cache>>
  PROVE  ApiForm /\ CacheForm
BY DEF ApiForm, CacheForm, Same

\* A step that keeps to its form keeps the invariant: a copy never gets newer than the API
\* server's, and a version has one manager.
LEMMA StepInv ==
  ASSUME ReleaseInv, StepForm
  PROVE  ReleaseInv'
<1> USE DEF ReleaseInv, StepForm
<1>1. ASSUME NEW h \in HelmRelease
      PROVE  /\ api[h] \in CustomResource
             /\ api'[h] \in CustomResource
             /\ \/ api'[h] = api[h]
                \/ api'[h].version = api[h].version + 1 /\ Sound(api'[h])
  <2>1. api[h] \in CustomResource /\ api'[h] \in CustomResource
    BY DEF ReleaseTypeOK
  <2> QED BY <2>1 DEF ApiForm, Written
<1>2. ASSUME NEW h \in HelmRelease
      PROVE  Sound(api'[h]) /\ Sound(api[h])
  BY <1>1 DEF ObjectsSound
<1>3. ASSUME NEW h \in HelmRelease, NEW copy \in CustomResource, NEW old \in CustomResource,
             Same(copy, old), Agrees(old, h)
      PROVE  Agrees(copy, h)'
  <2>1. api[h].version \in Nat /\ old.version \in Nat /\ copy.version \in Nat
    BY <1>1 DEF CustomResource
  <2>2. copy.version <= api[h].version
    BY <1>3 DEF Same, Agrees
  <2>3. copy.version = api[h].version => copy.manager = api[h].manager
    BY <1>3 DEF Same, Agrees
  <2> QED BY <1>1, <2>1, <2>2, <2>3 DEF Agrees
<1>4. ASSUME NEW h \in HelmRelease, NEW copy \in CustomResource, Same(copy, api'[h])
      PROVE  Agrees(copy, h)'
  <2>1. copy.version \in Nat
    BY DEF CustomResource
  <2> QED BY <1>4, <2>1 DEF Same, Agrees
<1>5. ASSUME NEW o \in Operator, NEW h \in HelmRelease
      PROVE  Agrees(cache[o][h], h)' /\ Sound(cache'[o][h])
  <2>1. cache[o][h] \in CustomResource /\ cache'[o][h] \in CustomResource
    BY DEF ReleaseTypeOK
  <2>2. CASE Same(cache'[o][h], cache[o][h])
    <3>1. Agrees(cache[o][h], h) /\ Sound(cache[o][h])
      BY DEF CopiesAgree, ObjectsSound
    <3>2. Agrees(cache[o][h], h)'
      BY <1>3, <2>1, <2>2, <3>1
    <3> QED BY <2>2, <3>1, <3>2 DEF Same, Sound
  <2>3. CASE Same(cache'[o][h], api[h]) /\ api' = api
    <3>1. Agrees(cache[o][h], h)'
      BY <1>4, <2>1, <2>3
    <3> QED BY <1>2, <2>3, <3>1 DEF Same, Sound
  <2> QED BY <2>2, <2>3 DEF CacheForm
<1>6. ASSUME NEW o \in Operator, NEW h \in HelmRelease, work'[o][h].pc # "idle"
      PROVE  /\ Agrees(work[o][h].obj, h)'
             /\ work'[o][h].obj.exists /\ Sound(work'[o][h].obj)
             /\ work'[o][h].pc \in {"claim", "claim_again"} => work'[o][h].obj.manager = Nobody
  <2>1. /\ work[o][h].obj \in CustomResource
        /\ work'[o][h].obj \in CustomResource
        /\ cache[o][h] \in CustomResource
    BY DEF ReleaseTypeOK, Work
  <2>2. ASSUME work[o][h].pc # "idle", Same(work'[o][h].obj, work[o][h].obj)
        PROVE  Agrees(work[o][h].obj, h)' /\ Sound(work'[o][h].obj)
    <3>1. Agrees(work[o][h].obj, h) /\ Sound(work[o][h].obj)
      BY <2>2 DEF CopiesAgree, ObjectsSound
    <3>2. Agrees(work[o][h].obj, h)'
      BY <1>3, <2>1, <2>2, <3>1
    <3> QED BY <2>2, <3>1, <3>2 DEF Same, Sound
  <2>3. CASE work'[o][h] = work[o][h]
    <3>1. work[o][h].pc # "idle" /\ Same(work'[o][h].obj, work[o][h].obj)
      BY <1>6, <2>3 DEF Same
    <3> QED BY <2>2, <2>3, <3>1 DEF ObjectsSound, ClaimsAreFree
  <2>4. CASE Same(work'[o][h].obj, cache[o][h])
    <3>1. Agrees(cache[o][h], h) /\ Sound(cache[o][h])
      BY DEF CopiesAgree, ObjectsSound
    <3>2. Agrees(work[o][h].obj, h)'
      BY <1>3, <2>1, <2>4, <3>1
    <3>3. Sound(work'[o][h].obj)
      BY <2>4, <3>1 DEF Same, Sound
    <3> QED BY <1>6, <2>3, <3>2, <3>3 DEF WorkForm
  <2>5. CASE Same(work'[o][h].obj, api'[h])
    <3>1. Agrees(work[o][h].obj, h)'
      BY <1>4, <2>1, <2>5
    <3>2. Sound(work'[o][h].obj)
      BY <1>2, <2>5 DEF Same, Sound
    <3> QED BY <1>6, <2>3, <3>1, <3>2 DEF WorkForm
  <2>6. CASE work[o][h].pc # "idle" /\ Same(work'[o][h].obj, work[o][h].obj)
    BY <1>6, <2>2, <2>3, <2>6 DEF WorkForm
  <2> QED BY <1>6, <2>3, <2>4, <2>5, <2>6 DEF WorkForm
<1>7. CopiesAgree'
  BY <1>5, <1>6 DEF CopiesAgree
<1>8. ObjectsSound'
  BY <1>2, <1>5, <1>6 DEF ObjectsSound
<1>9. ClaimsAreFree'
  BY <1>6 DEF ClaimsAreFree
<1> QED BY <1>7, <1>8, <1>9

-----------------------------------------------------------------------------
\* What a status may hold.
LEMMA ReportType ==
  /\ NoRelease \in Report /\ Unreported \in Report
  /\ Release \in SUBSET Report
BY DEF Report

\* A write of one HelmRelease.
LEMMA WriteForm ==
  ASSUME ReleaseInv, NEW h \in HelmRelease, NEW new \in CustomResource,
         api' = [api EXCEPT ![h] = new],
         new = api[h] \/
           (/\ new.version = api[h].version + 1
            /\ Sound(new)
            /\ new.manager = api[h].manager \/ Nobody \in {api[h].manager, new.manager})
  PROVE  /\ api' \in [HelmRelease -> CustomResource]
         /\ api'[h] = new
         /\ ApiForm
<1>1. api \in [HelmRelease -> CustomResource]
  BY DEF ReleaseInv, ReleaseTypeOK
<1>2. api' \in [HelmRelease -> CustomResource] /\ api'[h] = new
  BY <1>1
<1>3. \A g \in HelmRelease \ {h} : api'[g] = api[g]
  BY <1>1
<1>4. Written(h)
  BY <1>2, <1>3 DEF Written
<1> QED BY <1>2, <1>4 DEF ApiForm

\* An Update that the API server takes, from an operator that may set the manager.
LEMMA UpdateForm ==
  ASSUME ReleaseInv, NEW h \in HelmRelease, NEW new \in CustomResource, Update(h, new),
         new.exists, new.key \in ReleaseKey,
         new.manager = api[h].manager \/ api[h].manager = Nobody
  PROVE  api' \in [HelmRelease -> CustomResource] /\ ApiForm
<1> DEFINE sent == [new EXCEPT !.status = api[h].status]
<1>1. api \in [HelmRelease -> CustomResource] /\ api[h] \in CustomResource
  BY DEF ReleaseInv, ReleaseTypeOK
<1>2. /\ sent \in CustomResource
      /\ sent.exists /\ sent.key \in ReleaseKey /\ sent.manager = new.manager
  BY <1>1 DEF CustomResource
<1>3. api' = [api EXCEPT ![h] = Stored(h, sent)]
  BY DEF Update
<1> HIDE DEF sent
<1>4. /\ Stored(h, sent) \in CustomResource
      /\ Stored(h, sent) = api[h] \/ Stored(h, sent) = [sent EXCEPT !.version = api[h].version + 1]
  BY <1>1, <1>2, StoredForm
<1>5. CASE Stored(h, sent) = api[h]
  BY <1>3, <1>4, <1>5, WriteForm
<1>6. CASE Stored(h, sent) = [sent EXCEPT !.version = api[h].version + 1]
  <2>1. /\ Stored(h, sent).version = api[h].version + 1
        /\ Sound(Stored(h, sent))
        /\ Stored(h, sent).manager = new.manager
    BY <1>2, <1>6 DEF Sound, CustomResource
  <2> QED BY <1>3, <1>4, <2>1, WriteForm
<1> QED BY <1>4, <1>5, <1>6

\* What is left of the bounds.
LEMMA SpendType ==
  ASSUME ReleaseTypeOK, NEW what \in SUBSET {"creates", "retargets", "changes"}, Spend(what)
  PROVE  budget' \in [creates : 0 .. MaxCreates, retargets : 0 .. MaxRetargets,
                      changes : 0 .. MaxChanges]
BY ReleaseAssumption DEF ReleaseTypeOK, Spend

-----------------------------------------------------------------------------
\* A worker starts with the copy in the cache, and claims it only without a manager.
LEMMA TakeStep ==
  ASSUME ReleaseInv, NEW o \in Operator, NEW h \in HelmRelease, Take(o, h)
  PROVE  StepForm
<1> DEFINE obj == cache[o][h]
           pc  == CASE ~ obj.exists -> "idle"
                    [] obj.exists /\ obj.manager = Nobody -> "claim"
                    [] obj.exists /\ obj.manager = o /\ obj.deleting -> "remove"
                    [] obj.exists /\ obj.manager = o /\ ~ obj.deleting -> "last"
                    [] OTHER -> "idle"
           frame == [NoWork EXCEPT !.pc = pc, !.obj = obj]
<1>1. ReleaseTypeOK
  BY DEF ReleaseInv
<1>2. obj \in CustomResource
  BY <1>1 DEF ReleaseTypeOK
<1>3. /\ pc \in {"idle", "claim", "remove", "last"}
      /\ pc # "idle" => obj.exists
      /\ pc = "claim" => obj.manager = Nobody
  BY <1>2, ReleaseAssumption
<1>4. /\ UNCHANGED <<api, secrets, cache, unseen, register, budget>>
      /\ queue' = [queue EXCEPT ![o] = @ \ {h}]
      /\ work' = IF pc = "idle" THEN work ELSE [work EXCEPT ![o][h] = frame]
  BY DEF Take
<1>5. frame.pc = pc /\ frame.obj = obj /\ frame \in Work
  <2>1. pc \in WorkSteps
    BY <1>3 DEF WorkSteps
  <2> HIDE DEF pc
  <2> QED BY <1>2, <2>1 DEF NoWork, Work
<1> HIDE DEF frame, pc
<1>6. work' \in [Operator -> [HelmRelease -> Work]]
  BY <1>1, <1>4, <1>5 DEF ReleaseTypeOK
<1>7. ReleaseTypeOK'
  BY <1>1, <1>4, <1>6 DEF ReleaseTypeOK
<1>8. WorkForm
  <2>1. ASSUME NEW p \in Operator, NEW g \in HelmRelease
        PROVE  work'[p][g] = work[p][g] \/ (p = o /\ g = h /\ pc # "idle" /\ work'[p][g] = frame)
    BY <1>1, <1>4 DEF ReleaseTypeOK
  <2> QED BY <1>3, <1>5, <2>1 DEF WorkForm, Same
<1> QED BY <1>4, <1>7, <1>8, NothingWritten DEF StepForm

\* A claim is taken only from a copy of the latest version, and then there is no manager.
LEMMA ClaimStep ==
  ASSUME ReleaseInv, NEW o \in Operator, NEW h \in HelmRelease, Claim(o, h)
  PROVE  StepForm
<1> DEFINE frame == work[o][h]
           new   == [frame.obj EXCEPT !.manager = o]
<1>1. /\ frame.pc \in {"claim", "claim_again"}
      /\ Accepts(h, frame.obj)
      /\ Update(h, new)
      /\ Continue(o, h, AfterClaim(frame.pc), frame)
      /\ UNCHANGED <<secrets, cache, unseen, register, budget>>
  BY DEF Claim
<1>2. /\ frame.pc # "idle"
      /\ frame \in Work /\ frame.obj \in CustomResource
      /\ frame.obj.exists /\ frame.obj.key \in ReleaseKey
      /\ Agrees(frame.obj, h)
  BY <1>1, FrameSound
<1>3. frame.obj.manager = Nobody
  BY <1>1 DEF ReleaseInv, ClaimsAreFree
<1>4. api[h].manager = Nobody
  BY <1>1, <1>2, <1>3 DEF Accepts, Agrees
<1>5. new \in CustomResource /\ new.exists /\ new.key \in ReleaseKey
  BY <1>2 DEF CustomResource
<1>6. AfterClaim(frame.pc) \in WorkSteps
  BY DEF AfterClaim, WorkSteps
<1>7. Same(frame.obj, work[o][h].obj)
  BY DEF Same
<1> HIDE DEF new, frame
<1>8. api' \in [HelmRelease -> CustomResource] /\ ApiForm
  BY <1>1, <1>4, <1>5, UpdateForm
<1> USE DEF frame
<1>9. /\ work' \in [Operator -> [HelmRelease -> Work]]
      /\ queue' \in [Operator -> SUBSET HelmRelease]
      /\ WorkForm
  BY <1>1, <1>2, <1>3, <1>6, <1>7, GoesOn
<1>10. ReleaseTypeOK'
  BY <1>1, <1>8, <1>9 DEF ReleaseInv, ReleaseTypeOK
<1>11. CacheForm
  BY <1>1 DEF CacheForm, Same
<1> QED BY <1>8, <1>9, <1>10, <1>11 DEF StepForm

\* Last brings the state of the release into the frame and the cached object.
LEMMA LastStep ==
  ASSUME ReleaseInv, NEW o \in Operator, NEW h \in HelmRelease, Last(o, h)
  PROVE  StepForm
<1> DEFINE frame == work[o][h]
           found == secrets[frame.obj.key]
<1>1. frame.pc = "last" /\ UNCHANGED <<api, secrets, unseen, register, budget>>
  BY DEF Last
<1>2. /\ frame \in Work /\ frame.obj \in CustomResource
      /\ frame.obj.exists /\ frame.obj.key \in ReleaseKey
  BY <1>1, FrameSound
<1>3. found \in Release \cup {NoRelease} /\ found \in Report
  BY <1>2, ReportType DEF ReleaseInv, ReleaseTypeOK
<1>4. ASSUME NEW new \in Work, NEW pc \in {"delete", "status"}, Continue(o, h, pc, new),
             Same(new.obj, frame.obj)
      PROVE  /\ work' \in [Operator -> [HelmRelease -> Work]]
             /\ queue' \in [Operator -> SUBSET HelmRelease]
             /\ WorkForm
  BY <1>1, <1>4, GoesOn DEF WorkSteps
<1>5. CASE found = NoRelease
  <2> DEFINE new == [frame EXCEPT !.release = NoRelease]
  <2>1. Continue(o, h, "delete", new) /\ UNCHANGED cache
    BY <1>5 DEF Last
  <2>2. new \in Work /\ Same(new.obj, frame.obj)
    BY <1>2 DEF Work, Same
  <2> HIDE DEF new
  <2>3. /\ work' \in [Operator -> [HelmRelease -> Work]]
        /\ queue' \in [Operator -> SUBSET HelmRelease]
        /\ WorkForm
    BY <1>4, <2>1, <2>2
  <2>4. ReleaseTypeOK'
    BY <1>1, <2>1, <2>3 DEF ReleaseInv, ReleaseTypeOK
  <2> QED BY <1>1, <2>1, <2>3, <2>4, NothingWritten DEF StepForm
<1>6. CASE found # NoRelease
  <2> DEFINE new == [frame EXCEPT !.release = found, !.obj.status = found]
  <2>1. Continue(o, h, "status", new) /\ AssignStatus(o, h, frame.obj, found)
    BY <1>6 DEF Last
  <2>2. new \in Work /\ Same(new.obj, frame.obj)
    BY <1>2, <1>3 DEF Work, Same, CustomResource
  <2> HIDE DEF new
  <2>3. /\ work' \in [Operator -> [HelmRelease -> Work]]
        /\ queue' \in [Operator -> SUBSET HelmRelease]
        /\ WorkForm
    BY <1>4, <2>1, <2>2
  <2>4. /\ cache' \in [Operator -> [HelmRelease -> CustomResource]]
        /\ CacheForm
    BY <1>3, <2>1, AssignStatusForm DEF CacheForm, ReleaseInv
  <2>5. ReleaseTypeOK'
    BY <1>1, <2>3, <2>4 DEF ReleaseInv, ReleaseTypeOK
  <2> QED BY <1>1, <2>3, <2>4, <2>5 DEF StepForm, ApiForm
<1> QED BY <1>5, <1>6

\* A step of a worker that only concerns its frame, the queue and the register.
LEMMA LocalStep ==
  ASSUME ReleaseInv, NEW o \in Operator, NEW h \in HelmRelease, work[o][h].pc # "idle",
         NEW pc \in {"idle", "claim_again", "finalize", "unfinalize"}, NEW frame \in Work,
         Continue(o, h, pc, frame), frame.obj = work[o][h].obj,
         pc = "claim_again" => work[o][h].pc \in {"claim", "claim_again"},
         register' \in [Operator -> [ReleaseKey -> Entry]],
         UNCHANGED <<api, secrets, cache, unseen, budget>>
  PROVE  StepForm
<1>1. pc \in WorkSteps
  BY DEF WorkSteps
<1>2. pc \in {"claim", "claim_again"} => frame.obj.manager = Nobody
  BY DEF ReleaseInv, ClaimsAreFree
<1>3. Same(frame.obj, work[o][h].obj)
  BY DEF Same
<1>4. /\ work' \in [Operator -> [HelmRelease -> Work]]
      /\ queue' \in [Operator -> SUBSET HelmRelease]
      /\ WorkForm
  BY <1>1, <1>2, <1>3, GoesOn
<1>5. ReleaseTypeOK'
  BY <1>4 DEF ReleaseInv, ReleaseTypeOK
<1> QED BY <1>4, <1>5, NothingWritten DEF StepForm

\* The first handler ends with an error, and the second one goes on.
LEMMA LastFailsStep ==
  ASSUME ReleaseInv, NEW o \in Operator, NEW h \in HelmRelease, LastFails(o, h)
  PROVE  StepForm
<1> DEFINE new == [work[o][h] EXCEPT !.failed = TRUE]
<1>1. /\ work[o][h].pc = "last"
      /\ Continue(o, h, AddFinalizerTo(work[o][h].obj), new)
      /\ UNCHANGED <<api, secrets, cache, unseen, register, budget>>
  BY DEF LastFails
<1>2. new \in Work /\ new.obj = work[o][h].obj
  BY <1>1, FrameSound DEF Work
<1>3. AddFinalizerTo(work[o][h].obj) \in {"idle", "finalize"}
  BY DEF AddFinalizerTo
<1>4. register' \in [Operator -> [ReleaseKey -> Entry]]
  BY <1>1 DEF ReleaseInv, ReleaseTypeOK
<1> HIDE DEF new
<1> QED BY <1>1, <1>2, <1>3, <1>4, LocalStep

\* The register loses the set of a release that is not found.
LEMMA CallDeleteStep ==
  ASSUME ReleaseInv, NEW o \in Operator, NEW h \in HelmRelease, CallDelete(o, h)
  PROVE  StepForm
<1> DEFINE frame == work[o][h]
           new   == [frame EXCEPT !.obj.status = NoRelease]
<1>1. /\ frame.pc = "delete"
      /\ register' = [register EXCEPT ![o][frame.obj.key] = Untracked]
      /\ Continue(o, h, "status", new)
      /\ AssignStatus(o, h, frame.obj, NoRelease)
      /\ UNCHANGED <<api, secrets, unseen, budget>>
  BY DEF CallDelete
<1>2. /\ frame \in Work /\ frame.obj \in CustomResource
      /\ frame.obj.key \in ReleaseKey
  BY <1>1, FrameSound
<1>3. new \in Work /\ Same(new.obj, frame.obj)
  BY <1>2, ReportType DEF Work, Same, CustomResource
<1>4. register' \in [Operator -> [ReleaseKey -> Entry]]
  <2>1. Untracked \in Entry
    BY DEF Untracked, Entry
  <2> QED BY <1>1, <1>2, <2>1 DEF ReleaseInv, ReleaseTypeOK
<1>5. /\ cache' \in [Operator -> [HelmRelease -> CustomResource]]
      /\ CacheForm
  BY <1>1, ReportType, AssignStatusForm DEF CacheForm, ReleaseInv
<1> HIDE DEF new
<1>6. /\ work' \in [Operator -> [HelmRelease -> Work]]
      /\ queue' \in [Operator -> SUBSET HelmRelease]
      /\ WorkForm
  BY <1>1, <1>3, GoesOn DEF WorkSteps
<1>7. ReleaseTypeOK'
  BY <1>1, <1>4, <1>5, <1>6 DEF ReleaseInv, ReleaseTypeOK
<1> QED BY <1>1, <1>5, <1>6, <1>7 DEF StepForm, ApiForm

\* UpdateStatus leaves everything but the status and the version as it is.
LEMMA ReportStatusStep ==
  ASSUME ReleaseInv, NEW o \in Operator, NEW h \in HelmRelease, ReportStatus(o, h)
  PROVE  StepForm
<1> DEFINE frame == work[o][h]
           sent  == [api[h] EXCEPT !.status = frame.obj.status]
           obj   == WithStatus(h, frame.obj.status)
           new   == [frame EXCEPT !.obj = obj]
           pc    == IF frame.release = NoRelease THEN AddFinalizerTo(obj) ELSE "register"
<1>1. /\ frame.pc = "status"
      /\ Accepts(h, frame.obj)
      /\ api' = [api EXCEPT ![h] = obj]
      /\ Continue(o, h, pc, new)
      /\ UNCHANGED <<secrets, cache, unseen, register, budget>>
  BY DEF ReportStatus
<1>2. frame \in Work /\ frame.obj \in CustomResource
  BY <1>1, FrameSound
<1>3. /\ api \in [HelmRelease -> CustomResource] /\ api[h] \in CustomResource
      /\ Sound(api[h]) /\ api[h].exists
  BY <1>1 DEF ReleaseInv, ReleaseTypeOK, ObjectsSound, Accepts
<1>4. /\ sent \in CustomResource
      /\ sent.exists /\ sent.key = api[h].key /\ sent.manager = api[h].manager
  BY <1>2, <1>3 DEF CustomResource
<1>5. obj = Stored(h, sent)
  BY DEF WithStatus
<1> HIDE DEF obj, sent
<1>6. /\ obj \in CustomResource
      /\ obj = api[h] \/ obj = [sent EXCEPT !.version = api[h].version + 1]
  BY <1>3, <1>4, <1>5, StoredForm
<1>7. obj.exists /\
        (obj = api[h] \/ (/\ obj.version = api[h].version + 1
                         /\ Sound(obj)
                         /\ obj.manager = api[h].manager))
  BY <1>3, <1>4, <1>6 DEF CustomResource, Sound
<1>8. api' \in [HelmRelease -> CustomResource] /\ api'[h] = obj /\ ApiForm
  BY <1>1, <1>6, <1>7, WriteForm
<1>9. new \in Work /\ new.obj = obj
  BY <1>2, <1>6 DEF Work
<1>10. pc \in {"idle", "finalize", "register"}
  BY DEF AddFinalizerTo
<1> HIDE DEF new, pc
<1>11. pc \in WorkSteps /\ Same(new.obj, api'[h]) /\ new.obj.exists
  BY <1>7, <1>8, <1>9, <1>10 DEF WorkSteps, Same
<1>12. /\ work' \in [Operator -> [HelmRelease -> Work]]
       /\ queue' \in [Operator -> SUBSET HelmRelease]
       /\ WorkForm
  BY <1>1, <1>9, <1>10, <1>11, GoesOn
<1>13. ReleaseTypeOK'
  BY <1>1, <1>8, <1>12 DEF ReleaseInv, ReleaseTypeOK
<1>14. CacheForm
  BY <1>1 DEF CacheForm, Same
<1> QED BY <1>8, <1>12, <1>13, <1>14 DEF StepForm

\* The register gets a set of objects.
LEMMA CallSetStep ==
  ASSUME ReleaseInv, NEW o \in Operator, NEW h \in HelmRelease, CallSet(o, h)
  PROVE  StepForm
<1> DEFINE frame == work[o][h]
           os    == Parse(frame.release.manifest)
<1>1. /\ frame.pc = "register"
      /\ Locked(frame.release)
      /\ register' = [register EXCEPT ![o][frame.obj.key] = Tracking(os)]
      /\ Continue(o, h, AddFinalizerTo(frame.obj), frame)
      /\ UNCHANGED <<api, secrets, cache, unseen, budget>>
  BY DEF CallSet
<1>2. frame \in Work /\ frame.obj.key \in ReleaseKey
  BY <1>1, FrameSound
<1>3. os \in SUBSET Object
  <2>1. frame.release \in Release \cup {NoRelease}
    BY <1>2 DEF Work
  <2> QED BY <1>1, <2>1, LockedIsFound, ParseTracksObjects
<1> HIDE DEF os
<1>4. register' \in [Operator -> [ReleaseKey -> Entry]]
  <2>1. Tracking(os) \in Entry
    BY <1>3 DEF Tracking, Entry
  <2> QED BY <1>1, <1>2, <2>1 DEF ReleaseInv, ReleaseTypeOK
<1>5. AddFinalizerTo(frame.obj) \in {"idle", "finalize"}
  BY DEF AddFinalizerTo
<1> QED BY <1>1, <1>2, <1>4, <1>5, LocalStep

\* Unlock marks what the register has.
LEMMA CallUnlockStep ==
  ASSUME ReleaseInv, NEW o \in Operator, NEW h \in HelmRelease, CallUnlock(o, h)
  PROVE  StepForm
<1> DEFINE frame == work[o][h]
           key   == frame.obj.key
           entry == [register[o][key] EXCEPT !.unlocked = register[o][key].tracked]
<1>1. /\ frame.pc = "register"
      /\ register' = [register EXCEPT ![o][key] = entry]
      /\ Continue(o, h, AddFinalizerTo(frame.obj), frame)
      /\ UNCHANGED <<api, secrets, cache, unseen, budget>>
  BY DEF CallUnlock
<1>2. frame \in Work /\ key \in ReleaseKey
  BY <1>1, FrameSound
<1>3. register \in [Operator -> [ReleaseKey -> Entry]] /\ register[o][key] \in Entry
  BY <1>2 DEF ReleaseInv, ReleaseTypeOK
<1>4. entry \in Entry
  BY <1>3 DEF Entry
<1> HIDE DEF entry
<1>5. register' \in [Operator -> [ReleaseKey -> Entry]]
  BY <1>1, <1>2, <1>3, <1>4
<1>6. AddFinalizerTo(frame.obj) \in {"idle", "finalize"}
  BY DEF AddFinalizerTo
<1> QED BY <1>1, <1>2, <1>5, <1>6, LocalStep

\* The update of the finalizer carries the manager of the version that it replaces.
LEMMA AddFinalizerStep ==
  ASSUME ReleaseInv, NEW o \in Operator, NEW h \in HelmRelease, AddFinalizer(o, h)
  PROVE  StepForm
<1> DEFINE frame == work[o][h]
           new   == [frame.obj EXCEPT !.finalizer = TRUE]
<1>1. /\ frame.pc = "finalize"
      /\ Accepts(h, frame.obj)
      /\ Update(h, new)
      /\ Continue(o, h, "idle", frame)
      /\ UNCHANGED <<secrets, cache, unseen, register, budget>>
  BY DEF AddFinalizer
<1>2. /\ frame \in Work /\ frame.obj \in CustomResource
      /\ frame.obj.exists /\ frame.obj.key \in ReleaseKey
      /\ Agrees(frame.obj, h)
  BY <1>1, FrameSound
<1>3. frame.obj.manager = api[h].manager
  BY <1>1, <1>2 DEF Accepts, Agrees
<1>4. /\ new \in CustomResource /\ new.exists /\ new.key \in ReleaseKey
      /\ new.manager = api[h].manager
  BY <1>2, <1>3 DEF CustomResource
<1> HIDE DEF new
<1>5. api' \in [HelmRelease -> CustomResource] /\ ApiForm
  BY <1>1, <1>4, UpdateForm
<1>6. /\ work' \in [Operator -> [HelmRelease -> Work]]
      /\ queue' \in [Operator -> SUBSET HelmRelease]
      /\ WorkForm
  BY <1>1, <1>2, GoesOn DEF WorkSteps, Same
<1>7. ReleaseTypeOK'
  BY <1>1, <1>5, <1>6 DEF ReleaseInv, ReleaseTypeOK
<1>8. CacheForm
  BY <1>1 DEF CacheForm, Same
<1> QED BY <1>5, <1>6, <1>7, <1>8 DEF StepForm

\* The removal of a HelmRelease with nothing to delete.
LEMMA SkipRemoveStep ==
  ASSUME ReleaseInv, NEW o \in Operator, NEW h \in HelmRelease, SkipRemove(o, h)
  PROVE  StepForm
<1>1. /\ work[o][h].pc = "remove"
      /\ Continue(o, h, "unfinalize", work[o][h])
      /\ UNCHANGED <<api, secrets, cache, unseen, register, budget>>
  BY DEF SkipRemove
<1>2. work[o][h] \in Work
  BY <1>1, FrameSound
<1>3. register' \in [Operator -> [ReleaseKey -> Entry]]
  BY <1>1 DEF ReleaseInv, ReleaseTypeOK
<1> QED BY <1>1, <1>2, <1>3, LocalStep

\* The removal of any other HelmRelease.
LEMMA CallRemoveStep ==
  ASSUME ReleaseInv, NEW o \in Operator, NEW h \in HelmRelease, CallRemove(o, h)
  PROVE  StepForm
<1>1. /\ work[o][h].pc = "remove"
      /\ register' = [register EXCEPT ![o][work[o][h].obj.key] = Untracked]
      /\ Continue(o, h, "unfinalize", work[o][h])
      /\ UNCHANGED <<api, secrets, cache, unseen, budget>>
  BY DEF CallRemove
<1>2. work[o][h] \in Work /\ work[o][h].obj.key \in ReleaseKey
  BY <1>1, FrameSound
<1>3. register' \in [Operator -> [ReleaseKey -> Entry]]
  <2>1. Untracked \in Entry
    BY DEF Untracked, Entry
  <2> QED BY <1>1, <1>2, <2>1 DEF ReleaseInv, ReleaseTypeOK
<1> QED BY <1>1, <1>2, <1>3, LocalStep

\* A HelmRelease that disappears gives up its manager.
LEMMA MissingForm ==
  ASSUME ReleaseInv, NEW h \in HelmRelease, api' = [api EXCEPT ![h] = Missing(api[h].version + 1)]
  PROVE  api' \in [HelmRelease -> CustomResource] /\ ApiForm
<1> DEFINE new == Missing(api[h].version + 1)
<1>1. api[h].version + 1 \in Nat
  BY DEF ReleaseInv, ReleaseTypeOK, CustomResource
<1>2. new \in CustomResource
  BY <1>1, MissingType
<1>3. new.version = api[h].version + 1 /\ Sound(new) /\ new.manager = Nobody
  BY DEF Missing, Sound
<1> HIDE DEF new
<1>4. api' = [api EXCEPT ![h] = new]
  BY DEF new
<1> QED BY <1>2, <1>3, <1>4, WriteForm

\* The HelmRelease disappears with its manager.
LEMMA RemoveFinalizerStep ==
  ASSUME ReleaseInv, NEW o \in Operator, NEW h \in HelmRelease, RemoveFinalizer(o, h)
  PROVE  StepForm
<1>1. /\ work[o][h].pc = "unfinalize"
      /\ api' = [api EXCEPT ![h] = Missing(api[h].version + 1)]
      /\ Continue(o, h, "idle", work[o][h])
      /\ UNCHANGED <<secrets, cache, unseen, register, budget>>
  BY DEF RemoveFinalizer
<1>2. work[o][h] \in Work
  BY <1>1, FrameSound
<1>3. api' \in [HelmRelease -> CustomResource] /\ ApiForm
  BY <1>1, MissingForm
<1>4. /\ work' \in [Operator -> [HelmRelease -> Work]]
      /\ queue' \in [Operator -> SUBSET HelmRelease]
      /\ WorkForm
  BY <1>1, <1>2, GoesOn DEF WorkSteps, Same
<1>5. ReleaseTypeOK'
  BY <1>1, <1>3, <1>4 DEF ReleaseInv, ReleaseTypeOK
<1>6. CacheForm
  BY <1>1 DEF CacheForm, Same
<1> QED BY <1>3, <1>4, <1>5, <1>6 DEF StepForm

\* Both a conflict and any other error of a request.
LEMMA RequestFailsStep ==
  ASSUME ReleaseInv, NEW o \in Operator, NEW h \in HelmRelease, RequestFails(o, h)
  PROVE  StepForm
<1> DEFINE frame == work[o][h]
           new   == [frame EXCEPT !.failed = TRUE]
           pc    == CASE frame.pc = "status" -> AddFinalizerTo(frame.obj)
                      [] OTHER -> AfterClaim(frame.pc)
<1>1. /\ frame.pc \in {"claim", "claim_again", "status", "finalize", "unfinalize"}
      /\ Continue(o, h, pc, new)
      /\ UNCHANGED <<api, secrets, cache, unseen, register, budget>>
  BY DEF RequestFails
<1>2. new \in Work /\ new.obj = frame.obj
  BY <1>1, FrameSound DEF Work
<1>3. /\ pc \in {"idle", "claim_again", "finalize"}
      /\ pc = "claim_again" => frame.pc = "claim"
  BY <1>1 DEF AddFinalizerTo, AfterClaim
<1>4. register' \in [Operator -> [ReleaseKey -> Entry]]
  BY <1>1 DEF ReleaseInv, ReleaseTypeOK
<1> HIDE DEF new, pc
<1> QED BY <1>1, <1>2, <1>3, <1>4, LocalStep

-----------------------------------------------------------------------------
\* The informer copies what the API server has.
LEMMA ObserveStep ==
  ASSUME ReleaseInv, NEW o \in Operator, NEW h \in HelmRelease, Observe(o, h)
  PROVE  StepForm
<1>1. /\ cache' = [cache EXCEPT ![o][h] = api[h]]
      /\ queue' = [queue EXCEPT ![o] = @ \cup {h}]
      /\ UNCHANGED <<api, secrets, unseen, work, register, budget>>
  BY DEF Observe
<1>2. ReleaseTypeOK
  BY DEF ReleaseInv
<1>3. ReleaseTypeOK'
  BY <1>1, <1>2 DEF ReleaseTypeOK
<1>4. CacheForm
  BY <1>1, <1>2 DEF ReleaseTypeOK, CacheForm, Same
<1> QED BY <1>1, <1>3, <1>4 DEF StepForm, ApiForm, WorkForm

\* A release secret queues HelmReleases.
LEMMA SecretChangeStep ==
  ASSUME ReleaseInv, NEW o \in Operator, NEW key \in ReleaseKey, SecretChange(o, key)
  PROVE  StepForm
<1>1. /\ unseen' = [unseen EXCEPT ![o] = @ \ {key}]
      /\ queue' = [queue EXCEPT ![o] = @ \cup Indexed(o, key)]
      /\ UNCHANGED <<api, secrets, cache, work, register, budget>>
  BY DEF SecretChange
<1>2. Indexed(o, key) \in SUBSET HelmRelease
  BY DEF Indexed
<1>3. ReleaseTypeOK'
  BY <1>1, <1>2 DEF ReleaseInv, ReleaseTypeOK
<1> QED BY <1>1, <1>3, NothingWritten DEF StepForm, WorkForm

\* Helm does not touch HelmReleases.
LEMMA ChangeSecretStep ==
  ASSUME ReleaseInv, NEW key \in ReleaseKey, NEW release \in History[key] \cup {NoRelease},
         ChangeSecret(key, release)
  PROVE  StepForm
<1>1. /\ Spend({"changes"})
      /\ secrets' = [secrets EXCEPT ![key] = release]
      /\ unseen' = [o \in Operator |-> unseen[o] \cup {key}]
      /\ UNCHANGED <<api, cache, queue, work, register>>
  BY DEF ChangeSecret
<1>2. release \in Release \cup {NoRelease}
  BY ReleaseAssumption
<1>3. ReleaseTypeOK
  BY DEF ReleaseInv
<1>4. ReleaseTypeOK'
  BY <1>1, <1>2, <1>3, SpendType DEF ReleaseTypeOK
<1> QED BY <1>1, <1>4, NothingWritten DEF StepForm, WorkForm

\* What users do to a HelmRelease is a write of it.
LEMMA UserWrites ==
  ASSUME ReleaseInv, api' \in [HelmRelease -> CustomResource], ApiForm,
         \/ budget' = budget
         \/ \E what \in SUBSET {"creates", "retargets", "changes"} : Spend(what),
         UNCHANGED <<secrets, cache, unseen, queue, work, register>>
  PROVE  StepForm
<1>1. ReleaseTypeOK
  BY DEF ReleaseInv
<1>2. ReleaseTypeOK'
  BY <1>1, SpendType DEF ReleaseTypeOK
<1>3. CacheForm
  BY DEF CacheForm, Same
<1>4. WorkForm
  BY DEF WorkForm
<1> QED BY <1>2, <1>3, <1>4 DEF StepForm

\* A new HelmRelease has no manager.
LEMMA CreateStep ==
  ASSUME ReleaseInv, NEW h \in HelmRelease, NEW key \in ReleaseKey, Create(h, key)
  PROVE  StepForm
<1> DEFINE none == Missing(api[h].version + 1)
           new  == [none EXCEPT !.exists = TRUE, !.key = key]
<1>1. /\ Spend({"creates"})
      /\ api' = [api EXCEPT ![h] = new]
      /\ UNCHANGED <<secrets, cache, unseen, queue, work, register>>
  BY DEF Create
<1>2. api[h].version + 1 \in Nat
  BY DEF ReleaseInv, ReleaseTypeOK, CustomResource
<1>3. /\ none \in CustomResource
      /\ none.version = api[h].version + 1
      /\ none.manager = Nobody
  BY <1>2, MissingType DEF Missing
<1> HIDE DEF none
<1>4. /\ new \in CustomResource /\ new.version = api[h].version + 1
      /\ Sound(new) /\ new.manager = Nobody
  BY <1>3 DEF CustomResource, Sound
<1> HIDE DEF new
<1>5. api' \in [HelmRelease -> CustomResource] /\ ApiForm
  BY <1>1, <1>4, WriteForm
<1> QED BY <1>1, <1>5, UserWrites

\* A user who edits spec.release leaves the manager.
LEMMA RetargetStep ==
  ASSUME ReleaseInv, NEW h \in HelmRelease, NEW key \in ReleaseKey, Retarget(h, key)
  PROVE  StepForm
<1> DEFINE new == [api[h] EXCEPT !.key = key, !.version = @ + 1]
<1>1. /\ api[h].exists
      /\ Spend({"changes", "retargets"})
      /\ api' = [api EXCEPT ![h].key = key, ![h].version = @ + 1]
      /\ UNCHANGED <<secrets, cache, unseen, queue, work, register>>
  BY DEF Retarget
<1>2. api \in [HelmRelease -> CustomResource] /\ api[h] \in CustomResource
  BY DEF ReleaseInv, ReleaseTypeOK
<1>3. api' = [api EXCEPT ![h] = new]
  BY <1>1, <1>2 DEF CustomResource
<1>4. /\ new \in CustomResource /\ new.version = api[h].version + 1
      /\ Sound(new) /\ new.manager = api[h].manager
  BY <1>1, <1>2 DEF CustomResource, Sound
<1> HIDE DEF new
<1>5. api' \in [HelmRelease -> CustomResource] /\ ApiForm
  BY <1>3, <1>4, WriteForm
<1> QED BY <1>1, <1>5, UserWrites

\* A user deletes a HelmRelease, with its manager or for its manager to finish.
LEMMA DeleteStep ==
  ASSUME ReleaseInv, NEW h \in HelmRelease, Delete(h)
  PROVE  StepForm
<1> DEFINE new == [api[h] EXCEPT !.deleting = TRUE, !.version = @ + 1]
<1>1. /\ api[h].exists
      /\ api' = [api EXCEPT ![h] = IF api[h].finalizer THEN new ELSE Missing(api[h].version + 1)]
      /\ UNCHANGED <<secrets, cache, unseen, queue, work, register, budget>>
  BY DEF Delete
<1>2. /\ new \in CustomResource /\ new.version = api[h].version + 1
      /\ Sound(new) /\ new.manager = api[h].manager
  <2>1. api[h] \in CustomResource /\ Sound(api[h])
    BY DEF ReleaseInv, ReleaseTypeOK, ObjectsSound
  <2>2. new \in CustomResource
    <3> DEFINE marked == [api[h] EXCEPT !.deleting = TRUE]
    <3>1. marked \in CustomResource /\ marked.version = api[h].version
      BY <2>1 DEF CustomResource
    <3>2. new = [marked EXCEPT !.version = @ + 1]
      BY <2>1, <3>1 DEF CustomResource
    <3> HIDE DEF marked, new
    <3> QED BY <3>1, <3>2 DEF CustomResource
  <2>3. /\ new.version = api[h].version + 1
        /\ new.key = api[h].key /\ new.manager = api[h].manager
    BY <2>1 DEF CustomResource
  <2> QED BY <1>1, <2>1, <2>2, <2>3 DEF Sound
<1> HIDE DEF new
<1>3. api' \in [HelmRelease -> CustomResource] /\ ApiForm
  BY <1>1, <1>2, WriteForm, MissingForm
<1> QED BY <1>1, <1>3, UserWrites

-----------------------------------------------------------------------------
\* Every step has the form.
LEMMA EveryStep ==
  ASSUME ReleaseInv, ReleaseNext
  PROVE  StepForm
<1>1. ASSUME NEW o \in Operator, NEW h \in HelmRelease, QuietStep(o, h)
      PROVE  StepForm
  BY <1>1, TakeStep, ClaimStep, LastStep, ReportStatusStep, AddFinalizerStep, SkipRemoveStep,
     RemoveFinalizerStep, RequestFailsStep DEF QuietStep, Conflict
<1>2. ASSUME NEW o \in Operator, NEW h \in HelmRelease, WorkStep(o, h)
      PROVE  StepForm
  BY <1>1, <1>2, CallDeleteStep, CallSetStep, CallUnlockStep, CallRemoveStep DEF WorkStep
<1>3. ASSUME NEW o \in Operator, NEW h \in HelmRelease, Failure(o, h)
      PROVE  StepForm
  BY <1>3, LastFailsStep, RequestFailsStep DEF Failure, OtherFailure
<1>4. CASE User
  BY <1>4, CreateStep, RetargetStep, DeleteStep DEF User
<1>5. CASE Helm
  BY <1>5, ChangeSecretStep DEF Helm
<1> QED BY <1>2, <1>3, <1>4, <1>5, ObserveStep, SecretChangeStep DEF ReleaseNext

\* No operator has seen or claimed anything.
LEMMA ReleaseInitInv == ReleaseInit => ReleaseInv
<1> SUFFICES ASSUME ReleaseInit PROVE ReleaseInv
  OBVIOUS
<1>1. Missing(0) \in CustomResource /\ Sound(Missing(0)) /\ Missing(0).manager = Nobody
  BY MissingType DEF Missing, Sound
<1>2. NoWork \in Work /\ NoWork.pc = "idle"
  BY <1>1 DEF NoWork, Work, WorkSteps
<1>3. Untracked \in Entry
  BY DEF Untracked, Entry
<1>4. ReleaseTypeOK
  BY <1>1, <1>2, <1>3, ReleaseAssumption DEF ReleaseInit, ReleaseTypeOK
<1>5. CopiesAgree
  BY <1>1, <1>2, <1>4 DEF ReleaseInit, CopiesAgree, Agrees, Missing
<1>6. ObjectsSound
  BY <1>1, <1>2 DEF ReleaseInit, ObjectsSound
<1>7. ClaimsAreFree
  BY <1>2 DEF ReleaseInit, ClaimsAreFree
<1> QED BY <1>4, <1>5, <1>6, <1>7 DEF ReleaseInv

\* The invariant is inductive.
LEMMA ReleaseNextInv == ReleaseInv /\ [ReleaseNext]_releaseVars => ReleaseInv'
<1>1. ASSUME ReleaseInv, ReleaseNext
      PROVE  ReleaseInv'
  BY <1>1, EveryStep, StepInv
<1>2. ASSUME ReleaseInv, UNCHANGED releaseVars
      PROVE  ReleaseInv'
  BY <1>2 DEF ReleaseInv, ReleaseTypeOK, CopiesAgree, Agrees, ObjectsSound, ClaimsAreFree,
     releaseVars
<1> QED BY <1>1, <1>2

\* Type correctness for any number of operators and HelmReleases: what Last returns, what Parse
\* makes of it and what Set puts into the register are releases and sets of objects.
THEOREM ReleaseTypeCorrect == ReleaseSpec => []ReleaseTypeOK
<1>1. ReleaseSpec => []ReleaseInv
  BY ReleaseInitInv, ReleaseNextInv, PTL DEF ReleaseSpec
<1>2. ReleaseInv => ReleaseTypeOK
  BY DEF ReleaseInv
<1> QED BY <1>1, <1>2, PTL

\* A step of the controller is a step of the claims, or changes none.
LEMMA StepClaims ==
  ASSUME ReleaseInv, StepForm
  PROVE  [Claims!Next]_([h \in HelmRelease |-> api[h].manager])
<1> DEFINE owner == [h \in HelmRelease |-> api[h].manager]
<1>1. CASE api' = api
  BY <1>1
<1>2. ASSUME NEW h \in HelmRelease, Written(h)
      PROVE  [Claims!Next]_owner
  <2> DEFINE old == api[h].manager
             new == api'[h].manager
             Owned(o) == {g \in HelmRelease : api[g].manager = o}
  <2>1. /\ \A g \in HelmRelease \ {h} : api'[g].manager = api[g].manager
        /\ new = old \/ Nobody \in {old, new}
    BY <1>2 DEF Written
  <2>2. old \in Operator \cup {Nobody} /\ new \in Operator \cup {Nobody}
    BY DEF ReleaseInv, StepForm, ReleaseTypeOK, CustomResource
  <2>3. CASE new = old
    <3>1. owner' = owner
      BY <2>1, <2>3
    <3> QED BY <3>1
  <2>4. ASSUME NEW o \in Operator, NEW taken \in SUBSET HelmRelease,
               \/ old = Nobody /\ new = o /\ taken = Owned(o) \cup {h}
               \/ old = o /\ new = Nobody /\ taken = Owned(o) \ {h}
        PROVE  Claims!Next
    <3>1. Claims!Take(o, taken)
      BY <2>1, <2>4, ReleaseAssumption DEF Claims!Take
    <3> QED BY <3>1 DEF Claims!Next
  <2>5. CASE new # old
    <3>1. \E o \in Operator, taken \in SUBSET HelmRelease :
            \/ old = Nobody /\ new = o /\ taken = Owned(o) \cup {h}
            \/ old = o /\ new = Nobody /\ taken = Owned(o) \ {h}
      BY <2>1, <2>2, <2>5
    <3> QED BY <2>4, <3>1
  <2> QED BY <2>3, <2>5
<1> QED BY <1>1, <1>2 DEF StepForm, ApiForm

\* The release controllers implement exclusive ownership: however many operators claim the same
\* HelmRelease from stale copies, a manager is only set where there is none.
THEOREM ReleasesImplementOwnership == ReleaseSpec => ClaimSpec
<1>1. ReleaseInit => Claims!Init
  BY DEF ReleaseInit, Claims!Init, Missing
<1>2. ReleaseInv /\ [ReleaseNext]_releaseVars
        => [Claims!Next]_([h \in HelmRelease |-> api[h].manager])
  <2>1. ASSUME UNCHANGED releaseVars
        PROVE  UNCHANGED [h \in HelmRelease |-> api[h].manager]
    BY <2>1 DEF releaseVars
  <2> QED BY <2>1, EveryStep, StepClaims
<1> QED BY <1>1, <1>2, ReleaseInitInv, ReleaseNextInv, PTL DEF ReleaseSpec, ClaimSpec, Claims!Spec
=============================================================================
