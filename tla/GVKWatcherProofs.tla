-------------------------- MODULE GVKWatcherProofs --------------------------
(***************************************************************************)
(* Proofs about the watcher of kinds, for any number of kinds, threads and *)
(* failures.                                                               *)
(***************************************************************************)
EXTENDS GVKWatcher, TLAPS

\* Whoever is past the lock holds it.
Exclusive == \A t \in Thread : call[t].pc \in {"loop", "start"} => lock = t

\* A kind that was asked for is registered and, once the watcher has started, is taken care of or is
\* on the list of a thread that is at work.
OnSomeList(gvk) ==
  \E t \in Thread : call[t].pc \in {"loop", "start"} /\ gvk \in call[t].todo

Remembered ==
  /\ asked \subseteq gvkRegistered
  /\ started => \A gvk \in asked : gvk \in gvkStarted \cup refused \/ OnSomeList(gvk)

\* A call of Watch has a kind.  A kind whose controller is being started has a handler, and has not
\* been started before.
ArgumentsOK ==
  \A t \in Thread :
    /\ call[t].pc = "lock" /\ call[t].op = "watch" => call[t].gvk \in GVK
    /\ call[t].pc = "start" => /\ call[t].gvk \in GVK \ gvkStarted
                               /\ handlers[call[t].gvk] > 0

\* Every handler is accounted for: by a failed start, or by the start that worked or is under way.
BeingStarted(gvk) == \E t \in Thread : call[t].pc = "start" /\ call[t].gvk = gvk

HandlersAccounted ==
  \A gvk \in GVK :
    /\ handlers[gvk] <= 1 + failures[gvk]
    /\ gvk \notin gvkStarted /\ ~ BeingStarted(gvk) => handlers[gvk] <= failures[gvk]

WatcherInv ==
  /\ WatcherTypeOK
  /\ Exclusive
  /\ Remembered
  /\ StartedIsRunning
  /\ ArgumentsOK
  /\ HandlersAccounted

\* The initial state satisfies the invariant.
LEMMA WatcherInvInit == WatcherInit => WatcherInv
<1> SUFFICES ASSUME WatcherInit PROVE WatcherInv
  OBVIOUS
<1>1. WatcherTypeOK
  BY DEF WatcherTypeOK, Frame, Operations, WatcherInit, Idle
<1>2. Exclusive /\ Remembered /\ StartedIsRunning /\ ArgumentsOK
  BY DEF Exclusive, Remembered, StartedIsRunning, ArgumentsOK, WatcherInit, Idle
<1>3. HandlersAccounted
  <2> SUFFICES ASSUME NEW gvk \in GVK
               PROVE  handlers[gvk] <= 1 + failures[gvk] /\ handlers[gvk] <= failures[gvk]
    BY DEF HandlersAccounted
  <2>1. handlers[gvk] = 0 /\ failures[gvk] = 0
    BY DEF WatcherInit
  <2> QED BY <2>1
<1> QED BY <1>1, <1>2, <1>3 DEF WatcherInv

\* Every step leaves the types as they are.
LEMMA TypeStep ==
  ASSUME WatcherTypeOK, ArgumentsOK, [WatcherNext]_watcherVars
  PROVE  WatcherTypeOK'
<1>1. ASSUME NEW t \in Thread, NEW frame \in Frame, call' = [call EXCEPT ![t] = frame]
      PROVE  call' \in [Thread -> Frame]
  BY <1>1 DEF WatcherTypeOK
<1>2. \A t \in Thread : call[t] \in Frame
  BY DEF WatcherTypeOK
<1>3. ASSUME NEW t \in Thread, CallStart(t) PROVE WatcherTypeOK'
  <2> DEFINE frame == [Idle EXCEPT !.op = "start", !.pc = "lock"]
  <2>1. frame \in Frame
    BY DEF Frame, Idle, Operations
  <2>2. call' = [call EXCEPT ![t] = frame]
    BY <1>3 DEF CallStart, Call
  <2>3. call' \in [Thread -> Frame]
    BY <1>1, <2>1, <2>2
  <2> QED BY <1>3, <2>3 DEF WatcherTypeOK, CallStart, Call
<1>4. ASSUME NEW t \in Thread, NEW gvk \in GVK, CallWatch(t, gvk) PROVE WatcherTypeOK'
  <2> DEFINE frame == [Idle EXCEPT !.op = "watch", !.pc = "lock", !.gvk = gvk]
  <2>1. frame \in Frame
    BY DEF Frame, Idle, Operations
  <2>2. call' = [call EXCEPT ![t] = frame]
    BY <1>4 DEF CallWatch, Call
  <2>3. call' \in [Thread -> Frame]
    BY <1>1, <2>1, <2>2
  <2> QED BY <1>4, <2>3 DEF WatcherTypeOK, CallWatch, Call
<1>5. ASSUME NEW t \in Thread, Watch(t) PROVE WatcherTypeOK'
  <2> DEFINE frame == [call[t] EXCEPT !.pc = "loop", !.gvk = NoKind, !.todo = {call[t].gvk}]
  <2>1. frame \in Frame
    BY <1>2, <1>5 DEF WatcherTypeOK, Frame, ArgumentsOK, Watch
  <2>2. call' = [call EXCEPT ![t] = frame]
    BY <1>5 DEF Watch
  <2>3. call' \in [Thread -> Frame]
    BY <1>1, <2>1, <2>2
  <2>4. call[t].gvk \in GVK
    BY <1>5 DEF ArgumentsOK, Watch
  <2> QED BY <1>5, <2>3, <2>4 DEF WatcherTypeOK, Watch
<1>6. ASSUME NEW t \in Thread, Start(t) PROVE WatcherTypeOK'
  <2> DEFINE frame == [call[t] EXCEPT !.pc = "loop", !.todo = gvkRegistered]
  <2>1. frame \in Frame
    BY <1>2, <1>6 DEF WatcherTypeOK, Frame
  <2>2. call' = [call EXCEPT ![t] = frame]
    BY <1>6 DEF Start
  <2>3. call' \in [Thread -> Frame]
    BY <1>1, <2>1, <2>2
  <2> QED BY <1>6, <2>3 DEF WatcherTypeOK, Start
<1>7. ASSUME NEW t \in Thread, Return(t) PROVE WatcherTypeOK'
  <2> DEFINE frame == Idle
  <2>1. frame \in Frame
    BY DEF Frame, Idle, Operations
  <2>2. call' = [call EXCEPT ![t] = frame]
    BY <1>7 DEF Return
  <2>3. call' \in [Thread -> Frame]
    BY <1>1, <2>1, <2>2
  <2> QED BY <1>7, <2>3 DEF WatcherTypeOK, Return
<1>8. ASSUME NEW t \in Thread, NEW gvk \in GVK, SkipKind(t, gvk) PROVE WatcherTypeOK'
  <2> DEFINE frame == [call[t] EXCEPT !.todo = @ \ {gvk}]
  <2>1. frame \in Frame
    BY <1>2, <1>8 DEF WatcherTypeOK, Frame
  <2>2. call' = [call EXCEPT ![t] = frame]
    BY <1>8 DEF SkipKind
  <2>3. call' \in [Thread -> Frame]
    BY <1>1, <2>1, <2>2
  <2> QED BY <1>8, <2>3 DEF WatcherTypeOK, SkipKind
<1>9. ASSUME NEW t \in Thread, NEW gvk \in GVK, ForKindFails(t, gvk) PROVE WatcherTypeOK'
  <2> DEFINE frame == [call[t] EXCEPT !.todo = @ \ {gvk}]
  <2>1. frame \in Frame
    BY <1>2, <1>9 DEF WatcherTypeOK, Frame
  <2>2. call' = [call EXCEPT ![t] = frame]
    BY <1>9 DEF ForKindFails, Starting
  <2>3. call' \in [Thread -> Frame]
    BY <1>1, <2>1, <2>2
  <2> QED BY <1>9, <2>3 DEF WatcherTypeOK, ForKindFails, Starting
<1>10. ASSUME NEW t \in Thread, NEW gvk \in GVK, RegisterHandler(t, gvk) PROVE WatcherTypeOK'
  <2> DEFINE frame == [call[t] EXCEPT !.pc = "start", !.gvk = gvk]
  <2>1. frame \in Frame
    BY <1>2, <1>10 DEF WatcherTypeOK, Frame
  <2>2. call' = [call EXCEPT ![t] = frame]
    BY <1>10 DEF RegisterHandler, Starting
  <2>3. call' \in [Thread -> Frame]
    BY <1>1, <2>1, <2>2
  <2> QED BY <1>10, <2>3 DEF WatcherTypeOK, RegisterHandler, Starting
<1>11. ASSUME NEW t \in Thread, StartController(t) PROVE WatcherTypeOK'
  <2> DEFINE frame == [call[t] EXCEPT !.pc = "loop", !.gvk = NoKind, !.todo = @ \ {call[t].gvk}]
  <2>1. frame \in Frame
    BY <1>2, <1>11 DEF WatcherTypeOK, Frame, ArgumentsOK, StartController, Done
  <2>2. call' = [call EXCEPT ![t] = frame]
    BY <1>11 DEF StartController, Done
  <2>3. call' \in [Thread -> Frame]
    BY <1>1, <2>1, <2>2
  <2>4. call[t].gvk \in GVK
    BY <1>11 DEF ArgumentsOK, StartController, Done
  <2> QED BY <1>11, <2>3, <2>4 DEF WatcherTypeOK, StartController, Done
<1>12. ASSUME NEW t \in Thread, StartFails(t) PROVE WatcherTypeOK'
  <2> DEFINE frame == [call[t] EXCEPT !.pc = "loop", !.gvk = NoKind, !.todo = @ \ {call[t].gvk}]
  <2>1. frame \in Frame
    BY <1>2, <1>12 DEF WatcherTypeOK, Frame, ArgumentsOK, StartFails, Done
  <2>2. call' = [call EXCEPT ![t] = frame]
    BY <1>12 DEF StartFails, Done
  <2>3. call' \in [Thread -> Frame]
    BY <1>1, <2>1, <2>2
  <2>4. call[t].gvk \in GVK
    BY <1>12 DEF ArgumentsOK, StartFails, Done
  <2> QED BY <1>12, <2>3, <2>4 DEF WatcherTypeOK, StartFails, Done
<1>13. CASE UNCHANGED watcherVars
  BY <1>13 DEF WatcherTypeOK, watcherVars
<1> QED
  BY <1>3, <1>4, <1>5, <1>6, <1>7, <1>8, <1>9, <1>10, <1>11, <1>12, <1>13 DEF WatcherNext, GoOn

\* Every step keeps the invariant.
LEMMA WatcherInvStep ==
  ASSUME WatcherInv, [WatcherNext]_watcherVars
  PROVE  WatcherInv'
<1>1. WatcherTypeOK'
  BY TypeStep DEF WatcherInv
<1>2. ASSUME NEW t \in Thread, CallStart(t) PROVE WatcherInv'
  <2>1. /\ call[t].pc = "idle" /\ call'[t].pc = "lock" /\ call'[t].op = "start"
        /\ \A u \in Thread \ {t} : call'[u] = call[u]
    BY <1>2 DEF WatcherInv, WatcherTypeOK, Frame, CallStart, Call, Idle
  <2>2. Exclusive'
    BY <1>2, <2>1 DEF WatcherInv, WatcherTypeOK, Exclusive, CallStart, Call, Idle
  <2>3. Remembered'
    BY <1>2, <2>1 DEF WatcherInv, Remembered, OnSomeList, ArgumentsOK, CallStart, Call, Idle
  <2>4. StartedIsRunning' /\ ArgumentsOK'
    BY <1>2, <2>1 DEF WatcherInv, WatcherTypeOK, Exclusive, StartedIsRunning, ArgumentsOK, CallStart, Call, Idle
  <2>5. HandlersAccounted'
    BY <1>2, <2>1 DEF WatcherInv, WatcherTypeOK, Exclusive, ArgumentsOK, HandlersAccounted, BeingStarted, CallStart, Call, Idle
  <2> QED BY <1>1, <2>2, <2>3, <2>4, <2>5 DEF WatcherInv
<1>3. ASSUME NEW t \in Thread, NEW gvk \in GVK, CallWatch(t, gvk) PROVE WatcherInv'
  <2>1. /\ call[t].pc = "idle" /\ call'[t].pc = "lock" /\ call'[t].gvk = gvk
        /\ \A u \in Thread \ {t} : call'[u] = call[u]
    BY <1>3 DEF WatcherInv, WatcherTypeOK, Frame, CallWatch, Call, Idle
  <2>2. Exclusive'
    BY <1>3, <2>1 DEF WatcherInv, WatcherTypeOK, Exclusive, CallWatch, Call, Idle
  <2>3. Remembered'
    BY <1>3, <2>1 DEF WatcherInv, Remembered, OnSomeList, ArgumentsOK, CallWatch, Call, Idle
  <2>4. StartedIsRunning' /\ ArgumentsOK'
    BY <1>3, <2>1 DEF WatcherInv, WatcherTypeOK, Exclusive, StartedIsRunning, ArgumentsOK, CallWatch, Call, Idle
  <2>5. HandlersAccounted'
    BY <1>3, <2>1 DEF WatcherInv, WatcherTypeOK, Exclusive, ArgumentsOK, HandlersAccounted, BeingStarted, CallWatch, Call, Idle
  <2> QED BY <1>1, <2>2, <2>3, <2>4, <2>5 DEF WatcherInv
<1>4. ASSUME NEW t \in Thread, Watch(t) PROVE WatcherInv'
  <2>1. /\ call[t].pc = "lock" /\ call'[t].pc = "loop" /\ call'[t].todo = {call[t].gvk}
        /\ \A u \in Thread \ {t} : call'[u] = call[u]
    BY <1>4 DEF WatcherInv, WatcherTypeOK, Frame, Watch
  <2>2. Exclusive'
    BY <1>4, <2>1, WatcherAssumption DEF WatcherInv, WatcherTypeOK, Exclusive, Watch
  <2>3. Remembered'
    BY <1>4, <2>1 DEF WatcherInv, Remembered, OnSomeList, ArgumentsOK, Watch
  <2>4. StartedIsRunning' /\ ArgumentsOK'
    BY <1>4, <2>1 DEF WatcherInv, WatcherTypeOK, Exclusive, StartedIsRunning, ArgumentsOK, Watch
  <2>5. HandlersAccounted'
    BY <1>4, <2>1 DEF WatcherInv, WatcherTypeOK, Exclusive, ArgumentsOK, HandlersAccounted, BeingStarted, Watch
  <2> QED BY <1>1, <2>2, <2>3, <2>4, <2>5 DEF WatcherInv
<1>5. ASSUME NEW t \in Thread, Start(t) PROVE WatcherInv'
  <2>1. /\ call[t].pc = "lock" /\ call'[t].pc = "loop" /\ call'[t].todo = gvkRegistered
        /\ \A u \in Thread \ {t} : call'[u] = call[u]
    BY <1>5 DEF WatcherInv, WatcherTypeOK, Frame, Start
  <2>2. Exclusive'
    BY <1>5, <2>1, WatcherAssumption DEF WatcherInv, WatcherTypeOK, Exclusive, Start
  <2>3. Remembered'
    BY <1>5, <2>1 DEF WatcherInv, Remembered, OnSomeList, ArgumentsOK, Start
  <2>4. StartedIsRunning' /\ ArgumentsOK'
    BY <1>5, <2>1 DEF WatcherInv, WatcherTypeOK, Exclusive, StartedIsRunning, ArgumentsOK, Start
  <2>5. HandlersAccounted'
    BY <1>5, <2>1 DEF WatcherInv, WatcherTypeOK, Exclusive, ArgumentsOK, HandlersAccounted, BeingStarted, Start
  <2> QED BY <1>1, <2>2, <2>3, <2>4, <2>5 DEF WatcherInv
<1>6. ASSUME NEW t \in Thread, NEW gvk \in GVK, SkipKind(t, gvk) PROVE WatcherInv'
  <2>1. /\ call[t].pc = "loop" /\ call'[t].pc = "loop" /\ call'[t].todo = call[t].todo \ {gvk}
        /\ \A u \in Thread \ {t} : call'[u] = call[u]
    BY <1>6 DEF WatcherInv, WatcherTypeOK, Frame, SkipKind, AlreadyStarted
  <2>2. Exclusive'
    BY <1>6, <2>1 DEF WatcherInv, WatcherTypeOK, Exclusive, SkipKind, AlreadyStarted
  <2>3. Remembered'
    BY <1>6, <2>1 DEF WatcherInv, Remembered, OnSomeList, ArgumentsOK, SkipKind, AlreadyStarted
  <2>4. StartedIsRunning' /\ ArgumentsOK'
    BY <1>6, <2>1 DEF WatcherInv, WatcherTypeOK, Exclusive, StartedIsRunning, ArgumentsOK, SkipKind, AlreadyStarted
  <2>5. HandlersAccounted'
    BY <1>6, <2>1 DEF WatcherInv, WatcherTypeOK, Exclusive, ArgumentsOK, HandlersAccounted, BeingStarted, SkipKind, AlreadyStarted
  <2> QED BY <1>1, <2>2, <2>3, <2>4, <2>5 DEF WatcherInv
<1>7. ASSUME NEW t \in Thread, NEW gvk \in GVK, ForKindFails(t, gvk) PROVE WatcherInv'
  <2>1. /\ call[t].pc = "loop" /\ call'[t].pc = "loop" /\ call'[t].todo = call[t].todo \ {gvk}
        /\ \A u \in Thread \ {t} : call'[u] = call[u]
    BY <1>7 DEF WatcherInv, WatcherTypeOK, Frame, ForKindFails, Starting, AlreadyStarted
  <2>2. Exclusive'
    BY <1>7, <2>1 DEF WatcherInv, WatcherTypeOK, Exclusive, ForKindFails, Starting, AlreadyStarted
  <2>3. Remembered'
    BY <1>7, <2>1 DEF WatcherInv, Remembered, OnSomeList, ArgumentsOK, ForKindFails, Starting, AlreadyStarted
  <2>4. StartedIsRunning' /\ ArgumentsOK'
    BY <1>7, <2>1 DEF WatcherInv, WatcherTypeOK, Exclusive, StartedIsRunning, ArgumentsOK, ForKindFails, Starting, AlreadyStarted
  <2>5. HandlersAccounted'
    BY <1>7, <2>1 DEF WatcherInv, WatcherTypeOK, Exclusive, ArgumentsOK, HandlersAccounted, BeingStarted, ForKindFails, Starting, AlreadyStarted
  <2> QED BY <1>1, <2>2, <2>3, <2>4, <2>5 DEF WatcherInv
<1>8. ASSUME NEW t \in Thread, NEW gvk \in GVK, RegisterHandler(t, gvk) PROVE WatcherInv'
  <2>1. /\ call[t].pc = "loop" /\ call'[t].pc = "start" /\ call'[t].gvk = gvk /\ call'[t].todo = call[t].todo
        /\ \A u \in Thread \ {t} : call'[u] = call[u]
    BY <1>8 DEF WatcherInv, WatcherTypeOK, Frame, RegisterHandler, Starting, AlreadyStarted
  <2>2. Exclusive'
    BY <1>8, <2>1 DEF WatcherInv, WatcherTypeOK, Exclusive, RegisterHandler, Starting, AlreadyStarted
  <2>3. Remembered'
    BY <1>8, <2>1 DEF WatcherInv, Remembered, OnSomeList, ArgumentsOK, RegisterHandler, Starting, AlreadyStarted
  <2>4. StartedIsRunning' /\ ArgumentsOK'
    BY <1>8, <2>1 DEF WatcherInv, WatcherTypeOK, Exclusive, StartedIsRunning, ArgumentsOK, RegisterHandler, Starting, AlreadyStarted
  <2>5. HandlersAccounted'
    BY <1>8, <2>1 DEF WatcherInv, WatcherTypeOK, Exclusive, ArgumentsOK, HandlersAccounted, BeingStarted, RegisterHandler, Starting, AlreadyStarted
  <2> QED BY <1>1, <2>2, <2>3, <2>4, <2>5 DEF WatcherInv
<1>9. ASSUME NEW t \in Thread, StartController(t) PROVE WatcherInv'
  <2>1. /\ call[t].pc = "start" /\ call'[t].pc = "loop" /\ call'[t].todo = call[t].todo \ {call[t].gvk}
        /\ \A u \in Thread \ {t} : call'[u] = call[u]
    BY <1>9 DEF WatcherInv, WatcherTypeOK, Frame, StartController, Done
  <2>2. Exclusive'
    BY <1>9, <2>1 DEF WatcherInv, WatcherTypeOK, Exclusive, StartController, Done
  <2>3. Remembered'
    BY <1>9, <2>1 DEF WatcherInv, Remembered, OnSomeList, ArgumentsOK, StartController, Done
  <2>4. StartedIsRunning' /\ ArgumentsOK'
    BY <1>9, <2>1 DEF WatcherInv, WatcherTypeOK, Exclusive, StartedIsRunning, ArgumentsOK, StartController, Done
  <2>5. HandlersAccounted'
    BY <1>9, <2>1 DEF WatcherInv, WatcherTypeOK, Exclusive, ArgumentsOK, HandlersAccounted, BeingStarted, StartController, Done
  <2> QED BY <1>1, <2>2, <2>3, <2>4, <2>5 DEF WatcherInv
<1>10. ASSUME NEW t \in Thread, StartFails(t) PROVE WatcherInv'
  <2>1. /\ call[t].pc = "start" /\ call'[t].pc = "loop" /\ call'[t].todo = call[t].todo \ {call[t].gvk}
        /\ \A u \in Thread \ {t} : call'[u] = call[u]
    BY <1>10 DEF WatcherInv, WatcherTypeOK, Frame, StartFails, Done
  <2>2. Exclusive'
    BY <1>10, <2>1 DEF WatcherInv, WatcherTypeOK, Exclusive, StartFails, Done
  <2>3. Remembered'
    BY <1>10, <2>1 DEF WatcherInv, Remembered, OnSomeList, ArgumentsOK, StartFails, Done
  <2>4. StartedIsRunning' /\ ArgumentsOK'
    BY <1>10, <2>1 DEF WatcherInv, WatcherTypeOK, Exclusive, StartedIsRunning, ArgumentsOK, StartFails, Done
  <2>5. HandlersAccounted'
    BY <1>10, <2>1 DEF WatcherInv, WatcherTypeOK, Exclusive, ArgumentsOK, HandlersAccounted, BeingStarted, StartFails, Done
  <2> QED BY <1>1, <2>2, <2>3, <2>4, <2>5 DEF WatcherInv
<1>11. ASSUME NEW t \in Thread, Return(t) PROVE WatcherInv'
  <2>1. /\ call[t].pc = "loop" /\ call[t].todo = {} /\ call'[t].pc = "idle"
        /\ \A u \in Thread \ {t} : call'[u] = call[u]
    BY <1>11 DEF WatcherInv, WatcherTypeOK, Frame, Return, Idle
  <2>2. Exclusive'
    BY <1>11, <2>1 DEF WatcherInv, WatcherTypeOK, Exclusive, Return, Idle
  <2>3. Remembered'
    BY <1>11, <2>1 DEF WatcherInv, Remembered, OnSomeList, ArgumentsOK, Return, Idle
  <2>4. StartedIsRunning' /\ ArgumentsOK'
    BY <1>11, <2>1 DEF WatcherInv, WatcherTypeOK, Exclusive, StartedIsRunning, ArgumentsOK, Return, Idle
  <2>5. HandlersAccounted'
    BY <1>11, <2>1 DEF WatcherInv, WatcherTypeOK, Exclusive, ArgumentsOK, HandlersAccounted, BeingStarted, Return, Idle
  <2> QED BY <1>1, <2>2, <2>3, <2>4, <2>5 DEF WatcherInv
<1>12. CASE UNCHANGED watcherVars
  BY <1>1, <1>12 DEF WatcherInv, watcherVars, Exclusive, Remembered, OnSomeList, StartedIsRunning,
                     ArgumentsOK, HandlersAccounted, BeingStarted
<1> QED
  BY <1>2, <1>3, <1>4, <1>5, <1>6, <1>7, <1>8, <1>9, <1>10, <1>11, <1>12 DEF WatcherNext, GoOn

\* The invariant holds of every behaviour.
LEMMA WatcherInvCorrect == WatcherSpec => []WatcherInv
BY WatcherInvInit, WatcherInvStep, PTL DEF WatcherSpec

\* The state of the watcher is well formed, whatever Watch and Start are called for.
THEOREM WatcherTypeCorrect == WatcherSpec => []WatcherTypeOK
<1>1. WatcherInv => WatcherTypeOK
  BY DEF WatcherInv
<1> QED BY WatcherInvCorrect, <1>1, PTL

\* The promise of Watch: a kind that was asked for before Start is taken care of by Start, and one
\* that was asked for later by Watch itself, so that only failures leave a kind unwatched.
THEOREM NoForgottenWatchCorrect == WatcherSpec => []NoForgottenWatch
<1>1. WatcherInv => NoForgottenWatch
  BY WatcherAssumption DEF WatcherInv, Remembered, OnSomeList, Exclusive, NoForgottenWatch
<1> QED BY WatcherInvCorrect, <1>1, PTL

\* Every kind that counts as started delivers its changes, because startGVK registers the handler
\* before it starts the controller.
THEOREM StartedIsRunningCorrect == WatcherSpec => []StartedIsRunning
<1>1. WatcherInv => StartedIsRunning
  BY DEF WatcherInv
<1> QED BY WatcherInvCorrect, <1>1, PTL

\* However many goroutines watch a kind, its controller has one handler more than its starts have
\* failed at most.
THEOREM OneHandlerPerAttemptCorrect == WatcherSpec => []OneHandlerPerAttempt
<1>1. WatcherInv => OneHandlerPerAttempt
  BY DEF WatcherInv, HandlersAccounted, OneHandlerPerAttempt
<1> QED BY WatcherInvCorrect, <1>1, PTL
=============================================================================
