----------------------------- MODULE GVKWatcher -----------------------------
(***************************************************************************)
(* The Watcher of pkg/gvk/gvk.go.  Watch asks for the changes of a kind;   *)
(* before Start it only registers the kind, and Start makes up for that.   *)
(* Both hold the watcher's lock until every controller they start has      *)
(* filled its cache.                                                       *)
(*                                                                         *)
(* The controllers come from lasso's shared controller factory, modelled   *)
(* from what the comment in startGVK says of it: a controller is empty     *)
(* until a handler is registered with it, and starting an empty one has no *)
(* effect.                                                                 *)
(***************************************************************************)
EXTENDS Naturals

CONSTANTS
  GVK,           \* kinds of Kubernetes resources
  Thread,        \* goroutines that call the watcher
  NoThread,      \* nobody holds the watcher's lock
  NoKind,        \* no kind is being started
  UnknownGVK,    \* kinds that ForKind may not find
  FlakyGVK,      \* kinds whose controller may fail to start
  HangingGVK,    \* kinds whose cache may never fill
  MaxFailures    \* bound: failed starts of the controller of one kind

ASSUME WatcherAssumption ==
  /\ NoThread \notin Thread
  /\ NoKind \notin GVK
  /\ UnknownGVK \subseteq GVK /\ FlakyGVK \subseteq GVK /\ HangingGVK \subseteq GVK
  /\ MaxFailures \in Nat

VARIABLES
  gvkRegistered,   \* the kinds that are to be watched
  gvkStarted,      \* the kinds whose controller has been started
  started,         \* Start has been called
  lock,            \* the thread that holds the watcher's lock
  call,            \* the frame of each thread
  handlers,        \* how many related-resource handlers the controller of a kind has
  running,         \* the kinds whose changes arrive at their handlers
  asked,           \* history: the kinds that Watch has been called for
  refused,         \* history: the kinds that the last attempt to start ended in an error for
  failures         \* history: how often the controller of a kind failed to start

watcherVars == <<gvkRegistered, gvkStarted, started, lock, call, handlers, running,
                 asked, refused, failures>>

-----------------------------------------------------------------------------
Operations == {"none", "watch", "start"}

\* todo are the kinds that startGVK has yet to be called for, gvk is the one it is at work on.
Frame == [op : Operations, pc : {"idle", "lock", "loop", "start"},
          gvk : GVK \cup {NoKind}, todo : SUBSET GVK]

Idle == [op |-> "none", pc |-> "idle", gvk |-> NoKind, todo |-> {}]

WatcherTypeOK ==
  /\ gvkRegistered \subseteq GVK
  /\ gvkStarted \subseteq GVK
  /\ started \in BOOLEAN
  /\ lock \in Thread \cup {NoThread}
  /\ call \in [Thread -> Frame]
  /\ handlers \in [GVK -> Nat]
  /\ running \subseteq GVK
  /\ asked \subseteq GVK
  /\ refused \subseteq GVK
  /\ failures \in [GVK -> Nat]

WatcherInit ==
  /\ gvkRegistered = {}
  /\ gvkStarted = {}
  /\ started = FALSE
  /\ lock = NoThread
  /\ call = [t \in Thread |-> Idle]
  /\ handlers = [gvk \in GVK |-> 0]
  /\ running = {}
  /\ asked = {}
  /\ refused = {}
  /\ failures = [gvk \in GVK |-> 0]

-----------------------------------------------------------------------------
Call(t, frame) ==
  /\ call[t].pc = "idle"
  /\ call' = [call EXCEPT ![t] = frame]
  /\ UNCHANGED <<gvkRegistered, gvkStarted, started, lock, handlers, running,
                 asked, refused, failures>>

CallWatch(t, gvk) == Call(t, [Idle EXCEPT !.op = "watch", !.pc = "lock", !.gvk = gvk])

CallStart(t) == Call(t, [Idle EXCEPT !.op = "start", !.pc = "lock"])

\* Mutants: Watch registers a kind after it has dropped its argument, or does not register a kind
\* that cannot be started yet.
Watch_NoArgument(t) ==
  LET gvk == call[t].gvk
  IN  /\ call[t].pc = "lock" /\ call[t].op = "watch"
      /\ lock = NoThread
      /\ lock' = t
      /\ call' = [call EXCEPT ![t].pc = "loop", ![t].gvk = NoKind, ![t].todo = {gvk}]
      /\ gvkRegistered' = gvkRegistered \cup {call'[t].gvk}
      /\ asked' = asked \cup {gvk}
      /\ UNCHANGED <<gvkStarted, started, handlers, running, refused, failures>>

Watch_NotRegistered(t) ==
  LET gvk == call[t].gvk
  IN  /\ call[t].pc = "lock" /\ call[t].op = "watch"
      /\ lock = NoThread
      /\ lock' = t
      /\ gvkRegistered' = IF started THEN gvkRegistered \cup {gvk} ELSE gvkRegistered
      /\ asked' = asked \cup {gvk}
      /\ call' = [call EXCEPT ![t].pc = "loop", ![t].gvk = NoKind, ![t].todo = {gvk}]
      /\ UNCHANGED <<gvkStarted, started, handlers, running, refused, failures>>

\* Watch, with the lock: the kind is registered, and startGVK is called for it.
Watch(t) ==
  LET gvk == call[t].gvk
  IN  /\ call[t].pc = "lock" /\ call[t].op = "watch"
      /\ lock = NoThread
      /\ lock' = t
      /\ gvkRegistered' = gvkRegistered \cup {gvk}
      /\ asked' = asked \cup {gvk}
      /\ call' = [call EXCEPT ![t].pc = "loop", ![t].gvk = NoKind, ![t].todo = {gvk}]
      /\ UNCHANGED <<gvkStarted, started, handlers, running, refused, failures>>

\* Start, with the lock: startGVK is called for everything registered so far.
Start(t) ==
  /\ call[t].pc = "lock" /\ call[t].op = "start"
  /\ lock = NoThread
  /\ lock' = t
  /\ started' = TRUE
  /\ call' = [call EXCEPT ![t].pc = "loop", ![t].todo = gvkRegistered]
  /\ UNCHANGED <<gvkRegistered, gvkStarted, handlers, running, asked, refused, failures>>

-----------------------------------------------------------------------------
\* Mutant: startGVK does not look whether the kind was started.
AlreadyStarted_Never(gvk) == FALSE

AlreadyStarted(gvk) == gvk \in gvkStarted

\* startGVK returns early: the watcher has not started, or the kind has.
SkipKind(t, gvk) ==
  /\ call[t].pc = "loop"
  /\ gvk \in call[t].todo
  /\ ~ started \/ AlreadyStarted(gvk)
  /\ call' = [call EXCEPT ![t].todo = @ \ {gvk}]
  /\ UNCHANGED <<gvkRegistered, gvkStarted, started, lock, handlers, running,
                 asked, refused, failures>>

\* startGVK goes to work on the kind.
Starting(t, gvk) ==
  /\ call[t].pc = "loop"
  /\ gvk \in call[t].todo
  /\ started
  /\ ~ AlreadyStarted(gvk)

\* The factory has no controller for the kind.  Start goes on with the next kind.
ForKindFails(t, gvk) ==
  /\ Starting(t, gvk)
  /\ gvk \in UnknownGVK
  /\ refused' = refused \cup {gvk}
  /\ call' = [call EXCEPT ![t].todo = @ \ {gvk}]
  /\ UNCHANGED <<gvkRegistered, gvkStarted, started, lock, handlers, running, asked, failures>>

\* Mutant: the controller is started before the handler is registered.
RegisterHandler_AfterStart(t, gvk) ==
  /\ Starting(t, gvk)
  /\ running' = IF handlers[gvk] > 0 THEN running \cup {gvk} ELSE running
  /\ handlers' = [handlers EXCEPT ![gvk] = @ + 1]
  /\ gvkStarted' = gvkStarted \cup {gvk}
  /\ call' = [call EXCEPT ![t].todo = @ \ {gvk}]
  /\ UNCHANGED <<gvkRegistered, started, lock, asked, refused, failures>>

\* relatedresource.Watch: one more handler on the controller of the kind.
RegisterHandler(t, gvk) ==
  /\ Starting(t, gvk)
  /\ handlers' = [handlers EXCEPT ![gvk] = @ + 1]
  /\ call' = [call EXCEPT ![t].pc = "start", ![t].gvk = gvk]
  /\ UNCHANGED <<gvkRegistered, gvkStarted, started, lock, running, asked, refused, failures>>

\* The thread is done with its kind.
Done(t) ==
  /\ call[t].pc = "start"
  /\ call' = [call EXCEPT ![t].pc = "loop", ![t].gvk = NoKind, ![t].todo = @ \ {call[t].gvk}]

\* The controller starts, which takes until its cache is filled.
StartController(t) ==
  LET gvk == call[t].gvk
  IN  /\ Done(t)
      /\ running' = IF handlers[gvk] > 0 THEN running \cup {gvk} ELSE running
      /\ gvkStarted' = gvkStarted \cup {gvk}
      /\ refused' = refused \ {gvk}
      /\ UNCHANGED <<gvkRegistered, started, lock, handlers, asked, failures>>

\* The controller fails to start; the handler stays registered.
StartFails(t) ==
  LET gvk == call[t].gvk
  IN  /\ Done(t)
      /\ gvk \in FlakyGVK
      /\ failures[gvk] < MaxFailures
      /\ failures' = [failures EXCEPT ![gvk] = @ + 1]
      /\ refused' = refused \cup {gvk}
      /\ UNCHANGED <<gvkRegistered, gvkStarted, started, lock, handlers, running, asked>>

\* Mutant: the lock is not released when a kind could not be started.
Return_KeepsLock(t) ==
  /\ call[t].pc = "loop"
  /\ call[t].todo = {}
  /\ lock' = IF refused = {} THEN NoThread ELSE lock
  /\ call' = [call EXCEPT ![t] = Idle]
  /\ UNCHANGED <<gvkRegistered, gvkStarted, started, handlers, running,
                 asked, refused, failures>>

Return(t) ==
  /\ call[t].pc = "loop"
  /\ call[t].todo = {}
  /\ lock' = NoThread
  /\ call' = [call EXCEPT ![t] = Idle]
  /\ UNCHANGED <<gvkRegistered, gvkStarted, started, handlers, running,
                 asked, refused, failures>>

-----------------------------------------------------------------------------
\* What a call does without waiting for the cluster.
GoOn(t) ==
  \/ Watch(t) \/ Start(t) \/ Return(t)
  \/ \E gvk \in GVK : SkipKind(t, gvk) \/ ForKindFails(t, gvk) \/ RegisterHandler(t, gvk)

WatcherNext ==
  \E t \in Thread :
    \/ CallStart(t)
    \/ \E gvk \in GVK : CallWatch(t, gvk)
    \/ GoOn(t)
    \/ StartController(t)
    \/ StartFails(t)

\* Goroutines run on, and the lock serves its waiters in turn; the cache of a kind fills,
\* unless the kind hangs.
WatcherFairness ==
  \A t \in Thread :
    /\ SF_watcherVars(GoOn(t))
    /\ WF_watcherVars(call[t].gvk \notin HangingGVK /\ StartController(t))

WatcherSpec == WatcherInit /\ [][WatcherNext]_watcherVars /\ WatcherFairness

-----------------------------------------------------------------------------
\* No watch is forgotten: when the watcher has started and nobody is at work in it, every kind
\* that Watch was ever called for is watched, or the last attempt to do so has failed ("if the
\* Watcher has not started yet, watching will be deferred till the first Start call is made").
NoForgottenWatch ==
  started /\ lock = NoThread => asked \subseteq gvkStarted \cup refused

\* A kind that counts as started, and is not tried again, really delivers its changes: its
\* controller had a handler when it was started ("calling relatedresource.Watch before
\* gvkController.Start is important").
StartedIsRunning == gvkStarted \subseteq running

\* A change is handled once: a second handler on the controller of a kind comes from a failed
\* start only, however often and by whomever Watch and Start are called.
OneHandlerPerAttempt == \A gvk \in GVK : handlers[gvk] <= 1 + failures[gvk]

\* Nobody waits for the watcher for ever, failed starts or not, except behind a kind whose cache
\* does not fill (Watch and Start hold the lock meanwhile).
WatcherReturns ==
  \A t \in Thread :
    call[t].pc # "idle" ~>
      \/ call[t].pc = "idle"
      \/ \E u \in Thread : call[u].pc = "start" /\ call[u].gvk \in HangingGVK
=============================================================================
