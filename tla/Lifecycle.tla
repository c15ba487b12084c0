------------------------------ MODULE Lifecycle ------------------------------
(***************************************************************************)
(* The goroutines of one applier process and how they stop: runServe and   *)
(* startRunnables (cmd/main.go), the discovery refresher, leadership.Start *)
(* with client-go's elector, the OnStartedLeading callback, runControllers *)
(* with its watcher, and the controllers.  Goroutines are scheduled freely *)
(* and contexts are canceled by any of them.  When the Lease is fresh is a *)
(* matter of Leadership; here the gate may go stale at any time.           *)
(***************************************************************************)
CONSTANT Controllers   \* the Runnables given to leadership.New

ASSUME ControllersAssumption == Controllers # {}

VARIABLES
    signaled,    \* SIGINT or SIGTERM: signal.NotifyContext is canceled
    main,        \* "setup", "opened", "serving", "waiting", "joined", "exited"
    store,       \* the Redis client: "none", "open", "closed"
    canceled,    \* contexts whose CancelFunc was called
    refresher,   \* Refresher.Start: "none", "running", "returned"
    start,       \* Start: "none", "electing", "awaiting", "deciding", "releasing", "returned"
    elector,     \* elector.Run: "none", "acquire", "attempt", "renew", "returned"
    led,         \* trackingLock.everSucceeded
    callback,    \* OnStartedLeading: "none", "scheduled", "running", "joined", "sent"
    controller,  \* their Start: "none", "running", "returned"
    failed,      \* controllers that returned an error
    watcher,     \* "none", "running", "returned"
    handed,      \* has releaseLease written the expired record?
    errs,        \* what startRunnables collected
    exit         \* what runServe returned: "none", "nil", "error"

mainVars == <<main, store, refresher, exit>>
startVars == <<start, handed, errs>>
electVars == <<elector, led>>
controllerVars == <<controller, failed, watcher>>
vars == <<signaled, canceled, mainVars, startVars, electVars, callback, controllerVars>>

\* Each context also ends with its parent.  client-go cancels the context of
\* OnStartedLeading when Run returns.
RunDone == signaled \/ "run" \in canceled
ElectionDone == RunDone \/ "election" \in canceled
LeaderDone == ElectionDone \/ elector = "returned"
ControllersDone == LeaderDone \/ "controllers" \in canceled

Returned == \A c \in Controllers : controller[c] = "returned"

-----------------------------------------------------------------------------
(***************************************************************************)
(* runServe and startRunnables                                             *)
(***************************************************************************)

Signal ==
    /\ ~signaled
    /\ main # "exited"
    /\ signaled' = TRUE
    /\ UNCHANGED <<canceled, mainVars, startVars, electVars, callback, controllerVars>>

\* Configuration, clients or the PING fail; a canceled PING always does.
SetupFails ==
    /\ main = "setup"
    /\ main' = "exited"
    /\ exit' = "error"
    /\ UNCHANGED <<signaled, canceled, store, refresher, startVars, electVars, callback,
                   controllerVars>>

OpenStore ==
    /\ main = "setup"
    /\ ~signaled
    /\ main' = "opened"
    /\ store' = "open"
    /\ UNCHANGED <<signaled, canceled, refresher, exit, startVars, electVars, callback,
                   controllerVars>>

\* Both runnables start; Start runs the elector.
StartRunnables ==
    /\ main = "opened"
    /\ main' = "serving"
    /\ refresher' = "running"
    /\ start' = "electing"
    /\ elector' = "acquire"
    /\ UNCHANGED <<signaled, canceled, store, exit, handed, errs, led, callback,
                   controllerVars>>

\* <-runCtx.Done()
Wake ==
    /\ main = "serving"
    /\ RunDone
    /\ main' = "waiting"
    /\ UNCHANGED <<signaled, canceled, store, refresher, exit, startVars, electVars,
                   callback, controllerVars>>

\* Mutant: startRunnables returns without waiting for its runnables.
JoinAtOnce ==
    /\ main = "waiting"
    /\ main' = "joined"
    /\ exit' = IF errs = {} THEN "nil" ELSE "error"
    /\ UNCHANGED <<signaled, canceled, store, refresher, startVars, electVars, callback,
                   controllerVars>>

\* wg.Wait(), and the errors of the runnables.
Join ==
    /\ main = "waiting"
    /\ refresher = "returned"
    /\ start = "returned"
    /\ main' = "joined"
    /\ exit' = IF errs = {} THEN "nil" ELSE "error"
    /\ UNCHANGED <<signaled, canceled, store, refresher, startVars, electVars, callback,
                   controllerVars>>

\* The deferred closeRedis.
Close ==
    /\ main = "joined"
    /\ main' = "exited"
    /\ store' = "closed"
    /\ UNCHANGED <<signaled, canceled, refresher, exit, startVars, electVars, callback,
                   controllerVars>>

\* Any exit of a runnable cancels its sibling.
RefresherReturns ==
    /\ refresher = "running"
    /\ RunDone
    /\ refresher' = "returned"
    /\ canceled' = canceled \cup {"run"}
    /\ UNCHANGED <<signaled, main, store, exit, startVars, electVars, callback,
                   controllerVars>>

-----------------------------------------------------------------------------
(***************************************************************************)
(* The elector (client-go)                                                 *)
(***************************************************************************)

\* An attempt begins while the context lives; its answer may come later.
Attempt ==
    /\ elector = "acquire"
    /\ ~ElectionDone
    /\ elector' = "attempt"
    /\ UNCHANGED <<signaled, canceled, mainVars, startVars, led, callback, controllerVars>>

AttemptFails ==
    /\ elector = "attempt"
    /\ elector' = "acquire"
    /\ UNCHANGED <<signaled, canceled, mainVars, startVars, led, callback, controllerVars>>

\* The write is recorded at once; the callback gets a goroutine of its own.
AttemptSucceeds ==
    /\ elector = "attempt"
    /\ elector' = "renew"
    /\ led' = TRUE
    /\ callback' = "scheduled"
    /\ UNCHANGED <<signaled, canceled, mainVars, startVars, controllerVars>>

AttemptEnds == AttemptFails \/ AttemptSucceeds

ElectorStops ==
    /\ elector \in {"acquire", "renew"}
    /\ ElectionDone
    /\ elector' = "returned"
    /\ UNCHANGED <<signaled, canceled, mainVars, startVars, led, callback, controllerVars>>

RenewalFails ==
    /\ elector = "renew"
    /\ elector' = "returned"
    /\ UNCHANGED <<signaled, canceled, mainVars, startVars, led, callback, controllerVars>>

-----------------------------------------------------------------------------
(***************************************************************************)
(* OnStartedLeading: runControllers                                        *)
(***************************************************************************)

RunControllers ==
    /\ callback = "scheduled"
    /\ callback' = "running"
    /\ controller' = [c \in Controllers |-> "running"]
    /\ watcher' = "running"
    /\ UNCHANGED <<signaled, canceled, mainVars, startVars, electVars, failed>>

\* Mutant: the exit of a controller stops its siblings, not the election.
StopSiblings == canceled \cup {"controllers"}

\* Mutant: the context of the callback is canceled instead of the election's.
StopCallback == canceled \cup {"controllers", "leader"}

\* cancel() and stopElection()
StopAll == canceled \cup {"controllers", "election"}

ControllerReturns(c) ==
    /\ controller[c] = "running"
    /\ ControllersDone
    /\ controller' = [controller EXCEPT ![c] = "returned"]
    /\ canceled' = StopAll
    /\ UNCHANGED <<signaled, mainVars, startVars, electVars, callback, failed, watcher>>

ControllerFails(c) ==
    /\ controller[c] = "running"
    /\ controller' = [controller EXCEPT ![c] = "returned"]
    /\ failed' = failed \cup {c}
    /\ canceled' = StopAll
    /\ UNCHANGED <<signaled, mainVars, startVars, electVars, callback, watcher>>

\* A write of a controller finds the gate stale, which cancels their context.
WriteFindsStale(c) ==
    /\ controller[c] = "running"
    /\ canceled' = canceled \cup {"controllers"}
    /\ UNCHANGED <<signaled, mainVars, startVars, electVars, callback, controllerVars>>

WatcherFindsStale ==
    /\ watcher = "running"
    /\ watcher' = "returned"
    /\ canceled' = canceled \cup {"controllers"}
    /\ UNCHANGED <<signaled, mainVars, startVars, electVars, callback, controller, failed>>

WatcherReturns ==
    /\ watcher = "running"
    /\ ControllersDone
    /\ watcher' = "returned"
    /\ UNCHANGED <<signaled, canceled, mainVars, startVars, electVars, callback, controller,
                   failed>>

\* wg.Wait() and cancel()
JoinControllers ==
    /\ callback = "running"
    /\ Returned
    /\ callback' = "joined"
    /\ canceled' = canceled \cup {"controllers"}
    /\ UNCHANGED <<signaled, mainVars, startVars, electVars, controllerVars>>

\* <-watchDone, and the result goes to finished.
SendFinished ==
    /\ callback = "joined"
    /\ watcher = "returned"
    /\ callback' = "sent"
    /\ UNCHANGED <<signaled, canceled, mainVars, startVars, electVars, controllerVars>>

-----------------------------------------------------------------------------
(***************************************************************************)
(* leadership.Start after elector.Run                                      *)
(***************************************************************************)

\* Mutant: Start waits only if the callback has begun.
AwaitBegun ==
    /\ start = "electing"
    /\ elector = "returned"
    /\ start' = IF callback \in {"none", "scheduled"} THEN "deciding" ELSE "awaiting"
    /\ UNCHANGED <<signaled, canceled, mainVars, handed, errs, electVars, callback,
                   controllerVars>>

\* A recorded Lease write means that finished is coming.
Await ==
    /\ start = "electing"
    /\ elector = "returned"
    /\ start' = IF led THEN "awaiting" ELSE "deciding"
    /\ UNCHANGED <<signaled, canceled, mainVars, handed, errs, electVars, callback,
                   controllerVars>>

ReceiveFinished ==
    /\ start = "awaiting"
    /\ callback = "sent"
    /\ start' = "deciding"
    /\ UNCHANGED <<signaled, canceled, mainVars, handed, errs, electVars, callback,
                   controllerVars>>

Deliberate == RunDone \/ failed # {}

\* A deliberate exit hands the Lease over first.
Release ==
    /\ start = "deciding"
    /\ Deliberate
    /\ start' = "releasing"
    /\ UNCHANGED <<signaled, canceled, mainVars, handed, errs, electVars, callback,
                   controllerVars>>

\* releaseLease and the return of Start with the controllers' error.  The
\* hand-over needs a Lease that was held and still is, and two calls that
\* succeed.
HandOver ==
    /\ start = "releasing"
    /\ start' = "returned"
    /\ \/ led /\ handed' = TRUE
       \/ UNCHANGED handed
    /\ errs' = IF failed # {} THEN errs \cup {"controllers"} ELSE errs
    /\ canceled' = canceled \cup {"run"}
    /\ UNCHANGED <<signaled, mainVars, electVars, callback, controllerVars>>

\* Mutant: lost leadership is not an error.
LoseQuietly ==
    /\ start = "deciding"
    /\ ~Deliberate
    /\ start' = "returned"
    /\ canceled' = canceled \cup {"run"}
    /\ UNCHANGED <<signaled, mainVars, handed, errs, electVars, callback, controllerVars>>

\* ErrLeadershipLost
Lose ==
    /\ start = "deciding"
    /\ ~Deliberate
    /\ start' = "returned"
    /\ errs' = errs \cup {"lost"}
    /\ canceled' = canceled \cup {"run"}
    /\ UNCHANGED <<signaled, mainVars, handed, electVars, callback, controllerVars>>

-----------------------------------------------------------------------------
Init ==
    /\ signaled = FALSE
    /\ main = "setup"
    /\ store = "none"
    /\ canceled = {}
    /\ refresher = "none"
    /\ start = "none"
    /\ elector = "none"
    /\ led = FALSE
    /\ callback = "none"
    /\ controller = [c \in Controllers |-> "none"]
    /\ failed = {}
    /\ watcher = "none"
    /\ handed = FALSE
    /\ errs = {}
    /\ exit = "none"

MainStep == SetupFails \/ OpenStore \/ StartRunnables \/ Wake \/ Join \/ Close
StartStep == Await \/ ReceiveFinished \/ Release \/ HandOver \/ Lose
CallbackStep == RunControllers \/ JoinControllers \/ SendFinished

Next ==
    \/ Signal
    \/ MainStep
    \/ RefresherReturns
    \/ Attempt \/ AttemptEnds \/ ElectorStops \/ RenewalFails
    \/ CallbackStep
    \/ \E c \in Controllers :
          ControllerReturns(c) \/ ControllerFails(c) \/ WriteFindsStale(c)
    \/ WatcherFindsStale \/ WatcherReturns
    \/ StartStep

\* A goroutine that can go on does; a controller, and an attempt of the elector,
\* return once their context is canceled.  Nothing makes a signal, an
\* acquisition, a failure or a stale gate happen.
Spec ==
    /\ Init /\ [][Next]_vars
    /\ WF_vars(MainStep) /\ WF_vars(RefresherReturns) /\ WF_vars(StartStep)
    /\ WF_vars(ElectionDone /\ AttemptEnds) /\ WF_vars(ElectorStops)
    /\ WF_vars(CallbackStep) /\ WF_vars(WatcherReturns)
    /\ \A c \in Controllers : WF_vars(ControllerReturns(c))

-----------------------------------------------------------------------------
(***************************************************************************)
(* Properties                                                              *)
(***************************************************************************)

\* Only the three contexts that have a CancelFunc are ever canceled, and every
\* goroutine is at a known stage.
LifecycleTypeOK ==
    /\ signaled \in BOOLEAN /\ led \in BOOLEAN /\ handed \in BOOLEAN
    /\ main \in {"setup", "opened", "serving", "waiting", "joined", "exited"}
    /\ store \in {"none", "open", "closed"}
    /\ canceled \subseteq {"run", "election", "controllers"}
    /\ refresher \in {"none", "running", "returned"}
    /\ start \in {"none", "electing", "awaiting", "deciding", "releasing", "returned"}
    /\ elector \in {"none", "acquire", "attempt", "renew", "returned"}
    /\ callback \in {"none", "scheduled", "running", "joined", "sent"}
    /\ controller \in [Controllers -> {"none", "running", "returned"}]
    /\ failed \subseteq Controllers
    /\ watcher \in {"none", "running", "returned"}
    /\ errs \subseteq {"controllers", "lost"}
    /\ exit \in {"none", "nil", "error"}

\* When the store is closed no goroutine that uses it is running, and none is
\* still waiting to be scheduled: the callback that client-go starts on its
\* own goroutine may begin after Run has returned (Start, everSucceeded).
StoreOutlivesControllers ==
    store = "closed" => /\ callback \in {"none", "sent"}
                        /\ \A c \in Controllers : controller[c] # "running"
                        /\ refresher # "running" /\ watcher # "running"

\* The Lease is handed over by a process whose controllers have all returned
\* and will not start again ("it hands the Lease over after the drain").
HandedOverAfterDrain ==
    handed => Returned /\ callback = "sent" /\ elector = "returned"

\* The process reports success only if it was told to stop: a lost Lease, a
\* stale gate or a failed controller makes runServe return an error, from
\* which the pod is restarted ("a caller-driven cancellation remains a clean
\* shutdown").
GracefulOnlyIfSignaled == exit = "nil" => signaled

\* Whatever stops one part stops the process: after a signal, the return of
\* the elector, of a controller or of the watcher, runServe returns.
StopsAsAWhole ==
    (signaled \/ elector = "returned" \/ watcher = "returned"
       \/ \E c \in Controllers : controller[c] = "returned")
    ~> main = "exited"
=============================================================================
