--------------------------- MODULE LifecycleProofs ---------------------------
(***************************************************************************)
(* The shutdown of a process with any set of controllers: the store        *)
(* outlives its users, the Lease is handed over after the drain, and only  *)
(* a signal makes an exit graceful.                                        *)
(***************************************************************************)
EXTENDS Lifecycle, TLAPS

\* The callback exists exactly if a Lease write was recorded.
Recorded ==
    /\ led <=> callback # "none"
    /\ elector \in {"none", "acquire", "attempt"} => ~led

\* Controllers and watcher live inside the callback.
Nested ==
    /\ callback \in {"none", "scheduled"}
          => watcher = "none" /\ \A c \in Controllers : controller[c] = "none"
    /\ callback \in {"joined", "sent"} => Returned
    /\ callback = "sent" => watcher = "returned"

\* Once Start has waited the elector has returned and no callback is left.
Awaited ==
    /\ start = "awaiting" => led
    /\ start \in {"awaiting", "deciding", "releasing", "returned"} => elector = "returned"
    /\ start \in {"deciding", "releasing", "returned"} => callback \in {"none", "sent"}
    /\ start = "releasing" => Deliberate
    /\ handed => led /\ start = "returned"

\* main waits for both runnables before it closes the store.
Waited ==
    /\ main \in {"setup", "opened"}
          => start = "none" /\ elector = "none" /\ refresher = "none" /\ store # "closed"
    /\ main \in {"opened", "serving", "waiting"} => store = "open"
    /\ main = "joined" \/ store = "closed" => start = "returned" /\ refresher = "returned"

\* The run context ends with a signal or with an error.
Explained ==
    /\ RunDone => signaled \/ errs # {}
    /\ main = "waiting" => RunDone
    /\ exit = "nil" => signaled

LifeInv == LifecycleTypeOK /\ Recorded /\ Nested /\ Awaited /\ Waited /\ Explained

-----------------------------------------------------------------------------
\* Initially nothing runs.
LEMMA LifeInit ==
    ASSUME Init
    PROVE  LifeInv
BY DEF Init, LifeInv, LifecycleTypeOK, Recorded, Nested, Awaited, Deliberate, Waited, Explained, RunDone

\* runServe, startRunnables and the refresher.
LEMMA MainKeeps ==
    ASSUME LifeInv, Signal \/ MainStep \/ RefresherReturns
    PROVE  LifeInv'
<1> USE DEF LifeInv, mainVars, startVars, electVars, controllerVars
<1>1. CASE Signal
    BY <1>1 DEF Signal, LifecycleTypeOK, Recorded, Nested, Returned, Awaited, Deliberate, Waited,
                Explained, RunDone
<1>2. CASE SetupFails
    BY <1>2 DEF SetupFails, LifecycleTypeOK, Recorded, Nested, Returned, Awaited, Deliberate, Waited,
                Explained, RunDone
<1>3. CASE OpenStore
    BY <1>3 DEF OpenStore, LifecycleTypeOK, Recorded, Nested, Returned, Awaited, Deliberate, Waited,
                Explained, RunDone
<1>4. CASE StartRunnables
  <2>1. start = "none" /\ elector = "none" /\ ~led /\ ~handed
      BY <1>4 DEF StartRunnables, Waited, Recorded, Awaited
  <2>2. LifecycleTypeOK' /\ Recorded' /\ Nested'
      BY <1>4, <2>1 DEF StartRunnables, LifecycleTypeOK, Recorded, Nested, Returned
  <2>3. Awaited' /\ Waited'
      BY <1>4, <2>1 DEF StartRunnables, Awaited, Deliberate, Waited
  <2>4. Explained'
      BY <1>4 DEF StartRunnables, Explained, RunDone
  <2> QED BY <2>2, <2>3, <2>4
<1>5. CASE Wake
    BY <1>5 DEF Wake, LifecycleTypeOK, Recorded, Nested, Returned, Awaited, Deliberate, Waited,
                Explained, RunDone
<1>6. CASE Join
    BY <1>6 DEF Join, LifecycleTypeOK, Recorded, Nested, Returned, Awaited, Deliberate, Waited,
                Explained, RunDone
<1>7. CASE Close
    BY <1>7 DEF Close, LifecycleTypeOK, Recorded, Nested, Returned, Awaited, Deliberate, Waited,
                Explained, RunDone
<1>8. CASE RefresherReturns
    BY <1>8 DEF RefresherReturns, LifecycleTypeOK, Recorded, Nested, Returned, Awaited, Deliberate,
                Waited, Explained, RunDone
<1> QED BY <1>1, <1>2, <1>3, <1>4, <1>5, <1>6, <1>7, <1>8 DEF MainStep

\* client-go's elector.
LEMMA ElectorKeeps ==
    ASSUME LifeInv, Attempt \/ AttemptEnds \/ ElectorStops \/ RenewalFails
    PROVE  LifeInv'
<1> USE DEF LifeInv, mainVars, startVars, electVars, controllerVars
<1>1. CASE Attempt
    BY <1>1 DEF Attempt, LifecycleTypeOK, Recorded, Nested, Returned, Awaited, Deliberate, Waited,
                Explained, RunDone
<1>2. CASE AttemptFails
    BY <1>2 DEF AttemptFails, LifecycleTypeOK, Recorded, Nested, Returned, Awaited, Deliberate, Waited,
                Explained, RunDone
<1>3. CASE AttemptSucceeds
    BY <1>3 DEF AttemptSucceeds, LifecycleTypeOK, Recorded, Nested, Returned, Awaited, Deliberate,
                Waited, Explained, RunDone
<1>4. CASE ElectorStops
    BY <1>4 DEF ElectorStops, LifecycleTypeOK, Recorded, Nested, Returned, Awaited, Deliberate, Waited,
                Explained, RunDone
<1>5. CASE RenewalFails
    BY <1>5 DEF RenewalFails, LifecycleTypeOK, Recorded, Nested, Returned, Awaited, Deliberate, Waited,
                Explained, RunDone
<1> QED BY <1>1, <1>2, <1>3, <1>4, <1>5 DEF AttemptEnds

\* The callback, the watcher and the controllers.
LEMMA CallbackKeeps ==
    ASSUME LifeInv, CallbackStep \/ WatcherFindsStale \/ WatcherReturns
    PROVE  LifeInv'
<1> USE DEF LifeInv, mainVars, startVars, electVars, controllerVars
<1>1. CASE RunControllers
    BY <1>1, ControllersAssumption
    DEF RunControllers, LifecycleTypeOK, Recorded, Nested, Returned, Awaited, Deliberate, Waited,
        Explained, RunDone
<1>2. CASE JoinControllers
    BY <1>2 DEF JoinControllers, LifecycleTypeOK, Recorded, Nested, Returned, Awaited, Deliberate,
                Waited, Explained, RunDone
<1>3. CASE SendFinished
    BY <1>3 DEF SendFinished, LifecycleTypeOK, Recorded, Nested, Returned, Awaited, Deliberate, Waited,
                Explained, RunDone
<1>4. CASE WatcherFindsStale
    BY <1>4 DEF WatcherFindsStale, LifecycleTypeOK, Recorded, Nested, Returned, Awaited, Deliberate,
                Waited, Explained, RunDone
<1>5. CASE WatcherReturns
    BY <1>5 DEF WatcherReturns, LifecycleTypeOK, Recorded, Nested, Returned, Awaited, Deliberate,
                Waited, Explained, RunDone
<1> QED BY <1>1, <1>2, <1>3, <1>4, <1>5 DEF CallbackStep

\* The steps of a controller keep the invariant.
LEMMA ControllerKeeps ==
    ASSUME LifeInv, NEW c \in Controllers,
           ControllerReturns(c) \/ ControllerFails(c) \/ WriteFindsStale(c)
    PROVE  LifeInv'
<1> USE DEF LifeInv, mainVars, startVars, electVars, controllerVars, StopAll
<1>1. callback = "running"
    BY DEF ControllerReturns, ControllerFails, WriteFindsStale, LifecycleTypeOK, Nested,
           Returned
<1>2. CASE ControllerReturns(c)
    BY <1>1, <1>2 DEF ControllerReturns, LifecycleTypeOK, Recorded, Nested, Awaited, Deliberate,
                      Waited, Explained, RunDone
<1>3. CASE ControllerFails(c)
    BY <1>1, <1>3 DEF ControllerFails, LifecycleTypeOK, Recorded, Nested, Awaited, Deliberate, Waited,
                      Explained, RunDone
<1>4. CASE WriteFindsStale(c)
    BY <1>1, <1>4 DEF WriteFindsStale, LifecycleTypeOK, Recorded, Nested, Awaited, Deliberate, Waited,
                      Explained, RunDone
<1> QED BY <1>2, <1>3, <1>4

\* leadership.Start after the elector.
LEMMA StartKeeps ==
    ASSUME LifeInv, StartStep
    PROVE  LifeInv'
<1> USE DEF LifeInv, mainVars, startVars, electVars, controllerVars
<1>1. CASE Await
    BY <1>1 DEF Await, LifecycleTypeOK, Recorded, Nested, Returned, Awaited, Deliberate, Waited,
                Explained, RunDone
<1>2. CASE ReceiveFinished
    BY <1>2 DEF ReceiveFinished, LifecycleTypeOK, Recorded, Nested, Returned, Awaited, Deliberate,
                Waited, Explained, RunDone
<1>3. CASE Release
    BY <1>3 DEF Release, LifecycleTypeOK, Recorded, Nested, Returned, Awaited, Deliberate, Waited,
                Explained, RunDone
<1>4. CASE Lose
    BY <1>4 DEF Lose, LifecycleTypeOK, Recorded, Nested, Returned, Awaited, Deliberate, Waited,
                Explained, RunDone
<1>5. CASE HandOver
  <2>1. handed' = handed \/ (led /\ handed' = TRUE)
      BY <1>5 DEF HandOver
  <2>4. LifecycleTypeOK'
    <3>1. handed \in BOOLEAN
        BY DEF LifecycleTypeOK
    <3>2. handed' \in BOOLEAN
        BY <2>1, <3>1, Zenon
    <3>3. errs' \subseteq {"controllers", "lost"}
        BY <1>5 DEF HandOver, LifecycleTypeOK
    <3>4. UNCHANGED <<signaled, mainVars, electVars, callback, controllerVars>>
          /\ start' = "returned" /\ canceled' \subseteq {"run", "election", "controllers"}
        BY <1>5 DEF HandOver, LifecycleTypeOK
    <3> QED BY <3>2, <3>3, <3>4 DEF LifecycleTypeOK
  <2>6. Recorded' /\ Nested'
      BY <1>5 DEF HandOver, Recorded, Nested, Returned
  <2>5. Awaited' /\ Waited'
      BY <1>5, <2>1 DEF HandOver, Awaited, Deliberate, Waited
  <2>2. RunDone \/ failed # {}
      BY <1>5 DEF HandOver, Awaited, Deliberate
  <2>3. Explained'
      BY <1>5, <2>2 DEF HandOver, Explained, RunDone
  <2> QED BY <2>3, <2>4, <2>5, <2>6
<1> QED BY <1>1, <1>2, <1>3, <1>4, <1>5 DEF StartStep

\* The order in which the goroutines of a process start, wait and stop.
THEOREM LifecycleInvariant == Spec => []LifeInv
<1>1. Init => LifeInv
    BY LifeInit
<1>2. LifeInv /\ [Next]_vars => LifeInv'
  <2> SUFFICES ASSUME LifeInv, [Next]_vars PROVE LifeInv'
      OBVIOUS
  <2>1. CASE Next
      BY <2>1, MainKeeps, ElectorKeeps, CallbackKeeps, ControllerKeeps, StartKeeps DEF Next
  <2>2. CASE UNCHANGED vars
      BY <2>2 DEF vars, mainVars, startVars, electVars, controllerVars, LifeInv,
                  LifecycleTypeOK, Recorded, Nested, Returned, Awaited, Deliberate, Waited, Explained,
                  RunDone
  <2> QED BY <2>1, <2>2
<1> QED BY <1>1, <1>2, PTL DEF Spec

\* Only the three contexts that have a CancelFunc are ever canceled, and every
\* goroutine is at a known stage, for every set of controllers.
THEOREM LifecycleTypes == Spec => []LifecycleTypeOK
<1>1. LifeInv => LifecycleTypeOK
    BY DEF LifeInv
<1> QED BY <1>1, LifecycleInvariant, PTL

\* Whatever the order in which the goroutines run and stop, the deferred
\* closeRedis runs after the last user of the store, even a callback that is
\* scheduled after elector.Run has returned.
THEOREM StoreIsSafe == Spec => []StoreOutlivesControllers
<1>1. LifeInv => StoreOutlivesControllers
  <2> SUFFICES ASSUME LifeInv, store = "closed"
               PROVE  /\ callback \in {"none", "sent"}
                      /\ \A c \in Controllers : controller[c] # "running"
                      /\ refresher # "running" /\ watcher # "running"
      BY DEF StoreOutlivesControllers
  <2>1. callback \in {"none", "sent"} /\ refresher = "returned"
      BY DEF LifeInv, Waited, Awaited
  <2> QED BY <2>1 DEF LifeInv, Nested, Returned
<1> QED BY <1>1, LifecycleInvariant, PTL

\* releaseLease runs after every controller has returned for good.
THEOREM HandOverIsAfterDrain == Spec => []HandedOverAfterDrain
<1>1. LifeInv => HandedOverAfterDrain
    BY DEF LifeInv, HandedOverAfterDrain, Awaited, Recorded, Nested
<1> QED BY <1>1, LifecycleInvariant, PTL

\* runServe returns nil only after a signal.
THEOREM GracefulExits == Spec => []GracefulOnlyIfSignaled
<1>1. LifeInv => GracefulOnlyIfSignaled
    BY DEF LifeInv, Explained, GracefulOnlyIfSignaled
<1> QED BY <1>1, LifecycleInvariant, PTL
=============================================================================
