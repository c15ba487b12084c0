# A TLA+ model of the HyperFleet Applier

The applier reads *desires* of adapters from a store and makes one management
cluster agree with them. An ApplyDesire is carried out by server-side apply, a
DeleteDesire by DELETE, a ReadDesire by watching an object. Outcomes go back
to the store as a `Successful` condition. Several replicas run, and a Lease
decides which of them acts. This directory models the store and its Redis
backend, the controllers, the election of a leader and the goroutines of a
process. TLC checks the models on small instances, and TLAPS proves the central
safety properties for all.

`PROJECT.json` lists the runs, the source lines behind each definition, the
hazards and the findings in machine-readable form.

## Inventory

| Part | State | Operations | Modelled in |
|---|---|---|---|
| Store contract, `pkg/desire` | records by Identity: owner, spec, status, generation, version | create, update, delete, prefix delete, status writes | `DesireStore` |
| In-memory backend, `store/memory` | one map under a mutex | the same, each atomic | `DesireStore` |
| Redis backend, `store/redis` | one key per Identity | the same, by WATCH/GET/MULTI/EXEC with retries; SCAN and MGET | `RedisStore` |
| Serial loop, `controllers/serial` | the current pass | tick: apply reconciler, then delete reconciler | `SerialLoop` |
| Apply reconciler | the listed desires, the outcome to write | list, pre-checks, re-check, apply, write status | `SerialLoop` |
| Delete reconciler | the same | list, mapping, re-check, GET, DELETE, GET, write status | `SerialLoop` |
| Read controller, `controllers/readdesire` | informers, work queue, workers, poll tick | list, resolve, reconcile informers, observe, write status, shut down | `ReadController` |
| Discovery refresher | the mapper's cache | reset | `ReadController`, `Lifecycle` |
| Leadership, `internal/leadership` | Lease, last success, run context, write context | acquire, renew, gate, write, drain, hand over | `Leadership`, `Lifecycle` |
| Process, `cmd/main.go` | contexts, Redis client, goroutines | open, start, wait, close, exit status | `Lifecycle` |
| Kubernetes API server (external) | objects, Lease, served versions | apply, GET, DELETE, watch, late requests | `SerialLoop`, `ReadController`, `Leadership` |
| Validation, configuration, cloning, log values | none that changes | | not modelled |

Interactions. Adapters write specs while the applier writes status, through the
same records; `Version` is the only protection between them, and the status of
a ReadDesire has not even that. The reconcilers read the store and the cluster
at different moments, and everything may change in between. One active loop per
management cluster is a matter of the Lease, of clocks, and of a process that
may be paused between its look at the Lease and its request.

The hard behaviours are transactions refused and repeated, answers lost after
the effect, statuses written with a version read long before, desires deleted
and created again under one Identity (the counters restart at 1), passes cut
off anywhere, requests that take effect after their client gave up, leaders
that do not know yet that they are not, informers replaced under a worker that
holds their lister, and goroutines that stop each other.

## Modules

**`DesireStore`** has one operator per store operation, from the records to an
outcome `[err, db]`, in the order of checks of the in-memory code. An Identity
is a type and a target; a target stands for group, resource, namespace and
name. Spec texts are members of a set, and `Json` maps each to the value that
`speccompare.Equal` compares. A selector is the set of types and targets it
matches. `birth` is a history field that numbers creations.

**`RedisStore`** lets each client execute a call command by command. `snap` is
what its GETs returned, `dirty` is Redis's knowledge that a watched key was
touched, `attempt` the counter of `watchRetry`. EXEC takes effect with or
without its answer arriving. `DeleteByPrefix` meets the keys one by one, loads
what it found and deletes key by key. The module extends `DesireStore` and
implements it: `StoreSpec` is that module's own specification of the same
variables, so every EXEC that takes effect is one operation of the contract and
nothing else changes a record. The histories `effects`, `could` and `since`
count the effects of a call, collect the errors the atomic store would have
returned since it began, and date its beginning.

**`SerialLoop`** composes the store operators with the loop and the cluster.
`at` is the step of `reconcileOne` the loop is at: `setup`, `recheck`, then
`apply`, or `get`, `delete` and `confirm`, then `write`. Adapters, operators,
finalizers and `Abort` act between any two. `Abort` stands for shutdown, lost
leadership and crashes: the next leader starts with an empty pass. A failed
request was refused, or took effect without its answer, or, if the constant
`LateLanding` allows it, is still on its way. `deletes` is the history of
DELETEs accepted in this tick, and the fields `of` and `life` of a status say
which spec and which life of the desire the attempt was about. The initial
state may hold a delete that was completed without ObservedGeneration.

**`ReadController`** composes the store operators with the poll loop, one
informer per desire, the work queue, the workers, the refresher and the API
server. A tick lists, resolves each version (and records a PreCheckFailed if it
has no match) and then reconciles the informers. An informer lists, follows
watch events and resyncs, each of which enqueues its key; the goroutine that
waits for its cache enqueues it twice at most. A worker takes a key, reads its
desire, takes the lister, looks up or reads live, and writes without a version.
`worker.stopped` is the informer whose lister a worker still holds after
Reconcile stopped it. `Stop` and `Return` are the end of `Start`, and `Restart`
is a crash or the next leader.

**`Leadership`** has the replicas of one partition and the Lease. A Lease write
remembers when it was issued (`trackingLock`), may be lost, answered late, or
executed after its client gave up. A controller write passes the gate
(`CheckGate`), asks how much of the window remains (`AskRemaining`), gets a
context that ends that much later (`MakeContext`), is sent and is accepted, and
time may pass between any two of these. `lag` is the history of the time between
the second and the third, which are two clock reads of `WriteContext`. A write
is *prompt* if its lag and the transit of a request fit in RetryPeriod.
**`ActiveWriter`** is what the election promises: one active writer at a time,
and writes of that one only. `Leadership` implements it for the prompt writes,
with the holder of the Lease as the active writer.

**`Lifecycle`** has the goroutines of one process and the contexts that connect
them: `runServe`, `startRunnables`, the refresher, `Runnable.Start`, client-go's
elector and its callback, `runControllers` with its watcher, and the
controllers. It has no time: the gate may go stale whenever the watcher looks.
`ControllerFails` is what the Runnable interface allows; the present
controllers return only when their context ends.

**`DesireStoreProofs`**, **`RedisStoreProofs`** (with the lemmas in
**`RedisClientProofs`**), **`SerialLoopTypeProofs`**, **`SerialLoopProofs`**,
**`ReadControllerProofs`**, **`LeadershipProofs`** and **`LifecycleProofs`** hold
the theorems; the `MC` modules give the constants their values for TLC.

## Runs

| Run | What it shows |
|---|---|
| `store` | After any calls of two owners on one target: one owner per target, never apply and delete at once, rejected creates change nothing, versions guard every change. |
| `redis_calls` | Two clients through Redis commands implement the atomic store, each call takes effect at most once, and errors are those the atomic store could have returned. |
| `redis_prefix` | A prefix delete that reports success deleted every match that existed when it began, is made of atomic deletions, and every call returns. |
| `serial_loop` | Deleted means absent, conditions describe the spec of their generation, no apply after a delete in a tick, completed deletes stay so, the loop never undoes an apply that is in force, and all desires settle. |
| `serial_late_apply` | Requests that land late do not keep ApplyDesires from settling. |
| `serial_recreate` | Violation: see finding 1. |
| `serial_late_request` | Violation: see finding 2. |
| `leadership` | A prompt request that the API server can still accept is the holder's, an open gate means holding the Lease, hand-overs come after the drain, and the replicas implement one active writer as far as their prompt writes go. |
| `leadership_pause` | Violation: see finding 3. |
| `lifecycle` | The Redis client is closed and the Lease handed over only after all who use them have ended, the exit status is right, and whatever stops one part stops the process. |
| `read_controller` | Absence is reported only if it was observed, healthy informers stay, shutdown leaves nothing running and comes to its end, and the desires settle. |
| `read_recreate` | Violation: see finding 4. |

A create that reads siblings of two owners, because they changed between its
GETs, may report AlreadyExists or DeletePending where the atomic store would
have said OwnerConflict; `RejectionsJustified` allows exactly this.

`CompletionIsStable` allows one change: the delete reconciler resolves the
mapping before it looks at the status, so a completed delete whose resource
type is gone becomes PreCheckFailed.

`Settled` of `ReadController` allows two things that the code does. An absent
target reports NotFound only if its informer was started for this life of the
desire (finding 4). And a PreCheckFailed that the poll loop wrote after the
worker's NotFound stays while the target is absent, since nothing enqueues the
key again. That a worker which finds no informer reports NotFound for a desire
created again since the list, although the comment at `readdesire/worker.go:135`
takes the desire for gone, is part of the model; `Converges` shows that the next
poll puts it right.

### Bounds

- One target: every rule of the store relates desires of one target only, and
  the controllers treat the desires of a pass and the keys of the queue
  independently. Two owners compete in the store. In `ReadController` a target
  has a worker, so at most `workerCount` targets are meant.
- Two clients in `RedisStore`: a transaction is disturbed by any other client,
  and one that acts repeatedly plays all of them. `MaxCASRetries` is 2 instead
  of 16, which reaches success, refusal, retry and giving up.
- `MaxVersion` and `MaxBirths` allow a desire to change, to be deleted, and to
  be created again.
- `MaxChanges` (adapters and operators) and `MaxFailures` (failed calls,
  aborted passes, cancellations and restarts) end the disturbances, after which
  the controllers must settle. Status writes are not bounded. `read_controller`
  was also checked with `MaxChanges` 3, on two million states.
- Two replicas in `Leadership`, with LeaseDuration 3, RetryPeriod 2, Transit 1,
  and a clock that ends at 4: a Lease is acquired, expires, is taken over, and the
  old leader wakes up. Prompt writes have a lag of 0 or 1, others of 2 or 3.
  `MaxLeaseVersion` 3 allows two changes of hands. The run has more than three
  million states, which is what the time allows; the proofs have no such bounds.
- Two controllers in `Lifecycle`, the serial loop and the read controller. The
  run has no other bound.
- `leadership` and `lifecycle` do not check deadlock: the clock ends and a
  process exits. `read_controller` does not: a controller that has returned may
  have no restart left.

### Abstractions

- Messages of conditions are left out. A status whose message changed is
  written again, as in the code; a change of the message of a PreCheckFailed or a
  WaitingForDeletion counts as a failure, which bounds the number of them.
- `SerialLoop` has one loop at a time, which `serial/controller.go:15` requires of
  the election. Status writes are not gated by the Lease, only SSA and DELETE are:
  a leader that was overtaken may still write the status of the desire it has in
  hand (`applydesire/controller.go:137`, `deletedesire/controller.go:162`) while the
  next leader runs. `Abort` drops that write, or ends the pass after it. So
  `DeletedMeansAbsent`, `ConditionDescribesSpecOfLife` and the other properties of
  the loop hold under this premise, and `Leadership` does not discharge it for
  status writes; their protection there is the version alone.
- A pre-check of a delete fails only as a disturbance. One that can never pass (a
  namespaced resource with an empty namespace, `deletedesire/controller.go:217`)
  leaves its desire PreCheckFailed, and `Converges` is not about it.
- An MGET of more than 1000 keys is one command instead of several. A list of
  desires in `SerialLoop` and `ReadController` is one snapshot; since a pass
  treats each target by itself and reads one key of it, this is what each target
  sees.
- A status write that Redis executes after its client gave up is not modelled;
  one that is executed although its answer is lost is.
- `Leadership` has one clock: processes stop anywhere for any time, but clocks
  do not drift against each other; the code leaves RetryPeriod for that, and the
  model uses the same margin for the way of a request (`Transit <= RetryPeriod`).
  A request is accepted at most `Transit` after it was sent and not after its
  client returned; `charts/README.md:74` names this limit of the design. A pause
  after the client's last look at its context is part of the transit.
  Identities are never used twice, as `main.go:222` makes them from UUIDs.
- In `ReadController` a delay of the rate limiter is a matter of scheduling,
  watch events coalesce to the newest state, taking a key and reading its desire
  are one step, and a live GET under a version that is not served answers
  NotFound. The object's metadata that the server manages is what `Canonical`
  removes.

### Fairness

`RedisSpec` assumes that a client keeps executing a call it has begun: weak
fairness of its next command. Nothing is assumed of other clients, nor that a
transaction ever succeeds.

`Spec` of `SerialLoop` assumes weak fairness of the loop, which `Runnable.Start`
gives by its ticker until its context ends, when the next leader starts the
same loop, and of finalizers, which other controllers of the cluster must
finish; without it no DELETE needs to complete.

`Fairness` of `ReadController` covers the poll loop and the refresher (tickers),
the workers (goroutines that wait on the queue), the steps of informers and
their resync (client-go), and the two steps of shutdown.

`Spec` of `Lifecycle` assumes that a goroutine which can go on does so, and that
an attempt of client-go to write the Lease ends once its context has ended. It
does not assume that a replica ever becomes leader, that a controller fails, or
that a signal comes.

Adapters, operators, the cluster, failures and late requests have no fairness
anywhere, and `Leadership` has safety properties only.

## Findings

1. `applydesire/controller.go:137` writes a status with the listed version. A
   desire deleted and created again since the list has the same version and
   generation, so it carries a condition about the earlier spec, against
   `pkg/desire/doc.go:21`. `ConditionDescribesSpecOfLife` shows that this is the
   only way it happens; the next tick applies the new spec.
2. `serial/controller.go:14` says that an apply cannot land after a delete of
   the same target in the same tick. An apply request that timed out can. After
   that, a DeleteDesire may say Deleted while the object exists, and it is
   not executed again. `charts/README.md:74` describes the limitation for
   changes of leadership.
3. `leadergate.go:53` asks the gate how much of the write window remains, and
   `context.WithTimeout` adds this to the clock it reads later. A process that is
   paused between the two resumes with a deadline moved by the pause, and until
   its elector or its watcher notices, it may send a request while another
   replica holds the Lease. The comment at line 45 says that the deadline is
   anchored to the last renewal, so that a process paused between the check and
   the request resumes to an expired context, and `charts/README.md:82` says the
   same. `PromptWritesAreHolders` states what is left: a pause there of at most
   RetryPeriod less the transit does no harm, and no pause before the first clock
   read, or between the context and the sending, does. A deadline computed from
   the time of the last success would have no such gap.
4. `readdesire/informer_manager.go:111` keeps an informer that watches the right
   version. A ReadDesire deleted and created again between two polls inherits
   it. If its target is absent there is no event and nothing for the resync to
   hand on, so the key is not enqueued again and the new desire keeps an empty
   status until the object appears or the process restarts.
   `readdesire/controller.go:34` says that the list and the resync keep every
   key flowing.

## Proofs

All proofs are for arbitrary sets of targets, owners, specs, statuses, clients,
replicas and controllers and any bounds. They assume what the named assumptions
of the modules say: the constants are of their types (`StoreAssumption`,
`RedisAssumption`, `LoopAssumption`, `ReadAssumption`), the statuses that the
reconcilers can write are among `Statuses` (`LoopAssumption`), there is a controller
(`ControllersAssumption`), and `0 < RetryPeriod <= LeaseDuration` and
`Transit <= RetryPeriod` (`LeadershipAssumption`).

- `DesireStoreProofs`: type correctness, `SingleOwner`, `ApplyDeleteExclusive`,
  `GenerationWithinVersion`, `RejectedCreateIsPure` and `VersionGuardsContent`.
  The invariant `Sound(db)` is a statement about any records, and a lemma per
  operation shows that the operation keeps it, whatever its arguments. The
  owner check looks at one sibling only and is enough because the siblings
  already agree. Rejected creates are pure because apply and delete exclude
  each other.
- `RedisStoreProofs`: `RedisSpec` implements `StoreSpec`, and type correctness,
  `ExactlyOnce`, `RejectionsJustified` and `PrefixComplete`. `RedisClientProofs`
  begins with decisions: one made on a snapshot that is current has the outcome
  of the atomic operation, although the backends check in different orders. Its
  invariant `RedisInv` says for each client that its job fits its
  call (`Stage`), that what it read is still true unless it is dirty (`Fresh`),
  that a single call has no effect before it succeeds (`Once`), that every
  sibling a create has read accounts for an error of the atomic store
  (`Justified`), and that what a prefix delete must delete is still ahead of it
  (`Ahead`). Most commands change one client and no record (`Quiet`); EXEC changes the
  records under everyone, and its lemmas are about the one client and the
  others. Creations in progress have their numbers reserved, which the model
  needs for its bound `MaxBirths`.
- `SerialLoopTypeProofs`: `LoopTypeOK`. The steps are first summarised by what
  they do to the store, the cluster, the requests in flight, the counters and the
  loop; every later invariant is kept by cases over these summaries. `TypeInv`
  adds that the store is sound and that every desire the loop listed or has in
  hand is a record whose generation and birth are within the counters, so that
  what is reported about it is a status.
- `SerialLoopProofs`: `DeletedMeansAbsent`, if no request lands late. It is not
  inductive. `LoopInv` adds that apply and delete exclude each other, that no
  completed delete exists for the target about to be applied, and that a
  Deleted about to be written is still true. The second holds because a delete
  is completed only by a status write of the loop, which is busy applying; the
  third because only an apply of the loop creates objects.
  Under the same assumption also `NoApplyAfterDelete`: a tick has deleted
  nothing while it is in its apply pass, and each step after it can only remove
  objects. `CompletionIsStable` needs no assumption: `StableInv` says that the
  loop acts on a delete only while it is not completed and has nothing but
  Deleted or PreCheckFailed to write for a completed one, which holds because no
  adapter call completes a delete.
  `ConditionDescribesSpecOfLife` needs none either. `StaleInv` relates an apply
  that was listed some time ago to the stored one. If they are of the same life,
  the stored one has the same generation or a later one, equal generations have
  equal specs (`NotAhead`), and nobody has written its status since
  (`NotReported`), because the loop is the only writer and visits a target once.
  In the delete pass a target in hand has no apply, or one that is younger than
  the list and has no status.
  `InForceStays`, if no request lands late, is a consequence: an apply with a
  status of its current generation, in the hand of the loop, was listed with
  that status and so with that generation and spec, and one with a status is not
  in the way of the delete pass.
- `ReadControllerProofs`: type correctness, `NothingLeftRunning`,
  `AbsenceIsObserved` and `HealthyInformerStays`. `ReadInv` says that a synced,
  empty cache belongs to a target that was absent (`Honest`), that a worker which saw its informer synced
  holds a lister of which this is true, stopped or not (`SyncOK`), and that after
  the end of the poll loop no informer appears (`EndOK`). That healthy informers
  stay holds because, short of a shutdown or a restart, only Reconcile ends a
  tick, and it leaves alone what was listed under the version watched, resolved
  or not.
- `LeadershipProofs`: type correctness, `FreshMeansHeld`, `PromptWritesAreHolders`,
  `HandsOverSafely`, and that `Spec` implements `ActiveWriter`, with accepted
  writes that are not prompt mapped to no step. The invariant
  relates times. A standby that has seen the current record saw it after every
  Lease write the holder issued (`Waits`). So a takeover that can still succeed
  is issued when those writes are a whole LeaseDuration old (`Claims`), and a
  replica that lost the Lease has only such writes behind it (`Losers`). A
  request is sent in the window of the last success or past it by no more than
  its lag (`Windows`), and a window with the lag and the transit of a prompt
  write is no longer than a LeaseDuration. `Versions`, `Views` and `Calls` say what a
  pending write and a view of the Lease can be.
- `LifecycleProofs`: type correctness, `StoreOutlivesControllers`, `HandedOverAfterDrain` and
  `GracefulOnlyIfSignaled`. The invariant says which goroutines can be alive at
  each stage of the others (`Nested`, `Awaited`, `Waited`), that the callback
  exists exactly if a Lease write succeeded (`Recorded`), and that the run
  context ends with a signal or an error (`Explained`).

Every safety property of the passing runs is proved for all values of the
constants that the assumptions allow; `DeletedMeansAbsent`, `NoApplyAfterDelete`
and `InForceStays` for those with `LateLanding` FALSE, as in their run. Only model-checked are the properties that need fairness
(`EveryCallReturns`, `Converges`, `AppliesConverge`, `StopsWhenCanceled`,
`StopsAsAWhole`), which is outside the prover's reach, and the four violations
of the findings, each a counterexample of its run.

## Not modelled

- `pkg/desire/validate.go`: the syntax of names and manifests. The models start
  from valid identities and specs; what passes the pre-checks of the apply
  reconciler is a constant.
- `internal/config` and the command line: values read once at the start.
- `Clone` and log values: values of TLA+ are never shared, and logs have no
  effect.
- The encodings of keys and records in Redis: keys are Identities and records
  are values.
- Counters and log lines about owner conflicts and status writes.
- `store/conformance`, the suite for both backends, is test code. It was read as a statement
  of what both backends promise.
- `process lifecycle` is partly modelled for the same reason: set-up of logging
  and clients that cannot change a later step is left out.
