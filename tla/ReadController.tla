--------------------------- MODULE ReadController ---------------------------
(***************************************************************************)
(* The ReadDesire controller (internal/controllers/readdesire) with the    *)
(* discovery refresher, in front of the desire store and of the API        *)
(* server.  A poll loop keeps one informer per listed desire; informers    *)
(* put the keys of their desires into a work queue; workers take a key,    *)
(* observe the target through its informer and write the status.  The      *)
(* status write carries no version.                                        *)
(*                                                                         *)
(* Targets are objects of one resource type, served under some versions.   *)
(* A content is the version an object was read under and its body.  The    *)
(* informer fields "life" (the birth of the desire it was started for) and *)
(* "wasAbsent" (the target was absent at some time since) are history.     *)
(***************************************************************************)
EXTENDS DesireStore

CONSTANTS
    Bodies,        \* what an object may consist of
    Canonical,     \* Canonical[b] is b without the metadata the server manages
    Absent,        \* no object, and no mirrored content
    NoInformer,    \* no informer runs for a target
    NoTarget,      \* the poll loop records no failure
    Unloaded,      \* the mapper holds no discovery data
    MaxChanges,    \* bound on the actions of adapters and of the cluster
    MaxFailures    \* bound on failed calls, cancellations and restarts

VARIABLES
    served,     \* API server: the versions it serves
    object,     \* API server: the body of each target, or Absent
    mapper,     \* the mapper's discovery data: the versions it knows
    informer,   \* InformerManager.informers
    queue,      \* the keys that wait in the work queue (its dirty set)
    worker,     \* per key, the sync under way: a key has one at a time
    poll,       \* the poll loop
    run,        \* Start: "running", "canceled", "stopping" or "returned"
    changes, failures

clusterVars == <<served, object>>
controllerVars == <<informer, queue, worker, poll, run>>
vars == <<storeVars, clusterVars, mapper, controllerVars, changes, failures>>

Informers ==
    [version : TargetVersions, life : Nat, synced : BOOLEAN,
     cache : Bodies \cup {Absent}, waiter : {"first", "second", "done"},
     wasAbsent : BOOLEAN]

Content(version, body) == [version |-> version, body |-> body]

Contents == [version : TargetVersions, body : Bodies] \cup {Absent}

ReadStatuses == [reason : Reasons.read, content : Contents]

Views == [spec : TargetVersions, status : ReadStatuses \cup {NoStatus}]

\* A sync: the step it is at, the desire as it read it, whether the cache
\* was synced, the informer it held when that was stopped, what to write.
Workers ==
    [at : {"idle", "lister", "lookup", "live", "write"},
     d : Views \cup {NoRecord},
     synced : BOOLEAN, stopped : Informers \cup {NoInformer},
     status : ReadStatuses \cup {NoStatus}]

Listings == [spec : TargetVersions, birth : Nat]

\* A tick: the desires it listed, those still to visit, those whose version
\* was resolved, and the failure it is about to record.
Polls ==
    [at : {"idle", "visit", "record"},
     listed : [Targets -> Listings \cup {NoRecord}],
     todo : SUBSET Targets, want : SUBSET Targets,
     cur : Targets \cup {NoTarget}, status : ReadStatuses \cup {NoStatus}]

ASSUME ReadAssumption ==
    /\ ReadStatuses \subseteq Statuses
    /\ NoStatus \notin ReadStatuses
    /\ NoInformer \notin Informers
    /\ NoTarget \notin Targets
    /\ NoRecord \notin Views \cup Listings
    /\ 1 <= MaxBirths

read(target) == <<"read", target>>

Idle == [at |-> "idle", d |-> NoRecord, synced |-> FALSE,
         stopped |-> NoInformer, status |-> NoStatus]

Waiting == [at |-> "idle", listed |-> [tg \in Targets |-> NoRecord],
            todo |-> {}, want |-> {}, cur |-> NoTarget, status |-> NoStatus]

Running == run = "running"

Change == changes < MaxChanges /\ changes' = changes + 1 /\ UNCHANGED failures
Fail == failures < MaxFailures /\ failures' = failures + 1 /\ UNCHANGED changes
NoFail == UNCHANGED <<changes, failures>>

-----------------------------------------------------------------------------
(***************************************************************************)
(* Statuses                                                                *)
(***************************************************************************)

LastContent(status) == IF status = NoStatus THEN Absent ELSE status.content

synced(version, body) ==
    [reason |-> "Synced", content |-> Content(version, body)]

notFound == [reason |-> "NotFound", content |-> Absent]

kubeAPIError(current) ==
    [reason |-> "KubeAPIError", content |-> LastContent(current)]

preCheckFailed(current) ==
    [reason |-> "PreCheckFailed", content |-> LastContent(current)]

\* Nothing mirrored does not decode, so it equals only itself.
SemanticContentEqual(a, b) ==
    \/ a = b
    \/ /\ a # Absent /\ b # Absent
       /\ a.version = b.version
       /\ Canonical[a.body] = Canonical[b.body]

ReadStatusEqual(a, b) ==
    /\ a # NoStatus /\ b # NoStatus
    /\ a.reason = b.reason
    /\ SemanticContentEqual(a.content, b.content)

-----------------------------------------------------------------------------
(***************************************************************************)
(* Adapters, the cluster, and discovery                                    *)
(***************************************************************************)

CreateDesire(tg, o, v) ==
    /\ Change
    /\ CreateRead(tg, o, v) /\ items' # items
    /\ UNCHANGED <<clusterVars, mapper, controllerVars>>

DeleteReadDesire(tg) ==
    /\ Change
    /\ Exists(items, read(tg))
    /\ Delete(read(tg), items[read(tg)].owner, items[read(tg)].version)
    /\ UNCHANGED <<clusterVars, mapper, controllerVars>>

NoteAbsence ==
    informer' = [tg \in Targets |->
        IF informer[tg] # NoInformer /\ object'[tg] = Absent
        THEN [informer[tg] EXCEPT !.wasAbsent = TRUE] ELSE informer[tg]]

\* The object is created, updated or deleted.
ChangeObject(tg, body) ==
    /\ Change
    /\ served # {} /\ object[tg] # body
    /\ object' = [object EXCEPT ![tg] = body]
    /\ NoteAbsence
    /\ UNCHANGED <<storeVars, served, mapper, queue, worker, poll, run>>

\* A version is installed or removed; objects go with the last one.
ChangeServed(v) ==
    /\ Change
    /\ served' = IF v \in served THEN served \ {v} ELSE served \cup {v}
    /\ object' = [tg \in Targets |-> IF served' = {} THEN Absent ELSE object[tg]]
    /\ NoteAbsence
    /\ UNCHANGED <<storeVars, mapper, queue, worker, poll, run>>

\* Refresher.Start: what the mapper knows is fetched again at its next use.
Refresh ==
    /\ mapper # Unloaded
    /\ mapper' = Unloaded
    /\ UNCHANGED <<storeVars, clusterVars, controllerVars>> /\ NoFail

Known == IF mapper = Unloaded THEN served ELSE mapper

\* resolveGVR: a version the mapper does not know is looked for once more
\* after a reset; one it knows is not checked again.
Resolves(v) == v \in Known \cup served

ResolveGVR(v) == mapper' = IF v \in Known THEN Known ELSE served

-----------------------------------------------------------------------------
(***************************************************************************)
(* Informers                                                               *)
(***************************************************************************)

Enqueue(tg) == queue' = queue \cup {tg}

ByInformer ==
    UNCHANGED <<storeVars, clusterVars, mapper, worker, poll, run>> /\ NoFail

\* The initial list, retried until the server answers for the version.
ListObject(tg) ==
    /\ informer[tg] # NoInformer
    /\ ~informer[tg].synced /\ informer[tg].version \in served
    /\ informer' = [informer EXCEPT ![tg].synced = TRUE,
                                    ![tg].cache = object[tg]]
    /\ IF object[tg] = Absent THEN UNCHANGED queue ELSE Enqueue(tg)
    /\ ByInformer

\* Add, update and delete events reach the cache and then the handler.
WatchObject(tg) ==
    /\ informer[tg] # NoInformer
    /\ informer[tg].synced /\ informer[tg].version \in served
    /\ informer[tg].cache # object[tg]
    /\ informer' = [informer EXCEPT ![tg].cache = object[tg]]
    /\ Enqueue(tg)
    /\ ByInformer

\* The resync calls the handler for what is in the cache.
Resync(tg) ==
    /\ informer[tg] # NoInformer
    /\ informer[tg].cache # Absent
    /\ tg \notin queue /\ Enqueue(tg)
    /\ UNCHANGED informer
    /\ ByInformer

\* start's goroutine, once WaitForCacheSync returns true.
ReportSync(tg) ==
    /\ informer[tg] # NoInformer
    /\ informer[tg].waiter # "done" /\ informer[tg].synced
    /\ informer' = [informer EXCEPT ![tg].waiter = "done"]
    /\ Enqueue(tg)
    /\ ByInformer

\* Mutant: the goroutine ends with the timeout.
ReportTimeoutOnly(tg) ==
    /\ informer[tg] # NoInformer
    /\ informer[tg].waiter = "first"
    /\ informer' = [informer EXCEPT ![tg].waiter = "done"]
    /\ Enqueue(tg)
    /\ ByInformer

\* The same goroutine, when syncTimeout elapses first.
ReportTimeout(tg) ==
    /\ informer[tg] # NoInformer
    /\ informer[tg].waiter = "first"
    /\ informer' = [informer EXCEPT ![tg].waiter = "second"]
    /\ Enqueue(tg)
    /\ ByInformer

-----------------------------------------------------------------------------
(***************************************************************************)
(* Workers: processNextWorkItem, and under it sync, applyStatus, observe   *)
(***************************************************************************)

ByWorker == UNCHANGED <<clusterVars, informer, poll, run>>

\* The status that a sync computed is written unless it is stored already.
Conclude(tg, status) ==
    worker' = [worker EXCEPT ![tg] =
        IF ReadStatusEqual(status, @.d.status) THEN Idle
        ELSE [Idle EXCEPT !.at = "write", !.status = status]]

\* Mutant: workers take no keys after a cancellation.
DequeueWhileRunning(tg) ==
    /\ Running /\ tg \in queue /\ worker[tg] = Idle
    /\ queue' = queue \ {tg}
    /\ worker' = [worker EXCEPT ![tg] =
          IF Exists(items, read(tg))
          THEN [Idle EXCEPT !.at = "lister",
                            !.d = [spec |-> items[read(tg)].spec,
                                   status |-> items[read(tg)].status]]
          ELSE Idle]
    /\ UNCHANGED <<storeVars, mapper>> /\ ByWorker /\ NoFail

\* A key is taken and its desire read.  The desire may be gone; and after a
\* cancellation the store is not asked and the key is forgotten.
Dequeue(tg) ==
    /\ tg \in queue /\ worker[tg] = Idle
    /\ queue' = queue \ {tg}
    /\ worker' = [worker EXCEPT ![tg] =
          IF Running /\ Exists(items, read(tg))
          THEN [Idle EXCEPT !.at = "lister",
                            !.d = [spec |-> items[read(tg)].spec,
                                   status |-> items[read(tg)].status]]
          ELSE Idle]
    /\ UNCHANGED <<storeVars, mapper>> /\ ByWorker /\ NoFail

\* The desire cannot be read: the key is queued again.
DequeueFails(tg) ==
    /\ Running /\ tg \in queue /\ worker[tg] = Idle
    /\ UNCHANGED <<storeVars, mapper, queue, worker>> /\ ByWorker /\ Fail

\* InformerManager.Lister: whether the cache is synced is read here, before
\* the cache is.
Lister(tg) ==
    /\ worker[tg].at = "lister"
    /\ IF informer[tg] = NoInformer THEN Conclude(tg, notFound)
       ELSE worker' = [worker EXCEPT ![tg].at = "lookup",
                                     ![tg].synced = informer[tg].synced]
    /\ UNCHANGED <<storeVars, mapper, queue>> /\ ByWorker /\ NoFail

\* The informer whose lister the worker holds; it may have been stopped.
ListerOf(tg) ==
    IF worker[tg].stopped = NoInformer THEN informer[tg] ELSE worker[tg].stopped

\* Mutant: a miss means absence whether or not the cache is synced.
ObserveUnsynced(tg) ==
    LET d == worker[tg].d
        inf == ListerOf(tg)
    IN IF inf.cache = Absent THEN Conclude(tg, notFound)
       ELSE IF inf.version # d.spec
            THEN worker' = [worker EXCEPT ![tg].at = "live"]
       ELSE Conclude(tg, synced(inf.version, inf.cache))

Observe(tg) ==
    LET d == worker[tg].d
        inf == ListerOf(tg)
    IN IF inf.cache = Absent
       THEN Conclude(tg, IF worker[tg].synced THEN notFound
                         ELSE kubeAPIError(d.status))
       ELSE IF inf.version # d.spec
            THEN worker' = [worker EXCEPT ![tg].at = "live"]
       ELSE Conclude(tg, synced(inf.version, inf.cache))

LookUp(tg) ==
    /\ worker[tg].at = "lookup"
    /\ Observe(tg)
    /\ UNCHANGED <<storeVars, mapper, queue>> /\ ByWorker /\ NoFail

\* observeLive: the server answers a GET under a version it does not serve
\* like one for an object that does not exist.
ObserveLive(tg) ==
    LET d == worker[tg].d
    IN /\ worker[tg].at = "live"
       /\ ResolveGVR(d.spec)
       /\ Conclude(tg,
             IF ~Running \/ ~Resolves(d.spec) THEN kubeAPIError(d.status)
             ELSE IF d.spec \notin served \/ object[tg] = Absent THEN notFound
             ELSE synced(d.spec, object[tg]))
       /\ UNCHANGED <<storeVars, queue>> /\ ByWorker /\ NoFail

ObserveLiveFails(tg) ==
    /\ worker[tg].at = "live"
    /\ Conclude(tg, kubeAPIError(worker[tg].d.status))
    /\ UNCHANGED <<storeVars, mapper, queue>> /\ ByWorker /\ Fail

\* A desire that is gone by now makes the write fail, and the key is queued
\* again; after a cancellation nothing is written and nothing queued.
Write(tg) ==
    LET outcome == UpdateReadDesireStatus(items, tg, worker[tg].status)
    IN /\ worker[tg].at = "write"
       /\ IF Running THEN Update(outcome) ELSE UNCHANGED storeVars
       /\ IF Running /\ outcome.err # OK THEN Enqueue(tg) ELSE UNCHANGED queue
       /\ worker' = [worker EXCEPT ![tg] = Idle]
       /\ UNCHANGED mapper /\ ByWorker /\ NoFail

\* The write fails, or takes effect without its answer.
WriteFails(tg) ==
    /\ worker[tg].at = "write"
    /\ \/ UNCHANGED storeVars
       \/ Update(UpdateReadDesireStatus(items, tg, worker[tg].status))
    /\ IF Running THEN Enqueue(tg) ELSE UNCHANGED queue
    /\ worker' = [worker EXCEPT ![tg] = Idle]
    /\ UNCHANGED mapper /\ ByWorker /\ Fail

-----------------------------------------------------------------------------
(***************************************************************************)
(* The poll loop                                                           *)
(***************************************************************************)

ByPoll == UNCHANGED <<clusterVars, queue, run>>

\* A list that fails leaves everything as it is until the next tick.
List ==
    LET known == {tg \in Targets : Exists(items, read(tg))}
    IN /\ Running /\ poll.at = "idle"
       /\ poll' = [Waiting EXCEPT !.at = "visit", !.todo = known,
             !.listed = [tg \in Targets |->
                IF tg \in known THEN [spec |-> items[read(tg)].spec,
                                      birth |-> items[read(tg)].birth]
                ELSE NoRecord]]
       /\ UNCHANGED <<storeVars, mapper, informer, worker>> /\ ByPoll /\ NoFail

\* The context is checked before each desire.
MayVisit(tg) == Running /\ poll.at = "visit" /\ tg \in poll.todo

Resolve(tg) ==
    /\ MayVisit(tg) /\ Resolves(poll.listed[tg].spec)
    /\ ResolveGVR(poll.listed[tg].spec)
    /\ poll' = [poll EXCEPT !.todo = @ \ {tg}, !.want = @ \cup {tg}]
    /\ UNCHANGED <<storeVars, informer, worker>> /\ ByPoll /\ NoFail

\* applyStatus up to its write: the desire is read again.
PreCheck(tg) ==
    LET rec == items[read(tg)]
        status == preCheckFailed(rec.status)
        visited == [poll EXCEPT !.todo = @ \ {tg}]
    IN poll' = IF rec = NoRecord \/ ReadStatusEqual(status, rec.status)
               THEN visited
               ELSE [visited EXCEPT !.at = "record", !.cur = tg,
                                    !.status = status]

ResolveNoMatch(tg) ==
    /\ MayVisit(tg) /\ ~Resolves(poll.listed[tg].spec)
    /\ ResolveGVR(poll.listed[tg].spec)
    /\ PreCheck(tg)
    /\ UNCHANGED <<storeVars, informer, worker>> /\ ByPoll /\ NoFail

\* Discovery fails; the desire is then read, or that fails too.
ResolveFails(tg) ==
    /\ MayVisit(tg)
    /\ PreCheck(tg) \/ poll' = [poll EXCEPT !.todo = @ \ {tg}]
    /\ UNCHANGED <<storeVars, mapper, informer, worker>> /\ ByPoll /\ Fail

Recorded == poll' = [poll EXCEPT !.at = "visit", !.cur = NoTarget,
                                 !.status = NoStatus]

\* applyStatus' write; its errors are logged only.
Record ==
    /\ poll.at = "record" /\ Recorded
    /\ IF Running THEN Update(UpdateReadDesireStatus(items, poll.cur, poll.status))
       ELSE UNCHANGED storeVars
    /\ UNCHANGED <<mapper, informer, worker>> /\ ByPoll /\ NoFail

RecordFails ==
    /\ poll.at = "record" /\ Recorded
    /\ UNCHANGED <<storeVars, mapper, informer, worker>> /\ ByPoll /\ Fail

NewInformer(tg) ==
    [version |-> poll.listed[tg].spec, life |-> poll.listed[tg].birth,
     synced |-> FALSE, cache |-> Absent, waiter |-> "first",
     wasAbsent |-> object[tg] = Absent]

\* Mutant: an informer whose version was not resolved is stopped.
ReconciledByWant(tg) ==
    IF tg \notin poll.want THEN NoInformer
    ELSE IF informer[tg] # NoInformer /\ informer[tg].version = poll.listed[tg].spec
         THEN informer[tg]
    ELSE NewInformer(tg)

\* Only a desire that is not listed loses its informer; one whose version
\* was resolved keeps an informer on it or gets a new one.
Reconciled(tg) ==
    IF poll.listed[tg] = NoRecord THEN NoInformer
    ELSE IF tg \notin poll.want THEN informer[tg]
    ELSE IF informer[tg] # NoInformer /\ informer[tg].version = poll.listed[tg].spec
         THEN informer[tg]
    ELSE NewInformer(tg)

\* Mutant: a worker asks the manager for the lister again.
ForgetListers == UNCHANGED worker

\* A worker that holds a lister keeps it when the informer is stopped.
KeepListers ==
    worker' = [tg \in Targets |->
        IF /\ worker[tg].at = "lookup" /\ worker[tg].stopped = NoInformer
           /\ informer'[tg] # informer[tg]
        THEN [worker[tg] EXCEPT !.stopped = informer[tg]] ELSE worker[tg]]

\* The context is not checked between the last desire and Reconcile.
Reconcile ==
    /\ poll.at = "visit" /\ poll.todo = {}
    /\ informer' = [tg \in Targets |-> Reconciled(tg)]
    /\ KeepListers
    /\ poll' = Waiting
    /\ UNCHANGED <<storeVars, mapper>> /\ ByPoll /\ NoFail

-----------------------------------------------------------------------------
(***************************************************************************)
(* Start's end                                                             *)
(***************************************************************************)

Cancel ==
    /\ Running /\ run' = "canceled"
    /\ UNCHANGED <<storeVars, clusterVars, mapper, informer, queue, worker, poll>>
    /\ Fail

StopInformers ==
    /\ informer' = [tg \in Targets |-> NoInformer]
    /\ KeepListers
    /\ run' = "stopping"
    /\ UNCHANGED <<storeVars, clusterVars, mapper, queue>> /\ NoFail

\* Mutant: the informers are stopped without waiting for the poll loop.
StopAtOnce == run = "canceled" /\ StopInformers /\ UNCHANGED poll

\* Once the poll loop has returned, between two ticks or before a desire:
\* queue.ShutDown and shutdownAll.  Keys in the queue are still handed out.
Stop ==
    /\ run = "canceled"
    /\ poll.at = "idle" \/ (poll.at = "visit" /\ poll.todo # {})
    /\ poll' = Waiting
    /\ StopInformers

\* wg.Wait: every worker found the queue empty.
Return ==
    /\ run = "stopping"
    /\ queue = {} /\ \A tg \in Targets : worker[tg] = Idle
    /\ run' = "returned"
    /\ UNCHANGED <<storeVars, clusterVars, mapper, informer, queue, worker, poll>>
    /\ NoFail

\* The process ends anywhere, and the next leader starts.
Restart ==
    /\ mapper' = Unloaded /\ queue' = {} /\ poll' = Waiting /\ run' = "running"
    /\ informer' = [tg \in Targets |-> NoInformer]
    /\ worker' = [tg \in Targets |-> Idle]
    /\ UNCHANGED <<storeVars, clusterVars>> /\ Fail

-----------------------------------------------------------------------------
(***************************************************************************)
(* The specification                                                       *)
(***************************************************************************)

\* The store holds no desire, or one that an earlier leader did not report.
Init ==
    /\ \/ StoreInit
       \/ /\ births = 1
          /\ \E tg \in Targets, o \in Owners, v \in TargetVersions :
                items = [id \in Identities |->
                    IF id = read(tg) THEN NewRecord(o, v, 1) ELSE NoRecord]
    /\ served = TargetVersions
    /\ object \in [Targets -> Bodies \cup {Absent}]
    /\ mapper = Unloaded /\ queue = {} /\ poll = Waiting /\ run = "running"
    /\ informer = [tg \in Targets |-> NoInformer]
    /\ worker = [tg \in Targets |-> Idle]
    /\ changes = 0 /\ failures = 0

Environment ==
    \/ \E tg \in Targets :
          \/ \E o \in Owners, v \in TargetVersions : CreateDesire(tg, o, v)
          \/ DeleteReadDesire(tg)
          \/ \E body \in Bodies \cup {Absent} : ChangeObject(tg, body)
    \/ \E v \in TargetVersions : ChangeServed(v)

InformerStep(tg) ==
    ListObject(tg) \/ WatchObject(tg) \/ ReportSync(tg)

WorkerStep(tg) ==
    Dequeue(tg) \/ Lister(tg) \/ LookUp(tg) \/ ObserveLive(tg) \/ Write(tg)

PollStep ==
    \/ List \/ Record \/ Reconcile
    \/ \E tg \in Targets : Resolve(tg) \/ ResolveNoMatch(tg)

Failure ==
    \/ \E tg \in Targets :
          \/ ReportTimeout(tg)
          \/ DequeueFails(tg) \/ ObserveLiveFails(tg) \/ WriteFails(tg)
          \/ ResolveFails(tg)
    \/ RecordFails \/ Cancel \/ Restart

Next ==
    \/ Environment \/ Failure \/ PollStep \/ Refresh \/ Stop \/ Return
    \/ \E tg \in Targets : InformerStep(tg) \/ Resync(tg) \/ WorkerStep(tg)

\* The goroutines keep running, the resync timer and the refresher's ticker
\* keep firing, and a watch that is served delivers what changed.
Fairness ==
    /\ WF_vars(PollStep) /\ WF_vars(Refresh) /\ WF_vars(Stop) /\ WF_vars(Return)
    /\ \A tg \in Targets :
          /\ WF_vars(WorkerStep(tg)) /\ WF_vars(InformerStep(tg))
          /\ WF_vars(Resync(tg))

Spec == Init /\ [][Next]_vars /\ Fairness

-----------------------------------------------------------------------------
(***************************************************************************)
(* Properties                                                              *)
(***************************************************************************)

\* The store keeps its types; a sync works on a desire it read and, at the
\* lookup, on an informer that exists; it has a status to write exactly when
\* it is about to; and the poll loop visits and records what it listed.
ReadTypeOK ==
    /\ StoreTypeOK
    /\ served \subseteq TargetVersions
    /\ object \in [Targets -> Bodies \cup {Absent}]
    /\ mapper \in (SUBSET TargetVersions) \cup {Unloaded}
    /\ informer \in [Targets -> Informers \cup {NoInformer}]
    /\ queue \subseteq Targets
    /\ worker \in [Targets -> Workers]
    /\ poll \in Polls
    /\ run \in {"running", "canceled", "stopping", "returned"}
    /\ \A tg \in Targets :
          /\ worker[tg].at \in {"lister", "lookup", "live"} => worker[tg].d # NoRecord
          /\ worker[tg].at = "lookup" => ListerOf(tg) # NoInformer
          /\ worker[tg].at = "write" <=> worker[tg].status # NoStatus
          /\ tg \in poll.todo \cup poll.want => poll.listed[tg] # NoRecord
    /\ poll.at = "record" => poll.cur # NoTarget /\ poll.status # NoStatus

\* Once Start has returned, nothing of the controller is left: no informer
\* was started behind shutdownAll's back by a poll tick under way, and no
\* worker still writes.
NothingLeftRunning ==
    run = "returned" =>
        /\ poll = Waiting /\ queue = {}
        /\ \A tg \in Targets : informer[tg] = NoInformer /\ worker[tg] = Idle

\* An informer that is asked reports absence only if the target was absent at
\* some time since it was started, however list, events and lookups
\* interleave: an empty cache counts only when it was synced before.
AbsenceIsObserved ==
    [][\A tg \in Targets :
          worker[tg].at = "lookup" /\ worker'[tg].status = notFound
              => ListerOf(tg).wasAbsent]_vars

\* While the controller runs, an informer on the version its desire declares
\* is stopped only if the desire was deleted since, or was not yet created,
\* when this tick listed (controller.go: a transient failure must not tear
\* down an otherwise healthy informer).
HealthyInformerStays ==
    [][\A tg \in Targets :
          LET rec == items[read(tg)]
          IN /\ informer[tg] # NoInformer /\ poll.at = "visit" /\ poll' = Waiting
             /\ run' = "running" /\ failures' = failures
             /\ rec # NoRecord /\ rec.spec = informer[tg].version
             /\ poll.listed[tg] = [spec |-> rec.spec, birth |-> rec.birth]
             => informer'[tg] = informer[tg]]_vars

Mirrors(status, version, body) ==
    /\ status # NoStatus /\ status.reason = "Synced"
    /\ status.content.version = version
    /\ Canonical[status.content.body] = Canonical[body]

\* Of a target that exists and is served, the desire mirrors the content; of
\* one that does not, it says NotFound if its informer was started for this
\* life of the desire and no failed pre-check came later.  A desire that is
\* gone has no informer.
Settled(tg) ==
    LET rec == items[read(tg)]
    IN IF rec = NoRecord THEN informer[tg] = NoInformer
       ELSE rec.spec \in served =>
            /\ informer[tg] # NoInformer
            /\ IF object[tg] # Absent
               THEN Mirrors(rec.status, rec.spec, object[tg])
               ELSE informer[tg].life = rec.birth =>
                    /\ rec.status # NoStatus
                    /\ rec.status.reason \in {"NotFound", "PreCheckFailed"}

\* When desires, objects and versions stop changing and calls stop failing, a
\* controller that runs brings every desire to that state for good, whatever
\* was overwritten, lost or observed too early before.
Converges == <>[](Running => \A tg \in Targets : Settled(tg))

\* A canceled controller returns, unless its process ends first.
StopsWhenCanceled == run = "canceled" ~> run \in {"returned", "running"}

\* controller.go:34: once an informer exists, its initial list and the resync
\* keep the key of its desire flowing into the queue.  So every desire whose
\* version is served gets a status while the controller runs.
EveryDesireReported ==
    \A tg \in Targets :
        LET Due == /\ Running /\ Exists(items, read(tg))
                   /\ items[read(tg)].spec \in served
        IN Due ~> ~Due \/ items[read(tg)].status # NoStatus

=============================================================================
