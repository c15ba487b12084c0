------------------------ MODULE ReadControllerProofs ------------------------
(***************************************************************************)
(* Type correctness of the ReadDesire controller, that nothing of it is    *)
(* left when Start has returned, that an informer reports absence only     *)
(* when the target was absent at some time since its start, and that a     *)
(* tick leaves a healthy informer alone.                                   *)
(*                                                                         *)
(* The invariant is a conjunction by component, so that an action needs to *)
(* be looked at only for the components whose variables it changes.        *)
(***************************************************************************)
EXTENDS ReadController, TLAPS

StoreOK ==
    /\ StoreTypeOK
    /\ \A tg \in Targets : Exists(items, read(tg)) =>
          [spec |-> items[read(tg)].spec, status |-> items[read(tg)].status]
              \in Views

ClusterOK ==
    /\ served \subseteq TargetVersions
    /\ object \in [Targets -> Bodies \cup {Absent}]

MapperOK == mapper \in (SUBSET TargetVersions) \cup {Unloaded}

\* A synced cache that is empty was empty for a reason.
Honest(inf) == inf.synced /\ inf.cache = Absent => inf.wasAbsent

InformerOK ==
    /\ informer \in [Targets -> Informers \cup {NoInformer}]
    /\ \A tg \in Targets : informer[tg] # NoInformer =>
          /\ Honest(informer[tg])
          /\ object[tg] = Absent => informer[tg].wasAbsent

\* The worker of a key, given the informer tracked for it.
SyncOK(w, inf) ==
    LET held == IF w.stopped = NoInformer THEN inf ELSE w.stopped
    IN /\ w \in Workers
       /\ w.at \in {"lister", "lookup", "live"} => w.d # NoRecord
       /\ w.at = "lookup" => held # NoInformer
       /\ w.at = "lookup" /\ w.synced => held.synced
       /\ w.at = "write" <=> w.status # NoStatus
       /\ w.at \in {"lister", "idle", "write"} => w.stopped = NoInformer
       /\ w.stopped # NoInformer => Honest(w.stopped)

WorkerOK ==
    /\ worker = [tg \in Targets |-> worker[tg]]
    /\ \A tg \in Targets : SyncOK(worker[tg], informer[tg])

PollOK ==
    /\ poll \in Polls
    /\ \A tg \in poll.todo \cup poll.want : poll.listed[tg] # NoRecord
    /\ poll.at = "record" => poll.cur # NoTarget /\ poll.status # NoStatus

\* What the end of Start leaves.
EndOK ==
    /\ queue \subseteq Targets
    /\ run \in {"running", "canceled", "stopping", "returned"}
    /\ run \in {"stopping", "returned"} =>
          poll = Waiting /\ informer = [tg \in Targets |-> NoInformer]
    /\ run = "returned" => queue = {} /\ worker = [tg \in Targets |-> Idle]

ReadInv ==
    StoreOK /\ ClusterOK /\ MapperOK /\ InformerOK /\ WorkerOK /\ PollOK /\ EndOK

-----------------------------------------------------------------------------
(***************************************************************************)
(* Values                                                                  *)
(***************************************************************************)

\* What the status constructors of status.go return is a status.
LEMMA StatusTypes ==
    /\ notFound \in ReadStatuses
    /\ \A v \in TargetVersions, b \in Bodies : synced(v, b) \in ReadStatuses
    /\ \A s \in ReadStatuses \cup {NoStatus} :
          kubeAPIError(s) \in ReadStatuses /\ preCheckFailed(s) \in ReadStatuses
  BY DEF notFound, synced, kubeAPIError, preCheckFailed, LastContent,
         ReadStatuses, Reasons, Contents, Content

\* A worker without a key is sound whatever informer is tracked.
LEMMA IdleIsSound == \A inf : SyncOK(Idle, inf)
  BY DEF SyncOK, Idle, Workers, Honest

\* Between two ticks the poll loop has nothing to visit.
LEMMA WaitingIsSound ==
    /\ Waiting \in Polls
    /\ Waiting.todo = {} /\ Waiting.want = {} /\ Waiting.at = "idle"
  BY DEF Waiting, Polls

\* A worker about to write holds no lister.
LEMMA WriteIsSound ==
    ASSUME NEW s \in ReadStatuses, NEW inf
    PROVE  SyncOK([Idle EXCEPT !.at = "write", !.status = s], inf)
  BY ReadAssumption DEF SyncOK, Idle, Workers, Honest

\* A new informer does not disturb a worker that holds no lister.
LEMMA NoLister ==
    ASSUME NEW w, NEW old, NEW new, SyncOK(w, old), w.at # "lookup"
    PROVE  SyncOK(w, new)
  BY DEF SyncOK

-----------------------------------------------------------------------------
(***************************************************************************)
(* The store                                                               *)
(***************************************************************************)

\* CreateReadDesire stores a well-formed read.
LEMMA CreateKeeps ==
    ASSUME StoreOK, NEW tg \in Targets, NEW o \in Owners,
           NEW v \in TargetVersions, CreateRead(tg, o, v)
    PROVE  StoreOK'
  <1> DEFINE rec == NewRecord(o, v, births + 1)
  <1>1. rec \in Records /\ rec.spec = v /\ rec.status = NoStatus
    BY DEF NewRecord, Records, StoreOK, StoreTypeOK
  <1>2. read(tg) \in Identities
    BY DEF read, Identities, DesireTypes
  <1>3. items' = items \/ items' = [items EXCEPT ![read(tg)] = rec]
    BY DEF CreateRead, Create, CreateReadDesire, Reject, Accept, read
  <1>4. births' \in 0 .. MaxBirths
    BY StoreAssumption DEF CreateRead, Create, StoreOK, StoreTypeOK
  <1>5. [spec |-> v, status |-> NoStatus] \in Views
    BY DEF Views
  <1>. QED
    BY <1>1, <1>2, <1>3, <1>4, <1>5
    DEF StoreOK, StoreTypeOK, Exists, read, Identities, DesireTypes

\* DeleteReadDesire leaves the other records alone.
LEMMA DeleteKeeps ==
    ASSUME StoreOK, NEW tg \in Targets, NEW o, NEW v, Delete(read(tg), o, v)
    PROVE  StoreOK'
  <1>1. items' = items \/ items' = [items EXCEPT ![read(tg)] = NoRecord]
    BY DEF Delete, Update, DeleteDesire, Accept, Reject
  <1>2. births' = births
    BY DEF Delete, Update
  <1>. QED
    BY <1>1, <1>2 DEF StoreOK, StoreTypeOK, Exists, read, Identities, DesireTypes

\* UpdateReadDesireStatus changes the status of an existing read only.
LEMMA StatusKeeps ==
    ASSUME StoreOK, NEW tg \in Targets, NEW s \in ReadStatuses,
           Update(UpdateReadDesireStatus(items, tg, s))
    PROVE  StoreOK'
  <1> DEFINE id == read(tg)
  <1> DEFINE rec == [items[id] EXCEPT !.status = s]
  <1>1. id \in Identities
    BY DEF read, Identities, DesireTypes
  <1>2. \/ items' = items
        \/ Exists(items, id) /\ items' = [items EXCEPT ![id] = rec]
    BY DEF Update, UpdateReadDesireStatus, Accept, Reject, read
  <1>3. CASE Exists(items, id) /\ items' = [items EXCEPT ![id] = rec]
    <2>1. items[id] \in Records
      BY <1>1, <1>3 DEF StoreOK, StoreTypeOK, Exists
    <2>2. rec \in Records /\ rec.spec = items[id].spec /\ rec.status = s
      BY <2>1, ReadAssumption DEF Records
    <2>3. [spec |-> rec.spec, status |-> rec.status] \in Views
      <3>1. items[id].spec \in TargetVersions
        BY <1>3 DEF StoreOK, Views
      <3>. QED  BY <2>2, <3>1 DEF Views
    <2>. QED
      BY <1>1, <1>3, <2>2, <2>3
      DEF StoreOK, StoreTypeOK, Exists, read, Identities, DesireTypes, Update
  <1>. QED  BY <1>2, <1>3 DEF StoreOK, StoreTypeOK, Exists, Update

-----------------------------------------------------------------------------
(***************************************************************************)
(* How a goroutine's step keeps the invariant, in terms of what it changes *)
(***************************************************************************)

\* An informer advances: it never becomes less synced.
LEMMA InformerMoves ==
    ASSUME ReadInv, NEW tg \in Targets, NEW inf \in Informers,
           informer[tg] # NoInformer, informer' = [informer EXCEPT ![tg] = inf],
           Honest(inf), object[tg] = Absent => inf.wasAbsent,
           informer[tg].synced => inf.synced,
           queue' \subseteq queue \cup {tg}, ByInformer
    PROVE  ReadInv'
  <1>1. run \notin {"stopping", "returned"}
    BY DEF ReadInv, EndOK
  <1>2. EndOK'
    BY <1>1 DEF ReadInv, EndOK, ByInformer
  <1>3. InformerOK'
    BY DEF ReadInv, InformerOK, ByInformer, clusterVars
  <1>4. WorkerOK'
    <2> SUFFICES ASSUME NEW k \in Targets PROVE SyncOK(worker[k], informer'[k])
      BY DEF ReadInv, WorkerOK, ByInformer
    <2>1. SyncOK(worker[k], informer[k])
      BY DEF ReadInv, WorkerOK
    <2>2. CASE k # tg
      BY <2>1, <2>2 DEF ReadInv, InformerOK
    <2>3. CASE k = tg
      <3>1. informer'[k] = inf /\ inf # NoInformer
        BY <2>3, ReadAssumption DEF ReadInv, InformerOK
      <3>. QED  BY <2>1, <2>3, <3>1 DEF SyncOK
    <2>. QED  BY <2>2, <2>3
  <1>. QED
    BY <1>2, <1>3, <1>4
    DEF ReadInv, ByInformer, StoreOK, StoreTypeOK, Exists, storeVars, ClusterOK,
        clusterVars, MapperOK, PollOK

\* A worker changes only the sync of its key.
LEMMA WorkerMoves ==
    ASSUME ReadInv, NEW tg \in Targets, NEW w, SyncOK(w, informer[tg]),
           worker' = [worker EXCEPT ![tg] = w], queue' \subseteq Targets,
           worker[tg].at # "idle" \/ tg \in queue, ByWorker, StoreOK', MapperOK'
    PROVE  ReadInv'
  <1>1. run # "returned"
    BY DEF ReadInv, EndOK, Idle
  <1>2. EndOK'
    BY <1>1 DEF ReadInv, EndOK, ByWorker
  <1>3. WorkerOK'
    BY DEF ReadInv, WorkerOK, ByWorker
  <1>. QED
    BY <1>2, <1>3
    DEF ReadInv, ByWorker, ClusterOK, clusterVars, PollOK, InformerOK

\* A step of a tick that starts and stops no informer.
LEMMA PollMoves ==
    ASSUME ReadInv, poll.at # "idle" \/ Running, PollOK', ByPoll,
           UNCHANGED <<informer, worker>>, StoreOK', MapperOK'
    PROVE  ReadInv'
  <1>1. run \notin {"stopping", "returned"}
    BY WaitingIsSound DEF ReadInv, EndOK, Running
  <1>2. EndOK'
    BY <1>1 DEF ReadInv, EndOK, ByPoll
  <1>. QED
    BY <1>2 DEF ReadInv, ByPoll, ClusterOK, clusterVars, InformerOK, WorkerOK

\* Whatever becomes of the informers, the workers keep the ones they hold.
LEMMA ListersKept ==
    ASSUME InformerOK, WorkerOK, KeepListers
    PROVE  WorkerOK'
  <1> SUFFICES ASSUME NEW tg \in Targets PROVE SyncOK(worker'[tg], informer'[tg])
    BY DEF WorkerOK, KeepListers
  <1>1. SyncOK(worker[tg], informer[tg])
    BY DEF WorkerOK
  <1>2. CASE worker[tg].at # "lookup"
    <2>1. worker'[tg] = worker[tg]
      BY <1>2 DEF KeepListers
    <2>. QED  BY <1>1, <1>2, <2>1, NoLister
  <1>3. CASE worker[tg].at = "lookup" /\ worker[tg].stopped # NoInformer
    <2>1. worker'[tg] = worker[tg]
      BY <1>3 DEF KeepListers
    <2>. QED  BY <1>1, <1>3, <2>1 DEF SyncOK
  <1>4. CASE worker[tg].at = "lookup" /\ informer'[tg] = informer[tg]
    <2>1. worker'[tg] = worker[tg]
      BY <1>4 DEF KeepListers
    <2>. QED  BY <1>1, <1>4, <2>1
  <1>5. CASE /\ worker[tg].at = "lookup" /\ worker[tg].stopped = NoInformer
             /\ informer'[tg] # informer[tg]
    <2>1. worker'[tg] = [worker[tg] EXCEPT !.stopped = informer[tg]]
      BY <1>5 DEF KeepListers
    <2>2. informer[tg] \in Informers /\ Honest(informer[tg])
      BY <1>1, <1>5 DEF SyncOK, InformerOK
    <2>. QED  BY <1>1, <1>5, <2>1, <2>2, ReadAssumption DEF SyncOK, Workers
  <1>. QED  BY <1>2, <1>3, <1>4, <1>5

-----------------------------------------------------------------------------
(***************************************************************************)
(* The actions                                                             *)
(***************************************************************************)

\* Adapters change the store; the cluster changes objects and versions.
LEMMA EnvironmentKeeps ==
    ASSUME ReadInv, Environment
    PROVE  ReadInv'
  <1>1. ASSUME NEW tg \in Targets, NEW o \in Owners, NEW v \in TargetVersions,
               CreateDesire(tg, o, v)
        PROVE  ReadInv'
    <2>1. StoreOK'
      BY <1>1, CreateKeeps DEF CreateDesire, ReadInv
    <2>. QED
      BY <1>1, <2>1
      DEF CreateDesire, ReadInv, ClusterOK, MapperOK, InformerOK, WorkerOK, PollOK,
          EndOK, clusterVars, controllerVars
  <1>2. ASSUME NEW tg \in Targets, DeleteReadDesire(tg)
        PROVE  ReadInv'
    <2>1. StoreOK'
      BY <1>2, DeleteKeeps DEF DeleteReadDesire, ReadInv
    <2>. QED
      BY <1>2, <2>1
      DEF DeleteReadDesire, ReadInv, ClusterOK, MapperOK, InformerOK, WorkerOK,
          PollOK, EndOK, clusterVars, controllerVars
  <1>3. ASSUME ClusterOK', NoteAbsence,
               UNCHANGED <<storeVars, mapper, queue, worker, poll, run>>
        PROVE  ReadInv'
    <2>1. InformerOK'
      <3>1. informer \in [Targets -> Informers \cup {NoInformer}]
        BY DEF ReadInv, InformerOK
      <3>2. ASSUME NEW k \in Targets
            PROVE  /\ informer'[k] \in Informers \cup {NoInformer}
                   /\ informer'[k] # NoInformer =>
                        /\ Honest(informer'[k])
                        /\ object'[k] = Absent => informer'[k].wasAbsent
        <4> DEFINE noted == [informer[k] EXCEPT !.wasAbsent = TRUE]
        <4>1. informer'[k] = IF informer[k] # NoInformer /\ object'[k] = Absent
                             THEN noted ELSE informer[k]
          BY <1>3 DEF NoteAbsence
        <4>2. informer[k] # NoInformer => informer[k] \in Informers /\ Honest(informer[k])
          BY <3>1 DEF ReadInv, InformerOK
        <4>3. informer[k] # NoInformer => noted \in Informers /\ noted.wasAbsent
          BY <4>2 DEF Informers
        <4> HIDE DEF noted
        <4> QED BY <3>1, <4>1, <4>2, <4>3 DEF Honest
      <3>3. informer' \in [Targets -> Informers \cup {NoInformer}]
        <4>1. \E f : informer' = [k \in Targets |-> f[k]]
          BY <1>3, Zenon DEF NoteAbsence
        <4> QED BY <3>2, <4>1
      <3> QED BY <3>2, <3>3 DEF InformerOK
    <2>2. WorkerOK'
      <3> SUFFICES ASSUME NEW k \in Targets
                   PROVE  SyncOK(worker[k], informer'[k])
        BY <1>3 DEF ReadInv, WorkerOK
      <3>1. SyncOK(worker[k], informer[k])
        BY DEF ReadInv, WorkerOK
      <3>2. informer'[k] = NoInformer <=> informer[k] = NoInformer
        BY <1>3, ReadAssumption DEF NoteAbsence, ReadInv, InformerOK, Informers
      <3>3. informer[k] # NoInformer => informer'[k].synced = informer[k].synced
        BY <1>3 DEF NoteAbsence, ReadInv, InformerOK, Informers
      <3>. QED  BY <3>1, <3>2, <3>3 DEF SyncOK
    <2>3. EndOK'
      BY <1>3 DEF NoteAbsence, ReadInv, EndOK
    <2>. QED
      BY <1>3, <2>1, <2>2, <2>3
      DEF ReadInv, StoreOK, StoreTypeOK, Exists, storeVars, MapperOK, PollOK
  <1>4. ASSUME NEW tg \in Targets, NEW body \in Bodies \cup {Absent},
               ChangeObject(tg, body)
        PROVE  ReadInv'
    <2>1. ClusterOK'
      BY <1>4 DEF ChangeObject, ReadInv, ClusterOK
    <2>. QED  BY <1>3, <1>4, <2>1 DEF ChangeObject
  <1>5. ASSUME NEW v \in TargetVersions, ChangeServed(v)
        PROVE  ReadInv'
    <2>1. ClusterOK'
      BY <1>5 DEF ChangeServed, ReadInv, ClusterOK
    <2>. QED  BY <1>3, <1>5, <2>1 DEF ChangeServed
  <1>. QED  BY <1>1, <1>2, <1>4, <1>5 DEF Environment

\* Lists, events, resyncs and the goroutine that waits for the sync.
LEMMA InformerStepsKeep ==
    ASSUME ReadInv, NEW tg \in Targets,
           InformerStep(tg) \/ Resync(tg) \/ ReportTimeout(tg)
    PROVE  ReadInv'
  <1> DEFINE old == informer[tg]
  <1>0. old # NoInformer
    BY DEF InformerStep, ListObject, WatchObject, ReportSync, Resync, ReportTimeout
  <1>1. /\ old \in Informers /\ Honest(old)
        /\ object[tg] = Absent => old.wasAbsent
        /\ object[tg] \in Bodies \cup {Absent}
    BY <1>0 DEF ReadInv, InformerOK, ClusterOK
  <1>2. CASE ListObject(tg)
    <2> DEFINE new == [old EXCEPT !.synced = TRUE, !.cache = object[tg]]
    <2>1. new \in Informers /\ Honest(new) /\ new.synced
          /\ (object[tg] = Absent => new.wasAbsent)
      BY <1>1 DEF Informers, Honest
    <2>2. informer' = [informer EXCEPT ![tg] = new]
      BY <1>2 DEF ListObject, ReadInv, InformerOK
    <2>3. queue' \subseteq queue \cup {tg} /\ ByInformer
      BY <1>2 DEF ListObject, Enqueue
    <2> HIDE DEF new, old
    <2>. QED  BY <1>0, <2>1, <2>2, <2>3, InformerMoves DEF old
  <1>3. CASE WatchObject(tg)
    <2> DEFINE new == [old EXCEPT !.cache = object[tg]]
    <2>1. new \in Informers /\ Honest(new) /\ new.synced = old.synced
          /\ (object[tg] = Absent => new.wasAbsent)
      BY <1>1 DEF Informers, Honest
    <2>2. informer' = [informer EXCEPT ![tg] = new]
      BY <1>3 DEF WatchObject, ReadInv, InformerOK
    <2>3. queue' \subseteq queue \cup {tg} /\ ByInformer
      BY <1>3 DEF WatchObject, Enqueue
    <2> HIDE DEF new, old
    <2>. QED  BY <1>0, <2>1, <2>2, <2>3, InformerMoves DEF old
  <1>4. CASE Resync(tg)
    <2>1. informer' = [informer EXCEPT ![tg] = old]
      BY <1>4 DEF Resync, ReadInv, InformerOK
    <2>2. queue' \subseteq queue \cup {tg} /\ ByInformer
      BY <1>4 DEF Resync, Enqueue
    <2> HIDE DEF old
    <2>. QED  BY <1>0, <1>1, <2>1, <2>2, InformerMoves DEF old
  <1>5. ASSUME NEW stage \in {"second", "done"},
               informer' = [informer EXCEPT ![tg].waiter = stage],
               Enqueue(tg), ByInformer
        PROVE  ReadInv'
    <2> DEFINE new == [old EXCEPT !.waiter = stage]
    <2>1. new \in Informers /\ Honest(new) /\ new.synced = old.synced
          /\ (object[tg] = Absent => new.wasAbsent)
      BY <1>1 DEF Informers, Honest
    <2>2. informer' = [informer EXCEPT ![tg] = new]
      BY <1>5 DEF ReadInv, InformerOK
    <2>3. queue' \subseteq queue \cup {tg}
      BY <1>5 DEF Enqueue
    <2> HIDE DEF new, old
    <2>. QED  BY <1>0, <1>5, <2>1, <2>2, <2>3, InformerMoves DEF old
  <1>. QED
    BY <1>2, <1>3, <1>4, <1>5 DEF InformerStep, ReportSync, ReportTimeout

\* Conclude ends a sync or turns it into a write.
LEMMA ConcludeIsSound ==
    ASSUME ReadInv, NEW tg \in Targets, NEW s \in ReadStatuses, Conclude(tg, s)
    PROVE  \E w : /\ SyncOK(w, informer[tg])
                  /\ worker' = [worker EXCEPT ![tg] = w]
  <1> DEFINE w == IF ReadStatusEqual(s, worker[tg].d.status) THEN Idle
                  ELSE [Idle EXCEPT !.at = "write", !.status = s]
  <1>1. SyncOK(w, informer[tg])
    BY IdleIsSound, WriteIsSound
  <1>2. worker' = [worker EXCEPT ![tg] = w]
    BY DEF Conclude, ReadInv, WorkerOK
  <1>. QED  BY <1>1, <1>2

\* A step that concludes a sync.
LEMMA ConcludeKeeps ==
    ASSUME ReadInv, NEW tg \in Targets, NEW s \in ReadStatuses, Conclude(tg, s),
           worker[tg].at # "idle", UNCHANGED <<storeVars, queue>>, ByWorker, MapperOK'
    PROVE  ReadInv'
  <1>1. StoreOK' /\ queue' \subseteq Targets
    BY DEF ReadInv, StoreOK, StoreTypeOK, Exists, storeVars, EndOK
  <1>2. PICK w : /\ SyncOK(w, informer[tg])
                 /\ worker' = [worker EXCEPT ![tg] = w]
    BY ConcludeIsSound
  <1>. QED  BY <1>1, <1>2, WorkerMoves

\* What a sync under way knows.
LEMMA SyncTypes ==
    ASSUME ReadInv, NEW tg \in Targets
    PROVE  /\ SyncOK(worker[tg], informer[tg])
           /\ worker[tg] \in Workers
           /\ worker[tg].at \in {"lister", "lookup", "live"} => worker[tg].d \in Views
           /\ worker[tg].at = "lookup" =>
                 ListerOf(tg) \in Informers /\ Honest(ListerOf(tg))
           /\ worker[tg].at = "write" => worker[tg].status \in ReadStatuses
  <1>1. SyncOK(worker[tg], informer[tg])
    BY DEF ReadInv, WorkerOK
  <1>2. informer[tg] \in Informers \cup {NoInformer}
        /\ (informer[tg] # NoInformer => Honest(informer[tg]))
    BY DEF ReadInv, InformerOK
  <1>. QED  BY <1>1, <1>2 DEF SyncOK, Workers, ListerOf

\* A worker takes a key and reads its desire.
LEMMA DequeueKeeps ==
    ASSUME ReadInv, NEW tg \in Targets, Dequeue(tg)
    PROVE  ReadInv'
  <1> DEFINE d == [spec |-> items[read(tg)].spec,
                   status |-> items[read(tg)].status]
  <1> DEFINE w == IF Running /\ Exists(items, read(tg))
                  THEN [Idle EXCEPT !.at = "lister", !.d = d] ELSE Idle
  <1>1. SyncOK(w, informer[tg])
    <2>1. CASE Running /\ Exists(items, read(tg))
      <3>1. d \in Views
        BY <2>1 DEF ReadInv, StoreOK
      <3> HIDE DEF d
      <3>. QED  BY <2>1, <3>1, ReadAssumption DEF SyncOK, Workers, Idle
    <2>. QED  BY <2>1, IdleIsSound
  <1>2. worker' = [worker EXCEPT ![tg] = w]
    BY DEF Dequeue
  <1>3. StoreOK' /\ MapperOK' /\ queue' \subseteq Targets /\ ByWorker /\ tg \in queue
    BY DEF Dequeue, ReadInv, StoreOK, StoreTypeOK, Exists, storeVars, MapperOK, EndOK
  <1> HIDE DEF w
  <1>. QED  BY <1>1, <1>2, <1>3, WorkerMoves

\* A worker asks for the lister and whether its cache is synced.
LEMMA ListerKeeps ==
    ASSUME ReadInv, NEW tg \in Targets, Lister(tg)
    PROVE  ReadInv'
  <1>1. MapperOK' /\ UNCHANGED <<storeVars, queue>> /\ ByWorker
        /\ worker[tg].at = "lister"
    BY DEF Lister, ReadInv, MapperOK
  <1>2. CASE informer[tg] = NoInformer
    BY <1>1, <1>2, ConcludeKeeps, StatusTypes DEF Lister
  <1>3. CASE informer[tg] # NoInformer
    <2> DEFINE w == [worker[tg] EXCEPT !.at = "lookup",
                                       !.synced = informer[tg].synced]
    <2>1. worker' = [worker EXCEPT ![tg] = w]
      BY <1>3 DEF Lister, ReadInv, WorkerOK
    <2>2. SyncOK(w, informer[tg])
      <3>1. informer[tg].synced \in BOOLEAN
        BY <1>3 DEF ReadInv, InformerOK, Informers
      <3>. QED  BY <1>1, <1>3, <3>1, SyncTypes DEF SyncOK, Workers
    <2>3. StoreOK' /\ queue' \subseteq Targets
      BY <1>1 DEF ReadInv, StoreOK, StoreTypeOK, Exists, storeVars, EndOK
    <2> HIDE DEF w
    <2>. QED  BY <1>1, <2>1, <2>2, <2>3, WorkerMoves
  <1>. QED  BY <1>2, <1>3

\* A worker reads the cache, of an informer that may have been stopped.
LEMMA LookUpKeeps ==
    ASSUME ReadInv, NEW tg \in Targets, LookUp(tg)
    PROVE  ReadInv'
  <1> DEFINE inf == ListerOf(tg)
  <1>1. MapperOK' /\ UNCHANGED <<storeVars, queue>> /\ ByWorker
        /\ worker[tg].at = "lookup" /\ Observe(tg)
    BY DEF LookUp, ReadInv, MapperOK
  <1>2. inf \in Informers /\ worker[tg].d \in Views
    BY <1>1, SyncTypes
  <1>3. kubeAPIError(worker[tg].d.status) \in ReadStatuses
        /\ notFound \in ReadStatuses
        /\ (inf.cache # Absent => synced(inf.version, inf.cache) \in ReadStatuses)
    BY <1>2, StatusTypes DEF Informers, Views
  <1>4. CASE \E s \in ReadStatuses : Conclude(tg, s)
    BY <1>1, <1>4, ConcludeKeeps
  <1>5. CASE worker' = [worker EXCEPT ![tg].at = "live"]
    <2> DEFINE w == [worker[tg] EXCEPT !.at = "live"]
    <2>1. worker' = [worker EXCEPT ![tg] = w]
      BY <1>5 DEF ReadInv, WorkerOK
    <2>2. SyncOK(w, informer[tg])
      BY <1>1, SyncTypes DEF SyncOK, Workers
    <2>3. StoreOK' /\ queue' \subseteq Targets
      BY <1>1 DEF ReadInv, StoreOK, StoreTypeOK, Exists, storeVars, EndOK
    <2> HIDE DEF w
    <2>. QED  BY <1>1, <2>1, <2>2, <2>3, WorkerMoves
  <1>6. \/ \E s \in ReadStatuses : Conclude(tg, s)
        \/ worker' = [worker EXCEPT ![tg].at = "live"]
    <2> HIDE DEF inf
    <2>1. CASE inf.cache = Absent
      <3>1. Conclude(tg, IF worker[tg].synced THEN notFound
                         ELSE kubeAPIError(worker[tg].d.status))
        BY <1>1, <2>1 DEF Observe, inf
      <3>2. CASE worker[tg].synced
        BY <1>3, <3>1, <3>2
      <3>3. CASE ~worker[tg].synced
        BY <1>3, <3>1, <3>3
      <3>. QED  BY <3>2, <3>3
    <2>2. CASE inf.cache # Absent
      <3>1. \/ worker' = [worker EXCEPT ![tg].at = "live"]
            \/ Conclude(tg, synced(inf.version, inf.cache))
        BY <1>1, <2>2 DEF Observe, inf
      <3>. QED  BY <1>3, <2>2, <3>1
    <2>. QED  BY <2>1, <2>2
  <1>. QED  BY <1>4, <1>5, <1>6

\* observeLive, whether its GET succeeds or not.
LEMMA ObserveLiveKeeps ==
    ASSUME ReadInv, NEW tg \in Targets, ObserveLive(tg) \/ ObserveLiveFails(tg)
    PROVE  ReadInv'
  <1>1. UNCHANGED <<storeVars, queue>> /\ ByWorker /\ worker[tg].at = "live"
    BY DEF ObserveLive, ObserveLiveFails
  <1>2. MapperOK'
    BY DEF ObserveLive, ObserveLiveFails, ResolveGVR, Known, ReadInv, MapperOK,
           ClusterOK
  <1>3. worker[tg].d \in Views
    BY <1>1, SyncTypes
  <1>4. kubeAPIError(worker[tg].d.status) \in ReadStatuses
        /\ notFound \in ReadStatuses
        /\ (object[tg] # Absent => synced(worker[tg].d.spec, object[tg]) \in ReadStatuses)
    BY <1>3, StatusTypes DEF Views, ReadInv, ClusterOK
  <1>5. \/ Conclude(tg, kubeAPIError(worker[tg].d.status))
        \/ Conclude(tg, notFound)
        \/ object[tg] # Absent /\ Conclude(tg, synced(worker[tg].d.spec, object[tg]))
    BY Zenon DEF ObserveLive, ObserveLiveFails
  <1>6. \E s \in ReadStatuses : Conclude(tg, s)
    BY <1>4, <1>5
  <1>. QED  BY <1>1, <1>2, <1>6, ConcludeKeeps

\* The status write, whether it succeeds or not.
LEMMA WriteKeeps ==
    ASSUME ReadInv, NEW tg \in Targets, Write(tg) \/ WriteFails(tg)
    PROVE  ReadInv'
  <1>1. ByWorker /\ worker[tg].at = "write" /\ worker' = [worker EXCEPT ![tg] = Idle]
    BY DEF Write, WriteFails
  <1>2. MapperOK' /\ queue' \subseteq Targets
    BY DEF Write, WriteFails, Enqueue, ReadInv, MapperOK, EndOK
  <1>3. StoreOK'
    <2>1. worker[tg].status \in ReadStatuses
      BY <1>1, SyncTypes
    <2>2. CASE UNCHANGED storeVars
      BY <2>2 DEF ReadInv, StoreOK, StoreTypeOK, Exists, storeVars
    <2>3. CASE Update(UpdateReadDesireStatus(items, tg, worker[tg].status))
      BY <2>1, <2>3, StatusKeeps DEF ReadInv
    <2>. QED  BY <2>2, <2>3 DEF Write, WriteFails
  <1>. QED  BY <1>1, <1>2, <1>3, IdleIsSound, WorkerMoves

\* All steps of a worker.
LEMMA WorkerStepsKeep ==
    ASSUME ReadInv, NEW tg \in Targets,
           \/ WorkerStep(tg)
           \/ DequeueFails(tg) \/ ObserveLiveFails(tg) \/ WriteFails(tg)
    PROVE  ReadInv'
  <1>1. CASE DequeueFails(tg)
    BY <1>1
    DEF DequeueFails, ByWorker, ReadInv, StoreOK, StoreTypeOK, Exists, storeVars,
        ClusterOK, clusterVars, MapperOK, InformerOK, WorkerOK, PollOK, EndOK
  <1>. QED
    BY <1>1, DequeueKeeps, ListerKeeps, LookUpKeeps, ObserveLiveKeeps, WriteKeeps
    DEF WorkerStep

\* The poll loop with a desire visited, recorded or not.
LEMMA PreCheckIsSound ==
    ASSUME ReadInv, NEW tg \in Targets, poll.at = "visit", PreCheck(tg)
    PROVE  PollOK'
  <1> DEFINE rec == items[read(tg)]
  <1> DEFINE status == preCheckFailed(rec.status)
  <1> DEFINE visited == [poll EXCEPT !.todo = @ \ {tg}]
  <1>1. PollOK /\ poll \in Polls
    BY DEF ReadInv, PollOK
  <1>2. CASE poll' = visited
    BY <1>1, <1>2 DEF PollOK, Polls
  <1>3. CASE /\ rec # NoRecord
             /\ poll' = [visited EXCEPT !.at = "record", !.cur = tg,
                                        !.status = status]
    <2>1. rec.status \in ReadStatuses \cup {NoStatus}
      BY <1>3 DEF ReadInv, StoreOK, Exists, Views
    <2>2. status \in ReadStatuses
      BY <2>1, StatusTypes
    <2> HIDE DEF status
    <2>. QED  BY <1>1, <1>3, <2>2, ReadAssumption DEF PollOK, Polls
  <1>. QED  BY <1>2, <1>3 DEF PreCheck

\* All steps of a tick before Reconcile.
LEMMA PollStepsKeep ==
    ASSUME ReadInv,
           \/ List \/ Record \/ RecordFails
           \/ \E tg \in Targets :
                 Resolve(tg) \/ ResolveNoMatch(tg) \/ ResolveFails(tg)
    PROVE  ReadInv'
  <1>1. ByPoll /\ UNCHANGED <<informer, worker>>
    BY DEF List, Record, RecordFails, Resolve, ResolveNoMatch, ResolveFails
  <1>2. poll.at # "idle" \/ Running
    BY DEF List, Record, RecordFails, Resolve, ResolveNoMatch, ResolveFails, MayVisit
  <1>3. MapperOK'
    BY DEF List, Record, RecordFails, Resolve, ResolveNoMatch, ResolveFails,
           ResolveGVR, Known, ReadInv, MapperOK, ClusterOK
  <1>4. StoreOK'
    <2>1. CASE UNCHANGED storeVars
      BY <2>1 DEF ReadInv, StoreOK, StoreTypeOK, Exists, storeVars
    <2>2. CASE Record /\ Update(UpdateReadDesireStatus(items, poll.cur, poll.status))
      <3>1. poll.cur \in Targets /\ poll.status \in ReadStatuses
        BY <2>2 DEF Record, ReadInv, PollOK, Polls
      <3>. QED  BY <2>2, <3>1, StatusKeeps DEF ReadInv
    <2>. QED
      BY <2>1, <2>2 DEF List, Record, RecordFails, Resolve, ResolveNoMatch,
                        ResolveFails
  <1>5. PollOK'
    <2>0. PollOK /\ poll \in Polls
      BY DEF ReadInv, PollOK
    <2>1. CASE List
      <3> DEFINE known == {tg \in Targets : Exists(items, read(tg))}
      <3> DEFINE entry(tg) == [spec |-> items[read(tg)].spec,
                               birth |-> items[read(tg)].birth]
      <3> DEFINE all == [tg \in Targets |-> IF tg \in known THEN entry(tg)
                                            ELSE NoRecord]
      <3>1. \A tg \in known : entry(tg) \in Listings
        <4> SUFFICES ASSUME NEW tg \in known PROVE entry(tg) \in Listings
          OBVIOUS
        <4>1. items[read(tg)] \in Records
          BY DEF ReadInv, StoreOK, StoreTypeOK, Exists, read, Identities, DesireTypes
        <4>2. items[read(tg)].spec \in TargetVersions
          BY DEF ReadInv, StoreOK, Views
        <4>. QED  BY <4>1, <4>2 DEF Records, Listings
      <3>2. poll' = [Waiting EXCEPT !.at = "visit", !.todo = known, !.listed = all]
        BY <2>1 DEF List
      <3>3. all \in [Targets -> Listings \cup {NoRecord}]
        BY <3>1
      <3>4. \A tg \in known : all[tg] # NoRecord
        BY <3>1, ReadAssumption
      <3>5. known \subseteq Targets
        OBVIOUS
      <3> HIDE DEF known, all, entry
      <3>. QED  BY <3>2, <3>3, <3>4, <3>5 DEF PollOK, Polls, Waiting
    <2>2. CASE Record \/ RecordFails
      BY <2>0, <2>2 DEF Record, RecordFails, Recorded, PollOK, Polls
    <2>3. ASSUME NEW tg \in Targets, Resolve(tg) PROVE PollOK'
      BY <2>0, <2>3 DEF Resolve, MayVisit, PollOK, Polls
    <2>4. ASSUME NEW tg \in Targets, ResolveNoMatch(tg) PROVE PollOK'
      BY <2>4, PreCheckIsSound DEF ResolveNoMatch, MayVisit
    <2>5. ASSUME NEW tg \in Targets, ResolveFails(tg) PROVE PollOK'
      <3>1. CASE poll' = [poll EXCEPT !.todo = @ \ {tg}]
        BY <2>0, <2>5, <3>1 DEF ResolveFails, MayVisit, PollOK, Polls
      <3>. QED  BY <2>5, <3>1, PreCheckIsSound DEF ResolveFails, MayVisit
    <2>. QED  BY <2>1, <2>2, <2>3, <2>4, <2>5
  <1>. QED  BY <1>1, <1>2, <1>3, <1>4, <1>5, PollMoves

\* Reconcile stops and starts informers.
LEMMA ReconcileKeeps ==
    ASSUME ReadInv, Reconcile
    PROVE  ReadInv'
  <1>1. PollOK'
    BY WaitingIsSound DEF Reconcile, PollOK
  <1>2. WorkerOK'
    BY ListersKept DEF Reconcile, ReadInv
  <1>3. InformerOK'
    <2> SUFFICES ASSUME NEW tg \in Targets
                 PROVE  /\ Reconciled(tg) \in Informers \cup {NoInformer}
                        /\ Reconciled(tg) # NoInformer =>
                              /\ Honest(Reconciled(tg))
                              /\ object[tg] = Absent => Reconciled(tg).wasAbsent
      BY DEF Reconcile, InformerOK, ByPoll, clusterVars
    <2>1. CASE Reconciled(tg) \in {NoInformer, informer[tg]}
      BY <2>1 DEF ReadInv, InformerOK
    <2>2. CASE poll.listed[tg] # NoRecord /\ Reconciled(tg) = NewInformer(tg)
      <3>1. poll.listed[tg] \in Listings
        BY <2>2 DEF ReadInv, PollOK, Polls
      <3> DEFINE absent == object[tg] = Absent
      <3>2. absent \in BOOLEAN
        OBVIOUS
      <3>3. Reconciled(tg) =
               [version |-> poll.listed[tg].spec, life |-> poll.listed[tg].birth,
                synced |-> FALSE, cache |-> Absent, waiter |-> "first",
                wasAbsent |-> absent]
        BY <2>2 DEF NewInformer
      <3>4. object[tg] = Absent => absent
        OBVIOUS
      <3> HIDE DEF absent
      <3>5. Reconciled(tg) \in Informers
        BY <3>1, <3>2, <3>3 DEF Informers, Listings
      <3>6. ~Reconciled(tg).synced /\ Reconciled(tg).wasAbsent = absent
        BY <3>3
      <3>. QED  BY <3>4, <3>5, <3>6 DEF Honest
    <2>. QED  BY <2>1, <2>2 DEF Reconciled
  <1>4. EndOK'
    BY WaitingIsSound DEF Reconcile, ReadInv, EndOK, ByPoll
  <1>. QED
    BY <1>1, <1>2, <1>3, <1>4
    DEF Reconcile, ByPoll, ReadInv, StoreOK, StoreTypeOK, Exists, storeVars,
        ClusterOK, clusterVars, MapperOK

\* Refresh, cancellation, the end of Start, and a new process.
LEMMA EndKeeps ==
    ASSUME ReadInv, Refresh \/ Cancel \/ Stop \/ Return \/ Restart
    PROVE  ReadInv'
  <1>1. UNCHANGED <<storeVars, clusterVars>> /\ MapperOK'
    <2>1. UNCHANGED <<storeVars, clusterVars>>
      BY DEF Refresh, Cancel, Stop, StopInformers, Return, Restart
    <2>2. mapper' = mapper \/ mapper' = Unloaded
      BY DEF Refresh, Cancel, Stop, StopInformers, Return, Restart
    <2>. QED  BY <2>1, <2>2 DEF ReadInv, MapperOK
  <1>0. StoreOK' /\ ClusterOK'
    BY <1>1 DEF ReadInv, StoreOK, StoreTypeOK, Exists, storeVars, ClusterOK, clusterVars
  <1>2. PollOK'
    BY WaitingIsSound
    DEF Refresh, Cancel, Stop, Return, Restart, ReadInv, PollOK, controllerVars
  <1>3. InformerOK'
    BY DEF Refresh, Cancel, Stop, StopInformers, Return, Restart, ReadInv,
           InformerOK, controllerVars, clusterVars
  <1>4. WorkerOK'
    <2>1. CASE Stop
      BY <2>1, ListersKept DEF Stop, StopInformers, ReadInv
    <2>2. CASE Restart
      BY <2>2, IdleIsSound DEF Restart, WorkerOK
    <2>. QED
      BY <2>1, <2>2 DEF Refresh, Cancel, Return, ReadInv, WorkerOK, controllerVars
  <1>5. EndOK'
    <2>1. CASE Return
      BY <2>1 DEF Return, ReadInv, EndOK, WorkerOK
    <2>. QED
      BY <2>1 DEF Refresh, Cancel, Stop, StopInformers, Restart, ReadInv, EndOK,
                  controllerVars
  <1>. QED  BY <1>0, <1>1, <1>2, <1>3, <1>4, <1>5 DEF ReadInv

\* The initial states satisfy the invariant.
LEMMA InitIsSound == Init => ReadInv
  <1> SUFFICES ASSUME Init PROVE ReadInv
    OBVIOUS
  <1>1. StoreOK
    <2>1. CASE StoreInit
      BY <2>1, StoreAssumption, ReadAssumption
      DEF StoreInit, StoreOK, StoreTypeOK, Exists, read, Identities, DesireTypes
    <2>2. ASSUME NEW tg \in Targets, NEW o \in Owners, NEW v \in TargetVersions,
                 births = 1,
                 items = [id \in Identities |->
                    IF id = read(tg) THEN NewRecord(o, v, 1) ELSE NoRecord]
          PROVE  StoreOK
      <3>1. NewRecord(o, v, 1) \in Records
        BY DEF NewRecord, Records
      <3>2. NewRecord(o, v, 1).spec = v /\ NewRecord(o, v, 1).status = NoStatus
        BY DEF NewRecord
      <3>3. [spec |-> v, status |-> NoStatus] \in Views
        BY DEF Views
      <3>4. StoreTypeOK
        BY <2>2, <3>1, StoreAssumption, ReadAssumption DEF StoreTypeOK
      <3>5. \A k \in Targets : Exists(items, read(k)) =>
               items[read(k)] = NewRecord(o, v, 1)
        BY <2>2 DEF Exists, read, Identities, DesireTypes
      <3>. QED  BY <3>2, <3>3, <3>4, <3>5 DEF StoreOK
    <2>. QED  BY <2>1, <2>2 DEF Init
  <1>2. WorkerOK
    BY IdleIsSound DEF Init, WorkerOK
  <1>3. PollOK
    BY WaitingIsSound DEF Init, PollOK
  <1>4. ClusterOK /\ MapperOK
    BY DEF Init, ClusterOK, MapperOK
  <1>5. InformerOK
    BY DEF Init, InformerOK
  <1>6. EndOK
    BY DEF Init, EndOK
  <1>. QED  BY <1>1, <1>2, <1>3, <1>4, <1>5, <1>6 DEF ReadInv

\* Every step keeps the invariant.
LEMMA NextKeeps == ReadInv /\ [Next]_vars => ReadInv'
  <1> SUFFICES ASSUME ReadInv, [Next]_vars PROVE ReadInv'
    OBVIOUS
  <1>1. CASE UNCHANGED vars
    BY <1>1
    DEF vars, ReadInv, StoreOK, StoreTypeOK, Exists, storeVars, ClusterOK,
        clusterVars, MapperOK, InformerOK, WorkerOK, PollOK, EndOK, controllerVars
  <1>. QED
    BY <1>1, EnvironmentKeeps, InformerStepsKeep, WorkerStepsKeep, PollStepsKeep,
       ReconcileKeeps, EndKeeps
    DEF Next, Failure, PollStep

\* The invariant holds of every behaviour.
THEOREM ReadInvariant == Spec => []ReadInv
  BY InitIsSound, NextKeeps, PTL DEF Spec

-----------------------------------------------------------------------------
(***************************************************************************)
(* The properties                                                          *)
(***************************************************************************)

\* The controller, its informers, workers and poll loop keep their types, and
\* what each step uses was set by the steps before it.
THEOREM ReadTypes == Spec => []ReadTypeOK
  <1>1. ReadInv => ReadTypeOK
    <2> SUFFICES ASSUME ReadInv PROVE ReadTypeOK
      OBVIOUS
    <2>1. \A tg \in Targets : SyncOK(worker[tg], informer[tg])
      BY DEF ReadInv, WorkerOK
    <2>2. worker \in [Targets -> Workers]
      BY <2>1 DEF SyncOK, ReadInv, WorkerOK
    <2>3. \A tg \in Targets :
             /\ worker[tg].at \in {"lister", "lookup", "live"}
                   => worker[tg].d # NoRecord
             /\ worker[tg].at = "lookup" => ListerOf(tg) # NoInformer
             /\ worker[tg].at = "write" <=> worker[tg].status # NoStatus
      BY <2>1 DEF SyncOK, ListerOf
    <2>. QED
      BY <2>2, <2>3 DEF ReadTypeOK, ReadInv, StoreOK, ClusterOK, MapperOK,
                        InformerOK, PollOK, EndOK
  <1>. QED  BY <1>1, ReadInvariant, PTL

\* When Start has returned, no informer and no worker of it is left, although
\* a tick of the poll loop may have been under way when it was canceled.
THEOREM ReturnsClean == Spec => []NothingLeftRunning
  <1>1. ReadInv => NothingLeftRunning
    BY DEF ReadInv, EndOK, NothingLeftRunning
  <1>. QED  BY <1>1, ReadInvariant, PTL

\* The step that concludes a lookup with NotFound had a synced, empty cache.
LEMMA OnlyLookUpFinds ==
    ASSUME ReadInv, [Next]_vars, NEW tg \in Targets,
           worker[tg].at = "lookup", worker'[tg].status = notFound
    PROVE  LookUp(tg)
  <1>1. worker[tg].status # notFound /\ notFound # NoStatus
    BY SyncTypes, StatusTypes, ReadAssumption DEF SyncOK
  <1>2. worker'[tg] # worker[tg]
    BY <1>1
  <1>3. worker[tg] \in Workers
    BY SyncTypes
  <1>4. ~KeepListers
    BY <1>1, <1>3 DEF KeepListers, Workers
  <1>5. ~Restart
    BY <1>1 DEF Restart, Idle
  <1>6. \A k \in Targets : WorkerStep(k) \/ DequeueFails(k) \/ ObserveLiveFails(k)
                           \/ WriteFails(k) => LookUp(tg)
    <2> SUFFICES ASSUME NEW k \in Targets,
                        WorkerStep(k) \/ DequeueFails(k) \/ ObserveLiveFails(k)
                        \/ WriteFails(k)
                 PROVE  LookUp(tg)
      OBVIOUS
    <2>1. \/ worker' = worker
          \/ worker' = [worker EXCEPT ![k] = worker'[k]]
      BY DEF WorkerStep, Dequeue, DequeueFails, Lister, LookUp, Observe, ObserveLive,
             ObserveLiveFails, Write, WriteFails, Conclude, ReadInv, WorkerOK
    <2>2. k = tg
      BY <1>2, <2>1 DEF ReadInv, WorkerOK
    <2>. QED
      BY <1>2, <2>2 DEF WorkerStep, Dequeue, DequeueFails, Lister, ObserveLive,
                        ObserveLiveFails, Write, WriteFails, Idle
  <1>. QED
    BY <1>2, <1>4, <1>5, <1>6
    DEF Next, vars, controllerVars, Environment, CreateDesire, DeleteReadDesire,
        ChangeObject, ChangeServed, InformerStep, ListObject, WatchObject, Resync,
        ReportSync, ReportTimeout, ByInformer, Failure, PollStep, List, Resolve,
        ResolveNoMatch, ResolveFails, Record, RecordFails, Reconcile, Refresh,
        Cancel, Stop, StopInformers, Return

\* A worker that asks an informer concludes NotFound only if the target was
\* absent at some time since the informer was started, whatever happens
\* between its reading of HasSynced and its reading of the cache.
THEOREM AbsenceIsReal == Spec => AbsenceIsObserved
  <1> DEFINE Act == \A tg \in Targets :
                       worker[tg].at = "lookup" /\ worker'[tg].status = notFound
                           => ListerOf(tg).wasAbsent
  <1>1. ReadInv /\ [Next]_vars => Act
    <2> SUFFICES ASSUME ReadInv, [Next]_vars, NEW tg \in Targets,
                        worker[tg].at = "lookup", worker'[tg].status = notFound
                 PROVE  ListerOf(tg).wasAbsent
      OBVIOUS
    <2>1. LookUp(tg)
      BY OnlyLookUpFinds
    <2> DEFINE inf == ListerOf(tg)
    <2>a. \A s : s # notFound => ~Conclude(tg, s)
      <3> SUFFICES ASSUME NEW s, s # notFound, Conclude(tg, s) PROVE FALSE
        OBVIOUS
      <3>1. \/ worker'[tg] = Idle
            \/ worker'[tg] = [Idle EXCEPT !.at = "write", !.status = s]
        BY DEF Conclude, ReadInv, WorkerOK
      <3>2. Idle.status = NoStatus /\ NoStatus # notFound
        BY StatusTypes, ReadAssumption DEF Idle
      <3>. QED  BY <3>1, <3>2 DEF Idle
    <2>b. kubeAPIError(worker[tg].d.status) # notFound
          /\ synced(inf.version, inf.cache) # notFound
      BY DEF kubeAPIError, synced, notFound
    <2>c. worker' # [worker EXCEPT ![tg].at = "live"]
      <3>1. worker[tg].status = NoStatus /\ worker[tg] \in Workers
            /\ NoStatus # notFound
        BY SyncTypes, StatusTypes, ReadAssumption DEF SyncOK
      <3>. QED  BY <3>1 DEF ReadInv, WorkerOK, Workers
    <2>2. ListerOf(tg).cache = Absent /\ worker[tg].synced
      BY <2>1, <2>a, <2>b, <2>c DEF LookUp, Observe
    <2>3. ListerOf(tg).synced
      BY <2>2, SyncTypes DEF SyncOK, ListerOf
    <2>. QED  BY <2>2, <2>3, SyncTypes DEF Honest
  <1>2. Spec => [][Act]_vars
    BY <1>1, ReadInvariant, PTL DEF Spec
  <1>. QED  BY <1>2 DEF AbsenceIsObserved

\* Failures are counted.
LEMMA FailuresCounted ==
    ASSUME failures \in Nat, [Next]_vars
    PROVE  failures' \in Nat
  <1>1. (Change \/ Fail \/ NoFail \/ UNCHANGED vars) => failures' \in Nat
    BY DEF Change, Fail, NoFail, vars
  <1>2. Environment => Change
    BY DEF Environment, CreateDesire, DeleteReadDesire, ChangeObject, ChangeServed
  <1>3. Failure => Fail \/ NoFail
    BY Zenon DEF Failure, ReportTimeout, ByInformer, DequeueFails, ObserveLiveFails,
           WriteFails, ResolveFails, RecordFails, Cancel, Restart
  <1>4. PollStep \/ Refresh \/ Stop \/ Return => NoFail
    BY Zenon DEF PollStep, List, Record, Reconcile, Resolve, ResolveNoMatch, Refresh, Stop,
           StopInformers, Return
  <1>5. \A tg \in Targets : InformerStep(tg) \/ Resync(tg) \/ WorkerStep(tg) => NoFail
    BY Zenon DEF InformerStep, ListObject, WatchObject, ReportSync, Resync, ByInformer,
           WorkerStep, Dequeue, Lister, LookUp, ObserveLive, Write
  <1>. QED  BY <1>1, <1>2, <1>3, <1>4, <1>5 DEF Next

\* A tick that lists, visits and records goes on; of a running controller that
\* is not restarted, only Reconcile ends it.
LEMMA OnlyReconcileEnds ==
    ASSUME ReadInv, failures \in Nat, [Next]_vars, poll.at = "visit",
           poll' = Waiting, run' = "running", failures' = failures
    PROVE  Reconcile
  <1>1. poll' # poll /\ poll'.at = "idle" /\ poll \in Polls
    BY WaitingIsSound DEF ReadInv, PollOK
  <1>2. ~Restart /\ ~Stop /\ ~List
    BY DEF Restart, Fail, Stop, StopInformers, List
  <1>3. ASSUME NEW tg \in Targets
        PROVE  ~Resolve(tg) /\ ~PreCheck(tg) /\ poll' # [poll EXCEPT !.todo = @ \ {tg}]
    <2>1. [poll EXCEPT !.todo = @ \ {tg}, !.want = @ \cup {tg}].at = poll.at
      BY <1>1 DEF Polls
    <2>2. [poll EXCEPT !.todo = @ \ {tg}].at = poll.at
      BY <1>1 DEF Polls
    <2>3. \A st : [[poll EXCEPT !.todo = @ \ {tg}] EXCEPT !.at = "record", !.cur = tg,
                                                       !.status = st].at = "record"
      BY <1>1 DEF Polls
    <2>. QED  BY Zenon, <1>1, <2>1, <2>2, <2>3 DEF Resolve, PreCheck
  <1>4. ~Record /\ ~RecordFails
    BY DEF Record, RecordFails
  <1>5. \A tg \in Targets : ~ResolveNoMatch(tg) /\ ~ResolveFails(tg)
    BY <1>3 DEF ResolveNoMatch, ResolveFails
  <1>. QED
    BY Zenon, <1>1, <1>2, <1>3, <1>4, <1>5
    DEF Next, vars, controllerVars, Environment, CreateDesire, DeleteReadDesire,
        ChangeObject, ChangeServed, InformerStep, ListObject, WatchObject, Resync,
        ReportSync, ReportTimeout, ByInformer, WorkerStep, ByWorker, Dequeue,
        DequeueFails, Lister, LookUp, ObserveLive, ObserveLiveFails, Write,
        WriteFails, Failure, PollStep, Refresh, Cancel, Return

\* An informer on the version that its desire declares survives every tick
\* that listed the desire, whether or not the tick could resolve the version.
THEOREM HealthyInformersStay == Spec => HealthyInformerStays
  <1> DEFINE Act == \A tg \in Targets :
                LET rec == items[read(tg)]
                IN /\ informer[tg] # NoInformer /\ poll.at = "visit" /\ poll' = Waiting
                   /\ run' = "running" /\ failures' = failures
                   /\ rec # NoRecord /\ rec.spec = informer[tg].version
                   /\ poll.listed[tg] = [spec |-> rec.spec, birth |-> rec.birth]
                   => informer'[tg] = informer[tg]
             Counted == failures \in Nat
  <1>1. ReadInv /\ Counted /\ [Next]_vars => Act
    <2> SUFFICES ASSUME ReadInv, Counted, [Next]_vars, NEW tg \in Targets,
                        informer[tg] # NoInformer, poll.at = "visit", poll' = Waiting,
                        run' = "running", failures' = failures,
                        items[read(tg)] # NoRecord,
                        items[read(tg)].spec = informer[tg].version,
                        poll.listed[tg] = [spec |-> items[read(tg)].spec,
                                           birth |-> items[read(tg)].birth]
                 PROVE  informer'[tg] = informer[tg]
      OBVIOUS
    <2>1. informer'[tg] = Reconciled(tg)
      BY OnlyReconcileEnds DEF Reconcile
    <2>2. poll.listed[tg] # NoRecord
      <3>1. items[read(tg)] \in Records /\ read(tg) \in Identities
        BY DEF ReadInv, StoreOK, StoreTypeOK, read, Identities, DesireTypes
      <3>2. informer[tg].version \in TargetVersions
        BY DEF ReadInv, InformerOK, Informers
      <3>3. poll.listed[tg] \in Listings
        BY <3>1, <3>2 DEF Listings, Records
      <3>. QED  BY <3>3, ReadAssumption
    <2>3. poll.listed[tg].spec = informer[tg].version
      OBVIOUS
    <2>. QED  BY <2>1, <2>2, <2>3 DEF Reconciled
  <1>2. Init => Counted
    BY DEF Init
  <1>3. Counted /\ [Next]_vars => Counted'
    BY FailuresCounted
  <1>4. Spec => [][Act]_vars
    BY <1>1, <1>2, <1>3, ReadInvariant, PTL DEF Spec
  <1>. QED  BY <1>4 DEF HealthyInformerStays

=============================================================================
