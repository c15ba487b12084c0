-------------------------- MODULE SerialLoopProofs --------------------------
(***************************************************************************)
(* What the serial loop keeps, for any number of targets, changes and      *)
(* failures.                                                               *)
(*                                                                         *)
(* A DeleteDesire that says Deleted is about an absent object, as long as  *)
(* no request lands after its client gave up on it.  The argument: only a  *)
(* server-side apply creates objects; between the store check that         *)
(* precedes it and the apply itself no delete of the target can be, or     *)
(* become, completed; and between the GET that finds nothing and the       *)
(* status write no apply runs.                                             *)
(*                                                                         *)
(* Under the same assumption no apply follows a delete of its target in a  *)
(* tick: the tick has deleted nothing while it applies.                    *)
(*                                                                         *)
(* A completed delete stays completed whatever lands late: the loop looks  *)
(* at the stored status before it acts, and is the only one to write it.   *)
(*                                                                         *)
(* A condition that says to be of the stored generation, written in this   *)
(* life of the desire, is of the stored spec, and an apply that is in      *)
(* force is not undone by the loop.  Both rest on what the loop knows of   *)
(* an apply that it listed some time ago: if the stored one is of the same *)
(* life, its generation is not below the listed one, equal generations     *)
(* have equal specs, and nobody has written its status in between.         *)
(***************************************************************************)
EXTENDS SerialLoopTypeProofs

(***************************************************************************)
(* Deletes and the order of the two passes, when nothing lands late        *)
(***************************************************************************)

\* Only the status write of a DeleteDesire completes it.
LEMMA CompletedBefore ==
    ASSUME TypeInv, [Next]_vars, NEW tg \in Targets, Completed(items', tg)
    PROVE  \/ Completed(items, tg)
           \/ StatusWritten /\ pass = "delete" /\ cur = tg /\ IsDeleted(outcome.status)
<1> DEFINE id == <<"delete", tg>>
<1>0. id \in Identities /\ StoreInv /\ births + 1 \in Nat
  <2>1. id \in Identities /\ StoreInv
    BY Zenon, Siblings DEF TypeInv
  <2>2. births + 1 \in Nat
    BY <2>1, StoreAssumption DEF StoreInv
  <2> QED
    BY <2>1, <2>2
<1>1. items'[id] # NoRecord /\ IsDeleted(items'[id].status)
  BY DEF Completed, Exists
<1>2. CASE items'[id] = items[id]
  BY <1>1, <1>2 DEF Completed, Exists
<1>3. CASE Adapter
  <2>1. AdapterOnDelete(tg)
    BY Zenon, <1>0, <1>3, AdapterFacts
  <2>2. ASSUME NEW o \in Owners, items'[id] = NewRecord(o, NoSpec, births + 1)
        PROVE  FALSE
    <3>1. items'[id].status = NoStatus
      BY <1>0, <2>2, NewRecordFields
    <3> QED
      BY <1>1, <3>1 DEF IsDeleted
  <2> QED
    BY <1>1, <1>2, <2>1, <2>2 DEF AdapterOnDelete
<1>4. CASE StatusWritten /\ <<pass, cur>> = id
  <2>1. items'[id].status = outcome.status
    BY <1>4, StatusWrittenFacts, ReportedFacts
  <2> QED
    BY <1>1, <1>4, <2>1
<1>5. CASE StatusWritten /\ <<pass, cur>> # id
  BY <1>0, <1>2, <1>5, StatusWrittenFacts
<1>6. StoreMove
  BY StoreMoves
<1> QED
  BY <1>2, <1>3, <1>4, <1>5, <1>6 DEF StoreMove, storeVars

\* Only an apply in progress creates an object, when nothing is in flight.
LEMMA AbsentBefore ==
    ASSUME TypeInv, inflight = {}, [Next]_vars, NEW tg \in Targets, cluster[tg] = Absent
    PROVE  cluster'[tg] = Absent \/ (at = "apply" /\ tg = cur)
<1>1. ClusterMove
  BY ClusterMoves
<1>2. /\ cluster \in Clusters
      /\ at \in {"apply", "delete"} => cur \in Targets
      /\ at = "apply" => d.spec \in Specs
  BY DEF TypeInv, LoopTypeOK, DataOK, Clusters, Busy, Held
<1>3. CASE at = "apply" /\ cluster' \in Applied(cur, d.spec)
  BY <1>2, <1>3, AppliedFacts
<1>4. CASE \E x \in Targets : cluster' = Removed(x)
  BY <1>2, <1>4, RemovedFacts
<1>5. CASE \E x \in Targets : cluster' = [cluster EXCEPT ![x] = Absent]
  BY <1>2, <1>5 DEF Clusters
<1> QED
  BY <1>1, <1>2, <1>3, <1>4, <1>5 DEF ClusterMove

\* The step that applies never meets a completed delete, neither does a status
\* about to be written, and a tick has deleted nothing before its delete pass.
LoopInv ==
    /\ inflight = {}
    /\ \A tg \in Targets : Completed(items, tg) => cluster[tg] = Absent
    /\ at = "apply" => ~Completed(items, cur)
    /\ at = "write" /\ pass = "delete" /\ IsDeleted(outcome.status)
          => cluster[cur] = Absent
    /\ pass = "apply" => deletes = {}

LEMMA LoopInit ==
    ASSUME Init
    PROVE  LoopInv
<1>1. \A tg \in Targets : cluster[tg] = Absent
  BY DEF Init
<1> QED
  BY <1>1 DEF Init, LoopInv

LEMMA LoopNext ==
    ASSUME ~LateLanding, TypeInv, LoopInv, [Next]_vars
    PROVE  LoopInv'
<1>1. LoopMove /\ InflightMove
  BY LoopMoves, ClusterMoves DEF TypeInv
<1>2. inflight = {} /\ inflight' = {}
  BY <1>1 DEF LoopInv, InflightMove
<1>3. /\ Busy => cur \in Targets
      /\ at = "delete" => pass = "delete"
      /\ pass \in {"apply", "delete"}
      /\ at \in {"apply", "write"} => Busy
  BY DEF TypeInv, LoopTypeOK, Busy
<1>4. ASSUME NEW tg \in Targets, Completed(items', tg)
      PROVE  cluster'[tg] = Absent
  <2>1. CASE Completed(items, tg)
    <3>1. cluster[tg] = Absent /\ ~(at = "apply" /\ tg = cur)
      BY <2>1 DEF LoopInv
    <3> QED
      BY <1>2, <3>1, AbsentBefore
  <2>2. CASE StatusWritten /\ pass = "delete" /\ cur = tg /\ IsDeleted(outcome.status)
    <3>1. cluster[tg] = Absent /\ at = "write"
      BY <2>2 DEF LoopInv, StatusWritten
    <3> QED
      BY <1>2, <3>1, AbsentBefore
  <2> QED
    BY <1>4, <2>1, <2>2, CompletedBefore
<1>5. ASSUME at' = "apply"
      PROVE  ~Completed(items', cur')
  <2>1. cur' = cur /\ cur \in Targets /\ ~Completed(items, cur)
    <3>1. CASE UNCHANGED loopVars
      BY <1>3, <1>5, <3>1 DEF loopVars, LoopInv
    <3>2. CASE Reconciles
      <4>1. cur' = cur /\ cur \in Targets /\ Exists(items, <<"apply", cur>>)
        BY <1>3, <1>5, <3>2 DEF Reconciles
      <4> QED
        BY <4>1 DEF TypeInv, StoreInv, Sound, Completed
    <3> QED
      BY <1>1, <1>5, <3>1, <3>2 DEF LoopMove, Lists, Picks, Switches, Restarts
  <2>2. ~StatusWritten
    BY <1>5 DEF StatusWritten
  <2> QED
    BY <2>1, <2>2, CompletedBefore
<1>6. ASSUME at' = "write", pass' = "delete", IsDeleted(outcome'.status)
      PROVE  cluster'[cur'] = Absent
  <2>1. CASE UNCHANGED loopVars
    <3>1. cur' = cur /\ cur \in Targets /\ at = "write" /\ cluster[cur] = Absent
      BY <1>3, <1>6, <2>1 DEF loopVars, LoopInv
    <3> QED
      BY <1>2, <3>1, AbsentBefore
  <2>2. CASE Reconciles
    <3>1. cur' = cur /\ cur \in Targets
      BY <1>3, <2>2 DEF Reconciles
    <3>2. ASSUME NEW reason \in LoopReasons, Decides(reason)
          PROVE  cluster'[cur] = Absent
      <4>1. outcome'.status.reason = reason
        BY <3>2 DEF Decides, Report, Status
      <4> QED
        BY <1>6, <3>2, <4>1 DEF Decides, IsDeleted
    <3>3. ASSUME Completed(items, cur), UNCHANGED cluster
          PROVE  cluster'[cur] = Absent
      BY <3>1, <3>3 DEF LoopInv
    <3> QED
      BY <1>6, <2>2, <3>1, <3>2, <3>3 DEF Reconciles
  <2> QED
    BY <1>1, <1>6, <2>1, <2>2 DEF LoopMove, Lists, Picks, Switches, Restarts
<1>7. ASSUME pass' = "apply"
      PROVE  deletes' = {}
  <2>1. pass = "apply" => deletes = {}
    BY DEF LoopInv
  <2>2. CASE UNCHANGED loopVars
    BY <1>7, <2>1, <2>2 DEF loopVars
  <2>3. CASE Reconciles
    BY <1>3, <1>7, <2>1, <2>3 DEF Reconciles
  <2>4. CASE Lists \/ Picks
    BY <1>7, <2>1, <2>4 DEF Lists, Picks
  <2>5. CASE Switches \/ Restarts
    BY <1>7, <2>5 DEF Switches, Restarts
  <2> QED
    BY <1>1, <2>2, <2>3, <2>4, <2>5 DEF LoopMove
<1>8. (\A tg \in Targets : Completed(items, tg) => cluster[tg] = Absent)'
  BY <1>4 DEF Completed, Exists
<1>9. (at = "apply" => ~Completed(items, cur))'
  BY <1>5 DEF Completed, Exists
<1> QED
  BY <1>2, <1>6, <1>7, <1>8, <1>9 DEF LoopInv, IsDeleted

\* The invariant of the loop, for any targets, adapters, operators and failures,
\* when no request lands after its client gave up on it: the step that applies
\* never meets a completed delete, neither does the status about to be written,
\* and a tick has deleted nothing while it applies.
THEOREM LoopInvariant ==
    ASSUME ~LateLanding
    PROVE  Spec => []LoopInv
<1>1. Init => LoopInv
  BY LoopInit
<1>2. TypeInv /\ LoopInv /\ [Next]_vars => LoopInv'
  BY LoopNext
<1> QED
  BY <1>1, <1>2, LoopTypeInvariant, PTL DEF Spec

\* Under the same assumption a DeleteDesire that reports Deleted is about an
\* object that is not in the cluster.
THEOREM DeletedIsAbsent ==
    ASSUME ~LateLanding
    PROVE  Spec => []DeletedMeansAbsent
<1>1. Spec => []LoopInv
  BY LoopInvariant
<1>2. LoopInv => DeletedMeansAbsent
  BY DEF LoopInv, DeletedMeansAbsent, Completed
<1> QED
  BY <1>1, <1>2, PTL

\* What a step does to the cluster while the tick has deletes to protect.
ProtectsDeletes ==
    \A tg \in deletes \cap deletes' :
        cluster[tg] = Absent \/ cluster[tg].terminating
            => cluster'[tg] = cluster[tg] \/ cluster'[tg] = Absent

\* No apply takes effect on a target after its delete in the same tick, for any
\* number of targets, changes and failures, when no request lands after its
\* client gave up on it: what a tick has deleted is not touched by an apply
\* before the loop comes back to its first reconciler.
THEOREM AppliesPrecedeDeletes ==
    ASSUME ~LateLanding
    PROVE  Spec => NoApplyAfterDelete
<1>1. ASSUME TypeInv, LoopInv, [Next]_vars
      PROVE  ProtectsDeletes
  <2> SUFFICES ASSUME NEW tg \in deletes,
                      cluster[tg] = Absent \/ cluster[tg].terminating
               PROVE  cluster'[tg] = cluster[tg] \/ cluster'[tg] = Absent
    BY DEF ProtectsDeletes
  <2>1. /\ cluster \in Clusters /\ tg \in Targets /\ inflight = {}
        /\ at = "delete" => cur \in Targets
    BY <1>1 DEF TypeInv, LoopTypeOK, Clusters, LoopInv
  <2>2. at # "apply"
    BY <1>1 DEF TypeInv, LoopTypeOK, LoopInv
  <2>3. CASE \E x \in Targets : cluster' = Removed(x)
    BY <2>1, <2>3, RemovedFacts
  <2>4. CASE \E x \in Targets : cluster' = [cluster EXCEPT ![x] = Absent]
    BY <2>1, <2>4 DEF Clusters
  <2>5. ClusterMove
    BY <1>1, ClusterMoves
  <2> QED
    BY <2>1, <2>2, <2>3, <2>4, <2>5 DEF ClusterMove
<1>2. Spec => []LoopInv
  BY LoopInvariant
<1>3. TypeInv /\ LoopInv /\ [Next]_vars => ProtectsDeletes
  BY <1>1
<1>4. ProtectsDeletes <=>
        \A tg \in deletes \cap deletes' :
            cluster[tg] = Absent \/ cluster[tg].terminating
                => cluster'[tg] = cluster[tg] \/ cluster'[tg] = Absent
  BY DEF ProtectsDeletes
<1> QED
  BY <1>2, <1>3, <1>4, LoopTypeInvariant, PTL DEF Spec, NoApplyAfterDelete

-----------------------------------------------------------------------------
(***************************************************************************)
(* Completed deletes                                                       *)
(***************************************************************************)

\* What may replace a Deleted report within the life of a desire.
Lasting == {"Deleted", "PreCheckFailed"}

\* The loop acts on a delete only while it is not completed, and has nothing
\* else than a lasting report for a completed one.
StableInv ==
    /\ at \in {"get", "delete", "confirm"} => ~Completed(items, cur)
    /\ at = "write" /\ pass = "delete" /\ Completed(items, cur)
          => outcome.status.reason \in Lasting

\* The property, as a formula about one step.
CompletedStays ==
    \A tg \in Targets :
        LET id == <<"delete", tg>>
        IN SameLife(id) /\ IsDeleted(items[id].status)
             => items'[id].status.reason \in Lasting

LEMMA StableNext ==
    ASSUME TypeInv, StableInv, [Next]_vars
    PROVE  StableInv'
<1>1. LoopMove
  BY LoopMoves DEF TypeInv
<1>2. Busy => cur \in Targets
  BY DEF TypeInv, LoopTypeOK, Busy
<1>3. ASSUME at' # "next", cur \in Targets, Completed(items', cur)
      PROVE  Completed(items, cur)
  BY <1>3, CompletedBefore DEF StatusWritten
<1>4. ASSUME at' \in {"get", "delete", "confirm"}
      PROVE  ~Completed(items', cur')
  <2>1. CASE UNCHANGED loopVars
    <3>1. at' = at /\ cur' = cur /\ cur \in Targets /\ ~Completed(items, cur)
      BY <1>2, <1>4, <2>1 DEF loopVars, StableInv, Busy
    <3> QED
      BY <1>3, <1>4, <3>1
  <2>2. CASE Reconciles
    <3>1. cur' = cur /\ cur \in Targets /\ ~Completed(items, cur)
      BY <1>2, <1>4, <2>2 DEF Reconciles, StableInv
    <3> QED
      BY <1>3, <1>4, <3>1
  <2> QED
    BY <1>1, <1>4, <2>1, <2>2 DEF LoopMove, Lists, Picks, Switches, Restarts
<1>5. ASSUME at' = "write", pass' = "delete", Completed(items', cur')
      PROVE  outcome'.status.reason \in Lasting
  <2>1. CASE UNCHANGED loopVars
    <3>1. cur' = cur /\ at = "write" /\ pass = "delete" /\ cur \in Targets /\ outcome' = outcome
      BY <1>2, <1>5, <2>1 DEF loopVars, Busy
    <3> QED
      BY <1>3, <1>5, <3>1 DEF StableInv
  <2>2. CASE Reconciles
    <3>1. cur' = cur /\ cur \in Targets /\ pass = "delete"
      BY <1>2, <1>5, <2>2 DEF Reconciles
    <3>2. Completed(items, cur)
      BY <1>3, <1>5, <3>1
    <3>3. at \notin {"get", "delete", "confirm"}
      BY <3>2 DEF StableInv
    <3>4. ASSUME NEW reason \in LoopReasons, Decides(reason)
          PROVE  outcome'.status.reason \in Lasting
      <4>1. reason = "PreCheckFailed"
        BY <3>1, <3>3, <3>4 DEF Decides
      <4> QED
        BY <3>4, <4>1 DEF Decides, Report, Status, Lasting
    <3>5. ASSUME outcome' = Restamp(items[<<"delete", cur>>])
          PROVE  outcome'.status.reason \in Lasting
      BY <3>5 DEF Restamp, Status, Lasting
    <3> QED
      BY <1>5, <2>2, <3>4, <3>5 DEF Reconciles
  <2> QED
    BY <1>1, <1>5, <2>1, <2>2 DEF LoopMove, Lists, Picks, Switches, Restarts
<1>6. (at \in {"get", "delete", "confirm"} => ~Completed(items, cur))'
  BY <1>4 DEF Completed, Exists
<1>7. (at = "write" /\ pass = "delete" /\ Completed(items, cur)
          => outcome.status.reason \in Lasting)'
  BY <1>5 DEF Completed, Exists
<1> QED
  BY <1>6, <1>7 DEF StableInv

LEMMA StableStep ==
    ASSUME TypeInv, StableInv, [Next]_vars
    PROVE  CompletedStays
<1> SUFFICES ASSUME NEW tg \in Targets, SameLife(<<"delete", tg>>),
                    IsDeleted(items[<<"delete", tg>>].status)
             PROVE  items'[<<"delete", tg>>].status.reason \in Lasting
  BY DEF CompletedStays
<1> DEFINE id == <<"delete", tg>>
<1>1. id \in Identities /\ Exists(items, id) /\ items'[id] # NoRecord /\ StoreInv
  BY Zenon, Siblings DEF SameLife, TypeInv
<1>2. CASE items'[id] = items[id]
  BY <1>2 DEF IsDeleted, Lasting
<1>3. CASE Adapter
  <2>1. AdapterOnDelete(tg)
    BY Zenon, <1>1, <1>3, AdapterFacts
  <2> QED
    BY <1>1, <1>2, <2>1 DEF AdapterOnDelete
<1>4. CASE StatusWritten /\ <<pass, cur>> = id
  <2>1. items'[id].status = outcome.status
    BY <1>4, StatusWrittenFacts, ReportedFacts
  <2>2. at = "write" /\ pass = "delete" /\ cur = tg /\ Completed(items, tg)
    BY <1>1, <1>4 DEF StatusWritten, Completed
  <2> QED
    BY <2>1, <2>2 DEF StableInv
<1>5. CASE StatusWritten /\ <<pass, cur>> # id
  BY <1>1, <1>2, <1>5, StatusWrittenFacts
<1>6. StoreMove
  BY StoreMoves
<1> QED
  BY <1>2, <1>3, <1>4, <1>5, <1>6 DEF StoreMove, storeVars

\* A completed delete stays completed for the rest of its life, or becomes
\* PreCheckFailed, for any number of targets, changes and failures, and even if
\* requests land after their clients gave up on them: reconcileOne looks at the
\* stored status before it acts, and no one else writes it.
THEOREM CompletedDeletesStay == Spec => CompletionIsStable
<1>1. Init => StableInv
  BY DEF Init, StableInv
<1>2. TypeInv /\ StableInv /\ [Next]_vars => StableInv' /\ CompletedStays
  BY StableNext, StableStep
<1>3. CompletedStays <=>
        \A tg \in Targets :
            LET id == <<"delete", tg>>
            IN SameLife(id) /\ IsDeleted(items[id].status)
                 => items'[id].status.reason \in {"Deleted", "PreCheckFailed"}
  BY DEF CompletedStays, Lasting
<1> QED
  BY <1>1, <1>2, <1>3, LoopTypeInvariant, PTL DEF Spec, CompletionIsStable

-----------------------------------------------------------------------------
(***************************************************************************)
(* Conditions and stale desires                                            *)
(***************************************************************************)

\* The status of an apply, if it was written in this life of it, is about a
\* generation that the apply has reached, and about the spec of it.
Dated(r) ==
    r.status # NoStatus /\ r.status.life = r.birth =>
        /\ r.status.observed \in Nat
        /\ r.status.observed <= r.generation
        /\ r.status.observed = r.generation => SpecEqual(r.status.of, r.spec)

\* An apply as it was listed, r, and as it is stored now, rec.  In the same life
\* the stored one has at least its generation, and its spec if they are equal.
NotAhead(r, rec) ==
    rec # NoRecord /\ rec.birth = r.birth =>
        /\ r.generation <= rec.generation
        /\ r.generation = rec.generation => SpecEqual(r.spec, rec.spec)

\* No one has written a status since.
NotReported(r, rec) ==
    rec # NoRecord =>
        rec.status = NoStatus \/ (rec.birth = r.birth /\ rec.status = r.status)

Follows(r, rec) == Dated(r) /\ NotAhead(r, rec) /\ NotReported(r, rec)

Unreported(tg) ==
    Exists(items, <<"apply", tg>>) => items[<<"apply", tg>>].status = NoStatus

\* What the loop holds of a target, listed or in hand.
ListedInv ==
    IF pass = "apply"
    THEN \A tg \in DOMAIN listed : Follows(listed[tg], items[<<"apply", tg>>])
    ELSE \A tg \in DOMAIN listed : Unreported(tg)

InHandInv ==
    Busy =>
        /\ cur \notin DOMAIN listed
        /\ IF pass = "apply" THEN Follows(d, items[<<"apply", cur>>]) ELSE Unreported(cur)

\* The apply pass holds applies whose status it is the only one to write, and
\* the delete pass holds targets whose applies, if any, are younger than its
\* list and have no status yet.
StaleInv ==
    /\ \A tg \in Targets : Exists(items, <<"apply", tg>>) => Dated(items[<<"apply", tg>>])
    /\ ListedInv
    /\ InHandInv
    /\ at = "write" /\ pass = "apply" =>
          /\ outcome.status.observed = d.generation
          /\ outcome.status.of = d.spec
          /\ outcome.status.life = d.birth

\* One step of an adapter, or none, on an apply.
Ages(rec, new, b) ==
    \/ new \in {rec, NoRecord}
    \/ /\ new \in Records /\ new.status = NoStatus /\ new.birth = b + 1
    \/ /\ rec \in Records /\ new \in Records
       /\ new.status = rec.status /\ new.birth = rec.birth
       /\ new.generation = rec.generation + (IF SpecEqual(rec.spec, new.spec) THEN 0 ELSE 1)

LEMMA AgesDated ==
    ASSUME NEW rec, NEW new, NEW b, Ages(rec, new, b), rec # NoRecord => Dated(rec),
           rec # NoRecord => rec \in Records,
           new # NoRecord
    PROVE  Dated(new)
<1>1. CASE new = rec
  BY <1>1
<1>2. CASE new.status = NoStatus
  BY <1>2 DEF Dated
<1>3. CASE /\ rec \in Records /\ new \in Records
           /\ new.status = rec.status /\ new.birth = rec.birth
           /\ new.generation = rec.generation + (IF SpecEqual(rec.spec, new.spec) THEN 0 ELSE 1)
  <2>0. rec # NoRecord
    BY <1>3, StoreAssumption
  <2> SUFFICES ASSUME new.status # NoStatus, new.status.life = new.birth
               PROVE  /\ new.status.observed \in Nat
                      /\ new.status.observed <= new.generation
                      /\ new.status.observed = new.generation
                           => SpecEqual(new.status.of, new.spec)
    BY DEF Dated
  <2>1. /\ rec.status.observed <= rec.generation
        /\ rec.status.observed = rec.generation => SpecEqual(rec.status.of, rec.spec)
        /\ rec.status.observed \in Nat /\ rec.generation \in Nat
    BY <1>3, <2>0 DEF Dated, Records
  <2>2. CASE SpecEqual(rec.spec, new.spec)
    <3>1. new.generation = rec.generation
      BY <1>3, <2>1, <2>2
    <3> QED
      BY <1>3, <2>1, <2>2, <3>1 DEF SpecEqual
  <2>3. CASE ~SpecEqual(rec.spec, new.spec)
    <3>1. new.generation = rec.generation + 1
      BY <1>3, <2>3
    <3> QED
      BY <1>3, <2>1, <3>1
  <2> QED
    BY <2>2, <2>3
<1> QED
  BY <1>1, <1>2, <1>3 DEF Ages

LEMMA AgesFollows ==
    ASSUME NEW b \in Nat, NEW rec, NEW new, Ages(rec, new, b),
           NEW r \in Records, r.birth <= b, Follows(r, rec)
    PROVE  Follows(r, new)
<1>0. Dated(r) /\ NotAhead(r, rec) /\ NotReported(r, rec) /\ r.birth \in Nat
  BY DEF Follows, Records
<1>1. CASE new \in {rec, NoRecord}
  BY <1>0, <1>1 DEF Follows, NotAhead, NotReported
<1>2. CASE new \in Records /\ new.status = NoStatus /\ new.birth = b + 1
  <2>1. new.birth # r.birth
    BY <1>0, <1>2
  <2> QED
    BY <1>0, <1>2, <2>1 DEF Follows, NotAhead, NotReported
<1>3. CASE /\ rec \in Records /\ new \in Records
           /\ new.status = rec.status /\ new.birth = rec.birth
           /\ new.generation = rec.generation + (IF SpecEqual(rec.spec, new.spec) THEN 0 ELSE 1)
  <2>0. rec # NoRecord
    BY <1>3, StoreAssumption
  <2>1. NotReported(r, new)
    BY <1>0, <1>3, <2>0 DEF NotReported
  <2>2. ASSUME new.birth = r.birth
        PROVE  /\ r.generation <= new.generation
               /\ r.generation = new.generation => SpecEqual(r.spec, new.spec)
    <3>1. /\ r.generation <= rec.generation
          /\ r.generation = rec.generation => SpecEqual(r.spec, rec.spec)
          /\ r.generation \in Nat /\ rec.generation \in Nat
      BY <1>0, <1>3, <2>0, <2>2 DEF NotAhead, Records
    <3>2. CASE SpecEqual(rec.spec, new.spec)
      <4>1. new.generation = rec.generation
        BY <1>3, <3>1, <3>2
      <4> QED
        BY <3>1, <3>2, <4>1 DEF SpecEqual
    <3>3. CASE ~SpecEqual(rec.spec, new.spec)
      <4>1. new.generation = rec.generation + 1
        BY <1>3, <3>3
      <4> QED
        BY <3>1, <4>1
    <3> QED
      BY <3>2, <3>3
  <2> QED
    BY <1>0, <2>1, <2>2 DEF Follows, NotAhead
<1> QED
  BY <1>1, <1>2, <1>3 DEF Ages

\* The loop writes the apply in hand; otherwise an apply only ages.
WrittenNow(tg) == StatusWritten /\ pass = "apply" /\ cur = tg

LEMMA ApplyAges ==
    ASSUME TypeInv, [Next]_vars, NEW tg \in Targets, ~WrittenNow(tg)
    PROVE  Ages(items[<<"apply", tg>>], items'[<<"apply", tg>>], births)
<1> DEFINE id == <<"apply", tg>>
           rec == items[id]
           new == items'[id]
<1>0. /\ id \in Identities /\ StoreInv
      /\ rec # NoRecord => rec \in Records
  BY Zenon, Siblings DEF TypeInv, StoreInv, Sound, Db
<1>1. births + 1 \in Nat
  BY <1>0, StoreAssumption DEF StoreInv
<1>2. CASE new = rec
  BY <1>2 DEF Ages
<1>3. CASE Adapter
  <2>1. AdapterOnApply(tg)
    BY Zenon, <1>0, <1>3, AdapterFacts
  <2>2. ASSUME NEW o \in Owners, NEW s \in Specs, new = NewRecord(o, s, births + 1)
        PROVE  Ages(rec, new, births)
    <3>1. new \in Records /\ new.status = NoStatus /\ new.birth = births + 1
      BY <1>1, <2>2, NewRecordFields
    <3> QED
      BY <3>1 DEF Ages
  <2>3. ASSUME rec # NoRecord, NEW s \in Specs, new = Respecified(rec, s)
        PROVE  Ages(rec, new, births)
    <3>1. /\ new \in Records /\ new.spec = s /\ new.status = rec.status
          /\ new.birth = rec.birth
          /\ new.generation = rec.generation + (IF SpecEqual(rec.spec, s) THEN 0 ELSE 1)
      BY <1>0, <2>3, RespecifiedFacts
    <3> HIDE DEF new, rec
    <3> QED
      BY <1>0, <2>3, <3>1 DEF Ages
  <2>4. new \in {rec, NoRecord} => Ages(rec, new, births)
    BY DEF Ages
  <2> QED
    BY <2>1, <2>2, <2>3, <2>4 DEF AdapterOnApply, Exists
<1>4. CASE StatusWritten
  <2>1. <<pass, cur>> # id
    BY <1>4 DEF WrittenNow
  <2> QED
    BY <1>0, <1>2, <1>4, <2>1, StatusWrittenFacts
<1>5. StoreMove
  BY StoreMoves
<1> QED
  BY <1>2, <1>3, <1>4, <1>5 DEF StoreMove, storeVars

LEMMA StaleInit ==
    ASSUME Init
    PROVE  StaleInv
<1>1. \A tg \in Targets : ~Exists(items, <<"apply", tg>>)
  <2>1. ASSUME NEW tg \in Targets
        PROVE  ~Exists(items, <<"apply", tg>>)
    <3>1. CASE items = [id \in Identities |-> NoRecord]
      BY Zenon, <3>1, Siblings DEF Exists
    <3>2. CASE \E t \in Targets, o \in Owners : items = LegacyRecords(t, o)
      BY Zenon, <3>2, Siblings DEF Exists, LegacyRecords
    <3> QED
      BY <3>1, <3>2 DEF Init
  <2> QED
    BY <2>1
<1>2. DOMAIN listed = {} /\ at = "list"
  BY DEF Init, NoneListed
<1> QED
  BY <1>1, <1>2 DEF StaleInv, ListedInv, InHandInv, Busy

LEMMA StaleNext ==
    ASSUME TypeInv, StaleInv, [Next]_vars
    PROVE  StaleInv'
<1>1. LoopMove
  BY LoopMoves DEF TypeInv
<1>2. /\ \A tg \in Targets : Exists(items, <<"apply", tg>>) => Dated(items[<<"apply", tg>>])
      /\ ListedInv /\ InHandInv
  BY DEF StaleInv
<1>3. /\ births \in Nat /\ Sound(items) /\ items \in Db
      /\ DOMAIN listed \subseteq Targets /\ (Busy => cur \in Targets)
      /\ pass \in {"apply", "delete"}
  BY StoreAssumption DEF TypeInv, StoreInv, Sound, LoopTypeOK, Busy
<1>4. /\ \A tg \in DOMAIN listed : listed[tg] \in Records /\ listed[tg].birth <= births
      /\ Busy => d \in Records /\ d.birth <= births
  BY DEF TypeInv, DataOK, Held
<1>5. ASSUME NEW tg \in Targets, ~WrittenNow(tg), NEW r \in Records, r.birth <= births,
             Follows(r, items[<<"apply", tg>>])
      PROVE  Follows(r, items'[<<"apply", tg>>])
  <2>1. Ages(items[<<"apply", tg>>], items'[<<"apply", tg>>], births)
    BY <1>5, ApplyAges
  <2> QED
    BY <1>3, <1>5, <2>1, AgesFollows
<1>6. ASSUME NEW tg \in Targets, ~WrittenNow(tg), Unreported(tg)
      PROVE  Unreported(tg)'
  <2> DEFINE rec == items[<<"apply", tg>>]
             new == items'[<<"apply", tg>>]
  <2>1. Ages(rec, new, births)
    BY <1>6, ApplyAges
  <2>2. rec # NoRecord => rec.status = NoStatus
    BY <1>6 DEF Unreported, Exists
  <2>3. new # NoRecord => new.status = NoStatus
    <3> HIDE DEF rec, new
    <3> QED
      BY <2>1, <2>2, StoreAssumption DEF Ages
  <2> QED
    BY <2>3 DEF Unreported, Exists
<1>7. ASSUME NEW tg \in Targets, items'[<<"apply", tg>>] # NoRecord
      PROVE  Dated(items'[<<"apply", tg>>])
  <2> DEFINE rec == items[<<"apply", tg>>]
             new == items'[<<"apply", tg>>]
  <2>0. (rec # NoRecord => rec \in Records) /\ (rec # NoRecord => Dated(rec))
    BY Zenon, <1>2, <1>3, Siblings DEF Db, Exists
  <2>1. CASE ~WrittenNow(tg)
    <3>1. Ages(rec, new, births)
      BY <2>1, ApplyAges
    <3> HIDE DEF rec, new
    <3>2. new # NoRecord => Dated(new)
      BY <2>0, <3>1, AgesDated
    <3> QED
      BY <1>7, <3>2 DEF new
  <2>2. CASE WrittenNow(tg)
    <3>1. /\ StatusWritten /\ pass = "apply" /\ cur = tg /\ at = "write" /\ Busy
          /\ rec # NoRecord
      BY <2>2 DEF WrittenNow, StatusWritten, Busy, Exists
    <3>2. /\ new.status = outcome.status /\ new.birth = rec.birth
          /\ new.generation = rec.generation /\ new.spec = rec.spec
      BY <3>1, StatusWrittenFacts, ReportedFacts
    <3>3. /\ outcome.status.observed = d.generation
          /\ outcome.status.of = d.spec
          /\ outcome.status.life = d.birth
      BY <3>1 DEF StaleInv
    <3>4. NotAhead(d, rec) /\ d.generation \in Nat
      BY <1>2, <1>4, <3>1 DEF InHandInv, Follows, Records
    <3> HIDE DEF rec, new
    <3>5. Dated(new)
      BY <3>1, <3>2, <3>3, <3>4 DEF Dated, NotAhead
    <3> QED
      BY <3>5 DEF new
  <2> QED
    BY <2>1, <2>2
<1>8. ListedInv' /\ InHandInv'
  <2>1. CASE UNCHANGED loopVars
    <3>1. UNCHANGED <<pass, at, listed, cur, d>>
      BY <2>1 DEF loopVars
    <3>2. \A tg \in Targets : ~WrittenNow(tg)
      BY <3>1 DEF WrittenNow, StatusWritten
    <3>3. ListedInv'
      <4>1. CASE pass = "apply"
        BY Zenon, <1>2, <1>3, <1>4, <1>5, <3>1, <3>2, <4>1 DEF ListedInv
      <4>2. CASE pass # "apply"
        BY ZenonT(30), <1>2, <1>3, <1>6, <3>1, <3>2, <4>2 DEF ListedInv
      <4> QED
        BY Zenon, <4>1, <4>2
    <3>4. InHandInv'
      <4>1. CASE pass = "apply"
        BY <1>2, <1>3, <1>4, <1>5, <3>1, <3>2, <4>1 DEF InHandInv, Busy
      <4>2. CASE pass # "apply"
        BY <1>2, <1>3, <1>6, <3>1, <3>2, <4>2 DEF InHandInv, Busy
      <4> QED
        BY <4>1, <4>2
    <3> QED
      BY <3>3, <3>4
  <2>2. CASE Lists
    <3>1. at = "list" /\ at' = "next" /\ items' = items /\ pass' = pass
      BY <2>2 DEF Lists, storeVars
    <3>2. CASE listed' = listed
      BY <1>2, <3>1, <3>2 DEF ListedInv, InHandInv, Busy, Unreported, Exists
    <3>3. CASE listed' = [tg \in Desires(pass) |-> items[<<pass, tg>>]]
      <4>1. CASE pass = "apply"
        <5>1. ASSUME NEW tg \in Desires("apply")
              PROVE  Follows(items[<<"apply", tg>>], items[<<"apply", tg>>])
          <6> DEFINE rec == items[<<"apply", tg>>]
          <6>1. tg \in Targets /\ rec # NoRecord
            BY DEF Desires, Exists
          <6>2. rec \in Records /\ Dated(rec)
            BY Zenon, <1>2, <1>3, <6>1, Siblings DEF Db, Exists
          <6>3. rec.generation <= rec.generation
            BY <6>2 DEF Records
          <6> HIDE DEF rec
          <6>4. Follows(rec, rec)
            BY <6>2, <6>3 DEF Follows, NotAhead, NotReported, SpecEqual
          <6> QED
            BY <6>4 DEF rec
        <5> QED
          BY <3>1, <3>3, <4>1, <5>1 DEF ListedInv, InHandInv, Busy
      <4>2. CASE pass = "delete"
        <5>1. ASSUME NEW tg \in Desires("delete")
              PROVE  ~Exists(items, <<"apply", tg>>)
          BY <1>3 DEF Desires, Sound
        <5> QED
          BY <3>1, <3>3, <4>2, <5>1 DEF ListedInv, InHandInv, Busy, Unreported, Exists
      <4> QED
        BY <1>3, <4>1, <4>2
    <3> QED
      BY <2>2, <3>2, <3>3 DEF Lists
  <2>3. CASE Picks
    <3>1. at' = "setup" /\ items' = items /\ pass' = pass
      BY <2>3 DEF Picks, storeVars
    <3>2. PICK tg \in DOMAIN listed :
              /\ cur' = tg
              /\ d' = listed[tg]
              /\ listed' = [t \in DOMAIN listed \ {tg} |-> listed[t]]
      BY <2>3 DEF Picks
    <3>3. cur' \notin DOMAIN listed' /\ DOMAIN listed' \subseteq DOMAIN listed
      BY <3>2
    <3>4. \A t \in DOMAIN listed' : listed'[t] = listed[t]
      BY <3>2
    <3>5. CASE pass = "apply"
      BY Zenon, <1>2, <3>1, <3>2, <3>3, <3>4, <3>5 DEF ListedInv, InHandInv
    <3>6. CASE pass # "apply"
      BY <1>2, <3>1, <3>2, <3>3, <3>6 DEF ListedInv, InHandInv, Unreported, Exists
    <3> QED
      BY <3>5, <3>6
  <2>4. CASE Switches \/ Restarts
    <3>1. at' = "list" /\ DOMAIN listed' = {}
      BY Zenon, <2>4 DEF Switches, Restarts, NoneListed
    <3> QED
      BY <3>1 DEF ListedInv, InHandInv, Busy
  <2>5. CASE Reconciles
    <3>1. Busy /\ UNCHANGED <<pass, cur, d>> /\ cur \in Targets /\ cur \notin DOMAIN listed
      BY Zenon, <1>2, <1>3, <2>5 DEF Reconciles, InHandInv
    <3>2. listed' = listed \/ DOMAIN listed' = {}
      BY <2>5 DEF Reconciles, NoneListed
    <3>3. ListedInv'
      <4>1. CASE listed' = listed
        <5>1. \A tg \in DOMAIN listed : tg \in Targets /\ ~WrittenNow(tg)
          BY Zenon, <1>3, <3>1 DEF WrittenNow
        <5>2. CASE pass = "apply"
          BY Zenon, <1>2, <1>4, <1>5, <3>1, <4>1, <5>1, <5>2 DEF ListedInv
        <5>3. CASE pass # "apply"
          BY <1>2, <1>6, <3>1, <4>1, <5>1, <5>3 DEF ListedInv
        <5> QED
          BY <5>2, <5>3
      <4>2. CASE DOMAIN listed' = {}
        BY Zenon, <4>2 DEF ListedInv
      <4> QED
        BY <3>2, <4>1, <4>2
    <3>4. ASSUME Busy'
          PROVE  /\ cur' \notin DOMAIN listed'
                 /\ IF pass' = "apply" THEN Follows(d', items'[<<"apply", cur'>>])
                    ELSE Unreported(cur)'
      <4>1. ~WrittenNow(cur)
        BY <3>4 DEF WrittenNow, StatusWritten, Busy
      <4>2. cur' \notin DOMAIN listed'
        BY ZenonT(30), <3>1, <3>2
      <4>3. CASE pass = "apply"
        BY <1>2, <1>4, <1>5, <3>1, <4>1, <4>2, <4>3 DEF InHandInv
      <4>4. CASE pass # "apply"
        BY <1>2, <1>6, <3>1, <4>1, <4>2, <4>4 DEF InHandInv
      <4> QED
        BY Zenon, <4>3, <4>4
    <3>5. InHandInv'
      BY <3>1, <3>4 DEF InHandInv
    <3> QED
      BY <3>3, <3>5
  <2> QED
    BY <1>1, <2>1, <2>2, <2>3, <2>4, <2>5 DEF LoopMove
<1>9. ASSUME at' = "write", pass' = "apply"
      PROVE  /\ outcome'.status.observed = d'.generation
             /\ outcome'.status.of = d'.spec
             /\ outcome'.status.life = d'.birth
  <2>1. CASE UNCHANGED loopVars
    BY <1>9, <2>1 DEF loopVars, StaleInv
  <2>2. CASE Reconciles
    <3>1. PICK reason \in LoopReasons : Decides(reason)
      BY <1>9, <2>2 DEF Reconciles
    <3>2. d' = d
      BY <2>2 DEF Reconciles
    <3> QED
      BY <3>1, <3>2 DEF Decides, Report, Status
  <2> QED
    BY <1>1, <1>9, <2>1, <2>2 DEF LoopMove, Lists, Picks, Switches, Restarts
<1>10. (\A tg \in Targets : Exists(items, <<"apply", tg>>) => Dated(items[<<"apply", tg>>]))'
  BY <1>7 DEF Exists
<1> QED
  BY <1>8, <1>9, <1>10 DEF StaleInv

\* What the loop knows of an apply, however stale: in the life it was listed in,
\* the stored apply has at least the listed generation, and no status was
\* written since the list.  It holds for any number of targets, changes and
\* failures, and also if requests land late.
THEOREM StaleInvariant == Spec => []StaleInv
<1>1. Init => StaleInv
  BY StaleInit
<1>2. TypeInv /\ StaleInv /\ [Next]_vars => StaleInv'
  BY StaleNext
<1> QED
  BY <1>1, <1>2, LoopTypeInvariant, PTL DEF Spec

\* A condition whose ObservedGeneration equals the Generation of its
\* ApplyDesire, written for this life of the desire, describes an attempt at
\* the spec that is stored now.
THEOREM ConditionsDescribeSpecs == Spec => []ConditionDescribesSpecOfLife
<1>1. StaleInv => ConditionDescribesSpecOfLife
  BY DEF StaleInv, ConditionDescribesSpecOfLife, Dated
<1> QED
  BY <1>1, StaleInvariant, PTL

\* One step of the cluster under an apply that is in force.
KeepsInForce ==
    \A tg \in Targets :
        InForce(tg) /\ changes' = changes
          => /\ cluster'[tg] # Absent
             /\ ~cluster'[tg].terminating
             /\ SpecEqual(cluster'[tg].spec, items[<<"apply", tg>>].spec)

\* When no request lands after its client gave up on it, nothing that the
\* applier does in the cluster undoes an ApplyDesire that is in force.  A stale
\* apply that is still to be sent carries the spec of the generation that was
\* reported, and a stale delete is about a target whose apply has no status.
THEOREM AppliesStayInForce ==
    ASSUME ~LateLanding
    PROVE  Spec => InForceStays
<1>1. ASSUME TypeInv, LoopInv, StaleInv, [Next]_vars
      PROVE  KeepsInForce
  <2> SUFFICES ASSUME NEW tg \in Targets, InForce(tg), changes' = changes
               PROVE  /\ cluster'[tg] # Absent
                      /\ ~cluster'[tg].terminating
                      /\ SpecEqual(cluster'[tg].spec, items[<<"apply", tg>>].spec)
    BY DEF KeepsInForce
  <2> DEFINE rec == items[<<"apply", tg>>]
  <2>1. /\ rec # NoRecord /\ rec.status # NoStatus
        /\ rec.status.observed = rec.generation /\ rec.status.life = rec.birth
    BY DEF InForce, Exists
  <2>2. cluster[tg] # Absent /\ ~cluster[tg].terminating /\ SpecEqual(cluster[tg].spec, rec.spec)
    BY DEF InForce
  <2>3. /\ cluster \in Clusters /\ inflight = {} /\ changes \in Nat
        /\ at \in {"apply", "delete"} => cur \in Targets /\ Busy
        /\ at = "apply" => pass = "apply" /\ d \in Records /\ d.spec \in Specs
        /\ at = "delete" => pass = "delete"
    BY <1>1, LoopAssumption DEF TypeInv, LoopTypeOK, DataOK, Clusters, Busy, Held, LoopInv
  <2>4. rec \in Records
    BY Zenon, <1>1, <2>1, Siblings DEF TypeInv, StoreInv, Sound, Db
  <2>5. CASE UNCHANGED cluster
    BY <2>2, <2>5
  <2>6. CASE at = "apply" /\ cluster' \in Applied(cur, d.spec)
    <3>1. CASE tg = cur
      <4>1. Dated(d) /\ NotAhead(d, rec) /\ NotReported(d, rec)
        BY <1>1, <2>3, <2>6, <3>1 DEF StaleInv, InHandInv, Follows
      <4> HIDE DEF rec
      <4>2. rec.birth = d.birth /\ rec.status = d.status
        BY <2>1, <4>1 DEF NotReported
      <4>3. rec.generation <= d.generation
        BY <2>1, <4>1, <4>2 DEF Dated
      <4>4. /\ d.generation <= rec.generation
            /\ d.generation = rec.generation => SpecEqual(d.spec, rec.spec)
        BY <2>1, <4>1, <4>2 DEF NotAhead
      <4>5. d.generation = rec.generation
        BY <2>3, <2>4, <2>6, <4>3, <4>4 DEF Records
      <4>6. /\ cluster'[tg] \in Objects /\ cluster'[tg].spec = d.spec
            /\ cluster'[tg].terminating = cluster[tg].terminating
        BY <2>2, <2>3, <2>6, <3>1, AppliedFacts
      <4>7. cluster'[tg] # Absent
        BY <4>6, LoopAssumption
      <4>8. ~cluster'[tg].terminating
        BY Zenon, <2>2, <4>6
      <4>9. SpecEqual(cluster'[tg].spec, rec.spec)
        BY <4>4, <4>5, <4>6
      <4> QED
        BY <4>7, <4>8, <4>9 DEF rec
    <3>2. CASE tg # cur
      <4>1. cluster'[tg] = cluster[tg]
        BY <2>3, <2>6, <3>2, AppliedFacts
      <4> QED
        BY <2>2, <4>1
    <3> QED
      BY <3>1, <3>2
  <2>7. CASE at = "delete" /\ cluster' = Removed(cur)
    <3>1. tg # cur
      BY <1>1, <2>1, <2>3, <2>7 DEF StaleInv, InHandInv, Unreported, Exists
    <3>2. cluster'[tg] = cluster[tg]
      BY <2>3, <2>7, <3>1, RemovedFacts
    <3> QED
      BY <2>2, <3>2
  <2>8. CASE \E x \in Targets : /\ cluster[x] # Absent /\ cluster[x].terminating
                                /\ cluster' = [cluster EXCEPT ![x] = Absent]
    <3>1. PICK x \in Targets : cluster[x].terminating /\ cluster' = [cluster EXCEPT ![x] = Absent]
      BY Zenon, <2>8
    <3>2. x # tg
      BY <2>2, <3>1
    <3>3. cluster'[tg] = cluster[tg]
      BY <2>3, <3>1, <3>2 DEF Clusters
    <3> QED
      BY <2>2, <3>3
  <2>9. changes' # changes + 1
    BY <2>3
  <2>10. ClusterMove
    BY <1>1, ClusterMoves
  <2> QED
    BY <2>3, <2>5, <2>6, <2>7, <2>8, <2>9, <2>10 DEF ClusterMove
<1>2. Spec => []LoopInv
  BY LoopInvariant
<1>3. TypeInv /\ LoopInv /\ StaleInv /\ [Next]_vars => KeepsInForce
  BY <1>1
<1>4. KeepsInForce <=>
        \A tg \in Targets :
            InForce(tg) /\ changes' = changes
              => /\ cluster'[tg] # Absent
                 /\ ~cluster'[tg].terminating
                 /\ SpecEqual(cluster'[tg].spec, items[<<"apply", tg>>].spec)
  BY DEF KeepsInForce
<1> QED
  BY <1>2, <1>3, <1>4, LoopTypeInvariant, StaleInvariant, PTL DEF Spec, InForceStays

=============================================================================
