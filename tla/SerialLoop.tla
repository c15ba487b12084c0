----------------------------- MODULE SerialLoop -----------------------------
(***************************************************************************)
(* The serial loop of the active applier (internal/controllers/serial)     *)
(* with its two reconcilers, applydesire and deletedesire, in front of the *)
(* desire store and of the Kubernetes API server.  Each tick lists and     *)
(* reconciles the ApplyDesires and then the DeleteDesires.  Adapters use   *)
(* the store, and finalizers and operators act on the cluster, between any *)
(* two steps of the loop.                                                  *)
(*                                                                         *)
(* A status is the one Successful condition that both reconcilers keep.    *)
(* Its fields "of" and "life" are history: the spec that the reported      *)
(* attempt was about and the birth of the record it was listed from.       *)
(***************************************************************************)
EXTENDS DesireStore, FiniteSets

CONSTANTS
    BadSpecs,      \* manifests that applyToCluster or checkApplyTarget reject
    Absent,        \* the cluster holds no object for a target
    NoTarget,      \* no desire is being reconciled
    LateLanding,   \* may a request land after its client gave up on it?
    MaxChanges,    \* bound on the adapters' and operators' actions
    MaxFailures    \* bound on failed calls and aborted passes

VARIABLES
    cluster,    \* the object of each target, or Absent
    inflight,   \* requests whose client gave up, and that may still land
    pass,       \* the reconciler that runs, "apply" or "delete"
    at,         \* the step it is at
    listed,     \* the desires of this pass still to reconcile, as listed
    cur,        \* the target of the desire being reconciled
    d,          \* that desire, as listed
    outcome,    \* the status to write, and what to compare and write it with
    deletes,    \* history: targets whose DELETE was accepted in this tick
    changes, failures

loopVars == <<pass, at, listed, cur, d, outcome, deletes>>
vars == <<storeVars, cluster, inflight, loopVars, changes, failures>>

Objects == [spec : Specs, finalizer : BOOLEAN, terminating : BOOLEAN]

Status(reason, observed, of, life) ==
    [reason |-> reason, observed |-> observed, of |-> of, life |-> life]

\* Mutant: two conditions with one reason are equal.
StatusEqualIgnoringGeneration(a, b) ==
    a # NoStatus /\ b # NoStatus /\ a.reason = b.reason

\* util.Equal, on conditions whose messages are not modelled.
StatusEqual(a, b) ==
    /\ a # NoStatus /\ b # NoStatus
    /\ a.reason = b.reason /\ a.observed = b.observed

\* What the two reconcilers can report in a run within the bounds.
LoopStatuses ==
    [reason : Reasons.apply \cup Reasons.delete,
     observed : 0 .. (MaxChanges + 1),
     of : Specs \cup TargetVersions \cup {NoSpec},
     life : 0 .. MaxBirths]

ASSUME LoopAssumption ==
    /\ LoopStatuses \subseteq Statuses
    /\ Absent \notin Objects
    /\ MaxChanges \in Nat
    /\ MaxFailures \in Nat

NoOutcome == [status |-> NoStatus, base |-> NoStatus, version |-> 0]

\* Mutant: the condition is stamped with the generation stored by now.
ReportFresh(reason) ==
    LET now == items[<<pass, cur>>]
        rec == IF now = NoRecord THEN d ELSE now
    IN [status |-> Status(reason, rec.generation, d.spec, rec.birth),
        base |-> d.status, version |-> rec.version]

\* What reconcileOne will write for the listed desire.
Report(reason) ==
    [status |-> Status(reason, d.generation, d.spec, d.birth),
     base |-> d.status, version |-> d.version]

NoneListed == [tg \in {} |-> NoRecord]

Fail == failures < MaxFailures /\ failures' = failures + 1
NoFail == UNCHANGED failures

Goto(step, out) ==
    /\ at' = step
    /\ outcome' = out
    /\ UNCHANGED <<pass, listed, cur, d, deletes>>

NextDesire == Goto("next", NoOutcome)

\* A store error fails the desire; the apply reconciler gives up the pass if
\* the error is a context error.
StoreError ==
    \/ NextDesire
    \/ /\ pass = "apply"
       /\ at' = "next"
       /\ listed' = NoneListed
       /\ outcome' = NoOutcome
       /\ UNCHANGED <<pass, cur, d, deletes>>

-----------------------------------------------------------------------------
(***************************************************************************)
(* The API server: server-side apply creates or updates, DELETE removes an *)
(* object or marks it until its finalizers are done.                       *)
(***************************************************************************)

Applied(tg, spec) ==
    IF cluster[tg] = Absent
    THEN {[cluster EXCEPT ![tg] = [spec |-> spec, finalizer |-> f, terminating |-> FALSE]]
            : f \in BOOLEAN}
    ELSE {[cluster EXCEPT ![tg].spec = spec]}

Removed(tg) ==
    IF cluster[tg] = Absent THEN cluster
    ELSE IF cluster[tg].finalizer THEN [cluster EXCEPT ![tg].terminating = TRUE]
    ELSE [cluster EXCEPT ![tg] = Absent]

Pending(verb) == [verb |-> verb, target |-> cur, spec |-> d.spec]

\* A request fails for its client: it is refused, it takes effect although its
\* answer is lost, or it is still on its way.
RequestFails(verb) ==
    \/ UNCHANGED <<cluster, inflight>>
    \/ /\ IF verb = "apply" THEN cluster' \in Applied(cur, d.spec)
          ELSE cluster' = Removed(cur)
       /\ UNCHANGED inflight
    \/ /\ LateLanding
       /\ inflight' = inflight \cup {Pending(verb)}
       /\ UNCHANGED cluster

-----------------------------------------------------------------------------
(***************************************************************************)
(* The loop                                                                *)
(***************************************************************************)

\* Mutant: the list is not filtered by type.
DesiresOfAnyType(type) ==
    {tg \in Targets : \E t \in DesireTypes : Exists(items, <<t, tg>>)}

Desires(type) ==
    {tg \in Targets : Exists(items, <<type, tg>>)}

\* ListApplyDesires or ListDeleteDesires.
List ==
    /\ at = "list"
    /\ at' = "next"
    /\ \/ /\ listed' = [tg \in Desires(pass) |-> items[<<pass, tg>>]]
          /\ NoFail
       \/ Fail /\ UNCHANGED listed
    /\ UNCHANGED <<storeVars, cluster, inflight, pass, cur, d, outcome, deletes, changes>>

\* Mutant: the delete reconciler runs first.
FirstPassSwapped == "delete"

\* main.go passes apply, then delete.
FirstPass == "apply"

OtherPass(p) == IF p = "apply" THEN "delete" ELSE "apply"

\* The next listed desire, or the next reconciler, or the next tick.
Advance ==
    /\ at = "next"
    /\ \/ \E tg \in DOMAIN listed :
             /\ cur' = tg
             /\ d' = listed[tg]
             /\ listed' = [t \in DOMAIN listed \ {tg} |-> listed[t]]
             /\ at' = "setup"
             /\ UNCHANGED <<pass, deletes>>
       \/ /\ DOMAIN listed = {}
          /\ at' = "list"
          /\ pass' = OtherPass(pass)
          /\ deletes' = IF pass' = FirstPass THEN {} ELSE deletes
          /\ cur' = NoTarget
          /\ d' = NoRecord
          /\ UNCHANGED listed
    /\ UNCHANGED <<storeVars, cluster, inflight, outcome, changes, failures>>

\* Mutant: what is reported as applied is not applied again.
ApplySetupSkippingApplied ==
    /\ at = "setup" /\ pass = "apply"
    /\ IF d.spec \in BadSpecs THEN Goto("write", Report("PreCheckFailed"))
       ELSE Goto(IF StatusEqual(Report("Applied").status, d.status)
                 THEN "next" ELSE "recheck", NoOutcome)
    /\ NoFail
    /\ UNCHANGED <<storeVars, cluster, inflight, changes>>

\* A manifest that does not decode or names another object, or a mapper that
\* does not know its kind, is PreCheckFailed.
ApplySetup ==
    /\ at = "setup" /\ pass = "apply"
    /\ \/ /\ d.spec \in BadSpecs
          /\ Goto("write", Report("PreCheckFailed"))
          /\ NoFail
       \/ Fail /\ Goto("write", Report("PreCheckFailed"))
       \/ /\ d.spec \notin BadSpecs
          /\ Goto("recheck", NoOutcome)
          /\ NoFail
    /\ UNCHANGED <<storeVars, cluster, inflight, changes>>

\* GetApplyDesire: only its existence counts.
ApplyRecheck ==
    /\ at = "recheck" /\ pass = "apply"
    /\ \/ Fail /\ StoreError
       \/ /\ Goto(IF Exists(items, <<"apply", cur>>) THEN "apply" ELSE "next", NoOutcome)
          /\ NoFail
    /\ UNCHANGED <<storeVars, cluster, inflight, changes>>

\* The mapper does not know the resource, or does.
DeleteSetup ==
    /\ at = "setup" /\ pass = "delete"
    /\ \/ Fail /\ Goto("write", Report("PreCheckFailed"))
       \/ NoFail /\ Goto("recheck", NoOutcome)
    /\ UNCHANGED <<storeVars, cluster, inflight, changes>>

\* Mutant: a completed delete is executed again.
DeleteRecheckIgnoringStatus ==
    /\ at = "recheck" /\ pass = "delete"
    /\ Goto(IF Exists(items, <<"delete", cur>>) THEN "get" ELSE "next", NoOutcome)
    /\ NoFail
    /\ UNCHANGED <<storeVars, cluster, inflight, changes>>

\* GetDeleteDesire: a completed delete is only stamped again, from the record
\* just read.
DeleteRecheck ==
    LET dd == items[<<"delete", cur>>]
    IN /\ at = "recheck" /\ pass = "delete"
       /\ \/ Fail /\ NextDesire
          \/ /\ NoFail
             /\ IF dd = NoRecord THEN NextDesire
                ELSE IF IsDeleted(dd.status)
                THEN Goto("write",
                          [status |-> Status("Deleted", dd.generation, dd.spec, dd.birth),
                           base |-> dd.status, version |-> dd.version])
                ELSE Goto("get", NoOutcome)
       /\ UNCHANGED <<storeVars, cluster, inflight, changes>>

ServerSideApply ==
    /\ at = "apply"
    /\ \/ /\ cluster' \in Applied(cur, d.spec)
          /\ Goto("write", Report("Applied"))
          /\ NoFail
          /\ UNCHANGED inflight
       \/ /\ Fail
          /\ RequestFails("apply")
          /\ Goto("write", Report("KubeAPIError"))
    /\ UNCHANGED <<storeVars, changes>>

GetObject ==
    /\ at = "get"
    /\ \/ /\ NoFail
          /\ IF cluster[cur] = Absent THEN Goto("write", Report("Deleted"))
             ELSE IF cluster[cur].terminating
             THEN Goto("write", Report("WaitingForDeletion"))
             ELSE Goto("delete", NoOutcome)
       \/ Fail /\ Goto("write", Report("KubeAPIError"))
    /\ UNCHANGED <<storeVars, cluster, inflight, changes>>

\* Mutant: an accepted DELETE is taken for a completed one.
DeleteUnconfirmed ==
    /\ at = "delete"
    /\ \/ /\ cluster' = Removed(cur)
          /\ at' = "write"
          /\ outcome' = Report("Deleted")
          /\ deletes' = deletes \cup {cur}
          /\ NoFail
          /\ UNCHANGED <<inflight, pass, listed, cur, d>>
       \/ /\ Fail
          /\ RequestFails("delete")
          /\ Goto("write", Report("KubeAPIError"))
    /\ UNCHANGED <<storeVars, changes>>

DeleteObject ==
    /\ at = "delete"
    /\ \/ /\ cluster[cur] = Absent
          /\ Goto("write", Report("Deleted"))
          /\ NoFail
          /\ UNCHANGED <<cluster, inflight>>
       \/ /\ cluster[cur] # Absent
          /\ cluster' = Removed(cur)
          /\ at' = "confirm"
          /\ deletes' = deletes \cup {cur}
          /\ NoFail
          /\ UNCHANGED <<inflight, pass, listed, cur, d, outcome>>
       \/ /\ Fail
          /\ RequestFails("delete")
          /\ Goto("write", Report("KubeAPIError"))
    /\ UNCHANGED <<storeVars, changes>>

ConfirmDeletion ==
    /\ at = "confirm"
    /\ \/ /\ NoFail
          /\ IF cluster[cur] = Absent THEN Goto("write", Report("Deleted"))
             ELSE IF cluster[cur].terminating
             THEN Goto("write", Report("WaitingForDeletion"))
             ELSE Goto("write", Report("KubeAPIError"))
       \/ Fail /\ Goto("write", Report("KubeAPIError"))
    /\ UNCHANGED <<storeVars, cluster, inflight, changes>>

\* The status is written with the listed version, unless it says nothing new; one
\* with another message is new, which is a disturbance of its own unless the
\* message is that of a failed call.  A conflict, a vanished desire and a failed
\* write, which may have taken effect, leave it to the next tick.
WriteStatusBack ==
    LET same == StatusEqual(outcome.status, outcome.base)
        written == UpdateDesireStatus(items, <<pass, cur>>, outcome.status,
                                      outcome.version).db
    IN /\ at = "write"
       /\ \/ same /\ UNCHANGED items /\ NextDesire /\ NoFail
          \/ /\ same /\ outcome.status.reason \in {"PreCheckFailed", "WaitingForDeletion"}
             /\ items' = written /\ NextDesire /\ Fail
          \/ /\ ~same \/ outcome.status.reason = "KubeAPIError"
             /\ \/ items' = written /\ NextDesire /\ NoFail
                \/ items' \in {items, written} /\ StoreError /\ Fail
       /\ UNCHANGED <<births, cluster, inflight, changes>>

\* The run context is canceled, the lease is no longer fresh or the process
\* stops, perhaps during a request; the next leader starts its loop afresh.
Abort ==
    /\ Fail
    /\ IF at \in {"apply", "delete"} THEN RequestFails(at)
       ELSE UNCHANGED <<cluster, inflight>>
    /\ pass' = FirstPass
    /\ at' = "list"
    /\ listed' = NoneListed
    /\ cur' = NoTarget
    /\ d' = NoRecord
    /\ outcome' = NoOutcome
    /\ deletes' = {}
    /\ UNCHANGED <<storeVars, changes>>

LoopStep ==
    List \/ Advance \/ ApplySetup \/ ApplyRecheck \/ ServerSideApply
      \/ DeleteSetup \/ DeleteRecheck \/ GetObject \/ DeleteObject
      \/ ConfirmDeletion \/ WriteStatusBack

-----------------------------------------------------------------------------
(***************************************************************************)
(* Everyone else                                                           *)
(***************************************************************************)

\* An adapter changes the spec store, with the version it has just read.
Adapter ==
    /\ changes < MaxChanges
    /\ changes' = changes + 1
    /\ \E tg \in Targets, o \in Owners :
          \/ \E s \in Specs : CreateApply(tg, o, s)
          \/ CreateDelete(tg, o)
          \/ \E s \in Specs :
                /\ Exists(items, <<"apply", tg>>)
                /\ UpdateSpec(tg, s, o, items[<<"apply", tg>>].version)
          \/ \E type \in {"apply", "delete"} :
                /\ Exists(items, <<type, tg>>)
                /\ Delete(<<type, tg>>, o, items[<<type, tg>>].version)
    /\ UNCHANGED <<cluster, inflight, loopVars, failures>>

\* Another actor of the cluster deletes an object that the applier manages.
OperatorDelete ==
    /\ changes < MaxChanges
    /\ changes' = changes + 1
    /\ \E tg \in Targets : cluster[tg] # Absent /\ cluster' = Removed(tg)
    /\ UNCHANGED <<storeVars, inflight, loopVars, failures>>

FinalizersDone(tg) ==
    /\ cluster[tg] # Absent
    /\ cluster[tg].terminating
    /\ cluster' = [cluster EXCEPT ![tg] = Absent]
    /\ UNCHANGED <<storeVars, inflight, loopVars, changes, failures>>

Land ==
    /\ \E r \in inflight :
          /\ inflight' = inflight \ {r}
          /\ IF r.verb = "apply" THEN cluster' \in Applied(r.target, r.spec)
             ELSE cluster' = Removed(r.target)
    /\ UNCHANGED <<storeVars, loopVars, changes, failures>>

-----------------------------------------------------------------------------

\* A delete that a release without ObservedGeneration completed.
LegacyRecords(tg, o) ==
    [id \in Identities |->
       IF id = <<"delete", tg>>
       THEN [NewRecord(o, NoSpec, 0) EXCEPT
               !.status = Status("Deleted", 0, NoSpec, 0), !.version = 2]
       ELSE NoRecord]

Init ==
    /\ births = 0
    /\ \/ items = [id \in Identities |-> NoRecord]
       \/ \E tg \in Targets, o \in Owners : items = LegacyRecords(tg, o)
    /\ cluster = [tg \in Targets |-> Absent]
    /\ inflight = {}
    /\ pass = FirstPass
    /\ at = "list"
    /\ listed = NoneListed
    /\ cur = NoTarget
    /\ d = NoRecord
    /\ outcome = NoOutcome
    /\ deletes = {}
    /\ changes = 0
    /\ failures = 0

Next ==
    \/ LoopStep
    \/ Abort
    \/ Adapter
    \/ OperatorDelete
    \/ \E tg \in Targets : FinalizersDone(tg)
    \/ Land

\* The loop keeps running, and finalizers are eventually done.
Spec ==
    /\ Init
    /\ [][Next]_vars
    /\ WF_vars(LoopStep)
    /\ \A tg \in Targets : WF_vars(FinalizersDone(tg))

-----------------------------------------------------------------------------
(***************************************************************************)
(* Properties                                                              *)
(***************************************************************************)

\* Every variable has its type, and a desire is at hand in every step of
\* reconcileOne; the steps of each reconciler occur in its pass.
LoopTypeOK ==
    /\ cluster \in [Targets -> Objects \cup {Absent}]
    /\ pass \in {"apply", "delete"}
    /\ at \in {"list", "next", "setup", "recheck", "apply", "get", "delete",
               "confirm", "write"}
    /\ DOMAIN listed \subseteq Targets
    /\ at \notin {"list", "next"} => cur \in Targets /\ d \in Records
    /\ at = "apply" => pass = "apply"
    /\ at \in {"get", "delete", "confirm"} => pass = "delete"
    /\ deletes \subseteq Targets
    /\ changes \in 0 .. MaxChanges /\ failures \in 0 .. MaxFailures

\* A DeleteDesire says Deleted only while the object is absent: the outcome is
\* written some steps after the GET that found nothing, with a version that a
\* recreated desire may share, and no apply may slip in between
\* (deletedesire/controller.go: "ReasonDeleted means the resource is confirmed
\* absent").
DeletedMeansAbsent ==
    \A tg \in Targets :
        Exists(items, <<"delete", tg>>) /\ IsDeleted(items[<<"delete", tg>>].status)
            => cluster[tg] = Absent

\* No apply takes effect on a target after its delete in the same tick
\* (serial/controller.go: "an apply cannot land after a delete of the same
\* target in the same tick").
NoApplyAfterDelete ==
    [][\A tg \in deletes \cap deletes' :
          cluster[tg] = Absent \/ cluster[tg].terminating
            => cluster'[tg] = cluster[tg] \/ cluster'[tg] = Absent]_vars

\* The condition of an ApplyDesire whose ObservedGeneration equals its
\* Generation describes an attempt at its current spec (doc.go), as long as
\* the attempt was made for this life of the desire.
ConditionDescribesSpecOfLife ==
    \A tg \in Targets :
        LET rec == items[<<"apply", tg>>]
        IN /\ Exists(items, <<"apply", tg>>)
           /\ rec.status # NoStatus
           /\ rec.status.observed = rec.generation
           /\ rec.status.life = rec.birth
           => SpecEqual(rec.status.of, rec.spec)

\* The same for whatever attempt the condition is about (doc.go: "a match means
\* Status and Reason describe an attempt at the current spec").
ConditionDescribesSpec ==
    \A tg \in Targets :
        LET rec == items[<<"apply", tg>>]
        IN /\ Exists(items, <<"apply", tg>>)
           /\ rec.status # NoStatus
           /\ rec.status.observed = rec.generation
           => SpecEqual(rec.status.of, rec.spec)

\* A completed delete stays completed for the rest of its life, except that a
\* mapper that no longer knows the resource turns it into PreCheckFailed:
\* reconcileOne resolves the mapping before it looks at the status.
CompletionIsStable ==
    [][\A tg \in Targets :
          LET id == <<"delete", tg>>
          IN SameLife(id) /\ IsDeleted(items[id].status)
               => items'[id].status.reason \in {"Deleted", "PreCheckFailed"}]_vars

\* An ApplyDesire is in force: an attempt at its current generation is
\* reported, in this life of it, and the cluster holds what it asks for.
InForce(tg) ==
    LET rec == items[<<"apply", tg>>]
    IN /\ Exists(items, <<"apply", tg>>)
       /\ rec.status # NoStatus
       /\ rec.status.observed = rec.generation
       /\ rec.status.life = rec.birth
       /\ cluster[tg] # Absent
       /\ ~cluster[tg].terminating
       /\ SpecEqual(cluster[tg].spec, rec.spec)

\* The applier never undoes an ApplyDesire that is in force: both reconcilers
\* act on desires as they were listed, of which the recheck confirms only that
\* one still exists, and yet no older spec is applied over the current one and
\* no delete that was superseded since removes the object.
InForceStays ==
    [][\A tg \in Targets :
          InForce(tg) /\ changes' = changes
            => /\ cluster'[tg] # Absent
               /\ ~cluster'[tg].terminating
               /\ SpecEqual(cluster'[tg].spec, items[<<"apply", tg>>].spec)]_vars

\* What the loop works towards: a valid apply is in the cluster and reported,
\* a delete is done and reported, both for the current generation.
ApplySettled(tg) ==
    LET rec == items[<<"apply", tg>>]
    IN Exists(items, <<"apply", tg>>) =>
         /\ rec.status # NoStatus
         /\ rec.status.observed = rec.generation
         /\ IF rec.spec \in BadSpecs THEN rec.status.reason = "PreCheckFailed"
            ELSE /\ rec.status.reason = "Applied"
                 /\ cluster[tg] # Absent
                 /\ ~cluster[tg].terminating
                 /\ SpecEqual(cluster[tg].spec, rec.spec)

DeleteSettled(tg) ==
    LET rec == items[<<"delete", tg>>]
    IN Exists(items, <<"delete", tg>>) =>
         /\ IsDeleted(rec.status)
         /\ rec.status.observed = rec.generation
         /\ cluster[tg] = Absent

\* Once the adapters, the operators and the failures stop, every ApplyDesire is
\* carried out and reported for its current generation, whatever stale status,
\* lost write or late request they left behind: every tick applies again.
AppliesConverge == <>[](\A tg \in Targets : ApplySettled(tg))

\* The same for DeleteDesires too, when no request lands late; a completed
\* delete without ObservedGeneration is stamped again.
Converges == AppliesConverge /\ <>[](\A tg \in Targets : DeleteSettled(tg))

=============================================================================
