------------------------ MODULE SerialLoopTypeProofs ------------------------
(***************************************************************************)
(* The steps of the serial loop and of its surroundings, summarised by     *)
(* what they change, and the types of everything that the loop holds, for  *)
(* any number of targets, changes and failures.                            *)
(*                                                                         *)
(* A step of SerialLoop moves the store (StoreMove), the cluster           *)
(* (ClusterMove), the requests in flight (InflightMove), the counters      *)
(* (CounterMove) and the loop itself (LoopMove), each in one of a few ways *)
(* that are derived once from the actions.  The invariants, here and in    *)
(* SerialLoopProofs, are then kept by cases over those ways.               *)
(*                                                                         *)
(* TypeInv is the type invariant made inductive: the store is sound, and   *)
(* every desire that the loop listed or has in hand is a record with a     *)
(* generation and a birth that are within the counters.                    *)
(***************************************************************************)
EXTENDS SerialLoop, DesireStoreProofs

Completed(db, tg) ==
    Exists(db, <<"delete", tg>>) /\ IsDeleted(db[<<"delete", tg>>].status)

Busy == at \notin {"list", "next"}

-----------------------------------------------------------------------------
(***************************************************************************)
(* Records                                                                 *)
(***************************************************************************)

\* The record that an update of the spec leaves, and the one that a status
\* write leaves.
Respecified(r, s) ==
    [r EXCEPT !.spec = s, !.version = r.version + 1,
              !.generation = r.generation + (IF SpecEqual(r.spec, s) THEN 0 ELSE 1)]

Reported(r, status) ==
    [r EXCEPT !.status = status, !.version = r.version + 1]

LEMMA RespecifiedFacts ==
    ASSUME NEW r \in Records, NEW s \in Specs
    PROVE  LET n == Respecified(r, s)
           IN /\ n \in Records
              /\ n.spec = s /\ n.status = r.status /\ n.birth = r.birth
              /\ n.generation = r.generation + (IF SpecEqual(r.spec, s) THEN 0 ELSE 1)
<1> DEFINE g == r.generation + (IF SpecEqual(r.spec, s) THEN 0 ELSE 1)
           w == r.version + 1
           n == [r EXCEPT !.spec = s, !.version = w, !.generation = g]
<1>1. g \in Nat /\ w \in Nat
  BY DEF Records
<1> HIDE DEF g, w
<1>2. /\ n \in Records
      /\ n.spec = s /\ n.status = r.status /\ n.birth = r.birth /\ n.generation = g
  BY Zenon, <1>1 DEF Records
<1> QED
  BY <1>2 DEF Respecified, g, w

LEMMA ReportedFacts ==
    ASSUME NEW r \in Records, NEW status \in Statuses
    PROVE  LET n == Reported(r, status)
           IN /\ n \in Records
              /\ n.spec = r.spec /\ n.status = status /\ n.birth = r.birth
              /\ n.generation = r.generation
<1> DEFINE w == r.version + 1
           n == [r EXCEPT !.status = status, !.version = w]
<1>1. w \in Nat
  BY DEF Records
<1> HIDE DEF w
<1>2. /\ n \in Records
      /\ n.spec = r.spec /\ n.status = status /\ n.birth = r.birth
      /\ n.generation = r.generation
  BY Zenon, <1>1 DEF Records
<1> QED
  BY <1>2 DEF Reported, w

LEMMA NewRecordFields ==
    ASSUME NEW o \in Owners, NEW s \in Specs \cup {NoSpec}, NEW b \in Nat
    PROVE  LET n == NewRecord(o, s, b)
           IN /\ n \in Records
              /\ n.spec = s /\ n.status = NoStatus /\ n.birth = b /\ n.generation = 1
BY DEF NewRecord, Records

\* What a call of an adapter does to the apply and to the delete of a target.
AdapterOnApply(tg) ==
    LET id == <<"apply", tg>>
    IN \/ items'[id] \in {items[id], NoRecord}
       \/ /\ births' = births + 1
          /\ \E o \in Owners, s \in Specs : items'[id] = NewRecord(o, s, births + 1)
       \/ /\ Exists(items, id)
          /\ \E s \in Specs : items'[id] = Respecified(items[id], s)

AdapterOnDelete(tg) ==
    LET id == <<"delete", tg>>
    IN \/ items'[id] \in {items[id], NoRecord}
       \/ /\ ~Exists(items, id)
          /\ births' = births + 1
          /\ \E o \in Owners : items'[id] = NewRecord(o, NoSpec, births + 1)

\* An adapter leaves the store sound, and does to each slot what the operation
\* it calls does.
LEMMA AdapterFacts ==
    ASSUME StoreInv, Adapter
    PROVE  /\ StoreInv'
           /\ births' \in {births, births + 1}
           /\ \A tg \in Targets :
                 /\ AdapterOnApply(tg)
                 /\ AdapterOnDelete(tg)
                 /\ items'[<<"read", tg>>] = items[<<"read", tg>>]
<1> DEFINE Goal == /\ StoreInv'
                   /\ births' \in {births, births + 1}
                   /\ \A tg \in Targets :
                         /\ AdapterOnApply(tg)
                         /\ AdapterOnDelete(tg)
                         /\ items'[<<"read", tg>>] = items[<<"read", tg>>]
<1>0. /\ Sound(items) /\ items \in Db /\ births \in Nat /\ births + 1 \in Nat
      /\ births \in 0 .. MaxBirths
  BY StoreAssumption DEF StoreInv, Sound
<1>1. ASSUME Sound(items'), births' \in 0 .. MaxBirths
      PROVE  StoreInv'
  BY <1>1 DEF StoreInv, Sound, Exists
<1>2. ASSUME items' = items
      PROVE  \A tg \in Targets :
                 /\ AdapterOnApply(tg)
                 /\ AdapterOnDelete(tg)
                 /\ items'[<<"read", tg>>] = items[<<"read", tg>>]
  BY <1>2 DEF AdapterOnApply, AdapterOnDelete
<1>3. PICK tg \in Targets, o \in Owners :
          \/ \E s \in Specs : CreateApply(tg, o, s)
          \/ CreateDelete(tg, o)
          \/ \E s \in Specs :
                /\ Exists(items, <<"apply", tg>>)
                /\ UpdateSpec(tg, s, o, items[<<"apply", tg>>].version)
          \/ \E type \in {"apply", "delete"} :
                Delete(<<type, tg>>, o, items[<<type, tg>>].version)
  BY DEF Adapter
<1>4. ASSUME NEW s \in Specs, CreateApply(tg, o, s)
      PROVE  Goal
  <2> DEFINE out == CreateApplyDesire(items, tg, o, s, births + 1)
             rec == NewRecord(o, s, births + 1)
             retired == [items EXCEPT ![<<"delete", tg>>] = NoRecord]
  <2>1. /\ items' = out.db /\ births < MaxBirths
        /\ births' = IF out.err = OK THEN births + 1 ELSE births
    BY <1>4 DEF CreateApply, Create
  <2>2. Sound(out.db) /\ (out.err # OK => out.db = items)
    BY <1>0, CreateApplySound
  <2>3. out.err = OK => out.db = [retired EXCEPT ![<<"apply", tg>>] = rec]
    BY DEF CreateApplyDesire, Accept, Reject, OK
  <2> HIDE DEF out, rec
  <2>4. Sound(items') /\ births' \in 0 .. MaxBirths /\ births' \in {births, births + 1}
    BY <1>0, <2>1, <2>2, StoreAssumption
  <2>5. CASE out.err # OK
    BY <1>1, <1>2, <2>1, <2>2, <2>4, <2>5
  <2>6. CASE out.err = OK
    <3>1. ASSUME NEW x \in Targets
          PROVE  /\ items'[<<"apply", x>>] \in {items[<<"apply", x>>], rec}
                 /\ items'[<<"delete", x>>] \in {items[<<"delete", x>>], NoRecord}
                 /\ items'[<<"read", x>>] = items[<<"read", x>>]
      BY Zenon, <1>0, <2>1, <2>3, <2>6, Siblings DEF Db
    <3>2. births' = births + 1
      BY <2>1, <2>6
    <3> QED
      BY <1>1, <2>4, <3>1, <3>2 DEF AdapterOnApply, AdapterOnDelete, rec
  <2> QED
    BY <2>5, <2>6
<1>5. ASSUME CreateDelete(tg, o)
      PROVE  Goal
  <2> DEFINE out == CreateDeleteDesire(items, tg, o, births + 1)
             rec == NewRecord(o, NoSpec, births + 1)
             superseded == [items EXCEPT ![<<"apply", tg>>] = NoRecord]
  <2>1. /\ items' = out.db /\ births < MaxBirths
        /\ births' = IF out.err = OK THEN births + 1 ELSE births
    BY <1>5 DEF CreateDelete, Create
  <2>2. Sound(out.db) /\ (out.err # OK => out.db = items)
    BY <1>0, CreateDeleteSound
  <2>3. out.err = OK => /\ ~Exists(items, <<"delete", tg>>)
                        /\ out.db = [superseded EXCEPT ![<<"delete", tg>>] = rec]
    BY DEF CreateDeleteDesire, Accept, Reject, OK
  <2> HIDE DEF out, rec
  <2>4. Sound(items') /\ births' \in 0 .. MaxBirths /\ births' \in {births, births + 1}
    BY <1>0, <2>1, <2>2, StoreAssumption
  <2>5. CASE out.err # OK
    BY <1>1, <1>2, <2>1, <2>2, <2>4, <2>5
  <2>6. CASE out.err = OK
    <3>1. ASSUME NEW x \in Targets
          PROVE  /\ items'[<<"apply", x>>] \in {items[<<"apply", x>>], NoRecord}
                 /\ \/ items'[<<"delete", x>>] = items[<<"delete", x>>]
                    \/ x = tg /\ items'[<<"delete", x>>] = rec
                 /\ items'[<<"read", x>>] = items[<<"read", x>>]
      BY Zenon, <1>0, <2>1, <2>3, <2>6, Siblings DEF Db
    <3>2. births' = births + 1 /\ ~Exists(items, <<"delete", tg>>)
      BY <2>1, <2>3, <2>6
    <3> QED
      BY <1>1, <2>4, <3>1, <3>2 DEF AdapterOnApply, AdapterOnDelete, rec
  <2> QED
    BY <2>5, <2>6
<1>6. ASSUME NEW s \in Specs, Exists(items, <<"apply", tg>>),
             UpdateSpec(tg, s, o, items[<<"apply", tg>>].version)
      PROVE  Goal
  <2> DEFINE id == <<"apply", tg>>
             v == items[id].version
             rec == Respecified(items[id], s)
  <2>1. items[id] \in Records /\ v \in Nat
    BY Zenon, <1>0, <1>6, Siblings DEF Db, Exists, Records
  <2>2. Sound(items') /\ births' = births
    BY <1>0, <1>6, <2>1, UpdateSpecSound DEF UpdateSpec, Update
  <2>3. items' = items \/ items' = [items EXCEPT ![id] = rec]
    BY <1>6 DEF UpdateSpec, Update, UpdateApplyDesireSpec, Accept, Reject, Respecified
  <2> HIDE DEF rec
  <2>4. CASE items' = items
    BY <1>0, <1>1, <1>2, <2>2, <2>4
  <2>5. CASE items' = [items EXCEPT ![id] = rec]
    <3>1. ASSUME NEW x \in Targets
          PROVE  /\ \/ items'[<<"apply", x>>] = items[<<"apply", x>>]
                    \/ x = tg /\ items'[<<"apply", x>>] = rec
                 /\ items'[<<"delete", x>>] = items[<<"delete", x>>]
                 /\ items'[<<"read", x>>] = items[<<"read", x>>]
      BY <1>0, <2>5, Siblings DEF Db
    <3> QED
      BY <1>0, <1>1, <1>6, <2>2, <3>1 DEF AdapterOnApply, AdapterOnDelete, rec
  <2> QED
    BY <2>3, <2>4, <2>5
<1>7. ASSUME NEW type \in {"apply", "delete"},
             Delete(<<type, tg>>, o, items[<<type, tg>>].version)
      PROVE  Goal
  <2> DEFINE id == <<type, tg>>
  <2>0. id \in Identities
    BY Zenon, Siblings
  <2>1. Sound(items') /\ births' = births
    BY <1>0, <1>7, <2>0, DeleteSound DEF Delete, Update
  <2>2. items' = items \/ items' = [items EXCEPT ![id] = NoRecord]
    BY <1>7 DEF Delete, Update, DeleteDesire, Accept, Reject
  <2>3. ASSUME NEW x \in Targets
        PROVE  /\ items'[<<"apply", x>>] \in {items[<<"apply", x>>], NoRecord}
               /\ items'[<<"delete", x>>] \in {items[<<"delete", x>>], NoRecord}
               /\ items'[<<"read", x>>] = items[<<"read", x>>]
    BY <1>0, <2>0, <2>2, Siblings DEF Db
  <2> QED
    BY <1>0, <1>1, <2>1, <2>3 DEF AdapterOnApply, AdapterOnDelete
<1> QED
  BY <1>3, <1>4, <1>5, <1>6, <1>7

-----------------------------------------------------------------------------
(***************************************************************************)
(* What a step may do to the store, to the cluster and to the loop.  The   *)
(* proofs below split on these cases instead of on the actions.            *)
(***************************************************************************)

StatusWritten ==
    LET id == <<pass, cur>>
    IN /\ at = "write" /\ at' = "next"
       /\ UNCHANGED <<births, pass, cur>>
       /\ Exists(items, id)
       /\ items[id].version = outcome.version
       /\ items' = [items EXCEPT ![id] = Reported(items[id], outcome.status)]

StoreMove == UNCHANGED storeVars \/ Adapter \/ StatusWritten

LEMMA StoreMoves ==
    ASSUME [Next]_vars
    PROVE  StoreMove
<1> USE DEF StoreMove
<1>1. CASE WriteStatusBack
  <2> DEFINE id == <<pass, cur>>
             written == UpdateDesireStatus(items, id, outcome.status, outcome.version).db
             rec == Reported(items[id], outcome.status)
  <2>1. /\ at = "write" /\ at' = "next" /\ UNCHANGED <<births, pass, cur>>
        /\ items' \in {items, written}
    BY <1>1 DEF WriteStatusBack, NextDesire, StoreError, Goto
  <2>2. \/ written = items
        \/ /\ Exists(items, id) /\ items[id].version = outcome.version
           /\ written = [items EXCEPT ![id] = rec]
    BY Zenon DEF UpdateDesireStatus, Accept, Reject, Reported
  <2> HIDE DEF written, rec
  <2> QED
    BY <2>1, <2>2 DEF StatusWritten, storeVars, rec
<1>2. CASE List \/ Advance \/ ApplySetup \/ ApplyRecheck \/ ServerSideApply \/ DeleteSetup
             \/ DeleteRecheck \/ GetObject \/ DeleteObject \/ ConfirmDeletion
  BY <1>2 DEF List, Advance, ApplySetup, ApplyRecheck, ServerSideApply, DeleteSetup,
              DeleteRecheck, GetObject, DeleteObject, ConfirmDeletion
<1>3. CASE Abort \/ OperatorDelete \/ (\E tg \in Targets : FinalizersDone(tg)) \/ Land
  BY <1>3 DEF Abort, OperatorDelete, FinalizersDone, Land
<1>4. CASE UNCHANGED vars
  BY <1>4 DEF vars
<1> QED
  BY <1>1, <1>2, <1>3, <1>4 DEF Next, LoopStep

ClusterMove ==
    \/ UNCHANGED cluster
    \/ at = "apply" /\ cluster' \in Applied(cur, d.spec)
    \/ at = "delete" /\ cluster' = Removed(cur)
    \/ /\ changes < MaxChanges /\ changes' = changes + 1 /\ UNCHANGED loopVars
       /\ \E tg \in Targets : cluster' = Removed(tg)
    \/ /\ UNCHANGED loopVars
       /\ \E tg \in Targets : /\ cluster[tg] # Absent /\ cluster[tg].terminating
                              /\ cluster' = [cluster EXCEPT ![tg] = Absent]
    \/ /\ UNCHANGED loopVars
       /\ \E r \in inflight : IF r.verb = "apply" THEN cluster' \in Applied(r.target, r.spec)
                              ELSE cluster' = Removed(r.target)

InflightMove ==
    \/ inflight' \subseteq inflight
    \/ /\ LateLanding /\ at \in {"apply", "delete"}
       /\ inflight' = inflight \cup {Pending(at)}

LEMMA RequestMoves ==
    ASSUME at \in {"apply", "delete"}, RequestFails(at)
    PROVE  ClusterMove /\ InflightMove
BY DEF RequestFails, ClusterMove, InflightMove

LEMMA ClusterMoves ==
    ASSUME [Next]_vars
    PROVE  ClusterMove /\ InflightMove
<1>1. ASSUME UNCHANGED <<cluster, inflight>>
      PROVE  ClusterMove /\ InflightMove
  BY <1>1 DEF ClusterMove, InflightMove
<1>2. CASE List \/ Advance \/ ApplySetup \/ ApplyRecheck \/ DeleteSetup \/ DeleteRecheck
             \/ GetObject \/ ConfirmDeletion \/ WriteStatusBack
  BY <1>1, <1>2 DEF List, Advance, ApplySetup, ApplyRecheck, DeleteSetup, DeleteRecheck,
                    GetObject, ConfirmDeletion, WriteStatusBack
<1>3. CASE ServerSideApply
  <2>1. CASE cluster' \in Applied(cur, d.spec) /\ UNCHANGED inflight
    BY <1>3, <2>1 DEF ServerSideApply, ClusterMove, InflightMove
  <2>2. CASE RequestFails("apply")
    BY <1>3, <2>2, RequestMoves DEF ServerSideApply
  <2> QED
    BY <1>3, <2>1, <2>2 DEF ServerSideApply
<1>4. CASE DeleteObject
  <2>1. CASE UNCHANGED <<cluster, inflight>>
    BY <1>1, <2>1
  <2>2. CASE cluster' = Removed(cur) /\ UNCHANGED inflight
    BY <1>4, <2>2 DEF DeleteObject, ClusterMove, InflightMove
  <2>3. CASE RequestFails("delete")
    BY <1>4, <2>3, RequestMoves DEF DeleteObject
  <2> QED
    BY <1>4, <2>1, <2>2, <2>3 DEF DeleteObject
<1>5. CASE Abort
  BY <1>1, <1>5, RequestMoves DEF Abort
<1>6. CASE Adapter
  BY <1>1, <1>6 DEF Adapter
<1>7. CASE OperatorDelete
  BY <1>7 DEF OperatorDelete, ClusterMove, InflightMove
<1>8. CASE \E tg \in Targets : FinalizersDone(tg)
  BY Zenon, <1>8 DEF FinalizersDone, ClusterMove, InflightMove
<1>9. CASE Land
  <2>1. UNCHANGED loopVars /\ inflight' \subseteq inflight
    BY <1>9 DEF Land
  <2>2. \E r \in inflight : IF r.verb = "apply" THEN cluster' \in Applied(r.target, r.spec)
                            ELSE cluster' = Removed(r.target)
    BY <1>9 DEF Land
  <2> QED
    BY <2>1, <2>2 DEF ClusterMove, InflightMove
<1>10. CASE UNCHANGED vars
  BY <1>1, <1>10 DEF vars
<1> QED
  BY <1>2, <1>3, <1>4, <1>5, <1>6, <1>7, <1>8, <1>9, <1>10 DEF Next, LoopStep

CounterMove ==
    /\ changes' = changes \/ (changes < MaxChanges /\ changes' = changes + 1)
    /\ failures' = failures \/ (failures < MaxFailures /\ failures' = failures + 1)

LEMMA CounterMoves ==
    ASSUME [Next]_vars
    PROVE  CounterMove
<1> USE DEF CounterMove, Fail, NoFail
<1>1. CASE List \/ Advance \/ ApplySetup \/ ApplyRecheck \/ ServerSideApply
  BY <1>1 DEF List, Advance, ApplySetup, ApplyRecheck, ServerSideApply
<1>2. CASE DeleteSetup \/ DeleteRecheck \/ GetObject \/ DeleteObject \/ ConfirmDeletion
  BY <1>2 DEF DeleteSetup, DeleteRecheck, GetObject, DeleteObject, ConfirmDeletion
<1>3. CASE WriteStatusBack \/ Abort \/ Adapter \/ OperatorDelete \/ Land
             \/ (\E tg \in Targets : FinalizersDone(tg))
  BY <1>3 DEF WriteStatusBack, Abort, Adapter, OperatorDelete, Land, FinalizersDone
<1>4. CASE UNCHANGED vars
  BY <1>4 DEF vars
<1> QED
  BY <1>1, <1>2, <1>3, <1>4 DEF Next, LoopStep

LoopReasons == Reasons.apply \cup Reasons.delete

Restamp(r) ==
    [status |-> Status("Deleted", r.generation, r.spec, r.birth),
     base |-> r.status, version |-> r.version]

\* The loop decides to report a reason.  Deleted is for an object that is not
\* there, and in the delete pass only a failed mapping is reported without a
\* look at the stored status.
Decides(reason) ==
    /\ reason \in LoopReasons
    /\ outcome' = Report(reason)
    /\ reason = "Deleted" => pass = "delete" /\ cluster'[cur] = Absent
    /\ pass = "delete" => reason = "PreCheckFailed" \/ at \in {"get", "delete", "confirm"}

\* One step of reconcileOne.
Reconciles ==
    /\ Busy
    /\ UNCHANGED <<pass, cur, d>>
    /\ listed' = listed \/ (at' = "next" /\ listed' = NoneListed)
    /\ at' \in {"next", "recheck", "apply", "get", "delete", "confirm", "write"}
    /\ at' = "apply" => pass = "apply" /\ Exists(items, <<"apply", cur>>)
    /\ at' = "get" => pass = "delete" /\ ~Completed(items, cur)
    /\ at' \in {"delete", "confirm"} => at \in {"get", "delete"}
    /\ at' = "write" =>
          \/ \E reason \in LoopReasons : Decides(reason)
          \/ /\ pass = "delete" /\ Completed(items, cur)
             /\ UNCHANGED cluster
             /\ outcome' = Restamp(items[<<"delete", cur>>])
    /\ deletes' = deletes \/ (at = "delete" /\ deletes' = deletes \cup {cur})

Lists ==
    /\ at = "list" /\ at' = "next"
    /\ UNCHANGED <<storeVars, pass, deletes>>
    /\ listed' = listed \/ listed' = [tg \in Desires(pass) |-> items[<<pass, tg>>]]

Picks ==
    /\ at = "next" /\ at' = "setup"
    /\ UNCHANGED <<storeVars, pass, deletes>>
    /\ \E tg \in DOMAIN listed :
          /\ cur' = tg
          /\ d' = listed[tg]
          /\ listed' = [t \in DOMAIN listed \ {tg} |-> listed[t]]

Switches ==
    /\ at = "next" /\ at' = "list"
    /\ DOMAIN listed = {} /\ listed' = listed
    /\ UNCHANGED storeVars
    /\ pass' = OtherPass(pass)
    /\ deletes' = IF pass' = "apply" THEN {} ELSE deletes

Restarts ==
    /\ UNCHANGED storeVars
    /\ pass' = "apply" /\ at' = "list" /\ listed' = NoneListed /\ deletes' = {}

LoopMove ==
    UNCHANGED loopVars \/ Reconciles \/ Lists \/ Picks \/ Switches \/ Restarts

LEMMA LoopMoves ==
    ASSUME LoopTypeOK, [Next]_vars
    PROVE  LoopMove
<1> USE DEF Goto, NextDesire
<1>0. /\ at = "apply" => pass = "apply"
      /\ at \in {"get", "delete", "confirm"} => pass = "delete"
  BY DEF LoopTypeOK
<1>1. {"Applied", "KubeAPIError", "PreCheckFailed", "Deleted", "WaitingForDeletion"}
         \subseteq LoopReasons
  BY DEF LoopReasons, Reasons
<1>2. CASE List
  BY <1>2 DEF List, Lists, LoopMove
<1>3. CASE Advance
  BY Zenon, <1>3 DEF Advance, Picks, Switches, LoopMove, FirstPass
<1>4. CASE Abort
  BY <1>4 DEF Abort, Restarts, LoopMove, FirstPass
<1>5. CASE Adapter \/ OperatorDelete \/ Land \/ (\E tg \in Targets : FinalizersDone(tg))
             \/ UNCHANGED vars
  BY <1>5 DEF Adapter, OperatorDelete, Land, FinalizersDone, LoopMove, vars
<1> SUFFICES ASSUME ApplySetup \/ ApplyRecheck \/ ServerSideApply \/ DeleteSetup
                      \/ DeleteRecheck \/ GetObject \/ DeleteObject \/ ConfirmDeletion
                      \/ WriteStatusBack
             PROVE  Reconciles
  BY <1>2, <1>3, <1>4, <1>5 DEF Next, LoopStep, LoopMove
<1>6. ASSUME Busy, UNCHANGED <<pass, listed, cur, d, deletes>>, at' = "write",
             NEW reason \in LoopReasons, Decides(reason)
      PROVE  Reconciles
  BY <1>6 DEF Reconciles
<1>7. ASSUME Busy, UNCHANGED <<pass, cur, d, deletes>>,
             listed' = listed \/ (at' = "next" /\ listed' = NoneListed),
             at' \in {"next", "recheck"}
      PROVE  Reconciles
  BY <1>7 DEF Reconciles
<1>8. CASE ApplySetup
  <2>1. Busy /\ pass = "apply" /\ UNCHANGED <<pass, listed, cur, d, deletes>>
    BY <1>8 DEF ApplySetup, Busy
  <2>2. CASE at' = "recheck"
    BY <1>7, <2>1, <2>2
  <2>3. CASE at' = "write" /\ outcome' = Report("PreCheckFailed")
    <3>1. Decides("PreCheckFailed")
      BY <1>1, <2>1, <2>3 DEF Decides
    <3> QED
      BY <1>1, <1>6, <2>1, <2>3, <3>1
  <2> QED
    BY <1>8, <2>2, <2>3 DEF ApplySetup
<1>9. CASE ApplyRecheck
  <2>1. Busy /\ pass = "apply" /\ UNCHANGED <<pass, cur, d, deletes>>
    BY <1>9 DEF ApplyRecheck, StoreError, Busy
  <2>2. CASE at' = "next"
    <3>1. listed' = listed \/ listed' = NoneListed
      BY <1>9 DEF ApplyRecheck, StoreError
    <3> QED
      BY <1>7, <2>1, <2>2, <3>1
  <2>3. CASE at' = "apply" /\ Exists(items, <<"apply", cur>>) /\ listed' = listed
    BY <2>1, <2>3 DEF Reconciles
  <2> QED
    BY <1>9, <2>2, <2>3 DEF ApplyRecheck, StoreError
<1>10. CASE ServerSideApply
  <2>1. /\ Busy /\ pass = "apply" /\ UNCHANGED <<pass, listed, cur, d, deletes>>
        /\ at' = "write"
    BY <1>0, <1>10 DEF ServerSideApply, Busy
  <2>2. \E reason \in {"Applied", "KubeAPIError"} : outcome' = Report(reason)
    BY <1>10 DEF ServerSideApply
  <2>3. \E reason \in LoopReasons : Decides(reason)
    BY <1>1, <2>1, <2>2 DEF Decides
  <2> QED
    BY <1>6, <2>1, <2>3
<1>11. CASE DeleteSetup
  <2>1. Busy /\ pass = "delete" /\ UNCHANGED <<pass, listed, cur, d, deletes>>
    BY <1>11 DEF DeleteSetup, Busy
  <2>2. CASE at' = "recheck"
    BY <1>7, <2>1, <2>2
  <2>3. CASE at' = "write" /\ outcome' = Report("PreCheckFailed")
    <3>1. Decides("PreCheckFailed")
      BY <1>1, <2>1, <2>3 DEF Decides
    <3> QED
      BY <1>1, <1>6, <2>1, <2>3, <3>1
  <2> QED
    BY <1>11, <2>2, <2>3 DEF DeleteSetup
<1>12. CASE DeleteRecheck
  <2> DEFINE dd == items[<<"delete", cur>>]
  <2>1. /\ Busy /\ pass = "delete" /\ UNCHANGED <<pass, listed, cur, d, deletes>>
        /\ UNCHANGED cluster
    BY <1>12 DEF DeleteRecheck, Busy
  <2>2. \/ at' = "next"
        \/ at' = "write" /\ dd # NoRecord /\ IsDeleted(dd.status) /\ outcome' = Restamp(dd)
        \/ at' = "get" /\ ~IsDeleted(dd.status)
    BY <1>12 DEF DeleteRecheck, Restamp
  <2>3. CASE at' = "next"
    BY <1>7, <2>1, <2>3
  <2>4. CASE at' = "write" /\ dd # NoRecord /\ IsDeleted(dd.status) /\ outcome' = Restamp(dd)
    BY <2>1, <2>4 DEF Reconciles, Completed, Exists
  <2>5. CASE at' = "get" /\ ~IsDeleted(dd.status)
    BY <2>1, <2>5 DEF Reconciles, Completed
  <2> QED
    BY <2>2, <2>3, <2>4, <2>5
<1>13. CASE GetObject
  <2>1. /\ Busy /\ pass = "delete" /\ UNCHANGED <<pass, listed, cur, d, deletes>>
        /\ UNCHANGED cluster /\ at = "get"
    BY <1>0, <1>13 DEF GetObject, Busy
  <2>2. CASE at' = "delete"
    BY <2>1, <2>2 DEF Reconciles
  <2>3. CASE at' = "write"
    <3>1. \/ outcome' = Report("Deleted") /\ cluster[cur] = Absent
          \/ \E reason \in {"WaitingForDeletion", "KubeAPIError"} : outcome' = Report(reason)
      BY <1>13, <2>3 DEF GetObject
    <3>2. \E reason \in LoopReasons : Decides(reason)
      BY <1>1, <2>1, <3>1 DEF Decides
    <3> QED
      BY <1>6, <2>1, <2>3, <3>2
  <2> QED
    BY <1>13, <2>2, <2>3 DEF GetObject
<1>14. CASE DeleteObject
  <2>1. Busy /\ pass = "delete" /\ UNCHANGED <<pass, listed, cur, d>> /\ at = "delete"
    BY <1>0, <1>14 DEF DeleteObject, Busy
  <2>2. CASE at' = "confirm" /\ deletes' = deletes \cup {cur}
    BY <2>1, <2>2 DEF Reconciles
  <2>3. CASE at' = "write" /\ deletes' = deletes
    <3>1. \/ outcome' = Report("Deleted") /\ cluster[cur] = Absent /\ UNCHANGED cluster
          \/ outcome' = Report("KubeAPIError")
      BY <1>14, <2>3 DEF DeleteObject
    <3>2. \E reason \in LoopReasons : Decides(reason)
      BY <1>1, <2>1, <3>1 DEF Decides
    <3> QED
      BY <1>6, <2>1, <2>3, <3>2
  <2> QED
    BY <1>14, <2>2, <2>3 DEF DeleteObject
<1>15. CASE ConfirmDeletion
  <2>1. /\ Busy /\ pass = "delete" /\ UNCHANGED <<pass, listed, cur, d, deletes>>
        /\ UNCHANGED cluster /\ at = "confirm" /\ at' = "write"
    BY <1>0, <1>15 DEF ConfirmDeletion, Busy
  <2>2. \/ outcome' = Report("Deleted") /\ cluster[cur] = Absent
        \/ \E reason \in {"WaitingForDeletion", "KubeAPIError"} : outcome' = Report(reason)
    BY <1>15 DEF ConfirmDeletion
  <2>3. \E reason \in LoopReasons : Decides(reason)
    BY <1>1, <2>1, <2>2 DEF Decides
  <2> QED
    BY <1>6, <2>1, <2>3
<1>16. CASE WriteStatusBack
  <2>1. /\ Busy /\ UNCHANGED <<pass, cur, d, deletes>> /\ at' = "next"
        /\ listed' = listed \/ listed' = NoneListed
    BY <1>16 DEF WriteStatusBack, StoreError, Busy
  <2> QED
    BY <1>7, <2>1
<1> QED
  BY <1>8, <1>9, <1>10, <1>11, <1>12, <1>13, <1>14, <1>15, <1>16

-----------------------------------------------------------------------------
(***************************************************************************)
(* The API server                                                          *)
(***************************************************************************)

Clusters == [Targets -> Objects \cup {Absent}]

\* Server-side apply leaves an object with the spec, and an object that was
\* there keeps its deletion mark.
LEMMA AppliedFacts ==
    ASSUME cluster \in Clusters, NEW tg \in Targets, NEW spec \in Specs,
           NEW c \in Applied(tg, spec)
    PROVE  /\ c \in Clusters
           /\ \A x \in Targets : x # tg => c[x] = cluster[x]
           /\ c[tg] \in Objects /\ c[tg].spec = spec
           /\ cluster[tg] # Absent => c[tg].terminating = cluster[tg].terminating
<1>1. PICK o \in Objects :
          /\ c = [cluster EXCEPT ![tg] = o] /\ o.spec = spec
          /\ cluster[tg] # Absent => o.terminating = cluster[tg].terminating
  <2>1. CASE cluster[tg] = Absent
    <3>1. PICK f \in BOOLEAN : c = [cluster EXCEPT ![tg] =
              [spec |-> spec, finalizer |-> f, terminating |-> FALSE]]
      BY <2>1 DEF Applied
    <3> DEFINE o == [spec |-> spec, finalizer |-> f, terminating |-> FALSE]
    <3>2. o \in Objects /\ o.spec = spec
      BY DEF Objects
    <3> HIDE DEF o
    <3>3. c = [cluster EXCEPT ![tg] = o]
      BY <3>1 DEF o
    <3> QED
      BY Zenon, <2>1, <3>2, <3>3
  <2>2. CASE cluster[tg] # Absent
    <3> DEFINE old == cluster[tg]
               o == [old EXCEPT !.spec = spec]
    <3>1. old \in Objects
      BY <2>2 DEF Clusters
    <3>2. o \in Objects /\ o.spec = spec /\ o.terminating = old.terminating
      <4> HIDE DEF old
      <4> QED
        BY <3>1 DEF Objects
    <3>3. c = [cluster EXCEPT ![tg] = o]
      BY <2>2 DEF Applied
    <3> HIDE DEF o
    <3> QED
      BY Zenon, <3>2, <3>3
  <2> QED
    BY <2>1, <2>2
<1> QED
  BY <1>1 DEF Clusters

\* DELETE touches one target: the object goes, or is marked.  What is absent
\* or marked already is not changed otherwise than by going.
LEMMA RemovedFacts ==
    ASSUME cluster \in Clusters, NEW tg \in Targets
    PROVE  /\ Removed(tg) \in Clusters
           /\ \A x \in Targets : x # tg => Removed(tg)[x] = cluster[x]
           /\ cluster[tg] = Absent \/ cluster[tg].terminating
                => Removed(tg)[tg] \in {cluster[tg], Absent}
<1> DEFINE old == cluster[tg]
           o == [old EXCEPT !.terminating = TRUE]
           c == Removed(tg)
<1>1. \/ c = cluster
      \/ c = [cluster EXCEPT ![tg] = Absent]
      \/ old # Absent /\ c = [cluster EXCEPT ![tg] = o]
  BY DEF Removed
<1>2. old # Absent => o \in Objects /\ (old.terminating => o = old)
  <2> SUFFICES ASSUME old # Absent
               PROVE  o \in Objects /\ (old.terminating => o = old)
    OBVIOUS
  <2>1. old \in Objects
    BY DEF Clusters
  <2> HIDE DEF old
  <2>2. o \in Objects
    BY Zenon, <2>1 DEF Objects
  <2>3. old.terminating => o = old
    BY Zenon, <2>1 DEF Objects
  <2> QED
    BY <2>2, <2>3
<1> HIDE DEF o, c
<1>3. /\ c \in Clusters
      /\ \A x \in Targets : x # tg => c[x] = cluster[x]
      /\ old = Absent \/ old.terminating => c[tg] \in {old, Absent}
  BY <1>1, <1>2 DEF Clusters
<1> QED
  BY <1>3 DEF c

-----------------------------------------------------------------------------
(***************************************************************************)
(* Types                                                                   *)
(***************************************************************************)

\* A record of a desire after c changes and b births.
Held(type, r, c, b) ==
    /\ r \in Records
    /\ r.generation <= c + 1
    /\ r.birth <= b
    /\ type = "apply" => r.spec \in Specs

\* What the loop has read, has to write and has sent is bounded by what
\* happened to the store.  The bounds make every report one of Statuses.
DataOK ==
    /\ \A id \in Identities : Exists(items, id) => Held(id[1], items[id], changes, births)
    /\ \A tg \in DOMAIN listed : Held(pass, listed[tg], changes, births)
    /\ Busy => Held(pass, d, changes, births)
    /\ at = "write" => outcome.status \in LoopStatuses
    /\ \A r \in inflight : r.target \in Targets /\ (r.verb = "apply" => r.spec \in Specs)

TypeInv == LoopTypeOK /\ StoreInv /\ DataOK

LEMMA HeldLater ==
    ASSUME NEW type, NEW r, NEW c \in Nat, NEW b \in Nat, Held(type, r, c, b),
           NEW c2 \in Nat, NEW b2 \in Nat, c <= c2, b <= b2
    PROVE  Held(type, r, c2, b2)
BY DEF Held, Records

\* A report about a record that is held is one of Statuses.
LEMMA StatusTyped ==
    ASSUME NEW type, NEW r, NEW b \in 0 .. MaxBirths, NEW c \in 0 .. MaxChanges,
           Held(type, r, c, b), NEW reason \in LoopReasons
    PROVE  Status(reason, r.generation, r.spec, r.birth) \in LoopStatuses
<1>1. r.generation \in 0 .. (MaxChanges + 1)
  BY LoopAssumption DEF Held, Records
<1>2. r.birth \in 0 .. MaxBirths
  BY StoreAssumption DEF Held, Records
<1>3. r.spec \in Specs \cup TargetVersions \cup {NoSpec}
  BY DEF Held, Records
<1> QED
  BY <1>1, <1>2, <1>3 DEF Status, LoopStatuses, LoopReasons

LEMMA TypeInit ==
    ASSUME Init
    PROVE  TypeInv
<1>1. LoopTypeOK
  BY LoopAssumption DEF Init, LoopTypeOK, FirstPass, NoneListed
<1>2. StoreInv /\ \A id \in Identities :
                     Exists(items, id) => Held(id[1], items[id], changes, births)
  <2>1. CASE items = [id \in Identities |-> NoRecord]
    BY <2>1, InitInv DEF Init, StoreInit, Exists
  <2>2. ASSUME NEW t \in Targets, NEW o \in Owners, items = LegacyRecords(t, o)
        PROVE  StoreInv /\ \A id \in Identities :
                              Exists(items, id) => Held(id[1], items[id], changes, births)
    <3> DEFINE status == Status("Deleted", 0, NoSpec, 0)
               rec == [NewRecord(o, NoSpec, 0) EXCEPT !.status = status, !.version = 2]
    <3>1. status \in Statuses
      BY LoopAssumption, StoreAssumption DEF Status, LoopStatuses, Reasons
    <3>2. /\ rec \in Records /\ rec.generation = 1 /\ rec.version = 2 /\ rec.birth = 0
          /\ rec.owner = o
      <4> HIDE DEF status
      <4> QED
        BY Zenon, <3>1 DEF NewRecord, Records
    <3>3. items = [id \in Identities |-> IF id = <<"delete", t>> THEN rec ELSE NoRecord]
      BY <2>2 DEF LegacyRecords
    <3> HIDE DEF rec, status
    <3>4. \A id \in Identities : Exists(items, id) => id = <<"delete", t>> /\ items[id] = rec
      BY <3>3 DEF Exists
    <3>5. items \in Db
      BY <3>2, <3>3 DEF Db
    <3>6. \A tg \in Targets, a, b \in DesireTypes :
             Exists(items, <<a, tg>>) /\ Exists(items, <<b, tg>>)
                 => items[<<a, tg>>].owner = items[<<b, tg>>].owner
      BY <3>4 DEF Identities
    <3>7. \A tg \in Targets : ~Exists(items, <<"apply", tg>>)
      BY <3>4, Siblings
    <3>8. \A id \in Identities : Exists(items, id) =>
             /\ 1 <= items[id].generation
             /\ items[id].generation <= items[id].version
             /\ id[1] # "apply" => items[id].generation = 1
      BY <3>2, <3>4
    <3>9. Sound(items)
      BY <3>5, <3>6, <3>7, <3>8 DEF Sound
    <3>10. \A id \in Identities :
              Exists(items, id) => Held(id[1], items[id], changes, births)
      BY <3>2, <3>4 DEF Init, Held
    <3>11. births \in 0 .. MaxBirths
      BY StoreAssumption DEF Init
    <3> QED
      BY <3>9, <3>10, <3>11 DEF StoreInv
  <2> QED
    BY <2>1, <2>2 DEF Init
<1>3. DOMAIN listed = {} /\ ~Busy /\ at # "write" /\ inflight = {}
  BY DEF Init, NoneListed, Busy
<1> QED
  BY <1>1, <1>2, <1>3 DEF TypeInv, DataOK

\* A status write leaves the store sound and every record within its bounds.
LEMMA StatusWrittenFacts ==
    ASSUME TypeInv, StatusWritten
    PROVE  LET id == <<pass, cur>>
           IN /\ id \in Identities /\ items[id] \in Records
              /\ outcome.status \in Statuses
              /\ Sound(items')
              /\ items'[id] = Reported(items[id], outcome.status)
              /\ \A i \in Identities : i # id => items'[i] = items[i]
<1> DEFINE id == <<pass, cur>>
           rec == Reported(items[id], outcome.status)
<1>1. Sound(items) /\ items \in Db /\ id \in Identities
  BY DEF TypeInv, StoreInv, Sound, LoopTypeOK, StatusWritten, Identities, DesireTypes
<1>2. outcome.status \in Statuses
  BY LoopAssumption DEF TypeInv, DataOK, StatusWritten
<1>3. items[id] \in Records /\ Exists(items, id) /\ items[id].version \in Nat
  BY <1>1 DEF StatusWritten, Db, Exists, Records
<1>4. items' = UpdateDesireStatus(items, id, outcome.status, items[id].version).db
  BY <1>3 DEF StatusWritten, UpdateDesireStatus, Accept, Reported
<1>5. Sound(items')
  BY <1>1, <1>2, <1>3, <1>4, UpdateStatusSound
<1>6. items' = [items EXCEPT ![id] = rec]
  BY DEF StatusWritten
<1> HIDE DEF rec
<1>7. items'[id] = rec /\ \A i \in Identities : i # id => items'[i] = items[i]
  BY <1>1, <1>6 DEF Db
<1> QED
  BY <1>1, <1>2, <1>3, <1>5, <1>7 DEF rec

Bounded(db, c, b) ==
    \A id \in Identities : db[id] # NoRecord => Held(id[1], db[id], c, b)

LEMMA StoreTyped ==
    ASSUME TypeInv, [Next]_vars
    PROVE  StoreInv' /\ births <= births' /\ Bounded(items', changes', births')
<1>1. StoreMove /\ CounterMove
  BY StoreMoves, CounterMoves
<1>2. /\ StoreInv /\ births \in Nat /\ changes \in Nat
      /\ Bounded(items, changes, births)
  BY StoreAssumption, LoopAssumption
  DEF TypeInv, StoreInv, LoopTypeOK, DataOK, Bounded, Exists
<1>3. changes' \in Nat /\ changes <= changes'
  BY <1>1, <1>2 DEF CounterMove
<1>4. CASE UNCHANGED storeVars
  <2>1. items' = items /\ births' = births
    BY <1>4 DEF storeVars
  <2>2. StoreInv'
    BY <1>2, <2>1 DEF StoreInv, Sound, Exists
  <2>3. Bounded(items, changes', births)
    BY <1>2, <1>3, HeldLater DEF Bounded
  <2> QED
    BY <1>2, <2>1, <2>2, <2>3
<1>5. CASE Adapter
  <2>1. /\ StoreInv' /\ births' \in {births, births + 1}
        /\ \A tg \in Targets : /\ AdapterOnApply(tg)
                               /\ AdapterOnDelete(tg)
                               /\ items'[<<"read", tg>>] = items[<<"read", tg>>]
    BY <1>2, <1>5, AdapterFacts
  <2>2. changes' = changes + 1 /\ births' \in Nat /\ births <= births'
    BY <1>2, <1>5, <2>1 DEF Adapter
  <2>3. ASSUME NEW id \in Identities, items'[id] # NoRecord, items'[id] = items[id]
        PROVE  Held(id[1], items'[id], changes', births')
    BY <1>2, <1>3, <2>2, <2>3, HeldLater DEF Bounded
  <2>4. ASSUME NEW type \in DesireTypes, NEW o \in Owners, NEW s \in Specs \cup {NoSpec},
               type = "apply" => s \in Specs, births' = births + 1,
               NEW id, items'[id] = NewRecord(o, s, births + 1)
        PROVE  Held(type, items'[id], changes', births')
    <3> DEFINE n == NewRecord(o, s, births + 1)
    <3>1. /\ n \in Records /\ n.spec = s /\ n.birth = births + 1 /\ n.generation = 1
      BY <1>2, NewRecordFields
    <3> HIDE DEF n
    <3> QED
      BY <1>2, <2>2, <2>4, <3>1 DEF Held, n
  <2>5. ASSUME NEW tg \in Targets, NEW s \in Specs, Exists(items, <<"apply", tg>>),
               items'[<<"apply", tg>>] = Respecified(items[<<"apply", tg>>], s)
        PROVE  Held("apply", items'[<<"apply", tg>>], changes', births')
    <3> DEFINE r == items[<<"apply", tg>>]
               n == items'[<<"apply", tg>>]
    <3>1. Held("apply", r, changes, births)
      <4>1. \A id \in Identities : id[1] = "apply" /\ items[id] # NoRecord
                => Held("apply", items[id], changes, births)
        BY <1>2 DEF Bounded
      <4> QED
        BY Zenon, <2>5, <4>1, Siblings DEF Exists
    <3>2. r \in Records
      BY <3>1 DEF Held
    <3>3. /\ n \in Records /\ n.spec = s /\ n.birth = r.birth
          /\ n.generation = r.generation + (IF SpecEqual(r.spec, s) THEN 0 ELSE 1)
      BY <2>5, <3>2, RespecifiedFacts
    <3> HIDE DEF n, r
    <3>4. n.generation <= r.generation + 1
      BY <3>2, <3>3 DEF Records
    <3>5. Held("apply", n, changes', births')
      BY <1>2, <2>2, <3>1, <3>2, <3>3, <3>4 DEF Held, Records
    <3> QED
      BY <3>5 DEF n
  <2>6. ASSUME NEW tg \in Targets, items'[<<"apply", tg>>] # NoRecord
        PROVE  Held("apply", items'[<<"apply", tg>>], changes', births')
    <3>1. CASE items'[<<"apply", tg>>] = items[<<"apply", tg>>]
      BY Zenon, <2>3, <2>6, <3>1, Siblings
    <3>2. CASE /\ births' = births + 1
               /\ \E o \in Owners, s \in Specs :
                     items'[<<"apply", tg>>] = NewRecord(o, s, births + 1)
      BY <2>4, <3>2 DEF DesireTypes
    <3>3. CASE /\ Exists(items, <<"apply", tg>>)
               /\ \E s \in Specs :
                     items'[<<"apply", tg>>] = Respecified(items[<<"apply", tg>>], s)
      BY <2>5, <3>3
    <3> QED
      BY Zenon, <2>1, <2>6, <3>1, <3>2, <3>3 DEF AdapterOnApply
  <2>7. ASSUME NEW tg \in Targets, items'[<<"delete", tg>>] # NoRecord
        PROVE  Held("delete", items'[<<"delete", tg>>], changes', births')
    <3>1. CASE items'[<<"delete", tg>>] = items[<<"delete", tg>>]
      BY Zenon, <2>3, <2>7, <3>1, Siblings
    <3>2. CASE /\ births' = births + 1
               /\ \E o \in Owners : items'[<<"delete", tg>>] = NewRecord(o, NoSpec, births + 1)
      BY <2>4, <3>2 DEF DesireTypes
    <3> QED
      BY Zenon, <2>1, <2>7, <3>1, <3>2 DEF AdapterOnDelete
  <2>8. ASSUME NEW tg \in Targets, items'[<<"read", tg>>] # NoRecord
        PROVE  Held("read", items'[<<"read", tg>>], changes', births')
    BY Zenon, <2>1, <2>3, <2>8, Siblings
  <2>9. ASSUME NEW id \in Identities, items'[id] # NoRecord
        PROVE  Held(id[1], items'[id], changes', births')
    <3>1. PICK type \in DesireTypes, tg \in Targets : id = <<type, tg>>
      BY DEF Identities
    <3> QED
      BY <2>6, <2>7, <2>8, <2>9, <3>1 DEF DesireTypes
  <2> QED
    BY <2>1, <2>2, <2>9 DEF Bounded
<1>6. CASE StatusWritten
  <2> DEFINE id == <<pass, cur>>
             r == items[id]
             n == items'[id]
  <2>1. /\ id \in Identities /\ r \in Records /\ r # NoRecord
        /\ outcome.status \in Statuses
        /\ Sound(items') /\ n = Reported(r, outcome.status)
        /\ \A i \in Identities : i # id => items'[i] = items[i]
        /\ births' = births
    BY Zenon, <1>6, StatusWrittenFacts DEF StatusWritten, Exists
  <2>2. StoreInv'
    BY <1>2, <2>1 DEF StoreInv, Sound, Exists
  <2> HIDE DEF id, r, n
  <2>3. Held(id[1], r, changes', births')
    <3>1. Held(id[1], r, changes, births)
      BY Zenon, <1>2, <2>1 DEF Bounded, r
    <3> QED
      BY <1>2, <1>3, <2>1, <3>1, HeldLater
  <2>4. /\ n \in Records /\ n.spec = r.spec /\ n.birth = r.birth
        /\ n.generation = r.generation
    BY <2>1, ReportedFacts
  <2>5. Held(id[1], n, changes', births')
    BY <2>3, <2>4 DEF Held
  <2>6. ASSUME NEW i \in Identities, i # id, items'[i] # NoRecord
        PROVE  Held(i[1], items'[i], changes', births')
    <3>1. items'[i] = items[i] /\ Held(i[1], items[i], changes, births)
      BY Zenon, <1>2, <2>1, <2>6 DEF Bounded
    <3> QED
      BY <1>2, <1>3, <2>1, <3>1, HeldLater
  <2>7. Bounded(items', changes', births')
    BY Zenon, <2>5, <2>6 DEF Bounded, n
  <2> QED
    BY <1>2, <2>1, <2>2, <2>7
<1> QED
  BY <1>1, <1>4, <1>5, <1>6 DEF StoreMove

LEMMA ClusterTyped ==
    ASSUME TypeInv, [Next]_vars
    PROVE  /\ cluster' \in Clusters
           /\ \A r \in inflight' : r.target \in Targets /\ (r.verb = "apply" => r.spec \in Specs)
<1>1. ClusterMove /\ InflightMove
  BY ClusterMoves
<1>2. cluster \in Clusters /\ \A r \in inflight :
                                 r.target \in Targets /\ (r.verb = "apply" => r.spec \in Specs)
  BY DEF TypeInv, LoopTypeOK, DataOK, Clusters
<1>3. /\ at = "apply" => cur \in Targets /\ d.spec \in Specs
      /\ at = "delete" => cur \in Targets
  BY DEF TypeInv, LoopTypeOK, DataOK, Busy, Held
<1>4. cluster' \in Clusters
  <2>1. CASE at = "apply" /\ cluster' \in Applied(cur, d.spec)
    BY <1>2, <1>3, <2>1, AppliedFacts
  <2>2. CASE \E tg \in Targets : cluster' = Removed(tg)
    BY <1>2, <2>2, RemovedFacts
  <2>3. CASE \E tg \in Targets : cluster' = [cluster EXCEPT ![tg] = Absent]
    BY <1>2, <2>3 DEF Clusters
  <2>4. CASE \E r \in inflight : IF r.verb = "apply" THEN cluster' \in Applied(r.target, r.spec)
                                 ELSE cluster' = Removed(r.target)
    BY <1>2, <2>4, AppliedFacts, RemovedFacts
  <2> QED
    BY <1>1, <1>2, <1>3, <2>1, <2>2, <2>3, <2>4 DEF ClusterMove
<1>5. /\ at \in {"apply", "delete"} => Pending(at).target \in Targets
      /\ at = "apply" => Pending(at).spec \in Specs
      /\ at = "delete" => Pending(at).verb # "apply"
  BY <1>3 DEF Pending
<1>6. \A r \in inflight' : r.target \in Targets /\ (r.verb = "apply" => r.spec \in Specs)
  BY <1>1, <1>2, <1>5 DEF InflightMove
<1> QED
  BY <1>4, <1>6

LoopTyped ==
    /\ pass \in {"apply", "delete"}
    /\ at \in {"list", "next", "setup", "recheck", "apply", "get", "delete",
               "confirm", "write"}
    /\ DOMAIN listed \subseteq Targets
    /\ \A tg \in DOMAIN listed : Held(pass, listed[tg], changes, births)
    /\ Busy => cur \in Targets /\ Held(pass, d, changes, births)
    /\ at = "apply" => pass = "apply"
    /\ at \in {"get", "delete", "confirm"} => pass = "delete"
    /\ at = "write" => outcome.status \in LoopStatuses
    /\ deletes \subseteq Targets

LEMMA LoopIsTyped ==
    ASSUME TypeInv, [Next]_vars
    PROVE  LoopTyped'
<1>1. LoopMove
  BY LoopMoves DEF TypeInv
<1>2. /\ births \in 0 .. MaxBirths /\ changes \in 0 .. MaxChanges
      /\ births \in Nat /\ changes \in Nat
  BY StoreAssumption, LoopAssumption DEF TypeInv, StoreInv, LoopTypeOK
<1>3. births' \in Nat /\ changes' \in Nat /\ births <= births' /\ changes <= changes'
  <2>1. StoreInv' /\ births <= births'
    BY StoreTyped
  <2>2. births' \in Nat
    BY <2>1, StoreAssumption DEF StoreInv
  <2>3. CounterMove
    BY CounterMoves
  <2> QED
    BY <1>2, <2>1, <2>2, <2>3 DEF CounterMove
<1>4. \A type, r : Held(type, r, changes, births) => Held(type, r, changes', births')
  BY <1>2, <1>3, HeldLater
<1>5. LoopTyped
  BY DEF TypeInv, LoopTypeOK, DataOK, LoopTyped, Busy, Held
<1>6. CASE UNCHANGED loopVars
  <2>1. UNCHANGED <<pass, at, listed, cur, d, outcome, deletes>>
    BY <1>6 DEF loopVars
  <2> QED
    BY <1>4, <1>5, <2>1 DEF LoopTyped, Busy
<1>7. CASE Lists
  <2>1. /\ DOMAIN listed' \subseteq Targets
        /\ \A tg \in DOMAIN listed' : Held(pass, listed'[tg], changes, births)
    <3>1. CASE listed' = listed
      BY Zenon, <1>5, <3>1 DEF LoopTyped
    <3>2. CASE listed' = [tg \in Desires(pass) |-> items[<<pass, tg>>]]
      <4>1. \A tg \in Desires(pass) :
               tg \in Targets /\ Held(pass, items[<<pass, tg>>], changes, births)
        <5>1. ASSUME NEW tg \in Desires(pass)
              PROVE  tg \in Targets /\ Held(pass, items[<<pass, tg>>], changes, births)
          <6>1. /\ tg \in Targets /\ Exists(items, <<pass, tg>>)
                /\ <<pass, tg>> \in Identities /\ <<pass, tg>>[1] = pass
            BY <1>5 DEF Desires, LoopTyped, Identities, DesireTypes
          <6> QED
            BY <6>1 DEF TypeInv, DataOK
        <5> QED
          BY <5>1
      <4> QED
        BY Zenon, <3>2, <4>1
    <3> QED
      BY <1>7, <3>1, <3>2 DEF Lists
  <2>2. at' = "next" /\ pass' = pass /\ deletes' = deletes
    BY Zenon, <1>7 DEF Lists
  <2> QED
    BY <1>4, <1>5, <2>1, <2>2 DEF LoopTyped, Busy
<1>8. CASE Picks
  <2>1. PICK tg \in DOMAIN listed :
            /\ cur' = tg
            /\ d' = listed[tg]
            /\ listed' = [t \in DOMAIN listed \ {tg} |-> listed[t]]
    BY <1>8 DEF Picks
  <2>2. at' = "setup" /\ pass' = pass /\ deletes' = deletes
    BY <1>8 DEF Picks
  <2>3. /\ DOMAIN listed' \subseteq Targets
        /\ \A t \in DOMAIN listed' : Held(pass, listed'[t], changes, births)
    BY <1>5, <2>1 DEF LoopTyped
  <2>4. cur' \in Targets /\ Held(pass, d', changes, births)
    BY <1>5, <2>1 DEF LoopTyped
  <2> QED
    BY <1>4, <1>5, <2>2, <2>3, <2>4 DEF LoopTyped, Busy
<1>9. CASE Switches
  <2>1. /\ at' = "list" /\ DOMAIN listed' = {} /\ pass' \in {"apply", "delete"}
        /\ deletes' \subseteq deletes
    BY <1>9 DEF Switches, OtherPass
  <2> QED
    BY <1>5, <2>1 DEF LoopTyped, Busy
<1>10. CASE Restarts
  <2>1. at' = "list" /\ DOMAIN listed' = {} /\ pass' = "apply" /\ deletes' = {}
    BY <1>10 DEF Restarts, NoneListed
  <2> QED
    BY <2>1 DEF LoopTyped, Busy
<1>11. CASE Reconciles
  <2>1. /\ Busy /\ UNCHANGED <<pass, cur, d>>
        /\ at' \in {"next", "recheck", "apply", "get", "delete", "confirm", "write"}
        /\ at' = "apply" => pass = "apply"
        /\ at' \in {"get", "delete", "confirm"} => pass = "delete"
    BY Zenon, <1>5, <1>11 DEF Reconciles, LoopTyped
  <2>2. /\ DOMAIN listed' \subseteq Targets
        /\ \A t \in DOMAIN listed' : Held(pass, listed'[t], changes, births)
    BY ZenonT(30), <1>5, <1>11 DEF Reconciles, LoopTyped, NoneListed
  <2>3. deletes' \subseteq Targets
    BY <1>5, <1>11 DEF Reconciles, LoopTyped
  <2>4. ASSUME at' = "write"
        PROVE  outcome'.status \in LoopStatuses
    <3>1. ASSUME NEW reason \in LoopReasons, Decides(reason)
          PROVE  outcome'.status \in LoopStatuses
      <4>1. outcome'.status = Status(reason, d.generation, d.spec, d.birth)
        BY <3>1 DEF Decides, Report
      <4>2. Held(pass, d, changes, births)
        BY <1>5, <2>1 DEF LoopTyped
      <4> QED
        BY <1>2, <4>1, <4>2, StatusTyped
    <3>2. ASSUME Completed(items, cur), outcome' = Restamp(items[<<"delete", cur>>])
          PROVE  outcome'.status \in LoopStatuses
      <4> DEFINE r == items[<<"delete", cur>>]
      <4>1. outcome'.status = Status("Deleted", r.generation, r.spec, r.birth)
        BY <3>2 DEF Restamp
      <4>2. <<"delete", cur>> \in Identities /\ Exists(items, <<"delete", cur>>)
        BY Zenon, <1>5, <2>1, <3>2, Siblings DEF LoopTyped, Completed
      <4>3. \E type : Held(type, r, changes, births)
        BY <4>2 DEF TypeInv, DataOK
      <4>4. "Deleted" \in LoopReasons
        BY DEF LoopReasons, Reasons
      <4> HIDE DEF r
      <4> QED
        BY <1>2, <4>1, <4>3, <4>4, StatusTyped
    <3> QED
      BY <1>11, <2>4, <3>1, <3>2 DEF Reconciles
  <2>5. cur \in Targets /\ Held(pass, d, changes', births')
    BY <1>4, <1>5, <2>1 DEF LoopTyped
  <2>6. /\ DOMAIN listed' \subseteq Targets
        /\ \A t \in DOMAIN listed' : Held(pass', listed'[t], changes', births')
    BY <1>4, <2>1, <2>2
  <2>7. pass \in {"apply", "delete"}
    BY <1>5 DEF LoopTyped
  <2> QED
    BY Zenon, <2>1, <2>3, <2>4, <2>5, <2>6, <2>7 DEF LoopTyped
<1> QED
  BY <1>1, <1>6, <1>7, <1>8, <1>9, <1>10, <1>11 DEF LoopMove

LEMMA TypeNext ==
    ASSUME TypeInv, [Next]_vars
    PROVE  TypeInv'
<1>1. LoopTyped'
  BY LoopIsTyped
<1>2. StoreInv' /\ Bounded(items', changes', births')
  BY StoreTyped
<1>3. /\ cluster' \in Clusters
      /\ \A r \in inflight' : r.target \in Targets /\ (r.verb = "apply" => r.spec \in Specs)
  BY ClusterTyped
<1>4. changes' \in 0 .. MaxChanges /\ failures' \in 0 .. MaxFailures
  <2>1. CounterMove
    BY CounterMoves
  <2> QED
    BY <2>1, LoopAssumption DEF TypeInv, LoopTypeOK, CounterMove
<1>5. LoopTypeOK'
  BY <1>1, <1>3, <1>4 DEF LoopTyped, LoopTypeOK, Clusters, Busy, Held
<1>6. (\A id \in Identities : Exists(items, id) => Held(id[1], items[id], changes, births))'
  BY Zenon, <1>2 DEF Bounded, Exists
<1>7. DataOK'
  BY <1>1, <1>3, <1>6 DEF LoopTyped, DataOK
<1> QED
  BY <1>2, <1>5, <1>7 DEF TypeInv

\* Every variable of the loop always has its type, for any number of targets,
\* changes and failures: a desire is at hand in every step of reconcileOne, the
\* steps of each reconciler occur in its pass, and whatever is reported is one
\* of Statuses.
THEOREM LoopTypeInvariant == Spec => []TypeInv
<1>1. Init => TypeInv
  BY TypeInit
<1>2. TypeInv /\ [Next]_vars => TypeInv'
  BY TypeNext
<1> QED
  BY <1>1, <1>2, PTL DEF Spec

\* The type invariant that the runs check.
THEOREM LoopTypeCorrect == Spec => []LoopTypeOK
<1>1. TypeInv => LoopTypeOK
  BY DEF TypeInv
<1> QED
  BY <1>1, LoopTypeInvariant, PTL
=============================================================================
