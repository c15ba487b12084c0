---------------------------- MODULE DesireStore ----------------------------
(***************************************************************************)
(* The desire store (pkg/desire): the records of one management-cluster    *)
(* partition, keyed by full Identity, and the SpecStore and StatusStore    *)
(* operations on them.  Every operation is one atomic step, as in the      *)
(* in-memory backend, which runs each one under its mutex.                 *)
(*                                                                         *)
(* An operation is an operator from the stored records to an outcome       *)
(* [err, db]: the error it returns (OK for none) and the records it        *)
(* leaves.  The other modules call the same operators, so the reconcilers  *)
(* and the Redis backend are checked against one contract.                 *)
(*                                                                         *)
(* An Identity is a pair of a desire type and a target; a target stands    *)
(* for the group, resource, namespace and name of one Kubernetes object.   *)
(* "birth" is a history field: it numbers the creations, so that a desire  *)
(* and its recreation under the same Identity can be told apart.           *)
(***************************************************************************)
EXTENDS Naturals

CONSTANTS
    Targets,         \* Kubernetes objects that desires are about
    Owners,          \* adapters that own targets
    Specs,           \* texts of an ApplySpec's KubeContent
    Json,            \* Json[s] is the JSON value that the text s denotes
    TargetVersions,  \* API versions that a ReadDesire may declare
    Statuses,        \* what a controller can report
    NoStatus,        \* the empty status of a new record
    NoSpec,          \* the Apply field of a DeleteDesire
    NoRecord,        \* no record is stored under an Identity
    MaxVersion,      \* bound on Version: no update beyond it
    MaxBirths        \* bound on the number of creations

VARIABLES
    items,   \* Store.items: the record of each Identity, or NoRecord
    births   \* history: the number of records created so far

storeVars == <<items, births>>

DesireTypes == {"apply", "delete", "read"}

Identities == DesireTypes \X Targets

Records ==
    [owner : Owners, spec : Specs \cup TargetVersions \cup {NoSpec},
     status : Statuses \cup {NoStatus}, generation : Nat, version : Nat,
     birth : Nat]

ASSUME StoreAssumption ==
    /\ NoRecord \notin Records
    /\ MaxVersion \in Nat
    /\ MaxBirths \in Nat

OK == "OK"

Accept(db) == [err |-> OK, db |-> db]

Reject(err, db) == [err |-> err, db |-> db]

Exists(db, id) == db[id] # NoRecord

IsDeleted(status) == status # NoStatus /\ status.reason = "Deleted"

\* A target is free, or belongs to the owner of its first existing sibling.
OwnerAllowed(db, target, owner) ==
    LET first == IF Exists(db, <<"apply", target>>) THEN "apply"
                 ELSE IF Exists(db, <<"delete", target>>) THEN "delete"
                 ELSE "read"
    IN Exists(db, <<first, target>>) => db[<<first, target>>].owner = owner

NewRecord(owner, spec, birth) ==
    [owner |-> owner, spec |-> spec, status |-> NoStatus,
     generation |-> 1, version |-> 1, birth |-> birth]

-----------------------------------------------------------------------------
(***************************************************************************)
(* SpecStore                                                               *)
(***************************************************************************)

\* Mutant: the completed delete is retired before the owner is checked.
CreateApplyRetiringFirst(db, target, owner, spec, birth) ==
    LET id == <<"apply", target>>
        del == <<"delete", target>>
        retired == IF Exists(db, del) /\ IsDeleted(db[del].status)
                   THEN [db EXCEPT ![del] = NoRecord] ELSE db
    IN IF ~OwnerAllowed(db, target, owner) THEN Reject("OwnerConflict", retired)
       ELSE IF Exists(retired, del) THEN Reject("DeletePending", db)
       ELSE IF Exists(retired, id) THEN Reject("AlreadyExists", retired)
       ELSE Accept([retired EXCEPT ![id] = NewRecord(owner, spec, birth)])

\* The completed delete is retired before the existing apply is looked for.
CreateApplyDesire(db, target, owner, spec, birth) ==
    LET id == <<"apply", target>>
        del == <<"delete", target>>
        retired == [db EXCEPT ![del] = NoRecord]
    IN IF ~OwnerAllowed(db, target, owner) THEN Reject("OwnerConflict", db)
       ELSE IF Exists(db, del) /\ ~IsDeleted(db[del].status)
            THEN Reject("DeletePending", db)
       ELSE IF Exists(retired, id) THEN Reject("AlreadyExists", retired)
       ELSE Accept([retired EXCEPT ![id] = NewRecord(owner, spec, birth)])

\* Mutant: the apply that the delete supersedes stays.
CreateDeleteKeepingApply(db, target, owner, birth) ==
    LET id == <<"delete", target>>
    IN IF ~OwnerAllowed(db, target, owner) THEN Reject("OwnerConflict", db)
       ELSE IF Exists(db, id) THEN Reject("AlreadyExists", db)
       ELSE Accept([db EXCEPT ![id] = NewRecord(owner, NoSpec, birth)])

CreateDeleteDesire(db, target, owner, birth) ==
    LET id == <<"delete", target>>
        superseded == [db EXCEPT ![<<"apply", target>>] = NoRecord]
    IN IF ~OwnerAllowed(db, target, owner) THEN Reject("OwnerConflict", db)
       ELSE IF Exists(db, id) THEN Reject("AlreadyExists", db)
       ELSE Accept([superseded EXCEPT ![id] = NewRecord(owner, NoSpec, birth)])

\* Mutant: a read is not checked against the owner of its siblings.
CreateReadUnowned(db, target, owner, targetVersion, birth) ==
    LET id == <<"read", target>>
    IN IF Exists(db, id) THEN Reject("AlreadyExists", db)
       ELSE Accept([db EXCEPT ![id] = NewRecord(owner, targetVersion, birth)])

CreateReadDesire(db, target, owner, targetVersion, birth) ==
    LET id == <<"read", target>>
    IN IF ~OwnerAllowed(db, target, owner) THEN Reject("OwnerConflict", db)
       ELSE IF Exists(db, id) THEN Reject("AlreadyExists", db)
       ELSE Accept([db EXCEPT ![id] = NewRecord(owner, targetVersion, birth)])

\* speccompare.Equal: object key order and whitespace do not count.
SpecEqual(a, b) == Json[a] = Json[b]

\* Mutant: a changed spec advances the generation and not the version.
UpdateSpecKeepingVersion(db, target, spec, owner, version) ==
    LET id == <<"apply", target>>
        rec == db[id]
        advance == IF SpecEqual(rec.spec, spec) THEN 0 ELSE 1
    IN IF ~Exists(db, id) THEN Reject("NotFound", db)
       ELSE IF rec.version # version THEN Reject("VersionConflict", db)
       ELSE IF rec.owner # owner THEN Reject("OwnerConflict", db)
       ELSE Accept([db EXCEPT ![id] =
                      [rec EXCEPT !.spec = spec,
                                  !.generation = rec.generation + advance]])

\* Mutant: a changed spec advances the version and not the generation.
UpdateSpecKeepingGeneration(db, target, spec, owner, version) ==
    LET id == <<"apply", target>>
        rec == db[id]
    IN IF ~Exists(db, id) THEN Reject("NotFound", db)
       ELSE IF rec.version # version THEN Reject("VersionConflict", db)
       ELSE IF rec.owner # owner THEN Reject("OwnerConflict", db)
       ELSE Accept([db EXCEPT ![id] =
                      [rec EXCEPT !.spec = spec, !.version = version + 1]])

UpdateApplyDesireSpec(db, target, spec, owner, version) ==
    LET id == <<"apply", target>>
        rec == db[id]
        advance == IF SpecEqual(rec.spec, spec) THEN 0 ELSE 1
    IN IF ~Exists(db, id) THEN Reject("NotFound", db)
       ELSE IF rec.version # version THEN Reject("VersionConflict", db)
       ELSE IF rec.owner # owner THEN Reject("OwnerConflict", db)
       ELSE Accept([db EXCEPT ![id] =
                      [rec EXCEPT !.spec = spec, !.version = version + 1,
                                  !.generation = rec.generation + advance]])

\* DeleteApplyDesire, DeleteDeleteDesire and DeleteReadDesire.
DeleteDesire(db, id, owner, version) ==
    IF ~Exists(db, id) THEN Reject("NotFound", db)
    ELSE IF db[id].version # version THEN Reject("VersionConflict", db)
    ELSE IF db[id].owner # owner THEN Reject("OwnerConflict", db)
    ELSE Accept([db EXCEPT ![id] = NoRecord])

\* A PrefixSelector names one type or every type, and the targets whose
\* group, resource, namespace and name it matches.
Selectors ==
    [types : {DesireTypes} \cup {{t} : t \in DesireTypes},
     targets : SUBSET Targets]

Matches(sel, id) == id[1] \in sel.types /\ id[2] \in sel.targets

DeleteByPrefix(db, sel) ==
    Accept([id \in Identities |-> IF Matches(sel, id) THEN NoRecord ELSE db[id]])

-----------------------------------------------------------------------------
(***************************************************************************)
(* StatusStore: updates check the version, never the owner.                *)
(***************************************************************************)

\* Mutant: a status write leaves the version where it was.
StatusKeepingVersion(db, id, status, version) ==
    IF ~Exists(db, id) THEN Reject("NotFound", db)
    ELSE IF db[id].version # version THEN Reject("VersionConflict", db)
    ELSE Accept([db EXCEPT ![id] = [db[id] EXCEPT !.status = status]])

\* UpdateApplyDesireStatus and UpdateDeleteDesireStatus.
UpdateDesireStatus(db, id, status, version) ==
    IF ~Exists(db, id) THEN Reject("NotFound", db)
    ELSE IF db[id].version # version THEN Reject("VersionConflict", db)
    ELSE Accept([db EXCEPT ![id] =
                   [db[id] EXCEPT !.status = status, !.version = version + 1]])

\* Mutant: the status of a missing desire is stored in an empty record.
UpdateReadStatusUpserting(db, target, status) ==
    LET id == <<"read", target>>
        rec == IF Exists(db, id) THEN db[id] ELSE NewRecord(NoSpec, NoSpec, 0)
    IN Accept([db EXCEPT ![id] = [rec EXCEPT !.status = status]])

UpdateReadDesireStatus(db, target, status) ==
    LET id == <<"read", target>>
    IN IF ~Exists(db, id) THEN Reject("NotFound", db)
       ELSE Accept([db EXCEPT ![id] = [db[id] EXCEPT !.status = status]])

-----------------------------------------------------------------------------
(***************************************************************************)
(* The store as a state machine: any caller, any operation, any argument.  *)
(***************************************************************************)

\* The reasons that the controller of each desire type reports.
Reasons ==
    [apply  |-> {"Applied", "KubeAPIError", "PreCheckFailed"},
     delete |-> {"Deleted", "WaitingForDeletion", "KubeAPIError",
                 "PreCheckFailed"},
     read   |-> {"Synced", "NotFound", "KubeAPIError", "PreCheckFailed"}]

Reportable(type) == {s \in Statuses : s.reason \in Reasons[type]}

Update(outcome) == items' = outcome.db /\ UNCHANGED births

Create(outcome) ==
    /\ births < MaxBirths
    /\ items' = outcome.db
    /\ births' = IF outcome.err = OK THEN births + 1 ELSE births

CreateApply(target, owner, spec) ==
    Create(CreateApplyDesire(items, target, owner, spec, births + 1))

CreateDelete(target, owner) ==
    Create(CreateDeleteDesire(items, target, owner, births + 1))

CreateRead(target, owner, targetVersion) ==
    Create(CreateReadDesire(items, target, owner, targetVersion, births + 1))

UpdateSpec(target, spec, owner, version) ==
    Update(UpdateApplyDesireSpec(items, target, spec, owner, version))

Delete(id, owner, version) == Update(DeleteDesire(items, id, owner, version))

Prefix(sel) == Update(DeleteByPrefix(items, sel))

WriteStatus(id, status, version) ==
    Update(UpdateDesireStatus(items, id, status, version))

WriteReadStatus(target, status) ==
    Update(UpdateReadDesireStatus(items, target, status))

\* Versions that an update may carry: a version is never taken beyond
\* MaxVersion.
Versions == 1 .. (MaxVersion - 1)

SpecStoreNext ==
    \/ \E tg \in Targets, o \in Owners :
          \/ \E s \in Specs : CreateApply(tg, o, s)
          \/ CreateDelete(tg, o)
          \/ \E v \in TargetVersions : CreateRead(tg, o, v)
          \/ \E s \in Specs, v \in Versions : UpdateSpec(tg, s, o, v)
    \/ \E id \in Identities, o \in Owners, v \in 1 .. MaxVersion :
          Delete(id, o, v)
    \/ \E sel \in Selectors : Prefix(sel)

StatusStoreNext ==
    \/ \E tg \in Targets, type \in {"apply", "delete"}, v \in Versions :
          \E s \in Reportable(type) : WriteStatus(<<type, tg>>, s, v)
    \/ \E tg \in Targets, s \in Reportable("read") : WriteReadStatus(tg, s)

StoreInit ==
    /\ items = [id \in Identities |-> NoRecord]
    /\ births = 0

StoreNext == SpecStoreNext \/ StatusStoreNext

StoreSpec == StoreInit /\ [][StoreNext]_storeVars

-----------------------------------------------------------------------------
(***************************************************************************)
(* Properties                                                              *)
(***************************************************************************)

\* Every Identity holds a well-formed record or none, and births counts them.
StoreTypeOK ==
    /\ items \in [Identities -> Records \cup {NoRecord}]
    /\ births \in 0 .. MaxBirths

\* All the desires of a target have one owner, in whatever order desires of
\* different types are created, superseded, retired and deleted
\* (checkTargetOwner looks at the first existing sibling only).
SingleOwner ==
    \A tg \in Targets, a, b \in DesireTypes :
        Exists(items, <<a, tg>>) /\ Exists(items, <<b, tg>>)
            => items[<<a, tg>>].owner = items[<<b, tg>>].owner

\* A target never has an apply and a delete at once, whatever the state of
\* the delete: the backends decide a CreateApplyDesire in different orders
\* and agree only because of this.
ApplyDeleteExclusive ==
    \A tg \in Targets :
        ~ (Exists(items, <<"apply", tg>>) /\ Exists(items, <<"delete", tg>>))

\* A rejected create changes nothing, although CreateApplyDesire removes the
\* completed delete before it looks for an existing apply.
RejectedCreateIsPure ==
    \A tg \in Targets, o \in Owners, s \in Specs :
        LET apply == CreateApplyDesire(items, tg, o, s, births + 1)
            delete == CreateDeleteDesire(items, tg, o, births + 1)
        IN /\ apply.err # OK => apply.db = items
           /\ delete.err # OK => delete.db = items

\* Within one life of a desire every generation has a version of its own, so
\* the version never falls behind the generation; deletes and reads stay at
\* generation 1 (doc.go: they have no spec-update operation).
GenerationWithinVersion ==
    \A id \in Identities : Exists(items, id) =>
        /\ 1 <= items[id].generation
        /\ items[id].generation <= items[id].version
        /\ id[1] # "apply" => items[id].generation = 1

SameLife(id) ==
    /\ Exists(items, id)
    /\ items'[id] # NoRecord
    /\ items'[id].birth = items[id].birth

\* Within one life of an apply or a delete, a record that changes takes a
\* greater version: whoever writes with the version they read overwrites
\* nothing they have not seen.  Owner and birth never change, for any type.
VersionGuardsContent ==
    [][\A id \in Identities : SameLife(id) =>
          /\ id[1] # "read" /\ items'[id] # items[id]
                => items'[id].version > items[id].version
          /\ items'[id].owner = items[id].owner]_storeVars

=============================================================================
