----------------------------- MODULE RedisStore -----------------------------
(***************************************************************************)
(* The Redis backend (pkg/desire/store/redis): each store operation is a   *)
(* sequence of Redis commands of one client, interleaved with those of the *)
(* other adapters and appliers.  A mutation WATCHes its keys, GETs them    *)
(* one by one, decides, and writes with MULTI/EXEC, which Redis refuses    *)
(* if a watched key was touched; watchRetry then starts again, up to       *)
(* MaxCASRetries times.  DeleteByPrefix SCANs, MGETs and deletes key by    *)
(* key.  Any command may fail, and the answer to an EXEC may be lost.      *)
(*                                                                         *)
(* "items" is what Redis stores.  The module implements DesireStore: every *)
(* EXEC that takes effect is one atomic operation of that contract.        *)
(***************************************************************************)
EXTENDS DesireStore, FiniteSets

CONSTANTS
    Clients,        \* processes that use the store
    Calls,          \* Calls[c]: the operations, with arguments, c may call
    NoCall,         \* no operation is in progress
    MaxCASRetries   \* maxCASRetries

VARIABLES
    call,     \* the operation each client is executing
    pc,       \* where it is in it
    job,      \* the mutation under watchRetry: the call, or one prefix delete
    snap,     \* the records its GETs returned in this attempt
    left,     \* keys still to GET, or still to SCAN
    todo,     \* keys that DeleteByPrefix has still to delete
    dirty,    \* a key it WATCHes was touched since the WATCH
    attempt,  \* attempts made by watchRetry
    reply,    \* the error returned, when pc is "done"
    effects,  \* history: EXECs of this call that took effect
    could,    \* history: errors the atomic store would have returned since
    since     \* history: births when the call began

clientVars == <<call, pc, job, snap, left, todo, dirty, attempt, reply>>
historyVars == <<effects, could, since>>
redisVars == <<storeVars, clientVars, historyVars>>

\* The calls of the SpecStore and the StatusStore, with their arguments.
StoreCalls ==
    [op : {"createApply"}, target : Targets, owner : Owners, spec : Specs]
    \cup [op : {"createDelete"}, target : Targets, owner : Owners]
    \cup [op : {"createRead"}, target : Targets, owner : Owners, spec : TargetVersions]
    \cup [op : {"updateSpec"}, type : {"apply"}, target : Targets, spec : Specs,
          owner : Owners, version : Versions]
    \cup [op : {"delete"}, type : DesireTypes, target : Targets, owner : Owners,
          version : 1 .. MaxVersion]
    \cup [op : {"status"}, type : {"apply"}, target : Targets,
          status : Reportable("apply"), version : Versions]
    \cup [op : {"status"}, type : {"delete"}, target : Targets,
          status : Reportable("delete"), version : Versions]
    \cup [op : {"readStatus"}, type : {"read"}, target : Targets,
          status : Reportable("read")]
    \cup [op : {"prefix"}, sel : Selectors]

ASSUME RedisAssumption ==
    /\ MaxCASRetries \in Nat \ {0}
    /\ IsFiniteSet(Clients)
    /\ \A c \in Clients : Calls[c] \subseteq StoreCalls
    /\ NoCall \notin StoreCalls

Nothing == [id \in Identities |-> NoRecord]

IsCreate(k) == k.op \in {"createApply", "createDelete", "createRead"}

Key(k) ==
    CASE k.op = "createApply" -> <<"apply", k.target>>
      [] k.op = "createDelete" -> <<"delete", k.target>>
      [] k.op = "createRead" -> <<"read", k.target>>
      [] OTHER -> <<k.type, k.target>>

\* A create loads every sibling of the target, the other operations load their
\* own key.
LoadedKeys(k) ==
    IF IsCreate(k) THEN {<<t, k.target>> : t \in DesireTypes} ELSE {Key(k)}

\* Mutant: a create watches the key it creates only.
WatchOwnKey(k) == {Key(k)}

\* Every key that is loaded is watched.
WatchedKeys(k) == LoadedKeys(k)

-----------------------------------------------------------------------------
(***************************************************************************)
(* What an operation decides from the records it read.                     *)
(***************************************************************************)

\* Mutant: a completed delete still blocks the apply.
BuildApplyAlwaysPending(sibs, k, birth) ==
    LET id == <<"apply", k.target>>
    IN IF ~OwnerAllowed(sibs, k.target, k.owner) THEN Reject("OwnerConflict", sibs)
       ELSE IF Exists(sibs, <<"delete", k.target>>)
            THEN Reject("DeletePending", sibs)
       ELSE IF Exists(sibs, id) THEN Reject("AlreadyExists", sibs)
       ELSE Accept([sibs EXCEPT ![id] = NewRecord(k.owner, k.spec, birth)])

\* A completed delete is replaced without looking for an existing apply.
BuildApply(sibs, k, birth) ==
    LET id == <<"apply", k.target>>
        del == <<"delete", k.target>>
        new == NewRecord(k.owner, k.spec, birth)
    IN IF ~OwnerAllowed(sibs, k.target, k.owner) THEN Reject("OwnerConflict", sibs)
       ELSE IF Exists(sibs, del)
            THEN IF IsDeleted(sibs[del].status)
                 THEN Accept([sibs EXCEPT ![id] = new, ![del] = NoRecord])
                 ELSE Reject("DeletePending", sibs)
       ELSE IF Exists(sibs, id) THEN Reject("AlreadyExists", sibs)
       ELSE Accept([sibs EXCEPT ![id] = new])

BuildDelete(sibs, k, birth) ==
    IF ~OwnerAllowed(sibs, k.target, k.owner) THEN Reject("OwnerConflict", sibs)
    ELSE IF Exists(sibs, <<"delete", k.target>>) THEN Reject("AlreadyExists", sibs)
    ELSE Accept([sibs EXCEPT ![<<"apply", k.target>>] = NoRecord,
                             ![<<"delete", k.target>>] =
                                 NewRecord(k.owner, NoSpec, birth)])

BuildRead(sibs, k, birth) ==
    IF ~OwnerAllowed(sibs, k.target, k.owner) THEN Reject("OwnerConflict", sibs)
    ELSE IF Exists(sibs, <<"read", k.target>>) THEN Reject("AlreadyExists", sibs)
    ELSE Accept([sibs EXCEPT ![<<"read", k.target>>] =
                                 NewRecord(k.owner, k.spec, birth)])

\* The casMutate and casDelete callbacks run the checks of the contract, in
\* its order, on the one record they loaded.
DecideUpdate(sibs, k) ==
    UpdateApplyDesireSpec(sibs, k.target, k.spec, k.owner, k.version)

DecideDelete(sibs, k) == DeleteDesire(sibs, Key(k), k.owner, k.version)

DecideStatus(sibs, k) ==
    IF k.op = "status" THEN UpdateDesireStatus(sibs, Key(k), k.status, k.version)
    ELSE UpdateReadDesireStatus(sibs, k.target, k.status)

\* A key that DeleteByPrefix listed is deleted whatever it holds by now.
DecidePrefixKey(sibs, k) ==
    IF Exists(sibs, Key(k)) THEN Accept([sibs EXCEPT ![Key(k)] = NoRecord])
    ELSE Reject("CASNoop", sibs)

Decide(sibs, k, birth) ==
    CASE k.op = "createApply" -> BuildApply(sibs, k, birth)
      [] k.op = "createDelete" -> BuildDelete(sibs, k, birth)
      [] k.op = "createRead" -> BuildRead(sibs, k, birth)
      [] k.op = "updateSpec" -> DecideUpdate(sibs, k)
      [] k.op = "delete" -> DecideDelete(sibs, k)
      [] k.op \in {"status", "readStatus"} -> DecideStatus(sibs, k)
      [] k.op = "prefixKey" -> DecidePrefixKey(sibs, k)

\* The error of the same call on the atomic store.
AtomicError(db, k) ==
    CASE k.op = "createApply" ->
            CreateApplyDesire(db, k.target, k.owner, k.spec, 1).err
      [] k.op = "createDelete" -> CreateDeleteDesire(db, k.target, k.owner, 1).err
      [] k.op = "createRead" ->
            CreateReadDesire(db, k.target, k.owner, k.spec, 1).err
      [] k.op = "prefix" -> OK
      [] OTHER -> Decide(db, k, 1).err
-----------------------------------------------------------------------------
(***************************************************************************)
(* The commands of a client.                                               *)
(***************************************************************************)

Active(c) == pc[c] \notin {"idle", "done"}

Begin(c, k) ==
    /\ pc[c] = "idle"
    /\ IsCreate(k) =>
          births + Cardinality({d \in Clients : Active(d) /\ IsCreate(call[d])})
              < MaxBirths
    /\ call' = [call EXCEPT ![c] = k]
    /\ since' = [since EXCEPT ![c] = births]
    /\ could' = [could EXCEPT ![c] = {AtomicError(items, k)}]
    /\ IF k.op = "prefix"
       THEN /\ pc' = [pc EXCEPT ![c] = "scan"]
            /\ left' = [left EXCEPT ![c] = Identities]
            /\ UNCHANGED <<job, attempt>>
       ELSE /\ pc' = [pc EXCEPT ![c] = "watch"]
            /\ job' = [job EXCEPT ![c] = k]
            /\ attempt' = [attempt EXCEPT ![c] = 1]
            /\ UNCHANGED left
    /\ UNCHANGED <<storeVars, snap, todo, dirty, reply, effects>>

\* Mutant: DeleteByPrefix skips a key that it cannot delete.
FinishSkippingAborted(c, err) ==
    IF call[c].op = "prefix" /\ err \in {OK, "Aborted"}
    THEN pc' = [pc EXCEPT ![c] = "next"] /\ UNCHANGED reply
    ELSE pc' = [pc EXCEPT ![c] = "done"] /\ reply' = [reply EXCEPT ![c] = err]

\* The mutation of client c ends: the call returns, or DeleteByPrefix goes on
\* to its next key.
Finish(c, err) ==
    IF call[c].op = "prefix" /\ err = OK
    THEN pc' = [pc EXCEPT ![c] = "next"] /\ UNCHANGED reply
    ELSE pc' = [pc EXCEPT ![c] = "done"] /\ reply' = [reply EXCEPT ![c] = err]

Watch(c) ==
    /\ pc[c] = "watch"
    /\ dirty' = [dirty EXCEPT ![c] = FALSE]
    /\ snap' = [snap EXCEPT ![c] = Nothing]
    /\ left' = [left EXCEPT ![c] = LoadedKeys(job[c])]
    /\ pc' = [pc EXCEPT ![c] = "get"]
    /\ UNCHANGED <<storeVars, call, job, todo, attempt, reply, historyVars>>

\* GETs follow the order of AllTypes; the last one decides.
GetNext(c) ==
    LET type == IF \E id \in left[c] : id[1] = "apply" THEN "apply"
                ELSE IF \E id \in left[c] : id[1] = "delete" THEN "delete"
                ELSE "read"
    IN CHOOSE id \in left[c] : id[1] = type

Get(c) ==
    LET id == GetNext(c)
        read == [snap[c] EXCEPT ![id] = items[id]]
        err == Decide(read, job[c], births + 1).err
    IN /\ pc[c] = "get"
       /\ snap' = [snap EXCEPT ![c] = read]
       /\ left' = [left EXCEPT ![c] = @ \ {id}]
       /\ IF left[c] # {id} THEN UNCHANGED <<pc, reply>>
          ELSE IF err = OK THEN pc' = [pc EXCEPT ![c] = "exec"] /\ UNCHANGED reply
          ELSE Finish(c, IF err = "CASNoop" THEN OK ELSE err)
       /\ UNCHANGED <<storeVars, call, job, todo, dirty, attempt, historyVars>>

\* The keys that the transaction writes: the new or changed record, and the
\* siblings that a create supersedes.
WrittenKeys(c) ==
    LET out == Decide(snap[c], job[c], births + 1).db
    IN {Key(job[c])} \cup {id \in LoadedKeys(job[c]) : out[id] # snap[c][id]}

\* The commands queued by MULTI take effect.
Commit(c) ==
    LET out == Decide(snap[c], job[c], births + 1)
        written == WrittenKeys(c)
    IN /\ items' = [id \in Identities |->
                      IF id \in written THEN out.db[id] ELSE items[id]]
       /\ births' = IF IsCreate(job[c]) THEN births + 1 ELSE births
       /\ dirty' = [d \in Clients |->
                      \/ dirty[d]
                      \/ /\ d # c
                         /\ pc[d] \in {"get", "exec"}
                         /\ WatchedKeys(job[d]) \cap written # {}]
       /\ effects' = [effects EXCEPT ![c] = @ + 1]
       /\ could' = [d \in Clients |->
                      IF d # c /\ Active(d)
                      THEN could[d] \cup {AtomicError(items', call[d])}
                      ELSE could[d]]
       /\ UNCHANGED <<call, job, snap, left, todo, attempt, since>>

\* Mutant: the transaction does not depend on the watched keys.
ExecUnwatched(c) ==
    /\ pc[c] = "exec"
    /\ Commit(c)
    /\ Finish(c, OK) \/ Finish(c, "IOError")

\* Mutant: watchRetry also repeats a transaction whose answer was lost.
ExecRetryingLostReply(c) ==
    /\ pc[c] = "exec"
    /\ ~dirty[c]
    /\ Commit(c)
    /\ Finish(c, OK) \/ (pc' = [pc EXCEPT ![c] = "backoff"] /\ UNCHANGED reply)

\* EXEC takes effect; its answer arrives, or is lost with the connection.
Exec(c) ==
    /\ pc[c] = "exec"
    /\ ~dirty[c]
    /\ Commit(c)
    /\ Finish(c, OK) \/ Finish(c, "IOError")

ExecRefused(c) ==
    /\ pc[c] = "exec"
    /\ dirty[c]
    /\ pc' = [pc EXCEPT ![c] = "backoff"]
    /\ snap' = [snap EXCEPT ![c] = Nothing]
    /\ UNCHANGED <<storeVars, call, job, left, todo, dirty, attempt, reply,
                   historyVars>>

\* Mutant: the loop does not count its attempts.
BackoffForever(c) ==
    /\ pc[c] = "backoff"
    /\ pc' = [pc EXCEPT ![c] = "watch"]
    /\ UNCHANGED <<storeVars, call, job, snap, left, todo, dirty, attempt, reply,
                   historyVars>>

\* Mutant: one attempt too many.
BackoffOffByOne(c) ==
    /\ pc[c] = "backoff"
    /\ \/ /\ attempt[c] <= MaxCASRetries
          /\ attempt' = [attempt EXCEPT ![c] = @ + 1]
          /\ pc' = [pc EXCEPT ![c] = "watch"]
          /\ UNCHANGED reply
       \/ /\ attempt[c] > MaxCASRetries
          /\ Finish(c, "Aborted")
          /\ UNCHANGED attempt
    /\ UNCHANGED <<storeVars, call, job, snap, left, todo, dirty, historyVars>>

Backoff(c) ==
    /\ pc[c] = "backoff"
    /\ \/ /\ attempt[c] < MaxCASRetries
          /\ attempt' = [attempt EXCEPT ![c] = @ + 1]
          /\ pc' = [pc EXCEPT ![c] = "watch"]
          /\ UNCHANGED reply
       \/ /\ attempt[c] = MaxCASRetries
          /\ Finish(c, "Aborted")
          /\ UNCHANGED attempt
    /\ UNCHANGED <<storeVars, call, job, snap, left, todo, dirty, historyVars>>

\* The caller's context is canceled during the delay.
Cancel(c) ==
    /\ pc[c] = "backoff"
    /\ Finish(c, "Canceled")
    /\ UNCHANGED <<storeVars, call, job, snap, left, todo, dirty, attempt, historyVars>>

\* A command other than an EXEC that took effect fails.
CommandFails(c) ==
    /\ pc[c] \in {"watch", "get", "exec", "scan", "mget"}
    /\ Finish(c, "IOError")
    /\ UNCHANGED <<storeVars, call, job, snap, left, todo, dirty, attempt, historyVars>>

-----------------------------------------------------------------------------
(***************************************************************************)
(* DeleteByPrefix                                                          *)
(***************************************************************************)

\* SCAN meets the keys in any order, and reports those it finds there.
Scan(c) ==
    /\ pc[c] = "scan"
    /\ \E id \in left[c] :
          /\ left' = [left EXCEPT ![c] = @ \ {id}]
          /\ todo' = [todo EXCEPT ![c] =
                        IF Exists(items, id) THEN @ \cup {id} ELSE @]
          /\ pc' = [pc EXCEPT ![c] = IF left[c] = {id} THEN "mget" ELSE "scan"]
    /\ UNCHANGED <<storeVars, call, job, snap, dirty, attempt, reply, historyVars>>

MGet(c) ==
    /\ pc[c] = "mget"
    /\ todo' = [todo EXCEPT ![c] =
                  {id \in @ : Exists(items, id) /\ Matches(call[c].sel, id)}]
    /\ pc' = [pc EXCEPT ![c] = "next"]
    /\ UNCHANGED <<storeVars, call, job, snap, left, dirty, attempt, reply, historyVars>>

NextPrefixKey(c) ==
    /\ pc[c] = "next"
    /\ \/ \E id \in todo[c] :
             /\ job' = [job EXCEPT ![c] =
                          [op |-> "prefixKey", type |-> id[1], target |-> id[2]]]
             /\ todo' = [todo EXCEPT ![c] = @ \ {id}]
             /\ attempt' = [attempt EXCEPT ![c] = 1]
             /\ pc' = [pc EXCEPT ![c] = "watch"]
             /\ UNCHANGED reply
       \/ /\ todo[c] = {}
          /\ pc' = [pc EXCEPT ![c] = "done"]
          /\ reply' = [reply EXCEPT ![c] = OK]
          /\ UNCHANGED <<job, todo, attempt>>
    /\ UNCHANGED <<storeVars, call, snap, left, dirty, historyVars>>

-----------------------------------------------------------------------------

\* The caller takes the answer.
Return(c) ==
    /\ pc[c] = "done"
    /\ pc' = [pc EXCEPT ![c] = "idle"]
    /\ call' = [call EXCEPT ![c] = NoCall]
    /\ job' = [job EXCEPT ![c] = NoCall]
    /\ snap' = [snap EXCEPT ![c] = Nothing]
    /\ left' = [left EXCEPT ![c] = {}]
    /\ todo' = [todo EXCEPT ![c] = {}]
    /\ dirty' = [dirty EXCEPT ![c] = FALSE]
    /\ attempt' = [attempt EXCEPT ![c] = 0]
    /\ reply' = [reply EXCEPT ![c] = OK]
    /\ effects' = [effects EXCEPT ![c] = 0]
    /\ could' = [could EXCEPT ![c] = {}]
    /\ since' = [since EXCEPT ![c] = 0]
    /\ UNCHANGED storeVars

RedisInit ==
    /\ StoreInit
    /\ call = [c \in Clients |-> NoCall]
    /\ pc = [c \in Clients |-> "idle"]
    /\ job = [c \in Clients |-> NoCall]
    /\ snap = [c \in Clients |-> Nothing]
    /\ left = [c \in Clients |-> {}]
    /\ todo = [c \in Clients |-> {}]
    /\ dirty = [c \in Clients |-> FALSE]
    /\ attempt = [c \in Clients |-> 0]
    /\ reply = [c \in Clients |-> OK]
    /\ effects = [c \in Clients |-> 0]
    /\ could = [c \in Clients |-> {}]
    /\ since = [c \in Clients |-> 0]

Progress(c) ==
    Watch(c) \/ Get(c) \/ Exec(c) \/ ExecRefused(c) \/ Backoff(c)
      \/ Scan(c) \/ MGet(c) \/ NextPrefixKey(c)

RedisNext ==
    \E c \in Clients :
        \/ \E k \in Calls[c] : Begin(c, k)
        \/ Progress(c)
        \/ Cancel(c)
        \/ CommandFails(c)
        \/ Return(c)

\* A client that has started an operation keeps executing it.
RedisSpec ==
    /\ RedisInit
    /\ [][RedisNext]_redisVars
    /\ \A c \in Clients : WF_redisVars(Progress(c))

-----------------------------------------------------------------------------
(***************************************************************************)
(* Properties                                                              *)
(***************************************************************************)

\* Every client is at a known command of a known call, with its attempts
\* within the limit of watchRetry.
RedisTypeOK ==
    /\ pc \in [Clients -> {"idle", "watch", "get", "exec", "backoff",
                           "scan", "mget", "next", "done"}]
    /\ \A c \in Clients :
          /\ call[c] \in Calls[c] \cup {NoCall}
          /\ attempt[c] \in 0 .. MaxCASRetries
          /\ left[c] \subseteq Identities /\ todo[c] \subseteq Identities
          /\ snap[c] \in [Identities -> Records \cup {NoRecord}]

Single(c) == pc[c] = "done" /\ call[c].op # "prefix"

\* A call is applied at most once however often watchRetry repeats it: once if
\* it returns success, not at all if it returns a store error, ErrAborted or a
\* context error; only a lost connection leaves the caller in doubt.
ExactlyOnce ==
    \A c \in Clients : Single(c) =>
        /\ reply[c] = OK => effects[c] = 1
        /\ reply[c] \notin {OK, "IOError"} => effects[c] = 0
        /\ reply[c] = "IOError" => effects[c] <= 1

StoreErrors == {"NotFound", "AlreadyExists", "DeletePending", "VersionConflict",
                "OwnerConflict"}

\* A call returns an error of the contract only if the atomic store would have
\* returned it at some moment of the call, although the error is decided from
\* GETs made at different moments and no EXEC validates them.  A create that
\* reads siblings of two owners may report the conflict on the later one as
\* AlreadyExists or DeletePending: the atomic store would have said
\* OwnerConflict.
RejectionsJustified ==
    \A c \in Clients : Single(c) /\ reply[c] \in StoreErrors =>
        \/ reply[c] \in could[c]
        \/ IsCreate(call[c]) /\ "OwnerConflict" \in could[c]

\* A DeleteByPrefix that reports success has deleted every matching desire
\* that existed when it began, although it scans, loads and deletes key by key
\* while others create and update.
PrefixComplete ==
    \A c \in Clients :
        pc[c] = "done" /\ call[c].op = "prefix" /\ reply[c] = OK =>
            \A id \in Identities :
                Exists(items, id) /\ Matches(call[c].sel, id)
                    => items[id].birth > since[c]

\* Every call returns: watchRetry gives up after maxCASRetries attempts, even
\* if another client touches the key before every EXEC.
EveryCallReturns == \A c \in Clients : Active(c) ~> pc[c] = "done"

=============================================================================
