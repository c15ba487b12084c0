------------------------- MODULE RedisClientProofs --------------------------
(***************************************************************************)
(* What a mutation of the Redis backend decides from its snapshot, and how *)
(* that compares with the same call on the atomic store; the inductive     *)
(* invariant of the Redis clients; and the commands that leave the records *)
(* as they are.                                                            *)
(***************************************************************************)
EXTENDS RedisStore, DesireStoreProofs

PrefixKeys == [op : {"prefixKey"}, type : DesireTypes, target : Targets]

\* What watchRetry executes: a call other than DeleteByPrefix, or the deletion
\* of one key by it.
Mutations == {k \in StoreCalls : k.op # "prefix"} \cup PrefixKeys

-----------------------------------------------------------------------------
(***************************************************************************)
(* Mutations and what they decide                                          *)
(***************************************************************************)

\* The arguments of each operation have their types.
LEMMA MutationArguments ==
    ASSUME NEW k \in Mutations
    PROVE  /\ k.op \in {"createApply", "createDelete", "createRead", "updateSpec",
                        "delete", "status", "readStatus", "prefixKey"}
           /\ k.target \in Targets
           /\ k.op \in {"createApply", "createDelete", "createRead", "updateSpec",
                        "delete"} => k.owner \in Owners
           /\ k.op \in {"createApply", "updateSpec"} => k.spec \in Specs
           /\ k.op = "createRead" => k.spec \in TargetVersions
           /\ k.op = "updateSpec" => k.type = "apply" /\ k.version \in Versions
           /\ k.op = "delete" => k.type \in DesireTypes /\ k.version \in 1 .. MaxVersion
           /\ k.op = "status" => /\ k.type \in {"apply", "delete"}
                                 /\ k.status \in Reportable(k.type)
                                 /\ k.version \in Versions
           /\ k.op = "readStatus" => k.type = "read" /\ k.status \in Reportable("read")
           /\ k.op = "prefixKey" => k.type \in DesireTypes
  BY DEF Mutations, StoreCalls, PrefixKeys

\* Every mutation is about keys of one target, and loads the key it writes.
LEMMA MutationKeys ==
    ASSUME NEW k \in Mutations
    PROVE  /\ Key(k) \in LoadedKeys(k)
           /\ LoadedKeys(k) \subseteq Identities
           /\ LoadedKeys(k) # {}
           /\ IsCreate(k) => LoadedKeys(k) = {<<"apply", k.target>>,
                                              <<"delete", k.target>>, <<"read", k.target>>}
           /\ ~IsCreate(k) => LoadedKeys(k) = {<<k.type, k.target>>}
                              /\ Key(k) = <<k.type, k.target>>
  <1>1. k.op = "createApply" \/ k.op = "createDelete" \/ k.op = "createRead" \/ ~IsCreate(k)
    BY DEF IsCreate
  <1>2. IsCreate(k) => LoadedKeys(k) = {<<"apply", k.target>>,
                                        <<"delete", k.target>>, <<"read", k.target>>}
    BY DEF LoadedKeys, DesireTypes
  <1>3. ~IsCreate(k) => LoadedKeys(k) = {<<k.type, k.target>>}
                        /\ Key(k) = <<k.type, k.target>> /\ k.type \in DesireTypes
    BY MutationArguments DEF LoadedKeys, Key, IsCreate, DesireTypes
  <1>4. IsCreate(k) => Key(k) \in LoadedKeys(k)
    BY <1>2 DEF Key, IsCreate
  <1>5. k.target \in Targets
    BY MutationArguments
  <1> QED BY <1>2, <1>3, <1>4, <1>5 DEF Identities, DesireTypes

\* Whether an operation succeeds does not depend on the number of the creation.
LEMMA OutcomeWithoutBirth ==
    ASSUME NEW s, NEW k \in Mutations, NEW a, NEW b
    PROVE  Decide(s, k, a).err = Decide(s, k, b).err
  <1>1. CASE k.op = "createApply"
    BY <1>1 DEF Decide, BuildApply, Accept, Reject
  <1>2. CASE k.op = "createDelete"
    BY <1>2 DEF Decide, BuildDelete, Accept, Reject
  <1>3. CASE k.op = "createRead"
    BY <1>3 DEF Decide, BuildRead, Accept, Reject
  <1>4. CASE ~IsCreate(k)
    BY <1>4, MutationArguments DEF Decide, IsCreate
  <1> QED BY <1>1, <1>2, <1>3, <1>4 DEF IsCreate

\* The records db with the keys of the mutation k taken from out.
Merge(k, db, out) ==
    [id \in Identities |-> IF id \in LoadedKeys(k) THEN out[id] ELSE db[id]]

\* The snapshot s of a mutation shows the records db as they are.
Current(s, k, db) == \A id \in LoadedKeys(k) : s[id] = db[id]

\* A create that succeeds on its snapshot succeeds on the records, with the
\* same effect.  The backends decide CreateApplyDesire in different orders,
\* which makes no difference as apply and delete exclude each other.
LEMMA CreateApplyAgrees ==
    ASSUME NEW db, Sound(db), NEW s \in Db, NEW k \in Mutations, NEW b \in Nat,
           k.op = "createApply", Current(s, k, db), Decide(s, k, b).err = OK
    PROVE  LET atomic == CreateApplyDesire(db, k.target, k.owner, k.spec, b)
           IN atomic.err = OK /\ atomic.db = Merge(k, db, Decide(s, k, b).db)
  <1> DEFINE a == <<"apply", k.target>>
             d == <<"delete", k.target>>
             r == <<"read", k.target>>
             new == NewRecord(k.owner, k.spec, b)
             atomic == CreateApplyDesire(db, k.target, k.owner, k.spec, b)
  <1>1. /\ a \in Identities /\ d \in Identities /\ r \in Identities
        /\ LoadedKeys(k) = {a, d, r} /\ a # d /\ a # r /\ d # r
    BY MutationArguments, MutationKeys, Siblings DEF IsCreate
  <1>2. s[a] = db[a] /\ s[d] = db[d] /\ s[r] = db[r]
    BY <1>1 DEF Current
  <1>3. Decide(s, k, b) = BuildApply(s, k, b)
    BY DEF Decide
  <1>4. OwnerAllowed(s, k.target, k.owner) <=> OwnerAllowed(db, k.target, k.owner)
    BY <1>2 DEF OwnerAllowed, Exists
  <1>5. OwnerAllowed(s, k.target, k.owner)
    BY <1>3 DEF BuildApply, Reject, OK
  <1>6. db \in Db /\ ~(Exists(db, a) /\ Exists(db, d))
    BY MutationArguments DEF Sound
  <1>7. CASE Exists(db, d)
    <2>1. IsDeleted(db[d].status)
      BY <1>2, <1>3, <1>5, <1>7 DEF BuildApply, Reject, OK, Exists
    <2>2. Decide(s, k, b).db = [s EXCEPT ![a] = new, ![d] = NoRecord]
      BY <1>2, <1>3, <1>5, <1>7, <2>1 DEF BuildApply, Accept, Exists
    <2>3. ~Exists([db EXCEPT ![d] = NoRecord], a)
      BY <1>1, <1>6, <1>7 DEF Exists, Db
    <2>4. atomic = Accept([[db EXCEPT ![d] = NoRecord] EXCEPT ![a] = new])
      BY <1>4, <1>5, <2>1, <2>3 DEF CreateApplyDesire
    <2> HIDE DEF new
    <2>5. [[db EXCEPT ![d] = NoRecord] EXCEPT ![a] = new]
             = Merge(k, db, [s EXCEPT ![a] = new, ![d] = NoRecord])
      BY Zenon, <1>1, <1>2, <1>6 DEF Merge, Db
    <2> QED BY <2>2, <2>4, <2>5 DEF Accept
  <1>8. CASE ~Exists(db, d)
    <2>1. ~Exists(db, a)
      BY <1>2, <1>3, <1>5, <1>8 DEF BuildApply, Reject, OK, Exists
    <2>2. Decide(s, k, b).db = [s EXCEPT ![a] = new]
      BY <1>2, <1>3, <1>5, <1>8, <2>1 DEF BuildApply, Accept, Exists
    <2>3. ~Exists([db EXCEPT ![d] = NoRecord], a)
      BY <1>1, <1>6, <2>1 DEF Exists, Db
    <2>4. atomic = Accept([[db EXCEPT ![d] = NoRecord] EXCEPT ![a] = new])
      BY <1>4, <1>5, <1>8, <2>3 DEF CreateApplyDesire
    <2> HIDE DEF new
    <2>5. [[db EXCEPT ![d] = NoRecord] EXCEPT ![a] = new]
             = Merge(k, db, [s EXCEPT ![a] = new])
      BY Zenon, <1>1, <1>2, <1>6, <1>8 DEF Merge, Db, Exists
    <2> QED BY <2>2, <2>4, <2>5 DEF Accept
  <1> QED BY <1>7, <1>8

\* The same for CreateDeleteDesire,
LEMMA CreateDeleteAgrees ==
    ASSUME NEW db, Sound(db), NEW s \in Db, NEW k \in Mutations, NEW b \in Nat,
           k.op = "createDelete", Current(s, k, db), Decide(s, k, b).err = OK
    PROVE  LET atomic == CreateDeleteDesire(db, k.target, k.owner, b)
           IN atomic.err = OK /\ atomic.db = Merge(k, db, Decide(s, k, b).db)
  <1> DEFINE a == <<"apply", k.target>>
             d == <<"delete", k.target>>
             r == <<"read", k.target>>
             new == NewRecord(k.owner, NoSpec, b)
             atomic == CreateDeleteDesire(db, k.target, k.owner, b)
  <1>1. /\ a \in Identities /\ d \in Identities /\ r \in Identities
        /\ LoadedKeys(k) = {a, d, r} /\ a # d /\ a # r /\ d # r
    BY MutationArguments, MutationKeys, Siblings DEF IsCreate
  <1>2. s[a] = db[a] /\ s[d] = db[d] /\ s[r] = db[r] /\ db \in Db
    BY <1>1 DEF Current, Sound
  <1>3. Decide(s, k, b) = BuildDelete(s, k, b)
    BY DEF Decide
  <1>4. OwnerAllowed(db, k.target, k.owner) /\ OwnerAllowed(s, k.target, k.owner)
    BY <1>2, <1>3 DEF OwnerAllowed, Exists, BuildDelete, Reject, OK
  <1>5. ~Exists(db, d) /\ ~Exists(s, d)
    BY <1>2, <1>3, <1>4 DEF BuildDelete, Reject, OK, Exists
  <1>6. Decide(s, k, b).db = [s EXCEPT ![a] = NoRecord, ![d] = new]
    BY <1>3, <1>4, <1>5 DEF BuildDelete, Accept
  <1>7. atomic = Accept([[db EXCEPT ![a] = NoRecord] EXCEPT ![d] = new])
    BY <1>4, <1>5 DEF CreateDeleteDesire
  <1> HIDE DEF new
  <1>8. [[db EXCEPT ![a] = NoRecord] EXCEPT ![d] = new]
           = Merge(k, db, [s EXCEPT ![a] = NoRecord, ![d] = new])
    BY Zenon, <1>1, <1>2 DEF Merge, Db
  <1> QED BY <1>6, <1>7, <1>8 DEF Accept

\* and for CreateReadDesire.
LEMMA CreateReadAgrees ==
    ASSUME NEW db, Sound(db), NEW s \in Db, NEW k \in Mutations, NEW b \in Nat,
           k.op = "createRead", Current(s, k, db), Decide(s, k, b).err = OK
    PROVE  LET atomic == CreateReadDesire(db, k.target, k.owner, k.spec, b)
           IN atomic.err = OK /\ atomic.db = Merge(k, db, Decide(s, k, b).db)
  <1> DEFINE a == <<"apply", k.target>>
             d == <<"delete", k.target>>
             r == <<"read", k.target>>
             new == NewRecord(k.owner, k.spec, b)
             atomic == CreateReadDesire(db, k.target, k.owner, k.spec, b)
  <1>1. /\ a \in Identities /\ d \in Identities /\ r \in Identities
        /\ LoadedKeys(k) = {a, d, r} /\ a # d /\ a # r /\ d # r
    BY MutationArguments, MutationKeys, Siblings DEF IsCreate
  <1>2. s[a] = db[a] /\ s[d] = db[d] /\ s[r] = db[r] /\ db \in Db
    BY <1>1 DEF Current, Sound
  <1>3. Decide(s, k, b) = BuildRead(s, k, b)
    BY DEF Decide
  <1>4. OwnerAllowed(db, k.target, k.owner) /\ OwnerAllowed(s, k.target, k.owner)
    BY <1>2, <1>3 DEF OwnerAllowed, Exists, BuildRead, Reject, OK
  <1>5. ~Exists(db, r) /\ ~Exists(s, r)
    BY <1>2, <1>3, <1>4 DEF BuildRead, Reject, OK, Exists
  <1>6. Decide(s, k, b).db = [s EXCEPT ![r] = new]
    BY <1>3, <1>4, <1>5 DEF BuildRead, Accept
  <1>7. atomic = Accept([db EXCEPT ![r] = new])
    BY <1>4, <1>5 DEF CreateReadDesire
  <1> HIDE DEF new
  <1>8. [db EXCEPT ![r] = new] = Merge(k, db, [s EXCEPT ![r] = new])
    BY Zenon, <1>1, <1>2 DEF Merge, Db
  <1> QED BY <1>6, <1>7, <1>8 DEF Accept

\* An operation on one key looks at that key only.
LEMMA OneKeyAgrees ==
    ASSUME NEW db \in Db, NEW s \in Db, NEW k \in Mutations, ~IsCreate(k),
           Current(s, k, db), NEW b
    PROVE  /\ Decide(s, k, b).err = Decide(db, k, b).err
           /\ Decide(db, k, b).db = Merge(k, db, Decide(s, k, b).db)
  <1> DEFINE id == <<k.type, k.target>>
  <1>1. LoadedKeys(k) = {id} /\ Key(k) = id /\ id \in Identities
    BY MutationKeys
  <1>2. s[id] = db[id]
    BY <1>1 DEF Current
  <1>3. ASSUME NEW rec
        PROVE  [db EXCEPT ![id] = rec] = Merge(k, db, [s EXCEPT ![id] = rec])
    BY Zenon, <1>1, <1>2 DEF Merge, Db
  <1>4. db = Merge(k, db, s)
    BY <1>1, <1>2 DEF Merge, Db
  <1> HIDE DEF id
  <1>5. CASE k.op = "updateSpec"
    <2>1. id = <<"apply", k.target>>
      BY <1>5, MutationArguments DEF id
    <2> QED BY Zenon, <1>2, <1>3, <1>4, <1>5, <2>1
            DEF Decide, DecideUpdate, UpdateApplyDesireSpec, Accept, Reject, Exists
  <1>6. CASE k.op = "delete"
    BY <1>1, <1>2, <1>3, <1>4, <1>6
    DEF Decide, DecideDelete, DeleteDesire, Accept, Reject, Exists
  <1>7. CASE k.op = "status"
    BY <1>1, <1>2, <1>3, <1>4, <1>7
    DEF Decide, DecideStatus, UpdateDesireStatus, Accept, Reject, Exists
  <1>8. CASE k.op = "readStatus"
    <2>1. id = <<"read", k.target>>
      BY <1>8, MutationArguments DEF id
    <2> QED BY <1>2, <1>3, <1>4, <1>8, <2>1
            DEF Decide, DecideStatus, UpdateReadDesireStatus, Accept, Reject, Exists
  <1>9. CASE k.op = "prefixKey"
    BY <1>1, <1>2, <1>3, <1>4, <1>9
    DEF Decide, DecidePrefixKey, Accept, Reject, Exists
  <1> QED BY <1>5, <1>6, <1>7, <1>8, <1>9, MutationArguments DEF IsCreate

\* A transaction whose snapshot is current is one operation of the contract.
LEMMA MutationIsStep ==
    ASSUME StoreInv, NEW k \in Mutations, NEW s \in Db, Current(s, k, items),
           Decide(s, k, births + 1).err = OK,
           items' = Merge(k, items, Decide(s, k, births + 1).db),
           births' = IF IsCreate(k) THEN births + 1 ELSE births,
           IsCreate(k) => births < MaxBirths
    PROVE  StoreNext
  <1> DEFINE b == births + 1
  <1>0. Sound(items) /\ b \in Nat /\ items \in Db
    BY StoreAssumption DEF StoreInv, Sound
  <1> HIDE DEF b
  <1>1. CASE k.op = "createApply"
    <2>1. CreateApply(k.target, k.owner, k.spec)
      BY <1>0, <1>1, CreateApplyAgrees DEF CreateApply, Create, IsCreate, b
    <2> QED BY <1>1, <2>1, MutationArguments DEF StoreNext, SpecStoreNext
  <1>2. CASE k.op = "createDelete"
    <2>1. CreateDelete(k.target, k.owner)
      BY <1>0, <1>2, CreateDeleteAgrees DEF CreateDelete, Create, IsCreate, b
    <2> QED BY <1>2, <2>1, MutationArguments DEF StoreNext, SpecStoreNext
  <1>3. CASE k.op = "createRead"
    <2>1. CreateRead(k.target, k.owner, k.spec)
      BY <1>0, <1>3, CreateReadAgrees DEF CreateRead, Create, IsCreate, b
    <2> QED BY <1>3, <2>1, MutationArguments DEF StoreNext, SpecStoreNext
  <1>4. CASE ~IsCreate(k)
    <2>0. items' = Decide(items, k, b).db /\ Decide(items, k, b).err = OK /\ births' = births
      BY <1>0, <1>4, OneKeyAgrees DEF b
    <2>1. CASE k.op = "updateSpec"
      <3>1. UpdateSpec(k.target, k.spec, k.owner, k.version)
        BY <2>0, <2>1 DEF Decide, DecideUpdate, UpdateSpec, Update
      <3> QED BY <2>1, <3>1, MutationArguments DEF StoreNext, SpecStoreNext
    <2>2. CASE k.op = "delete"
      <3>1. Delete(Key(k), k.owner, k.version)
        BY <2>0, <2>2 DEF Decide, DecideDelete, Delete, Update
      <3>2. Key(k) \in Identities
        BY MutationKeys
      <3> QED BY <2>2, <3>1, <3>2, MutationArguments DEF StoreNext, SpecStoreNext
    <2>3. CASE k.op = "status"
      <3>1. WriteStatus(<<k.type, k.target>>, k.status, k.version)
        BY <1>4, <2>0, <2>3, MutationKeys DEF Decide, DecideStatus, WriteStatus, Update
      <3> QED BY <2>3, <3>1, MutationArguments DEF StoreNext, StatusStoreNext
    <2>4. CASE k.op = "readStatus"
      <3>1. WriteReadStatus(k.target, k.status)
        BY <2>0, <2>4 DEF Decide, DecideStatus, WriteReadStatus, Update
      <3> QED BY <2>4, <3>1, MutationArguments DEF StoreNext, StatusStoreNext
    <2>5. CASE k.op = "prefixKey"
      <3> DEFINE id == <<k.type, k.target>>
                 sel == [types |-> {k.type}, targets |-> {k.target}]
      <3>1. sel \in Selectors
        BY <2>5, MutationArguments DEF Selectors
      <3>2. id \in Identities /\ Key(k) = id
        BY <1>4, MutationKeys
      <3>3. items' = [items EXCEPT ![id] = NoRecord]
        BY Zenon, <2>0, <2>5, <3>2 DEF Decide, DecidePrefixKey, Accept, Reject, OK
      <3>4. \A i \in Identities : Matches(sel, i) <=> i = id
        BY DEF Matches, Identities
      <3>5. items' = DeleteByPrefix(items, sel).db
        <4> HIDE DEF sel, id
        <4> QED BY <1>0, <3>2, <3>3, <3>4 DEF DeleteByPrefix, Accept, Db
      <3>6. Prefix(sel)
        BY <2>0, <3>5 DEF Prefix, Update
      <3> HIDE DEF sel
      <3> QED BY <3>1, <3>6 DEF StoreNext, SpecStoreNext
    <2> QED BY <1>4, <2>1, <2>2, <2>3, <2>4, <2>5, MutationArguments DEF IsCreate
  <1> QED BY <1>1, <1>2, <1>3, <1>4 DEF IsCreate

\* A record that a transaction stores is new, or is the one it read, changed.
LEMMA BirthOfStored ==
    ASSUME NEW s \in Db, NEW k \in Mutations, NEW b \in Nat, Decide(s, k, b).err = OK,
           NEW id \in Identities, Decide(s, k, b).db[id] # NoRecord
    PROVE  \/ Decide(s, k, b).db[id].birth = b
           \/ s[id] # NoRecord /\ Decide(s, k, b).db[id].birth = s[id].birth
  <1> DEFINE rec == Decide(s, k, b).db[id]
  <1>1. k.target \in Targets
    BY MutationArguments
  <1>2. CASE k.op = "createApply"
    <2>1. rec = s[id] \/ rec = NewRecord(k.owner, k.spec, b)
      BY <1>1, <1>2, Siblings DEF Decide, BuildApply, Accept, Reject, OK, Db
    <2> QED BY <2>1 DEF NewRecord
  <1>3. CASE k.op = "createDelete"
    <2>1. rec = s[id] \/ rec = NewRecord(k.owner, NoSpec, b)
      BY <1>1, <1>3, Siblings DEF Decide, BuildDelete, Accept, Reject, OK, Db
    <2> QED BY <2>1 DEF NewRecord
  <1>4. CASE k.op = "createRead"
    <2>1. rec = s[id] \/ rec = NewRecord(k.owner, k.spec, b)
      BY <1>1, <1>4, Siblings DEF Decide, BuildRead, Accept, Reject, OK, Db
    <2> QED BY <2>1 DEF NewRecord
  <1>5. CASE k.op = "updateSpec"
    <2> DEFINE i == <<"apply", k.target>>
               n == IF SpecEqual(s[i].spec, k.spec) THEN 0 ELSE 1
               new == [s[i] EXCEPT !.spec = k.spec, !.version = k.version + 1,
                                   !.generation = s[i].generation + n]
    <2>1. Decide(s, k, b).db = [s EXCEPT ![i] = new] /\ s[i] # NoRecord
      BY <1>5 DEF Decide, DecideUpdate, UpdateApplyDesireSpec, Accept, Reject, OK, Exists
    <2>2. i \in Identities /\ s[i] \in Records
      BY Zenon, <1>1, <2>1, Siblings DEF Db
    <2>3. new.birth = s[i].birth
      BY <2>2 DEF Records
    <2> HIDE DEF new, i
    <2> QED BY <2>1, <2>2, <2>3 DEF Db
  <1>6. CASE k.op = "delete"
    BY <1>6, MutationKeys DEF Decide, DecideDelete, DeleteDesire, Accept, Reject, OK, Db
  <1>7. CASE k.op = "status"
    <2> DEFINE i == Key(k)
               new == [s[i] EXCEPT !.status = k.status, !.version = k.version + 1]
    <2>1. Decide(s, k, b).db = [s EXCEPT ![i] = new] /\ s[i] # NoRecord
      BY <1>7 DEF Decide, DecideStatus, UpdateDesireStatus, Accept, Reject, OK, Exists
    <2>2. i \in Identities /\ s[i] \in Records
      BY <1>1, <2>1, MutationKeys DEF Db
    <2>3. new.birth = s[i].birth
      BY <2>2 DEF Records
    <2> HIDE DEF new, i
    <2> QED BY <2>1, <2>2, <2>3 DEF Db
  <1>8. CASE k.op = "readStatus"
    <2> DEFINE i == <<"read", k.target>>
               new == [s[i] EXCEPT !.status = k.status]
    <2>1. Decide(s, k, b).db = [s EXCEPT ![i] = new] /\ s[i] # NoRecord
      BY <1>8 DEF Decide, DecideStatus, UpdateReadDesireStatus, Accept, Reject, OK, Exists
    <2>2. i \in Identities /\ s[i] \in Records
      BY Zenon, <1>1, <2>1, Siblings DEF Db
    <2>3. new.birth = s[i].birth
      BY <2>2 DEF Records
    <2> HIDE DEF new, i
    <2> QED BY <2>1, <2>2, <2>3 DEF Db
  <1>9. CASE k.op = "prefixKey"
    BY <1>9, MutationKeys DEF Decide, DecidePrefixKey, Accept, Reject, OK, Db
  <1> QED BY <1>2, <1>3, <1>4, <1>5, <1>6, <1>7, <1>8, <1>9, MutationArguments

\* The sibling rec of a create is a reason to refuse it with err.
Blocks(k, id, rec, err) ==
    \/ k.op = "createApply" /\ id[1] = "apply" /\ err = "AlreadyExists"
    \/ /\ k.op = "createApply" /\ id[1] = "delete" /\ ~IsDeleted(rec.status)
       /\ err = "DeletePending"
    \/ k.op = "createDelete" /\ id[1] = "delete" /\ err = "AlreadyExists"
    \/ k.op = "createRead" /\ id[1] = "read" /\ err = "AlreadyExists"

\* A create is refused because of one sibling, by its owner or by its type.
LEMMA RefusedBySibling ==
    ASSUME NEW s \in Db, NEW k \in Mutations, IsCreate(k), NEW b,
           Decide(s, k, b).err # OK
    PROVE  \E id \in LoadedKeys(k) :
              /\ s[id] # NoRecord
              /\ \/ s[id].owner # k.owner
                 \/ Blocks(k, id, s[id], Decide(s, k, b).err)
  <1> DEFINE a == <<"apply", k.target>>
             d == <<"delete", k.target>>
             r == <<"read", k.target>>
             err == Decide(s, k, b).err
  <1>1. LoadedKeys(k) = {a, d, r}
    BY MutationKeys
  <1>2. CASE ~OwnerAllowed(s, k.target, k.owner)
    BY <1>1, <1>2 DEF OwnerAllowed, Exists
  <1>3. CASE OwnerAllowed(s, k.target, k.owner)
    <2>1. CASE k.op = "createApply"
      <3>1. \/ s[d] # NoRecord /\ ~IsDeleted(s[d].status) /\ err = "DeletePending"
            \/ s[a] # NoRecord /\ err = "AlreadyExists"
        BY <1>3, <2>1 DEF Decide, BuildApply, Accept, Reject, Exists, OK
      <3> QED BY <1>1, <2>1, <3>1 DEF Blocks
    <2>2. CASE k.op = "createDelete"
      <3>1. s[d] # NoRecord /\ err = "AlreadyExists"
        BY <1>3, <2>2 DEF Decide, BuildDelete, Accept, Reject, Exists, OK
      <3> QED BY <1>1, <2>2, <3>1 DEF Blocks
    <2>3. CASE k.op = "createRead"
      <3>1. s[r] # NoRecord /\ err = "AlreadyExists"
        BY <1>3, <2>3 DEF Decide, BuildRead, Accept, Reject, Exists, OK
      <3> QED BY <1>1, <2>3, <3>1 DEF Blocks
    <2> QED BY <2>1, <2>2, <2>3 DEF IsCreate
  <1> QED BY <1>2, <1>3

\* The atomic store, too, refuses a create because of any one sibling: as the
\* siblings have one owner, and apply and delete exclude each other, the order
\* of the checks makes no difference.
LEMMA SiblingRefuses ==
    ASSUME NEW db, Sound(db), NEW k \in Mutations, IsCreate(k),
           NEW id \in LoadedKeys(k), db[id] # NoRecord
    PROVE  \/ AtomicError(db, k) = "OwnerConflict"
           \/ /\ db[id].owner = k.owner
              /\ \A err : Blocks(k, id, db[id], err) => err = AtomicError(db, k)
  <1> DEFINE a == <<"apply", k.target>>
             d == <<"delete", k.target>>
             r == <<"read", k.target>>
  <1>1. /\ LoadedKeys(k) = {a, d, r} /\ k.target \in Targets
        /\ a \in Identities /\ d \in Identities /\ r \in Identities
    BY MutationKeys, MutationArguments, Siblings
  <1>2. CASE ~OwnerAllowed(db, k.target, k.owner)
    BY <1>2 DEF AtomicError, CreateApplyDesire, CreateDeleteDesire, CreateReadDesire, Reject,
                IsCreate
  <1>3. CASE OwnerAllowed(db, k.target, k.owner)
    <2>1. db[id].owner = k.owner
      <3>1. PICK t \in DesireTypes : id = <<t, k.target>>
        BY <1>1 DEF DesireTypes
      <3> QED BY <1>1, <1>3, <3>1, OwnerAllowedCoversSiblings DEF Exists
    <2>2. db \in Db /\ ~(db[a] # NoRecord /\ db[d] # NoRecord)
      BY <1>1 DEF Sound, Exists
    <2>3. CASE k.op = "createApply"
      <3>1. CASE id = a
        <4>1. ~Exists(db, d) /\ Exists([db EXCEPT ![d] = NoRecord], a)
          BY <1>1, <2>2, <3>1 DEF Exists, Db
        <4>2. AtomicError(db, k) = "AlreadyExists"
          BY <1>3, <2>3, <4>1 DEF AtomicError, CreateApplyDesire, Reject
        <4> QED BY <2>1, <2>3, <3>1, <4>2 DEF Blocks
      <3>2. CASE id = d
        <4>1. ~IsDeleted(db[d].status) => AtomicError(db, k) = "DeletePending"
          BY <1>3, <2>3, <3>2 DEF AtomicError, CreateApplyDesire, Reject, Exists
        <4> QED BY <2>1, <2>3, <3>2, <4>1 DEF Blocks
      <3>3. CASE id = r
        BY <2>1, <2>3, <3>3 DEF Blocks
      <3> QED BY <1>1, <3>1, <3>2, <3>3
    <2>4. CASE k.op = "createDelete"
      <3>1. id = d => AtomicError(db, k) = "AlreadyExists"
        BY <1>3, <2>4 DEF AtomicError, CreateDeleteDesire, Reject, Exists
      <3> QED BY <1>1, <2>1, <2>4, <3>1 DEF Blocks
    <2>5. CASE k.op = "createRead"
      <3>1. id = r => AtomicError(db, k) = "AlreadyExists"
        BY <1>3, <2>5 DEF AtomicError, CreateReadDesire, Reject, Exists
      <3> QED BY <1>1, <2>1, <2>5, <3>1 DEF Blocks
    <2> QED BY <2>3, <2>4, <2>5 DEF IsCreate
  <1> QED BY <1>2, <1>3

\* Only a key that DeleteByPrefix listed can turn out to be nothing to do.
LEMMA DecideErrors ==
    ASSUME NEW s, NEW k \in Mutations, NEW b
    PROVE  /\ k.op # "prefixKey" => Decide(s, k, b).err \in StoreErrors \cup {OK}
           /\ k.op = "prefixKey" =>
                \/ Decide(s, k, b).err = OK
                \/ Decide(s, k, b).err = "CASNoop" /\ s[Key(k)] = NoRecord
  <1>1. CASE IsCreate(k)
    BY <1>1 DEF Decide, BuildApply, BuildDelete, BuildRead, Accept, Reject, StoreErrors,
                IsCreate, OK
  <1>2. CASE k.op = "updateSpec"
    BY <1>2 DEF Decide, DecideUpdate, UpdateApplyDesireSpec, Accept, Reject, StoreErrors, OK
  <1>3. CASE k.op = "delete"
    BY <1>3 DEF Decide, DecideDelete, DeleteDesire, Accept, Reject, StoreErrors, OK
  <1>4. CASE k.op \in {"status", "readStatus"}
    BY <1>4 DEF Decide, DecideStatus, UpdateDesireStatus, UpdateReadDesireStatus, Accept,
                Reject, StoreErrors, OK
  <1>5. CASE k.op = "prefixKey"
    BY <1>5 DEF Decide, DecidePrefixKey, Accept, Reject, Exists, OK
  <1> QED BY <1>1, <1>2, <1>3, <1>4, <1>5, MutationArguments DEF IsCreate

-----------------------------------------------------------------------------
(***************************************************************************)
(* The inductive invariant                                                 *)
(***************************************************************************)

Mutating(c) == pc[c] \in {"watch", "get", "exec", "backoff"}

Types ==
    /\ StoreInv
    /\ pc \in [Clients -> {"idle", "watch", "get", "exec", "backoff",
                           "scan", "mget", "next", "done"}]
    /\ call \in [Clients -> StoreCalls \cup {NoCall}]
    /\ \A c \in Clients : call[c] \in Calls[c] \cup {NoCall}
    /\ job \in [Clients -> Mutations \cup {NoCall}]
    /\ snap \in [Clients -> Db]
    /\ left \in [Clients -> SUBSET Identities]
    /\ todo \in [Clients -> SUBSET Identities]
    /\ dirty \in [Clients -> BOOLEAN]
    /\ attempt \in [Clients -> 0 .. MaxCASRetries]
    /\ reply = [c \in Clients |-> reply[c]]
    /\ effects \in [Clients -> Nat]
    /\ could = [c \in Clients |-> could[c]]
    /\ since \in [Clients -> Nat]

\* What client c is doing fits the call it is executing.
Stage(c) ==
    /\ pc[c] # "idle" => call[c] \in StoreCalls
    /\ pc[c] \in {"scan", "mget", "next"} => call[c].op = "prefix"
    /\ Mutating(c) =>
          /\ job[c] \in Mutations
          /\ call[c].op # "prefix" => job[c] = call[c]
          /\ call[c].op = "prefix" => job[c] \in PrefixKeys
    /\ pc[c] = "get" => left[c] # {} /\ left[c] \subseteq LoadedKeys(job[c])
    /\ pc[c] = "exec" => left[c] = {} /\ Decide(snap[c], job[c], 1).err = OK

\* As long as no watched key was touched, what was read is still true.
Fresh(c) ==
    pc[c] \in {"get", "exec"} /\ ~dirty[c] =>
        \A id \in LoadedKeys(job[c]) \ left[c] : snap[c][id] = items[id]

\* A single call takes effect when it succeeds and not before.
Once(c) ==
    /\ pc[c] = "idle" => effects[c] = 0
    /\ pc[c] # "idle" /\ call[c].op # "prefix" =>
          /\ pc[c] # "done" => effects[c] = 0
          /\ pc[c] = "done" => /\ reply[c] = OK => effects[c] = 1
                               /\ reply[c] \notin {OK, "IOError"} => effects[c] = 0
                               /\ reply[c] = "IOError" => effects[c] <= 1

\* The errors that the atomic store would have returned include the present
\* one, and one for every sibling that a create has read.
Justified(c) ==
    /\ Active(c) => AtomicError(items, call[c]) \in could[c]
    /\ pc[c] \in {"get", "exec"} /\ IsCreate(job[c]) =>
          \A id \in LoadedKeys(job[c]) \ left[c] : snap[c][id] # NoRecord =>
              \/ "OwnerConflict" \in could[c]
              \/ /\ snap[c][id].owner = job[c].owner
                 /\ \A err \in StoreErrors :
                        Blocks(job[c], id, snap[c][id], err) => err \in could[c]
    /\ Single(c) /\ reply[c] \in StoreErrors =>
          \/ reply[c] \in could[c]
          \/ IsCreate(call[c]) /\ "OwnerConflict" \in could[c]

\* A desire that a prefix delete has to delete is still ahead of it.
Ahead(c) ==
    pc[c] # "idle" /\ call[c].op = "prefix" =>
        /\ since[c] <= births
        /\ (pc[c] = "done" => reply[c] = OK) =>
              \A id \in Identities :
                  /\ items[id] # NoRecord
                  /\ Matches(call[c].sel, id)
                  /\ items[id].birth <= since[c]
                  => \/ pc[c] = "scan" /\ id \in left[c]
                     \/ pc[c] # "done" /\ id \in todo[c]
                     \/ Mutating(c) /\ id = Key(job[c])

Creating == {c \in Clients : Active(c) /\ IsCreate(call[c])}

ClientInv(c) == Stage(c) /\ Fresh(c) /\ Once(c) /\ Justified(c) /\ Ahead(c)

\* The inductive invariant: every client's progress agrees with the records,
\* and the creations in progress have their numbers reserved.
RedisInv ==
    /\ Types
    /\ \A c \in Clients : ClientInv(c)
    /\ births + Cardinality(Creating) <= MaxBirths

\* A step leaves client d where it is.
Same(d) ==
    /\ call'[d] = call[d] /\ pc'[d] = pc[d] /\ job'[d] = job[d] /\ snap'[d] = snap[d]
    /\ left'[d] = left[d] /\ todo'[d] = todo[d] /\ dirty'[d] = dirty[d]
    /\ reply'[d] = reply[d] /\ effects'[d] = effects[d] /\ could'[d] = could[d]
    /\ since'[d] = since[d]

\* A client that does nothing while the records stay keeps its invariant.
LEMMA Untouched ==
    ASSUME NEW d \in Clients, ClientInv(d), Same(d), UNCHANGED storeVars
    PROVE  ClientInv(d)'
  <1>1. items' = items /\ births' = births
    BY DEF storeVars
  <1>2. Stage(d)'
    BY Zenon DEF ClientInv, Stage, Same, Mutating
  <1>3. Fresh(d)'
    BY <1>1 DEF ClientInv, Fresh, Same
  <1>4. Once(d)'
    BY DEF ClientInv, Once, Same
  <1>5. Justified(d)'
    <2>1. Justified(d)
      BY DEF ClientInv
    <2>2. /\ call'[d] = call[d] /\ pc'[d] = pc[d] /\ job'[d] = job[d] /\ snap'[d] = snap[d]
          /\ left'[d] = left[d] /\ reply'[d] = reply[d] /\ could'[d] = could[d]
      BY DEF Same
    <2>3. (Active(d)' <=> Active(d)) /\ (Single(d)' <=> Single(d))
      BY <2>2 DEF Active, Single
    <2>4. (Active(d) => AtomicError(items, call[d]) \in could[d])'
      BY Zenon, <1>1, <2>1, <2>2, <2>3 DEF Justified
    <2>5. ASSUME pc'[d] \in {"get", "exec"}, IsCreate(job'[d]),
                 NEW id \in LoadedKeys(job'[d]) \ left'[d], snap'[d][id] # NoRecord
          PROVE  \/ "OwnerConflict" \in could'[d]
                 \/ /\ snap'[d][id].owner = job'[d].owner
                    /\ \A err \in StoreErrors :
                           Blocks(job'[d], id, snap'[d][id], err) => err \in could'[d]
      BY Zenon, <2>1, <2>2, <2>5 DEF Justified
    <2>6. (Single(d) /\ reply[d] \in StoreErrors =>
              \/ reply[d] \in could[d]
              \/ IsCreate(call[d]) /\ "OwnerConflict" \in could[d])'
      BY Zenon, <2>1, <2>2, <2>3 DEF Justified
    <2> QED BY <2>4, <2>5, <2>6 DEF Justified
  <1>6. Ahead(d)'
    BY <1>1 DEF ClientInv, Ahead, Same, Mutating
  <1> QED BY <1>2, <1>3, <1>4, <1>5, <1>6 DEF ClientInv

\* A step of c that changes no record, moves no other client, begins no
\* creation and keeps what the invariant says of c.
Quiet(c) ==
    /\ Types' /\ ClientInv(c)' /\ UNCHANGED storeVars
    /\ \A d \in Clients \ {c} : Same(d)
    /\ c \in Creating' => c \in Creating

-----------------------------------------------------------------------------
(***************************************************************************)
(* The commands that leave the records as they are                         *)
(***************************************************************************)

\* WATCH: nothing is read yet.
LEMMA WatchQuiet ==
    ASSUME RedisInv, NEW c \in Clients, Watch(c)
    PROVE  Quiet(c)
  <1>0. Types /\ ClientInv(c) /\ items' = items /\ births' = births
    BY DEF RedisInv, Watch, storeVars
  <1>1. job[c] \in Mutations
    BY <1>0 DEF ClientInv, Stage, Mutating, Watch
  <1>2. LoadedKeys(job[c]) # {} /\ LoadedKeys(job[c]) \subseteq Identities
    BY <1>1, MutationKeys
  <1>3. Types'
    <2>1. Nothing \in Db
      BY DEF Nothing, Db
    <2> QED BY <1>0, <1>2, <2>1 DEF Types, Watch, historyVars, storeVars, StoreInv
  <1>4. /\ pc[c] = "watch" /\ pc'[c] = "get" /\ left'[c] = LoadedKeys(job[c])
        /\ call'[c] = call[c] /\ job'[c] = job[c] /\ todo'[c] = todo[c]
        /\ reply'[c] = reply[c] /\ effects'[c] = effects[c] /\ could'[c] = could[c]
        /\ since'[c] = since[c]
    BY <1>0 DEF Types, Watch, historyVars
  <1>5. \A d \in Clients \ {c} : Same(d)
    BY <1>0 DEF Watch, Types, Same, historyVars
  <1>6. Stage(c)'
    BY Zenon, <1>0, <1>2, <1>4 DEF ClientInv, Stage, Mutating
  <1>7. Fresh(c)' /\ Once(c)'
    <2>1. Fresh(c)'
      BY <1>4 DEF Fresh
    <2>2. call[c].op # "prefix" => effects[c] = 0
      BY <1>0, <1>4 DEF ClientInv, Once
    <2> QED BY <1>4, <2>1, <2>2 DEF Once
  <1>8. Justified(c)'
    BY Zenon, <1>0, <1>4 DEF ClientInv, Justified, Active, Single
  <1>9. Ahead(c)'
    BY Zenon, <1>0, <1>4 DEF ClientInv, Ahead, Mutating
  <1>10. c \in Creating' => c \in Creating
    BY <1>4 DEF Creating, Active
  <1> QED BY <1>0, <1>3, <1>5, <1>6, <1>7, <1>8, <1>9, <1>10 DEF Quiet, ClientInv, storeVars

\* A call that fails without an effect returns an error which is not the store's.
LEMMA FailQuiet ==
    ASSUME RedisInv, NEW c \in Clients, NEW err, Active(c), Finish(c, err),
           err \notin StoreErrors \cup {OK},
           UNCHANGED <<storeVars, call, job, snap, left, todo, dirty, attempt, historyVars>>
    PROVE  Quiet(c)
  <1>0. Types /\ ClientInv(c) /\ items' = items /\ births' = births
    BY DEF RedisInv, storeVars
  <1>1. Types'
    BY <1>0 DEF Types, Finish, historyVars, StoreInv
  <1>2. /\ pc'[c] = "done" /\ reply'[c] = err
        /\ call'[c] = call[c] /\ effects'[c] = effects[c] /\ since'[c] = since[c]
    BY <1>0 DEF Types, Finish, historyVars
  <1>3. \A d \in Clients \ {c} : Same(d)
    BY <1>0 DEF Finish, Types, Same, historyVars
  <1>4. Stage(c)'
    BY Zenon, <1>0, <1>2 DEF ClientInv, Stage, Mutating, Active
  <1>5. Fresh(c)' /\ Once(c)'
    <2>1. Fresh(c)'
      BY <1>2 DEF Fresh
    <2>2. call[c].op # "prefix" => effects[c] = 0
      BY <1>0 DEF ClientInv, Once, Active
    <2>3. err \notin {OK, "IOError"} \/ err = "IOError"
      OBVIOUS
    <2> QED BY <1>2, <2>1, <2>2, <2>3 DEF Once
  <1>6. Justified(c)'
    <2>1. ~Active(c)' /\ pc'[c] \notin {"get", "exec"} /\ reply'[c] \notin StoreErrors
      BY <1>2 DEF Active
    <2> QED BY <2>1 DEF Justified
  <1>7. Ahead(c)'
    BY Zenon, <1>0, <1>2 DEF ClientInv, Ahead, Mutating, Active
  <1>8. c \notin Creating'
    BY <1>2 DEF Creating, Active
  <1> QED BY <1>0, <1>1, <1>3, <1>4, <1>5, <1>6, <1>7, <1>8 DEF Quiet, ClientInv, storeVars

\* A refused EXEC changes nothing; watchRetry waits and repeats, or gives up.
LEMMA RetryQuiet ==
    ASSUME RedisInv, NEW c \in Clients, ExecRefused(c) \/ Backoff(c)
    PROVE  Quiet(c)
  <1>0. Types /\ ClientInv(c) /\ items' = items /\ births' = births
    BY DEF RedisInv, ExecRefused, Backoff, storeVars
  <1>1. CASE Backoff(c) /\ Finish(c, "Aborted") /\ UNCHANGED attempt
    BY <1>1, FailQuiet DEF Backoff, Active, StoreErrors, OK
  <1>2. CASE ~(Backoff(c) /\ Finish(c, "Aborted") /\ UNCHANGED attempt)
    <2>1. Types'
      <3>1. Nothing \in Db
        BY DEF Nothing, Db
      <3>2. CASE ExecRefused(c)
        BY <1>0, <3>1, <3>2 DEF Types, ExecRefused, historyVars, StoreInv
      <3>3. CASE Backoff(c)
        BY <1>0, <1>2, <3>3, RedisAssumption DEF Types, Backoff, historyVars, StoreInv
      <3> QED BY <3>2, <3>3
    <2>2. /\ pc[c] \in {"exec", "backoff"} /\ pc'[c] \in {"backoff", "watch"}
          /\ call'[c] = call[c] /\ job'[c] = job[c] /\ todo'[c] = todo[c]
          /\ effects'[c] = effects[c] /\ could'[c] = could[c] /\ since'[c] = since[c]
      BY <1>0, <1>2 DEF Types, ExecRefused, Backoff, historyVars
    <2>3. \A d \in Clients \ {c} : Same(d)
      BY <1>0, <1>2 DEF ExecRefused, Backoff, Types, Same, historyVars
    <2>4. Stage(c)'
      BY Zenon, <1>0, <2>2 DEF ClientInv, Stage, Mutating
    <2>5. Fresh(c)' /\ Once(c)'
      BY Zenon, <1>0, <2>2 DEF ClientInv, Fresh, Once
    <2>6. Justified(c)'
      BY Zenon, <1>0, <2>2 DEF ClientInv, Justified, Active, Single
    <2>7. Ahead(c)'
      BY Zenon, <1>0, <2>2 DEF ClientInv, Ahead, Mutating
    <2>8. c \in Creating' => c \in Creating
      BY <2>2 DEF Creating, Active
    <2> QED BY <1>0, <2>1, <2>3, <2>4, <2>5, <2>6, <2>7, <2>8
            DEF Quiet, ClientInv, storeVars
  <1> QED BY <1>1, <1>2

\* SCAN moves the keys it meets to the list, MGET keeps those that match.
LEMMA ListQuiet ==
    ASSUME RedisInv, NEW c \in Clients, Scan(c) \/ MGet(c)
    PROVE  Quiet(c)
  <1>0. Types /\ ClientInv(c) /\ items' = items /\ births' = births
    BY DEF RedisInv, Scan, MGet, storeVars
  <1>1. /\ pc[c] \in {"scan", "mget"} /\ pc'[c] \in {"scan", "mget", "next"}
        /\ call'[c] = call[c] /\ effects'[c] = effects[c] /\ could'[c] = could[c]
        /\ since'[c] = since[c] /\ reply'[c] = reply[c]
    BY <1>0 DEF Types, Scan, MGet, historyVars
  <1>2. \A d \in Clients \ {c} : Same(d)
    BY <1>0 DEF Scan, MGet, Types, Same, historyVars
  <1>3. Types'
    <2>1. CASE Scan(c)
      <3>1. PICK id \in left[c] :
              /\ left' = [left EXCEPT ![c] = @ \ {id}]
              /\ todo' = [todo EXCEPT ![c] = IF Exists(items, id) THEN @ \cup {id} ELSE @]
              /\ pc' = [pc EXCEPT ![c] = IF left[c] = {id} THEN "mget" ELSE "scan"]
        BY Zenon, <2>1 DEF Scan
      <3>2. id \in Identities /\ left[c] \in SUBSET Identities /\ todo[c] \in SUBSET Identities
        BY <1>0 DEF Types
      <3>3. /\ (left \in [Clients -> SUBSET Identities])'
            /\ (todo \in [Clients -> SUBSET Identities])'
        BY <1>0, <3>1, <3>2 DEF Types
      <3> QED BY <1>0, <2>1, <3>1, <3>3 DEF Types, Scan, historyVars, StoreInv
    <2>2. CASE MGet(c)
      <3>1. (todo \in [Clients -> SUBSET Identities])'
        BY <1>0, <2>2 DEF Types, MGet
      <3> QED BY <1>0, <2>2, <3>1 DEF Types, MGet, historyVars, StoreInv
    <2> QED BY <2>1, <2>2
  <1>4. Stage(c)'
    BY Zenon, <1>0, <1>1 DEF ClientInv, Stage, Mutating
  <1>5. Fresh(c)' /\ Once(c)'
    BY <1>0, <1>1 DEF ClientInv, Fresh, Once
  <1>6. Justified(c)'
    BY Zenon, <1>0, <1>1 DEF ClientInv, Justified, Active, Single
  <1>7. Ahead(c)'
    <2>1. /\ call[c].op = "prefix" /\ since[c] <= births
          /\ \A id \in Identities :
                 items[id] # NoRecord /\ Matches(call[c].sel, id) /\ items[id].birth <= since[c]
                     => (pc[c] = "scan" /\ id \in left[c]) \/ id \in todo[c]
      BY Zenon, <1>0, <1>1 DEF ClientInv, Stage, Ahead, Mutating
    <2>2. ASSUME NEW id \in Identities, items[id] # NoRecord, Matches(call[c].sel, id),
                 items[id].birth <= since[c]
          PROVE  (pc'[c] = "scan" /\ id \in left'[c]) \/ id \in todo'[c]
      <3>1. CASE Scan(c)
        <4>1. PICK i \in left[c] :
                /\ left' = [left EXCEPT ![c] = @ \ {i}]
                /\ todo' = [todo EXCEPT ![c] = IF Exists(items, i) THEN @ \cup {i} ELSE @]
                /\ pc' = [pc EXCEPT ![c] = IF left[c] = {i} THEN "mget" ELSE "scan"]
          BY Zenon, <3>1 DEF Scan
        <4>2. /\ left'[c] = left[c] \ {i}
              /\ todo'[c] = IF Exists(items, i) THEN todo[c] \cup {i} ELSE todo[c]
              /\ left[c] # {i} => pc'[c] = "scan"
          BY <1>0, <4>1 DEF Types
        <4> QED BY <2>1, <2>2, <4>2 DEF Exists
      <3>2. CASE MGet(c)
        <4>1. /\ pc[c] = "mget"
              /\ todo'[c] = {i \in todo[c] : Exists(items, i) /\ Matches(call[c].sel, i)}
          BY <1>0, <3>2 DEF MGet, Types
        <4> QED BY <2>1, <2>2, <4>1 DEF Exists
      <3> QED BY <3>1, <3>2
    <2> QED BY Zenon, <1>0, <1>1, <2>1, <2>2 DEF Ahead
  <1>8. c \in Creating' => c \in Creating
    BY <1>1 DEF Creating, Active
  <1> QED BY <1>0, <1>2, <1>3, <1>4, <1>5, <1>6, <1>7, <1>8 DEF Quiet, ClientInv, storeVars

\* DeleteByPrefix takes up the next key, or returns when there is none.
LEMMA NextKeyQuiet ==
    ASSUME RedisInv, NEW c \in Clients, NextPrefixKey(c)
    PROVE  Quiet(c)
  <1>0. Types /\ ClientInv(c) /\ items' = items /\ births' = births
    BY DEF RedisInv, NextPrefixKey, storeVars
  <1>1. /\ pc[c] = "next" /\ call'[c] = call[c] /\ effects'[c] = effects[c]
        /\ could'[c] = could[c] /\ since'[c] = since[c]
        /\ call[c] \in StoreCalls /\ call[c].op = "prefix"
    BY <1>0 DEF Types, NextPrefixKey, historyVars, ClientInv, Stage
  <1>2. \A d \in Clients \ {c} : Same(d)
    BY <1>0 DEF NextPrefixKey, Types, Same, historyVars
  <1>3. \A id \in Identities :
           items[id] # NoRecord /\ Matches(call[c].sel, id) /\ items[id].birth <= since[c]
               => id \in todo[c]
    BY <1>0, <1>1 DEF ClientInv, Ahead, Mutating
  <1>4. CASE todo[c] = {}
    <2>1. pc' = [pc EXCEPT ![c] = "done"] /\ reply' = [reply EXCEPT ![c] = OK]
          /\ UNCHANGED <<job, todo, attempt>>
      BY <1>4 DEF NextPrefixKey
    <2>2. Types'
      BY Zenon, <1>0, <2>1 DEF Types, NextPrefixKey, historyVars, StoreInv
    <2>3. pc'[c] = "done"
      BY Zenon, <1>0, <2>1 DEF Types
    <2>4. Stage(c)' /\ Fresh(c)' /\ Once(c)'
      BY Zenon, <1>1, <2>3 DEF Stage, Fresh, Once, Mutating
    <2>5. Justified(c)'
      BY <1>1, <2>3 DEF Justified, Active, Single
    <2>6. Ahead(c)'
      BY Zenon, <1>0, <1>1, <1>3, <1>4, <2>3 DEF ClientInv, Ahead
    <2>7. c \notin Creating'
      BY <2>3 DEF Creating, Active
    <2> QED BY <1>0, <1>2, <2>2, <2>4, <2>5, <2>6, <2>7 DEF Quiet, ClientInv, storeVars
  <1>5. CASE todo[c] # {}
    <2>1. PICK id \in todo[c] :
             /\ job' = [job EXCEPT ![c] =
                          [op |-> "prefixKey", type |-> id[1], target |-> id[2]]]
             /\ todo' = [todo EXCEPT ![c] = @ \ {id}]
             /\ attempt' = [attempt EXCEPT ![c] = 1]
             /\ pc' = [pc EXCEPT ![c] = "watch"]
             /\ UNCHANGED reply
      BY <1>5 DEF NextPrefixKey
    <2> DEFINE k == [op |-> "prefixKey", type |-> id[1], target |-> id[2]]
    <2>2. id \in Identities
      BY <1>0 DEF Types
    <2>3. k \in PrefixKeys /\ k \in Mutations /\ Key(k) = id
      BY <2>2 DEF PrefixKeys, Mutations, Identities, Key
    <2> HIDE DEF k
    <2>4. Types'
      <3>1. /\ (job \in [Clients -> Mutations \cup {NoCall}])'
            /\ (todo \in [Clients -> SUBSET Identities])'
            /\ (attempt \in [Clients -> 0 .. MaxCASRetries])'
        BY <1>0, <2>1, <2>3, RedisAssumption DEF Types, k
      <3> QED BY <1>0, <2>1, <3>1 DEF Types, NextPrefixKey, historyVars, StoreInv
    <2>5. pc'[c] = "watch" /\ job'[c] = k /\ todo'[c] = todo[c] \ {id}
      BY <1>0, <2>1 DEF Types, k
    <2>6. Stage(c)'
      BY <1>1, <2>3, <2>5 DEF Stage, Mutating
    <2>7. Fresh(c)' /\ Once(c)'
      BY Zenon, <1>1, <2>5 DEF Fresh, Once
    <2>8. Justified(c)'
      BY Zenon, <1>0, <1>1, <2>5 DEF ClientInv, Justified, Active, Single
    <2>9. Ahead(c)'
      BY Zenon, <1>0, <1>1, <1>3, <2>3, <2>5 DEF ClientInv, Ahead, Mutating
    <2>10. c \in Creating' => c \in Creating
      BY <1>1 DEF Creating, Active
    <2> QED BY Zenon, <1>0, <1>2, <2>4, <2>6, <2>7, <2>8, <2>9, <2>10
            DEF Quiet, ClientInv, storeVars
  <1> QED BY <1>4, <1>5

\* A client that took its answer is as new.
LEMMA ReturnQuiet ==
    ASSUME RedisInv, NEW c \in Clients, Return(c)
    PROVE  Quiet(c)
  <1>0. Types /\ items' = items /\ births' = births
    BY DEF RedisInv, Return, storeVars
  <1>1. Types'
    <2>1. Nothing \in Db
      BY DEF Nothing, Db
    <2>2. /\ StoreInv' /\ \A d \in Clients : call'[d] \in Calls[d] \cup {NoCall}
          /\ (snap \in [Clients -> Db])'
          /\ (attempt \in [Clients -> 0 .. MaxCASRetries])'
      BY <1>0, <2>1, RedisAssumption DEF Types, Return, StoreInv
    <2>3. /\ (reply = [d \in Clients |-> reply[d]])'
          /\ (could = [d \in Clients |-> could[d]])'
      BY Zenon, <1>0 DEF Types, Return
    <2> QED BY <1>0, <2>2, <2>3 DEF Types, Return
  <1>2. pc'[c] = "idle" /\ effects'[c] = 0
    BY <1>0 DEF Types, Return
  <1>3. \A d \in Clients \ {c} : Same(d)
    BY Zenon, <1>0 DEF Return, Types, Same
  <1>4. ClientInv(c)'
    BY <1>2 DEF ClientInv, Stage, Fresh, Once, Justified, Ahead, Mutating, Active, Single
  <1>5. c \notin Creating'
    BY <1>2 DEF Creating, Active
  <1> QED BY <1>0, <1>1, <1>3, <1>4, <1>5 DEF Quiet, storeVars
=============================================================================
