-------------------------- MODULE RedisStoreProofs --------------------------
(***************************************************************************)
(* The Redis backend implements the store contract, for any clients,       *)
(* targets, owners, specs and statuses: Begin, GET, EXEC and the theorems. *)
(***************************************************************************)
EXTENDS RedisClientProofs, FiniteSetTheorems

(***************************************************************************)
(* The calls that begin                                                    *)
(***************************************************************************)

\* The creations in progress are finitely many.
LEMMA CreatingFinite ==
    ASSUME NEW S \in SUBSET Clients
    PROVE  IsFiniteSet(S) /\ Cardinality(S) \in Nat
  BY RedisAssumption, FS_Subset, FS_CardinalityType

\* A quiet step keeps the invariant.
LEMMA LocalStep ==
    ASSUME RedisInv, NEW c \in Clients, Quiet(c)
    PROVE  RedisInv'
  <1>1. \A d \in Clients : ClientInv(d)'
    BY Untouched DEF RedisInv, Quiet
  <1>2. Creating' \subseteq Creating
    BY DEF Creating, Same, Active, Quiet
  <1>3. births' = births /\ births \in Nat
    BY DEF storeVars, RedisInv, Types, StoreInv, Quiet
  <1>4. Cardinality(Creating') <= Cardinality(Creating)
    BY <1>2, CreatingFinite, FS_Subset DEF Creating
  <1>5. Cardinality(Creating') \in Nat /\ Cardinality(Creating) \in Nat
    BY CreatingFinite DEF Creating
  <1>6. births' + Cardinality(Creating') <= MaxBirths
    BY <1>3, <1>4, <1>5, StoreAssumption DEF RedisInv
  <1> QED BY <1>1, <1>6 DEF RedisInv, Quiet

\* A call that starts does so with nothing done, and reserves its creation.
LEMMA BeginInv ==
    ASSUME RedisInv, NEW c \in Clients, NEW k \in Calls[c], Begin(c, k)
    PROVE  RedisInv'
  <1>0. Types /\ Types' /\ k \in StoreCalls /\ items' = items /\ births' = births
    <2>1. k \in StoreCalls /\ (k.op # "prefix" => k \in Mutations) /\ 1 \in 0 .. MaxCASRetries
      BY RedisAssumption DEF Mutations
    <2>2. Types /\ items' = items /\ births' = births
      BY DEF RedisInv, Begin, storeVars
    <2>3. /\ StoreInv' /\ snap' = snap /\ todo' = todo /\ dirty' = dirty
          /\ reply' = reply /\ effects' = effects /\ births \in Nat
      BY <2>2 DEF Types, Begin, StoreInv
    <2>4. /\ (call \in [Clients -> StoreCalls \cup {NoCall}])'
          /\ \A d \in Clients : call'[d] \in Calls[d] \cup {NoCall}
      BY <2>1, <2>2 DEF Types, Begin
    <2>5. /\ (since \in [Clients -> Nat])'
          /\ (could = [d \in Clients |-> could[d]])'
      BY Zenon, <2>2, <2>3 DEF Types, Begin
    <2>6. CASE k.op = "prefix"
      BY <2>1, <2>2, <2>3, <2>4, <2>5, <2>6 DEF Types, Begin
    <2>7. CASE k.op # "prefix"
      <3>1. /\ pc' = [pc EXCEPT ![c] = "watch"] /\ job' = [job EXCEPT ![c] = k]
            /\ attempt' = [attempt EXCEPT ![c] = 1] /\ left' = left
        BY <2>7 DEF Begin
      <3> QED BY <2>1, <2>2, <2>3, <2>4, <2>5, <2>7, <3>1 DEF Types
    <2> QED BY <2>1, <2>2, <2>6, <2>7
  <1>1. /\ pc[c] = "idle" /\ call'[c] = k /\ since'[c] = births /\ effects'[c] = 0
        /\ could'[c] = {AtomicError(items, k)}
        /\ k.op = "prefix" => pc'[c] = "scan" /\ left'[c] = Identities
        /\ k.op # "prefix" => pc'[c] = "watch" /\ job'[c] = k /\ k \in Mutations
    BY <1>0 DEF Begin, Types, RedisInv, ClientInv, Once, Mutations
  <1>2. \A d \in Clients \ {c} : Same(d)
    BY <1>0 DEF Begin, Types, Same
  <1>3. ClientInv(c)'
    <2>1. Stage(c)'
      BY <1>0, <1>1 DEF Stage, Mutating
    <2>2. Fresh(c)' /\ Once(c)'
      BY <1>0, <1>1 DEF Fresh, Once
    <2>3. Justified(c)'
      BY <1>0, <1>1 DEF Justified, Active, Single
    <2>4. Ahead(c)'
      BY <1>0, <1>1 DEF Ahead, Types, StoreInv
    <2> QED BY <2>1, <2>2, <2>3, <2>4 DEF ClientInv
  <1>4. CASE ~IsCreate(k)
    <2>1. c \notin Creating'
      BY <1>1, <1>4 DEF Creating
    <2> QED BY <1>0, <1>2, <1>3, <2>1, LocalStep DEF Quiet, storeVars
  <1>5. CASE IsCreate(k)
    <2>1. Creating' \subseteq Creating \cup {c} /\ c \notin Creating
      BY <1>1, <1>2 DEF Creating, Same, Active
    <2>2. births + Cardinality(Creating) < MaxBirths
      BY <1>5 DEF Begin, Creating
    <2>3. /\ IsFiniteSet(Creating) /\ Cardinality(Creating) \in Nat
          /\ Cardinality(Creating') \in Nat
      BY CreatingFinite DEF Creating
    <2>4. /\ IsFiniteSet(Creating \cup {c})
          /\ Cardinality(Creating \cup {c}) = Cardinality(Creating) + 1
      BY <2>1, <2>3, FS_AddElement
    <2>5. Cardinality(Creating') <= Cardinality(Creating) + 1
      BY <2>1, <2>4, FS_Subset
    <2>6. births' + Cardinality(Creating') <= MaxBirths
      BY <1>0, <2>2, <2>3, <2>5, StoreAssumption DEF Types, StoreInv
    <2>7. \A d \in Clients : ClientInv(d)'
      BY <1>0, <1>2, <1>3, Untouched DEF RedisInv, storeVars
    <2> QED BY <1>0, <2>6, <2>7 DEF RedisInv
  <1> QED BY <1>4, <1>5

-----------------------------------------------------------------------------
(***************************************************************************)
(* The commands that decide and that write                                 *)
(***************************************************************************)

\* What a create has read, including the record its GET returns now, accounts
\* for an error of the atomic store at some moment of the call.
LEMMA ReadIsJustified ==
    ASSUME RedisInv, NEW c \in Clients, pc[c] = "get", IsCreate(job[c]),
           NEW id \in left[c], NEW i \in LoadedKeys(job[c]) \ (left[c] \ {id}),
           NEW rec, rec = (IF i = id THEN items[i] ELSE snap[c][i]), rec # NoRecord
    PROVE  \/ "OwnerConflict" \in could[c]
           \/ /\ rec.owner = job[c].owner
              /\ \A err \in StoreErrors : Blocks(job[c], i, rec, err) => err \in could[c]
  <1>0. Types /\ ClientInv(c)
    BY DEF RedisInv
  <1>1. job[c] \in Mutations /\ job[c] = call[c]
    BY <1>0 DEF ClientInv, Stage, Mutating, PrefixKeys, IsCreate
  <1>2. CASE i # id
    BY <1>0, <1>2 DEF ClientInv, Justified
  <1>3. CASE i = id
    <2>1. AtomicError(items, job[c]) \in could[c]
      BY <1>0, <1>1 DEF ClientInv, Justified, Active
    <2>2. Sound(items)
      BY <1>0 DEF Types, StoreInv
    <2>3. rec = items[i] /\ i \in LoadedKeys(job[c]) /\ items[i] # NoRecord
      BY <1>3
    <2>4. \/ AtomicError(items, job[c]) = "OwnerConflict"
          \/ /\ items[i].owner = job[c].owner
             /\ \A err : Blocks(job[c], i, items[i], err) => err = AtomicError(items, job[c])
      BY Zenon, <1>1, <2>2, <2>3, SiblingRefuses
    <2> QED BY <2>1, <2>3, <2>4
  <1> QED BY <1>2, <1>3

\* GET: the last one decides, and what it decides without EXEC is justified.
LEMMA GetQuiet ==
    ASSUME RedisInv, NEW c \in Clients, Get(c)
    PROVE  Quiet(c)
  <1> DEFINE id == GetNext(c)
             k == job[c]
             read == [snap[c] EXCEPT ![id] = items[id]]
             err == Decide(read, k, births + 1).err
             answer == IF err = "CASNoop" THEN OK ELSE err
  <1>0. Types /\ ClientInv(c) /\ items' = items /\ births' = births /\ pc[c] = "get"
    BY DEF RedisInv, Get, storeVars
  <1>1. /\ k \in Mutations /\ left[c] # {} /\ left[c] \subseteq LoadedKeys(k)
        /\ LoadedKeys(k) \subseteq Identities /\ call[c] \in StoreCalls
        /\ call[c].op # "prefix" => k = call[c] /\ k.op # "prefixKey"
        /\ call[c].op = "prefix" => k \in PrefixKeys /\ k.op = "prefixKey"
    <2>1. /\ k \in Mutations /\ left[c] # {} /\ left[c] \subseteq LoadedKeys(k)
          /\ call[c] \in StoreCalls
          /\ call[c].op # "prefix" => k = call[c]
          /\ call[c].op = "prefix" => k \in PrefixKeys
      BY <1>0 DEF ClientInv, Stage, Mutating
    <2>2. call[c].op # "prefixKey"
      BY <2>1 DEF StoreCalls
    <2> QED BY <2>1, <2>2, MutationKeys DEF PrefixKeys
  <1>2. id \in left[c] /\ id \in Identities
    <2>1. \A i \in left[c] : i[1] \in {"apply", "delete", "read"}
      BY <1>1 DEF Identities, DesireTypes
    <2> QED BY <1>1, <2>1 DEF GetNext
  <1>3. /\ read \in Db
        /\ \A i \in Identities : read[i] = IF i = id THEN items[i] ELSE snap[c][i]
    <2>1. items \in Db /\ snap[c] \in Db
      BY <1>0 DEF Types, StoreInv, Sound
    <2> QED BY <1>2, <2>1 DEF Db
  <1>4. /\ snap' = [snap EXCEPT ![c] = read]
        /\ left' = [left EXCEPT ![c] = @ \ {id}]
        /\ IF left[c] # {id} THEN UNCHANGED <<pc, reply>>
           ELSE IF err = OK THEN pc' = [pc EXCEPT ![c] = "exec"] /\ UNCHANGED reply
           ELSE Finish(c, answer)
        /\ UNCHANGED <<storeVars, call, job, todo, dirty, attempt, historyVars>>
    BY DEF Get
  <1> HIDE DEF id, read, err
  <1>5. Types'
    <2>1. (left \in [Clients -> SUBSET Identities])' /\ (snap \in [Clients -> Db])'
      BY <1>0, <1>3, <1>4 DEF Types
    <2>2. /\ (pc \in [Clients -> {"idle", "watch", "get", "exec", "backoff",
                                  "scan", "mget", "next", "done"}])'
          /\ (reply = [d \in Clients |-> reply[d]])'
      BY <1>0, <1>4 DEF Types, Finish
    <2> QED BY <1>0, <1>4, <2>1, <2>2 DEF Types, historyVars, StoreInv
  <1>6. /\ snap'[c] = read /\ left'[c] = left[c] \ {id} /\ call'[c] = call[c]
        /\ job'[c] = k /\ todo'[c] = todo[c] /\ dirty'[c] = dirty[c]
        /\ effects'[c] = effects[c] /\ could'[c] = could[c] /\ since'[c] = since[c]
    BY <1>0, <1>4 DEF Types, historyVars
  <1>7. \A d \in Clients \ {c} : Same(d)
    BY <1>0, <1>4 DEF Types, Same, Finish, historyVars
  <1>8. ~dirty[c] => \A i \in LoadedKeys(k) \ (left[c] \ {id}) : read[i] = items[i]
    BY <1>0, <1>1, <1>3 DEF ClientInv, Fresh
  <1>9. IsCreate(k) =>
          \A i \in LoadedKeys(k) \ (left[c] \ {id}) : read[i] # NoRecord =>
              \/ "OwnerConflict" \in could[c]
              \/ /\ read[i].owner = k.owner
                 /\ \A e \in StoreErrors : Blocks(k, i, read[i], e) => e \in could[c]
    BY <1>0, <1>1, <1>2, <1>3, ReadIsJustified
  <1>10. AtomicError(items, call[c]) \in could[c]
    BY <1>0 DEF ClientInv, Justified, Active
  <1>11. call[c].op = "prefix" =>
           /\ since[c] <= births
           /\ \A i \in Identities :
                 items[i] # NoRecord /\ Matches(call[c].sel, i) /\ items[i].birth <= since[c]
                     => i \in todo[c] \/ i = Key(k)
    BY <1>0 DEF ClientInv, Ahead
  <1>12. CASE left[c] # {id} \/ err = OK
    <2>1. /\ pc'[c] \in {"get", "exec"} /\ reply'[c] = reply[c]
          /\ pc'[c] = "get" => left[c] # {id}
          /\ pc'[c] = "exec" => left[c] = {id} /\ err = OK
      BY <1>0, <1>4, <1>12 DEF Types
    <2>2. Stage(c)'
      <3>1. pc'[c] = "exec" => Decide(read, k, 1).err = OK
        BY <1>1, <2>1, OutcomeWithoutBirth DEF err
      <3> QED BY <1>0, <1>1, <1>2, <1>6, <2>1, <3>1 DEF ClientInv, Stage, Mutating
    <2>3. Fresh(c)'
      BY <1>0, <1>6, <1>8 DEF Fresh
    <2>4. Once(c)'
      BY <1>0, <1>6, <2>1 DEF ClientInv, Once
    <2>5. Justified(c)'
      BY <1>0, <1>6, <1>9, <1>10, <2>1 DEF Justified, Active, Single
    <2>6. Ahead(c)'
      BY <1>0, <1>6, <1>11, <2>1 DEF Ahead, Mutating
    <2>7. c \in Creating' => c \in Creating
      BY <1>0, <1>6 DEF Creating, Active
    <2> QED BY <1>0, <1>5, <1>7, <2>2, <2>3, <2>4, <2>5, <2>6, <2>7
            DEF Quiet, ClientInv, storeVars
  <1>13. CASE left[c] = {id} /\ err # OK /\ call[c].op = "prefix"
    <2>1. err = "CASNoop" /\ items[Key(k)] = NoRecord
      <3>1. err = "CASNoop" /\ read[Key(k)] = NoRecord
        BY <1>1, <1>13, DecideErrors DEF err
      <3>2. Key(k) = id
        BY <1>1, <1>13, MutationKeys DEF IsCreate
      <3> QED BY <1>2, <1>3, <3>1, <3>2
    <2>2. pc'[c] = "next"
      BY <1>0, <1>4, <1>13, <2>1 DEF Types, Finish
    <2>3. Stage(c)' /\ Fresh(c)' /\ Once(c)'
      BY <1>1, <1>6, <1>13, <2>2 DEF Stage, Fresh, Once, Mutating
    <2>4. Justified(c)'
      BY <1>0, <1>6, <1>10, <2>2 DEF Justified, Active, Single
    <2>5. Ahead(c)'
      BY <1>0, <1>6, <1>11, <2>1, <2>2 DEF Ahead, Mutating
    <2>6. c \in Creating' => c \in Creating
      BY <1>0, <1>6 DEF Creating, Active
    <2> QED BY <1>0, <1>5, <1>7, <2>3, <2>4, <2>5, <2>6 DEF Quiet, ClientInv, storeVars
  <1>14. CASE left[c] = {id} /\ err # OK /\ call[c].op # "prefix"
    <2>1. err \in StoreErrors
      BY Zenon, <1>1, <1>14, DecideErrors DEF err
    <2>2. pc'[c] = "done" /\ reply'[c] = err
      BY ZenonT(30), <1>0, <1>4, <1>14, <2>1 DEF Types, Finish, StoreErrors
    <2>3. Stage(c)' /\ Fresh(c)'
      BY <1>1, <1>6, <1>14, <2>2 DEF Stage, Fresh, Mutating
    <2>4. Once(c)'
      BY <1>0, <1>6, <1>14, <2>1, <2>2 DEF ClientInv, Once, StoreErrors
    <2>5. err \in could[c] \/ (IsCreate(k) /\ "OwnerConflict" \in could[c])
      <3>1. CASE IsCreate(k)
        <4>1. PICK i \in LoadedKeys(k) :
                 /\ read[i] # NoRecord
                 /\ read[i].owner # k.owner \/ Blocks(k, i, read[i], err)
          BY <1>1, <1>3, <1>14, <3>1, RefusedBySibling DEF err
        <4>2. i \in LoadedKeys(k) \ (left[c] \ {id})
          BY <1>14
        <4> QED BY <1>9, <2>1, <3>1, <4>1, <4>2
      <3>2. CASE ~IsCreate(k)
        <4>1. LoadedKeys(k) = {id}
          BY <1>1, <1>2, <3>2, MutationKeys
        <4>2. Current(read, k, items) /\ items \in Db
          BY <1>0, <1>2, <1>3, <4>1 DEF Current, Types, StoreInv, Sound
        <4>3. err = Decide(items, k, births + 1).err
          BY <1>1, <1>3, <3>2, <4>2, OneKeyAgrees DEF err
        <4>4. err = Decide(items, k, 1).err
          BY <1>1, <4>3, OutcomeWithoutBirth
        <4>5. k = call[c] /\ k.op # "prefix"
          BY <1>1, <1>14
        <4>6. AtomicError(items, k) = Decide(items, k, 1).err
          BY <3>2, <4>5 DEF AtomicError, IsCreate
        <4> QED BY <1>10, <4>4, <4>5, <4>6
      <3> QED BY <3>1, <3>2
    <2>6. Justified(c)'
      BY Zenon, <1>1, <1>6, <1>14, <2>2, <2>5 DEF Justified, Active, Single
    <2>7. Ahead(c)'
      BY <1>6, <1>14 DEF Ahead
    <2>8. c \notin Creating'
      BY <2>2 DEF Creating, Active
    <2> QED BY <1>0, <1>5, <1>7, <2>3, <2>4, <2>6, <2>7, <2>8
            DEF Quiet, ClientInv, storeVars
  <1> QED BY <1>12, <1>13, <1>14

\* EXEC takes effect only with a snapshot that is still true.  What it writes
\* is then one operation of the contract, on the records of that moment.
LEMMA ExecIsStep ==
    ASSUME RedisInv, NEW c \in Clients, Exec(c)
    PROVE  /\ StoreNext
           /\ StoreInv'
           /\ births \in Nat /\ births' \in Nat /\ births <= births'
           /\ items' = Merge(job[c], items, Decide(snap[c], job[c], births + 1).db)
           /\ Current(snap[c], job[c], items)
           /\ Decide(snap[c], job[c], births + 1).err = OK
           /\ job[c] \in Mutations
  <1> DEFINE k == job[c]
             out == Decide(snap[c], k, births + 1)
  <1>0. Types /\ ClientInv(c) /\ pc[c] = "exec" /\ ~dirty[c] /\ Commit(c)
    BY DEF RedisInv, Exec
  <1>1. k \in Mutations /\ left[c] = {} /\ Decide(snap[c], k, 1).err = OK
    BY <1>0 DEF ClientInv, Stage, Mutating
  <1>2. out.err = OK
    BY <1>1, OutcomeWithoutBirth
  <1>3. Current(snap[c], k, items)
    BY Zenon, <1>0, <1>1 DEF ClientInv, Fresh, Current
  <1>4. /\ items' = [id \in Identities |->
                       IF id \in WrittenKeys(c) THEN out.db[id] ELSE items[id]]
        /\ births' = IF IsCreate(k) THEN births + 1 ELSE births
        /\ WrittenKeys(c) = {Key(k)} \cup {id \in LoadedKeys(k) : out.db[id] # snap[c][id]}
    BY <1>0 DEF Commit, WrittenKeys
  <1>5. Key(k) \in LoadedKeys(k) /\ LoadedKeys(k) \subseteq Identities
    BY <1>1, MutationKeys
  <1> HIDE DEF out
  <1>6. items' = Merge(k, items, out.db)
    BY <1>3, <1>4, <1>5 DEF Merge, Current
  <1>7. births \in Nat /\ StoreInv
    BY <1>0 DEF Types, StoreInv
  <1>8. IsCreate(k) => births < MaxBirths
    <2>1. SUFFICES ASSUME IsCreate(k) PROVE births < MaxBirths
      OBVIOUS
    <2>2. call[c] = k
      BY <1>0, <2>1 DEF ClientInv, Stage, Mutating, PrefixKeys, IsCreate
    <2>3. c \in Creating
      BY <1>0, <2>1, <2>2 DEF Creating, Active
    <2>4. IsFiniteSet(Creating) /\ Cardinality(Creating) \in Nat
      BY CreatingFinite DEF Creating
    <2>5. Cardinality(Creating \ {c}) \in Nat
          /\ Cardinality(Creating \ {c}) = Cardinality(Creating) - 1
      BY <2>3, <2>4, FS_RemoveElement, FS_CardinalityType
    <2> QED BY <1>7, <2>4, <2>5, StoreAssumption DEF RedisInv
  <1>9. StoreNext
    BY <1>0, <1>1, <1>2, <1>3, <1>4, <1>6, <1>7, <1>8, MutationIsStep DEF Types, out
  <1>10. StoreInv'
    BY <1>7, <1>9, NextInv
  <1> QED BY <1>1, <1>2, <1>3, <1>4, <1>6, <1>7, <1>9, <1>10 DEF out

\* A record that exists after an EXEC existed before, or was created by it.
LEMMA ExecBirths ==
    ASSUME RedisInv, NEW c \in Clients, Exec(c), NEW id \in Identities,
           items'[id] # NoRecord, NEW n \in Nat, n <= births, items'[id].birth <= n
    PROVE  items[id] # NoRecord /\ items[id].birth = items'[id].birth
  <1> DEFINE k == job[c]
             out == Decide(snap[c], k, births + 1)
  <1>1. /\ items' = Merge(k, items, out.db) /\ Current(snap[c], k, items) /\ out.err = OK
        /\ k \in Mutations /\ births \in Nat /\ births + 1 \in Nat /\ snap[c] \in Db
    BY ExecIsStep DEF RedisInv, Types
  <1> HIDE DEF k, out
  <1>2. CASE id \notin LoadedKeys(k)
    BY <1>1, <1>2 DEF Merge
  <1>3. CASE id \in LoadedKeys(k)
    <2>1. items'[id] = out.db[id] /\ snap[c][id] = items[id]
      BY <1>1, <1>3 DEF Merge, Current
    <2>2. \/ out.db[id].birth = births + 1
          \/ snap[c][id] # NoRecord /\ out.db[id].birth = snap[c][id].birth
      BY <1>1, <2>1, BirthOfStored DEF out
    <2>3. out.db[id].birth # births + 1
      BY <1>1, <2>1
    <2> QED BY <2>1, <2>2, <2>3
  <1> QED BY <1>2, <1>3

\* The other clients: a snapshot that EXEC makes stale becomes dirty, and the
\* error of the atomic store is noted.
LEMMA ExecOthers ==
    ASSUME RedisInv, NEW c \in Clients, Exec(c), NEW d \in Clients, d # c
    PROVE  ClientInv(d)'
  <1>0. Types /\ ClientInv(d) /\ Commit(c)
    BY DEF RedisInv, Exec
  <1>1. /\ call'[d] = call[d] /\ pc'[d] = pc[d] /\ job'[d] = job[d] /\ snap'[d] = snap[d]
        /\ left'[d] = left[d] /\ todo'[d] = todo[d] /\ reply'[d] = reply[d]
        /\ effects'[d] = effects[d] /\ since'[d] = since[d]
    <2>1. pc'[d] = pc[d] /\ reply'[d] = reply[d]
      BY <1>0 DEF Exec, Finish, Types
    <2> QED BY <1>0, <2>1 DEF Commit, Types
  <1>2. /\ dirty'[d] = (dirty[d] \/ (/\ d # c /\ pc[d] \in {"get", "exec"}
                                     /\ WatchedKeys(job[d]) \cap WrittenKeys(c) # {}))
        /\ could'[d] = IF d # c /\ Active(d)
                       THEN could[d] \cup {AtomicError(items', call[d])} ELSE could[d]
        /\ items' = [id \in Identities |->
                       IF id \in WrittenKeys(c)
                       THEN Decide(snap[c], job[c], births + 1).db[id] ELSE items[id]]
    BY Zenon, <1>0 DEF Commit
  <1>3. Stage(d)'
    BY Zenon, <1>0, <1>1 DEF ClientInv, Stage, Mutating
  <1>4. Fresh(d)'
    <2>1. SUFFICES ASSUME pc[d] \in {"get", "exec"}, ~dirty'[d],
                          NEW id \in LoadedKeys(job[d]) \ left[d]
                   PROVE  snap[d][id] = items'[id]
      BY <1>1 DEF Fresh
    <2>2. ~dirty[d] /\ id \notin WrittenKeys(c)
      BY Zenon, <1>2, <2>1 DEF WatchedKeys
    <2>3. id \in Identities
      BY Zenon, <1>0, <2>1, MutationKeys DEF ClientInv, Stage, Mutating
    <2>4. items'[id] = items[id]
      BY <1>2, <2>2, <2>3
    <2> QED BY <1>0, <2>1, <2>2, <2>4 DEF ClientInv, Fresh
  <1>5. Once(d)'
    BY Zenon, <1>0, <1>1 DEF ClientInv, Once
  <1>6. Justified(d)'
    <2>1. /\ could[d] \subseteq could'[d]
          /\ Active(d) => AtomicError(items', call[d]) \in could'[d]
      BY <1>2
    <2>2. /\ Active(d)' = Active(d) /\ Single(d)' = Single(d)
      BY <1>1 DEF Active, Single
    <2>3. Justified(d)
      BY <1>0 DEF ClientInv
    <2>4. Active(d) => AtomicError(items', call'[d]) \in could'[d]
      BY <1>1, <2>1
    <2>5. ASSUME pc[d] \in {"get", "exec"}, IsCreate(job[d]),
                 NEW id \in LoadedKeys(job[d]) \ left[d], snap[d][id] # NoRecord
          PROVE  \/ "OwnerConflict" \in could'[d]
                 \/ /\ snap[d][id].owner = job[d].owner
                    /\ \A err \in StoreErrors :
                           Blocks(job[d], id, snap[d][id], err) => err \in could'[d]
      <3>1. \/ "OwnerConflict" \in could[d]
            \/ /\ snap[d][id].owner = job[d].owner
               /\ \A err \in StoreErrors :
                      Blocks(job[d], id, snap[d][id], err) => err \in could[d]
        BY <2>3, <2>5 DEF Justified
      <3> QED BY <2>1, <3>1
    <2>6. Single(d) /\ reply[d] \in StoreErrors =>
              \/ reply[d] \in could'[d]
              \/ IsCreate(call[d]) /\ "OwnerConflict" \in could'[d]
      <3>1. Single(d) /\ reply[d] \in StoreErrors =>
                \/ reply[d] \in could[d]
                \/ IsCreate(call[d]) /\ "OwnerConflict" \in could[d]
        BY <2>3 DEF Justified
      <3> QED BY <2>1, <3>1
    <2>7. /\ Active(d)' => AtomicError(items', call'[d]) \in could'[d]
          /\ Single(d)' /\ reply'[d] \in StoreErrors =>
                \/ reply'[d] \in could'[d]
                \/ IsCreate(call'[d]) /\ "OwnerConflict" \in could'[d]
      BY <1>1, <2>2, <2>4, <2>6
    <2>8. pc'[d] \in {"get", "exec"} /\ IsCreate(job'[d]) =>
              \A id \in LoadedKeys(job'[d]) \ left'[d] : snap'[d][id] # NoRecord =>
                  \/ "OwnerConflict" \in could'[d]
                  \/ /\ snap'[d][id].owner = job'[d].owner
                     /\ \A err \in StoreErrors :
                            Blocks(job'[d], id, snap'[d][id], err) => err \in could'[d]
      BY <1>1, <2>5
    <2> QED BY Zenon, <2>7, <2>8 DEF Justified
  <1>7. Ahead(d)'
    <2>1. SUFFICES ASSUME pc[d] # "idle", call[d].op = "prefix"
                   PROVE  Ahead(d)'
      BY Zenon, <1>1 DEF Ahead
    <2>2. since[d] \in Nat /\ since[d] <= births /\ since[d] <= births'
      BY <1>0, <2>1, ExecIsStep DEF ClientInv, Ahead, Types
    <2>3. \A id \in Identities : items'[id] # NoRecord /\ items'[id].birth <= since[d]
              => items[id] # NoRecord /\ items[id].birth <= since[d]
      BY <2>2, ExecBirths
    <2> QED BY Zenon, <1>0, <1>1, <2>1, <2>2, <2>3 DEF ClientInv, Ahead, Mutating
  <1> QED BY <1>3, <1>4, <1>5, <1>6, <1>7 DEF ClientInv

\* The client itself: its call took effect once; a prefix delete is past the key.
LEMMA ExecSelf ==
    ASSUME RedisInv, NEW c \in Clients, Exec(c)
    PROVE  ClientInv(c)'
  <1> DEFINE k == job[c]
             out == Decide(snap[c], k, births + 1)
  <1>0. Types /\ ClientInv(c) /\ Commit(c) /\ pc[c] = "exec"
    BY DEF RedisInv, Exec
  <1>1. /\ call'[c] = call[c] /\ job'[c] = job[c] /\ todo'[c] = todo[c]
        /\ effects'[c] = effects[c] + 1 /\ since'[c] = since[c] /\ could'[c] = could[c]
    BY <1>0 DEF Commit, Types
  <1>2. /\ call[c] \in StoreCalls
        /\ call[c].op # "prefix" => pc'[c] = "done" /\ effects[c] = 0
        /\ call[c].op = "prefix" => pc'[c] = "next" \/ (pc'[c] = "done" /\ reply'[c] = "IOError")
        /\ pc'[c] = "done" => reply'[c] \in {OK, "IOError"}
    BY <1>0 DEF Exec, Finish, Types, ClientInv, Stage, Once, OK
  <1>3. Stage(c)' /\ Fresh(c)'
    BY <1>1, <1>2 DEF Stage, Fresh, Mutating
  <1>4. Once(c)'
    BY <1>1, <1>2 DEF Once
  <1>5. Justified(c)'
    <2>1. call[c].op = "prefix" => \A db : AtomicError(db, call[c]) = OK
      BY Zenon DEF AtomicError
    <2>2. AtomicError(items, call[c]) \in could[c]
      BY <1>0 DEF ClientInv, Justified, Active
    <2> QED BY <1>1, <1>2, <2>1, <2>2 DEF Justified, Active, Single, StoreErrors, OK
  <1>6. Ahead(c)'
    <2>1. SUFFICES ASSUME call[c].op = "prefix"
                   PROVE  Ahead(c)'
      BY <1>1 DEF Ahead
    <2>2. since[c] \in Nat /\ since[c] <= births /\ since[c] <= births'
      BY <1>0, <2>1, ExecIsStep DEF ClientInv, Ahead, Types
    <2>3. \A id \in Identities : items'[id] # NoRecord /\ items'[id].birth <= since[c]
              => items[id] # NoRecord /\ items[id].birth <= since[c]
      BY <2>2, ExecBirths
    <2>4. items'[Key(k)] = NoRecord
      <3>1. /\ items' = Merge(k, items, out.db) /\ out.err = OK /\ k \in Mutations
            /\ k.op = "prefixKey" /\ snap[c] \in Db
        BY Zenon, <1>0, <2>1, ExecIsStep DEF ClientInv, Stage, Mutating, PrefixKeys, Types
      <3>2. Key(k) \in LoadedKeys(k) /\ Key(k) \in Identities
        BY <3>1, MutationKeys
      <3>3. out.db = [snap[c] EXCEPT ![Key(k)] = NoRecord]
        BY <3>1 DEF Decide, DecidePrefixKey, Accept, Reject, OK
      <3>4. out.db[Key(k)] = NoRecord
        BY Zenon, <3>1, <3>2, <3>3 DEF Db
      <3> QED BY <3>1, <3>2, <3>4 DEF Merge
    <2>5. \A id \in Identities :
             items[id] # NoRecord /\ Matches(call[c].sel, id) /\ items[id].birth <= since[c]
                 => id \in todo[c] \/ id = Key(k)
      BY <1>0, <2>1 DEF ClientInv, Ahead
    <2> QED BY ZenonT(30), <1>1, <1>2, <2>1, <2>2, <2>3, <2>4, <2>5 DEF Ahead, Mutating, OK
  <1> QED BY <1>3, <1>4, <1>5, <1>6 DEF ClientInv

\* EXEC keeps the invariant; a creation uses the number reserved for it.
LEMMA ExecInv ==
    ASSUME RedisInv, NEW c \in Clients, Exec(c)
    PROVE  RedisInv'
  <1>0. Types /\ ClientInv(c) /\ Commit(c) /\ pc[c] = "exec"
    BY DEF RedisInv, Exec
  <1>1. Types'
    <2>1. /\ (dirty \in [Clients -> BOOLEAN])'
      BY <1>0 DEF Commit, Types
    <2>2. /\ (could = [d \in Clients |-> could[d]])'
          /\ (effects \in [Clients -> Nat])'
      BY <1>0 DEF Commit, Types
    <2>3. /\ (pc \in [Clients -> {"idle", "watch", "get", "exec", "backoff",
                                  "scan", "mget", "next", "done"}])'
          /\ (reply = [d \in Clients |-> reply[d]])'
      BY <1>0 DEF Exec, Finish, Types
    <2> QED BY <1>0, <2>1, <2>2, <2>3, ExecIsStep DEF Commit, Types
  <1>2. \A d \in Clients : ClientInv(d)'
    BY ExecOthers, ExecSelf
  <1>3. /\ call' = call /\ pc'[c] \in {"next", "done"}
        /\ \A d \in Clients \ {c} : pc'[d] = pc[d]
        /\ call[c].op # "prefix" => pc'[c] = "done"
    BY Zenon, <1>0 DEF Exec, Commit, Finish, Types
  <1>4. Creating' \subseteq Creating
    BY <1>0, <1>3 DEF Creating, Active
  <1>5. /\ IsFiniteSet(Creating) /\ Cardinality(Creating) \in Nat
        /\ Cardinality(Creating') \in Nat /\ Cardinality(Creating') <= Cardinality(Creating)
    BY Zenon, <1>4, CreatingFinite, FS_Subset DEF Creating
  <1>6. births \in Nat /\ births' = IF IsCreate(job[c]) THEN births + 1 ELSE births
    BY Zenon, <1>0, ExecIsStep DEF Commit
  <1>7. CASE ~IsCreate(job[c])
    BY <1>1, <1>2, <1>5, <1>6, <1>7, StoreAssumption DEF RedisInv
  <1>8. CASE IsCreate(job[c])
    <2>1. call[c] = job[c] /\ call[c].op # "prefix"
      BY <1>0, <1>8 DEF ClientInv, Stage, Mutating, PrefixKeys, IsCreate
    <2>2. c \in Creating /\ c \notin Creating'
      BY <1>0, <1>3, <1>8, <2>1 DEF Creating, Active
    <2>3. /\ IsFiniteSet(Creating \ {c})
          /\ Cardinality(Creating \ {c}) = Cardinality(Creating) - 1
      BY <1>5, <2>2, FS_RemoveElement
    <2>4. Creating' \subseteq Creating \ {c}
      BY <1>4, <2>2
    <2>5. Cardinality(Creating') <= Cardinality(Creating) - 1
      BY <2>3, <2>4, FS_Subset
    <2>6. births' + Cardinality(Creating') <= MaxBirths
      BY <1>5, <1>6, <1>8, <2>5, StoreAssumption DEF RedisInv
    <2> QED BY <1>1, <1>2, <2>6 DEF RedisInv
  <1> QED BY <1>7, <1>8

-----------------------------------------------------------------------------
(***************************************************************************)
(* Theorems                                                                *)
(***************************************************************************)

\* Before any call the invariant holds.
LEMMA RedisInitInv == RedisInit => RedisInv
  <1> SUFFICES ASSUME RedisInit PROVE RedisInv
    OBVIOUS
  <1>1. StoreInv
    BY InitInv DEF RedisInit
  <1>2. Types
    <2>1. Nothing \in Db
      BY DEF Nothing, Db
    <2> QED BY <1>1, <2>1, RedisAssumption DEF RedisInit, Types
  <1>3. \A c \in Clients : ClientInv(c)
    BY Zenon
    DEF RedisInit, ClientInv, Stage, Fresh, Once, Justified, Ahead, Mutating, Active,
        Single
  <1>4. Cardinality(Creating) = 0
    <2>1. Creating = {}
      BY DEF RedisInit, Creating, Active
    <2> QED BY <2>1, FS_EmptySet
  <1>5. births + Cardinality(Creating) <= MaxBirths
    BY <1>1, <1>4, StoreAssumption DEF StoreInv
  <1> QED BY <1>2, <1>3, <1>5 DEF RedisInv

\* Every step keeps the invariant, and is an operation of the contract or
\* leaves the records alone.
LEMMA RedisNextInv ==
    ASSUME RedisInv, [RedisNext]_redisVars
    PROVE  RedisInv' /\ [StoreNext]_storeVars
  <1>1. CASE UNCHANGED redisVars
    <2>1. UNCHANGED storeVars /\ \A d \in Clients : Same(d)
      BY <1>1 DEF redisVars, clientVars, historyVars, Same
    <2>2. Types' /\ Creating' = Creating /\ births' = births
      BY <1>1 DEF redisVars, clientVars, historyVars, storeVars, RedisInv, Types, StoreInv,
                  Creating, Active
    <2>3. \A d \in Clients : ClientInv(d)'
      BY <2>1, Untouched DEF RedisInv
    <2> QED BY Zenon, <2>1, <2>2, <2>3 DEF RedisInv
  <1>2. ASSUME NEW c \in Clients, NEW k \in Calls[c], Begin(c, k)
        PROVE  RedisInv' /\ [StoreNext]_storeVars
    BY Zenon, <1>2, BeginInv DEF Begin
  <1>3. ASSUME NEW c \in Clients, Watch(c)
        PROVE  RedisInv' /\ [StoreNext]_storeVars
    BY Zenon, <1>3, WatchQuiet, LocalStep DEF Watch
  <1>4. ASSUME NEW c \in Clients, Get(c)
        PROVE  RedisInv' /\ [StoreNext]_storeVars
    BY Zenon, <1>4, GetQuiet, LocalStep DEF Get
  <1>5. ASSUME NEW c \in Clients, Exec(c)
        PROVE  RedisInv' /\ [StoreNext]_storeVars
    BY <1>5, ExecInv, ExecIsStep
  <1>6. ASSUME NEW c \in Clients, ExecRefused(c) \/ Backoff(c)
        PROVE  RedisInv' /\ [StoreNext]_storeVars
    BY Zenon, <1>6, RetryQuiet, LocalStep DEF ExecRefused, Backoff
  <1>7. ASSUME NEW c \in Clients, Scan(c) \/ MGet(c)
        PROVE  RedisInv' /\ [StoreNext]_storeVars
    BY <1>7, ListQuiet, LocalStep DEF Scan, MGet
  <1>8. ASSUME NEW c \in Clients, NextPrefixKey(c)
        PROVE  RedisInv' /\ [StoreNext]_storeVars
    BY <1>8, NextKeyQuiet, LocalStep DEF NextPrefixKey
  <1>9. ASSUME NEW c \in Clients, Cancel(c) \/ CommandFails(c)
        PROVE  RedisInv' /\ [StoreNext]_storeVars
    <2>1. CASE Cancel(c)
      BY <2>1, FailQuiet, LocalStep DEF Cancel, Active, StoreErrors, OK
    <2>2. CASE CommandFails(c)
      BY <2>2, FailQuiet, LocalStep DEF CommandFails, Active, StoreErrors, OK
    <2> QED BY <1>9, <2>1, <2>2
  <1>10. ASSUME NEW c \in Clients, Return(c)
         PROVE  RedisInv' /\ [StoreNext]_storeVars
    BY Zenon, <1>10, ReturnQuiet, LocalStep DEF Return
  <1> QED BY Zenon, <1>1, <1>2, <1>3, <1>4, <1>5, <1>6, <1>7, <1>8, <1>9, <1>10
          DEF RedisNext, Progress

\* The invariant holds in every state that the clients can reach.
THEOREM RedisInvariant == RedisSpec => []RedisInv
  <1>1. RedisInit => RedisInv
    BY RedisInitInv
  <1>2. RedisInv /\ [RedisNext]_redisVars => RedisInv'
    BY RedisNextInv
  <1> QED BY <1>1, <1>2, PTL DEF RedisSpec

\* The Redis backend implements the store contract: every EXEC that takes
\* effect is one operation of SpecStore or StatusStore on the records as they
\* are, and no other command changes a record, whatever is refused, repeated,
\* lost or canceled in between.
THEOREM RedisImplementsStore == RedisSpec => StoreSpec
  <1>1. RedisInit => RedisInv
    BY RedisInitInv
  <1>2. RedisInv /\ [RedisNext]_redisVars => RedisInv' /\ [StoreNext]_storeVars
    BY RedisNextInv
  <1>3. RedisInit => StoreInit
    BY DEF RedisInit
  <1> QED BY <1>1, <1>2, <1>3, PTL DEF RedisSpec, StoreSpec

\* Every client is at a known command, and watchRetry counts within its limit.
THEOREM RedisTypeCorrect == RedisSpec => []RedisTypeOK
  <1>1. RedisInv => RedisTypeOK
    BY DEF RedisInv, Types, RedisTypeOK, Db
  <1> QED BY <1>1, RedisInvariant, PTL

\* A call is applied once if it returns success, not at all if it returns an
\* error of the store, ErrAborted or a context error, and at most once if the
\* connection is lost, however often watchRetry repeats it.
THEOREM CallsApplyOnce == RedisSpec => []ExactlyOnce
  <1>1. RedisInv => ExactlyOnce
    BY DEF RedisInv, ClientInv, Once, ExactlyOnce, Single
  <1> QED BY <1>1, RedisInvariant, PTL

\* An error that a call decides from its GETs, without an EXEC that validates
\* them, is one the atomic store would have returned during the call, except
\* that a create may hide an OwnerConflict.
THEOREM ErrorsAreJustified == RedisSpec => []RejectionsJustified
  <1>1. RedisInv => RejectionsJustified
    BY Zenon DEF RedisInv, ClientInv, Justified, RejectionsJustified
  <1> QED BY <1>1, RedisInvariant, PTL

\* A DeleteByPrefix that returns success has deleted every matching desire
\* that existed when it began.
THEOREM PrefixDeletesAll == RedisSpec => []PrefixComplete
  <1>1. RedisInv => PrefixComplete
    <2> SUFFICES ASSUME RedisInv, NEW c \in Clients, pc[c] = "done",
                        call[c].op = "prefix", reply[c] = OK, NEW id \in Identities,
                        Exists(items, id), Matches(call[c].sel, id)
                 PROVE  items[id].birth > since[c]
      BY DEF PrefixComplete
    <2>1. ~(items[id].birth <= since[c])
      BY DEF RedisInv, ClientInv, Ahead, Mutating, Exists
    <2>2. items[id] \in Records /\ since[c] \in Nat
      BY DEF RedisInv, Types, StoreInv, Sound, Db, Exists
    <2> QED BY <2>1, <2>2 DEF Records
  <1> QED BY <1>1, RedisInvariant, PTL
=============================================================================
