------------------------- MODULE DesireStoreProofs -------------------------
(***************************************************************************)
(* The safety properties of the desire store, proved for any number of     *)
(* targets, owners, specs and statuses.                                    *)
(*                                                                         *)
(* The invariant is stated of an arbitrary database db, one lemma per      *)
(* store operation shows that the operation preserves it whatever its      *)
(* arguments and outcome, and the theorems about items follow.             *)
(***************************************************************************)
EXTENDS DesireStore, TLAPS

Db == [Identities -> Records \cup {NoRecord}]

\* The inductive invariant.  The single owner needs no strengthening, and the
\* exclusion of apply and delete needs none either; they are proved together
\* because a rejected CreateApplyDesire is pure only when both hold.
Sound(db) ==
    /\ db \in Db
    /\ \A tg \in Targets, a, b \in DesireTypes :
          Exists(db, <<a, tg>>) /\ Exists(db, <<b, tg>>)
              => db[<<a, tg>>].owner = db[<<b, tg>>].owner
    /\ \A tg \in Targets :
          ~ (Exists(db, <<"apply", tg>>) /\ Exists(db, <<"delete", tg>>))
    /\ \A id \in Identities : Exists(db, id) =>
          /\ 1 <= db[id].generation
          /\ db[id].generation <= db[id].version
          /\ id[1] # "apply" => db[id].generation = 1

\* A new record is well formed, owned by its creator and at generation 1.
LEMMA NewRecordFacts ==
    ASSUME NEW owner \in Owners, NEW spec \in Specs \cup TargetVersions \cup {NoSpec},
           NEW birth \in Nat
    PROVE  /\ NewRecord(owner, spec, birth) \in Records
           /\ NewRecord(owner, spec, birth) # NoRecord
           /\ NewRecord(owner, spec, birth).owner = owner
           /\ NewRecord(owner, spec, birth).generation = 1
           /\ NewRecord(owner, spec, birth).version = 1
BY StoreAssumption DEF NewRecord, Records

\* The three Identities of a target are different Identities.
LEMMA Siblings ==
    ASSUME NEW tg \in Targets
    PROVE  /\ <<"apply", tg>> \in Identities
           /\ <<"delete", tg>> \in Identities
           /\ <<"read", tg>> \in Identities
BY DEF Identities, DesireTypes

\* When the owner check of a create passes, every existing sibling of the
\* target has that owner, although only the first one was looked at.
LEMMA OwnerAllowedCoversSiblings ==
    ASSUME NEW db, Sound(db), NEW tg \in Targets, NEW o, OwnerAllowed(db, tg, o),
           NEW a \in DesireTypes, Exists(db, <<a, tg>>)
    PROVE  db[<<a, tg>>].owner = o
BY DEF Sound, OwnerAllowed, DesireTypes

\* Storing a record in a slot, and emptying others, preserves soundness when
\* the record is the owner's and the slot's rival is empty.
LEMMA StoreInSlot ==
    ASSUME NEW base, Sound(base),
           NEW tg \in Targets, NEW o \in Owners, NEW type \in DesireTypes,
           NEW rec \in Records, rec # NoRecord, rec.owner = o,
           rec.generation = 1, rec.version = 1,
           \A a \in DesireTypes : Exists(base, <<a, tg>>) => base[<<a, tg>>].owner = o,
           type = "apply" => ~Exists(base, <<"delete", tg>>),
           type = "delete" => ~Exists(base, <<"apply", tg>>)
    PROVE  Sound([base EXCEPT ![<<type, tg>>] = rec])
<1> DEFINE new == [base EXCEPT ![<<type, tg>>] = rec]
<1>1. <<type, tg>> \in Identities
  BY DEF Identities
<1>2. new \in Db
  BY <1>1 DEF Sound, Db
<1>3. ASSUME NEW id \in Identities, Exists(new, id)
      PROVE  /\ 1 <= new[id].generation
             /\ new[id].generation <= new[id].version
             /\ id[1] # "apply" => new[id].generation = 1
  BY <1>1, <1>3 DEF Sound, Db, Exists
<1>4. ASSUME NEW t \in Targets, NEW a \in DesireTypes, NEW b \in DesireTypes,
             Exists(new, <<a, t>>), Exists(new, <<b, t>>)
      PROVE  new[<<a, t>>].owner = new[<<b, t>>].owner
  <2>1. <<a, t>> \in Identities /\ <<b, t>> \in Identities
    BY DEF Identities
  <2>2. CASE t = tg
    BY <1>1, <1>4, <2>1, <2>2 DEF Sound, Db, Exists
  <2>3. CASE t # tg
    BY <1>1, <1>4, <2>1, <2>3 DEF Sound, Db, Exists
  <2> QED
    BY <2>2, <2>3
<1>5. ASSUME NEW t \in Targets, Exists(new, <<"apply", t>>), Exists(new, <<"delete", t>>)
      PROVE  FALSE
  BY <1>1, <1>5, Siblings DEF Sound, Db, Exists
<1> QED
  BY <1>2, <1>3, <1>4, <1>5 DEF Sound

\* Records that were sound stay so when some of them are removed.
LEMMA Removal ==
    ASSUME NEW db, Sound(db), NEW new \in Db,
           \A i \in Identities : Exists(new, i) => Exists(db, i) /\ new[i] = db[i]
    PROVE  Sound(new)
<1>1. ASSUME NEW t \in Targets, NEW a \in DesireTypes, NEW b \in DesireTypes,
             Exists(new, <<a, t>>), Exists(new, <<b, t>>)
      PROVE  new[<<a, t>>].owner = new[<<b, t>>].owner
  <2>1. <<a, t>> \in Identities /\ <<b, t>> \in Identities
    BY DEF Identities
  <2> QED
    BY <1>1, <2>1 DEF Sound
<1>2. ASSUME NEW t \in Targets
      PROVE  ~ (Exists(new, <<"apply", t>>) /\ Exists(new, <<"delete", t>>))
  BY Siblings DEF Sound
<1>3. ASSUME NEW id \in Identities, Exists(new, id)
      PROVE  /\ 1 <= new[id].generation
             /\ new[id].generation <= new[id].version
             /\ id[1] # "apply" => new[id].generation = 1
  BY <1>3 DEF Sound
<1> QED
  BY <1>1, <1>2, <1>3 DEF Sound

\* Emptying a slot preserves soundness.
LEMMA EmptySlot ==
    ASSUME NEW db, Sound(db), NEW id \in Identities
    PROVE  Sound([db EXCEPT ![id] = NoRecord])
<1> DEFINE new == [db EXCEPT ![id] = NoRecord]
<1>1. new \in Db
  BY DEF Sound, Db
<1>2. \A i \in Identities : Exists(new, i) => Exists(db, i) /\ new[i] = db[i]
  BY DEF Sound, Db, Exists
<1> HIDE DEF new
<1>3. Sound(new)
  BY <1>1, <1>2, Removal
<1> QED
  BY <1>3 DEF new

\* Replacing the record of a slot by one with the same owner preserves
\* soundness, when the counters stay in order.
LEMMA RewriteSlot ==
    ASSUME NEW db, Sound(db), NEW id \in Identities, Exists(db, id),
           NEW rec \in Records, rec # NoRecord, rec.owner = db[id].owner,
           1 <= rec.generation, rec.generation <= rec.version,
           id[1] # "apply" => rec.generation = 1
    PROVE  Sound([db EXCEPT ![id] = rec])
<1> DEFINE new == [db EXCEPT ![id] = rec]
<1>1. new \in Db
  BY DEF Sound, Db
<1>2. \A i \in Identities :
         /\ Exists(new, i) <=> Exists(db, i)
         /\ new[i].owner = db[i].owner
         /\ new[i] = db[i] \/ (i = id /\ new[i] = rec)
  BY DEF Sound, Db, Exists
<1>3. \A t \in Targets, a \in DesireTypes : <<a, t>> \in Identities
  BY DEF Identities
<1> HIDE DEF new
<1>4. Sound(new)
  BY <1>1, <1>2, <1>3, Siblings DEF Sound
<1> QED
  BY <1>4 DEF new

-----------------------------------------------------------------------------
(***************************************************************************)
(* One lemma per operation.                                                *)
(***************************************************************************)

\* CreateApplyDesire preserves soundness, and changes nothing if it fails.
LEMMA CreateApplySound ==
    ASSUME NEW db, Sound(db), NEW tg \in Targets, NEW o \in Owners,
           NEW s \in Specs, NEW birth \in Nat
    PROVE  LET out == CreateApplyDesire(db, tg, o, s, birth)
           IN Sound(out.db) /\ (out.err # OK => out.db = db)
<1> DEFINE del == <<"delete", tg>>
           id == <<"apply", tg>>
           retired == [db EXCEPT ![del] = NoRecord]
           rec == NewRecord(o, s, birth)
           out == CreateApplyDesire(db, tg, o, s, birth)
<1>1. Sound(retired) /\ retired \in Db /\ db \in Db
  <2>1. Sound(retired)
    BY EmptySlot, Siblings
  <2> QED
    BY <2>1 DEF Sound
<1>2. /\ \A i \in Identities : Exists(retired, i) => retired[i] = db[i] /\ Exists(db, i)
      /\ ~Exists(retired, del)
  BY <1>1, Siblings DEF Db, Exists
<1>3. Exists(retired, id) => ~Exists(db, del) /\ retired = db
  BY <1>1, <1>2, Siblings DEF Sound, Db, Exists
<1>4. CASE OwnerAllowed(db, tg, o)
  <2>1. \A a \in DesireTypes :
           Exists(retired, <<a, tg>>) => retired[<<a, tg>>].owner = o
    BY <1>2, <1>4, OwnerAllowedCoversSiblings DEF Identities
  <2>2. /\ rec \in Records /\ rec # NoRecord /\ rec.owner = o
        /\ rec.generation = 1 /\ rec.version = 1
    BY NewRecordFacts
  <2>3. Sound([retired EXCEPT ![id] = rec])
    <3> HIDE DEF retired, rec
    <3> QED
      BY <1>1, <1>2, <2>1, <2>2, StoreInSlot DEF DesireTypes
  <2> QED
    BY <1>1, <1>3, <1>4, <2>3 DEF CreateApplyDesire, Accept, Reject
<1>5. CASE ~OwnerAllowed(db, tg, o)
  BY <1>5 DEF CreateApplyDesire, Accept, Reject
<1> QED
  BY <1>4, <1>5

\* CreateDeleteDesire preserves soundness, and changes nothing if it fails.
LEMMA CreateDeleteSound ==
    ASSUME NEW db, Sound(db), NEW tg \in Targets, NEW o \in Owners, NEW birth \in Nat
    PROVE  LET out == CreateDeleteDesire(db, tg, o, birth)
           IN Sound(out.db) /\ (out.err # OK => out.db = db)
<1> DEFINE apply == <<"apply", tg>>
           superseded == [db EXCEPT ![apply] = NoRecord]
           rec == NewRecord(o, NoSpec, birth)
<1>1. Sound(superseded) /\ superseded \in Db /\ db \in Db
  <2>1. Sound(superseded)
    BY EmptySlot, Siblings
  <2> QED
    BY <2>1 DEF Sound
<1>2. /\ \A i \in Identities :
            Exists(superseded, i) => superseded[i] = db[i] /\ Exists(db, i)
      /\ ~Exists(superseded, apply)
  BY <1>1, Siblings DEF Db, Exists
<1>3. CASE OwnerAllowed(db, tg, o)
  <2>1. \A a \in DesireTypes :
           Exists(superseded, <<a, tg>>) => superseded[<<a, tg>>].owner = o
    BY <1>2, <1>3, OwnerAllowedCoversSiblings DEF Identities
  <2>2. /\ rec \in Records /\ rec # NoRecord /\ rec.owner = o
        /\ rec.generation = 1 /\ rec.version = 1
    BY NewRecordFacts
  <2>3. Sound([superseded EXCEPT ![<<"delete", tg>>] = rec])
    <3> HIDE DEF superseded, rec
    <3> QED
      BY <1>1, <1>2, <2>1, <2>2, StoreInSlot DEF DesireTypes
  <2> QED
    BY <1>3, <2>3 DEF CreateDeleteDesire, Accept, Reject
<1>4. CASE ~OwnerAllowed(db, tg, o)
  BY <1>4 DEF CreateDeleteDesire, Accept, Reject
<1> QED
  BY <1>3, <1>4

\* CreateReadDesire preserves soundness.
LEMMA CreateReadSound ==
    ASSUME NEW db, Sound(db), NEW tg \in Targets, NEW o \in Owners,
           NEW v \in TargetVersions, NEW birth \in Nat
    PROVE  Sound(CreateReadDesire(db, tg, o, v, birth).db)
<1> DEFINE rec == NewRecord(o, v, birth)
<1>1. CASE OwnerAllowed(db, tg, o)
  <2>1. \A a \in DesireTypes : Exists(db, <<a, tg>>) => db[<<a, tg>>].owner = o
    BY <1>1, OwnerAllowedCoversSiblings
  <2>2. /\ rec \in Records /\ rec # NoRecord /\ rec.owner = o
        /\ rec.generation = 1 /\ rec.version = 1
    BY NewRecordFacts
  <2>3. Sound([db EXCEPT ![<<"read", tg>>] = rec])
    <3> HIDE DEF rec
    <3> QED
      BY <2>1, <2>2, StoreInSlot DEF DesireTypes
  <2> QED
    BY <2>3 DEF CreateReadDesire, Accept, Reject
<1>2. CASE ~OwnerAllowed(db, tg, o)
  BY <1>2 DEF CreateReadDesire, Accept, Reject
<1> QED
  BY <1>1, <1>2

\* UpdateApplyDesireSpec preserves soundness: the generation advances at most
\* as often as the version.
LEMMA UpdateSpecSound ==
    ASSUME NEW db, Sound(db), NEW tg \in Targets, NEW s \in Specs,
           NEW o \in Owners, NEW v \in Nat
    PROVE  Sound(UpdateApplyDesireSpec(db, tg, s, o, v).db)
<1> DEFINE id == <<"apply", tg>>
           old == db[id]
           advance == IF SpecEqual(old.spec, s) THEN 0 ELSE 1
           rec == [old EXCEPT !.spec = s, !.version = v + 1,
                              !.generation = old.generation + advance]
<1>1. CASE Exists(db, id) /\ old.version = v /\ old.owner = o
  <2>1. old \in Records
    BY <1>1, Siblings DEF Sound, Db, Exists
  <2>2. 1 <= old.generation /\ old.generation <= v
    BY <1>1, Siblings DEF Sound
  <2>3. advance \in {0, 1}
    OBVIOUS
  <2>4. /\ rec \in Records /\ rec.owner = old.owner
        /\ 1 <= rec.generation /\ rec.generation <= rec.version
    <3>1. /\ old.generation + advance \in Nat
          /\ 1 <= old.generation + advance
          /\ old.generation + advance <= v + 1
      BY <2>1, <2>2, <2>3 DEF Records
    <3>2. /\ rec \in Records /\ rec.owner = old.owner
          /\ rec.generation = old.generation + advance /\ rec.version = v + 1
      <4> DEFINE g == old.generation + advance
                 w == v + 1
      <4>1. g \in Nat /\ w \in Nat
        BY <3>1
      <4>2. rec = [old EXCEPT !.spec = s, !.version = w, !.generation = g]
        OBVIOUS
      <4> HIDE DEF old, advance, g, w, rec
      <4>3. /\ rec \in Records /\ rec.owner = old.owner
            /\ rec.generation = g /\ rec.version = w
        BY <2>1, <4>1, <4>2 DEF Records
      <4> QED
        BY <4>3 DEF g, w
    <3> HIDE DEF old, advance, rec
    <3> QED
      BY <3>1, <3>2
  <2>5. Sound([db EXCEPT ![id] = rec])
    <3> HIDE DEF rec
    <3> QED
      BY <1>1, <2>4, Siblings, RewriteSlot, StoreAssumption
  <2> QED
    BY <1>1, <2>5 DEF UpdateApplyDesireSpec, Accept
<1>2. CASE ~(Exists(db, id) /\ old.version = v /\ old.owner = o)
  BY <1>2 DEF UpdateApplyDesireSpec, Reject
<1> QED
  BY <1>1, <1>2

\* Removing a desire preserves soundness.
LEMMA DeleteSound ==
    ASSUME NEW db, Sound(db), NEW id \in Identities, NEW o, NEW v
    PROVE  Sound(DeleteDesire(db, id, o, v).db)
BY EmptySlot DEF DeleteDesire, Accept, Reject

\* Removing every desire that matches a selector preserves soundness.
LEMMA PrefixSound ==
    ASSUME NEW db, Sound(db), NEW sel
    PROVE  Sound(DeleteByPrefix(db, sel).db)
<1> DEFINE new == DeleteByPrefix(db, sel).db
<1>1. new \in Db
  BY DEF DeleteByPrefix, Accept, Sound, Db
<1>2. \A i \in Identities : Exists(new, i) => Exists(db, i) /\ new[i] = db[i]
  BY DEF DeleteByPrefix, Accept, Sound, Db, Exists
<1> HIDE DEF new
<1>3. Sound(new)
  BY <1>1, <1>2, Removal
<1> QED
  BY <1>3 DEF new

\* A status write preserves soundness.
LEMMA UpdateStatusSound ==
    ASSUME NEW db, Sound(db), NEW id \in Identities, NEW status \in Statuses,
           NEW v \in Nat
    PROVE  Sound(UpdateDesireStatus(db, id, status, v).db)
<1> DEFINE old == db[id]
           rec == [old EXCEPT !.status = status, !.version = v + 1]
<1>1. CASE Exists(db, id) /\ old.version = v
  <2>1. old \in Records
    BY <1>1 DEF Sound, Db, Exists
  <2>2. /\ 1 <= old.generation /\ old.generation <= v
        /\ id[1] # "apply" => old.generation = 1
    BY <1>1 DEF Sound
  <2>3. /\ rec \in Records /\ rec.owner = old.owner
        /\ 1 <= rec.generation /\ rec.generation <= rec.version
        /\ id[1] # "apply" => rec.generation = 1
    <3>1. old.generation \in Nat /\ old.generation <= v + 1
      BY <2>1, <2>2 DEF Records
    <3>2. /\ rec \in Records /\ rec.owner = old.owner
          /\ rec.generation = old.generation /\ rec.version = v + 1
      <4> DEFINE w == v + 1
      <4>1. w \in Nat
        OBVIOUS
      <4>2. rec = [old EXCEPT !.status = status, !.version = w]
        OBVIOUS
      <4> HIDE DEF old, w, rec
      <4>3. /\ rec \in Records /\ rec.owner = old.owner
            /\ rec.generation = old.generation /\ rec.version = w
        BY <2>1, <4>1, <4>2 DEF Records
      <4> QED
        BY <4>3 DEF w
    <3> HIDE DEF old, rec
    <3> QED
      BY <2>2, <3>1, <3>2
  <2>4. Sound([db EXCEPT ![id] = rec])
    <3> HIDE DEF rec
    <3> QED
      BY <1>1, <2>3, RewriteSlot, StoreAssumption
  <2> QED
    BY <1>1, <2>4 DEF UpdateDesireStatus, Accept
<1>2. CASE ~(Exists(db, id) /\ old.version = v)
  BY <1>2 DEF UpdateDesireStatus, Reject
<1> QED
  BY <1>1, <1>2

\* A read status write, which checks no version, preserves soundness.
LEMMA UpdateReadStatusSound ==
    ASSUME NEW db, Sound(db), NEW tg \in Targets, NEW status \in Statuses
    PROVE  Sound(UpdateReadDesireStatus(db, tg, status).db)
<1> DEFINE id == <<"read", tg>>
           rec == [db[id] EXCEPT !.status = status]
<1>1. CASE Exists(db, id)
  <2>1. db[id] \in Records
    BY <1>1, Siblings DEF Sound, Db, Exists
  <2>2. /\ rec \in Records /\ rec.owner = db[id].owner
        /\ 1 <= rec.generation /\ rec.generation <= rec.version
        /\ rec.generation = 1
    BY <1>1, <2>1, Siblings DEF Sound, Records
  <2>3. Sound([db EXCEPT ![id] = rec])
    <3> HIDE DEF rec
    <3> QED
      BY <1>1, <2>2, Siblings, RewriteSlot, StoreAssumption
  <2> QED
    BY <1>1, <2>3 DEF UpdateReadDesireStatus, Accept
<1>2. CASE ~Exists(db, id)
  BY <1>2 DEF UpdateReadDesireStatus, Reject
<1> QED
  BY <1>1, <1>2

-----------------------------------------------------------------------------
(***************************************************************************)
(* The theorems                                                            *)
(***************************************************************************)

StoreInv == Sound(items) /\ births \in 0 .. MaxBirths

\* The invariant says what the checked properties say.
LEMMA InvImplies ==
    StoreInv => /\ StoreTypeOK /\ SingleOwner /\ ApplyDeleteExclusive
                /\ GenerationWithinVersion
BY DEF StoreInv, Sound, Db, StoreTypeOK, SingleOwner, ApplyDeleteExclusive,
       GenerationWithinVersion

\* The empty store satisfies the invariant.
LEMMA InitInv == StoreInit => StoreInv
<1> SUFFICES ASSUME StoreInit PROVE StoreInv
  OBVIOUS
<1>1. \A id \in Identities : ~Exists(items, id)
  BY DEF StoreInit, Exists
<1>2. \A t \in Targets, a \in DesireTypes : <<a, t>> \in Identities
  BY DEF Identities
<1>3. items \in Db
  BY DEF StoreInit, Db
<1>4. births \in 0 .. MaxBirths
  BY StoreAssumption DEF StoreInit
<1> QED
  BY <1>1, <1>2, <1>3, <1>4, Siblings DEF StoreInv, Sound

\* Every operation, with any arguments, preserves the invariant.
LEMMA NextInv == StoreInv /\ [StoreNext]_storeVars => StoreInv'
<1> SUFFICES ASSUME StoreInv, [StoreNext]_storeVars PROVE StoreInv'
  OBVIOUS
<1>0. Sound(items) /\ births \in Nat /\ births + 1 \in Nat
  BY StoreAssumption DEF StoreInv
<1>1. ASSUME NEW out, Create(out), Sound(out.db) PROVE StoreInv'
  <2>1. births' \in 0 .. MaxBirths
    BY <1>1, StoreAssumption DEF Create, StoreInv
  <2>2. Sound(items')
    BY <1>1 DEF Create
  <2> QED
    BY <2>1, <2>2 DEF StoreInv, Sound, Exists
<1>2. ASSUME NEW out, Update(out), Sound(out.db) PROVE StoreInv'
  BY <1>2 DEF Update, StoreInv, Sound, Exists
<1>3. CASE \E tg \in Targets, o \in Owners, s \in Specs : CreateApply(tg, o, s)
  BY <1>0, <1>1, <1>3, CreateApplySound DEF CreateApply
<1>4. CASE \E tg \in Targets, o \in Owners : CreateDelete(tg, o)
  BY <1>0, <1>1, <1>4, CreateDeleteSound DEF CreateDelete
<1>5. CASE \E tg \in Targets, o \in Owners, v \in TargetVersions : CreateRead(tg, o, v)
  BY <1>0, <1>1, <1>5, CreateReadSound DEF CreateRead
<1>6. CASE \E tg \in Targets, o \in Owners, s \in Specs, v \in Versions :
              UpdateSpec(tg, s, o, v)
  BY <1>0, <1>2, <1>6, UpdateSpecSound, StoreAssumption DEF UpdateSpec, Versions
<1>7. CASE \E id \in Identities, o \in Owners, v \in 1 .. MaxVersion : Delete(id, o, v)
  BY <1>0, <1>2, <1>7, DeleteSound DEF Delete
<1>8. CASE \E sel \in Selectors : Prefix(sel)
  BY <1>0, <1>2, <1>8, PrefixSound DEF Prefix
<1>9. CASE \E tg \in Targets, type \in {"apply", "delete"}, v \in Versions :
              \E s \in Reportable(type) : WriteStatus(<<type, tg>>, s, v)
  <2>1. PICK tg \in Targets, type \in {"apply", "delete"}, v \in Versions,
             s \in Statuses : WriteStatus(<<type, tg>>, s, v)
    BY <1>9 DEF Reportable
  <2>2. <<type, tg>> \in Identities
    BY DEF Identities, DesireTypes
  <2>3. v \in Nat
    BY StoreAssumption DEF Versions
  <2> QED
    BY <1>0, <1>2, <2>1, <2>2, <2>3, UpdateStatusSound DEF WriteStatus
<1>10. CASE \E tg \in Targets, s \in Reportable("read") : WriteReadStatus(tg, s)
  BY <1>0, <1>2, <1>10, UpdateReadStatusSound DEF WriteReadStatus, Reportable
<1>11. CASE UNCHANGED storeVars
  BY <1>11 DEF storeVars, StoreInv, Sound, Exists
<1> QED
  BY <1>3, <1>4, <1>5, <1>6, <1>7, <1>8, <1>9, <1>10, <1>11
  DEF StoreNext, SpecStoreNext, StatusStoreNext

\* Every reachable state satisfies the invariant.
THEOREM StoreInvariant == StoreSpec => []StoreInv
BY InitInv, NextInv, PTL DEF StoreSpec

\* Every Identity always holds a well-formed record or none.
THEOREM StoreTypeCorrect == StoreSpec => []StoreTypeOK
BY StoreInvariant, InvImplies, PTL

\* The desires of a target never have two owners.
THEOREM OneOwnerPerTarget == StoreSpec => []SingleOwner
BY StoreInvariant, InvImplies, PTL

\* A target never has an apply and a delete at once.
THEOREM NeverApplyAndDelete == StoreSpec => []ApplyDeleteExclusive
BY StoreInvariant, InvImplies, PTL

\* No generation outruns the version that guards it.
THEOREM GenerationsAreVersioned == StoreSpec => []GenerationWithinVersion
BY StoreInvariant, InvImplies, PTL

\* A rejected create leaves the store as it was.
THEOREM RejectedCreatesArePure == StoreSpec => []RejectedCreateIsPure
<1>1. StoreInv => RejectedCreateIsPure
  <2> SUFFICES ASSUME StoreInv, NEW tg \in Targets, NEW o \in Owners, NEW s \in Specs
               PROVE  LET apply == CreateApplyDesire(items, tg, o, s, births + 1)
                          delete == CreateDeleteDesire(items, tg, o, births + 1)
                      IN /\ apply.err # OK => apply.db = items
                         /\ delete.err # OK => delete.db = items
    BY DEF RejectedCreateIsPure
  <2>1. Sound(items) /\ births + 1 \in Nat
    BY StoreAssumption DEF StoreInv
  <2> QED
    BY <2>1, CreateApplySound, CreateDeleteSound
<1> QED
  BY <1>1, StoreInvariant, PTL

\* One step of the store, on one record.
Guarded(id) ==
    SameLife(id) =>
        /\ id[1] # "read" /\ items'[id] # items[id]
              => items'[id].version > items[id].version
        /\ items'[id].owner = items[id].owner

\* A record that changes within one life takes a greater version and keeps
\* its owner: a create fills an empty slot, and every other write to an apply
\* or a delete increments the version it has just compared.
THEOREM ChangesAreVersioned == StoreSpec => VersionGuardsContent
<1>1. ASSUME StoreInv, [StoreNext]_storeVars, NEW id \in Identities
      PROVE  Guarded(id)
  <2>0. /\ items \in Db
        /\ \A t \in Targets, a \in DesireTypes : <<a, t>> \in Identities
    BY <1>1 DEF StoreInv, Sound, Identities
  <2>1. ASSUME items'[id] = NoRecord \/ items'[id] = items[id] \/ ~Exists(items, id)
        PROVE  Guarded(id)
    BY <2>1 DEF Guarded, SameLife
  <2>2. ASSUME NEW tg \in Targets, NEW o \in Owners, NEW s \in Specs, CreateApply(tg, o, s)
        PROVE  Guarded(id)
    BY <2>0, <2>1, <2>2, Siblings
    DEF CreateApply, Create, CreateApplyDesire, Accept, Reject, Exists, Db
  <2>3. ASSUME NEW tg \in Targets, NEW o \in Owners, CreateDelete(tg, o)
        PROVE  Guarded(id)
    BY <2>0, <2>1, <2>3, Siblings
    DEF CreateDelete, Create, CreateDeleteDesire, Accept, Reject, Exists, Db
  <2>4. ASSUME NEW tg \in Targets, NEW o \in Owners, NEW v \in TargetVersions,
               CreateRead(tg, o, v)
        PROVE  Guarded(id)
    BY <2>0, <2>1, <2>4, Siblings
    DEF CreateRead, Create, CreateReadDesire, Accept, Reject, Exists, Db
  <2>5. ASSUME NEW tg \in Targets, NEW o \in Owners, NEW s \in Specs,
               NEW v \in Versions, UpdateSpec(tg, s, o, v)
        PROVE  Guarded(id)
    <3>1. v \in Nat
      BY StoreAssumption DEF Versions
    <3>2. CASE items' = items
      BY <2>1, <3>2
    <3>3. CASE items' # items
      <4> DEFINE a == <<"apply", tg>>
                 n == IF SpecEqual(items[a].spec, s) THEN 0 ELSE 1
                 rec == [items[a] EXCEPT !.spec = s, !.version = v + 1,
                                         !.generation = items[a].generation + n]
      <4>1. /\ Exists(items, a) /\ items[a].version = v
            /\ items' = [items EXCEPT ![a] = rec]
        BY <2>5, <3>3 DEF UpdateSpec, Update, UpdateApplyDesireSpec, Accept, Reject
      <4>2. items[a] \in Records
        BY <2>0, <4>1, Siblings DEF Db, Exists
      <4>3. rec.version = v + 1 /\ rec.owner = items[a].owner
        BY <4>2 DEF Records
      <4> HIDE DEF rec
      <4> QED
        BY <2>0, <2>1, <3>1, <4>1, <4>3 DEF Guarded, SameLife, Db
    <3> QED
      BY <3>2, <3>3
  <2>6. ASSUME NEW i \in Identities, NEW o \in Owners, NEW v, Delete(i, o, v)
        PROVE  Guarded(id)
    BY <2>0, <2>1, <2>6 DEF Delete, Update, DeleteDesire, Accept, Reject, Db
  <2>7. ASSUME NEW sel \in Selectors, Prefix(sel)
        PROVE  Guarded(id)
    BY <2>0, <2>1, <2>7 DEF Prefix, Update, DeleteByPrefix, Accept, Db
  <2>8. ASSUME NEW i \in Identities, NEW s \in Statuses, NEW v \in Versions,
               WriteStatus(i, s, v)
        PROVE  Guarded(id)
    <3>1. v \in Nat
      BY StoreAssumption DEF Versions
    <3>2. CASE items' = items
      BY <2>1, <3>2
    <3>3. CASE items' # items
      <4> DEFINE rec == [items[i] EXCEPT !.status = s, !.version = v + 1]
      <4>1. /\ Exists(items, i) /\ items[i].version = v
            /\ items' = [items EXCEPT ![i] = rec]
        BY <2>8, <3>3 DEF WriteStatus, Update, UpdateDesireStatus, Accept, Reject
      <4>2. items[i] \in Records
        BY <2>0, <4>1 DEF Db, Exists
      <4>3. rec.version = v + 1 /\ rec.owner = items[i].owner
        BY <4>2 DEF Records
      <4> HIDE DEF rec
      <4> QED
        BY <2>0, <2>1, <3>1, <4>1, <4>3 DEF Guarded, SameLife, Db
    <3> QED
      BY <3>2, <3>3
  <2>9. ASSUME NEW tg \in Targets, NEW s \in Statuses, WriteReadStatus(tg, s)
        PROVE  Guarded(id)
    <3> DEFINE r == <<"read", tg>>
               rec == [items[r] EXCEPT !.status = s]
    <3>1. CASE ~Exists(items, r)
      BY <2>1, <2>9, <3>1 DEF WriteReadStatus, Update, UpdateReadDesireStatus, Reject
    <3>2. CASE Exists(items, r)
      <4>1. items' = [items EXCEPT ![r] = rec]
        BY <2>9, <3>2 DEF WriteReadStatus, Update, UpdateReadDesireStatus, Accept
      <4>2. rec.owner = items[r].owner
        BY <2>0, <3>2, Siblings DEF Db, Exists, Records
      <4> HIDE DEF rec
      <4> QED
        BY <2>0, <2>1, <4>1, <4>2 DEF Guarded, SameLife, Db
    <3> QED
      BY <3>1, <3>2
  <2>10. CASE UNCHANGED storeVars
    BY <2>1, <2>10 DEF storeVars
  <2> QED
    BY <1>1, <2>0, <2>2, <2>3, <2>4, <2>5, <2>6, <2>7, <2>8, <2>9, <2>10
    DEF StoreNext, SpecStoreNext, StatusStoreNext, Reportable, DesireTypes
<1>2. StoreInv /\ [StoreNext]_storeVars
         => [\A id \in Identities : SameLife(id) =>
               /\ id[1] # "read" /\ items'[id] # items[id]
                     => items'[id].version > items[id].version
               /\ items'[id].owner = items[id].owner]_storeVars
  BY <1>1 DEF Guarded
<1> QED
  BY <1>2, StoreInvariant, PTL DEF StoreSpec, VersionGuardsContent

=============================================================================
