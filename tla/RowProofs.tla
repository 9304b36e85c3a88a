------------------------------ MODULE RowProofs ------------------------------
(* What the programs of ManifestRows are made of, for documents of any shape. *)
EXTENDS ManifestRows, SequenceFacts

\* Every table with leaves or rows without an environment.
AllTables == STRING \cup Forgotten

\* Leaves of any table, and manifests as they are loaded: with extensions of any.
AnyLeaves == LeavesIn(AllTables)
AnyManifests ==
  [key : RowKeys, tbl : Reached, env : {NoEnv}, Entities : Seq(Entities),
   DependentRIMs : Seq(Locators), ModuleTags : Seq(ModuleTags),
   Extensions : Seq(AnyLeaves), Namesakes : Seq(Leaves)]

LEMMA AnyLeaf ==
  /\ Seq(Leaves) \subseteq Seq(AnyLeaves)
  /\ Seq(LeavesIn({"extensions/manifest"})) \subseteq Seq(AnyLeaves)
  /\ Seq(LeavesIn({"cryptokeys/measurement"})) \subseteq Seq(AnyLeaves)
  /\ Seq(LeavesIn({"cryptokeys/token"})) \subseteq Seq(AnyLeaves)
<1>1. \A T \in SUBSET AllTables : LeavesIn(T) \subseteq AnyLeaves
  BY DEF LeavesIn, AnyLeaves
<1>2. /\ Reached \in SUBSET AllTables /\ {"extensions/manifest"} \in SUBSET AllTables
      /\ {"cryptokeys/measurement"} \in SUBSET AllTables /\ {"cryptokeys/token"} \in SUBSET AllTables
  BY DEF Reached, AllTables, Forgotten
<1>3. \A S, T : S \subseteq T => Seq(S) \subseteq Seq(T)
  OBVIOUS
<1> QED BY <1>1, <1>2, <1>3 DEF Leaves

\* Sets of programs that are closed under concatenation.
Closed(T) == <<>> \in T /\ \A p, q \in T : p \o q \in T

LEMMA SeqClosed == ASSUME NEW S PROVE Closed(Seq(S))
BY DEF Closed

\* The program of a slice, from those of its nodes.
LEMMA SliceIn ==
  ASSUME NEW T, Closed(T), NEW N, NEW ns \in Seq(N),
         NEW ss, ss = [i \in DOMAIN ns |-> ss[i]], \A i \in DOMAIN ns : ss[i] \in T
  PROVE  FlattenSeq(ss) \in T
<1>1. ss \in [1..Len(ns) -> T] /\ Len(ns) \in Nat
  OBVIOUS
<1> QED BY <1>1, FlattenIn DEF Closed

LEMMA HereIn ==
  ASSUME NEW N, NEW ns \in Seq(N), NEW keys
  PROVE  Here(ns, keys) \in Seq(N) /\ \A n \in ToSet(Here(ns, keys)) : n.key \in keys
<1> DEFINE ss == [i \in DOMAIN ns |-> IF ns[i].key \in keys THEN <<ns[i]>> ELSE <<>>]
<1> DEFINE H == {n \in N : n.key \in keys}
<1>1. ASSUME NEW i \in DOMAIN ns PROVE ss[i] \in Seq(H)
  <2>1. ns[i] \in N
    OBVIOUS
  <2>2. CASE ns[i].key \in keys
    <3>1. ns[i] \in H
      BY <2>1, <2>2
    <3>2. <<ns[i]>> \in Seq(H)
      BY <3>1
    <3> QED BY <2>2, <3>2
  <2>3. CASE ns[i].key \notin keys
    <3>1. <<>> \in Seq(H)
      OBVIOUS
    <3> QED BY <2>3, <3>1
  <2> QED BY <2>2, <2>3
<1>2. FlattenSeq(ss) \in Seq(H)
  <2> HIDE DEF H
  <2>1. ss = [i \in DOMAIN ns |-> ss[i]]
    OBVIOUS
  <2> HIDE DEF ss
  <2> QED BY <1>1, <2>1, SeqClosed, SliceIn
<1>3. Here(ns, keys) \in Seq(H)
  BY <1>2 DEF Here, Each
<1>4. H \subseteq N
  OBVIOUS
<1> HIDE DEF H
<1>5. Here(ns, keys) \in Seq(N)
  BY <1>3, <1>4
<1> QED BY <1>3, <1>5 DEF ToSet, H

\* T has the statements that remove rows.
Removes(T) ==
  /\ Closed(T)
  /\ \A k \in RowKeys : <<[do |-> "delete", key |-> k]>> \in T
  /\ \A k \in RowKeys, b \in BOOLEAN : <<[do |-> "owners", key |-> k, checked |-> b]>> \in T

\* T has those that add rows: one with an environment is in a table of owners, and the
\* environment comes first.
Adds(T) ==
  /\ Closed(T)
  /\ \A k \in RowKeys, t \in AllTables :
       <<[do |-> "insert", key |-> k, tbl |-> t, hasEnv |-> FALSE]>> \in T
  /\ \A k \in RowKeys, t \in ToSet(environmentOwners), e \in Envs :
       <<[do |-> "findEnv", env |-> e]>>
       \o <<[do |-> "insert", key |-> k, tbl |-> t, hasEnv |-> TRUE]>> \in T

LEMMA RowDeleted ==
  ASSUME NEW T, Removes(T), NEW n, n.key \in RowKeys
  PROVE  Delete(n) \in T
BY DEF Removes, Delete

LEMMA LeafDeleted ==
  ASSUME NEW T, Removes(T), NEW n \in AnyLeaves
  PROVE  Delete(n) \in T
BY RowDeleted DEF AnyLeaves, LeavesIn

LEMMA RowInserted ==
  ASSUME NEW T, Adds(T), NEW n, n.key \in RowKeys, n.env = NoEnv, n.tbl \in AllTables
  PROVE  Insert(n) \in T
BY DEF Adds, Insert

LEMMA RowWithEnv ==
  ASSUME NEW T, Adds(T), NEW n, n.key \in RowKeys, n.env \in Envs, n.tbl \in ToSet(environmentOwners)
  PROVE  FindEnv(n) \o Insert(n) \in T
<1>1. n.env # NoEnv
  BY RowAssumption
<1>2. Insert(n) = <<[do |-> "insert", key |-> n.key, tbl |-> n.tbl, hasEnv |-> TRUE]>>
  BY <1>1 DEF Insert
<1> QED BY <1>2 DEF Adds, FindEnv

LEMMA LeafInserted ==
  ASSUME NEW T, Adds(T), NEW n \in AnyLeaves
  PROVE  Insert(n) \in T
BY RowInserted DEF AnyLeaves, LeavesIn

LEMMA OwnerTables ==
  ToSet(environmentOwners) =
    {"conditional_endorsement_series_triples", "domain_entries", "domain_dependency_triples",
     "domain_membership_triples", "key_triples", "stateful_environments", "value_triples"}
<1>1. DOMAIN environmentOwners = {1, 2, 3, 4, 5, 6, 7}
  BY DEF environmentOwners
<1> QED BY <1>1 DEF environmentOwners, ToSet
-----------------------------------------------------------------------------
LEMMA SelectEntityIn ==
  ASSUME NEW n \in Entities, NEW keys PROVE SelectEntity(n, keys) \in Entities
BY HereIn DEF SelectEntity, Entities

LEMMA LoadedEntityIn ==
  ASSUME NEW ns \in Seq(Entities), NEW keys
  PROVE  Loaded(ns, keys, SelectEntity) \in Seq(Entities)
<1>1. Here(ns, keys) \in Seq(Entities)
  BY HereIn
<1> QED BY <1>1, SelectEntityIn DEF Loaded

LEMMA SelectLocatorIn ==
  ASSUME NEW n \in Locators, NEW keys PROVE SelectLocator(n, keys) \in Locators
BY HereIn DEF SelectLocator, Locators

LEMMA LoadedLocatorIn ==
  ASSUME NEW ns \in Seq(Locators), NEW keys
  PROVE  Loaded(ns, keys, SelectLocator) \in Seq(Locators)
<1>1. Here(ns, keys) \in Seq(Locators)
  BY HereIn
<1> QED BY <1>1, SelectLocatorIn DEF Loaded

LEMMA SelectIntegrityRegisterIn ==
  ASSUME NEW n \in IntegrityRegisters, NEW keys PROVE SelectIntegrityRegister(n, keys) \in IntegrityRegisters
BY HereIn DEF SelectIntegrityRegister, IntegrityRegisters

LEMMA LoadedIntegrityRegisterIn ==
  ASSUME NEW ns \in Seq(IntegrityRegisters), NEW keys
  PROVE  Loaded(ns, keys, SelectIntegrityRegister) \in Seq(IntegrityRegisters)
<1>1. Here(ns, keys) \in Seq(IntegrityRegisters)
  BY HereIn
<1> QED BY <1>1, SelectIntegrityRegisterIn DEF Loaded

LEMMA SelectMeasurementIn ==
  ASSUME NEW n \in Measurements, NEW keys PROVE SelectMeasurement(n, keys) \in Measurements
<1>1. <<>> \in Seq(LeavesIn({"cryptokeys/measurement"}))
  OBVIOUS
<1> QED BY <1>1, HereIn, LoadedIntegrityRegisterIn DEF SelectMeasurement, Measurements

LEMMA LoadedMeasurementIn ==
  ASSUME NEW ns \in Seq(Measurements), NEW keys
  PROVE  Loaded(ns, keys, SelectMeasurement) \in Seq(Measurements)
<1>1. Here(ns, keys) \in Seq(Measurements)
  BY HereIn
<1> QED BY <1>1, SelectMeasurementIn DEF Loaded

LEMMA SelectKeyTripleIn ==
  ASSUME NEW n \in KeyTriples, NEW keys PROVE SelectKeyTriple(n, keys) \in KeyTriples
BY HereIn DEF SelectKeyTriple, KeyTriples

LEMMA LoadedKeyTripleIn ==
  ASSUME NEW ns \in Seq(KeyTriples), NEW keys
  PROVE  Loaded(ns, keys, SelectKeyTriple) \in Seq(KeyTriples)
<1>1. Here(ns, keys) \in Seq(KeyTriples)
  BY HereIn
<1> QED BY <1>1, SelectKeyTripleIn DEF Loaded

LEMMA SelectValueTripleIn ==
  ASSUME NEW n \in ValueTriples, NEW keys PROVE SelectValueTriple(n, keys) \in ValueTriples
BY HereIn, LoadedMeasurementIn DEF SelectValueTriple, ValueTriples

LEMMA LoadedValueTripleIn ==
  ASSUME NEW ns \in Seq(ValueTriples), NEW keys
  PROVE  Loaded(ns, keys, SelectValueTriple) \in Seq(ValueTriples)
<1>1. Here(ns, keys) \in Seq(ValueTriples)
  BY HereIn
<1> QED BY <1>1, SelectValueTripleIn DEF Loaded

LEMMA SelectStatefulEnvironmentIn ==
  ASSUME NEW n \in StatefulEnvironments, NEW keys PROVE SelectStatefulEnvironment(n, keys) \in StatefulEnvironments
BY HereIn, LoadedMeasurementIn DEF SelectStatefulEnvironment, StatefulEnvironments

LEMMA LoadedStatefulEnvironmentIn ==
  ASSUME NEW ns \in Seq(StatefulEnvironments), NEW keys
  PROVE  Loaded(ns, keys, SelectStatefulEnvironment) \in Seq(StatefulEnvironments)
<1>1. Here(ns, keys) \in Seq(StatefulEnvironments)
  BY HereIn
<1> QED BY <1>1, SelectStatefulEnvironmentIn DEF Loaded

LEMMA SelectConditionalTripleIn ==
  ASSUME NEW n \in ConditionalEndorsementTriples, NEW keys PROVE SelectConditionalEndorsementTriple(n, keys) \in ConditionalEndorsementTriples
BY HereIn, LoadedStatefulEnvironmentIn, LoadedValueTripleIn DEF SelectConditionalEndorsementTriple, ConditionalEndorsementTriples

LEMMA LoadedConditionalTripleIn ==
  ASSUME NEW ns \in Seq(ConditionalEndorsementTriples), NEW keys
  PROVE  Loaded(ns, keys, SelectConditionalEndorsementTriple) \in Seq(ConditionalEndorsementTriples)
<1>1. Here(ns, keys) \in Seq(ConditionalEndorsementTriples)
  BY HereIn
<1> QED BY <1>1, SelectConditionalTripleIn DEF Loaded

LEMMA SelectSeriesRecordIn ==
  ASSUME NEW n \in ConditionalEndorsementSeriesRecords, NEW keys PROVE SelectConditionalEndorsementSeriesRecord(n, keys) \in ConditionalEndorsementSeriesRecords
BY HereIn, LoadedMeasurementIn DEF SelectConditionalEndorsementSeriesRecord, ConditionalEndorsementSeriesRecords

LEMMA LoadedSeriesRecordIn ==
  ASSUME NEW ns \in Seq(ConditionalEndorsementSeriesRecords), NEW keys
  PROVE  Loaded(ns, keys, SelectConditionalEndorsementSeriesRecord) \in Seq(ConditionalEndorsementSeriesRecords)
<1>1. Here(ns, keys) \in Seq(ConditionalEndorsementSeriesRecords)
  BY HereIn
<1> QED BY <1>1, SelectSeriesRecordIn DEF Loaded

LEMMA SelectSeriesTripleIn ==
  ASSUME NEW n \in ConditionalEndorsementSeriesTriples, NEW keys PROVE SelectConditionalEndorsementSeriesTriple(n, keys) \in ConditionalEndorsementSeriesTriples
BY HereIn, LoadedSeriesRecordIn, LoadedMeasurementIn DEF SelectConditionalEndorsementSeriesTriple, ConditionalEndorsementSeriesTriples

LEMMA LoadedSeriesTripleIn ==
  ASSUME NEW ns \in Seq(ConditionalEndorsementSeriesTriples), NEW keys
  PROVE  Loaded(ns, keys, SelectConditionalEndorsementSeriesTriple) \in Seq(ConditionalEndorsementSeriesTriples)
<1>1. Here(ns, keys) \in Seq(ConditionalEndorsementSeriesTriples)
  BY HereIn
<1> QED BY <1>1, SelectSeriesTripleIn DEF Loaded

LEMMA SelectMembershipTripleIn ==
  ASSUME NEW n \in DomainMembershipTriples, NEW keys PROVE SelectDomainMembershipTriple(n, keys) \in DomainMembershipTriples
BY HereIn DEF SelectDomainMembershipTriple, DomainMembershipTriples

LEMMA LoadedMembershipTripleIn ==
  ASSUME NEW ns \in Seq(DomainMembershipTriples), NEW keys
  PROVE  Loaded(ns, keys, SelectDomainMembershipTriple) \in Seq(DomainMembershipTriples)
<1>1. Here(ns, keys) \in Seq(DomainMembershipTriples)
  BY HereIn
<1> QED BY <1>1, SelectMembershipTripleIn DEF Loaded

LEMMA SelectDependencyTripleIn ==
  ASSUME NEW n \in DomainDependencyTriples, NEW keys PROVE SelectDomainDependencyTriple(n, keys) \in DomainDependencyTriples
BY HereIn DEF SelectDomainDependencyTriple, DomainDependencyTriples

LEMMA LoadedDependencyTripleIn ==
  ASSUME NEW ns \in Seq(DomainDependencyTriples), NEW keys
  PROVE  Loaded(ns, keys, SelectDomainDependencyTriple) \in Seq(DomainDependencyTriples)
<1>1. Here(ns, keys) \in Seq(DomainDependencyTriples)
  BY HereIn
<1> QED BY <1>1, SelectDependencyTripleIn DEF Loaded

LEMMA SelectModuleTagIn ==
  ASSUME NEW n \in ModuleTags, NEW keys PROVE SelectModuleTag(n, keys) \in ModuleTags
BY HereIn, LoadedSeriesTripleIn, LoadedConditionalTripleIn, LoadedDependencyTripleIn, LoadedMembershipTripleIn, LoadedEntityIn, LoadedKeyTripleIn, LoadedValueTripleIn DEF SelectModuleTag, ModuleTags

LEMMA LoadedModuleTagIn ==
  ASSUME NEW ns \in Seq(ModuleTags), NEW keys
  PROVE  Loaded(ns, keys, SelectModuleTag) \in Seq(ModuleTags)
<1>1. Here(ns, keys) \in Seq(ModuleTags)
  BY HereIn
<1> QED BY <1>1, SelectModuleTagIn DEF Loaded

LEMMA SelectManifestIn ==
  ASSUME NEW n \in Manifests, NEW keys PROVE SelectManifest(n, keys) \in AnyManifests
<1>1. Here(n.Namesakes, keys) \in Seq(AnyLeaves)
  <2>1. Here(n.Namesakes, keys) \in Seq(Leaves)
    BY HereIn DEF Manifests
  <2> QED BY <2>1, AnyLeaf
<1> QED
  BY <1>1, LoadedEntityIn, LoadedLocatorIn, LoadedModuleTagIn
  DEF SelectManifest, Manifests, AnyManifests

LEMMA SelectTokenIn ==
  ASSUME NEW n \in Tokens PROVE SelectToken(n) \in Tokens
<1>1. <<>> \in Seq(LeavesIn({"cryptokeys/token"}))
  OBVIOUS
<1> QED BY <1>1 DEF SelectToken, Tokens

-----------------------------------------------------------------------------
LEMMA EachDeleted ==
  ASSUME NEW T, Removes(T), NEW ns \in Seq(AnyLeaves)
  PROVE  Each(ns, Delete) \in T
<1> DEFINE ss == [i \in DOMAIN ns |-> Delete(ns[i])]
<1>1. \A i \in DOMAIN ns : ss[i] \in T
  BY LeafDeleted
<1>2. ss = [i \in DOMAIN ns |-> ss[i]]
  OBVIOUS
<1> HIDE DEF ss
<1>3. FlattenSeq(ss) \in T
  BY <1>1, <1>2, SliceIn DEF Removes
<1> QED BY <1>3 DEF Each, ss

LEMMA EntityDeleted ==
  ASSUME NEW T, Removes(T), NEW n \in Entities
  PROVE  DeleteEntity(n) \in T
<1>1. Delete(n) \in T
  BY RowDeleted DEF Entities
<1> QED
  BY <1>1, EachDeleted, AnyLeaf DEF DeleteEntity, Entities, Removes, Closed

LEMMA EachEntityDeleted ==
  ASSUME NEW T, Removes(T), NEW ns \in Seq(Entities)
  PROVE  Each(ns, DeleteEntity) \in T
<1> DEFINE ss == [i \in DOMAIN ns |-> DeleteEntity(ns[i])]
<1>1. \A i \in DOMAIN ns : ss[i] \in T
  BY EntityDeleted
<1>2. ss = [i \in DOMAIN ns |-> ss[i]]
  OBVIOUS
<1> HIDE DEF ss
<1>3. FlattenSeq(ss) \in T
  BY <1>1, <1>2, SliceIn DEF Removes
<1> QED BY <1>3 DEF Each, ss

LEMMA LocatorDeleted ==
  ASSUME NEW T, Removes(T), NEW n \in Locators
  PROVE  DeleteLocator(n) \in T
<1>1. Delete(n) \in T
  BY RowDeleted DEF Locators
<1> QED
  BY <1>1, EachDeleted, AnyLeaf DEF DeleteLocator, Locators, Removes, Closed

LEMMA EachLocatorDeleted ==
  ASSUME NEW T, Removes(T), NEW ns \in Seq(Locators)
  PROVE  Each(ns, DeleteLocator) \in T
<1> DEFINE ss == [i \in DOMAIN ns |-> DeleteLocator(ns[i])]
<1>1. \A i \in DOMAIN ns : ss[i] \in T
  BY LocatorDeleted
<1>2. ss = [i \in DOMAIN ns |-> ss[i]]
  OBVIOUS
<1> HIDE DEF ss
<1>3. FlattenSeq(ss) \in T
  BY <1>1, <1>2, SliceIn DEF Removes
<1> QED BY <1>3 DEF Each, ss

LEMMA IntegrityRegisterDeleted ==
  ASSUME NEW T, Removes(T), NEW n \in IntegrityRegisters
  PROVE  DeleteIntegrityRegister(n) \in T
<1>1. Delete(n) \in T
  BY RowDeleted DEF IntegrityRegisters
<1> QED
  BY <1>1, EachDeleted, AnyLeaf DEF DeleteIntegrityRegister, IntegrityRegisters, Removes, Closed

LEMMA EachIntegrityRegisterDeleted ==
  ASSUME NEW T, Removes(T), NEW ns \in Seq(IntegrityRegisters)
  PROVE  Each(ns, DeleteIntegrityRegister) \in T
<1> DEFINE ss == [i \in DOMAIN ns |-> DeleteIntegrityRegister(ns[i])]
<1>1. \A i \in DOMAIN ns : ss[i] \in T
  BY IntegrityRegisterDeleted
<1>2. ss = [i \in DOMAIN ns |-> ss[i]]
  OBVIOUS
<1> HIDE DEF ss
<1>3. FlattenSeq(ss) \in T
  BY <1>1, <1>2, SliceIn DEF Removes
<1> QED BY <1>3 DEF Each, ss

LEMMA MeasurementDeleted ==
  ASSUME NEW T, Removes(T), NEW n \in Measurements
  PROVE  DeleteMeasurement(n) \in T
<1>1. Delete(n) \in T
  BY RowDeleted DEF Measurements
<1> QED
  BY <1>1, EachDeleted, AnyLeaf, EachIntegrityRegisterDeleted DEF DeleteMeasurement, Measurements, Removes, Closed

LEMMA EachMeasurementDeleted ==
  ASSUME NEW T, Removes(T), NEW ns \in Seq(Measurements)
  PROVE  Each(ns, DeleteMeasurement) \in T
<1> DEFINE ss == [i \in DOMAIN ns |-> DeleteMeasurement(ns[i])]
<1>1. \A i \in DOMAIN ns : ss[i] \in T
  BY MeasurementDeleted
<1>2. ss = [i \in DOMAIN ns |-> ss[i]]
  OBVIOUS
<1> HIDE DEF ss
<1>3. FlattenSeq(ss) \in T
  BY <1>1, <1>2, SliceIn DEF Removes
<1> QED BY <1>3 DEF Each, ss

LEMMA KeyTripleDeleted ==
  ASSUME NEW T, Removes(T), NEW n \in KeyTriples
  PROVE  DeleteKeyTriple(n) \in T
<1>1. Delete(n) \in T
  BY RowDeleted DEF KeyTriples
<1>2. DeleteIfOrphaned(n, FALSE) \in T
  BY DEF DeleteIfOrphaned, Removes, KeyTriples
<1> QED
  BY <1>1, <1>2, EachDeleted, AnyLeaf DEF DeleteKeyTriple, KeyTriples, Removes, Closed

LEMMA EachKeyTripleDeleted ==
  ASSUME NEW T, Removes(T), NEW ns \in Seq(KeyTriples)
  PROVE  Each(ns, DeleteKeyTriple) \in T
<1> DEFINE ss == [i \in DOMAIN ns |-> DeleteKeyTriple(ns[i])]
<1>1. \A i \in DOMAIN ns : ss[i] \in T
  BY KeyTripleDeleted
<1>2. ss = [i \in DOMAIN ns |-> ss[i]]
  OBVIOUS
<1> HIDE DEF ss
<1>3. FlattenSeq(ss) \in T
  BY <1>1, <1>2, SliceIn DEF Removes
<1> QED BY <1>3 DEF Each, ss

LEMMA ValueTripleDeleted ==
  ASSUME NEW T, Removes(T), NEW n \in ValueTriples
  PROVE  DeleteValueTriple(n) \in T
<1>1. Delete(n) \in T
  BY RowDeleted DEF ValueTriples
<1>2. DeleteIfOrphaned(n, TRUE) \in T
  BY DEF DeleteIfOrphaned, Removes, ValueTriples
<1> QED
  BY <1>1, <1>2, EachMeasurementDeleted DEF DeleteValueTriple, ValueTriples, Removes, Closed

LEMMA EachValueTripleDeleted ==
  ASSUME NEW T, Removes(T), NEW ns \in Seq(ValueTriples)
  PROVE  Each(ns, DeleteValueTriple) \in T
<1> DEFINE ss == [i \in DOMAIN ns |-> DeleteValueTriple(ns[i])]
<1>1. \A i \in DOMAIN ns : ss[i] \in T
  BY ValueTripleDeleted
<1>2. ss = [i \in DOMAIN ns |-> ss[i]]
  OBVIOUS
<1> HIDE DEF ss
<1>3. FlattenSeq(ss) \in T
  BY <1>1, <1>2, SliceIn DEF Removes
<1> QED BY <1>3 DEF Each, ss

LEMMA StatefulEnvironmentDeleted ==
  ASSUME NEW T, Removes(T), NEW n \in StatefulEnvironments
  PROVE  DeleteStatefulEnvironment(n) \in T
<1>1. Delete(n) \in T
  BY RowDeleted DEF StatefulEnvironments
<1>2. DeleteIfOrphaned(n, TRUE) \in T
  BY DEF DeleteIfOrphaned, Removes, StatefulEnvironments
<1> QED
  BY <1>1, <1>2, EachMeasurementDeleted DEF DeleteStatefulEnvironment, StatefulEnvironments, Removes, Closed

LEMMA EachStatefulEnvironmentDeleted ==
  ASSUME NEW T, Removes(T), NEW ns \in Seq(StatefulEnvironments)
  PROVE  Each(ns, DeleteStatefulEnvironment) \in T
<1> DEFINE ss == [i \in DOMAIN ns |-> DeleteStatefulEnvironment(ns[i])]
<1>1. \A i \in DOMAIN ns : ss[i] \in T
  BY StatefulEnvironmentDeleted
<1>2. ss = [i \in DOMAIN ns |-> ss[i]]
  OBVIOUS
<1> HIDE DEF ss
<1>3. FlattenSeq(ss) \in T
  BY <1>1, <1>2, SliceIn DEF Removes
<1> QED BY <1>3 DEF Each, ss

LEMMA ConditionalTripleDeleted ==
  ASSUME NEW T, Removes(T), NEW n \in ConditionalEndorsementTriples
  PROVE  DeleteConditionalEndorsementTriple(n) \in T
<1>1. Delete(n) \in T
  BY RowDeleted DEF ConditionalEndorsementTriples
<1> QED
  BY <1>1, EachStatefulEnvironmentDeleted, EachValueTripleDeleted DEF DeleteConditionalEndorsementTriple, ConditionalEndorsementTriples, Removes, Closed

LEMMA EachConditionalTripleDeleted ==
  ASSUME NEW T, Removes(T), NEW ns \in Seq(ConditionalEndorsementTriples)
  PROVE  Each(ns, DeleteConditionalEndorsementTriple) \in T
<1> DEFINE ss == [i \in DOMAIN ns |-> DeleteConditionalEndorsementTriple(ns[i])]
<1>1. \A i \in DOMAIN ns : ss[i] \in T
  BY ConditionalTripleDeleted
<1>2. ss = [i \in DOMAIN ns |-> ss[i]]
  OBVIOUS
<1> HIDE DEF ss
<1>3. FlattenSeq(ss) \in T
  BY <1>1, <1>2, SliceIn DEF Removes
<1> QED BY <1>3 DEF Each, ss

LEMMA SeriesRecordDeleted ==
  ASSUME NEW T, Removes(T), NEW n \in ConditionalEndorsementSeriesRecords
  PROVE  DeleteConditionalEndorsementSeriesRecord(n) \in T
<1>1. Delete(n) \in T
  BY RowDeleted DEF ConditionalEndorsementSeriesRecords
<1> QED
  BY <1>1, EachMeasurementDeleted DEF DeleteConditionalEndorsementSeriesRecord, ConditionalEndorsementSeriesRecords, Removes, Closed

LEMMA EachSeriesRecordDeleted ==
  ASSUME NEW T, Removes(T), NEW ns \in Seq(ConditionalEndorsementSeriesRecords)
  PROVE  Each(ns, DeleteConditionalEndorsementSeriesRecord) \in T
<1> DEFINE ss == [i \in DOMAIN ns |-> DeleteConditionalEndorsementSeriesRecord(ns[i])]
<1>1. \A i \in DOMAIN ns : ss[i] \in T
  BY SeriesRecordDeleted
<1>2. ss = [i \in DOMAIN ns |-> ss[i]]
  OBVIOUS
<1> HIDE DEF ss
<1>3. FlattenSeq(ss) \in T
  BY <1>1, <1>2, SliceIn DEF Removes
<1> QED BY <1>3 DEF Each, ss

LEMMA SeriesTripleDeleted ==
  ASSUME NEW T, Removes(T), NEW n \in ConditionalEndorsementSeriesTriples
  PROVE  DeleteConditionalEndorsementSeriesTriple(n) \in T
<1>1. Delete(n) \in T
  BY RowDeleted DEF ConditionalEndorsementSeriesTriples
<1>2. DeleteIfOrphaned(n, FALSE) \in T
  BY DEF DeleteIfOrphaned, Removes, ConditionalEndorsementSeriesTriples
<1> QED
  BY <1>1, <1>2, EachDeleted, AnyLeaf, EachSeriesRecordDeleted, EachMeasurementDeleted DEF DeleteConditionalEndorsementSeriesTriple, ConditionalEndorsementSeriesTriples, Removes, Closed

LEMMA EachSeriesTripleDeleted ==
  ASSUME NEW T, Removes(T), NEW ns \in Seq(ConditionalEndorsementSeriesTriples)
  PROVE  Each(ns, DeleteConditionalEndorsementSeriesTriple) \in T
<1> DEFINE ss == [i \in DOMAIN ns |-> DeleteConditionalEndorsementSeriesTriple(ns[i])]
<1>1. \A i \in DOMAIN ns : ss[i] \in T
  BY SeriesTripleDeleted
<1>2. ss = [i \in DOMAIN ns |-> ss[i]]
  OBVIOUS
<1> HIDE DEF ss
<1>3. FlattenSeq(ss) \in T
  BY <1>1, <1>2, SliceIn DEF Removes
<1> QED BY <1>3 DEF Each, ss

LEMMA DomainEntryDeleted ==
  ASSUME NEW T, Removes(T), NEW n \in DomainEntries
  PROVE  DeleteDomainEntry(n) \in T
<1>1. Delete(n) \in T
  BY RowDeleted DEF DomainEntries
<1>2. DeleteIfOrphaned(n, TRUE) \in T
  BY DEF DeleteIfOrphaned, Removes, DomainEntries
<1> QED
  BY <1>1, <1>2 DEF DeleteDomainEntry, DomainEntries, Removes, Closed

LEMMA EachDomainEntryDeleted ==
  ASSUME NEW T, Removes(T), NEW ns \in Seq(DomainEntries)
  PROVE  Each(ns, DeleteDomainEntry) \in T
<1> DEFINE ss == [i \in DOMAIN ns |-> DeleteDomainEntry(ns[i])]
<1>1. \A i \in DOMAIN ns : ss[i] \in T
  BY DomainEntryDeleted
<1>2. ss = [i \in DOMAIN ns |-> ss[i]]
  OBVIOUS
<1> HIDE DEF ss
<1>3. FlattenSeq(ss) \in T
  BY <1>1, <1>2, SliceIn DEF Removes
<1> QED BY <1>3 DEF Each, ss

LEMMA MembershipTripleDeleted ==
  ASSUME NEW T, Removes(T), NEW n \in DomainMembershipTriples
  PROVE  DeleteDomainMembershipTriple(n) \in T
<1>1. Delete(n) \in T
  BY RowDeleted DEF DomainMembershipTriples
<1>2. DeleteIfOrphaned(n, TRUE) \in T
  BY DEF DeleteIfOrphaned, Removes, DomainMembershipTriples
<1> QED
  BY <1>1, <1>2, EachDomainEntryDeleted DEF DeleteDomainMembershipTriple, DomainMembershipTriples, Removes, Closed

LEMMA EachMembershipTripleDeleted ==
  ASSUME NEW T, Removes(T), NEW ns \in Seq(DomainMembershipTriples)
  PROVE  Each(ns, DeleteDomainMembershipTriple) \in T
<1> DEFINE ss == [i \in DOMAIN ns |-> DeleteDomainMembershipTriple(ns[i])]
<1>1. \A i \in DOMAIN ns : ss[i] \in T
  BY MembershipTripleDeleted
<1>2. ss = [i \in DOMAIN ns |-> ss[i]]
  OBVIOUS
<1> HIDE DEF ss
<1>3. FlattenSeq(ss) \in T
  BY <1>1, <1>2, SliceIn DEF Removes
<1> QED BY <1>3 DEF Each, ss

LEMMA DependencyTripleDeleted ==
  ASSUME NEW T, Removes(T), NEW n \in DomainDependencyTriples
  PROVE  DeleteDomainDependencyTriple(n) \in T
<1>1. Delete(n) \in T
  BY RowDeleted DEF DomainDependencyTriples
<1>2. DeleteIfOrphaned(n, TRUE) \in T
  BY DEF DeleteIfOrphaned, Removes, DomainDependencyTriples
<1> QED
  BY <1>1, <1>2, EachDomainEntryDeleted DEF DeleteDomainDependencyTriple, DomainDependencyTriples, Removes, Closed

LEMMA EachDependencyTripleDeleted ==
  ASSUME NEW T, Removes(T), NEW ns \in Seq(DomainDependencyTriples)
  PROVE  Each(ns, DeleteDomainDependencyTriple) \in T
<1> DEFINE ss == [i \in DOMAIN ns |-> DeleteDomainDependencyTriple(ns[i])]
<1>1. \A i \in DOMAIN ns : ss[i] \in T
  BY DependencyTripleDeleted
<1>2. ss = [i \in DOMAIN ns |-> ss[i]]
  OBVIOUS
<1> HIDE DEF ss
<1>3. FlattenSeq(ss) \in T
  BY <1>1, <1>2, SliceIn DEF Removes
<1> QED BY <1>3 DEF Each, ss

LEMMA ModuleTagDeleted ==
  ASSUME NEW T, Removes(T), NEW n \in ModuleTags
  PROVE  DeleteModuleTag(n) \in T
<1>1. Delete(n) \in T
  BY RowDeleted DEF ModuleTags
<1> QED
  BY <1>1, EachDeleted, AnyLeaf, EachSeriesTripleDeleted, EachConditionalTripleDeleted, EachDependencyTripleDeleted, EachMembershipTripleDeleted, EachEntityDeleted, EachKeyTripleDeleted, EachValueTripleDeleted DEF DeleteModuleTag, DeleteOwned, ModuleTags, Removes, Closed

LEMMA EachModuleTagDeleted ==
  ASSUME NEW T, Removes(T), NEW ns \in Seq(ModuleTags)
  PROVE  Each(ns, DeleteModuleTag) \in T
<1> DEFINE ss == [i \in DOMAIN ns |-> DeleteModuleTag(ns[i])]
<1>1. \A i \in DOMAIN ns : ss[i] \in T
  BY ModuleTagDeleted
<1>2. ss = [i \in DOMAIN ns |-> ss[i]]
  OBVIOUS
<1> HIDE DEF ss
<1>3. FlattenSeq(ss) \in T
  BY <1>1, <1>2, SliceIn DEF Removes
<1> QED BY <1>3 DEF Each, ss

LEMMA ManifestDeleted ==
  ASSUME NEW T, Removes(T), NEW n \in AnyManifests
  PROVE  DeleteManifest(n) \in T
<1>1. Delete(n) \in T
  BY RowDeleted DEF AnyManifests
<1> QED
  BY <1>1, EachDeleted, AnyLeaf, EachEntityDeleted, EachLocatorDeleted, EachModuleTagDeleted DEF DeleteManifest, AnyManifests, Removes, Closed

LEMMA TokenDeleted ==
  ASSUME NEW T, Removes(T), NEW n \in Tokens
  PROVE  DeleteToken(n) \in T
<1>1. Delete(n) \in T
  BY RowDeleted DEF Tokens
<1> QED
  BY <1>1, EachDeleted, AnyLeaf DEF DeleteToken, Tokens, Removes, Closed

-----------------------------------------------------------------------------
LEMMA EachInserted ==
  ASSUME NEW T, Adds(T), NEW ns \in Seq(AnyLeaves)
  PROVE  Each(ns, Insert) \in T
<1> DEFINE ss == [i \in DOMAIN ns |-> Insert(ns[i])]
<1>1. \A i \in DOMAIN ns : ss[i] \in T
  BY LeafInserted
<1>2. ss = [i \in DOMAIN ns |-> ss[i]]
  OBVIOUS
<1> HIDE DEF ss
<1>3. FlattenSeq(ss) \in T
  BY <1>1, <1>2, SliceIn DEF Adds
<1> QED BY <1>3 DEF Each, ss

LEMMA EntityInserted ==
  ASSUME NEW T, Adds(T), NEW n \in Entities
  PROVE  InsertEntity(n) \in T
<1>1. Insert(n) \in T
  BY RowInserted DEF Entities, Reached, AllTables
<1> QED
  BY <1>1, EachInserted, AnyLeaf DEF InsertEntity, Entities, Adds, Closed

LEMMA EachEntityInserted ==
  ASSUME NEW T, Adds(T), NEW ns \in Seq(Entities)
  PROVE  Each(ns, InsertEntity) \in T
<1> DEFINE ss == [i \in DOMAIN ns |-> InsertEntity(ns[i])]
<1>1. \A i \in DOMAIN ns : ss[i] \in T
  BY EntityInserted
<1>2. ss = [i \in DOMAIN ns |-> ss[i]]
  OBVIOUS
<1> HIDE DEF ss
<1>3. FlattenSeq(ss) \in T
  BY <1>1, <1>2, SliceIn DEF Adds
<1> QED BY <1>3 DEF Each, ss

LEMMA LocatorInserted ==
  ASSUME NEW T, Adds(T), NEW n \in Locators
  PROVE  InsertLocator(n) \in T
<1>1. Insert(n) \in T
  BY RowInserted DEF Locators, Reached, AllTables
<1> QED
  BY <1>1, EachInserted, AnyLeaf DEF InsertLocator, Locators, Adds, Closed

LEMMA EachLocatorInserted ==
  ASSUME NEW T, Adds(T), NEW ns \in Seq(Locators)
  PROVE  Each(ns, InsertLocator) \in T
<1> DEFINE ss == [i \in DOMAIN ns |-> InsertLocator(ns[i])]
<1>1. \A i \in DOMAIN ns : ss[i] \in T
  BY LocatorInserted
<1>2. ss = [i \in DOMAIN ns |-> ss[i]]
  OBVIOUS
<1> HIDE DEF ss
<1>3. FlattenSeq(ss) \in T
  BY <1>1, <1>2, SliceIn DEF Adds
<1> QED BY <1>3 DEF Each, ss

LEMMA IntegrityRegisterInserted ==
  ASSUME NEW T, Adds(T), NEW n \in IntegrityRegisters
  PROVE  InsertIntegrityRegister(n) \in T
<1>1. Insert(n) \in T
  BY RowInserted DEF IntegrityRegisters, Reached, AllTables
<1> QED
  BY <1>1, EachInserted, AnyLeaf DEF InsertIntegrityRegister, IntegrityRegisters, Adds, Closed

LEMMA EachIntegrityRegisterInserted ==
  ASSUME NEW T, Adds(T), NEW ns \in Seq(IntegrityRegisters)
  PROVE  Each(ns, InsertIntegrityRegister) \in T
<1> DEFINE ss == [i \in DOMAIN ns |-> InsertIntegrityRegister(ns[i])]
<1>1. \A i \in DOMAIN ns : ss[i] \in T
  BY IntegrityRegisterInserted
<1>2. ss = [i \in DOMAIN ns |-> ss[i]]
  OBVIOUS
<1> HIDE DEF ss
<1>3. FlattenSeq(ss) \in T
  BY <1>1, <1>2, SliceIn DEF Adds
<1> QED BY <1>3 DEF Each, ss

LEMMA MeasurementInserted ==
  ASSUME NEW T, Adds(T), NEW n \in Measurements
  PROVE  InsertMeasurement(n) \in T
<1>1. Insert(n) \in T
  BY RowInserted DEF Measurements, Reached, AllTables
<1> QED
  BY <1>1, EachInserted, AnyLeaf, EachIntegrityRegisterInserted DEF InsertMeasurement, Measurements, Adds, Closed

LEMMA EachMeasurementInserted ==
  ASSUME NEW T, Adds(T), NEW ns \in Seq(Measurements)
  PROVE  Each(ns, InsertMeasurement) \in T
<1> DEFINE ss == [i \in DOMAIN ns |-> InsertMeasurement(ns[i])]
<1>1. \A i \in DOMAIN ns : ss[i] \in T
  BY MeasurementInserted
<1>2. ss = [i \in DOMAIN ns |-> ss[i]]
  OBVIOUS
<1> HIDE DEF ss
<1>3. FlattenSeq(ss) \in T
  BY <1>1, <1>2, SliceIn DEF Adds
<1> QED BY <1>3 DEF Each, ss

LEMMA KeyTripleInserted ==
  ASSUME NEW T, Adds(T), NEW n \in KeyTriples
  PROVE  InsertKeyTriple(n) \in T
<1>1. FindEnv(n) \o Insert(n) \in T
  BY OwnerTables, RowWithEnv DEF KeyTriples
<1> QED
  BY <1>1, EachInserted, AnyLeaf DEF InsertKeyTriple, KeyTriples, Adds, Closed

LEMMA EachKeyTripleInserted ==
  ASSUME NEW T, Adds(T), NEW ns \in Seq(KeyTriples)
  PROVE  Each(ns, InsertKeyTriple) \in T
<1> DEFINE ss == [i \in DOMAIN ns |-> InsertKeyTriple(ns[i])]
<1>1. \A i \in DOMAIN ns : ss[i] \in T
  BY KeyTripleInserted
<1>2. ss = [i \in DOMAIN ns |-> ss[i]]
  OBVIOUS
<1> HIDE DEF ss
<1>3. FlattenSeq(ss) \in T
  BY <1>1, <1>2, SliceIn DEF Adds
<1> QED BY <1>3 DEF Each, ss

LEMMA ValueTripleInserted ==
  ASSUME NEW T, Adds(T), NEW n \in ValueTriples
  PROVE  InsertValueTriple(n) \in T
<1>1. FindEnv(n) \o Insert(n) \in T
  BY OwnerTables, RowWithEnv DEF ValueTriples
<1> QED
  BY <1>1, EachMeasurementInserted DEF InsertValueTriple, ValueTriples, Adds, Closed

LEMMA EachValueTripleInserted ==
  ASSUME NEW T, Adds(T), NEW ns \in Seq(ValueTriples)
  PROVE  Each(ns, InsertValueTriple) \in T
<1> DEFINE ss == [i \in DOMAIN ns |-> InsertValueTriple(ns[i])]
<1>1. \A i \in DOMAIN ns : ss[i] \in T
  BY ValueTripleInserted
<1>2. ss = [i \in DOMAIN ns |-> ss[i]]
  OBVIOUS
<1> HIDE DEF ss
<1>3. FlattenSeq(ss) \in T
  BY <1>1, <1>2, SliceIn DEF Adds
<1> QED BY <1>3 DEF Each, ss

LEMMA StatefulEnvironmentInserted ==
  ASSUME NEW T, Adds(T), NEW n \in StatefulEnvironments
  PROVE  InsertStatefulEnvironment(n) \in T
<1>1. FindEnv(n) \o Insert(n) \in T
  BY OwnerTables, RowWithEnv DEF StatefulEnvironments
<1> QED
  BY <1>1, EachMeasurementInserted DEF InsertStatefulEnvironment, StatefulEnvironments, Adds, Closed

LEMMA EachStatefulEnvironmentInserted ==
  ASSUME NEW T, Adds(T), NEW ns \in Seq(StatefulEnvironments)
  PROVE  Each(ns, InsertStatefulEnvironment) \in T
<1> DEFINE ss == [i \in DOMAIN ns |-> InsertStatefulEnvironment(ns[i])]
<1>1. \A i \in DOMAIN ns : ss[i] \in T
  BY StatefulEnvironmentInserted
<1>2. ss = [i \in DOMAIN ns |-> ss[i]]
  OBVIOUS
<1> HIDE DEF ss
<1>3. FlattenSeq(ss) \in T
  BY <1>1, <1>2, SliceIn DEF Adds
<1> QED BY <1>3 DEF Each, ss

LEMMA ConditionalTripleInserted ==
  ASSUME NEW T, Adds(T), NEW n \in ConditionalEndorsementTriples
  PROVE  InsertConditionalEndorsementTriple(n) \in T
<1>1. Insert(n) \in T
  BY RowInserted DEF ConditionalEndorsementTriples, Reached, AllTables
<1> QED
  BY <1>1, EachStatefulEnvironmentInserted, EachValueTripleInserted DEF InsertConditionalEndorsementTriple, ConditionalEndorsementTriples, Adds, Closed

LEMMA EachConditionalTripleInserted ==
  ASSUME NEW T, Adds(T), NEW ns \in Seq(ConditionalEndorsementTriples)
  PROVE  Each(ns, InsertConditionalEndorsementTriple) \in T
<1> DEFINE ss == [i \in DOMAIN ns |-> InsertConditionalEndorsementTriple(ns[i])]
<1>1. \A i \in DOMAIN ns : ss[i] \in T
  BY ConditionalTripleInserted
<1>2. ss = [i \in DOMAIN ns |-> ss[i]]
  OBVIOUS
<1> HIDE DEF ss
<1>3. FlattenSeq(ss) \in T
  BY <1>1, <1>2, SliceIn DEF Adds
<1> QED BY <1>3 DEF Each, ss

LEMMA SeriesRecordInserted ==
  ASSUME NEW T, Adds(T), NEW n \in ConditionalEndorsementSeriesRecords
  PROVE  InsertConditionalEndorsementSeriesRecord(n) \in T
<1>1. Insert(n) \in T
  BY RowInserted DEF ConditionalEndorsementSeriesRecords, AllTables, Forgotten
<1> QED
  BY <1>1, EachMeasurementInserted DEF InsertConditionalEndorsementSeriesRecord, ConditionalEndorsementSeriesRecords, Adds, Closed

LEMMA EachSeriesRecordInserted ==
  ASSUME NEW T, Adds(T), NEW ns \in Seq(ConditionalEndorsementSeriesRecords)
  PROVE  Each(ns, InsertConditionalEndorsementSeriesRecord) \in T
<1> DEFINE ss == [i \in DOMAIN ns |-> InsertConditionalEndorsementSeriesRecord(ns[i])]
<1>1. \A i \in DOMAIN ns : ss[i] \in T
  BY SeriesRecordInserted
<1>2. ss = [i \in DOMAIN ns |-> ss[i]]
  OBVIOUS
<1> HIDE DEF ss
<1>3. FlattenSeq(ss) \in T
  BY <1>1, <1>2, SliceIn DEF Adds
<1> QED BY <1>3 DEF Each, ss

LEMMA SeriesTripleInserted ==
  ASSUME NEW T, Adds(T), NEW n \in ConditionalEndorsementSeriesTriples
  PROVE  InsertConditionalEndorsementSeriesTriple(n) \in T
<1>1. FindEnv(n) \o Insert(n) \in T
  BY OwnerTables, RowWithEnv DEF ConditionalEndorsementSeriesTriples
<1> QED
  BY <1>1, EachInserted, AnyLeaf, EachSeriesRecordInserted, EachMeasurementInserted DEF InsertConditionalEndorsementSeriesTriple, ConditionalEndorsementSeriesTriples, Adds, Closed

LEMMA EachSeriesTripleInserted ==
  ASSUME NEW T, Adds(T), NEW ns \in Seq(ConditionalEndorsementSeriesTriples)
  PROVE  Each(ns, InsertConditionalEndorsementSeriesTriple) \in T
<1> DEFINE ss == [i \in DOMAIN ns |-> InsertConditionalEndorsementSeriesTriple(ns[i])]
<1>1. \A i \in DOMAIN ns : ss[i] \in T
  BY SeriesTripleInserted
<1>2. ss = [i \in DOMAIN ns |-> ss[i]]
  OBVIOUS
<1> HIDE DEF ss
<1>3. FlattenSeq(ss) \in T
  BY <1>1, <1>2, SliceIn DEF Adds
<1> QED BY <1>3 DEF Each, ss

LEMMA DomainEntryInserted ==
  ASSUME NEW T, Adds(T), NEW n \in DomainEntries
  PROVE  InsertDomainEntry(n) \in T
<1>1. FindEnv(n) \o Insert(n) \in T
  BY OwnerTables, RowWithEnv DEF DomainEntries
<1> QED
  BY <1>1 DEF InsertDomainEntry, DomainEntries, Adds, Closed

LEMMA EachDomainEntryInserted ==
  ASSUME NEW T, Adds(T), NEW ns \in Seq(DomainEntries)
  PROVE  Each(ns, InsertDomainEntry) \in T
<1> DEFINE ss == [i \in DOMAIN ns |-> InsertDomainEntry(ns[i])]
<1>1. \A i \in DOMAIN ns : ss[i] \in T
  BY DomainEntryInserted
<1>2. ss = [i \in DOMAIN ns |-> ss[i]]
  OBVIOUS
<1> HIDE DEF ss
<1>3. FlattenSeq(ss) \in T
  BY <1>1, <1>2, SliceIn DEF Adds
<1> QED BY <1>3 DEF Each, ss

LEMMA MembershipTripleInserted ==
  ASSUME NEW T, Adds(T), NEW n \in DomainMembershipTriples
  PROVE  InsertDomainMembershipTriple(n) \in T
<1>1. FindEnv(n) \o Insert(n) \in T
  BY OwnerTables, RowWithEnv DEF DomainMembershipTriples
<1> QED
  BY <1>1, EachDomainEntryInserted DEF InsertDomainMembershipTriple, DomainMembershipTriples, Adds, Closed

LEMMA EachMembershipTripleInserted ==
  ASSUME NEW T, Adds(T), NEW ns \in Seq(DomainMembershipTriples)
  PROVE  Each(ns, InsertDomainMembershipTriple) \in T
<1> DEFINE ss == [i \in DOMAIN ns |-> InsertDomainMembershipTriple(ns[i])]
<1>1. \A i \in DOMAIN ns : ss[i] \in T
  BY MembershipTripleInserted
<1>2. ss = [i \in DOMAIN ns |-> ss[i]]
  OBVIOUS
<1> HIDE DEF ss
<1>3. FlattenSeq(ss) \in T
  BY <1>1, <1>2, SliceIn DEF Adds
<1> QED BY <1>3 DEF Each, ss

LEMMA DependencyTripleInserted ==
  ASSUME NEW T, Adds(T), NEW n \in DomainDependencyTriples
  PROVE  InsertDomainDependencyTriple(n) \in T
<1>1. FindEnv(n) \o Insert(n) \in T
  BY OwnerTables, RowWithEnv DEF DomainDependencyTriples
<1> QED
  BY <1>1, EachDomainEntryInserted DEF InsertDomainDependencyTriple, DomainDependencyTriples, Adds, Closed

LEMMA EachDependencyTripleInserted ==
  ASSUME NEW T, Adds(T), NEW ns \in Seq(DomainDependencyTriples)
  PROVE  Each(ns, InsertDomainDependencyTriple) \in T
<1> DEFINE ss == [i \in DOMAIN ns |-> InsertDomainDependencyTriple(ns[i])]
<1>1. \A i \in DOMAIN ns : ss[i] \in T
  BY DependencyTripleInserted
<1>2. ss = [i \in DOMAIN ns |-> ss[i]]
  OBVIOUS
<1> HIDE DEF ss
<1>3. FlattenSeq(ss) \in T
  BY <1>1, <1>2, SliceIn DEF Adds
<1> QED BY <1>3 DEF Each, ss

LEMMA ModuleTagInserted ==
  ASSUME NEW T, Adds(T), NEW n \in ModuleTags
  PROVE  InsertModuleTag(n) \in T
<1>1. Insert(n) \in T
  BY RowInserted DEF ModuleTags, Reached, AllTables
<1> QED
  BY <1>1, EachInserted, AnyLeaf, EachSeriesTripleInserted, EachConditionalTripleInserted, EachDependencyTripleInserted, EachMembershipTripleInserted, EachEntityInserted, EachKeyTripleInserted, EachValueTripleInserted DEF InsertModuleTag, ModuleTags, Adds, Closed

LEMMA EachModuleTagInserted ==
  ASSUME NEW T, Adds(T), NEW ns \in Seq(ModuleTags)
  PROVE  Each(ns, InsertModuleTag) \in T
<1> DEFINE ss == [i \in DOMAIN ns |-> InsertModuleTag(ns[i])]
<1>1. \A i \in DOMAIN ns : ss[i] \in T
  BY ModuleTagInserted
<1>2. ss = [i \in DOMAIN ns |-> ss[i]]
  OBVIOUS
<1> HIDE DEF ss
<1>3. FlattenSeq(ss) \in T
  BY <1>1, <1>2, SliceIn DEF Adds
<1> QED BY <1>3 DEF Each, ss

LEMMA ManifestInserted ==
  ASSUME NEW T, Adds(T), NEW n \in Manifests
  PROVE  InsertManifest(n) \in T
<1>1. Insert(n) \in T
  BY RowInserted DEF Manifests, Reached, AllTables
<1> QED
  BY <1>1, EachInserted, AnyLeaf, EachEntityInserted, EachLocatorInserted, EachModuleTagInserted DEF InsertManifest, Manifests, Adds, Closed

LEMMA TokenInserted ==
  ASSUME NEW T, Adds(T), NEW n \in Tokens
  PROVE  InsertToken(n) \in T
<1>1. Insert(n) \in T
  BY RowInserted DEF Tokens, Reached, AllTables
<1> QED
  BY <1>1, EachInserted, AnyLeaf DEF InsertToken, Tokens, Adds, Closed
-----------------------------------------------------------------------------
OwnerTable == ToSet(environmentOwners)

\* The statements that add the rows K, that remove rows, and the rest of an add.
Additions(K) ==
  [do : {"insert"}, key : K, tbl : AllTables, hasEnv : {FALSE}]
  \cup [do : {"insert"}, key : K, tbl : OwnerTable, hasEnv : {TRUE}]
  \cup [do : {"findEnv"}, env : Envs]
Removals ==
  [do : {"delete"}, key : RowKeys] \cup [do : {"owners"}, key : RowKeys, checked : BOOLEAN]

LEMMA AdditionsAdd == Adds(Seq(Additions(RowKeys)))
<1> DEFINE A == Additions(RowKeys)
<1>1. \A k \in RowKeys, t \in AllTables : [do |-> "insert", key |-> k, tbl |-> t, hasEnv |-> FALSE] \in A
  BY DEF Additions
<1>2. \A k \in RowKeys, t \in OwnerTable : [do |-> "insert", key |-> k, tbl |-> t, hasEnv |-> TRUE] \in A
  BY DEF Additions
<1>3. \A e \in Envs : [do |-> "findEnv", env |-> e] \in A
  BY DEF Additions
<1> HIDE DEF A
<1>4. \A s \in A : <<s>> \in Seq(A)
  OBVIOUS
<1>5. Adds(Seq(A))
  BY <1>1, <1>2, <1>3, <1>4, SeqClosed DEF Adds, OwnerTable, Closed
<1> QED BY <1>5 DEF A

IsPair(q, s, t) == q = <<s>> \o <<t>>

LEMMA TwoStatements ==
  ASSUME NEW S, NEW s \in S, NEW t \in S, NEW q, IsPair(q, s, t)
  PROVE  q \in Seq(S) /\ DOMAIN q = {1, 2} /\ q[1] = s /\ q[2] = t
<1>1. PICK x \in Seq(S), y \in Seq(S) :
        x = <<s>> /\ y = <<t>> /\ Len(x) = 1 /\ Len(y) = 1 /\ x[1] = s /\ y[1] = t
  <2>1. /\ <<s>> \in Seq(S) /\ Len(<<s>>) = 1 /\ <<s>>[1] = s
        /\ <<t>> \in Seq(S) /\ Len(<<t>>) = 1 /\ <<t>>[1] = t
    OBVIOUS
  <2> QED BY <2>1, Zenon
<1>2. x \o y \in Seq(S) /\ DOMAIN (x \o y) = 1..2 /\ (x \o y)[1] = s /\ (x \o y)[2] = t
  BY <1>1
<1>3. 1..2 = {1, 2}
  OBVIOUS
<1>4. q = x \o y
  BY <1>1 DEF IsPair
<1> QED BY <1>2, <1>3, <1>4, Zenon

\* An environment is looked for right before the row that refers to it is inserted.
Paired(p) ==
  \A i \in DOMAIN p : p[i].do = "findEnv" =>
    i + 1 \in DOMAIN p /\ p[i + 1].do = "insert" /\ p[i + 1].hasEnv

LEMMA PairedJoin ==
  ASSUME NEW S, NEW p \in Seq(S), NEW q \in Seq(S), Paired(p), Paired(q)
  PROVE  Paired(p \o q)
<1> SUFFICES ASSUME NEW i \in DOMAIN (p \o q), (p \o q)[i].do = "findEnv"
             PROVE  /\ i + 1 \in DOMAIN (p \o q)
                    /\ (p \o q)[i + 1].do = "insert" /\ (p \o q)[i + 1].hasEnv
  BY DEF Paired
<1>1. CASE i <= Len(p)
  <2>1. i \in DOMAIN p /\ (p \o q)[i] = p[i]
    BY <1>1
  <2>2. i + 1 \in DOMAIN p /\ p[i + 1].do = "insert" /\ p[i + 1].hasEnv
    BY <2>1 DEF Paired
  <2>3. i + 1 \in DOMAIN (p \o q) /\ (p \o q)[i + 1] = p[i + 1]
    BY <2>2
  <2> QED BY <2>2, <2>3
<1>2. CASE i > Len(p)
  <2>1. PICK j \in DOMAIN q : j = i - Len(p) /\ (p \o q)[i] = q[j]
    BY <1>2
  <2>2. j + 1 \in DOMAIN q /\ q[j + 1].do = "insert" /\ q[j + 1].hasEnv
    BY <2>1 DEF Paired
  <2>3. i + 1 \in DOMAIN (p \o q) /\ (p \o q)[i + 1] = q[j + 1]
    BY <1>2, <2>1, <2>2
  <2> QED BY <2>2, <2>3
<1> QED BY <1>1, <1>2

LEMMA PairedAdds == Adds({p \in Seq(Additions(RowKeys)) : Paired(p)})
<1> DEFINE A == Additions(RowKeys)
           T == {p \in Seq(A) : Paired(p)}
<1>1. \A k \in RowKeys, t \in AllTables : [do |-> "insert", key |-> k, tbl |-> t, hasEnv |-> FALSE] \in A
  BY DEF Additions
<1>2. \A k \in RowKeys, t \in OwnerTable : [do |-> "insert", key |-> k, tbl |-> t, hasEnv |-> TRUE] \in A
  BY DEF Additions
<1>3. \A e \in Envs : [do |-> "findEnv", env |-> e] \in A
  BY DEF Additions
<1> HIDE DEF A
<1>4. Closed(T)
  <2>1. <<>> \in T
    BY DEF Paired
  <2>2. \A p, q \in T : p \o q \in T
    BY PairedJoin
  <2> QED BY <2>1, <2>2 DEF Closed
<1>5. ASSUME NEW k \in RowKeys, NEW t \in AllTables
      PROVE  <<[do |-> "insert", key |-> k, tbl |-> t, hasEnv |-> FALSE]>> \in T
  BY <1>1 DEF Paired
<1>6. ASSUME NEW k \in RowKeys, NEW t \in OwnerTable, NEW e \in Envs
      PROVE  <<[do |-> "findEnv", env |-> e]>>
             \o <<[do |-> "insert", key |-> k, tbl |-> t, hasEnv |-> TRUE]>> \in T
  <2>1. PICK a \in A, b \in A : /\ a = [do |-> "findEnv", env |-> e]
                               /\ b = [do |-> "insert", key |-> k, tbl |-> t, hasEnv |-> TRUE]
    BY <1>2, <1>3
  <2>2. PICK q : q = <<a>> \o <<b>> /\ IsPair(q, a, b)
    BY DEF IsPair
  <2>3. q \in Seq(A) /\ DOMAIN q = {1, 2} /\ q[1] = a /\ q[2] = b
    BY <2>2, TwoStatements
  <2>4. Paired(q)
    BY <2>1, <2>3 DEF Paired
  <2> QED BY <2>1, <2>2, <2>3, <2>4
<1> HIDE DEF T
<1>7. Adds(T)
  BY <1>4, <1>5, <1>6 DEF Adds, OwnerTable
<1> QED BY <1>7 DEF A, T

LEMMA RemovalsRemove == Removes(Seq(Removals))
<1>1. \A k \in RowKeys : [do |-> "delete", key |-> k] \in Removals
  BY DEF Removals
<1>2. \A k \in RowKeys, b \in BOOLEAN : [do |-> "owners", key |-> k, checked |-> b] \in Removals
  BY DEF Removals
<1> HIDE DEF Removals
<1>3. \A s \in Removals : <<s>> \in Seq(Removals)
  OBVIOUS
<1> QED BY <1>1, <1>2, <1>3, SeqClosed DEF Removes
-----------------------------------------------------------------------------
(* What a program deletes, and in which order *)

\* The i-th statement of p does w to the row k.
Does(p, i, w, k) == i \in DOMAIN p /\ p[i].do = w /\ p[i].key = k

LEMMA DoesJoin ==
  ASSUME NEW S, NEW p \in Seq(S), NEW q \in Seq(S), NEW w, NEW k
  PROVE  /\ \A i : Does(p, i, w, k) => Does(p \o q, i, w, k)
         /\ \A i : Does(q, i, w, k) => Len(p) + i \in Nat /\ Does(p \o q, Len(p) + i, w, k)
         /\ \A i : Does(p \o q, i, w, k) =>
              \/ Does(p, i, w, k)
              \/ i - Len(p) \in Nat /\ Does(q, i - Len(p), w, k)
<1>1. /\ DOMAIN (p \o q) = 1..(Len(p) + Len(q)) /\ DOMAIN p = 1..Len(p) /\ DOMAIN q = 1..Len(q)
      /\ Len(p) \in Nat /\ Len(q) \in Nat
  OBVIOUS
<1>2. \A i \in 1..Len(p) : i \in 1..(Len(p) + Len(q)) /\ (p \o q)[i] = p[i]
  OBVIOUS
<1>3. \A i \in 1..Len(q) : /\ Len(p) + i \in 1..(Len(p) + Len(q))
                          /\ (p \o q)[Len(p) + i] = q[i]
  OBVIOUS
<1>4. ASSUME NEW i \in 1..(Len(p) + Len(q)), i \notin 1..Len(p)
      PROVE  i - Len(p) \in 1..Len(q) /\ (p \o q)[i] = q[i - Len(p)]
  <2>1. i - Len(p) \in 1..Len(q) /\ Len(p) + (i - Len(p)) = i
    BY <1>1, <1>4
  <2> QED BY <1>3, <2>1
<1> QED BY <1>1, <1>2, <1>3, <1>4 DEF Does

LEMMA DeletedDoes ==
  ASSUME NEW p, NEW k
  PROVE  k \in Deleted(p) <=> \E i : Does(p, i, "delete", k)
BY DEF Deleted, Does, ToSet

LEMMA InsertedDoes ==
  ASSUME NEW p, NEW k
  PROVE  k \in Inserted(p) <=> \E i : Does(p, i, "insert", k)
BY DEF Inserted, Does, ToSet

LEMMA NumbersOf ==
  ASSUME NEW S, NEW p \in Seq(S), NEW i, NEW w, NEW k, Does(p, i, w, k)
  PROVE  i \in Nat /\ i <= Len(p) /\ 1 <= i /\ Len(p) \in Nat
BY DEF Does

LEMMA DeletedJoin ==
  ASSUME NEW S, NEW p \in Seq(S), NEW q \in Seq(S)
  PROVE  Deleted(p \o q) = Deleted(p) \cup Deleted(q)
<1>1. ToSet(p \o q) = ToSet(p) \cup ToSet(q)
  BY ToSetJoin
<1> QED BY <1>1 DEF Deleted

LEMMA InsertedJoin ==
  ASSUME NEW S, NEW p \in Seq(S), NEW q \in Seq(S)
  PROVE  Inserted(p \o q) = Inserted(p) \cup Inserted(q)
<1>1. ToSet(p \o q) = ToSet(p) \cup ToSet(q)
  BY ToSetJoin
<1> QED BY <1>1 DEF Inserted
-----------------------------------------------------------------------------
\* A line is a row with the rows above it, through which it is found.
Along(S, I) == S \subseteq [row : I, over : SUBSET I]
Standing(S, K) == {s \in S : s.row \in K /\ s.over \subseteq K}

\* Of the rows K, the program p deletes those that are found along the lines S, each
\* before the rows above it; after a row of E it looks at the owners.
RowsIn(S) == {s.row : s \in S}
UpTheLines(p, S) ==
  \A s \in S : \A a \in s.over : \A i :
    Does(p, i, "delete", a) => \E j \in Nat : j < i /\ Does(p, j, "delete", s.row)
LooksAfter(p, E) ==
  \A k \in E : \A i : Does(p, i, "delete", k) => \E j \in Nat : i < j /\ Does(p, j, "owners", k)
Sweeps(p, S, E, K) ==
  /\ p \in Seq(Removals)
  /\ Deleted(p) = RowsIn(Standing(S, K))
  /\ UpTheLines(p, Standing(S, K))
  /\ LooksAfter(p, E)

LEMMA SweepRows ==
  ASSUME NEW p, NEW I, NEW S, Along(S, I), NEW E, NEW K, Sweeps(p, S, E, K)
  PROVE  /\ p \in Seq(Removals) /\ Deleted(p) \subseteq I
         /\ \A s \in S : s \in Standing(S, K) => s.row \in Deleted(p)
BY DEF Sweeps, Along, Standing, RowsIn

LEMMA SweepJoin ==
  ASSUME NEW K, NEW I, NEW J, I \cap J = {},
         NEW p, NEW S, Along(S, I), NEW E \in SUBSET I, Sweeps(p, S, E, K),
         NEW q, NEW T, Along(T, J), NEW F \in SUBSET J, Sweeps(q, T, F, K)
  PROVE  Sweeps(p \o q, S \cup T, E \cup F, K)
<1>1. /\ p \in Seq(Removals) /\ Deleted(p) \subseteq I
      /\ q \in Seq(Removals) /\ Deleted(q) \subseteq J
  BY SweepRows
<1>2. PICK r \in Seq(Removals) : r = p \o q
  <2>1. p \o q \in Seq(Removals)
    BY <1>1
  <2> QED BY <2>1, Zenon
<1>3. Deleted(r) = Deleted(p) \cup Deleted(q)
  BY <1>1, <1>2, DeletedJoin
<1>4. Deleted(r) = RowsIn(Standing(S \cup T, K))
  <2>1. Deleted(p) = RowsIn(Standing(S, K)) /\ Deleted(q) = RowsIn(Standing(T, K))
    BY DEF Sweeps
  <2>2. RowsIn(Standing(S \cup T, K)) = RowsIn(Standing(S, K)) \cup RowsIn(Standing(T, K))
    BY DEF Standing, RowsIn
  <2> QED BY <1>3, <2>1, <2>2
<1>5. ASSUME NEW k, NEW w
      PROVE  /\ \A i : Does(p, i, w, k) => Does(r, i, w, k)
             /\ \A i : Does(q, i, w, k) => Len(p) + i \in Nat /\ Does(r, Len(p) + i, w, k)
             /\ \A i : Does(r, i, w, k) =>
                  \/ Does(p, i, w, k)
                  \/ i - Len(p) \in Nat /\ Does(q, i - Len(p), w, k)
  BY <1>1, <1>2, DoesJoin
<1>6. Len(p) \in Nat
  BY <1>1
<1>7. ASSUME NEW k, NEW i, Does(r, i, "delete", k)
      PROVE  /\ k \in I => Does(p, i, "delete", k)
             /\ k \in J => i - Len(p) \in Nat /\ Does(q, i - Len(p), "delete", k)
             /\ i \in Nat
  <2>1. Does(p, i, "delete", k) => k \in Deleted(p)
    BY DeletedDoes
  <2>2. \A j : Does(q, j, "delete", k) => k \in Deleted(q)
    BY DeletedDoes
  <2>3. i \in Nat
    BY <1>2, <1>7, NumbersOf
  <2> QED BY <1>1, <1>5, <1>7, <2>1, <2>2, <2>3
<1>8. ASSUME NEW s \in Standing(S \cup T, K), NEW a \in s.over, NEW i, Does(r, i, "delete", a)
      PROVE  \E j \in Nat : j < i /\ Does(r, j, "delete", s.row)
  <2>1. CASE s \in S
    <3>1. s \in Standing(S, K) /\ a \in I
      BY <2>1 DEF Standing, Along
    <3>2. Does(p, i, "delete", a)
      BY <1>7, <1>8, <3>1
    <3> QED BY <1>5, <3>1, <3>2 DEF Sweeps, UpTheLines
  <2>2. CASE s \in T
    <3>1. s \in Standing(T, K) /\ a \in J
      BY <2>2 DEF Standing, Along
    <3>2. i - Len(p) \in Nat /\ Does(q, i - Len(p), "delete", a) /\ i \in Nat
      BY <1>7, <1>8, <3>1
    <3>3. PICK j \in Nat : j < i - Len(p) /\ Does(q, j, "delete", s.row)
      BY <3>1, <3>2 DEF Sweeps, UpTheLines
    <3>4. Len(p) + j \in Nat /\ Does(r, Len(p) + j, "delete", s.row) /\ Len(p) + j < i
      BY <1>5, <1>6, <3>2, <3>3
    <3> QED BY <3>4
  <2> QED BY <2>1, <2>2 DEF Standing
<1>9. ASSUME NEW k \in E \cup F, NEW i, Does(r, i, "delete", k)
      PROVE  \E j \in Nat : i < j /\ Does(r, j, "owners", k)
  <2>1. CASE k \in E
    <3>2. Does(p, i, "delete", k)
      BY <1>7, <1>9, <2>1
    <3>3. PICK j \in Nat : i < j /\ Does(p, j, "owners", k)
      BY <2>1, <3>2 DEF Sweeps, LooksAfter
    <3>4. Does(r, j, "owners", k)
      BY <1>5, <3>3
    <3> QED BY <3>3, <3>4
  <2>2. CASE k \in F
    <3>2. i - Len(p) \in Nat /\ Does(q, i - Len(p), "delete", k) /\ i \in Nat
      BY <1>7, <1>9, <2>2
    <3>1. PICK m \in Nat : m = i - Len(p)
      BY <3>2
    <3>3. PICK j \in Nat : m < j /\ Does(q, j, "owners", k)
      BY <2>2, <3>1, <3>2 DEF Sweeps, LooksAfter
    <3>4. Len(p) + j \in Nat /\ Does(r, Len(p) + j, "owners", k) /\ i < Len(p) + j
      BY <1>5, <1>6, <3>1, <3>2, <3>3
    <3> QED BY <3>4
  <2> QED BY <2>1, <2>2
<1>10. Sweeps(r, S \cup T, E \cup F, K)
  <2>1. UpTheLines(r, Standing(S \cup T, K))
    BY <1>8 DEF UpTheLines
  <2>2. LooksAfter(r, E \cup F)
    BY <1>9 DEF LooksAfter
  <2> QED BY <1>4, <2>1, <2>2 DEF Sweeps
<1> QED BY <1>2, <1>10
-----------------------------------------------------------------------------
\* Those of the rows a program inserts that refer to an environment.
WithEnv(p) == {s.key : s \in {x \in ToSet(p) : x.do = "insert" /\ x.hasEnv}}

LEMMA OnceDoes ==
  ASSUME NEW p
  PROVE  InsertsOnce(p) <=> \A i, j, k : Does(p, i, "insert", k) /\ Does(p, j, "insert", k) => i = j
BY DEF InsertsOnce, Does

LEMMA OnceJoin ==
  ASSUME NEW S, NEW p \in Seq(S), NEW q \in Seq(S)
  PROVE  InsertsOnce(p \o q) <=>
           InsertsOnce(p) /\ InsertsOnce(q) /\ Inserted(p) \cap Inserted(q) = {}
<1>1. PICK r \in Seq(S) : r = p \o q
  <2>1. p \o q \in Seq(S)
    OBVIOUS
  <2> QED BY <2>1, Zenon
<1>2. ASSUME NEW k
      PROVE  /\ \A i : Does(p, i, "insert", k) => Does(r, i, "insert", k)
             /\ \A i : Does(q, i, "insert", k) => Len(p) + i \in Nat /\ Does(r, Len(p) + i, "insert", k)
             /\ \A i : Does(r, i, "insert", k) =>
                  \/ Does(p, i, "insert", k)
                  \/ i - Len(p) \in Nat /\ Does(q, i - Len(p), "insert", k)
  BY <1>1, DoesJoin
<1>3. Len(p) \in Nat
  OBVIOUS
<1>4. ASSUME NEW k, NEW i
      PROVE  /\ Does(p, i, "insert", k) => i \in Nat /\ i <= Len(p) /\ 1 <= i /\ k \in Inserted(p)
             /\ Does(q, i, "insert", k) => i \in Nat /\ 1 <= i /\ k \in Inserted(q)
             /\ Does(r, i, "insert", k) => i \in Nat
  BY NumbersOf, InsertedDoes
<1>5. ASSUME InsertsOnce(r)
      PROVE  InsertsOnce(p) /\ InsertsOnce(q) /\ Inserted(p) \cap Inserted(q) = {}
  <2>1. \A i, j, k : Does(r, i, "insert", k) /\ Does(r, j, "insert", k) => i = j
    BY <1>5, OnceDoes
  <2>2. InsertsOnce(p)
    BY <1>2, <2>1, OnceDoes
  <2>3. ASSUME NEW i, NEW j, NEW k, Does(q, i, "insert", k), Does(q, j, "insert", k) PROVE i = j
    <3>1. Len(p) + i = Len(p) + j
      BY <1>2, <2>1, <2>3
    <3> QED BY <1>3, <1>4, <2>3, <3>1
  <2>4. ASSUME NEW k \in Inserted(p), k \in Inserted(q) PROVE FALSE
    <3>1. PICK i : Does(p, i, "insert", k)
      BY InsertedDoes
    <3>2. PICK j : Does(q, j, "insert", k)
      BY <2>4, InsertedDoes
    <3>3. i = Len(p) + j
      BY <1>2, <2>1, <3>1, <3>2
    <3> QED BY <1>3, <1>4, <3>1, <3>2, <3>3
  <2> QED BY <2>2, <2>3, <2>4, OnceDoes
<1>6. ASSUME InsertsOnce(p), InsertsOnce(q), Inserted(p) \cap Inserted(q) = {}
      PROVE  InsertsOnce(r)
  <2>0. /\ \A i, j, k : Does(p, i, "insert", k) /\ Does(p, j, "insert", k) => i = j
        /\ \A i, j, k : Does(q, i, "insert", k) /\ Does(q, j, "insert", k) => i = j
    BY <1>6, OnceDoes
  <2>1. ASSUME NEW i, NEW j, NEW k, Does(r, i, "insert", k), Does(r, j, "insert", k) PROVE i = j
    <3>1. \/ Does(p, i, "insert", k)
          \/ i - Len(p) \in Nat /\ Does(q, i - Len(p), "insert", k)
      BY <1>2, <2>1
    <3>2. \/ Does(p, j, "insert", k)
          \/ j - Len(p) \in Nat /\ Does(q, j - Len(p), "insert", k)
      BY <1>2, <2>1
    <3>3. k \notin Inserted(p) \/ k \notin Inserted(q)
      BY <1>6
    <3>4. i \in Nat /\ j \in Nat
      BY <1>4, <2>1
    <3>5. CASE Does(p, i, "insert", k) /\ Does(p, j, "insert", k)
      BY <2>0, <3>5
    <3>6. CASE /\ i - Len(p) \in Nat /\ Does(q, i - Len(p), "insert", k)
               /\ j - Len(p) \in Nat /\ Does(q, j - Len(p), "insert", k)
      <4>1. i - Len(p) = j - Len(p)
        BY <2>0, <3>6
      <4> QED BY <1>3, <3>4, <4>1
    <3> QED BY <1>4, <3>1, <3>2, <3>3, <3>5, <3>6
  <2> QED BY <2>1, OnceDoes
<1> QED BY <1>1, <1>5, <1>6

LEMMA WithEnvJoin ==
  ASSUME NEW S, NEW p \in Seq(S), NEW q \in Seq(S)
  PROVE  WithEnv(p \o q) = WithEnv(p) \cup WithEnv(q)
<1>1. ToSet(p \o q) = ToSet(p) \cup ToSet(q)
  BY ToSetJoin
<1> QED BY <1>1 DEF WithEnv

LEMMA WithEnvInserted == ASSUME NEW p PROVE WithEnv(p) \subseteq Inserted(p)
BY DEF WithEnv, Inserted
-----------------------------------------------------------------------------
\* What D deletes, as a function of the rows that are there.
Tidy(D, I, E) ==
  \E S : Along(S, I) /\ \A K \in SUBSET RowKeys : Sweeps(D[K], S, E, K)

\* D deletes, of the rows the program a has inserted, those that are found, in order.
Undoes(D, a) ==
  /\ \A K \in SUBSET RowKeys : D[K] \in Seq(Removals)
  /\ InsertsOnce(a) => Tidy(D, Inserted(a), WithEnv(a))

\* r inserts what a and b do.
Joined(a, b, r) ==
  /\ Inserted(r) = Inserted(a) \cup Inserted(b) /\ WithEnv(r) = WithEnv(a) \cup WithEnv(b)
  /\ InsertsOnce(r) <=> InsertsOnce(a) /\ InsertsOnce(b) /\ Inserted(a) \cap Inserted(b) = {}

LEMMA JoinedJoin ==
  ASSUME NEW S, NEW a \in Seq(S), NEW b \in Seq(S)
  PROVE  \E r \in Seq(S) : r = a \o b /\ Joined(a, b, r)
<1>1. PICK r \in Seq(S) : r = a \o b
  <2>1. a \o b \in Seq(S)
    OBVIOUS
  <2> QED BY <2>1, Zenon
<1>2. Inserted(r) = Inserted(a) \cup Inserted(b) /\ WithEnv(r) = WithEnv(a) \cup WithEnv(b)
  BY <1>1, InsertedJoin, WithEnvJoin
<1>3. InsertsOnce(r) <=> InsertsOnce(a) /\ InsertsOnce(b) /\ Inserted(a) \cap Inserted(b) = {}
  BY <1>1, OnceJoin
<1> QED BY <1>1, <1>2, <1>3 DEF Joined

Both(D1, D2) == [K \in SUBSET RowKeys |-> D1[K] \o D2[K]]
Nothing == [K \in SUBSET RowKeys |-> <<>>]

LEMMA TidyJoin ==
  ASSUME NEW I, NEW J, I \cap J = {}, NEW E \in SUBSET I, NEW F \in SUBSET J,
         NEW D1, Tidy(D1, I, E), NEW D2, Tidy(D2, J, F)
  PROVE  Tidy(Both(D1, D2), I \cup J, E \cup F)
<1>1. PICK S : Along(S, I) /\ \A K \in SUBSET RowKeys : Sweeps(D1[K], S, E, K)
  BY DEF Tidy
<1>2. PICK T : Along(T, J) /\ \A K \in SUBSET RowKeys : Sweeps(D2[K], T, F, K)
  BY DEF Tidy
<1>3. Along(S \cup T, I \cup J)
  BY <1>1, <1>2 DEF Along
<1>4. ASSUME NEW K \in SUBSET RowKeys
      PROVE  Sweeps(Both(D1, D2)[K], S \cup T, E \cup F, K)
  <2>1. Both(D1, D2)[K] = D1[K] \o D2[K]
    BY DEF Both
  <2>2. PICK p, q : p = D1[K] /\ q = D2[K] /\ Sweeps(p, S, E, K) /\ Sweeps(q, T, F, K)
    BY <1>1, <1>2
  <2>3. Sweeps(p \o q, S \cup T, E \cup F, K)
    BY <1>1, <1>2, <2>2, SweepJoin
  <2> QED BY <2>1, <2>2, <2>3, Zenon
<1> QED BY <1>3, <1>4 DEF Tidy

LEMMA UndoesJoin ==
  ASSUME NEW D1, NEW a, Undoes(D1, a), NEW D2, NEW b, Undoes(D2, b), NEW r, Joined(a, b, r)
  PROVE  Undoes(Both(D1, D2), r)
<1>1. ASSUME InsertsOnce(r)
      PROVE  Tidy(Both(D1, D2), Inserted(r), WithEnv(r))
  <2>1. InsertsOnce(a) /\ InsertsOnce(b) /\ Inserted(a) \cap Inserted(b) = {}
    BY <1>1 DEF Joined
  <2>2. Tidy(D1, Inserted(a), WithEnv(a)) /\ Tidy(D2, Inserted(b), WithEnv(b))
    BY <2>1 DEF Undoes
  <2>3. WithEnv(a) \in SUBSET Inserted(a) /\ WithEnv(b) \in SUBSET Inserted(b)
    BY WithEnvInserted
  <2>4. Tidy(Both(D1, D2), Inserted(a) \cup Inserted(b), WithEnv(a) \cup WithEnv(b))
    BY <2>1, <2>2, <2>3, TidyJoin
  <2>5. Inserted(r) = Inserted(a) \cup Inserted(b) /\ WithEnv(r) = WithEnv(a) \cup WithEnv(b)
    BY DEF Joined
  <2> QED BY <2>4, <2>5, Zenon
<1>2. ASSUME NEW K \in SUBSET RowKeys PROVE Both(D1, D2)[K] \in Seq(Removals)
  <2>1. PICK p \in Seq(Removals), q \in Seq(Removals) : p = D1[K] /\ q = D2[K]
    BY DEF Undoes
  <2>2. p \o q \in Seq(Removals)
    OBVIOUS
  <2>3. Both(D1, D2)[K] = p \o q
    BY <2>1 DEF Both
  <2> QED BY <2>2, <2>3, Zenon
<1> QED BY <1>1, <1>2 DEF Undoes

LEMMA SweepNothing ==
  ASSUME NEW S, NEW K, Standing(S, K) = {}, NEW E
  PROVE  Sweeps(<<>>, S, E, K)
<1>1. PICK p : p = <<>> /\ p \in Seq(Removals) /\ DOMAIN p = {}
  <2>1. <<>> \in Seq(Removals) /\ DOMAIN <<>> = {}
    OBVIOUS
  <2> QED BY <2>1, Zenon
<1>2. \A i, w, k : ~Does(p, i, w, k)
  BY <1>1 DEF Does
<1>3. Deleted(p) = {}
  BY <1>2, DeletedDoes
<1>4. RowsIn(Standing(S, K)) = {}
  BY DEF RowsIn
<1>5. Sweeps(p, S, E, K)
  BY <1>1, <1>2, <1>3, <1>4 DEF Sweeps, UpTheLines, LooksAfter
<1> QED BY <1>1, <1>5

LEMMA UndoesNothing ==
  ASSUME NEW a
  PROVE  Undoes(Nothing, a)
<1>1. Along({}, Inserted(a))
  BY DEF Along
<1>2. \A K \in SUBSET RowKeys : Nothing[K] = <<>>
  BY DEF Nothing
<1>3. PICK none : none = {} /\ \A K : Standing(none, K) = {}
  <2>1. \A K : Standing({}, K) = {}
    BY DEF Standing
  <2> QED BY <2>1, Zenon
<1>4. ASSUME NEW K \in SUBSET RowKeys
      PROVE  Nothing[K] \in Seq(Removals) /\ Sweeps(Nothing[K], none, WithEnv(a), K)
  <2>1. Sweeps(<<>>, none, WithEnv(a), K) /\ <<>> \in Seq(Removals)
    BY <1>3, SweepNothing
  <2> QED BY <1>2, <2>1, Zenon
<1>5. Tidy(Nothing, Inserted(a), WithEnv(a))
  BY <1>1, <1>3, <1>4 DEF Tidy
<1> QED BY <1>4, <1>5 DEF Undoes

-----------------------------------------------------------------------------
(* A node's own row, deleted after what is below it *)

\* The lines of what is below the row k.
Lift(S, k) == {[row |-> s.row, over |-> s.over \cup {k}] : s \in S}
Root(k) == [row |-> k, over |-> {}]
Crown(S, k) == Lift(S, k) \cup {Root(k)}

Lifts(S, k, K) ==
  /\ Standing(Lift(S, k), K) = IF k \in K THEN Lift(Standing(S, K), k) ELSE {}
  /\ Standing(Crown(S, k), K) = IF k \in K THEN Crown(Standing(S, K), k) ELSE {}
LiftsRows(S, k) ==
  RowsIn(Lift(S, k)) = RowsIn(S) /\ RowsIn(Crown(S, k)) = RowsIn(S) \cup {k}

LEMMA LiftAlong ==
  ASSUME NEW S, NEW I, Along(S, I), NEW k
  PROVE  Along(Lift(S, k), I \cup {k}) /\ Along(Crown(S, k), I \cup {k})
BY DEF Along, Lift, Root, Crown

LEMMA LiftStanding ==
  ASSUME NEW S, NEW I, Along(S, I), NEW k, NEW K
  PROVE  Lifts(S, k, K)
<1>1. ASSUME NEW s \in S
      PROVE  LET t == [row |-> s.row, over |-> s.over \cup {k}]
             IN  t.row \in K /\ t.over \subseteq K <=> s.row \in K /\ s.over \subseteq K /\ k \in K
  OBVIOUS
<1>2. Root(k).row \in K /\ Root(k).over \subseteq K <=> k \in K
  BY DEF Root
<1>3. Standing(Lift(S, k), K) = {t \in Lift(S, k) : t.row \in K /\ t.over \subseteq K}
  BY DEF Standing
<1>4. k \in K => Standing(Lift(S, k), K) = Lift(Standing(S, K), k)
  BY <1>1 DEF Standing, Lift
<1>5. k \notin K => Standing(Lift(S, k), K) = {}
  BY <1>1 DEF Standing, Lift
<1>6. Standing(Lift(S, k) \cup {Root(k)}, K) =
        Standing(Lift(S, k), K) \cup (IF k \in K THEN {Root(k)} ELSE {})
  BY <1>2 DEF Standing
<1> QED BY <1>4, <1>5, <1>6 DEF Lifts, Crown

LEMMA LiftRows ==
  ASSUME NEW S, NEW k
  PROVE  LiftsRows(S, k)
<1>1. \A s \in S : [row |-> s.row, over |-> s.over \cup {k}].row = s.row
  OBVIOUS
<1>2. RowsIn(Lift(S, k)) = RowsIn(S)
  BY <1>1 DEF RowsIn, Lift
<1>3. Root(k).row = k
  BY DEF Root
<1>4. \A T : RowsIn(T \cup {Root(k)}) = RowsIn(T) \cup {k}
  BY <1>3 DEF RowsIn
<1> QED BY <1>2, <1>4 DEF LiftsRows, Crown

LEMMA SweepBeneath ==
  ASSUME NEW K, NEW k \in K, NEW I, k \notin I, NEW S, Along(S, I), NEW E,
         NEW p, Sweeps(p, S, E, K)
  PROVE  Sweeps(p, Lift(S, k), E, K)
<1>1. p \in Seq(Removals) /\ Deleted(p) \subseteq I
  BY SweepRows
<1>2. Standing(Lift(S, k), K) = Lift(Standing(S, K), k)
  <2>1. Lifts(S, k, K)
    BY LiftStanding
  <2> QED BY <2>1 DEF Lifts
<1>3. Deleted(p) = RowsIn(Standing(Lift(S, k), K))
  <2>1. LiftsRows(Standing(S, K), k)
    BY LiftRows
  <2> QED BY <1>2, <2>1 DEF Sweeps, LiftsRows
<1>4. ASSUME NEW s \in Standing(S, K), NEW a \in s.over \cup {k}, NEW i, Does(p, i, "delete", a)
      PROVE  \E j \in Nat : j < i /\ Does(p, j, "delete", s.row)
  <2>1. a # k
    BY <1>1, <1>4, DeletedDoes
  <2> QED BY <1>4, <2>1 DEF Sweeps, UpTheLines
<1>5. UpTheLines(p, Standing(Lift(S, k), K))
  <2>1. ASSUME NEW t \in Lift(Standing(S, K), k), NEW a \in t.over, NEW i, Does(p, i, "delete", a)
        PROVE  \E j \in Nat : j < i /\ Does(p, j, "delete", t.row)
    <3>1. PICK s \in Standing(S, K) : t = [row |-> s.row, over |-> s.over \cup {k}]
      BY DEF Lift
    <3>2. t.row = s.row /\ t.over = s.over \cup {k}
      BY <3>1
    <3> QED BY <1>4, <2>1, <3>2
  <2> QED BY <1>2, <2>1 DEF UpTheLines
<1> QED BY <1>3, <1>5 DEF Sweeps

LEMMA SweepRoot ==
  ASSUME NEW K, NEW k \in K, NEW I, k \notin I, NEW S, Along(S, I), NEW E \in SUBSET I,
         NEW p, Sweeps(p, S, E, K), NEW q \in Seq(Removals), Deleted(q) = {k},
         NEW F, F \subseteq E \cup {k}, k \in F => LooksAfter(q, {k})
  PROVE  Sweeps(p \o q, Crown(S, k), F, K)
<1>1. p \in Seq(Removals) /\ Deleted(p) \subseteq I /\ Deleted(p) = RowsIn(Standing(S, K))
  BY SweepRows DEF Sweeps
<1>2. PICK r \in Seq(Removals) : r = p \o q
  <2>1. p \o q \in Seq(Removals)
    BY <1>1
  <2> QED BY <2>1, Zenon
<1>3. PICK T : T = Standing(Crown(S, k), K) /\ T = Crown(Standing(S, K), k)
  <2>1. Lifts(S, k, K)
    BY LiftStanding
  <2> QED BY <2>1 DEF Lifts
<1>4. Deleted(r) = RowsIn(T)
  <2>1. Deleted(r) = Deleted(p) \cup Deleted(q)
    BY <1>1, <1>2, DeletedJoin
  <2>3. LiftsRows(Standing(S, K), k)
    BY LiftRows
  <2>2. RowsIn(T) = RowsIn(Standing(S, K)) \cup {k}
    BY <1>3, <2>3 DEF LiftsRows
  <2> QED BY <1>1, <2>1, <2>2
<1>5. ASSUME NEW x, NEW w
      PROVE  /\ \A i : Does(p, i, w, x) => Does(r, i, w, x)
             /\ \A i : Does(q, i, w, x) => Len(p) + i \in Nat /\ Does(r, Len(p) + i, w, x)
             /\ \A i : Does(r, i, w, x) =>
                  \/ Does(p, i, w, x)
                  \/ i - Len(p) \in Nat /\ Does(q, i - Len(p), w, x)
  BY <1>1, <1>2, DoesJoin
<1>6. Len(p) \in Nat
  BY <1>1
<1>7. ASSUME NEW x, NEW i, Does(r, i, "delete", x)
      PROVE  /\ x \in I => Does(p, i, "delete", x)
             /\ x = k => /\ i - Len(p) \in Nat /\ Does(q, i - Len(p), "delete", x)
                         /\ Len(p) < i
             /\ i \in Nat
  <2>1. Does(p, i, "delete", x) => x \in Deleted(p)
    BY DeletedDoes
  <2>2. \A j : Does(q, j, "delete", x) => x \in Deleted(q) /\ j \in Nat /\ 1 <= j
    BY DeletedDoes, NumbersOf
  <2>3. i \in Nat
    BY <1>2, <1>7, NumbersOf
  <2>4. CASE Does(p, i, "delete", x)
    BY <1>1, <2>1, <2>3, <2>4
  <2>5. CASE i - Len(p) \in Nat /\ Does(q, i - Len(p), "delete", x)
    <3>1. x = k /\ 1 <= i - Len(p)
      BY <2>2, <2>5
    <3> QED BY <1>6, <2>3, <2>5, <3>1
  <2> QED BY <1>5, <1>7, <2>4, <2>5
<1>8. ASSUME NEW s \in Standing(S, K), NEW a \in s.over \cup {k}, NEW i, Does(r, i, "delete", a)
      PROVE  \E j \in Nat : j < i /\ Does(r, j, "delete", s.row)
  <2>1. CASE a \in s.over
    <3>1. a \in I
      BY <2>1 DEF Standing, Along
    <3>2. Does(p, i, "delete", a)
      BY <1>7, <1>8, <3>1
    <3>3. PICK j \in Nat : j < i /\ Does(p, j, "delete", s.row)
      BY <2>1, <3>2 DEF Sweeps, UpTheLines
    <3> QED BY <1>5, <3>3
  <2>2. CASE a = k
    <3>1. Len(p) < i /\ i \in Nat
      BY <1>7, <1>8, <2>2
    <3>2. s.row \in Deleted(p)
      BY <1>1 DEF RowsIn
    <3>3. PICK j : Does(p, j, "delete", s.row)
      BY <3>2, DeletedDoes
    <3>4. j \in Nat /\ j <= Len(p)
      BY <1>1, <3>3, NumbersOf
    <3>5. Does(r, j, "delete", s.row) /\ j < i
      BY <1>5, <1>6, <3>1, <3>3, <3>4
    <3> QED BY <3>4, <3>5
  <2> QED BY <2>1, <2>2
<1>9. UpTheLines(r, T)
  <2>1. ASSUME NEW t \in T, NEW a \in t.over, NEW i, Does(r, i, "delete", a)
        PROVE  \E j \in Nat : j < i /\ Does(r, j, "delete", t.row)
    <3>1. CASE t = Root(k)
      BY <3>1 DEF Root
    <3>2. CASE t \in Lift(Standing(S, K), k)
      <4>1. PICK s \in Standing(S, K) : t = [row |-> s.row, over |-> s.over \cup {k}]
        BY <3>2 DEF Lift
      <4>2. t.row = s.row /\ t.over = s.over \cup {k}
        BY <4>1
      <4> QED BY <1>8, <2>1, <4>2
    <3> QED BY <1>3, <3>1, <3>2 DEF Crown
  <2> QED BY <2>1 DEF UpTheLines
<1>10. LooksAfter(r, F)
  <2>1. ASSUME NEW x \in F, NEW i, Does(r, i, "delete", x)
        PROVE  \E j \in Nat : i < j /\ Does(r, j, "owners", x)
    <3>1. CASE x = k
      <4>1. PICK m \in Nat : m = i - Len(p) /\ Does(q, m, "delete", k) /\ i \in Nat
        BY <1>7, <2>1, <3>1
      <4>2. PICK j \in Nat : m < j /\ Does(q, j, "owners", k)
        BY <3>1, <4>1 DEF LooksAfter
      <4>3. Len(p) + j \in Nat /\ Does(r, Len(p) + j, "owners", k) /\ i < Len(p) + j
        BY <1>5, <1>6, <4>1, <4>2
      <4> QED BY <3>1, <4>3
    <3>2. CASE x \in E
      <4>1. Does(p, i, "delete", x)
        BY <1>7, <2>1, <3>2
      <4>2. PICK j \in Nat : i < j /\ Does(p, j, "owners", x)
        BY <3>2, <4>1 DEF Sweeps, LooksAfter
      <4>3. Does(r, j, "owners", x)
        BY <1>5, <4>2
      <4> QED BY <4>2, <4>3
    <3> QED BY <3>1, <3>2
  <2> QED BY <2>1 DEF LooksAfter
<1>11. Sweeps(r, Crown(S, k), F, K)
  BY <1>3, <1>4, <1>9, <1>10 DEF Sweeps
<1> QED BY <1>2, <1>11
-----------------------------------------------------------------------------
Over(B, k, q) == [K \in SUBSET RowKeys |-> IF k \in K THEN B[K] \o q ELSE <<>>]
Below(B, k) == [K \in SUBSET RowKeys |-> IF k \in K THEN B[K] ELSE <<>>]

LEMMA TidyOver ==
  ASSUME NEW I, NEW E \in SUBSET I, NEW B, Tidy(B, I, E), NEW k, k \notin I,
         NEW q \in Seq(Removals), Deleted(q) = {k},
         NEW F, F \subseteq E \cup {k}, k \in F => LooksAfter(q, {k})
  PROVE  Tidy(Over(B, k, q), I \cup {k}, F)
<1>1. PICK S : Along(S, I) /\ \A K \in SUBSET RowKeys : Sweeps(B[K], S, E, K)
  BY DEF Tidy
<1>2. Along(Crown(S, k), I \cup {k})
  BY <1>1, LiftAlong
<1>3. ASSUME NEW K \in SUBSET RowKeys
      PROVE  Sweeps(Over(B, k, q)[K], Crown(S, k), F, K)
  <2>1. PICK p : p = B[K] /\ Sweeps(p, S, E, K)
    BY <1>1
  <2>2. CASE k \in K
    <3>1. Sweeps(p \o q, Crown(S, k), F, K)
      BY <1>1, <2>1, <2>2, SweepRoot
    <3>2. Over(B, k, q)[K] = p \o q
      BY <2>1, <2>2 DEF Over
    <3> QED BY <3>1, <3>2, Zenon
  <2>3. CASE k \notin K
    <3>1. Lifts(S, k, K)
      BY <1>1, LiftStanding
    <3>2. Standing(Crown(S, k), K) = {}
      BY <2>3, <3>1 DEF Lifts
    <3>3. Over(B, k, q)[K] = <<>>
      BY <2>3 DEF Over
    <3>4. Sweeps(<<>>, Crown(S, k), F, K)
      BY <3>2, SweepNothing
    <3> QED BY <3>3, <3>4, Zenon
  <2> QED BY <2>2, <2>3
<1> QED BY <1>2, <1>3 DEF Tidy

LEMMA TidyBelow ==
  ASSUME NEW I, NEW E \in SUBSET I, NEW B, Tidy(B, I, E), NEW k, k \notin I
  PROVE  Tidy(Below(B, k), I \cup {k}, E)
<1>1. PICK S : Along(S, I) /\ \A K \in SUBSET RowKeys : Sweeps(B[K], S, E, K)
  BY DEF Tidy
<1>2. Along(Lift(S, k), I \cup {k})
  BY <1>1, LiftAlong
<1>3. ASSUME NEW K \in SUBSET RowKeys
      PROVE  Sweeps(Below(B, k)[K], Lift(S, k), E, K)
  <2>1. PICK p : p = B[K] /\ Sweeps(p, S, E, K)
    BY <1>1
  <2>2. CASE k \in K
    <3>1. Sweeps(p, Lift(S, k), E, K)
      BY <1>1, <2>1, <2>2, SweepBeneath
    <3>2. Below(B, k)[K] = p
      BY <2>1, <2>2 DEF Below
    <3> QED BY <3>1, <3>2, Zenon
  <2>3. CASE k \notin K
    <3>1. Lifts(S, k, K)
      BY <1>1, LiftStanding
    <3>2. Standing(Lift(S, k), K) = {}
      BY <2>3, <3>1 DEF Lifts
    <3>3. Below(B, k)[K] = <<>>
      BY <2>3 DEF Below
    <3>4. Sweeps(<<>>, Lift(S, k), E, K)
      BY <3>2, SweepNothing
    <3> QED BY <3>3, <3>4, Zenon
  <2> QED BY <2>2, <2>3
<1> QED BY <1>2, <1>3 DEF Tidy

LEMMA OneStatement ==
  ASSUME NEW s
  PROVE  ToSet(<<s>>) = {s}
BY DEF ToSet

\* A node's row.
HasRow(n) ==
  /\ n.key \in RowKeys
  /\ n.env = NoEnv => n.tbl \in AllTables
  /\ n.env # NoEnv => n.env \in Envs /\ n.tbl \in OwnerTable

LEMMA InsertFacts ==
  ASSUME NEW n, HasRow(n)
  PROVE  /\ Insert(n) \in Seq(Additions(RowKeys))
         /\ Inserted(Insert(n)) = {n.key}
         /\ WithEnv(Insert(n)) = IF n.env = NoEnv THEN {} ELSE {n.key}
<1> DEFINE s == [do |-> "insert", key |-> n.key, tbl |-> n.tbl, hasEnv |-> n.env # NoEnv]
<1>1. s \in Additions(RowKeys)
  BY DEF HasRow, Additions
<1>2. s.do = "insert" /\ s.key = n.key /\ s.hasEnv = (n.env # NoEnv)
  OBVIOUS
<1>3. Insert(n) = <<s>>
  BY DEF Insert
<1> HIDE DEF s
<1>4. ToSet(Insert(n)) = {s}
  BY <1>3, OneStatement
<1>5. Insert(n) \in Seq(Additions(RowKeys))
  BY <1>1, <1>3
<1>6. Inserted(Insert(n)) = {n.key}
  BY <1>2, <1>4 DEF Inserted
<1>7. WithEnv(Insert(n)) = IF n.env = NoEnv THEN {} ELSE {n.key}
  BY <1>2, <1>4 DEF WithEnv
<1> QED BY <1>5, <1>6, <1>7

LEMMA FindFacts ==
  ASSUME NEW n, n.env \in Envs
  PROVE  /\ FindEnv(n) \in Seq(Additions(RowKeys))
         /\ Inserted(FindEnv(n)) = {} /\ WithEnv(FindEnv(n)) = {} /\ InsertsOnce(FindEnv(n))
<1> DEFINE s == [do |-> "findEnv", env |-> n.env]
<1>1. s \in Additions(RowKeys) /\ s.do = "findEnv"
  BY DEF Additions
<1>3. FindEnv(n) = <<s>>
  BY DEF FindEnv
<1> HIDE DEF s
<1>4. ToSet(FindEnv(n)) = {s}
  BY <1>3, OneStatement
<1>5. FindEnv(n) \in Seq(Additions(RowKeys))
  BY <1>1, <1>3
<1>6. Inserted(FindEnv(n)) = {} /\ WithEnv(FindEnv(n)) = {}
  BY <1>1, <1>4 DEF Inserted, WithEnv
<1>7. InsertsOnce(FindEnv(n))
  BY <1>3 DEF InsertsOnce
<1> QED BY <1>5, <1>6, <1>7

LEMMA DeleteFacts ==
  ASSUME NEW n, n.key \in RowKeys
  PROVE  Delete(n) \in Seq(Removals) /\ Deleted(Delete(n)) = {n.key}
<1> DEFINE s == [do |-> "delete", key |-> n.key]
<1>1. s \in Removals /\ s.do = "delete" /\ s.key = n.key
  BY DEF Removals
<1>3. Delete(n) = <<s>>
  BY DEF Delete
<1> HIDE DEF s
<1>4. ToSet(Delete(n)) = {s}
  BY <1>3, OneStatement
<1>5. Delete(n) \in Seq(Removals)
  BY <1>1, <1>3
<1> QED BY <1>1, <1>4, <1>5 DEF Deleted

LEMMA OrphanFacts ==
  ASSUME NEW n, n.key \in RowKeys, NEW b \in BOOLEAN
  PROVE  /\ Delete(n) \o DeleteIfOrphaned(n, b) \in Seq(Removals)
         /\ Deleted(Delete(n) \o DeleteIfOrphaned(n, b)) = {n.key}
         /\ LooksAfter(Delete(n) \o DeleteIfOrphaned(n, b), {n.key})
<1> DEFINE s == [do |-> "delete", key |-> n.key]
           t == [do |-> "owners", key |-> n.key, checked |-> b]
<1>1. s \in Removals /\ s.do = "delete" /\ s.key = n.key
      /\ t \in Removals /\ t.do = "owners" /\ t.key = n.key
  BY DEF Removals
<1>2. Delete(n) \o DeleteIfOrphaned(n, b) = <<s>> \o <<t>>
  BY DEF Delete, DeleteIfOrphaned
<1> HIDE DEF s, t
<1>3. PICK q : q = <<s>> \o <<t>>
  OBVIOUS
<1>4. IsPair(q, s, t)
  BY <1>3 DEF IsPair
<1>5. DOMAIN q = {1, 2} /\ q[1] = s /\ q[2] = t /\ q \in Seq(Removals)
  <2>1. s \in Removals /\ t \in Removals
    BY <1>1
  <2> QED BY <1>4, <2>1, TwoStatements
<1>6. Deleted(q) = {n.key}
  BY <1>1, <1>5 DEF Deleted, ToSet
<1>7. LooksAfter(q, {n.key})
  <2>1. ASSUME NEW i, Does(q, i, "delete", n.key) PROVE i = 1
    BY <1>1, <1>5, <2>1 DEF Does
  <2>2. Does(q, 2, "owners", n.key)
    BY <1>1, <1>5 DEF Does
  <2> QED BY <2>1, <2>2 DEF LooksAfter
<1> QED BY <1>2, <1>3, <1>5, <1>6, <1>7, Zenon
-----------------------------------------------------------------------------
(* A node and what is below it, and the slices of nodes *)

LEMMA RootUndone ==
  ASSUME NEW n, HasRow(n), n.env = NoEnv, NEW B, NEW a, Undoes(B, a), NEW r, Joined(Insert(n), a, r)
  PROVE  Undoes(Over(B, n.key, Delete(n)), r)
<1>1. Inserted(Insert(n)) = {n.key} /\ WithEnv(Insert(n)) = {}
  BY InsertFacts
<1>2. PICK q \in Seq(Removals) : q = Delete(n) /\ Deleted(q) = {n.key}
  BY DeleteFacts DEF HasRow
<1>3. ASSUME InsertsOnce(r)
      PROVE  Tidy(Over(B, n.key, q), Inserted(r), WithEnv(r))
  <2>1. InsertsOnce(a) /\ n.key \notin Inserted(a)
    BY <1>1, <1>3 DEF Joined
  <2>2. Tidy(B, Inserted(a), WithEnv(a))
    BY <2>1 DEF Undoes
  <2>3. WithEnv(a) \in SUBSET Inserted(a) /\ n.key \notin WithEnv(a) /\ WithEnv(a) \subseteq WithEnv(a) \cup {n.key}
    BY <2>1, WithEnvInserted
  <2>4. Tidy(Over(B, n.key, q), Inserted(a) \cup {n.key}, WithEnv(a))
    BY <1>2, <2>1, <2>2, <2>3, TidyOver
  <2>5. Inserted(r) = Inserted(a) \cup {n.key} /\ WithEnv(r) = WithEnv(a)
    BY <1>1 DEF Joined
  <2> QED BY <2>4, <2>5, Zenon
<1>4. ASSUME NEW K \in SUBSET RowKeys PROVE Over(B, n.key, q)[K] \in Seq(Removals)
  <2>1. PICK p \in Seq(Removals) : p = B[K]
    BY DEF Undoes
  <2>2. p \o q \in Seq(Removals) /\ <<>> \in Seq(Removals)
    OBVIOUS
  <2>3. Over(B, n.key, q)[K] = IF n.key \in K THEN p \o q ELSE <<>>
    BY <2>1 DEF Over
  <2> QED BY <2>2, <2>3, Zenon
<1> QED BY <1>2, <1>3, <1>4 DEF Undoes

LEMMA OwnerUndone ==
  ASSUME NEW n, HasRow(n), n.env # NoEnv, NEW B, NEW a, Undoes(B, a), NEW r, Joined(Insert(n), a, r),
         NEW b \in BOOLEAN
  PROVE  Undoes(Over(B, n.key, Delete(n) \o DeleteIfOrphaned(n, b)), r)
<1>1. Inserted(Insert(n)) = {n.key} /\ WithEnv(Insert(n)) = {n.key}
  BY InsertFacts
<1>2. PICK q \in Seq(Removals) :
        q = Delete(n) \o DeleteIfOrphaned(n, b) /\ Deleted(q) = {n.key} /\ LooksAfter(q, {n.key})
  <2>1. /\ Delete(n) \o DeleteIfOrphaned(n, b) \in Seq(Removals)
        /\ Deleted(Delete(n) \o DeleteIfOrphaned(n, b)) = {n.key}
        /\ LooksAfter(Delete(n) \o DeleteIfOrphaned(n, b), {n.key})
    BY OrphanFacts DEF HasRow
  <2> QED BY <2>1, Zenon
<1>3. ASSUME InsertsOnce(r)
      PROVE  Tidy(Over(B, n.key, q), Inserted(r), WithEnv(r))
  <2>1. InsertsOnce(a) /\ n.key \notin Inserted(a)
    BY <1>1, <1>3 DEF Joined
  <2>2. Tidy(B, Inserted(a), WithEnv(a))
    BY <2>1 DEF Undoes
  <2>3. WithEnv(a) \in SUBSET Inserted(a)
    BY WithEnvInserted
  <2>4. PICK F : F = WithEnv(a) \cup {n.key}
    OBVIOUS
  <2>5. Tidy(Over(B, n.key, q), Inserted(a) \cup {n.key}, F)
    BY <1>2, <2>1, <2>2, <2>3, <2>4, TidyOver
  <2>6. Inserted(r) = Inserted(a) \cup {n.key} /\ WithEnv(r) = F
    BY <1>1, <2>4 DEF Joined
  <2> QED BY <2>5, <2>6, Zenon
<1>4. ASSUME NEW K \in SUBSET RowKeys PROVE Over(B, n.key, q)[K] \in Seq(Removals)
  <2>1. PICK p \in Seq(Removals) : p = B[K]
    BY DEF Undoes
  <2>2. p \o q \in Seq(Removals) /\ <<>> \in Seq(Removals)
    OBVIOUS
  <2>3. Over(B, n.key, q)[K] = IF n.key \in K THEN p \o q ELSE <<>>
    BY <2>1 DEF Over
  <2> QED BY <2>2, <2>3, Zenon
<1>5. Undoes(Over(B, n.key, q), r)
  BY <1>3, <1>4 DEF Undoes
<1> QED BY <1>2, <1>5, Zenon

LEMMA BelowUndone ==
  ASSUME NEW n, HasRow(n), n.env = NoEnv, NEW B, NEW a, Undoes(B, a), NEW r, Joined(Insert(n), a, r)
  PROVE  Undoes(Below(B, n.key), r)
<1>1. Inserted(Insert(n)) = {n.key} /\ WithEnv(Insert(n)) = {}
  BY InsertFacts
<1>3. ASSUME InsertsOnce(r)
      PROVE  Tidy(Below(B, n.key), Inserted(r), WithEnv(r))
  <2>1. InsertsOnce(a) /\ n.key \notin Inserted(a)
    BY <1>1, <1>3 DEF Joined
  <2>2. Tidy(B, Inserted(a), WithEnv(a)) /\ WithEnv(a) \in SUBSET Inserted(a)
    BY <2>1, WithEnvInserted DEF Undoes
  <2>4. Tidy(Below(B, n.key), Inserted(a) \cup {n.key}, WithEnv(a))
    BY <2>1, <2>2, TidyBelow
  <2>5. Inserted(r) = Inserted(a) \cup {n.key} /\ WithEnv(r) = WithEnv(a)
    BY <1>1 DEF Joined
  <2> QED BY <2>4, <2>5, Zenon
<1>4. ASSUME NEW K \in SUBSET RowKeys PROVE Below(B, n.key)[K] \in Seq(Removals)
  <2>1. B[K] \in Seq(Removals) /\ <<>> \in Seq(Removals)
    BY DEF Undoes
  <2>3. Below(B, n.key)[K] = IF n.key \in K THEN B[K] ELSE <<>>
    BY DEF Below
  <2> QED BY <2>1, <2>3, Zenon
<1> QED BY <1>3, <1>4 DEF Undoes

\* The slices whose nodes gd deletes and ins inserts.
SliceOf(gd, N, ns) == [K \in SUBSET RowKeys |-> Mapped([x \in N |-> gd[x][K]], ns)]

LEMMA SliceUndone ==
  ASSUME NEW N, NEW ins, Gives(ins, N, Additions(RowKeys)), NEW gd,
         \A x \in N : Undoes(gd[x], ins[x]), NEW ns \in Seq(N)
  PROVE  Undoes(SliceOf(gd, N, ns), Mapped(ins, ns))
<1> DEFINE T == {p \in Seq(N) : Undoes(SliceOf(gd, N, p), Mapped(ins, p))}
<1>1. <<>> \in T
  <2>1. SliceOf(gd, N, <<>>) = Nothing
    BY MappedNone DEF SliceOf, Nothing
  <2>2. Undoes(SliceOf(gd, N, <<>>), Mapped(ins, <<>>))
    BY <2>1, UndoesNothing
  <2>3. <<>> \in Seq(N)
    OBVIOUS
  <2> QED BY <2>2, <2>3
<1>2. ASSUME NEW p \in Seq(N), NEW x \in N, p \in T PROVE Append(p, x) \in T
  <2>1. Undoes(SliceOf(gd, N, p), Mapped(ins, p)) /\ Undoes(gd[x], ins[x])
    BY <1>2
  <2>2. Mapped(ins, p) \in Seq(Additions(RowKeys)) /\ ins[x] \in Seq(Additions(RowKeys))
    BY MappedIn DEF Gives
  <2>3. PICK r : r = Mapped(ins, p) \o ins[x] /\ Joined(Mapped(ins, p), ins[x], r)
    BY <2>2, JoinedJoin
  <2>4. Undoes(Both(SliceOf(gd, N, p), gd[x]), r)
    BY <2>1, <2>3, UndoesJoin
  <2>5. Mapped(ins, Append(p, x)) = r
    <3>1. MapsOn(ins, p, x)
      BY MappedMore
    <3> QED BY <2>3, <3>1 DEF MapsOn
  <2>6. ASSUME NEW K \in SUBSET RowKeys
        PROVE  Mapped([y \in N |-> gd[y][K]], Append(p, x))
               = Mapped([y \in N |-> gd[y][K]], p) \o gd[x][K]
    <3>1. PICK g : g = [y \in N |-> gd[y][K]]
      OBVIOUS
    <3>2. Gives(g, N, Removals) /\ g[x] = gd[x][K]
      BY <3>1 DEF Gives, Undoes
    <3>3. MapsOn(g, p, x)
      BY <3>2, MappedMore
    <3> QED BY <3>1, <3>2, <3>3 DEF MapsOn
  <2>7. SliceOf(gd, N, Append(p, x)) = Both(SliceOf(gd, N, p), gd[x])
    BY <2>6 DEF SliceOf, Both
  <2>8. Append(p, x) \in Seq(N)
    OBVIOUS
  <2> QED BY <2>4, <2>5, <2>7, <2>8
<1> HIDE DEF T
<1>3. Seq(N) \subseteq T
  BY <1>1, <1>2, AllSequences
<1> QED BY <1>3 DEF T

\* What is deleted of a slice is what is deleted of its nodes that are there.
LEMMA KeptSlice ==
  ASSUME NEW N, NEW h, Gives(h, N, Removals), NEW K, NEW ns \in Seq(N)
  PROVE  Mapped(h, Here(ns, K)) = Mapped([x \in N |-> IF x.key \in K THEN h[x] ELSE <<>>], ns)
<1>1. PICK B : B = {x \in N : x.key \in K}
  OBVIOUS
<1>2. PICK one : one = [x \in N |-> IF x.key \in K THEN <<x>> ELSE <<>>]
  OBVIOUS
<1>3. PICK all : all = [x \in N |-> IF x.key \in K THEN h[x] ELSE <<>>]
  OBVIOUS
<1>4. Keeps(B, one, N)
  <2>1. \A x \in N : one[x] = IF x \in B THEN <<x>> ELSE <<>>
    BY <1>1, <1>2
  <2>2. one \in [N -> Seq(N)]
    <3>1. \A x \in N : <<x>> \in Seq(N) /\ <<>> \in Seq(N)
      OBVIOUS
    <3> QED BY <1>2, <3>1
  <2> QED BY <2>1, <2>2 DEF Keeps, Gives
<1>5. KeepsOf(h, B, all, N, Removals)
  <2>1. \A x \in N : all[x] = IF x \in B THEN h[x] ELSE <<>>
    BY <1>1, <1>3
  <2>2. all \in [N -> Seq(Removals)]
    <3>1. \A x \in N : h[x] \in Seq(Removals) /\ <<>> \in Seq(Removals)
      BY DEF Gives
    <3> QED BY <1>3, <3>1
  <2> QED BY <2>1, <2>2 DEF KeepsOf, Gives
<1>6. Mapped(h, Mapped(one, ns)) = Mapped(all, ns)
  BY <1>4, <1>5, MappedKept
<1>7. Here(ns, K) = Mapped(one, ns)
  <2>1. \A i \in DOMAIN ns : one[ns[i]] = IF ns[i].key \in K THEN <<ns[i]>> ELSE <<>>
    BY <1>2
  <2>2. [i \in DOMAIN ns |-> one[ns[i]]]
        = [i \in DOMAIN ns |-> IF ns[i].key \in K THEN <<ns[i]>> ELSE <<>>]
    BY <2>1
  <2> QED BY <2>2 DEF Here, Each, Mapped
<1> QED BY <1>3, <1>6, <1>7
-----------------------------------------------------------------------------
LeafGone(n) ==
  [K \in SUBSET RowKeys |-> IF n.key \in K THEN Delete(n) ELSE <<>>]
LeafSliceGone(ns) == [K \in SUBSET RowKeys |-> Each(Here(ns, K), Delete)]
DomainEntryGone(n) ==
  [K \in SUBSET RowKeys |-> IF n.key \in K THEN DeleteDomainEntry(n) ELSE <<>>]
DomainEntrySliceGone(ns) == [K \in SUBSET RowKeys |-> Each(Here(ns, K), DeleteDomainEntry)]
EntityGone(n) ==
  [K \in SUBSET RowKeys |-> IF n.key \in K THEN DeleteEntity(SelectEntity(n, K)) ELSE <<>>]
EntitySliceGone(ns) == [K \in SUBSET RowKeys |-> Each(Loaded(ns, K, SelectEntity), DeleteEntity)]
LocatorGone(n) ==
  [K \in SUBSET RowKeys |-> IF n.key \in K THEN DeleteLocator(SelectLocator(n, K)) ELSE <<>>]
LocatorSliceGone(ns) == [K \in SUBSET RowKeys |-> Each(Loaded(ns, K, SelectLocator), DeleteLocator)]
IntegrityRegisterGone(n) ==
  [K \in SUBSET RowKeys |-> IF n.key \in K THEN DeleteIntegrityRegister(SelectIntegrityRegister(n, K)) ELSE <<>>]
IntegrityRegisterSliceGone(ns) == [K \in SUBSET RowKeys |-> Each(Loaded(ns, K, SelectIntegrityRegister), DeleteIntegrityRegister)]
MeasurementGone(n) ==
  [K \in SUBSET RowKeys |-> IF n.key \in K THEN DeleteMeasurement(SelectMeasurement(n, K)) ELSE <<>>]
MeasurementSliceGone(ns) == [K \in SUBSET RowKeys |-> Each(Loaded(ns, K, SelectMeasurement), DeleteMeasurement)]
KeyTripleGone(n) ==
  [K \in SUBSET RowKeys |-> IF n.key \in K THEN DeleteKeyTriple(SelectKeyTriple(n, K)) ELSE <<>>]
KeyTripleSliceGone(ns) == [K \in SUBSET RowKeys |-> Each(Loaded(ns, K, SelectKeyTriple), DeleteKeyTriple)]
ValueTripleGone(n) ==
  [K \in SUBSET RowKeys |-> IF n.key \in K THEN DeleteValueTriple(SelectValueTriple(n, K)) ELSE <<>>]
ValueTripleSliceGone(ns) == [K \in SUBSET RowKeys |-> Each(Loaded(ns, K, SelectValueTriple), DeleteValueTriple)]
StatefulEnvironmentGone(n) ==
  [K \in SUBSET RowKeys |-> IF n.key \in K THEN DeleteStatefulEnvironment(SelectStatefulEnvironment(n, K)) ELSE <<>>]
StatefulEnvironmentSliceGone(ns) == [K \in SUBSET RowKeys |-> Each(Loaded(ns, K, SelectStatefulEnvironment), DeleteStatefulEnvironment)]
ConditionalTripleGone(n) ==
  [K \in SUBSET RowKeys |-> IF n.key \in K THEN DeleteConditionalEndorsementTriple(SelectConditionalEndorsementTriple(n, K)) ELSE <<>>]
ConditionalTripleSliceGone(ns) == [K \in SUBSET RowKeys |-> Each(Loaded(ns, K, SelectConditionalEndorsementTriple), DeleteConditionalEndorsementTriple)]
SeriesRecordGone(n) ==
  [K \in SUBSET RowKeys |-> IF n.key \in K THEN DeleteConditionalEndorsementSeriesRecord(SelectConditionalEndorsementSeriesRecord(n, K)) ELSE <<>>]
SeriesRecordSliceGone(ns) == [K \in SUBSET RowKeys |-> Each(Loaded(ns, K, SelectConditionalEndorsementSeriesRecord), DeleteConditionalEndorsementSeriesRecord)]
SeriesTripleGone(n) ==
  [K \in SUBSET RowKeys |-> IF n.key \in K THEN DeleteConditionalEndorsementSeriesTriple(SelectConditionalEndorsementSeriesTriple(n, K)) ELSE <<>>]
SeriesTripleSliceGone(ns) == [K \in SUBSET RowKeys |-> Each(Loaded(ns, K, SelectConditionalEndorsementSeriesTriple), DeleteConditionalEndorsementSeriesTriple)]
MembershipTripleGone(n) ==
  [K \in SUBSET RowKeys |-> IF n.key \in K THEN DeleteDomainMembershipTriple(SelectDomainMembershipTriple(n, K)) ELSE <<>>]
MembershipTripleSliceGone(ns) == [K \in SUBSET RowKeys |-> Each(Loaded(ns, K, SelectDomainMembershipTriple), DeleteDomainMembershipTriple)]
DependencyTripleGone(n) ==
  [K \in SUBSET RowKeys |-> IF n.key \in K THEN DeleteDomainDependencyTriple(SelectDomainDependencyTriple(n, K)) ELSE <<>>]
DependencyTripleSliceGone(ns) == [K \in SUBSET RowKeys |-> Each(Loaded(ns, K, SelectDomainDependencyTriple), DeleteDomainDependencyTriple)]
ModuleTagGone(n) ==
  [K \in SUBSET RowKeys |-> IF n.key \in K THEN DeleteModuleTag(SelectModuleTag(n, K)) ELSE <<>>]
ModuleTagSliceGone(ns) == [K \in SUBSET RowKeys |-> Each(Loaded(ns, K, SelectModuleTag), DeleteModuleTag)]
ManifestGone(n) ==
  [K \in SUBSET RowKeys |-> IF n.key \in K THEN DeleteManifest(SelectManifest(n, K)) ELSE <<>>]

\* The same rows.
Alike(a, b) ==
  /\ Inserted(a) = Inserted(b) /\ WithEnv(a) = WithEnv(b)
  /\ InsertsOnce(a) <=> InsertsOnce(b)

Apart(a, b) == Inserted(a) \cap Inserted(b) = {}

ApartFrom(a, b, r) ==
  /\ InsertsOnce(r) <=> InsertsOnce(a) /\ InsertsOnce(b) /\ Apart(a, b)
  /\ \A c : Apart(r, c) <=> Apart(a, c) /\ Apart(b, c)

LEMMA JoinedApart ==
  ASSUME NEW a, NEW b, NEW r, Joined(a, b, r)
  PROVE  ApartFrom(a, b, r)
BY DEF Joined, Apart, ApartFrom

LEMMA JoinedNothing ==
  ASSUME NEW a
  PROVE  Joined(a, <<>>, a)
<1>1. Inserted(<<>>) = {} /\ WithEnv(<<>>) = {} /\ InsertsOnce(<<>>)
  BY DEF Inserted, WithEnv, InsertsOnce, ToSet
<1> QED BY <1>1 DEF Joined

LEMMA JoinedFurther ==
  ASSUME NEW x, NEW r, NEW t, Joined(x, r, t), NEW b, NEW u, Joined(r, b, u), NEW v, Joined(t, b, v)
  PROVE  Joined(x, u, v)
BY DEF Joined

\* The insert of a node with an environment looks for the environment first.
LEMMA FoundFirst ==
  ASSUME NEW n, HasRow(n), n.env \in Envs
  PROVE  /\ FindEnv(n) \o Insert(n) \in Seq(Additions(RowKeys))
         /\ Joined(Insert(n), <<>>, FindEnv(n) \o Insert(n))
<1>1. PICK f \in Seq(Additions(RowKeys)) :
        f = FindEnv(n) /\ Inserted(f) = {} /\ WithEnv(f) = {} /\ InsertsOnce(f)
  BY FindFacts
<1>2. PICK x \in Seq(Additions(RowKeys)) : x = Insert(n)
  BY InsertFacts
<1>3. PICK r \in Seq(Additions(RowKeys)) : r = f \o x /\ Joined(f, x, r)
  BY JoinedJoin
<1>4. Inserted(<<>>) = {} /\ WithEnv(<<>>) = {} /\ InsertsOnce(<<>>)
  BY DEF Inserted, WithEnv, InsertsOnce, ToSet
<1>5. Joined(x, <<>>, r)
  BY <1>1, <1>3, <1>4 DEF Joined
<1> QED BY <1>1, <1>2, <1>3, <1>5, Zenon

LEMMA NoneInserted == Inserted(<<>>) = {} /\ WithEnv(<<>>) = {} /\ InsertsOnce(<<>>)
BY DEF Inserted, WithEnv, InsertsOnce, ToSet

LEMMA JoinedOn ==
  ASSUME NEW x, NEW t, Joined(x, <<>>, t), NEW a, NEW u, Joined(t, a, u)
  PROVE  Joined(x, a, u)
BY NoneInserted DEF Joined

LEMMA EachNothing == Each(<<>>, Delete) = <<>>
<1>1. [i \in DOMAIN <<>> |-> Delete(<<>>[i])] = <<>>
  OBVIOUS
<1>2. Len(<<>>) = 0
  OBVIOUS
<1> QED BY <1>1, <1>2, FlattenNone DEF Each

Assoc(p, q, r) == (p \o q) \o r = p \o (q \o r)

LEMMA JoinAssoc ==
  ASSUME NEW S, NEW p \in Seq(S), NEW q \in Seq(S), NEW r \in Seq(S)
  PROVE  Assoc(p, q, r)
BY DEF Assoc

LEMMA OwnersIn ==
  ASSUME NEW n, n.key \in RowKeys, NEW b \in BOOLEAN
  PROVE  DeleteIfOrphaned(n, b) \in Seq(Removals)
<1>1. [do |-> "owners", key |-> n.key, checked |-> b] \in Removals
  BY DEF Removals
<1> QED BY <1>1 DEF DeleteIfOrphaned

LEMMA LeafUndone ==
  ASSUME NEW n \in AnyLeaves
  PROVE  Undoes(LeafGone(n), Insert(n))
<1>1. HasRow(n) /\ n.env = NoEnv
  BY DEF HasRow, AnyLeaves, LeavesIn
<1>2. PICK x \in Seq(Additions(RowKeys)) : x = Insert(n)
  BY <1>1, InsertFacts
<1>3. Joined(x, <<>>, x)
  BY JoinedNothing
<1>4. Undoes(Over(Nothing, n.key, Delete(n)), x)
  BY <1>1, <1>2, <1>3, UndoesNothing, RootUndone
<1>5. LeafGone(n) = Over(Nothing, n.key, Delete(n))
  <2>1. PICK d \in Seq(Removals) : d = Delete(n)
    BY <1>1, DeleteFacts DEF HasRow
  <2>2. <<>> \o d = d
    BY <2>1, JoinNothing
  <2> QED BY <2>1, <2>2 DEF LeafGone, Over, Nothing
<1> QED BY <1>2, <1>4, <1>5, Zenon

LEMMA DomainEntryUndone ==
  ASSUME NEW n \in DomainEntries
  PROVE  Undoes(DomainEntryGone(n), InsertDomainEntry(n))
<1>1. HasRow(n) /\ n.env # NoEnv /\ n.env \in Envs
  BY RowAssumption, OwnerTables DEF HasRow, DomainEntries, OwnerTable
<1>2. PICK x \in Seq(Additions(RowKeys)) : x = InsertDomainEntry(n) /\ Joined(Insert(n), <<>>, x)
  BY <1>1, FoundFirst DEF InsertDomainEntry
<1>4. Undoes(Over(Nothing, n.key, Delete(n) \o DeleteIfOrphaned(n, TRUE)), x)
  BY <1>1, <1>2, UndoesNothing, OwnerUndone
<1>5. DomainEntryGone(n) = Over(Nothing, n.key, Delete(n) \o DeleteIfOrphaned(n, TRUE))
  <2>1. PICK d \in Seq(Removals) : d = Delete(n) \o DeleteIfOrphaned(n, TRUE)
    BY <1>1, OrphanFacts DEF HasRow
  <2>2. <<>> \o d = d
    BY <2>1, JoinNothing
  <2> QED BY <2>1, <2>2 DEF DomainEntryGone, DeleteDomainEntry, Over, Nothing
<1> QED BY <1>2, <1>4, <1>5, Zenon

LEMMA LeafSliceUndone ==
  ASSUME NEW ns \in Seq(AnyLeaves)
  PROVE  Undoes(LeafSliceGone(ns), Each(ns, Insert))
<1>1. PICK ins : ins = [x \in AnyLeaves |-> Insert(x)]
  OBVIOUS
<1>2. PICK gd : gd = [x \in AnyLeaves |-> LeafGone(x)]
  OBVIOUS
<1>3. Gives(ins, AnyLeaves, Additions(RowKeys))
  <2>1. \A x \in AnyLeaves : Insert(x) \in Seq(Additions(RowKeys))
    BY AdditionsAdd, LeafInserted
  <2> QED BY <1>1, <2>1 DEF Gives
<1>4. \A x \in AnyLeaves : Undoes(gd[x], ins[x])
  BY <1>1, <1>2, LeafUndone
<1>5. Undoes(SliceOf(gd, AnyLeaves, ns), Mapped(ins, ns))
  BY <1>3, <1>4, SliceUndone
<1>6. Mapped(ins, ns) = Each(ns, Insert)
  <2>1. [i \in DOMAIN ns |-> ins[ns[i]]] = [i \in DOMAIN ns |-> Insert(ns[i])]
    BY <1>1
  <2> QED BY <2>1 DEF Mapped, Each
<1>7. ASSUME NEW K \in SUBSET RowKeys
      PROVE  Mapped([x \in AnyLeaves |-> gd[x][K]], ns) = Each(Here(ns, K), Delete)
  <2>1. PICK h : h = [x \in AnyLeaves |-> Delete(x)]
    OBVIOUS
  <2>2. Gives(h, AnyLeaves, Removals)
    <3>1. \A x \in AnyLeaves : Delete(x) \in Seq(Removals)
      BY RemovalsRemove, LeafDeleted
    <3> QED BY <2>1, <3>1 DEF Gives
  <2>3. [x \in AnyLeaves |-> gd[x][K]] = [x \in AnyLeaves |-> IF x.key \in K THEN h[x] ELSE <<>>]
    BY <1>2, <2>1 DEF LeafGone
  <2>4. Mapped(h, Here(ns, K)) = Mapped([x \in AnyLeaves |-> IF x.key \in K THEN h[x] ELSE <<>>], ns)
    BY <2>2, KeptSlice
  <2>5. PICK p \in Seq(AnyLeaves) : p = Here(ns, K)
    BY HereIn
  <2>6. Mapped(h, p) = Each(Here(ns, K), Delete)
    <3>1. [i \in DOMAIN p |-> h[p[i]]] = [i \in DOMAIN p |-> Delete(p[i])]
      BY <2>1
    <3> QED BY <2>5, <3>1 DEF Mapped, Each
  <2> QED BY <2>3, <2>4, <2>5, <2>6, Zenon
<1>8. SliceOf(gd, AnyLeaves, ns) = LeafSliceGone(ns)
  BY <1>7 DEF SliceOf, LeafSliceGone
<1> QED BY <1>5, <1>6, <1>8, Zenon

LEMMA DomainEntrySliceUndone ==
  ASSUME NEW ns \in Seq(DomainEntries)
  PROVE  Undoes(DomainEntrySliceGone(ns), Each(ns, InsertDomainEntry))
<1>1. PICK ins : ins = [x \in DomainEntries |-> InsertDomainEntry(x)]
  OBVIOUS
<1>2. PICK gd : gd = [x \in DomainEntries |-> DomainEntryGone(x)]
  OBVIOUS
<1>3. Gives(ins, DomainEntries, Additions(RowKeys))
  <2>1. \A x \in DomainEntries : InsertDomainEntry(x) \in Seq(Additions(RowKeys))
    BY AdditionsAdd, DomainEntryInserted
  <2> QED BY <1>1, <2>1 DEF Gives
<1>4. \A x \in DomainEntries : Undoes(gd[x], ins[x])
  BY <1>1, <1>2, DomainEntryUndone
<1>5. Undoes(SliceOf(gd, DomainEntries, ns), Mapped(ins, ns))
  BY <1>3, <1>4, SliceUndone
<1>6. Mapped(ins, ns) = Each(ns, InsertDomainEntry)
  <2>1. [i \in DOMAIN ns |-> ins[ns[i]]] = [i \in DOMAIN ns |-> InsertDomainEntry(ns[i])]
    BY <1>1
  <2> QED BY <2>1 DEF Mapped, Each
<1>7. ASSUME NEW K \in SUBSET RowKeys
      PROVE  Mapped([x \in DomainEntries |-> gd[x][K]], ns) = Each(Here(ns, K), DeleteDomainEntry)
  <2>1. PICK h : h = [x \in DomainEntries |-> DeleteDomainEntry(x)]
    OBVIOUS
  <2>2. Gives(h, DomainEntries, Removals)
    <3>1. \A x \in DomainEntries : DeleteDomainEntry(x) \in Seq(Removals)
      BY RemovalsRemove, DomainEntryDeleted
    <3> QED BY <2>1, <3>1 DEF Gives
  <2>3. [x \in DomainEntries |-> gd[x][K]] = [x \in DomainEntries |-> IF x.key \in K THEN h[x] ELSE <<>>]
    BY <1>2, <2>1 DEF DomainEntryGone
  <2>4. Mapped(h, Here(ns, K)) = Mapped([x \in DomainEntries |-> IF x.key \in K THEN h[x] ELSE <<>>], ns)
    BY <2>2, KeptSlice
  <2>5. PICK p \in Seq(DomainEntries) : p = Here(ns, K)
    BY HereIn
  <2>6. Mapped(h, p) = Each(Here(ns, K), DeleteDomainEntry)
    <3>1. [i \in DOMAIN p |-> h[p[i]]] = [i \in DOMAIN p |-> DeleteDomainEntry(p[i])]
      BY <2>1
    <3> QED BY <2>5, <3>1 DEF Mapped, Each
  <2> QED BY <2>3, <2>4, <2>5, <2>6, Zenon
<1>8. SliceOf(gd, DomainEntries, ns) = DomainEntrySliceGone(ns)
  BY <1>7 DEF SliceOf, DomainEntrySliceGone
<1> QED BY <1>5, <1>6, <1>8, Zenon

LEMMA EntityUndone ==
  ASSUME NEW n \in Entities
  PROVE  Undoes(EntityGone(n), InsertEntity(n))
<1>1. HasRow(n) /\ n.env = NoEnv
  BY DEF HasRow, Entities, Reached, AllTables
<1>2. PICK t0 \in Seq(Additions(RowKeys)) : t0 = Insert(n) /\ Joined(Insert(n), <<>>, t0)
  BY <1>1, InsertFacts, JoinedNothing
<1>3. PICK a1, D1 :
        a1 \in Seq(Additions(RowKeys)) /\ a1 = Each(n.RoleEntries, Insert) /\ D1 = LeafSliceGone(n.RoleEntries) /\ Undoes(D1, a1)
  <2>1. n.RoleEntries \in Seq(AnyLeaves)
    BY AnyLeaf DEF Entities
  <2>2. Each(n.RoleEntries, Insert) \in Seq(Additions(RowKeys))
    BY <2>1, AdditionsAdd, EachInserted
  <2> QED BY <2>1, <2>2, LeafSliceUndone, Zenon
<1>4. PICK a2, D2 :
        a2 \in Seq(Additions(RowKeys)) /\ a2 = Each(n.Extensions, Insert) /\ D2 = LeafSliceGone(n.Extensions) /\ Undoes(D2, a2)
  <2>1. n.Extensions \in Seq(AnyLeaves)
    BY AnyLeaf DEF Entities
  <2>2. Each(n.Extensions, Insert) \in Seq(Additions(RowKeys))
    BY <2>1, AdditionsAdd, EachInserted
  <2> QED BY <2>1, <2>2, LeafSliceUndone, Zenon
<1>5. PICK t1 \in Seq(Additions(RowKeys)) : t1 = t0 \o a1 /\ Joined(t0, a1, t1)
  BY <1>2, <1>3, JoinedJoin
<1>6. PICK t2 \in Seq(Additions(RowKeys)) : t2 = t1 \o a2 /\ Joined(t1, a2, t2)
  BY <1>5, <1>4, JoinedJoin
<1>7. PICK r1 \in Seq(Additions(RowKeys)) : r1 = a2
  BY <1>4
<1>8. PICK r2 \in Seq(Additions(RowKeys)) : Joined(r1, a1, r2)
  BY <1>7, <1>3, JoinedJoin
<1>9. PICK q1 \in Seq(Additions(RowKeys)) : q1 = a1
  BY <1>3
<1>10. PICK q2 \in Seq(Additions(RowKeys)) : Joined(q1, a2, q2)
  BY <1>9, <1>4, JoinedJoin
<1>11. Joined(Insert(n), q1, t1)
  BY <1>2, <1>5, <1>9, JoinedOn
<1>12. Joined(Insert(n), q2, t2)
  BY <1>11, <1>6, <1>10 DEF Joined
<1>13. Alike(q2, r2)
  BY <1>9, <1>10, <1>7, <1>8 DEF Joined, Alike
<1>14. Joined(Insert(n), r2, t2)
  BY <1>12, <1>13 DEF Joined, Alike
<1>15. PICK B1 : B1 = D2 /\ Undoes(B1, r1)
  BY <1>7, <1>4
<1>16. PICK B2 : B2 = Both(B1, D1) /\ Undoes(B2, r2)
  BY <1>15, <1>8, <1>3, UndoesJoin
<1>17. Undoes(Over(B2, n.key, Delete(n)), t2)
  BY <1>1, <1>16, <1>14, RootUndone
<1>18. t2 = InsertEntity(n)
  BY <1>2, <1>3, <1>4, <1>5, <1>6, Zenon DEF InsertEntity
<1>19. ASSUME NEW K \in SUBSET RowKeys
      PROVE  DeleteEntity(SelectEntity(n, K)) = B2[K] \o Delete(n)
  <2>1. PICK l : l = SelectEntity(n, K) /\ l.key = n.key
    <3>1. SelectEntity(n, K).key = n.key
      BY DEF SelectEntity, Entities
    <3> QED BY <3>1, Zenon
  <2>2. PICK p1 \in Seq(Removals) : p1 = D1[K] /\ p1 = Each(l.RoleEntries, Delete)
    <3>1. l.RoleEntries = Here(n.RoleEntries, K)
      BY <2>1 DEF SelectEntity, Entities
    <3>2. D1[K] = Each(Here(n.RoleEntries, K), Delete)
      BY <1>3 DEF LeafSliceGone
    <3>3. D1[K] \in Seq(Removals)
      BY <1>3 DEF Undoes
    <3> QED BY <3>1, <3>2, <3>3, Zenon
  <2>3. PICK p2 \in Seq(Removals) : p2 = D2[K] /\ p2 = Each(l.Extensions, Delete)
    <3>1. l.Extensions = Here(n.Extensions, K)
      BY <2>1 DEF SelectEntity, Entities
    <3>2. D2[K] = Each(Here(n.Extensions, K), Delete)
      BY <1>4 DEF LeafSliceGone
    <3>3. D2[K] \in Seq(Removals)
      BY <1>4 DEF Undoes
    <3> QED BY <3>1, <3>2, <3>3, Zenon
  <2>4. PICK c1 \in Seq(Removals) : c1 = B1[K] /\ c1 = p2
    BY <1>15, <2>3
  <2>5. PICK c2 \in Seq(Removals) : c2 = B2[K] /\ c2 = c1 \o p1
    <3>1. B2[K] = B1[K] \o D1[K]
      BY <1>16 DEF Both
    <3>2. B2[K] \in Seq(Removals)
      BY <1>16 DEF Undoes
    <3> QED BY <3>1, <3>2, <2>4, <2>2, Zenon
  <2>6. Delete(l) = Delete(n)
    BY <2>1 DEF Delete
  <2>7. DeleteEntity(l) = c2 \o Delete(n)
    BY <2>1, <2>2, <2>3, <2>4, <2>5, <2>6, Zenon DEF DeleteEntity
  <2> QED BY <2>1, <2>5, <2>7, Zenon
<1>20. EntityGone(n) = Over(B2, n.key, Delete(n))
  BY <1>19 DEF EntityGone, Over
<1> QED BY <1>17, <1>18, <1>20, Zenon

LEMMA EntitySliceUndone ==
  ASSUME NEW ns \in Seq(Entities)
  PROVE  Undoes(EntitySliceGone(ns), Each(ns, InsertEntity))
<1>1. PICK ins : ins = [x \in Entities |-> InsertEntity(x)]
  OBVIOUS
<1>2. PICK gd : gd = [x \in Entities |-> EntityGone(x)]
  OBVIOUS
<1>3. Gives(ins, Entities, Additions(RowKeys))
  <2>1. \A x \in Entities : InsertEntity(x) \in Seq(Additions(RowKeys))
    BY AdditionsAdd, EntityInserted
  <2> QED BY <1>1, <2>1 DEF Gives
<1>4. \A x \in Entities : Undoes(gd[x], ins[x])
  BY <1>1, <1>2, EntityUndone
<1>5. Undoes(SliceOf(gd, Entities, ns), Mapped(ins, ns))
  BY <1>3, <1>4, SliceUndone
<1>6. Mapped(ins, ns) = Each(ns, InsertEntity)
  <2>1. [i \in DOMAIN ns |-> ins[ns[i]]] = [i \in DOMAIN ns |-> InsertEntity(ns[i])]
    BY <1>1
  <2> QED BY <2>1 DEF Mapped, Each
<1>7. ASSUME NEW K \in SUBSET RowKeys
      PROVE  Mapped([x \in Entities |-> gd[x][K]], ns) = Each(Loaded(ns, K, SelectEntity), DeleteEntity)
  <2>1. PICK h : h = [x \in Entities |-> DeleteEntity(SelectEntity(x, K))]
    OBVIOUS
  <2>2. Gives(h, Entities, Removals)
    <3>1. \A x \in Entities : DeleteEntity(SelectEntity(x, K)) \in Seq(Removals)
      BY RemovalsRemove, EntityDeleted, SelectEntityIn
    <3> QED BY <2>1, <3>1 DEF Gives
  <2>3. [x \in Entities |-> gd[x][K]] = [x \in Entities |-> IF x.key \in K THEN h[x] ELSE <<>>]
    BY <1>2, <2>1 DEF EntityGone
  <2>4. Mapped(h, Here(ns, K)) = Mapped([x \in Entities |-> IF x.key \in K THEN h[x] ELSE <<>>], ns)
    BY <2>2, KeptSlice
  <2>5. PICK p \in Seq(Entities) : p = Here(ns, K)
    BY HereIn
  <2>6. Mapped(h, p) = Each(Loaded(ns, K, SelectEntity), DeleteEntity)
    <3>1. [i \in DOMAIN p |-> h[p[i]]] = [i \in DOMAIN p |-> DeleteEntity(SelectEntity(p[i], K))]
      BY <2>1
    <3>2. PICK q : q = [i \in DOMAIN p |-> SelectEntity(p[i], K)]
      OBVIOUS
    <3>3. Loaded(ns, K, SelectEntity) = q
      BY <2>5, <3>2 DEF Loaded
    <3>4. [i \in DOMAIN p |-> DeleteEntity(SelectEntity(p[i], K))] = [i \in DOMAIN q |-> DeleteEntity(q[i])]
      BY <3>2
    <3> QED BY <3>1, <3>3, <3>4 DEF Mapped, Each
  <2> QED BY <2>3, <2>4, <2>5, <2>6, Zenon
<1>8. SliceOf(gd, Entities, ns) = EntitySliceGone(ns)
  BY <1>7 DEF SliceOf, EntitySliceGone
<1> QED BY <1>5, <1>6, <1>8, Zenon

LEMMA LocatorUndone ==
  ASSUME NEW n \in Locators
  PROVE  Undoes(LocatorGone(n), InsertLocator(n))
<1>1. HasRow(n) /\ n.env = NoEnv
  BY DEF HasRow, Locators, Reached, AllTables
<1>2. PICK t0 \in Seq(Additions(RowKeys)) : t0 = Insert(n) /\ Joined(Insert(n), <<>>, t0)
  BY <1>1, InsertFacts, JoinedNothing
<1>3. PICK a1, D1 :
        a1 \in Seq(Additions(RowKeys)) /\ a1 = Each(n.Href, Insert) /\ D1 = LeafSliceGone(n.Href) /\ Undoes(D1, a1)
  <2>1. n.Href \in Seq(AnyLeaves)
    BY AnyLeaf DEF Locators
  <2>2. Each(n.Href, Insert) \in Seq(Additions(RowKeys))
    BY <2>1, AdditionsAdd, EachInserted
  <2> QED BY <2>1, <2>2, LeafSliceUndone, Zenon
<1>4. PICK a2, D2 :
        a2 \in Seq(Additions(RowKeys)) /\ a2 = Each(n.Thumbprint, Insert) /\ D2 = LeafSliceGone(n.Thumbprint) /\ Undoes(D2, a2)
  <2>1. n.Thumbprint \in Seq(AnyLeaves)
    BY AnyLeaf DEF Locators
  <2>2. Each(n.Thumbprint, Insert) \in Seq(Additions(RowKeys))
    BY <2>1, AdditionsAdd, EachInserted
  <2> QED BY <2>1, <2>2, LeafSliceUndone, Zenon
<1>5. PICK t1 \in Seq(Additions(RowKeys)) : t1 = t0 \o a1 /\ Joined(t0, a1, t1)
  BY <1>2, <1>3, JoinedJoin
<1>6. PICK t2 \in Seq(Additions(RowKeys)) : t2 = t1 \o a2 /\ Joined(t1, a2, t2)
  BY <1>5, <1>4, JoinedJoin
<1>7. PICK r1 \in Seq(Additions(RowKeys)) : r1 = a1
  BY <1>3
<1>8. PICK r2 \in Seq(Additions(RowKeys)) : Joined(r1, a2, r2)
  BY <1>7, <1>4, JoinedJoin
<1>9. Joined(Insert(n), r1, t1)
  BY <1>2, <1>5, <1>7, <1>3, JoinedOn
<1>10. Joined(Insert(n), r2, t2)
  BY <1>9, <1>6, <1>8 DEF Joined
<1>11. PICK B1 : B1 = D1 /\ Undoes(B1, r1)
  BY <1>7, <1>3
<1>12. PICK B2 : B2 = Both(B1, D2) /\ Undoes(B2, r2)
  BY <1>11, <1>8, <1>4, UndoesJoin
<1>13. Undoes(Over(B2, n.key, Delete(n)), t2)
  BY <1>1, <1>12, <1>10, RootUndone
<1>14. t2 = InsertLocator(n)
  BY <1>2, <1>3, <1>4, <1>5, <1>6, Zenon DEF InsertLocator
<1>15. ASSUME NEW K \in SUBSET RowKeys
      PROVE  DeleteLocator(SelectLocator(n, K)) = B2[K] \o Delete(n)
  <2>1. PICK l : l = SelectLocator(n, K) /\ l.key = n.key
    <3>1. SelectLocator(n, K).key = n.key
      BY DEF SelectLocator, Locators
    <3> QED BY <3>1, Zenon
  <2>2. PICK p1 \in Seq(Removals) : p1 = D1[K] /\ p1 = Each(l.Href, Delete)
    <3>1. l.Href = Here(n.Href, K)
      BY <2>1 DEF SelectLocator, Locators
    <3>2. D1[K] = Each(Here(n.Href, K), Delete)
      BY <1>3 DEF LeafSliceGone
    <3>3. D1[K] \in Seq(Removals)
      BY <1>3 DEF Undoes
    <3> QED BY <3>1, <3>2, <3>3, Zenon
  <2>3. PICK p2 \in Seq(Removals) : p2 = D2[K] /\ p2 = Each(l.Thumbprint, Delete)
    <3>1. l.Thumbprint = Here(n.Thumbprint, K)
      BY <2>1 DEF SelectLocator, Locators
    <3>2. D2[K] = Each(Here(n.Thumbprint, K), Delete)
      BY <1>4 DEF LeafSliceGone
    <3>3. D2[K] \in Seq(Removals)
      BY <1>4 DEF Undoes
    <3> QED BY <3>1, <3>2, <3>3, Zenon
  <2>4. PICK c1 \in Seq(Removals) : c1 = B1[K] /\ c1 = p1
    BY <1>11, <2>2
  <2>5. PICK c2 \in Seq(Removals) : c2 = B2[K] /\ c2 = c1 \o p2
    <3>1. B2[K] = B1[K] \o D2[K]
      BY <1>12 DEF Both
    <3>2. B2[K] \in Seq(Removals)
      BY <1>12 DEF Undoes
    <3> QED BY <3>1, <3>2, <2>4, <2>3, Zenon
  <2>6. Delete(l) = Delete(n)
    BY <2>1 DEF Delete
  <2>7. DeleteLocator(l) = c2 \o Delete(n)
    BY <2>1, <2>2, <2>3, <2>4, <2>5, <2>6, Zenon DEF DeleteLocator
  <2> QED BY <2>1, <2>5, <2>7, Zenon
<1>16. LocatorGone(n) = Over(B2, n.key, Delete(n))
  BY <1>15 DEF LocatorGone, Over
<1> QED BY <1>13, <1>14, <1>16, Zenon

LEMMA LocatorSliceUndone ==
  ASSUME NEW ns \in Seq(Locators)
  PROVE  Undoes(LocatorSliceGone(ns), Each(ns, InsertLocator))
<1>1. PICK ins : ins = [x \in Locators |-> InsertLocator(x)]
  OBVIOUS
<1>2. PICK gd : gd = [x \in Locators |-> LocatorGone(x)]
  OBVIOUS
<1>3. Gives(ins, Locators, Additions(RowKeys))
  <2>1. \A x \in Locators : InsertLocator(x) \in Seq(Additions(RowKeys))
    BY AdditionsAdd, LocatorInserted
  <2> QED BY <1>1, <2>1 DEF Gives
<1>4. \A x \in Locators : Undoes(gd[x], ins[x])
  BY <1>1, <1>2, LocatorUndone
<1>5. Undoes(SliceOf(gd, Locators, ns), Mapped(ins, ns))
  BY <1>3, <1>4, SliceUndone
<1>6. Mapped(ins, ns) = Each(ns, InsertLocator)
  <2>1. [i \in DOMAIN ns |-> ins[ns[i]]] = [i \in DOMAIN ns |-> InsertLocator(ns[i])]
    BY <1>1
  <2> QED BY <2>1 DEF Mapped, Each
<1>7. ASSUME NEW K \in SUBSET RowKeys
      PROVE  Mapped([x \in Locators |-> gd[x][K]], ns) = Each(Loaded(ns, K, SelectLocator), DeleteLocator)
  <2>1. PICK h : h = [x \in Locators |-> DeleteLocator(SelectLocator(x, K))]
    OBVIOUS
  <2>2. Gives(h, Locators, Removals)
    <3>1. \A x \in Locators : DeleteLocator(SelectLocator(x, K)) \in Seq(Removals)
      BY RemovalsRemove, LocatorDeleted, SelectLocatorIn
    <3> QED BY <2>1, <3>1 DEF Gives
  <2>3. [x \in Locators |-> gd[x][K]] = [x \in Locators |-> IF x.key \in K THEN h[x] ELSE <<>>]
    BY <1>2, <2>1 DEF LocatorGone
  <2>4. Mapped(h, Here(ns, K)) = Mapped([x \in Locators |-> IF x.key \in K THEN h[x] ELSE <<>>], ns)
    BY <2>2, KeptSlice
  <2>5. PICK p \in Seq(Locators) : p = Here(ns, K)
    BY HereIn
  <2>6. Mapped(h, p) = Each(Loaded(ns, K, SelectLocator), DeleteLocator)
    <3>1. [i \in DOMAIN p |-> h[p[i]]] = [i \in DOMAIN p |-> DeleteLocator(SelectLocator(p[i], K))]
      BY <2>1
    <3>2. PICK q : q = [i \in DOMAIN p |-> SelectLocator(p[i], K)]
      OBVIOUS
    <3>3. Loaded(ns, K, SelectLocator) = q
      BY <2>5, <3>2 DEF Loaded
    <3>4. [i \in DOMAIN p |-> DeleteLocator(SelectLocator(p[i], K))] = [i \in DOMAIN q |-> DeleteLocator(q[i])]
      BY <3>2
    <3> QED BY <3>1, <3>3, <3>4 DEF Mapped, Each
  <2> QED BY <2>3, <2>4, <2>5, <2>6, Zenon
<1>8. SliceOf(gd, Locators, ns) = LocatorSliceGone(ns)
  BY <1>7 DEF SliceOf, LocatorSliceGone
<1> QED BY <1>5, <1>6, <1>8, Zenon

LEMMA IntegrityRegisterUndone ==
  ASSUME NEW n \in IntegrityRegisters
  PROVE  Undoes(IntegrityRegisterGone(n), InsertIntegrityRegister(n))
<1>1. HasRow(n) /\ n.env = NoEnv
  BY DEF HasRow, IntegrityRegisters, Reached, AllTables
<1>2. PICK t0 \in Seq(Additions(RowKeys)) : t0 = Insert(n) /\ Joined(Insert(n), <<>>, t0)
  BY <1>1, InsertFacts, JoinedNothing
<1>3. PICK a1, D1 :
        a1 \in Seq(Additions(RowKeys)) /\ a1 = Each(n.Digests, Insert) /\ D1 = LeafSliceGone(n.Digests) /\ Undoes(D1, a1)
  <2>1. n.Digests \in Seq(AnyLeaves)
    BY AnyLeaf DEF IntegrityRegisters
  <2>2. Each(n.Digests, Insert) \in Seq(Additions(RowKeys))
    BY <2>1, AdditionsAdd, EachInserted
  <2> QED BY <2>1, <2>2, LeafSliceUndone, Zenon
<1>4. PICK t1 \in Seq(Additions(RowKeys)) : t1 = t0 \o a1 /\ Joined(t0, a1, t1)
  BY <1>2, <1>3, JoinedJoin
<1>5. PICK r1 \in Seq(Additions(RowKeys)) : r1 = a1
  BY <1>3
<1>6. Joined(Insert(n), r1, t1)
  BY <1>2, <1>4, <1>5, <1>3, JoinedOn
<1>7. PICK B1 : B1 = D1 /\ Undoes(B1, r1)
  BY <1>5, <1>3
<1>8. Undoes(Over(B1, n.key, Delete(n)), t1)
  BY <1>1, <1>7, <1>6, RootUndone
<1>9. t1 = InsertIntegrityRegister(n)
  BY <1>2, <1>3, <1>4, Zenon DEF InsertIntegrityRegister
<1>10. ASSUME NEW K \in SUBSET RowKeys
      PROVE  DeleteIntegrityRegister(SelectIntegrityRegister(n, K)) = B1[K] \o Delete(n)
  <2>1. PICK l : l = SelectIntegrityRegister(n, K) /\ l.key = n.key
    <3>1. SelectIntegrityRegister(n, K).key = n.key
      BY DEF SelectIntegrityRegister, IntegrityRegisters
    <3> QED BY <3>1, Zenon
  <2>2. PICK p1 \in Seq(Removals) : p1 = D1[K] /\ p1 = Each(l.Digests, Delete)
    <3>1. l.Digests = Here(n.Digests, K)
      BY <2>1 DEF SelectIntegrityRegister, IntegrityRegisters
    <3>2. D1[K] = Each(Here(n.Digests, K), Delete)
      BY <1>3 DEF LeafSliceGone
    <3>3. D1[K] \in Seq(Removals)
      BY <1>3 DEF Undoes
    <3> QED BY <3>1, <3>2, <3>3, Zenon
  <2>3. PICK c1 \in Seq(Removals) : c1 = B1[K] /\ c1 = p1
    BY <1>7, <2>2
  <2>4. Delete(l) = Delete(n)
    BY <2>1 DEF Delete
  <2>5. DeleteIntegrityRegister(l) = c1 \o Delete(n)
    BY <2>1, <2>2, <2>3, <2>4, Zenon DEF DeleteIntegrityRegister
  <2> QED BY <2>1, <2>3, <2>5, Zenon
<1>11. IntegrityRegisterGone(n) = Over(B1, n.key, Delete(n))
  BY <1>10 DEF IntegrityRegisterGone, Over
<1> QED BY <1>8, <1>9, <1>11, Zenon

LEMMA IntegrityRegisterSliceUndone ==
  ASSUME NEW ns \in Seq(IntegrityRegisters)
  PROVE  Undoes(IntegrityRegisterSliceGone(ns), Each(ns, InsertIntegrityRegister))
<1>1. PICK ins : ins = [x \in IntegrityRegisters |-> InsertIntegrityRegister(x)]
  OBVIOUS
<1>2. PICK gd : gd = [x \in IntegrityRegisters |-> IntegrityRegisterGone(x)]
  OBVIOUS
<1>3. Gives(ins, IntegrityRegisters, Additions(RowKeys))
  <2>1. \A x \in IntegrityRegisters : InsertIntegrityRegister(x) \in Seq(Additions(RowKeys))
    BY AdditionsAdd, IntegrityRegisterInserted
  <2> QED BY <1>1, <2>1 DEF Gives
<1>4. \A x \in IntegrityRegisters : Undoes(gd[x], ins[x])
  BY <1>1, <1>2, IntegrityRegisterUndone
<1>5. Undoes(SliceOf(gd, IntegrityRegisters, ns), Mapped(ins, ns))
  BY <1>3, <1>4, SliceUndone
<1>6. Mapped(ins, ns) = Each(ns, InsertIntegrityRegister)
  <2>1. [i \in DOMAIN ns |-> ins[ns[i]]] = [i \in DOMAIN ns |-> InsertIntegrityRegister(ns[i])]
    BY <1>1
  <2> QED BY <2>1 DEF Mapped, Each
<1>7. ASSUME NEW K \in SUBSET RowKeys
      PROVE  Mapped([x \in IntegrityRegisters |-> gd[x][K]], ns) = Each(Loaded(ns, K, SelectIntegrityRegister), DeleteIntegrityRegister)
  <2>1. PICK h : h = [x \in IntegrityRegisters |-> DeleteIntegrityRegister(SelectIntegrityRegister(x, K))]
    OBVIOUS
  <2>2. Gives(h, IntegrityRegisters, Removals)
    <3>1. \A x \in IntegrityRegisters : DeleteIntegrityRegister(SelectIntegrityRegister(x, K)) \in Seq(Removals)
      BY RemovalsRemove, IntegrityRegisterDeleted, SelectIntegrityRegisterIn
    <3> QED BY <2>1, <3>1 DEF Gives
  <2>3. [x \in IntegrityRegisters |-> gd[x][K]] = [x \in IntegrityRegisters |-> IF x.key \in K THEN h[x] ELSE <<>>]
    BY <1>2, <2>1 DEF IntegrityRegisterGone
  <2>4. Mapped(h, Here(ns, K)) = Mapped([x \in IntegrityRegisters |-> IF x.key \in K THEN h[x] ELSE <<>>], ns)
    BY <2>2, KeptSlice
  <2>5. PICK p \in Seq(IntegrityRegisters) : p = Here(ns, K)
    BY HereIn
  <2>6. Mapped(h, p) = Each(Loaded(ns, K, SelectIntegrityRegister), DeleteIntegrityRegister)
    <3>1. [i \in DOMAIN p |-> h[p[i]]] = [i \in DOMAIN p |-> DeleteIntegrityRegister(SelectIntegrityRegister(p[i], K))]
      BY <2>1
    <3>2. PICK q : q = [i \in DOMAIN p |-> SelectIntegrityRegister(p[i], K)]
      OBVIOUS
    <3>3. Loaded(ns, K, SelectIntegrityRegister) = q
      BY <2>5, <3>2 DEF Loaded
    <3>4. [i \in DOMAIN p |-> DeleteIntegrityRegister(SelectIntegrityRegister(p[i], K))] = [i \in DOMAIN q |-> DeleteIntegrityRegister(q[i])]
      BY <3>2
    <3> QED BY <3>1, <3>3, <3>4 DEF Mapped, Each
  <2> QED BY <2>3, <2>4, <2>5, <2>6, Zenon
<1>8. SliceOf(gd, IntegrityRegisters, ns) = IntegrityRegisterSliceGone(ns)
  BY <1>7 DEF SliceOf, IntegrityRegisterSliceGone
<1> QED BY <1>5, <1>6, <1>8, Zenon

LEMMA MeasurementUndone ==
  ASSUME NEW n \in Measurements
  PROVE  Undoes(MeasurementGone(n), InsertMeasurement(n))
<1>1. HasRow(n) /\ n.env = NoEnv
  BY DEF HasRow, Measurements, Reached, AllTables
<1>2. PICK t0 \in Seq(Additions(RowKeys)) : t0 = Insert(n) /\ Joined(Insert(n), <<>>, t0)
  BY <1>1, InsertFacts, JoinedNothing
<1>3. PICK a1, D1 :
        a1 \in Seq(Additions(RowKeys)) /\ a1 = Each(n.ValueEntries, Insert) /\ D1 = LeafSliceGone(n.ValueEntries) /\ Undoes(D1, a1)
  <2>1. n.ValueEntries \in Seq(AnyLeaves)
    BY AnyLeaf DEF Measurements
  <2>2. Each(n.ValueEntries, Insert) \in Seq(Additions(RowKeys))
    BY <2>1, AdditionsAdd, EachInserted
  <2> QED BY <2>1, <2>2, LeafSliceUndone, Zenon
<1>4. PICK a2, D2 :
        a2 \in Seq(Additions(RowKeys)) /\ a2 = Each(n.Digests, Insert) /\ D2 = LeafSliceGone(n.Digests) /\ Undoes(D2, a2)
  <2>1. n.Digests \in Seq(AnyLeaves)
    BY AnyLeaf DEF Measurements
  <2>2. Each(n.Digests, Insert) \in Seq(Additions(RowKeys))
    BY <2>1, AdditionsAdd, EachInserted
  <2> QED BY <2>1, <2>2, LeafSliceUndone, Zenon
<1>5. PICK a3, D3 :
        a3 \in Seq(Additions(RowKeys)) /\ a3 = Each(n.Flags, Insert) /\ D3 = LeafSliceGone(n.Flags) /\ Undoes(D3, a3)
  <2>1. n.Flags \in Seq(AnyLeaves)
    BY AnyLeaf DEF Measurements
  <2>2. Each(n.Flags, Insert) \in Seq(Additions(RowKeys))
    BY <2>1, AdditionsAdd, EachInserted
  <2> QED BY <2>1, <2>2, LeafSliceUndone, Zenon
<1>6. PICK a4, D4 :
        a4 \in Seq(Additions(RowKeys)) /\ a4 = Each(n.IntegrityRegisters, InsertIntegrityRegister) /\ D4 = IntegrityRegisterSliceGone(n.IntegrityRegisters) /\ Undoes(D4, a4)
  <2>1. n.IntegrityRegisters \in Seq(IntegrityRegisters)
    BY DEF Measurements
  <2>2. Each(n.IntegrityRegisters, InsertIntegrityRegister) \in Seq(Additions(RowKeys))
    BY <2>1, AdditionsAdd, EachIntegrityRegisterInserted
  <2> QED BY <2>1, <2>2, IntegrityRegisterSliceUndone, Zenon
<1>7. PICK a5, D5 :
        a5 \in Seq(Additions(RowKeys)) /\ a5 = Each(n.Extensions, Insert) /\ D5 = LeafSliceGone(n.Extensions) /\ Undoes(D5, a5)
  <2>1. n.Extensions \in Seq(AnyLeaves)
    BY AnyLeaf DEF Measurements
  <2>2. Each(n.Extensions, Insert) \in Seq(Additions(RowKeys))
    BY <2>1, AdditionsAdd, EachInserted
  <2> QED BY <2>1, <2>2, LeafSliceUndone, Zenon
<1>8. PICK a6, D6 :
        a6 \in Seq(Additions(RowKeys)) /\ a6 = Each(n.CryptoKeys, Insert) /\ D6 = Nothing /\ Undoes(D6, a6)
  <2>1. n.CryptoKeys \in Seq(AnyLeaves)
    BY AnyLeaf DEF Measurements
  <2>2. Each(n.CryptoKeys, Insert) \in Seq(Additions(RowKeys))
    BY <2>1, AdditionsAdd, EachInserted
  <2> QED BY <2>1, <2>2, UndoesNothing, Zenon
<1>9. PICK a7, D7 :
        a7 \in Seq(Additions(RowKeys)) /\ a7 = Each(n.AuthorizedBy, Insert) /\ D7 = LeafSliceGone(n.AuthorizedBy) /\ Undoes(D7, a7)
  <2>1. n.AuthorizedBy \in Seq(AnyLeaves)
    BY AnyLeaf DEF Measurements
  <2>2. Each(n.AuthorizedBy, Insert) \in Seq(Additions(RowKeys))
    BY <2>1, AdditionsAdd, EachInserted
  <2> QED BY <2>1, <2>2, LeafSliceUndone, Zenon
<1>10. PICK t1 \in Seq(Additions(RowKeys)) : t1 = t0 \o a1 /\ Joined(t0, a1, t1)
  BY <1>2, <1>3, JoinedJoin
<1>11. PICK t2 \in Seq(Additions(RowKeys)) : t2 = t1 \o a2 /\ Joined(t1, a2, t2)
  BY <1>10, <1>4, JoinedJoin
<1>12. PICK t3 \in Seq(Additions(RowKeys)) : t3 = t2 \o a3 /\ Joined(t2, a3, t3)
  BY <1>11, <1>5, JoinedJoin
<1>13. PICK t4 \in Seq(Additions(RowKeys)) : t4 = t3 \o a4 /\ Joined(t3, a4, t4)
  BY <1>12, <1>6, JoinedJoin
<1>14. PICK t5 \in Seq(Additions(RowKeys)) : t5 = t4 \o a5 /\ Joined(t4, a5, t5)
  BY <1>13, <1>7, JoinedJoin
<1>15. PICK t6 \in Seq(Additions(RowKeys)) : t6 = t5 \o a6 /\ Joined(t5, a6, t6)
  BY <1>14, <1>8, JoinedJoin
<1>16. PICK t7 \in Seq(Additions(RowKeys)) : t7 = t6 \o a7 /\ Joined(t6, a7, t7)
  BY <1>15, <1>9, JoinedJoin
<1>17. PICK r1 \in Seq(Additions(RowKeys)) : r1 = a7
  BY <1>9
<1>18. PICK r2 \in Seq(Additions(RowKeys)) : Joined(r1, a6, r2)
  BY <1>17, <1>8, JoinedJoin
<1>19. PICK r3 \in Seq(Additions(RowKeys)) : Joined(r2, a2, r3)
  BY <1>18, <1>4, JoinedJoin
<1>20. PICK r4 \in Seq(Additions(RowKeys)) : Joined(r3, a3, r4)
  BY <1>19, <1>5, JoinedJoin
<1>21. PICK r5 \in Seq(Additions(RowKeys)) : Joined(r4, a4, r5)
  BY <1>20, <1>6, JoinedJoin
<1>22. PICK r6 \in Seq(Additions(RowKeys)) : Joined(r5, a1, r6)
  BY <1>21, <1>3, JoinedJoin
<1>23. PICK r7 \in Seq(Additions(RowKeys)) : Joined(r6, a5, r7)
  BY <1>22, <1>7, JoinedJoin
<1>24. PICK q1 \in Seq(Additions(RowKeys)) : q1 = a1
  BY <1>3
<1>25. PICK q2 \in Seq(Additions(RowKeys)) : Joined(q1, a2, q2)
  BY <1>24, <1>4, JoinedJoin
<1>26. PICK q3 \in Seq(Additions(RowKeys)) : Joined(q2, a3, q3)
  BY <1>25, <1>5, JoinedJoin
<1>27. PICK q4 \in Seq(Additions(RowKeys)) : Joined(q3, a4, q4)
  BY <1>26, <1>6, JoinedJoin
<1>28. PICK q5 \in Seq(Additions(RowKeys)) : Joined(q4, a5, q5)
  BY <1>27, <1>7, JoinedJoin
<1>29. PICK q6 \in Seq(Additions(RowKeys)) : Joined(q5, a6, q6)
  BY <1>28, <1>8, JoinedJoin
<1>30. PICK q7 \in Seq(Additions(RowKeys)) : Joined(q6, a7, q7)
  BY <1>29, <1>9, JoinedJoin
<1>31. Joined(Insert(n), q1, t1)
  BY <1>2, <1>10, <1>24, JoinedOn
<1>32. Joined(Insert(n), q2, t2)
  BY <1>31, <1>11, <1>25 DEF Joined
<1>33. Joined(Insert(n), q3, t3)
  BY <1>32, <1>12, <1>26 DEF Joined
<1>34. Joined(Insert(n), q4, t4)
  BY <1>33, <1>13, <1>27 DEF Joined
<1>35. Joined(Insert(n), q5, t5)
  BY <1>34, <1>14, <1>28 DEF Joined
<1>36. Joined(Insert(n), q6, t6)
  BY <1>35, <1>15, <1>29 DEF Joined
<1>37. Joined(Insert(n), q7, t7)
  BY <1>36, <1>16, <1>30 DEF Joined
<1>38. Alike(q7, r7)
  <2>1. \A x, y : Apart(x, y) <=> Apart(y, x)
    BY DEF Apart
  <2>2. /\ InsertsOnce(q1) <=> InsertsOnce(a1)
        /\ Apart(q1, a2) <=> Apart(a1, a2)
        /\ Apart(q1, a3) <=> Apart(a1, a3)
        /\ Apart(q1, a4) <=> Apart(a1, a4)
        /\ Apart(q1, a5) <=> Apart(a1, a5)
        /\ Apart(q1, a6) <=> Apart(a1, a6)
        /\ Apart(q1, a7) <=> Apart(a1, a7)
    BY <1>24
  <2>3. /\ InsertsOnce(q2) <=> InsertsOnce(a1) /\ InsertsOnce(a2) /\ Apart(a1, a2)
        /\ Apart(q2, a3) <=> Apart(a1, a3) /\ Apart(a2, a3)
        /\ Apart(q2, a4) <=> Apart(a1, a4) /\ Apart(a2, a4)
        /\ Apart(q2, a5) <=> Apart(a1, a5) /\ Apart(a2, a5)
        /\ Apart(q2, a6) <=> Apart(a1, a6) /\ Apart(a2, a6)
        /\ Apart(q2, a7) <=> Apart(a1, a7) /\ Apart(a2, a7)
    <3>1. ApartFrom(q1, a2, q2)
      BY <1>25, JoinedApart
    <3> QED BY <2>2, <3>1 DEF ApartFrom
  <2>4. /\ InsertsOnce(q3) <=> InsertsOnce(a1) /\ InsertsOnce(a2) /\ InsertsOnce(a3) /\ Apart(a1, a2) /\ Apart(a1, a3) /\
             Apart(a2, a3)
        /\ Apart(q3, a4) <=> Apart(a1, a4) /\ Apart(a2, a4) /\ Apart(a3, a4)
        /\ Apart(q3, a5) <=> Apart(a1, a5) /\ Apart(a2, a5) /\ Apart(a3, a5)
        /\ Apart(q3, a6) <=> Apart(a1, a6) /\ Apart(a2, a6) /\ Apart(a3, a6)
        /\ Apart(q3, a7) <=> Apart(a1, a7) /\ Apart(a2, a7) /\ Apart(a3, a7)
    <3>1. ApartFrom(q2, a3, q3)
      BY <1>26, JoinedApart
    <3> QED BY <2>3, <3>1 DEF ApartFrom
  <2>5. /\ InsertsOnce(q4) <=> InsertsOnce(a1) /\ InsertsOnce(a2) /\ InsertsOnce(a3) /\ InsertsOnce(a4) /\ Apart(a1, a2) /\
             Apart(a1, a3) /\ Apart(a1, a4) /\ Apart(a2, a3) /\ Apart(a2, a4) /\ Apart(a3, a4)
        /\ Apart(q4, a5) <=> Apart(a1, a5) /\ Apart(a2, a5) /\ Apart(a3, a5) /\ Apart(a4, a5)
        /\ Apart(q4, a6) <=> Apart(a1, a6) /\ Apart(a2, a6) /\ Apart(a3, a6) /\ Apart(a4, a6)
        /\ Apart(q4, a7) <=> Apart(a1, a7) /\ Apart(a2, a7) /\ Apart(a3, a7) /\ Apart(a4, a7)
    <3>1. ApartFrom(q3, a4, q4)
      BY <1>27, JoinedApart
    <3> QED BY <2>4, <3>1 DEF ApartFrom
  <2>6. /\ InsertsOnce(q5) <=> InsertsOnce(a1) /\ InsertsOnce(a2) /\ InsertsOnce(a3) /\ InsertsOnce(a4) /\ InsertsOnce(a5) /\
             Apart(a1, a2) /\ Apart(a1, a3) /\ Apart(a1, a4) /\ Apart(a1, a5) /\ Apart(a2, a3) /\
             Apart(a2, a4) /\ Apart(a2, a5) /\ Apart(a3, a4) /\ Apart(a3, a5) /\ Apart(a4, a5)
        /\ Apart(q5, a6) <=> Apart(a1, a6) /\ Apart(a2, a6) /\ Apart(a3, a6) /\ Apart(a4, a6) /\ Apart(a5, a6)
        /\ Apart(q5, a7) <=> Apart(a1, a7) /\ Apart(a2, a7) /\ Apart(a3, a7) /\ Apart(a4, a7) /\ Apart(a5, a7)
    <3>1. ApartFrom(q4, a5, q5)
      BY <1>28, JoinedApart
    <3> QED BY <2>5, <3>1 DEF ApartFrom
  <2>7. /\ InsertsOnce(q6) <=> InsertsOnce(a1) /\ InsertsOnce(a2) /\ InsertsOnce(a3) /\ InsertsOnce(a4) /\ InsertsOnce(a5) /\
             InsertsOnce(a6) /\ Apart(a1, a2) /\ Apart(a1, a3) /\ Apart(a1, a4) /\ Apart(a1, a5) /\
             Apart(a1, a6) /\ Apart(a2, a3) /\ Apart(a2, a4) /\ Apart(a2, a5) /\ Apart(a2, a6) /\
             Apart(a3, a4) /\ Apart(a3, a5) /\ Apart(a3, a6) /\ Apart(a4, a5) /\ Apart(a4, a6) /\
             Apart(a5, a6)
        /\ Apart(q6, a7) <=> Apart(a1, a7) /\ Apart(a2, a7) /\ Apart(a3, a7) /\ Apart(a4, a7) /\ Apart(a5, a7) /\
             Apart(a6, a7)
    <3>1. ApartFrom(q5, a6, q6)
      BY <1>29, JoinedApart
    <3> QED BY <2>6, <3>1 DEF ApartFrom
  <2>8. /\ InsertsOnce(q7) <=> InsertsOnce(a1) /\ InsertsOnce(a2) /\ InsertsOnce(a3) /\ InsertsOnce(a4) /\ InsertsOnce(a5) /\
             InsertsOnce(a6) /\ InsertsOnce(a7) /\ Apart(a1, a2) /\ Apart(a1, a3) /\ Apart(a1, a4) /\
             Apart(a1, a5) /\ Apart(a1, a6) /\ Apart(a1, a7) /\ Apart(a2, a3) /\ Apart(a2, a4) /\
             Apart(a2, a5) /\ Apart(a2, a6) /\ Apart(a2, a7) /\ Apart(a3, a4) /\ Apart(a3, a5) /\
             Apart(a3, a6) /\ Apart(a3, a7) /\ Apart(a4, a5) /\ Apart(a4, a6) /\ Apart(a4, a7) /\
             Apart(a5, a6) /\ Apart(a5, a7) /\ Apart(a6, a7)
    <3>1. ApartFrom(q6, a7, q7)
      BY <1>30, JoinedApart
    <3> QED BY <2>7, <3>1 DEF ApartFrom
  <2>9. /\ InsertsOnce(r1) <=> InsertsOnce(a7)
        /\ Apart(r1, a6) <=> Apart(a7, a6)
        /\ Apart(r1, a2) <=> Apart(a7, a2)
        /\ Apart(r1, a3) <=> Apart(a7, a3)
        /\ Apart(r1, a4) <=> Apart(a7, a4)
        /\ Apart(r1, a1) <=> Apart(a7, a1)
        /\ Apart(r1, a5) <=> Apart(a7, a5)
    BY <1>17
  <2>10. /\ InsertsOnce(r2) <=> InsertsOnce(a7) /\ InsertsOnce(a6) /\ Apart(a7, a6)
         /\ Apart(r2, a2) <=> Apart(a7, a2) /\ Apart(a6, a2)
         /\ Apart(r2, a3) <=> Apart(a7, a3) /\ Apart(a6, a3)
         /\ Apart(r2, a4) <=> Apart(a7, a4) /\ Apart(a6, a4)
         /\ Apart(r2, a1) <=> Apart(a7, a1) /\ Apart(a6, a1)
         /\ Apart(r2, a5) <=> Apart(a7, a5) /\ Apart(a6, a5)
    <3>1. ApartFrom(r1, a6, r2)
      BY <1>18, JoinedApart
    <3> QED BY <2>9, <3>1 DEF ApartFrom
  <2>11. /\ InsertsOnce(r3) <=> InsertsOnce(a7) /\ InsertsOnce(a6) /\ InsertsOnce(a2) /\ Apart(a7, a6) /\ Apart(a7, a2) /\
             Apart(a6, a2)
         /\ Apart(r3, a3) <=> Apart(a7, a3) /\ Apart(a6, a3) /\ Apart(a2, a3)
         /\ Apart(r3, a4) <=> Apart(a7, a4) /\ Apart(a6, a4) /\ Apart(a2, a4)
         /\ Apart(r3, a1) <=> Apart(a7, a1) /\ Apart(a6, a1) /\ Apart(a2, a1)
         /\ Apart(r3, a5) <=> Apart(a7, a5) /\ Apart(a6, a5) /\ Apart(a2, a5)
    <3>1. ApartFrom(r2, a2, r3)
      BY <1>19, JoinedApart
    <3> QED BY <2>10, <3>1 DEF ApartFrom
  <2>12. /\ InsertsOnce(r4) <=> InsertsOnce(a7) /\ InsertsOnce(a6) /\ InsertsOnce(a2) /\ InsertsOnce(a3) /\ Apart(a7, a6) /\
             Apart(a7, a2) /\ Apart(a7, a3) /\ Apart(a6, a2) /\ Apart(a6, a3) /\ Apart(a2, a3)
         /\ Apart(r4, a4) <=> Apart(a7, a4) /\ Apart(a6, a4) /\ Apart(a2, a4) /\ Apart(a3, a4)
         /\ Apart(r4, a1) <=> Apart(a7, a1) /\ Apart(a6, a1) /\ Apart(a2, a1) /\ Apart(a3, a1)
         /\ Apart(r4, a5) <=> Apart(a7, a5) /\ Apart(a6, a5) /\ Apart(a2, a5) /\ Apart(a3, a5)
    <3>1. ApartFrom(r3, a3, r4)
      BY <1>20, JoinedApart
    <3> QED BY <2>11, <3>1 DEF ApartFrom
  <2>13. /\ InsertsOnce(r5) <=> InsertsOnce(a7) /\ InsertsOnce(a6) /\ InsertsOnce(a2) /\ InsertsOnce(a3) /\ InsertsOnce(a4) /\
             Apart(a7, a6) /\ Apart(a7, a2) /\ Apart(a7, a3) /\ Apart(a7, a4) /\ Apart(a6, a2) /\
             Apart(a6, a3) /\ Apart(a6, a4) /\ Apart(a2, a3) /\ Apart(a2, a4) /\ Apart(a3, a4)
         /\ Apart(r5, a1) <=> Apart(a7, a1) /\ Apart(a6, a1) /\ Apart(a2, a1) /\ Apart(a3, a1) /\ Apart(a4, a1)
         /\ Apart(r5, a5) <=> Apart(a7, a5) /\ Apart(a6, a5) /\ Apart(a2, a5) /\ Apart(a3, a5) /\ Apart(a4, a5)
    <3>1. ApartFrom(r4, a4, r5)
      BY <1>21, JoinedApart
    <3> QED BY <2>12, <3>1 DEF ApartFrom
  <2>14. /\ InsertsOnce(r6) <=> InsertsOnce(a7) /\ InsertsOnce(a6) /\ InsertsOnce(a2) /\ InsertsOnce(a3) /\ InsertsOnce(a4) /\
             InsertsOnce(a1) /\ Apart(a7, a6) /\ Apart(a7, a2) /\ Apart(a7, a3) /\ Apart(a7, a4) /\
             Apart(a7, a1) /\ Apart(a6, a2) /\ Apart(a6, a3) /\ Apart(a6, a4) /\ Apart(a6, a1) /\
             Apart(a2, a3) /\ Apart(a2, a4) /\ Apart(a2, a1) /\ Apart(a3, a4) /\ Apart(a3, a1) /\
             Apart(a4, a1)
         /\ Apart(r6, a5) <=> Apart(a7, a5) /\ Apart(a6, a5) /\ Apart(a2, a5) /\ Apart(a3, a5) /\ Apart(a4, a5) /\
             Apart(a1, a5)
    <3>1. ApartFrom(r5, a1, r6)
      BY <1>22, JoinedApart
    <3> QED BY <2>13, <3>1 DEF ApartFrom
  <2>15. /\ InsertsOnce(r7) <=> InsertsOnce(a7) /\ InsertsOnce(a6) /\ InsertsOnce(a2) /\ InsertsOnce(a3) /\ InsertsOnce(a4) /\
             InsertsOnce(a1) /\ InsertsOnce(a5) /\ Apart(a7, a6) /\ Apart(a7, a2) /\ Apart(a7, a3) /\
             Apart(a7, a4) /\ Apart(a7, a1) /\ Apart(a7, a5) /\ Apart(a6, a2) /\ Apart(a6, a3) /\
             Apart(a6, a4) /\ Apart(a6, a1) /\ Apart(a6, a5) /\ Apart(a2, a3) /\ Apart(a2, a4) /\
             Apart(a2, a1) /\ Apart(a2, a5) /\ Apart(a3, a4) /\ Apart(a3, a1) /\ Apart(a3, a5) /\
             Apart(a4, a1) /\ Apart(a4, a5) /\ Apart(a1, a5)
    <3>1. ApartFrom(r6, a5, r7)
      BY <1>23, JoinedApart
    <3> QED BY <2>14, <3>1 DEF ApartFrom
  <2>16. InsertsOnce(q7) <=> InsertsOnce(r7)
    BY <2>1, <2>8, <2>15
  <2>17. /\ Inserted(q1) = Inserted(a1)
         /\ WithEnv(q1) = WithEnv(a1)
    BY <1>24
  <2>18. /\ Inserted(q2) = Inserted(a1) \cup Inserted(a2)
         /\ WithEnv(q2) = WithEnv(a1) \cup WithEnv(a2)
    BY <1>25, <2>17 DEF Joined
  <2>19. /\ Inserted(q3) = Inserted(a1) \cup Inserted(a2) \cup Inserted(a3)
         /\ WithEnv(q3) = WithEnv(a1) \cup WithEnv(a2) \cup WithEnv(a3)
    BY <1>26, <2>18 DEF Joined
  <2>20. /\ Inserted(q4) = Inserted(a1) \cup Inserted(a2) \cup Inserted(a3) \cup Inserted(a4)
         /\ WithEnv(q4) = WithEnv(a1) \cup WithEnv(a2) \cup WithEnv(a3) \cup WithEnv(a4)
    BY <1>27, <2>19 DEF Joined
  <2>21. /\ Inserted(q5) = Inserted(a1) \cup Inserted(a2) \cup Inserted(a3) \cup Inserted(a4) \cup Inserted(a5)
         /\ WithEnv(q5) = WithEnv(a1) \cup WithEnv(a2) \cup WithEnv(a3) \cup WithEnv(a4) \cup WithEnv(a5)
    BY <1>28, <2>20 DEF Joined
  <2>22. /\ Inserted(q6) = Inserted(a1) \cup Inserted(a2) \cup Inserted(a3) \cup Inserted(a4) \cup Inserted(a5) \cup Inserted(a6)
         /\ WithEnv(q6) = WithEnv(a1) \cup WithEnv(a2) \cup WithEnv(a3) \cup WithEnv(a4) \cup WithEnv(a5) \cup WithEnv(a6)
    BY <1>29, <2>21 DEF Joined
  <2>23. /\ Inserted(q7) = Inserted(a1) \cup Inserted(a2) \cup Inserted(a3) \cup Inserted(a4) \cup Inserted(a5) \cup Inserted(a6) \cup Inserted(a7)
         /\ WithEnv(q7) = WithEnv(a1) \cup WithEnv(a2) \cup WithEnv(a3) \cup WithEnv(a4) \cup WithEnv(a5) \cup WithEnv(a6) \cup WithEnv(a7)
    BY <1>30, <2>22 DEF Joined
  <2>24. /\ Inserted(r1) = Inserted(a7)
         /\ WithEnv(r1) = WithEnv(a7)
    BY <1>17
  <2>25. /\ Inserted(r2) = Inserted(a7) \cup Inserted(a6)
         /\ WithEnv(r2) = WithEnv(a7) \cup WithEnv(a6)
    BY <1>18, <2>24 DEF Joined
  <2>26. /\ Inserted(r3) = Inserted(a7) \cup Inserted(a6) \cup Inserted(a2)
         /\ WithEnv(r3) = WithEnv(a7) \cup WithEnv(a6) \cup WithEnv(a2)
    BY <1>19, <2>25 DEF Joined
  <2>27. /\ Inserted(r4) = Inserted(a7) \cup Inserted(a6) \cup Inserted(a2) \cup Inserted(a3)
         /\ WithEnv(r4) = WithEnv(a7) \cup WithEnv(a6) \cup WithEnv(a2) \cup WithEnv(a3)
    BY <1>20, <2>26 DEF Joined
  <2>28. /\ Inserted(r5) = Inserted(a7) \cup Inserted(a6) \cup Inserted(a2) \cup Inserted(a3) \cup Inserted(a4)
         /\ WithEnv(r5) = WithEnv(a7) \cup WithEnv(a6) \cup WithEnv(a2) \cup WithEnv(a3) \cup WithEnv(a4)
    BY <1>21, <2>27 DEF Joined
  <2>29. /\ Inserted(r6) = Inserted(a7) \cup Inserted(a6) \cup Inserted(a2) \cup Inserted(a3) \cup Inserted(a4) \cup Inserted(a1)
         /\ WithEnv(r6) = WithEnv(a7) \cup WithEnv(a6) \cup WithEnv(a2) \cup WithEnv(a3) \cup WithEnv(a4) \cup WithEnv(a1)
    BY <1>22, <2>28 DEF Joined
  <2>30. /\ Inserted(r7) = Inserted(a7) \cup Inserted(a6) \cup Inserted(a2) \cup Inserted(a3) \cup Inserted(a4) \cup Inserted(a1) \cup Inserted(a5)
         /\ WithEnv(r7) = WithEnv(a7) \cup WithEnv(a6) \cup WithEnv(a2) \cup WithEnv(a3) \cup WithEnv(a4) \cup WithEnv(a1) \cup WithEnv(a5)
    BY <1>23, <2>29 DEF Joined
  <2>31. Inserted(q7) = Inserted(r7) /\ WithEnv(q7) = WithEnv(r7)
    BY <2>23, <2>30
  <2> QED BY <2>16, <2>31 DEF Alike
<1>39. Joined(Insert(n), r7, t7)
  BY <1>37, <1>38 DEF Joined, Alike
<1>40. PICK B1 : B1 = D7 /\ Undoes(B1, r1)
  BY <1>17, <1>9
<1>41. PICK B2 : B2 = Both(B1, D6) /\ Undoes(B2, r2)
  BY <1>40, <1>18, <1>8, UndoesJoin
<1>42. PICK B3 : B3 = Both(B2, D2) /\ Undoes(B3, r3)
  BY <1>41, <1>19, <1>4, UndoesJoin
<1>43. PICK B4 : B4 = Both(B3, D3) /\ Undoes(B4, r4)
  BY <1>42, <1>20, <1>5, UndoesJoin
<1>44. PICK B5 : B5 = Both(B4, D4) /\ Undoes(B5, r5)
  BY <1>43, <1>21, <1>6, UndoesJoin
<1>45. PICK B6 : B6 = Both(B5, D1) /\ Undoes(B6, r6)
  BY <1>44, <1>22, <1>3, UndoesJoin
<1>46. PICK B7 : B7 = Both(B6, D5) /\ Undoes(B7, r7)
  BY <1>45, <1>23, <1>7, UndoesJoin
<1>47. Undoes(Over(B7, n.key, Delete(n)), t7)
  BY <1>1, <1>46, <1>39, RootUndone
<1>48. t7 = InsertMeasurement(n)
  BY <1>2, <1>3, <1>4, <1>5, <1>6, <1>7, <1>8, <1>9, <1>10, <1>11, <1>12, <1>13, <1>14, <1>15, <1>16, Zenon DEF InsertMeasurement
<1>49. ASSUME NEW K \in SUBSET RowKeys
      PROVE  DeleteMeasurement(SelectMeasurement(n, K)) = B7[K] \o Delete(n)
  <2>1. PICK l : l = SelectMeasurement(n, K) /\ l.key = n.key
    <3>1. SelectMeasurement(n, K).key = n.key
      BY DEF SelectMeasurement, Measurements
    <3> QED BY <3>1, Zenon
  <2>2. PICK p1 \in Seq(Removals) : p1 = D1[K] /\ p1 = Each(l.ValueEntries, Delete)
    <3>1. l.ValueEntries = Here(n.ValueEntries, K)
      BY <2>1 DEF SelectMeasurement, Measurements
    <3>2. D1[K] = Each(Here(n.ValueEntries, K), Delete)
      BY <1>3 DEF LeafSliceGone
    <3>3. D1[K] \in Seq(Removals)
      BY <1>3 DEF Undoes
    <3> QED BY <3>1, <3>2, <3>3, Zenon
  <2>3. PICK p2 \in Seq(Removals) : p2 = D2[K] /\ p2 = Each(l.Digests, Delete)
    <3>1. l.Digests = Here(n.Digests, K)
      BY <2>1 DEF SelectMeasurement, Measurements
    <3>2. D2[K] = Each(Here(n.Digests, K), Delete)
      BY <1>4 DEF LeafSliceGone
    <3>3. D2[K] \in Seq(Removals)
      BY <1>4 DEF Undoes
    <3> QED BY <3>1, <3>2, <3>3, Zenon
  <2>4. PICK p3 \in Seq(Removals) : p3 = D3[K] /\ p3 = Each(l.Flags, Delete)
    <3>1. l.Flags = Here(n.Flags, K)
      BY <2>1 DEF SelectMeasurement, Measurements
    <3>2. D3[K] = Each(Here(n.Flags, K), Delete)
      BY <1>5 DEF LeafSliceGone
    <3>3. D3[K] \in Seq(Removals)
      BY <1>5 DEF Undoes
    <3> QED BY <3>1, <3>2, <3>3, Zenon
  <2>5. PICK p4 \in Seq(Removals) : p4 = D4[K] /\ p4 = Each(l.IntegrityRegisters, DeleteIntegrityRegister)
    <3>1. l.IntegrityRegisters = Loaded(n.IntegrityRegisters, K, SelectIntegrityRegister)
      BY <2>1 DEF SelectMeasurement, Measurements
    <3>2. D4[K] = Each(Loaded(n.IntegrityRegisters, K, SelectIntegrityRegister), DeleteIntegrityRegister)
      BY <1>6 DEF IntegrityRegisterSliceGone
    <3>3. D4[K] \in Seq(Removals)
      BY <1>6 DEF Undoes
    <3> QED BY <3>1, <3>2, <3>3, Zenon
  <2>6. PICK p5 \in Seq(Removals) : p5 = D5[K] /\ p5 = Each(l.Extensions, Delete)
    <3>1. l.Extensions = Here(n.Extensions, K)
      BY <2>1 DEF SelectMeasurement, Measurements
    <3>2. D5[K] = Each(Here(n.Extensions, K), Delete)
      BY <1>7 DEF LeafSliceGone
    <3>3. D5[K] \in Seq(Removals)
      BY <1>7 DEF Undoes
    <3> QED BY <3>1, <3>2, <3>3, Zenon
  <2>7. PICK p6 \in Seq(Removals) : p6 = D6[K] /\ p6 = Each(l.CryptoKeys, Delete)
    <3>1. l.CryptoKeys = <<>>
      BY <2>1 DEF SelectMeasurement, Measurements
    <3>2. Each(<<>>, Delete) = <<>>
      BY EachNothing
    <3> QED BY <1>8, <3>1, <3>2 DEF Nothing, Undoes
  <2>8. PICK p7 \in Seq(Removals) : p7 = D7[K] /\ p7 = Each(l.AuthorizedBy, Delete)
    <3>1. l.AuthorizedBy = Here(n.AuthorizedBy, K)
      BY <2>1 DEF SelectMeasurement, Measurements
    <3>2. D7[K] = Each(Here(n.AuthorizedBy, K), Delete)
      BY <1>9 DEF LeafSliceGone
    <3>3. D7[K] \in Seq(Removals)
      BY <1>9 DEF Undoes
    <3> QED BY <3>1, <3>2, <3>3, Zenon
  <2>9. PICK c1 \in Seq(Removals) : c1 = B1[K] /\ c1 = p7
    BY <1>40, <2>8
  <2>10. PICK c2 \in Seq(Removals) : c2 = B2[K] /\ c2 = c1 \o p6
    <3>1. B2[K] = B1[K] \o D6[K]
      BY <1>41 DEF Both
    <3>2. B2[K] \in Seq(Removals)
      BY <1>41 DEF Undoes
    <3> QED BY <3>1, <3>2, <2>9, <2>7, Zenon
  <2>11. PICK c3 \in Seq(Removals) : c3 = B3[K] /\ c3 = c2 \o p2
    <3>1. B3[K] = B2[K] \o D2[K]
      BY <1>42 DEF Both
    <3>2. B3[K] \in Seq(Removals)
      BY <1>42 DEF Undoes
    <3> QED BY <3>1, <3>2, <2>10, <2>3, Zenon
  <2>12. PICK c4 \in Seq(Removals) : c4 = B4[K] /\ c4 = c3 \o p3
    <3>1. B4[K] = B3[K] \o D3[K]
      BY <1>43 DEF Both
    <3>2. B4[K] \in Seq(Removals)
      BY <1>43 DEF Undoes
    <3> QED BY <3>1, <3>2, <2>11, <2>4, Zenon
  <2>13. PICK c5 \in Seq(Removals) : c5 = B5[K] /\ c5 = c4 \o p4
    <3>1. B5[K] = B4[K] \o D4[K]
      BY <1>44 DEF Both
    <3>2. B5[K] \in Seq(Removals)
      BY <1>44 DEF Undoes
    <3> QED BY <3>1, <3>2, <2>12, <2>5, Zenon
  <2>14. PICK c6 \in Seq(Removals) : c6 = B6[K] /\ c6 = c5 \o p1
    <3>1. B6[K] = B5[K] \o D1[K]
      BY <1>45 DEF Both
    <3>2. B6[K] \in Seq(Removals)
      BY <1>45 DEF Undoes
    <3> QED BY <3>1, <3>2, <2>13, <2>2, Zenon
  <2>15. PICK c7 \in Seq(Removals) : c7 = B7[K] /\ c7 = c6 \o p5
    <3>1. B7[K] = B6[K] \o D5[K]
      BY <1>46 DEF Both
    <3>2. B7[K] \in Seq(Removals)
      BY <1>46 DEF Undoes
    <3> QED BY <3>1, <3>2, <2>14, <2>6, Zenon
  <2>16. Delete(l) = Delete(n)
    BY <2>1 DEF Delete
  <2>17. DeleteMeasurement(l) = c7 \o Delete(n)
    BY <2>1, <2>2, <2>3, <2>4, <2>5, <2>6, <2>7, <2>8, <2>9, <2>10, <2>11, <2>12, <2>13, <2>14, <2>15, <2>16, Zenon DEF DeleteMeasurement
  <2> QED BY <2>1, <2>15, <2>17, Zenon
<1>50. MeasurementGone(n) = Over(B7, n.key, Delete(n))
  BY <1>49 DEF MeasurementGone, Over
<1> QED BY <1>47, <1>48, <1>50, Zenon

LEMMA MeasurementSliceUndone ==
  ASSUME NEW ns \in Seq(Measurements)
  PROVE  Undoes(MeasurementSliceGone(ns), Each(ns, InsertMeasurement))
<1>1. PICK ins : ins = [x \in Measurements |-> InsertMeasurement(x)]
  OBVIOUS
<1>2. PICK gd : gd = [x \in Measurements |-> MeasurementGone(x)]
  OBVIOUS
<1>3. Gives(ins, Measurements, Additions(RowKeys))
  <2>1. \A x \in Measurements : InsertMeasurement(x) \in Seq(Additions(RowKeys))
    BY AdditionsAdd, MeasurementInserted
  <2> QED BY <1>1, <2>1 DEF Gives
<1>4. \A x \in Measurements : Undoes(gd[x], ins[x])
  BY <1>1, <1>2, MeasurementUndone
<1>5. Undoes(SliceOf(gd, Measurements, ns), Mapped(ins, ns))
  BY <1>3, <1>4, SliceUndone
<1>6. Mapped(ins, ns) = Each(ns, InsertMeasurement)
  <2>1. [i \in DOMAIN ns |-> ins[ns[i]]] = [i \in DOMAIN ns |-> InsertMeasurement(ns[i])]
    BY <1>1
  <2> QED BY <2>1 DEF Mapped, Each
<1>7. ASSUME NEW K \in SUBSET RowKeys
      PROVE  Mapped([x \in Measurements |-> gd[x][K]], ns) = Each(Loaded(ns, K, SelectMeasurement), DeleteMeasurement)
  <2>1. PICK h : h = [x \in Measurements |-> DeleteMeasurement(SelectMeasurement(x, K))]
    OBVIOUS
  <2>2. Gives(h, Measurements, Removals)
    <3>1. \A x \in Measurements : DeleteMeasurement(SelectMeasurement(x, K)) \in Seq(Removals)
      BY RemovalsRemove, MeasurementDeleted, SelectMeasurementIn
    <3> QED BY <2>1, <3>1 DEF Gives
  <2>3. [x \in Measurements |-> gd[x][K]] = [x \in Measurements |-> IF x.key \in K THEN h[x] ELSE <<>>]
    BY <1>2, <2>1 DEF MeasurementGone
  <2>4. Mapped(h, Here(ns, K)) = Mapped([x \in Measurements |-> IF x.key \in K THEN h[x] ELSE <<>>], ns)
    BY <2>2, KeptSlice
  <2>5. PICK p \in Seq(Measurements) : p = Here(ns, K)
    BY HereIn
  <2>6. Mapped(h, p) = Each(Loaded(ns, K, SelectMeasurement), DeleteMeasurement)
    <3>1. [i \in DOMAIN p |-> h[p[i]]] = [i \in DOMAIN p |-> DeleteMeasurement(SelectMeasurement(p[i], K))]
      BY <2>1
    <3>2. PICK q : q = [i \in DOMAIN p |-> SelectMeasurement(p[i], K)]
      OBVIOUS
    <3>3. Loaded(ns, K, SelectMeasurement) = q
      BY <2>5, <3>2 DEF Loaded
    <3>4. [i \in DOMAIN p |-> DeleteMeasurement(SelectMeasurement(p[i], K))] = [i \in DOMAIN q |-> DeleteMeasurement(q[i])]
      BY <3>2
    <3> QED BY <3>1, <3>3, <3>4 DEF Mapped, Each
  <2> QED BY <2>3, <2>4, <2>5, <2>6, Zenon
<1>8. SliceOf(gd, Measurements, ns) = MeasurementSliceGone(ns)
  BY <1>7 DEF SliceOf, MeasurementSliceGone
<1> QED BY <1>5, <1>6, <1>8, Zenon

LEMMA KeyTripleUndone ==
  ASSUME NEW n \in KeyTriples
  PROVE  Undoes(KeyTripleGone(n), InsertKeyTriple(n))
<1>1. HasRow(n) /\ n.env # NoEnv /\ n.env \in Envs
  BY RowAssumption, OwnerTables DEF HasRow, KeyTriples, OwnerTable
<1>2. PICK t0 \in Seq(Additions(RowKeys)) : t0 = FindEnv(n) \o Insert(n) /\ Joined(Insert(n), <<>>, t0)
  BY <1>1, FoundFirst
<1>3. PICK a1, D1 :
        a1 \in Seq(Additions(RowKeys)) /\ a1 = Each(n.KeyList, Insert) /\ D1 = LeafSliceGone(n.KeyList) /\ Undoes(D1, a1)
  <2>1. n.KeyList \in Seq(AnyLeaves)
    BY AnyLeaf DEF KeyTriples
  <2>2. Each(n.KeyList, Insert) \in Seq(Additions(RowKeys))
    BY <2>1, AdditionsAdd, EachInserted
  <2> QED BY <2>1, <2>2, LeafSliceUndone, Zenon
<1>4. PICK a2, D2 :
        a2 \in Seq(Additions(RowKeys)) /\ a2 = Each(n.AuthorizedBy, Insert) /\ D2 = LeafSliceGone(n.AuthorizedBy) /\ Undoes(D2, a2)
  <2>1. n.AuthorizedBy \in Seq(AnyLeaves)
    BY AnyLeaf DEF KeyTriples
  <2>2. Each(n.AuthorizedBy, Insert) \in Seq(Additions(RowKeys))
    BY <2>1, AdditionsAdd, EachInserted
  <2> QED BY <2>1, <2>2, LeafSliceUndone, Zenon
<1>5. PICK t1 \in Seq(Additions(RowKeys)) : t1 = t0 \o a1 /\ Joined(t0, a1, t1)
  BY <1>2, <1>3, JoinedJoin
<1>6. PICK t2 \in Seq(Additions(RowKeys)) : t2 = t1 \o a2 /\ Joined(t1, a2, t2)
  BY <1>5, <1>4, JoinedJoin
<1>7. PICK r1 \in Seq(Additions(RowKeys)) : r1 = a1
  BY <1>3
<1>8. PICK r2 \in Seq(Additions(RowKeys)) : Joined(r1, a2, r2)
  BY <1>7, <1>4, JoinedJoin
<1>9. Joined(Insert(n), r1, t1)
  BY <1>2, <1>5, <1>7, <1>3, JoinedOn
<1>10. Joined(Insert(n), r2, t2)
  BY <1>9, <1>6, <1>8 DEF Joined
<1>11. PICK B1 : B1 = D1 /\ Undoes(B1, r1)
  BY <1>7, <1>3
<1>12. PICK B2 : B2 = Both(B1, D2) /\ Undoes(B2, r2)
  BY <1>11, <1>8, <1>4, UndoesJoin
<1>13. Undoes(Over(B2, n.key, Delete(n) \o DeleteIfOrphaned(n, FALSE)), t2)
  BY <1>1, <1>12, <1>10, OwnerUndone
<1>14. t2 = InsertKeyTriple(n)
  BY <1>2, <1>3, <1>4, <1>5, <1>6, Zenon DEF InsertKeyTriple
<1>15. ASSUME NEW K \in SUBSET RowKeys
      PROVE  DeleteKeyTriple(SelectKeyTriple(n, K)) = B2[K] \o (Delete(n) \o DeleteIfOrphaned(n, FALSE))
  <2>1. PICK l : l = SelectKeyTriple(n, K) /\ l.key = n.key
    <3>1. SelectKeyTriple(n, K).key = n.key
      BY DEF SelectKeyTriple, KeyTriples
    <3> QED BY <3>1, Zenon
  <2>2. PICK p1 \in Seq(Removals) : p1 = D1[K] /\ p1 = Each(l.KeyList, Delete)
    <3>1. l.KeyList = Here(n.KeyList, K)
      BY <2>1 DEF SelectKeyTriple, KeyTriples
    <3>2. D1[K] = Each(Here(n.KeyList, K), Delete)
      BY <1>3 DEF LeafSliceGone
    <3>3. D1[K] \in Seq(Removals)
      BY <1>3 DEF Undoes
    <3> QED BY <3>1, <3>2, <3>3, Zenon
  <2>3. PICK p2 \in Seq(Removals) : p2 = D2[K] /\ p2 = Each(l.AuthorizedBy, Delete)
    <3>1. l.AuthorizedBy = Here(n.AuthorizedBy, K)
      BY <2>1 DEF SelectKeyTriple, KeyTriples
    <3>2. D2[K] = Each(Here(n.AuthorizedBy, K), Delete)
      BY <1>4 DEF LeafSliceGone
    <3>3. D2[K] \in Seq(Removals)
      BY <1>4 DEF Undoes
    <3> QED BY <3>1, <3>2, <3>3, Zenon
  <2>4. PICK c1 \in Seq(Removals) : c1 = B1[K] /\ c1 = p1
    BY <1>11, <2>2
  <2>5. PICK c2 \in Seq(Removals) : c2 = B2[K] /\ c2 = c1 \o p2
    <3>1. B2[K] = B1[K] \o D2[K]
      BY <1>12 DEF Both
    <3>2. B2[K] \in Seq(Removals)
      BY <1>12 DEF Undoes
    <3> QED BY <3>1, <3>2, <2>4, <2>3, Zenon
  <2>6. PICK d \in Seq(Removals), o \in Seq(Removals) :
          d = Delete(n) /\ o = DeleteIfOrphaned(n, FALSE)
    <3>1. Delete(n) \in Seq(Removals) /\ DeleteIfOrphaned(n, FALSE) \in Seq(Removals)
      BY <1>1, DeleteFacts, OwnersIn DEF HasRow
    <3> QED BY <3>1, Zenon
  <2>7. Delete(l) = d /\ DeleteIfOrphaned(l, FALSE) = o
    BY <2>1, <2>6 DEF Delete, DeleteIfOrphaned
  <2>8. DeleteKeyTriple(l) = (c2 \o d) \o o
    <3>1. DeleteKeyTriple(l) = (c2 \o Delete(l)) \o DeleteIfOrphaned(l, FALSE)
      BY <2>2, <2>3, <2>4, <2>5, Zenon DEF DeleteKeyTriple
    <3> QED BY <2>7, <3>1, Zenon
  <2>9. (c2 \o d) \o o = c2 \o (d \o o)
    <3>1. Assoc(c2, d, o)
      BY <2>5, <2>6, JoinAssoc
    <3> QED BY <3>1, Zenon DEF Assoc
  <2> QED BY <2>1, <2>5, <2>6, <2>8, <2>9, Zenon
<1>16. KeyTripleGone(n) = Over(B2, n.key, Delete(n) \o DeleteIfOrphaned(n, FALSE))
  BY <1>15 DEF KeyTripleGone, Over
<1> QED BY <1>13, <1>14, <1>16, Zenon

LEMMA KeyTripleSliceUndone ==
  ASSUME NEW ns \in Seq(KeyTriples)
  PROVE  Undoes(KeyTripleSliceGone(ns), Each(ns, InsertKeyTriple))
<1>1. PICK ins : ins = [x \in KeyTriples |-> InsertKeyTriple(x)]
  OBVIOUS
<1>2. PICK gd : gd = [x \in KeyTriples |-> KeyTripleGone(x)]
  OBVIOUS
<1>3. Gives(ins, KeyTriples, Additions(RowKeys))
  <2>1. \A x \in KeyTriples : InsertKeyTriple(x) \in Seq(Additions(RowKeys))
    BY AdditionsAdd, KeyTripleInserted
  <2> QED BY <1>1, <2>1 DEF Gives
<1>4. \A x \in KeyTriples : Undoes(gd[x], ins[x])
  BY <1>1, <1>2, KeyTripleUndone
<1>5. Undoes(SliceOf(gd, KeyTriples, ns), Mapped(ins, ns))
  BY <1>3, <1>4, SliceUndone
<1>6. Mapped(ins, ns) = Each(ns, InsertKeyTriple)
  <2>1. [i \in DOMAIN ns |-> ins[ns[i]]] = [i \in DOMAIN ns |-> InsertKeyTriple(ns[i])]
    BY <1>1
  <2> QED BY <2>1 DEF Mapped, Each
<1>7. ASSUME NEW K \in SUBSET RowKeys
      PROVE  Mapped([x \in KeyTriples |-> gd[x][K]], ns) = Each(Loaded(ns, K, SelectKeyTriple), DeleteKeyTriple)
  <2>1. PICK h : h = [x \in KeyTriples |-> DeleteKeyTriple(SelectKeyTriple(x, K))]
    OBVIOUS
  <2>2. Gives(h, KeyTriples, Removals)
    <3>1. \A x \in KeyTriples : DeleteKeyTriple(SelectKeyTriple(x, K)) \in Seq(Removals)
      BY RemovalsRemove, KeyTripleDeleted, SelectKeyTripleIn
    <3> QED BY <2>1, <3>1 DEF Gives
  <2>3. [x \in KeyTriples |-> gd[x][K]] = [x \in KeyTriples |-> IF x.key \in K THEN h[x] ELSE <<>>]
    BY <1>2, <2>1 DEF KeyTripleGone
  <2>4. Mapped(h, Here(ns, K)) = Mapped([x \in KeyTriples |-> IF x.key \in K THEN h[x] ELSE <<>>], ns)
    BY <2>2, KeptSlice
  <2>5. PICK p \in Seq(KeyTriples) : p = Here(ns, K)
    BY HereIn
  <2>6. Mapped(h, p) = Each(Loaded(ns, K, SelectKeyTriple), DeleteKeyTriple)
    <3>1. [i \in DOMAIN p |-> h[p[i]]] = [i \in DOMAIN p |-> DeleteKeyTriple(SelectKeyTriple(p[i], K))]
      BY <2>1
    <3>2. PICK q : q = [i \in DOMAIN p |-> SelectKeyTriple(p[i], K)]
      OBVIOUS
    <3>3. Loaded(ns, K, SelectKeyTriple) = q
      BY <2>5, <3>2 DEF Loaded
    <3>4. [i \in DOMAIN p |-> DeleteKeyTriple(SelectKeyTriple(p[i], K))] = [i \in DOMAIN q |-> DeleteKeyTriple(q[i])]
      BY <3>2
    <3> QED BY <3>1, <3>3, <3>4 DEF Mapped, Each
  <2> QED BY <2>3, <2>4, <2>5, <2>6, Zenon
<1>8. SliceOf(gd, KeyTriples, ns) = KeyTripleSliceGone(ns)
  BY <1>7 DEF SliceOf, KeyTripleSliceGone
<1> QED BY <1>5, <1>6, <1>8, Zenon

LEMMA ValueTripleUndone ==
  ASSUME NEW n \in ValueTriples
  PROVE  Undoes(ValueTripleGone(n), InsertValueTriple(n))
<1>1. HasRow(n) /\ n.env # NoEnv /\ n.env \in Envs
  BY RowAssumption, OwnerTables DEF HasRow, ValueTriples, OwnerTable
<1>2. PICK t0 \in Seq(Additions(RowKeys)) : t0 = FindEnv(n) \o Insert(n) /\ Joined(Insert(n), <<>>, t0)
  BY <1>1, FoundFirst
<1>3. PICK a1, D1 :
        a1 \in Seq(Additions(RowKeys)) /\ a1 = Each(n.Measurements, InsertMeasurement) /\ D1 = MeasurementSliceGone(n.Measurements) /\ Undoes(D1, a1)
  <2>1. n.Measurements \in Seq(Measurements)
    BY DEF ValueTriples
  <2>2. Each(n.Measurements, InsertMeasurement) \in Seq(Additions(RowKeys))
    BY <2>1, AdditionsAdd, EachMeasurementInserted
  <2> QED BY <2>1, <2>2, MeasurementSliceUndone, Zenon
<1>4. PICK t1 \in Seq(Additions(RowKeys)) : t1 = t0 \o a1 /\ Joined(t0, a1, t1)
  BY <1>2, <1>3, JoinedJoin
<1>5. PICK r1 \in Seq(Additions(RowKeys)) : r1 = a1
  BY <1>3
<1>6. Joined(Insert(n), r1, t1)
  BY <1>2, <1>4, <1>5, <1>3, JoinedOn
<1>7. PICK B1 : B1 = D1 /\ Undoes(B1, r1)
  BY <1>5, <1>3
<1>8. Undoes(Over(B1, n.key, Delete(n) \o DeleteIfOrphaned(n, TRUE)), t1)
  BY <1>1, <1>7, <1>6, OwnerUndone
<1>9. t1 = InsertValueTriple(n)
  BY <1>2, <1>3, <1>4, Zenon DEF InsertValueTriple
<1>10. ASSUME NEW K \in SUBSET RowKeys
      PROVE  DeleteValueTriple(SelectValueTriple(n, K)) = B1[K] \o (Delete(n) \o DeleteIfOrphaned(n, TRUE))
  <2>1. PICK l : l = SelectValueTriple(n, K) /\ l.key = n.key
    <3>1. SelectValueTriple(n, K).key = n.key
      BY DEF SelectValueTriple, ValueTriples
    <3> QED BY <3>1, Zenon
  <2>2. PICK p1 \in Seq(Removals) : p1 = D1[K] /\ p1 = Each(l.Measurements, DeleteMeasurement)
    <3>1. l.Measurements = Loaded(n.Measurements, K, SelectMeasurement)
      BY <2>1 DEF SelectValueTriple, ValueTriples
    <3>2. D1[K] = Each(Loaded(n.Measurements, K, SelectMeasurement), DeleteMeasurement)
      BY <1>3 DEF MeasurementSliceGone
    <3>3. D1[K] \in Seq(Removals)
      BY <1>3 DEF Undoes
    <3> QED BY <3>1, <3>2, <3>3, Zenon
  <2>3. PICK c1 \in Seq(Removals) : c1 = B1[K] /\ c1 = p1
    BY <1>7, <2>2
  <2>4. PICK d \in Seq(Removals), o \in Seq(Removals) :
          d = Delete(n) /\ o = DeleteIfOrphaned(n, TRUE)
    <3>1. Delete(n) \in Seq(Removals) /\ DeleteIfOrphaned(n, TRUE) \in Seq(Removals)
      BY <1>1, DeleteFacts, OwnersIn DEF HasRow
    <3> QED BY <3>1, Zenon
  <2>5. Delete(l) = d /\ DeleteIfOrphaned(l, TRUE) = o
    BY <2>1, <2>4 DEF Delete, DeleteIfOrphaned
  <2>6. DeleteValueTriple(l) = (c1 \o d) \o o
    <3>1. DeleteValueTriple(l) = (c1 \o Delete(l)) \o DeleteIfOrphaned(l, TRUE)
      BY <2>2, <2>3, Zenon DEF DeleteValueTriple
    <3> QED BY <2>5, <3>1, Zenon
  <2>7. (c1 \o d) \o o = c1 \o (d \o o)
    <3>1. Assoc(c1, d, o)
      BY <2>3, <2>4, JoinAssoc
    <3> QED BY <3>1, Zenon DEF Assoc
  <2> QED BY <2>1, <2>3, <2>4, <2>6, <2>7, Zenon
<1>11. ValueTripleGone(n) = Over(B1, n.key, Delete(n) \o DeleteIfOrphaned(n, TRUE))
  BY <1>10 DEF ValueTripleGone, Over
<1> QED BY <1>8, <1>9, <1>11, Zenon

LEMMA ValueTripleSliceUndone ==
  ASSUME NEW ns \in Seq(ValueTriples)
  PROVE  Undoes(ValueTripleSliceGone(ns), Each(ns, InsertValueTriple))
<1>1. PICK ins : ins = [x \in ValueTriples |-> InsertValueTriple(x)]
  OBVIOUS
<1>2. PICK gd : gd = [x \in ValueTriples |-> ValueTripleGone(x)]
  OBVIOUS
<1>3. Gives(ins, ValueTriples, Additions(RowKeys))
  <2>1. \A x \in ValueTriples : InsertValueTriple(x) \in Seq(Additions(RowKeys))
    BY AdditionsAdd, ValueTripleInserted
  <2> QED BY <1>1, <2>1 DEF Gives
<1>4. \A x \in ValueTriples : Undoes(gd[x], ins[x])
  BY <1>1, <1>2, ValueTripleUndone
<1>5. Undoes(SliceOf(gd, ValueTriples, ns), Mapped(ins, ns))
  BY <1>3, <1>4, SliceUndone
<1>6. Mapped(ins, ns) = Each(ns, InsertValueTriple)
  <2>1. [i \in DOMAIN ns |-> ins[ns[i]]] = [i \in DOMAIN ns |-> InsertValueTriple(ns[i])]
    BY <1>1
  <2> QED BY <2>1 DEF Mapped, Each
<1>7. ASSUME NEW K \in SUBSET RowKeys
      PROVE  Mapped([x \in ValueTriples |-> gd[x][K]], ns) = Each(Loaded(ns, K, SelectValueTriple), DeleteValueTriple)
  <2>1. PICK h : h = [x \in ValueTriples |-> DeleteValueTriple(SelectValueTriple(x, K))]
    OBVIOUS
  <2>2. Gives(h, ValueTriples, Removals)
    <3>1. \A x \in ValueTriples : DeleteValueTriple(SelectValueTriple(x, K)) \in Seq(Removals)
      BY RemovalsRemove, ValueTripleDeleted, SelectValueTripleIn
    <3> QED BY <2>1, <3>1 DEF Gives
  <2>3. [x \in ValueTriples |-> gd[x][K]] = [x \in ValueTriples |-> IF x.key \in K THEN h[x] ELSE <<>>]
    BY <1>2, <2>1 DEF ValueTripleGone
  <2>4. Mapped(h, Here(ns, K)) = Mapped([x \in ValueTriples |-> IF x.key \in K THEN h[x] ELSE <<>>], ns)
    BY <2>2, KeptSlice
  <2>5. PICK p \in Seq(ValueTriples) : p = Here(ns, K)
    BY HereIn
  <2>6. Mapped(h, p) = Each(Loaded(ns, K, SelectValueTriple), DeleteValueTriple)
    <3>1. [i \in DOMAIN p |-> h[p[i]]] = [i \in DOMAIN p |-> DeleteValueTriple(SelectValueTriple(p[i], K))]
      BY <2>1
    <3>2. PICK q : q = [i \in DOMAIN p |-> SelectValueTriple(p[i], K)]
      OBVIOUS
    <3>3. Loaded(ns, K, SelectValueTriple) = q
      BY <2>5, <3>2 DEF Loaded
    <3>4. [i \in DOMAIN p |-> DeleteValueTriple(SelectValueTriple(p[i], K))] = [i \in DOMAIN q |-> DeleteValueTriple(q[i])]
      BY <3>2
    <3> QED BY <3>1, <3>3, <3>4 DEF Mapped, Each
  <2> QED BY <2>3, <2>4, <2>5, <2>6, Zenon
<1>8. SliceOf(gd, ValueTriples, ns) = ValueTripleSliceGone(ns)
  BY <1>7 DEF SliceOf, ValueTripleSliceGone
<1> QED BY <1>5, <1>6, <1>8, Zenon

LEMMA StatefulEnvironmentUndone ==
  ASSUME NEW n \in StatefulEnvironments
  PROVE  Undoes(StatefulEnvironmentGone(n), InsertStatefulEnvironment(n))
<1>1. HasRow(n) /\ n.env # NoEnv /\ n.env \in Envs
  BY RowAssumption, OwnerTables DEF HasRow, StatefulEnvironments, OwnerTable
<1>2. PICK t0 \in Seq(Additions(RowKeys)) : t0 = FindEnv(n) \o Insert(n) /\ Joined(Insert(n), <<>>, t0)
  BY <1>1, FoundFirst
<1>3. PICK a1, D1 :
        a1 \in Seq(Additions(RowKeys)) /\ a1 = Each(n.Measurements, InsertMeasurement) /\ D1 = MeasurementSliceGone(n.Measurements) /\ Undoes(D1, a1)
  <2>1. n.Measurements \in Seq(Measurements)
    BY DEF StatefulEnvironments
  <2>2. Each(n.Measurements, InsertMeasurement) \in Seq(Additions(RowKeys))
    BY <2>1, AdditionsAdd, EachMeasurementInserted
  <2> QED BY <2>1, <2>2, MeasurementSliceUndone, Zenon
<1>4. PICK t1 \in Seq(Additions(RowKeys)) : t1 = t0 \o a1 /\ Joined(t0, a1, t1)
  BY <1>2, <1>3, JoinedJoin
<1>5. PICK r1 \in Seq(Additions(RowKeys)) : r1 = a1
  BY <1>3
<1>6. Joined(Insert(n), r1, t1)
  BY <1>2, <1>4, <1>5, <1>3, JoinedOn
<1>7. PICK B1 : B1 = D1 /\ Undoes(B1, r1)
  BY <1>5, <1>3
<1>8. Undoes(Over(B1, n.key, Delete(n) \o DeleteIfOrphaned(n, TRUE)), t1)
  BY <1>1, <1>7, <1>6, OwnerUndone
<1>9. t1 = InsertStatefulEnvironment(n)
  BY <1>2, <1>3, <1>4, Zenon DEF InsertStatefulEnvironment
<1>10. ASSUME NEW K \in SUBSET RowKeys
      PROVE  DeleteStatefulEnvironment(SelectStatefulEnvironment(n, K)) = B1[K] \o (Delete(n) \o DeleteIfOrphaned(n, TRUE))
  <2>1. PICK l : l = SelectStatefulEnvironment(n, K) /\ l.key = n.key
    <3>1. SelectStatefulEnvironment(n, K).key = n.key
      BY DEF SelectStatefulEnvironment, StatefulEnvironments
    <3> QED BY <3>1, Zenon
  <2>2. PICK p1 \in Seq(Removals) : p1 = D1[K] /\ p1 = Each(l.Measurements, DeleteMeasurement)
    <3>1. l.Measurements = Loaded(n.Measurements, K, SelectMeasurement)
      BY <2>1 DEF SelectStatefulEnvironment, StatefulEnvironments
    <3>2. D1[K] = Each(Loaded(n.Measurements, K, SelectMeasurement), DeleteMeasurement)
      BY <1>3 DEF MeasurementSliceGone
    <3>3. D1[K] \in Seq(Removals)
      BY <1>3 DEF Undoes
    <3> QED BY <3>1, <3>2, <3>3, Zenon
  <2>3. PICK c1 \in Seq(Removals) : c1 = B1[K] /\ c1 = p1
    BY <1>7, <2>2
  <2>4. PICK d \in Seq(Removals), o \in Seq(Removals) :
          d = Delete(n) /\ o = DeleteIfOrphaned(n, TRUE)
    <3>1. Delete(n) \in Seq(Removals) /\ DeleteIfOrphaned(n, TRUE) \in Seq(Removals)
      BY <1>1, DeleteFacts, OwnersIn DEF HasRow
    <3> QED BY <3>1, Zenon
  <2>5. Delete(l) = d /\ DeleteIfOrphaned(l, TRUE) = o
    BY <2>1, <2>4 DEF Delete, DeleteIfOrphaned
  <2>6. DeleteStatefulEnvironment(l) = (c1 \o d) \o o
    <3>1. DeleteStatefulEnvironment(l) = (c1 \o Delete(l)) \o DeleteIfOrphaned(l, TRUE)
      BY <2>2, <2>3, Zenon DEF DeleteStatefulEnvironment
    <3> QED BY <2>5, <3>1, Zenon
  <2>7. (c1 \o d) \o o = c1 \o (d \o o)
    <3>1. Assoc(c1, d, o)
      BY <2>3, <2>4, JoinAssoc
    <3> QED BY <3>1, Zenon DEF Assoc
  <2> QED BY <2>1, <2>3, <2>4, <2>6, <2>7, Zenon
<1>11. StatefulEnvironmentGone(n) = Over(B1, n.key, Delete(n) \o DeleteIfOrphaned(n, TRUE))
  BY <1>10 DEF StatefulEnvironmentGone, Over
<1> QED BY <1>8, <1>9, <1>11, Zenon

LEMMA StatefulEnvironmentSliceUndone ==
  ASSUME NEW ns \in Seq(StatefulEnvironments)
  PROVE  Undoes(StatefulEnvironmentSliceGone(ns), Each(ns, InsertStatefulEnvironment))
<1>1. PICK ins : ins = [x \in StatefulEnvironments |-> InsertStatefulEnvironment(x)]
  OBVIOUS
<1>2. PICK gd : gd = [x \in StatefulEnvironments |-> StatefulEnvironmentGone(x)]
  OBVIOUS
<1>3. Gives(ins, StatefulEnvironments, Additions(RowKeys))
  <2>1. \A x \in StatefulEnvironments : InsertStatefulEnvironment(x) \in Seq(Additions(RowKeys))
    BY AdditionsAdd, StatefulEnvironmentInserted
  <2> QED BY <1>1, <2>1 DEF Gives
<1>4. \A x \in StatefulEnvironments : Undoes(gd[x], ins[x])
  BY <1>1, <1>2, StatefulEnvironmentUndone
<1>5. Undoes(SliceOf(gd, StatefulEnvironments, ns), Mapped(ins, ns))
  BY <1>3, <1>4, SliceUndone
<1>6. Mapped(ins, ns) = Each(ns, InsertStatefulEnvironment)
  <2>1. [i \in DOMAIN ns |-> ins[ns[i]]] = [i \in DOMAIN ns |-> InsertStatefulEnvironment(ns[i])]
    BY <1>1
  <2> QED BY <2>1 DEF Mapped, Each
<1>7. ASSUME NEW K \in SUBSET RowKeys
      PROVE  Mapped([x \in StatefulEnvironments |-> gd[x][K]], ns) = Each(Loaded(ns, K, SelectStatefulEnvironment), DeleteStatefulEnvironment)
  <2>1. PICK h : h = [x \in StatefulEnvironments |-> DeleteStatefulEnvironment(SelectStatefulEnvironment(x, K))]
    OBVIOUS
  <2>2. Gives(h, StatefulEnvironments, Removals)
    <3>1. \A x \in StatefulEnvironments : DeleteStatefulEnvironment(SelectStatefulEnvironment(x, K)) \in Seq(Removals)
      BY RemovalsRemove, StatefulEnvironmentDeleted, SelectStatefulEnvironmentIn
    <3> QED BY <2>1, <3>1 DEF Gives
  <2>3. [x \in StatefulEnvironments |-> gd[x][K]] = [x \in StatefulEnvironments |-> IF x.key \in K THEN h[x] ELSE <<>>]
    BY <1>2, <2>1 DEF StatefulEnvironmentGone
  <2>4. Mapped(h, Here(ns, K)) = Mapped([x \in StatefulEnvironments |-> IF x.key \in K THEN h[x] ELSE <<>>], ns)
    BY <2>2, KeptSlice
  <2>5. PICK p \in Seq(StatefulEnvironments) : p = Here(ns, K)
    BY HereIn
  <2>6. Mapped(h, p) = Each(Loaded(ns, K, SelectStatefulEnvironment), DeleteStatefulEnvironment)
    <3>1. [i \in DOMAIN p |-> h[p[i]]] = [i \in DOMAIN p |-> DeleteStatefulEnvironment(SelectStatefulEnvironment(p[i], K))]
      BY <2>1
    <3>2. PICK q : q = [i \in DOMAIN p |-> SelectStatefulEnvironment(p[i], K)]
      OBVIOUS
    <3>3. Loaded(ns, K, SelectStatefulEnvironment) = q
      BY <2>5, <3>2 DEF Loaded
    <3>4. [i \in DOMAIN p |-> DeleteStatefulEnvironment(SelectStatefulEnvironment(p[i], K))] = [i \in DOMAIN q |-> DeleteStatefulEnvironment(q[i])]
      BY <3>2
    <3> QED BY <3>1, <3>3, <3>4 DEF Mapped, Each
  <2> QED BY <2>3, <2>4, <2>5, <2>6, Zenon
<1>8. SliceOf(gd, StatefulEnvironments, ns) = StatefulEnvironmentSliceGone(ns)
  BY <1>7 DEF SliceOf, StatefulEnvironmentSliceGone
<1> QED BY <1>5, <1>6, <1>8, Zenon

LEMMA ConditionalTripleUndone ==
  ASSUME NEW n \in ConditionalEndorsementTriples
  PROVE  Undoes(ConditionalTripleGone(n), InsertConditionalEndorsementTriple(n))
<1>1. HasRow(n) /\ n.env = NoEnv
  BY DEF HasRow, ConditionalEndorsementTriples, Reached, AllTables
<1>2. PICK t0 \in Seq(Additions(RowKeys)) : t0 = Insert(n) /\ Joined(Insert(n), <<>>, t0)
  BY <1>1, InsertFacts, JoinedNothing
<1>3. PICK a1, D1 :
        a1 \in Seq(Additions(RowKeys)) /\ a1 = Each(n.Conditions, InsertStatefulEnvironment) /\ D1 = StatefulEnvironmentSliceGone(n.Conditions) /\ Undoes(D1, a1)
  <2>1. n.Conditions \in Seq(StatefulEnvironments)
    BY DEF ConditionalEndorsementTriples
  <2>2. Each(n.Conditions, InsertStatefulEnvironment) \in Seq(Additions(RowKeys))
    BY <2>1, AdditionsAdd, EachStatefulEnvironmentInserted
  <2> QED BY <2>1, <2>2, StatefulEnvironmentSliceUndone, Zenon
<1>4. PICK a2, D2 :
        a2 \in Seq(Additions(RowKeys)) /\ a2 = Each(n.Endorsements, InsertValueTriple) /\ D2 = ValueTripleSliceGone(n.Endorsements) /\ Undoes(D2, a2)
  <2>1. n.Endorsements \in Seq(ValueTriples)
    BY DEF ConditionalEndorsementTriples
  <2>2. Each(n.Endorsements, InsertValueTriple) \in Seq(Additions(RowKeys))
    BY <2>1, AdditionsAdd, EachValueTripleInserted
  <2> QED BY <2>1, <2>2, ValueTripleSliceUndone, Zenon
<1>5. PICK t1 \in Seq(Additions(RowKeys)) : t1 = t0 \o a1 /\ Joined(t0, a1, t1)
  BY <1>2, <1>3, JoinedJoin
<1>6. PICK t2 \in Seq(Additions(RowKeys)) : t2 = t1 \o a2 /\ Joined(t1, a2, t2)
  BY <1>5, <1>4, JoinedJoin
<1>7. PICK r1 \in Seq(Additions(RowKeys)) : r1 = a1
  BY <1>3
<1>8. PICK r2 \in Seq(Additions(RowKeys)) : Joined(r1, a2, r2)
  BY <1>7, <1>4, JoinedJoin
<1>9. Joined(Insert(n), r1, t1)
  BY <1>2, <1>5, <1>7, <1>3, JoinedOn
<1>10. Joined(Insert(n), r2, t2)
  BY <1>9, <1>6, <1>8 DEF Joined
<1>11. PICK B1 : B1 = D1 /\ Undoes(B1, r1)
  BY <1>7, <1>3
<1>12. PICK B2 : B2 = Both(B1, D2) /\ Undoes(B2, r2)
  BY <1>11, <1>8, <1>4, UndoesJoin
<1>13. Undoes(Over(B2, n.key, Delete(n)), t2)
  BY <1>1, <1>12, <1>10, RootUndone
<1>14. t2 = InsertConditionalEndorsementTriple(n)
  BY <1>2, <1>3, <1>4, <1>5, <1>6, Zenon DEF InsertConditionalEndorsementTriple
<1>15. ASSUME NEW K \in SUBSET RowKeys
      PROVE  DeleteConditionalEndorsementTriple(SelectConditionalEndorsementTriple(n, K)) = B2[K] \o Delete(n)
  <2>1. PICK l : l = SelectConditionalEndorsementTriple(n, K) /\ l.key = n.key
    <3>1. SelectConditionalEndorsementTriple(n, K).key = n.key
      BY DEF SelectConditionalEndorsementTriple, ConditionalEndorsementTriples
    <3> QED BY <3>1, Zenon
  <2>2. PICK p1 \in Seq(Removals) : p1 = D1[K] /\ p1 = Each(l.Conditions, DeleteStatefulEnvironment)
    <3>1. l.Conditions = Loaded(n.Conditions, K, SelectStatefulEnvironment)
      BY <2>1 DEF SelectConditionalEndorsementTriple, ConditionalEndorsementTriples
    <3>2. D1[K] = Each(Loaded(n.Conditions, K, SelectStatefulEnvironment), DeleteStatefulEnvironment)
      BY <1>3 DEF StatefulEnvironmentSliceGone
    <3>3. D1[K] \in Seq(Removals)
      BY <1>3 DEF Undoes
    <3> QED BY <3>1, <3>2, <3>3, Zenon
  <2>3. PICK p2 \in Seq(Removals) : p2 = D2[K] /\ p2 = Each(l.Endorsements, DeleteValueTriple)
    <3>1. l.Endorsements = Loaded(n.Endorsements, K, SelectValueTriple)
      BY <2>1 DEF SelectConditionalEndorsementTriple, ConditionalEndorsementTriples
    <3>2. D2[K] = Each(Loaded(n.Endorsements, K, SelectValueTriple), DeleteValueTriple)
      BY <1>4 DEF ValueTripleSliceGone
    <3>3. D2[K] \in Seq(Removals)
      BY <1>4 DEF Undoes
    <3> QED BY <3>1, <3>2, <3>3, Zenon
  <2>4. PICK c1 \in Seq(Removals) : c1 = B1[K] /\ c1 = p1
    BY <1>11, <2>2
  <2>5. PICK c2 \in Seq(Removals) : c2 = B2[K] /\ c2 = c1 \o p2
    <3>1. B2[K] = B1[K] \o D2[K]
      BY <1>12 DEF Both
    <3>2. B2[K] \in Seq(Removals)
      BY <1>12 DEF Undoes
    <3> QED BY <3>1, <3>2, <2>4, <2>3, Zenon
  <2>6. Delete(l) = Delete(n)
    BY <2>1 DEF Delete
  <2>7. DeleteConditionalEndorsementTriple(l) = c2 \o Delete(n)
    BY <2>1, <2>2, <2>3, <2>4, <2>5, <2>6, Zenon DEF DeleteConditionalEndorsementTriple
  <2> QED BY <2>1, <2>5, <2>7, Zenon
<1>16. ConditionalTripleGone(n) = Over(B2, n.key, Delete(n))
  BY <1>15 DEF ConditionalTripleGone, Over
<1> QED BY <1>13, <1>14, <1>16, Zenon

LEMMA ConditionalTripleSliceUndone ==
  ASSUME NEW ns \in Seq(ConditionalEndorsementTriples)
  PROVE  Undoes(ConditionalTripleSliceGone(ns), Each(ns, InsertConditionalEndorsementTriple))
<1>1. PICK ins : ins = [x \in ConditionalEndorsementTriples |-> InsertConditionalEndorsementTriple(x)]
  OBVIOUS
<1>2. PICK gd : gd = [x \in ConditionalEndorsementTriples |-> ConditionalTripleGone(x)]
  OBVIOUS
<1>3. Gives(ins, ConditionalEndorsementTriples, Additions(RowKeys))
  <2>1. \A x \in ConditionalEndorsementTriples : InsertConditionalEndorsementTriple(x) \in Seq(Additions(RowKeys))
    BY AdditionsAdd, ConditionalTripleInserted
  <2> QED BY <1>1, <2>1 DEF Gives
<1>4. \A x \in ConditionalEndorsementTriples : Undoes(gd[x], ins[x])
  BY <1>1, <1>2, ConditionalTripleUndone
<1>5. Undoes(SliceOf(gd, ConditionalEndorsementTriples, ns), Mapped(ins, ns))
  BY <1>3, <1>4, SliceUndone
<1>6. Mapped(ins, ns) = Each(ns, InsertConditionalEndorsementTriple)
  <2>1. [i \in DOMAIN ns |-> ins[ns[i]]] = [i \in DOMAIN ns |-> InsertConditionalEndorsementTriple(ns[i])]
    BY <1>1
  <2> QED BY <2>1 DEF Mapped, Each
<1>7. ASSUME NEW K \in SUBSET RowKeys
      PROVE  Mapped([x \in ConditionalEndorsementTriples |-> gd[x][K]], ns) = Each(Loaded(ns, K, SelectConditionalEndorsementTriple), DeleteConditionalEndorsementTriple)
  <2>1. PICK h : h = [x \in ConditionalEndorsementTriples |-> DeleteConditionalEndorsementTriple(SelectConditionalEndorsementTriple(x, K))]
    OBVIOUS
  <2>2. Gives(h, ConditionalEndorsementTriples, Removals)
    <3>1. \A x \in ConditionalEndorsementTriples : DeleteConditionalEndorsementTriple(SelectConditionalEndorsementTriple(x, K)) \in Seq(Removals)
      BY RemovalsRemove, ConditionalTripleDeleted, SelectConditionalTripleIn
    <3> QED BY <2>1, <3>1 DEF Gives
  <2>3. [x \in ConditionalEndorsementTriples |-> gd[x][K]] = [x \in ConditionalEndorsementTriples |-> IF x.key \in K THEN h[x] ELSE <<>>]
    BY <1>2, <2>1 DEF ConditionalTripleGone
  <2>4. Mapped(h, Here(ns, K)) = Mapped([x \in ConditionalEndorsementTriples |-> IF x.key \in K THEN h[x] ELSE <<>>], ns)
    BY <2>2, KeptSlice
  <2>5. PICK p \in Seq(ConditionalEndorsementTriples) : p = Here(ns, K)
    BY HereIn
  <2>6. Mapped(h, p) = Each(Loaded(ns, K, SelectConditionalEndorsementTriple), DeleteConditionalEndorsementTriple)
    <3>1. [i \in DOMAIN p |-> h[p[i]]] = [i \in DOMAIN p |-> DeleteConditionalEndorsementTriple(SelectConditionalEndorsementTriple(p[i], K))]
      BY <2>1
    <3>2. PICK q : q = [i \in DOMAIN p |-> SelectConditionalEndorsementTriple(p[i], K)]
      OBVIOUS
    <3>3. Loaded(ns, K, SelectConditionalEndorsementTriple) = q
      BY <2>5, <3>2 DEF Loaded
    <3>4. [i \in DOMAIN p |-> DeleteConditionalEndorsementTriple(SelectConditionalEndorsementTriple(p[i], K))] = [i \in DOMAIN q |-> DeleteConditionalEndorsementTriple(q[i])]
      BY <3>2
    <3> QED BY <3>1, <3>3, <3>4 DEF Mapped, Each
  <2> QED BY <2>3, <2>4, <2>5, <2>6, Zenon
<1>8. SliceOf(gd, ConditionalEndorsementTriples, ns) = ConditionalTripleSliceGone(ns)
  BY <1>7 DEF SliceOf, ConditionalTripleSliceGone
<1> QED BY <1>5, <1>6, <1>8, Zenon

LEMMA SeriesRecordUndone ==
  ASSUME NEW n \in ConditionalEndorsementSeriesRecords
  PROVE  Undoes(SeriesRecordGone(n), InsertConditionalEndorsementSeriesRecord(n))
<1>1. HasRow(n) /\ n.env = NoEnv
  BY DEF HasRow, ConditionalEndorsementSeriesRecords, AllTables, Forgotten
<1>2. PICK t0 \in Seq(Additions(RowKeys)) : t0 = Insert(n) /\ Joined(Insert(n), <<>>, t0)
  BY <1>1, InsertFacts, JoinedNothing
<1>3. PICK a1, D1 :
        a1 \in Seq(Additions(RowKeys)) /\ a1 = Each(n.Selection, InsertMeasurement) /\ D1 = MeasurementSliceGone(n.Selection) /\ Undoes(D1, a1)
  <2>1. n.Selection \in Seq(Measurements)
    BY DEF ConditionalEndorsementSeriesRecords
  <2>2. Each(n.Selection, InsertMeasurement) \in Seq(Additions(RowKeys))
    BY <2>1, AdditionsAdd, EachMeasurementInserted
  <2> QED BY <2>1, <2>2, MeasurementSliceUndone, Zenon
<1>4. PICK a2, D2 :
        a2 \in Seq(Additions(RowKeys)) /\ a2 = Each(n.Addition, InsertMeasurement) /\ D2 = MeasurementSliceGone(n.Addition) /\ Undoes(D2, a2)
  <2>1. n.Addition \in Seq(Measurements)
    BY DEF ConditionalEndorsementSeriesRecords
  <2>2. Each(n.Addition, InsertMeasurement) \in Seq(Additions(RowKeys))
    BY <2>1, AdditionsAdd, EachMeasurementInserted
  <2> QED BY <2>1, <2>2, MeasurementSliceUndone, Zenon
<1>5. PICK t1 \in Seq(Additions(RowKeys)) : t1 = t0 \o a1 /\ Joined(t0, a1, t1)
  BY <1>2, <1>3, JoinedJoin
<1>6. PICK t2 \in Seq(Additions(RowKeys)) : t2 = t1 \o a2 /\ Joined(t1, a2, t2)
  BY <1>5, <1>4, JoinedJoin
<1>7. PICK r1 \in Seq(Additions(RowKeys)) : r1 = a1
  BY <1>3
<1>8. PICK r2 \in Seq(Additions(RowKeys)) : Joined(r1, a2, r2)
  BY <1>7, <1>4, JoinedJoin
<1>9. Joined(Insert(n), r1, t1)
  BY <1>2, <1>5, <1>7, <1>3, JoinedOn
<1>10. Joined(Insert(n), r2, t2)
  BY <1>9, <1>6, <1>8 DEF Joined
<1>11. PICK B1 : B1 = D1 /\ Undoes(B1, r1)
  BY <1>7, <1>3
<1>12. PICK B2 : B2 = Both(B1, D2) /\ Undoes(B2, r2)
  BY <1>11, <1>8, <1>4, UndoesJoin
<1>13. Undoes(Below(B2, n.key), t2)
  BY <1>1, <1>12, <1>10, BelowUndone
<1>14. t2 = InsertConditionalEndorsementSeriesRecord(n)
  BY <1>2, <1>3, <1>4, <1>5, <1>6, Zenon DEF InsertConditionalEndorsementSeriesRecord
<1>15. ASSUME NEW K \in SUBSET RowKeys
      PROVE  DeleteConditionalEndorsementSeriesRecord(SelectConditionalEndorsementSeriesRecord(n, K)) = B2[K]
  <2>1. PICK l : l = SelectConditionalEndorsementSeriesRecord(n, K) /\ l.key = n.key
    <3>1. SelectConditionalEndorsementSeriesRecord(n, K).key = n.key
      BY DEF SelectConditionalEndorsementSeriesRecord, ConditionalEndorsementSeriesRecords
    <3> QED BY <3>1, Zenon
  <2>2. PICK p1 \in Seq(Removals) : p1 = D1[K] /\ p1 = Each(l.Selection, DeleteMeasurement)
    <3>1. l.Selection = Loaded(n.Selection, K, SelectMeasurement)
      BY <2>1 DEF SelectConditionalEndorsementSeriesRecord, ConditionalEndorsementSeriesRecords
    <3>2. D1[K] = Each(Loaded(n.Selection, K, SelectMeasurement), DeleteMeasurement)
      BY <1>3 DEF MeasurementSliceGone
    <3>3. D1[K] \in Seq(Removals)
      BY <1>3 DEF Undoes
    <3> QED BY <3>1, <3>2, <3>3, Zenon
  <2>3. PICK p2 \in Seq(Removals) : p2 = D2[K] /\ p2 = Each(l.Addition, DeleteMeasurement)
    <3>1. l.Addition = Loaded(n.Addition, K, SelectMeasurement)
      BY <2>1 DEF SelectConditionalEndorsementSeriesRecord, ConditionalEndorsementSeriesRecords
    <3>2. D2[K] = Each(Loaded(n.Addition, K, SelectMeasurement), DeleteMeasurement)
      BY <1>4 DEF MeasurementSliceGone
    <3>3. D2[K] \in Seq(Removals)
      BY <1>4 DEF Undoes
    <3> QED BY <3>1, <3>2, <3>3, Zenon
  <2>4. PICK c1 \in Seq(Removals) : c1 = B1[K] /\ c1 = p1
    BY <1>11, <2>2
  <2>5. PICK c2 \in Seq(Removals) : c2 = B2[K] /\ c2 = c1 \o p2
    <3>1. B2[K] = B1[K] \o D2[K]
      BY <1>12 DEF Both
    <3>2. B2[K] \in Seq(Removals)
      BY <1>12 DEF Undoes
    <3> QED BY <3>1, <3>2, <2>4, <2>3, Zenon
  <2>6. DeleteConditionalEndorsementSeriesRecord(l) = c2
    BY <2>1, <2>2, <2>3, <2>4, <2>5, Zenon DEF DeleteConditionalEndorsementSeriesRecord
  <2> QED BY <2>1, <2>5, <2>6, Zenon
<1>16. SeriesRecordGone(n) = Below(B2, n.key)
  BY <1>15 DEF SeriesRecordGone, Below
<1> QED BY <1>13, <1>14, <1>16, Zenon

LEMMA SeriesRecordSliceUndone ==
  ASSUME NEW ns \in Seq(ConditionalEndorsementSeriesRecords)
  PROVE  Undoes(SeriesRecordSliceGone(ns), Each(ns, InsertConditionalEndorsementSeriesRecord))
<1>1. PICK ins : ins = [x \in ConditionalEndorsementSeriesRecords |-> InsertConditionalEndorsementSeriesRecord(x)]
  OBVIOUS
<1>2. PICK gd : gd = [x \in ConditionalEndorsementSeriesRecords |-> SeriesRecordGone(x)]
  OBVIOUS
<1>3. Gives(ins, ConditionalEndorsementSeriesRecords, Additions(RowKeys))
  <2>1. \A x \in ConditionalEndorsementSeriesRecords : InsertConditionalEndorsementSeriesRecord(x) \in Seq(Additions(RowKeys))
    BY AdditionsAdd, SeriesRecordInserted
  <2> QED BY <1>1, <2>1 DEF Gives
<1>4. \A x \in ConditionalEndorsementSeriesRecords : Undoes(gd[x], ins[x])
  BY <1>1, <1>2, SeriesRecordUndone
<1>5. Undoes(SliceOf(gd, ConditionalEndorsementSeriesRecords, ns), Mapped(ins, ns))
  BY <1>3, <1>4, SliceUndone
<1>6. Mapped(ins, ns) = Each(ns, InsertConditionalEndorsementSeriesRecord)
  <2>1. [i \in DOMAIN ns |-> ins[ns[i]]] = [i \in DOMAIN ns |-> InsertConditionalEndorsementSeriesRecord(ns[i])]
    BY <1>1
  <2> QED BY <2>1 DEF Mapped, Each
<1>7. ASSUME NEW K \in SUBSET RowKeys
      PROVE  Mapped([x \in ConditionalEndorsementSeriesRecords |-> gd[x][K]], ns) = Each(Loaded(ns, K, SelectConditionalEndorsementSeriesRecord), DeleteConditionalEndorsementSeriesRecord)
  <2>1. PICK h : h = [x \in ConditionalEndorsementSeriesRecords |-> DeleteConditionalEndorsementSeriesRecord(SelectConditionalEndorsementSeriesRecord(x, K))]
    OBVIOUS
  <2>2. Gives(h, ConditionalEndorsementSeriesRecords, Removals)
    <3>1. \A x \in ConditionalEndorsementSeriesRecords : DeleteConditionalEndorsementSeriesRecord(SelectConditionalEndorsementSeriesRecord(x, K)) \in Seq(Removals)
      BY RemovalsRemove, SeriesRecordDeleted, SelectSeriesRecordIn
    <3> QED BY <2>1, <3>1 DEF Gives
  <2>3. [x \in ConditionalEndorsementSeriesRecords |-> gd[x][K]] = [x \in ConditionalEndorsementSeriesRecords |-> IF x.key \in K THEN h[x] ELSE <<>>]
    BY <1>2, <2>1 DEF SeriesRecordGone
  <2>4. Mapped(h, Here(ns, K)) = Mapped([x \in ConditionalEndorsementSeriesRecords |-> IF x.key \in K THEN h[x] ELSE <<>>], ns)
    BY <2>2, KeptSlice
  <2>5. PICK p \in Seq(ConditionalEndorsementSeriesRecords) : p = Here(ns, K)
    BY HereIn
  <2>6. Mapped(h, p) = Each(Loaded(ns, K, SelectConditionalEndorsementSeriesRecord), DeleteConditionalEndorsementSeriesRecord)
    <3>1. [i \in DOMAIN p |-> h[p[i]]] = [i \in DOMAIN p |-> DeleteConditionalEndorsementSeriesRecord(SelectConditionalEndorsementSeriesRecord(p[i], K))]
      BY <2>1
    <3>2. PICK q : q = [i \in DOMAIN p |-> SelectConditionalEndorsementSeriesRecord(p[i], K)]
      OBVIOUS
    <3>3. Loaded(ns, K, SelectConditionalEndorsementSeriesRecord) = q
      BY <2>5, <3>2 DEF Loaded
    <3>4. [i \in DOMAIN p |-> DeleteConditionalEndorsementSeriesRecord(SelectConditionalEndorsementSeriesRecord(p[i], K))] = [i \in DOMAIN q |-> DeleteConditionalEndorsementSeriesRecord(q[i])]
      BY <3>2
    <3> QED BY <3>1, <3>3, <3>4 DEF Mapped, Each
  <2> QED BY <2>3, <2>4, <2>5, <2>6, Zenon
<1>8. SliceOf(gd, ConditionalEndorsementSeriesRecords, ns) = SeriesRecordSliceGone(ns)
  BY <1>7 DEF SliceOf, SeriesRecordSliceGone
<1> QED BY <1>5, <1>6, <1>8, Zenon

LEMMA SeriesTripleUndone ==
  ASSUME NEW n \in ConditionalEndorsementSeriesTriples
  PROVE  Undoes(SeriesTripleGone(n), InsertConditionalEndorsementSeriesTriple(n))
<1>1. HasRow(n) /\ n.env # NoEnv /\ n.env \in Envs
  BY RowAssumption, OwnerTables DEF HasRow, ConditionalEndorsementSeriesTriples, OwnerTable
<1>2. PICK t0 \in Seq(Additions(RowKeys)) : t0 = FindEnv(n) \o Insert(n) /\ Joined(Insert(n), <<>>, t0)
  BY <1>1, FoundFirst
<1>3. PICK a1, D1 :
        a1 \in Seq(Additions(RowKeys)) /\ a1 = Each(n.Measurements, InsertMeasurement) /\ D1 = MeasurementSliceGone(n.Measurements) /\ Undoes(D1, a1)
  <2>1. n.Measurements \in Seq(Measurements)
    BY DEF ConditionalEndorsementSeriesTriples
  <2>2. Each(n.Measurements, InsertMeasurement) \in Seq(Additions(RowKeys))
    BY <2>1, AdditionsAdd, EachMeasurementInserted
  <2> QED BY <2>1, <2>2, MeasurementSliceUndone, Zenon
<1>4. PICK a2, D2 :
        a2 \in Seq(Additions(RowKeys)) /\ a2 = Each(n.AuthorizedBy, Insert) /\ D2 = LeafSliceGone(n.AuthorizedBy) /\ Undoes(D2, a2)
  <2>1. n.AuthorizedBy \in Seq(AnyLeaves)
    BY AnyLeaf DEF ConditionalEndorsementSeriesTriples
  <2>2. Each(n.AuthorizedBy, Insert) \in Seq(Additions(RowKeys))
    BY <2>1, AdditionsAdd, EachInserted
  <2> QED BY <2>1, <2>2, LeafSliceUndone, Zenon
<1>5. PICK a3, D3 :
        a3 \in Seq(Additions(RowKeys)) /\ a3 = Each(n.Series, InsertConditionalEndorsementSeriesRecord) /\ D3 = SeriesRecordSliceGone(n.Series) /\ Undoes(D3, a3)
  <2>1. n.Series \in Seq(ConditionalEndorsementSeriesRecords)
    BY DEF ConditionalEndorsementSeriesTriples
  <2>2. Each(n.Series, InsertConditionalEndorsementSeriesRecord) \in Seq(Additions(RowKeys))
    BY <2>1, AdditionsAdd, EachSeriesRecordInserted
  <2> QED BY <2>1, <2>2, SeriesRecordSliceUndone, Zenon
<1>6. PICK t1 \in Seq(Additions(RowKeys)) : t1 = t0 \o a1 /\ Joined(t0, a1, t1)
  BY <1>2, <1>3, JoinedJoin
<1>7. PICK t2 \in Seq(Additions(RowKeys)) : t2 = t1 \o a2 /\ Joined(t1, a2, t2)
  BY <1>6, <1>4, JoinedJoin
<1>8. PICK t3 \in Seq(Additions(RowKeys)) : t3 = t2 \o a3 /\ Joined(t2, a3, t3)
  BY <1>7, <1>5, JoinedJoin
<1>9. PICK r1 \in Seq(Additions(RowKeys)) : r1 = a1
  BY <1>3
<1>10. PICK r2 \in Seq(Additions(RowKeys)) : Joined(r1, a2, r2)
  BY <1>9, <1>4, JoinedJoin
<1>11. PICK r3 \in Seq(Additions(RowKeys)) : Joined(r2, a3, r3)
  BY <1>10, <1>5, JoinedJoin
<1>12. Joined(Insert(n), r1, t1)
  BY <1>2, <1>6, <1>9, <1>3, JoinedOn
<1>13. Joined(Insert(n), r2, t2)
  BY <1>12, <1>7, <1>10 DEF Joined
<1>14. Joined(Insert(n), r3, t3)
  BY <1>13, <1>8, <1>11 DEF Joined
<1>15. PICK B1 : B1 = D1 /\ Undoes(B1, r1)
  BY <1>9, <1>3
<1>16. PICK B2 : B2 = Both(B1, D2) /\ Undoes(B2, r2)
  BY <1>15, <1>10, <1>4, UndoesJoin
<1>17. PICK B3 : B3 = Both(B2, D3) /\ Undoes(B3, r3)
  BY <1>16, <1>11, <1>5, UndoesJoin
<1>18. Undoes(Over(B3, n.key, Delete(n) \o DeleteIfOrphaned(n, FALSE)), t3)
  BY <1>1, <1>17, <1>14, OwnerUndone
<1>19. t3 = InsertConditionalEndorsementSeriesTriple(n)
  BY <1>2, <1>3, <1>4, <1>5, <1>6, <1>7, <1>8, Zenon DEF InsertConditionalEndorsementSeriesTriple
<1>20. ASSUME NEW K \in SUBSET RowKeys
      PROVE  DeleteConditionalEndorsementSeriesTriple(SelectConditionalEndorsementSeriesTriple(n, K)) = B3[K] \o (Delete(n) \o DeleteIfOrphaned(n, FALSE))
  <2>1. PICK l : l = SelectConditionalEndorsementSeriesTriple(n, K) /\ l.key = n.key
    <3>1. SelectConditionalEndorsementSeriesTriple(n, K).key = n.key
      BY DEF SelectConditionalEndorsementSeriesTriple, ConditionalEndorsementSeriesTriples
    <3> QED BY <3>1, Zenon
  <2>2. PICK p1 \in Seq(Removals) : p1 = D1[K] /\ p1 = Each(l.Measurements, DeleteMeasurement)
    <3>1. l.Measurements = Loaded(n.Measurements, K, SelectMeasurement)
      BY <2>1 DEF SelectConditionalEndorsementSeriesTriple, ConditionalEndorsementSeriesTriples
    <3>2. D1[K] = Each(Loaded(n.Measurements, K, SelectMeasurement), DeleteMeasurement)
      BY <1>3 DEF MeasurementSliceGone
    <3>3. D1[K] \in Seq(Removals)
      BY <1>3 DEF Undoes
    <3> QED BY <3>1, <3>2, <3>3, Zenon
  <2>3. PICK p2 \in Seq(Removals) : p2 = D2[K] /\ p2 = Each(l.AuthorizedBy, Delete)
    <3>1. l.AuthorizedBy = Here(n.AuthorizedBy, K)
      BY <2>1 DEF SelectConditionalEndorsementSeriesTriple, ConditionalEndorsementSeriesTriples
    <3>2. D2[K] = Each(Here(n.AuthorizedBy, K), Delete)
      BY <1>4 DEF LeafSliceGone
    <3>3. D2[K] \in Seq(Removals)
      BY <1>4 DEF Undoes
    <3> QED BY <3>1, <3>2, <3>3, Zenon
  <2>4. PICK p3 \in Seq(Removals) : p3 = D3[K] /\ p3 = Each(l.Series, DeleteConditionalEndorsementSeriesRecord)
    <3>1. l.Series = Loaded(n.Series, K, SelectConditionalEndorsementSeriesRecord)
      BY <2>1 DEF SelectConditionalEndorsementSeriesTriple, ConditionalEndorsementSeriesTriples
    <3>2. D3[K] = Each(Loaded(n.Series, K, SelectConditionalEndorsementSeriesRecord), DeleteConditionalEndorsementSeriesRecord)
      BY <1>5 DEF SeriesRecordSliceGone
    <3>3. D3[K] \in Seq(Removals)
      BY <1>5 DEF Undoes
    <3> QED BY <3>1, <3>2, <3>3, Zenon
  <2>5. PICK c1 \in Seq(Removals) : c1 = B1[K] /\ c1 = p1
    BY <1>15, <2>2
  <2>6. PICK c2 \in Seq(Removals) : c2 = B2[K] /\ c2 = c1 \o p2
    <3>1. B2[K] = B1[K] \o D2[K]
      BY <1>16 DEF Both
    <3>2. B2[K] \in Seq(Removals)
      BY <1>16 DEF Undoes
    <3> QED BY <3>1, <3>2, <2>5, <2>3, Zenon
  <2>7. PICK c3 \in Seq(Removals) : c3 = B3[K] /\ c3 = c2 \o p3
    <3>1. B3[K] = B2[K] \o D3[K]
      BY <1>17 DEF Both
    <3>2. B3[K] \in Seq(Removals)
      BY <1>17 DEF Undoes
    <3> QED BY <3>1, <3>2, <2>6, <2>4, Zenon
  <2>8. PICK d \in Seq(Removals), o \in Seq(Removals) :
          d = Delete(n) /\ o = DeleteIfOrphaned(n, FALSE)
    <3>1. Delete(n) \in Seq(Removals) /\ DeleteIfOrphaned(n, FALSE) \in Seq(Removals)
      BY <1>1, DeleteFacts, OwnersIn DEF HasRow
    <3> QED BY <3>1, Zenon
  <2>9. Delete(l) = d /\ DeleteIfOrphaned(l, FALSE) = o
    BY <2>1, <2>8 DEF Delete, DeleteIfOrphaned
  <2>10. DeleteConditionalEndorsementSeriesTriple(l) = (c3 \o d) \o o
    <3>1. DeleteConditionalEndorsementSeriesTriple(l) = (c3 \o Delete(l)) \o DeleteIfOrphaned(l, FALSE)
      BY <2>2, <2>3, <2>4, <2>5, <2>6, <2>7, Zenon DEF DeleteConditionalEndorsementSeriesTriple
    <3> QED BY <2>9, <3>1, Zenon
  <2>11. (c3 \o d) \o o = c3 \o (d \o o)
    <3>1. Assoc(c3, d, o)
      BY <2>7, <2>8, JoinAssoc
    <3> QED BY <3>1, Zenon DEF Assoc
  <2> QED BY <2>1, <2>7, <2>8, <2>10, <2>11, Zenon
<1>21. SeriesTripleGone(n) = Over(B3, n.key, Delete(n) \o DeleteIfOrphaned(n, FALSE))
  BY <1>20 DEF SeriesTripleGone, Over
<1> QED BY <1>18, <1>19, <1>21, Zenon

LEMMA SeriesTripleSliceUndone ==
  ASSUME NEW ns \in Seq(ConditionalEndorsementSeriesTriples)
  PROVE  Undoes(SeriesTripleSliceGone(ns), Each(ns, InsertConditionalEndorsementSeriesTriple))
<1>1. PICK ins : ins = [x \in ConditionalEndorsementSeriesTriples |-> InsertConditionalEndorsementSeriesTriple(x)]
  OBVIOUS
<1>2. PICK gd : gd = [x \in ConditionalEndorsementSeriesTriples |-> SeriesTripleGone(x)]
  OBVIOUS
<1>3. Gives(ins, ConditionalEndorsementSeriesTriples, Additions(RowKeys))
  <2>1. \A x \in ConditionalEndorsementSeriesTriples : InsertConditionalEndorsementSeriesTriple(x) \in Seq(Additions(RowKeys))
    BY AdditionsAdd, SeriesTripleInserted
  <2> QED BY <1>1, <2>1 DEF Gives
<1>4. \A x \in ConditionalEndorsementSeriesTriples : Undoes(gd[x], ins[x])
  BY <1>1, <1>2, SeriesTripleUndone
<1>5. Undoes(SliceOf(gd, ConditionalEndorsementSeriesTriples, ns), Mapped(ins, ns))
  BY <1>3, <1>4, SliceUndone
<1>6. Mapped(ins, ns) = Each(ns, InsertConditionalEndorsementSeriesTriple)
  <2>1. [i \in DOMAIN ns |-> ins[ns[i]]] = [i \in DOMAIN ns |-> InsertConditionalEndorsementSeriesTriple(ns[i])]
    BY <1>1
  <2> QED BY <2>1 DEF Mapped, Each
<1>7. ASSUME NEW K \in SUBSET RowKeys
      PROVE  Mapped([x \in ConditionalEndorsementSeriesTriples |-> gd[x][K]], ns) = Each(Loaded(ns, K, SelectConditionalEndorsementSeriesTriple), DeleteConditionalEndorsementSeriesTriple)
  <2>1. PICK h : h = [x \in ConditionalEndorsementSeriesTriples |-> DeleteConditionalEndorsementSeriesTriple(SelectConditionalEndorsementSeriesTriple(x, K))]
    OBVIOUS
  <2>2. Gives(h, ConditionalEndorsementSeriesTriples, Removals)
    <3>1. \A x \in ConditionalEndorsementSeriesTriples : DeleteConditionalEndorsementSeriesTriple(SelectConditionalEndorsementSeriesTriple(x, K)) \in Seq(Removals)
      BY RemovalsRemove, SeriesTripleDeleted, SelectSeriesTripleIn
    <3> QED BY <2>1, <3>1 DEF Gives
  <2>3. [x \in ConditionalEndorsementSeriesTriples |-> gd[x][K]] = [x \in ConditionalEndorsementSeriesTriples |-> IF x.key \in K THEN h[x] ELSE <<>>]
    BY <1>2, <2>1 DEF SeriesTripleGone
  <2>4. Mapped(h, Here(ns, K)) = Mapped([x \in ConditionalEndorsementSeriesTriples |-> IF x.key \in K THEN h[x] ELSE <<>>], ns)
    BY <2>2, KeptSlice
  <2>5. PICK p \in Seq(ConditionalEndorsementSeriesTriples) : p = Here(ns, K)
    BY HereIn
  <2>6. Mapped(h, p) = Each(Loaded(ns, K, SelectConditionalEndorsementSeriesTriple), DeleteConditionalEndorsementSeriesTriple)
    <3>1. [i \in DOMAIN p |-> h[p[i]]] = [i \in DOMAIN p |-> DeleteConditionalEndorsementSeriesTriple(SelectConditionalEndorsementSeriesTriple(p[i], K))]
      BY <2>1
    <3>2. PICK q : q = [i \in DOMAIN p |-> SelectConditionalEndorsementSeriesTriple(p[i], K)]
      OBVIOUS
    <3>3. Loaded(ns, K, SelectConditionalEndorsementSeriesTriple) = q
      BY <2>5, <3>2 DEF Loaded
    <3>4. [i \in DOMAIN p |-> DeleteConditionalEndorsementSeriesTriple(SelectConditionalEndorsementSeriesTriple(p[i], K))] = [i \in DOMAIN q |-> DeleteConditionalEndorsementSeriesTriple(q[i])]
      BY <3>2
    <3> QED BY <3>1, <3>3, <3>4 DEF Mapped, Each
  <2> QED BY <2>3, <2>4, <2>5, <2>6, Zenon
<1>8. SliceOf(gd, ConditionalEndorsementSeriesTriples, ns) = SeriesTripleSliceGone(ns)
  BY <1>7 DEF SliceOf, SeriesTripleSliceGone
<1> QED BY <1>5, <1>6, <1>8, Zenon

LEMMA MembershipTripleUndone ==
  ASSUME NEW n \in DomainMembershipTriples
  PROVE  Undoes(MembershipTripleGone(n), InsertDomainMembershipTriple(n))
<1>1. HasRow(n) /\ n.env # NoEnv /\ n.env \in Envs
  BY RowAssumption, OwnerTables DEF HasRow, DomainMembershipTriples, OwnerTable
<1>2. PICK t0 \in Seq(Additions(RowKeys)) : t0 = FindEnv(n) \o Insert(n) /\ Joined(Insert(n), <<>>, t0)
  BY <1>1, FoundFirst
<1>3. PICK a1, D1 :
        a1 \in Seq(Additions(RowKeys)) /\ a1 = Each(n.Members, InsertDomainEntry) /\ D1 = DomainEntrySliceGone(n.Members) /\ Undoes(D1, a1)
  <2>1. n.Members \in Seq(DomainEntries)
    BY DEF DomainMembershipTriples
  <2>2. Each(n.Members, InsertDomainEntry) \in Seq(Additions(RowKeys))
    BY <2>1, AdditionsAdd, EachDomainEntryInserted
  <2> QED BY <2>1, <2>2, DomainEntrySliceUndone, Zenon
<1>4. PICK t1 \in Seq(Additions(RowKeys)) : t1 = t0 \o a1 /\ Joined(t0, a1, t1)
  BY <1>2, <1>3, JoinedJoin
<1>5. PICK r1 \in Seq(Additions(RowKeys)) : r1 = a1
  BY <1>3
<1>6. Joined(Insert(n), r1, t1)
  BY <1>2, <1>4, <1>5, <1>3, JoinedOn
<1>7. PICK B1 : B1 = D1 /\ Undoes(B1, r1)
  BY <1>5, <1>3
<1>8. Undoes(Over(B1, n.key, Delete(n) \o DeleteIfOrphaned(n, TRUE)), t1)
  BY <1>1, <1>7, <1>6, OwnerUndone
<1>9. t1 = InsertDomainMembershipTriple(n)
  BY <1>2, <1>3, <1>4, Zenon DEF InsertDomainMembershipTriple
<1>10. ASSUME NEW K \in SUBSET RowKeys
      PROVE  DeleteDomainMembershipTriple(SelectDomainMembershipTriple(n, K)) = B1[K] \o (Delete(n) \o DeleteIfOrphaned(n, TRUE))
  <2>1. PICK l : l = SelectDomainMembershipTriple(n, K) /\ l.key = n.key
    <3>1. SelectDomainMembershipTriple(n, K).key = n.key
      BY DEF SelectDomainMembershipTriple, DomainMembershipTriples
    <3> QED BY <3>1, Zenon
  <2>2. PICK p1 \in Seq(Removals) : p1 = D1[K] /\ p1 = Each(l.Members, DeleteDomainEntry)
    <3>1. l.Members = Here(n.Members, K)
      BY <2>1 DEF SelectDomainMembershipTriple, DomainMembershipTriples
    <3>2. D1[K] = Each(Here(n.Members, K), DeleteDomainEntry)
      BY <1>3 DEF DomainEntrySliceGone
    <3>3. D1[K] \in Seq(Removals)
      BY <1>3 DEF Undoes
    <3> QED BY <3>1, <3>2, <3>3, Zenon
  <2>3. PICK c1 \in Seq(Removals) : c1 = B1[K] /\ c1 = p1
    BY <1>7, <2>2
  <2>4. PICK d \in Seq(Removals), o \in Seq(Removals) :
          d = Delete(n) /\ o = DeleteIfOrphaned(n, TRUE)
    <3>1. Delete(n) \in Seq(Removals) /\ DeleteIfOrphaned(n, TRUE) \in Seq(Removals)
      BY <1>1, DeleteFacts, OwnersIn DEF HasRow
    <3> QED BY <3>1, Zenon
  <2>5. Delete(l) = d /\ DeleteIfOrphaned(l, TRUE) = o
    BY <2>1, <2>4 DEF Delete, DeleteIfOrphaned
  <2>6. DeleteDomainMembershipTriple(l) = (c1 \o d) \o o
    <3>1. DeleteDomainMembershipTriple(l) = (c1 \o Delete(l)) \o DeleteIfOrphaned(l, TRUE)
      BY <2>2, <2>3, Zenon DEF DeleteDomainMembershipTriple
    <3> QED BY <2>5, <3>1, Zenon
  <2>7. (c1 \o d) \o o = c1 \o (d \o o)
    <3>1. Assoc(c1, d, o)
      BY <2>3, <2>4, JoinAssoc
    <3> QED BY <3>1, Zenon DEF Assoc
  <2> QED BY <2>1, <2>3, <2>4, <2>6, <2>7, Zenon
<1>11. MembershipTripleGone(n) = Over(B1, n.key, Delete(n) \o DeleteIfOrphaned(n, TRUE))
  BY <1>10 DEF MembershipTripleGone, Over
<1> QED BY <1>8, <1>9, <1>11, Zenon

LEMMA MembershipTripleSliceUndone ==
  ASSUME NEW ns \in Seq(DomainMembershipTriples)
  PROVE  Undoes(MembershipTripleSliceGone(ns), Each(ns, InsertDomainMembershipTriple))
<1>1. PICK ins : ins = [x \in DomainMembershipTriples |-> InsertDomainMembershipTriple(x)]
  OBVIOUS
<1>2. PICK gd : gd = [x \in DomainMembershipTriples |-> MembershipTripleGone(x)]
  OBVIOUS
<1>3. Gives(ins, DomainMembershipTriples, Additions(RowKeys))
  <2>1. \A x \in DomainMembershipTriples : InsertDomainMembershipTriple(x) \in Seq(Additions(RowKeys))
    BY AdditionsAdd, MembershipTripleInserted
  <2> QED BY <1>1, <2>1 DEF Gives
<1>4. \A x \in DomainMembershipTriples : Undoes(gd[x], ins[x])
  BY <1>1, <1>2, MembershipTripleUndone
<1>5. Undoes(SliceOf(gd, DomainMembershipTriples, ns), Mapped(ins, ns))
  BY <1>3, <1>4, SliceUndone
<1>6. Mapped(ins, ns) = Each(ns, InsertDomainMembershipTriple)
  <2>1. [i \in DOMAIN ns |-> ins[ns[i]]] = [i \in DOMAIN ns |-> InsertDomainMembershipTriple(ns[i])]
    BY <1>1
  <2> QED BY <2>1 DEF Mapped, Each
<1>7. ASSUME NEW K \in SUBSET RowKeys
      PROVE  Mapped([x \in DomainMembershipTriples |-> gd[x][K]], ns) = Each(Loaded(ns, K, SelectDomainMembershipTriple), DeleteDomainMembershipTriple)
  <2>1. PICK h : h = [x \in DomainMembershipTriples |-> DeleteDomainMembershipTriple(SelectDomainMembershipTriple(x, K))]
    OBVIOUS
  <2>2. Gives(h, DomainMembershipTriples, Removals)
    <3>1. \A x \in DomainMembershipTriples : DeleteDomainMembershipTriple(SelectDomainMembershipTriple(x, K)) \in Seq(Removals)
      BY RemovalsRemove, MembershipTripleDeleted, SelectMembershipTripleIn
    <3> QED BY <2>1, <3>1 DEF Gives
  <2>3. [x \in DomainMembershipTriples |-> gd[x][K]] = [x \in DomainMembershipTriples |-> IF x.key \in K THEN h[x] ELSE <<>>]
    BY <1>2, <2>1 DEF MembershipTripleGone
  <2>4. Mapped(h, Here(ns, K)) = Mapped([x \in DomainMembershipTriples |-> IF x.key \in K THEN h[x] ELSE <<>>], ns)
    BY <2>2, KeptSlice
  <2>5. PICK p \in Seq(DomainMembershipTriples) : p = Here(ns, K)
    BY HereIn
  <2>6. Mapped(h, p) = Each(Loaded(ns, K, SelectDomainMembershipTriple), DeleteDomainMembershipTriple)
    <3>1. [i \in DOMAIN p |-> h[p[i]]] = [i \in DOMAIN p |-> DeleteDomainMembershipTriple(SelectDomainMembershipTriple(p[i], K))]
      BY <2>1
    <3>2. PICK q : q = [i \in DOMAIN p |-> SelectDomainMembershipTriple(p[i], K)]
      OBVIOUS
    <3>3. Loaded(ns, K, SelectDomainMembershipTriple) = q
      BY <2>5, <3>2 DEF Loaded
    <3>4. [i \in DOMAIN p |-> DeleteDomainMembershipTriple(SelectDomainMembershipTriple(p[i], K))] = [i \in DOMAIN q |-> DeleteDomainMembershipTriple(q[i])]
      BY <3>2
    <3> QED BY <3>1, <3>3, <3>4 DEF Mapped, Each
  <2> QED BY <2>3, <2>4, <2>5, <2>6, Zenon
<1>8. SliceOf(gd, DomainMembershipTriples, ns) = MembershipTripleSliceGone(ns)
  BY <1>7 DEF SliceOf, MembershipTripleSliceGone
<1> QED BY <1>5, <1>6, <1>8, Zenon

LEMMA DependencyTripleUndone ==
  ASSUME NEW n \in DomainDependencyTriples
  PROVE  Undoes(DependencyTripleGone(n), InsertDomainDependencyTriple(n))
<1>1. HasRow(n) /\ n.env # NoEnv /\ n.env \in Envs
  BY RowAssumption, OwnerTables DEF HasRow, DomainDependencyTriples, OwnerTable
<1>2. PICK t0 \in Seq(Additions(RowKeys)) : t0 = FindEnv(n) \o Insert(n) /\ Joined(Insert(n), <<>>, t0)
  BY <1>1, FoundFirst
<1>3. PICK a1, D1 :
        a1 \in Seq(Additions(RowKeys)) /\ a1 = Each(n.Trustees, InsertDomainEntry) /\ D1 = DomainEntrySliceGone(n.Trustees) /\ Undoes(D1, a1)
  <2>1. n.Trustees \in Seq(DomainEntries)
    BY DEF DomainDependencyTriples
  <2>2. Each(n.Trustees, InsertDomainEntry) \in Seq(Additions(RowKeys))
    BY <2>1, AdditionsAdd, EachDomainEntryInserted
  <2> QED BY <2>1, <2>2, DomainEntrySliceUndone, Zenon
<1>4. PICK t1 \in Seq(Additions(RowKeys)) : t1 = t0 \o a1 /\ Joined(t0, a1, t1)
  BY <1>2, <1>3, JoinedJoin
<1>5. PICK r1 \in Seq(Additions(RowKeys)) : r1 = a1
  BY <1>3
<1>6. Joined(Insert(n), r1, t1)
  BY <1>2, <1>4, <1>5, <1>3, JoinedOn
<1>7. PICK B1 : B1 = D1 /\ Undoes(B1, r1)
  BY <1>5, <1>3
<1>8. Undoes(Over(B1, n.key, Delete(n) \o DeleteIfOrphaned(n, TRUE)), t1)
  BY <1>1, <1>7, <1>6, OwnerUndone
<1>9. t1 = InsertDomainDependencyTriple(n)
  BY <1>2, <1>3, <1>4, Zenon DEF InsertDomainDependencyTriple
<1>10. ASSUME NEW K \in SUBSET RowKeys
      PROVE  DeleteDomainDependencyTriple(SelectDomainDependencyTriple(n, K)) = B1[K] \o (Delete(n) \o DeleteIfOrphaned(n, TRUE))
  <2>1. PICK l : l = SelectDomainDependencyTriple(n, K) /\ l.key = n.key
    <3>1. SelectDomainDependencyTriple(n, K).key = n.key
      BY DEF SelectDomainDependencyTriple, DomainDependencyTriples
    <3> QED BY <3>1, Zenon
  <2>2. PICK p1 \in Seq(Removals) : p1 = D1[K] /\ p1 = Each(l.Trustees, DeleteDomainEntry)
    <3>1. l.Trustees = Here(n.Trustees, K)
      BY <2>1 DEF SelectDomainDependencyTriple, DomainDependencyTriples
    <3>2. D1[K] = Each(Here(n.Trustees, K), DeleteDomainEntry)
      BY <1>3 DEF DomainEntrySliceGone
    <3>3. D1[K] \in Seq(Removals)
      BY <1>3 DEF Undoes
    <3> QED BY <3>1, <3>2, <3>3, Zenon
  <2>3. PICK c1 \in Seq(Removals) : c1 = B1[K] /\ c1 = p1
    BY <1>7, <2>2
  <2>4. PICK d \in Seq(Removals), o \in Seq(Removals) :
          d = Delete(n) /\ o = DeleteIfOrphaned(n, TRUE)
    <3>1. Delete(n) \in Seq(Removals) /\ DeleteIfOrphaned(n, TRUE) \in Seq(Removals)
      BY <1>1, DeleteFacts, OwnersIn DEF HasRow
    <3> QED BY <3>1, Zenon
  <2>5. Delete(l) = d /\ DeleteIfOrphaned(l, TRUE) = o
    BY <2>1, <2>4 DEF Delete, DeleteIfOrphaned
  <2>6. DeleteDomainDependencyTriple(l) = (c1 \o d) \o o
    <3>1. DeleteDomainDependencyTriple(l) = (c1 \o Delete(l)) \o DeleteIfOrphaned(l, TRUE)
      BY <2>2, <2>3, Zenon DEF DeleteDomainDependencyTriple
    <3> QED BY <2>5, <3>1, Zenon
  <2>7. (c1 \o d) \o o = c1 \o (d \o o)
    <3>1. Assoc(c1, d, o)
      BY <2>3, <2>4, JoinAssoc
    <3> QED BY <3>1, Zenon DEF Assoc
  <2> QED BY <2>1, <2>3, <2>4, <2>6, <2>7, Zenon
<1>11. DependencyTripleGone(n) = Over(B1, n.key, Delete(n) \o DeleteIfOrphaned(n, TRUE))
  BY <1>10 DEF DependencyTripleGone, Over
<1> QED BY <1>8, <1>9, <1>11, Zenon

LEMMA DependencyTripleSliceUndone ==
  ASSUME NEW ns \in Seq(DomainDependencyTriples)
  PROVE  Undoes(DependencyTripleSliceGone(ns), Each(ns, InsertDomainDependencyTriple))
<1>1. PICK ins : ins = [x \in DomainDependencyTriples |-> InsertDomainDependencyTriple(x)]
  OBVIOUS
<1>2. PICK gd : gd = [x \in DomainDependencyTriples |-> DependencyTripleGone(x)]
  OBVIOUS
<1>3. Gives(ins, DomainDependencyTriples, Additions(RowKeys))
  <2>1. \A x \in DomainDependencyTriples : InsertDomainDependencyTriple(x) \in Seq(Additions(RowKeys))
    BY AdditionsAdd, DependencyTripleInserted
  <2> QED BY <1>1, <2>1 DEF Gives
<1>4. \A x \in DomainDependencyTriples : Undoes(gd[x], ins[x])
  BY <1>1, <1>2, DependencyTripleUndone
<1>5. Undoes(SliceOf(gd, DomainDependencyTriples, ns), Mapped(ins, ns))
  BY <1>3, <1>4, SliceUndone
<1>6. Mapped(ins, ns) = Each(ns, InsertDomainDependencyTriple)
  <2>1. [i \in DOMAIN ns |-> ins[ns[i]]] = [i \in DOMAIN ns |-> InsertDomainDependencyTriple(ns[i])]
    BY <1>1
  <2> QED BY <2>1 DEF Mapped, Each
<1>7. ASSUME NEW K \in SUBSET RowKeys
      PROVE  Mapped([x \in DomainDependencyTriples |-> gd[x][K]], ns) = Each(Loaded(ns, K, SelectDomainDependencyTriple), DeleteDomainDependencyTriple)
  <2>1. PICK h : h = [x \in DomainDependencyTriples |-> DeleteDomainDependencyTriple(SelectDomainDependencyTriple(x, K))]
    OBVIOUS
  <2>2. Gives(h, DomainDependencyTriples, Removals)
    <3>1. \A x \in DomainDependencyTriples : DeleteDomainDependencyTriple(SelectDomainDependencyTriple(x, K)) \in Seq(Removals)
      BY RemovalsRemove, DependencyTripleDeleted, SelectDependencyTripleIn
    <3> QED BY <2>1, <3>1 DEF Gives
  <2>3. [x \in DomainDependencyTriples |-> gd[x][K]] = [x \in DomainDependencyTriples |-> IF x.key \in K THEN h[x] ELSE <<>>]
    BY <1>2, <2>1 DEF DependencyTripleGone
  <2>4. Mapped(h, Here(ns, K)) = Mapped([x \in DomainDependencyTriples |-> IF x.key \in K THEN h[x] ELSE <<>>], ns)
    BY <2>2, KeptSlice
  <2>5. PICK p \in Seq(DomainDependencyTriples) : p = Here(ns, K)
    BY HereIn
  <2>6. Mapped(h, p) = Each(Loaded(ns, K, SelectDomainDependencyTriple), DeleteDomainDependencyTriple)
    <3>1. [i \in DOMAIN p |-> h[p[i]]] = [i \in DOMAIN p |-> DeleteDomainDependencyTriple(SelectDomainDependencyTriple(p[i], K))]
      BY <2>1
    <3>2. PICK q : q = [i \in DOMAIN p |-> SelectDomainDependencyTriple(p[i], K)]
      OBVIOUS
    <3>3. Loaded(ns, K, SelectDomainDependencyTriple) = q
      BY <2>5, <3>2 DEF Loaded
    <3>4. [i \in DOMAIN p |-> DeleteDomainDependencyTriple(SelectDomainDependencyTriple(p[i], K))] = [i \in DOMAIN q |-> DeleteDomainDependencyTriple(q[i])]
      BY <3>2
    <3> QED BY <3>1, <3>3, <3>4 DEF Mapped, Each
  <2> QED BY <2>3, <2>4, <2>5, <2>6, Zenon
<1>8. SliceOf(gd, DomainDependencyTriples, ns) = DependencyTripleSliceGone(ns)
  BY <1>7 DEF SliceOf, DependencyTripleSliceGone
<1> QED BY <1>5, <1>6, <1>8, Zenon

LEMMA ModuleTagUndone ==
  ASSUME NEW n \in ModuleTags
  PROVE  Undoes(ModuleTagGone(n), InsertModuleTag(n))
<1>1. HasRow(n) /\ n.env = NoEnv
  BY DEF HasRow, ModuleTags, Reached, AllTables
<1>2. PICK t0 \in Seq(Additions(RowKeys)) : t0 = Insert(n) /\ Joined(Insert(n), <<>>, t0)
  BY <1>1, InsertFacts, JoinedNothing
<1>3. PICK a1, D1 :
        a1 \in Seq(Additions(RowKeys)) /\ a1 = Each(n.Entities, InsertEntity) /\ D1 = EntitySliceGone(n.Entities) /\ Undoes(D1, a1)
  <2>1. n.Entities \in Seq(Entities)
    BY DEF ModuleTags
  <2>2. Each(n.Entities, InsertEntity) \in Seq(Additions(RowKeys))
    BY <2>1, AdditionsAdd, EachEntityInserted
  <2> QED BY <2>1, <2>2, EntitySliceUndone, Zenon
<1>4. PICK a2, D2 :
        a2 \in Seq(Additions(RowKeys)) /\ a2 = Each(n.LinkedTags, Insert) /\ D2 = LeafSliceGone(n.LinkedTags) /\ Undoes(D2, a2)
  <2>1. n.LinkedTags \in Seq(AnyLeaves)
    BY AnyLeaf DEF ModuleTags
  <2>2. Each(n.LinkedTags, Insert) \in Seq(Additions(RowKeys))
    BY <2>1, AdditionsAdd, EachInserted
  <2> QED BY <2>1, <2>2, LeafSliceUndone, Zenon
<1>5. PICK a3, D3 :
        a3 \in Seq(Additions(RowKeys)) /\ a3 = Each(n.ValueTriples, InsertValueTriple) /\ D3 = ValueTripleSliceGone(n.ValueTriples) /\ Undoes(D3, a3)
  <2>1. n.ValueTriples \in Seq(ValueTriples)
    BY DEF ModuleTags
  <2>2. Each(n.ValueTriples, InsertValueTriple) \in Seq(Additions(RowKeys))
    BY <2>1, AdditionsAdd, EachValueTripleInserted
  <2> QED BY <2>1, <2>2, ValueTripleSliceUndone, Zenon
<1>6. PICK a4, D4 :
        a4 \in Seq(Additions(RowKeys)) /\ a4 = Each(n.KeyTriples, InsertKeyTriple) /\ D4 = KeyTripleSliceGone(n.KeyTriples) /\ Undoes(D4, a4)
  <2>1. n.KeyTriples \in Seq(KeyTriples)
    BY DEF ModuleTags
  <2>2. Each(n.KeyTriples, InsertKeyTriple) \in Seq(Additions(RowKeys))
    BY <2>1, AdditionsAdd, EachKeyTripleInserted
  <2> QED BY <2>1, <2>2, KeyTripleSliceUndone, Zenon
<1>7. PICK a5, D5 :
        a5 \in Seq(Additions(RowKeys)) /\ a5 = Each(n.ConditionalEndorsementTriples, InsertConditionalEndorsementTriple) /\ D5 = ConditionalTripleSliceGone(n.ConditionalEndorsementTriples) /\ Undoes(D5, a5)
  <2>1. n.ConditionalEndorsementTriples \in Seq(ConditionalEndorsementTriples)
    BY DEF ModuleTags
  <2>2. Each(n.ConditionalEndorsementTriples, InsertConditionalEndorsementTriple) \in Seq(Additions(RowKeys))
    BY <2>1, AdditionsAdd, EachConditionalTripleInserted
  <2> QED BY <2>1, <2>2, ConditionalTripleSliceUndone, Zenon
<1>8. PICK a6, D6 :
        a6 \in Seq(Additions(RowKeys)) /\ a6 = Each(n.ConditionalEndorsementSeriesTriples, InsertConditionalEndorsementSeriesTriple) /\ D6 = SeriesTripleSliceGone(n.ConditionalEndorsementSeriesTriples) /\ Undoes(D6, a6)
  <2>1. n.ConditionalEndorsementSeriesTriples \in Seq(ConditionalEndorsementSeriesTriples)
    BY DEF ModuleTags
  <2>2. Each(n.ConditionalEndorsementSeriesTriples, InsertConditionalEndorsementSeriesTriple) \in Seq(Additions(RowKeys))
    BY <2>1, AdditionsAdd, EachSeriesTripleInserted
  <2> QED BY <2>1, <2>2, SeriesTripleSliceUndone, Zenon
<1>9. PICK a7, D7 :
        a7 \in Seq(Additions(RowKeys)) /\ a7 = Each(n.DomainDependencyTriples, InsertDomainDependencyTriple) /\ D7 = DependencyTripleSliceGone(n.DomainDependencyTriples) /\ Undoes(D7, a7)
  <2>1. n.DomainDependencyTriples \in Seq(DomainDependencyTriples)
    BY DEF ModuleTags
  <2>2. Each(n.DomainDependencyTriples, InsertDomainDependencyTriple) \in Seq(Additions(RowKeys))
    BY <2>1, AdditionsAdd, EachDependencyTripleInserted
  <2> QED BY <2>1, <2>2, DependencyTripleSliceUndone, Zenon
<1>10. PICK a8, D8 :
        a8 \in Seq(Additions(RowKeys)) /\ a8 = Each(n.DomainMembershipTriples, InsertDomainMembershipTriple) /\ D8 = MembershipTripleSliceGone(n.DomainMembershipTriples) /\ Undoes(D8, a8)
  <2>1. n.DomainMembershipTriples \in Seq(DomainMembershipTriples)
    BY DEF ModuleTags
  <2>2. Each(n.DomainMembershipTriples, InsertDomainMembershipTriple) \in Seq(Additions(RowKeys))
    BY <2>1, AdditionsAdd, EachMembershipTripleInserted
  <2> QED BY <2>1, <2>2, MembershipTripleSliceUndone, Zenon
<1>11. PICK a9, D9 :
        a9 \in Seq(Additions(RowKeys)) /\ a9 = Each(n.Extensions, Insert) /\ D9 = LeafSliceGone(n.Extensions) /\ Undoes(D9, a9)
  <2>1. n.Extensions \in Seq(AnyLeaves)
    BY AnyLeaf DEF ModuleTags
  <2>2. Each(n.Extensions, Insert) \in Seq(Additions(RowKeys))
    BY <2>1, AdditionsAdd, EachInserted
  <2> QED BY <2>1, <2>2, LeafSliceUndone, Zenon
<1>12. PICK a10, D10 :
        a10 \in Seq(Additions(RowKeys)) /\ a10 = Each(n.TriplesExtensions, Insert) /\ D10 = LeafSliceGone(n.TriplesExtensions) /\ Undoes(D10, a10)
  <2>1. n.TriplesExtensions \in Seq(AnyLeaves)
    BY AnyLeaf DEF ModuleTags
  <2>2. Each(n.TriplesExtensions, Insert) \in Seq(Additions(RowKeys))
    BY <2>1, AdditionsAdd, EachInserted
  <2> QED BY <2>1, <2>2, LeafSliceUndone, Zenon
<1>13. PICK t1 \in Seq(Additions(RowKeys)) : t1 = t0 \o a1 /\ Joined(t0, a1, t1)
  BY <1>2, <1>3, JoinedJoin
<1>14. PICK t2 \in Seq(Additions(RowKeys)) : t2 = t1 \o a2 /\ Joined(t1, a2, t2)
  BY <1>13, <1>4, JoinedJoin
<1>15. PICK t3 \in Seq(Additions(RowKeys)) : t3 = t2 \o a3 /\ Joined(t2, a3, t3)
  BY <1>14, <1>5, JoinedJoin
<1>16. PICK t4 \in Seq(Additions(RowKeys)) : t4 = t3 \o a4 /\ Joined(t3, a4, t4)
  BY <1>15, <1>6, JoinedJoin
<1>17. PICK t5 \in Seq(Additions(RowKeys)) : t5 = t4 \o a5 /\ Joined(t4, a5, t5)
  BY <1>16, <1>7, JoinedJoin
<1>18. PICK t6 \in Seq(Additions(RowKeys)) : t6 = t5 \o a6 /\ Joined(t5, a6, t6)
  BY <1>17, <1>8, JoinedJoin
<1>19. PICK t7 \in Seq(Additions(RowKeys)) : t7 = t6 \o a7 /\ Joined(t6, a7, t7)
  BY <1>18, <1>9, JoinedJoin
<1>20. PICK t8 \in Seq(Additions(RowKeys)) : t8 = t7 \o a8 /\ Joined(t7, a8, t8)
  BY <1>19, <1>10, JoinedJoin
<1>21. PICK t9 \in Seq(Additions(RowKeys)) : t9 = t8 \o a9 /\ Joined(t8, a9, t9)
  BY <1>20, <1>11, JoinedJoin
<1>22. PICK t10 \in Seq(Additions(RowKeys)) : t10 = t9 \o a10 /\ Joined(t9, a10, t10)
  BY <1>21, <1>12, JoinedJoin
<1>23. PICK r1 \in Seq(Additions(RowKeys)) : r1 = a2
  BY <1>4
<1>24. PICK r2 \in Seq(Additions(RowKeys)) : Joined(r1, a1, r2)
  BY <1>23, <1>3, JoinedJoin
<1>25. PICK r3 \in Seq(Additions(RowKeys)) : Joined(r2, a3, r3)
  BY <1>24, <1>5, JoinedJoin
<1>26. PICK r4 \in Seq(Additions(RowKeys)) : Joined(r3, a4, r4)
  BY <1>25, <1>6, JoinedJoin
<1>27. PICK r5 \in Seq(Additions(RowKeys)) : Joined(r4, a5, r5)
  BY <1>26, <1>7, JoinedJoin
<1>28. PICK r6 \in Seq(Additions(RowKeys)) : Joined(r5, a6, r6)
  BY <1>27, <1>8, JoinedJoin
<1>29. PICK r7 \in Seq(Additions(RowKeys)) : Joined(r6, a7, r7)
  BY <1>28, <1>9, JoinedJoin
<1>30. PICK r8 \in Seq(Additions(RowKeys)) : Joined(r7, a8, r8)
  BY <1>29, <1>10, JoinedJoin
<1>31. PICK r9 \in Seq(Additions(RowKeys)) : Joined(r8, a9, r9)
  BY <1>30, <1>11, JoinedJoin
<1>32. PICK r10 \in Seq(Additions(RowKeys)) : Joined(r9, a10, r10)
  BY <1>31, <1>12, JoinedJoin
<1>33. Joined(Insert(n), r2, t2)
  <2>1. PICK q \in Seq(Additions(RowKeys)) : Joined(a1, a2, q)
    BY <1>3, <1>4, JoinedJoin
  <2>2. Joined(Insert(n), a1, t1)
    BY <1>2, <1>13, JoinedOn
  <2>3. Joined(Insert(n), q, t2)
    BY <2>1, <2>2, <1>14, JoinedFurther
  <2> QED BY <2>1, <2>3, <1>23, <1>24 DEF Joined
<1>34. Joined(Insert(n), r3, t3)
  BY <1>33, <1>15, <1>25 DEF Joined
<1>35. Joined(Insert(n), r4, t4)
  BY <1>34, <1>16, <1>26 DEF Joined
<1>36. Joined(Insert(n), r5, t5)
  BY <1>35, <1>17, <1>27 DEF Joined
<1>37. Joined(Insert(n), r6, t6)
  BY <1>36, <1>18, <1>28 DEF Joined
<1>38. Joined(Insert(n), r7, t7)
  BY <1>37, <1>19, <1>29 DEF Joined
<1>39. Joined(Insert(n), r8, t8)
  BY <1>38, <1>20, <1>30 DEF Joined
<1>40. Joined(Insert(n), r9, t9)
  BY <1>39, <1>21, <1>31 DEF Joined
<1>41. Joined(Insert(n), r10, t10)
  BY <1>40, <1>22, <1>32 DEF Joined
<1>42. PICK B1 : B1 = D2 /\ Undoes(B1, r1)
  BY <1>23, <1>4
<1>43. PICK B2 : B2 = Both(B1, D1) /\ Undoes(B2, r2)
  BY <1>42, <1>24, <1>3, UndoesJoin
<1>44. PICK B3 : B3 = Both(B2, D3) /\ Undoes(B3, r3)
  BY <1>43, <1>25, <1>5, UndoesJoin
<1>45. PICK B4 : B4 = Both(B3, D4) /\ Undoes(B4, r4)
  BY <1>44, <1>26, <1>6, UndoesJoin
<1>46. PICK B5 : B5 = Both(B4, D5) /\ Undoes(B5, r5)
  BY <1>45, <1>27, <1>7, UndoesJoin
<1>47. PICK B6 : B6 = Both(B5, D6) /\ Undoes(B6, r6)
  BY <1>46, <1>28, <1>8, UndoesJoin
<1>48. PICK B7 : B7 = Both(B6, D7) /\ Undoes(B7, r7)
  BY <1>47, <1>29, <1>9, UndoesJoin
<1>49. PICK B8 : B8 = Both(B7, D8) /\ Undoes(B8, r8)
  BY <1>48, <1>30, <1>10, UndoesJoin
<1>50. PICK B9 : B9 = Both(B8, D9) /\ Undoes(B9, r9)
  BY <1>49, <1>31, <1>11, UndoesJoin
<1>51. PICK B10 : B10 = Both(B9, D10) /\ Undoes(B10, r10)
  BY <1>50, <1>32, <1>12, UndoesJoin
<1>52. Undoes(Over(B10, n.key, Delete(n)), t10)
  BY <1>1, <1>51, <1>41, RootUndone
<1>53. t10 = InsertModuleTag(n)
  BY <1>2, <1>3, <1>4, <1>5, <1>6, <1>7, <1>8, <1>9, <1>10, <1>11, <1>12, <1>13, <1>14, <1>15, <1>16, <1>17, <1>18, <1>19, <1>20, <1>21, <1>22, Zenon DEF InsertModuleTag
<1>54. ASSUME NEW K \in SUBSET RowKeys
      PROVE  DeleteModuleTag(SelectModuleTag(n, K)) = B10[K] \o Delete(n)
  <2>1. PICK l : l = SelectModuleTag(n, K) /\ l.key = n.key
    <3>1. SelectModuleTag(n, K).key = n.key
      BY DEF SelectModuleTag, ModuleTags
    <3> QED BY <3>1, Zenon
  <2>2. PICK p1 \in Seq(Removals) : p1 = D1[K] /\ p1 = Each(l.Entities, DeleteEntity)
    <3>1. l.Entities = Loaded(n.Entities, K, SelectEntity)
      BY <2>1 DEF SelectModuleTag, ModuleTags
    <3>2. D1[K] = Each(Loaded(n.Entities, K, SelectEntity), DeleteEntity)
      BY <1>3 DEF EntitySliceGone
    <3>3. D1[K] \in Seq(Removals)
      BY <1>3 DEF Undoes
    <3> QED BY <3>1, <3>2, <3>3, Zenon
  <2>3. PICK p2 \in Seq(Removals) : p2 = D2[K] /\ p2 = Each(l.LinkedTags, Delete)
    <3>1. l.LinkedTags = Here(n.LinkedTags, K)
      BY <2>1 DEF SelectModuleTag, ModuleTags
    <3>2. D2[K] = Each(Here(n.LinkedTags, K), Delete)
      BY <1>4 DEF LeafSliceGone
    <3>3. D2[K] \in Seq(Removals)
      BY <1>4 DEF Undoes
    <3> QED BY <3>1, <3>2, <3>3, Zenon
  <2>4. PICK p3 \in Seq(Removals) : p3 = D3[K] /\ p3 = Each(l.ValueTriples, DeleteValueTriple)
    <3>1. l.ValueTriples = Loaded(n.ValueTriples, K, SelectValueTriple)
      BY <2>1 DEF SelectModuleTag, ModuleTags
    <3>2. D3[K] = Each(Loaded(n.ValueTriples, K, SelectValueTriple), DeleteValueTriple)
      BY <1>5 DEF ValueTripleSliceGone
    <3>3. D3[K] \in Seq(Removals)
      BY <1>5 DEF Undoes
    <3> QED BY <3>1, <3>2, <3>3, Zenon
  <2>5. PICK p4 \in Seq(Removals) : p4 = D4[K] /\ p4 = Each(l.KeyTriples, DeleteKeyTriple)
    <3>1. l.KeyTriples = Loaded(n.KeyTriples, K, SelectKeyTriple)
      BY <2>1 DEF SelectModuleTag, ModuleTags
    <3>2. D4[K] = Each(Loaded(n.KeyTriples, K, SelectKeyTriple), DeleteKeyTriple)
      BY <1>6 DEF KeyTripleSliceGone
    <3>3. D4[K] \in Seq(Removals)
      BY <1>6 DEF Undoes
    <3> QED BY <3>1, <3>2, <3>3, Zenon
  <2>6. PICK p5 \in Seq(Removals) : p5 = D5[K] /\ p5 = Each(l.ConditionalEndorsementTriples, DeleteConditionalEndorsementTriple)
    <3>1. l.ConditionalEndorsementTriples = Loaded(n.ConditionalEndorsementTriples, K, SelectConditionalEndorsementTriple)
      BY <2>1 DEF SelectModuleTag, ModuleTags
    <3>2. D5[K] = Each(Loaded(n.ConditionalEndorsementTriples, K, SelectConditionalEndorsementTriple), DeleteConditionalEndorsementTriple)
      BY <1>7 DEF ConditionalTripleSliceGone
    <3>3. D5[K] \in Seq(Removals)
      BY <1>7 DEF Undoes
    <3> QED BY <3>1, <3>2, <3>3, Zenon
  <2>7. PICK p6 \in Seq(Removals) : p6 = D6[K] /\ p6 = Each(l.ConditionalEndorsementSeriesTriples, DeleteConditionalEndorsementSeriesTriple)
    <3>1. l.ConditionalEndorsementSeriesTriples = Loaded(n.ConditionalEndorsementSeriesTriples, K, SelectConditionalEndorsementSeriesTriple)
      BY <2>1 DEF SelectModuleTag, ModuleTags
    <3>2. D6[K] = Each(Loaded(n.ConditionalEndorsementSeriesTriples, K, SelectConditionalEndorsementSeriesTriple), DeleteConditionalEndorsementSeriesTriple)
      BY <1>8 DEF SeriesTripleSliceGone
    <3>3. D6[K] \in Seq(Removals)
      BY <1>8 DEF Undoes
    <3> QED BY <3>1, <3>2, <3>3, Zenon
  <2>8. PICK p7 \in Seq(Removals) : p7 = D7[K] /\ p7 = Each(l.DomainDependencyTriples, DeleteDomainDependencyTriple)
    <3>1. l.DomainDependencyTriples = Loaded(n.DomainDependencyTriples, K, SelectDomainDependencyTriple)
      BY <2>1 DEF SelectModuleTag, ModuleTags
    <3>2. D7[K] = Each(Loaded(n.DomainDependencyTriples, K, SelectDomainDependencyTriple), DeleteDomainDependencyTriple)
      BY <1>9 DEF DependencyTripleSliceGone
    <3>3. D7[K] \in Seq(Removals)
      BY <1>9 DEF Undoes
    <3> QED BY <3>1, <3>2, <3>3, Zenon
  <2>9. PICK p8 \in Seq(Removals) : p8 = D8[K] /\ p8 = Each(l.DomainMembershipTriples, DeleteDomainMembershipTriple)
    <3>1. l.DomainMembershipTriples = Loaded(n.DomainMembershipTriples, K, SelectDomainMembershipTriple)
      BY <2>1 DEF SelectModuleTag, ModuleTags
    <3>2. D8[K] = Each(Loaded(n.DomainMembershipTriples, K, SelectDomainMembershipTriple), DeleteDomainMembershipTriple)
      BY <1>10 DEF MembershipTripleSliceGone
    <3>3. D8[K] \in Seq(Removals)
      BY <1>10 DEF Undoes
    <3> QED BY <3>1, <3>2, <3>3, Zenon
  <2>10. PICK p9 \in Seq(Removals) : p9 = D9[K] /\ p9 = Each(l.Extensions, Delete)
    <3>1. l.Extensions = Here(n.Extensions, K)
      BY <2>1 DEF SelectModuleTag, ModuleTags
    <3>2. D9[K] = Each(Here(n.Extensions, K), Delete)
      BY <1>11 DEF LeafSliceGone
    <3>3. D9[K] \in Seq(Removals)
      BY <1>11 DEF Undoes
    <3> QED BY <3>1, <3>2, <3>3, Zenon
  <2>11. PICK p10 \in Seq(Removals) : p10 = D10[K] /\ p10 = Each(l.TriplesExtensions, Delete)
    <3>1. l.TriplesExtensions = Here(n.TriplesExtensions, K)
      BY <2>1 DEF SelectModuleTag, ModuleTags
    <3>2. D10[K] = Each(Here(n.TriplesExtensions, K), Delete)
      BY <1>12 DEF LeafSliceGone
    <3>3. D10[K] \in Seq(Removals)
      BY <1>12 DEF Undoes
    <3> QED BY <3>1, <3>2, <3>3, Zenon
  <2>12. PICK c1 \in Seq(Removals) : c1 = B1[K] /\ c1 = p2
    BY <1>42, <2>3
  <2>13. PICK c2 \in Seq(Removals) : c2 = B2[K] /\ c2 = c1 \o p1
    <3>1. B2[K] = B1[K] \o D1[K]
      BY <1>43 DEF Both
    <3>2. B2[K] \in Seq(Removals)
      BY <1>43 DEF Undoes
    <3> QED BY <3>1, <3>2, <2>12, <2>2, Zenon
  <2>14. PICK c3 \in Seq(Removals) : c3 = B3[K] /\ c3 = c2 \o p3
    <3>1. B3[K] = B2[K] \o D3[K]
      BY <1>44 DEF Both
    <3>2. B3[K] \in Seq(Removals)
      BY <1>44 DEF Undoes
    <3> QED BY <3>1, <3>2, <2>13, <2>4, Zenon
  <2>15. PICK c4 \in Seq(Removals) : c4 = B4[K] /\ c4 = c3 \o p4
    <3>1. B4[K] = B3[K] \o D4[K]
      BY <1>45 DEF Both
    <3>2. B4[K] \in Seq(Removals)
      BY <1>45 DEF Undoes
    <3> QED BY <3>1, <3>2, <2>14, <2>5, Zenon
  <2>16. PICK c5 \in Seq(Removals) : c5 = B5[K] /\ c5 = c4 \o p5
    <3>1. B5[K] = B4[K] \o D5[K]
      BY <1>46 DEF Both
    <3>2. B5[K] \in Seq(Removals)
      BY <1>46 DEF Undoes
    <3> QED BY <3>1, <3>2, <2>15, <2>6, Zenon
  <2>17. PICK c6 \in Seq(Removals) : c6 = B6[K] /\ c6 = c5 \o p6
    <3>1. B6[K] = B5[K] \o D6[K]
      BY <1>47 DEF Both
    <3>2. B6[K] \in Seq(Removals)
      BY <1>47 DEF Undoes
    <3> QED BY <3>1, <3>2, <2>16, <2>7, Zenon
  <2>18. PICK c7 \in Seq(Removals) : c7 = B7[K] /\ c7 = c6 \o p7
    <3>1. B7[K] = B6[K] \o D7[K]
      BY <1>48 DEF Both
    <3>2. B7[K] \in Seq(Removals)
      BY <1>48 DEF Undoes
    <3> QED BY <3>1, <3>2, <2>17, <2>8, Zenon
  <2>19. PICK c8 \in Seq(Removals) : c8 = B8[K] /\ c8 = c7 \o p8
    <3>1. B8[K] = B7[K] \o D8[K]
      BY <1>49 DEF Both
    <3>2. B8[K] \in Seq(Removals)
      BY <1>49 DEF Undoes
    <3> QED BY <3>1, <3>2, <2>18, <2>9, Zenon
  <2>20. PICK c9 \in Seq(Removals) : c9 = B9[K] /\ c9 = c8 \o p9
    <3>1. B9[K] = B8[K] \o D9[K]
      BY <1>50 DEF Both
    <3>2. B9[K] \in Seq(Removals)
      BY <1>50 DEF Undoes
    <3> QED BY <3>1, <3>2, <2>19, <2>10, Zenon
  <2>21. PICK c10 \in Seq(Removals) : c10 = B10[K] /\ c10 = c9 \o p10
    <3>1. B10[K] = B9[K] \o D10[K]
      BY <1>51 DEF Both
    <3>2. B10[K] \in Seq(Removals)
      BY <1>51 DEF Undoes
    <3> QED BY <3>1, <3>2, <2>20, <2>11, Zenon
  <2>22. Delete(l) = Delete(n)
    BY <2>1 DEF Delete
  <2>23. DeleteModuleTag(l) = c10 \o Delete(n)
    BY <2>1, <2>2, <2>3, <2>4, <2>5, <2>6, <2>7, <2>8, <2>9, <2>10, <2>11, <2>12, <2>13, <2>14, <2>15, <2>16, <2>17, <2>18, <2>19, <2>20, <2>21, <2>22, Zenon DEF DeleteModuleTag, DeleteOwned
  <2> QED BY <2>1, <2>21, <2>23, Zenon
<1>55. ModuleTagGone(n) = Over(B10, n.key, Delete(n))
  BY <1>54 DEF ModuleTagGone, Over
<1> QED BY <1>52, <1>53, <1>55, Zenon

LEMMA ModuleTagSliceUndone ==
  ASSUME NEW ns \in Seq(ModuleTags)
  PROVE  Undoes(ModuleTagSliceGone(ns), Each(ns, InsertModuleTag))
<1>1. PICK ins : ins = [x \in ModuleTags |-> InsertModuleTag(x)]
  OBVIOUS
<1>2. PICK gd : gd = [x \in ModuleTags |-> ModuleTagGone(x)]
  OBVIOUS
<1>3. Gives(ins, ModuleTags, Additions(RowKeys))
  <2>1. \A x \in ModuleTags : InsertModuleTag(x) \in Seq(Additions(RowKeys))
    BY AdditionsAdd, ModuleTagInserted
  <2> QED BY <1>1, <2>1 DEF Gives
<1>4. \A x \in ModuleTags : Undoes(gd[x], ins[x])
  BY <1>1, <1>2, ModuleTagUndone
<1>5. Undoes(SliceOf(gd, ModuleTags, ns), Mapped(ins, ns))
  BY <1>3, <1>4, SliceUndone
<1>6. Mapped(ins, ns) = Each(ns, InsertModuleTag)
  <2>1. [i \in DOMAIN ns |-> ins[ns[i]]] = [i \in DOMAIN ns |-> InsertModuleTag(ns[i])]
    BY <1>1
  <2> QED BY <2>1 DEF Mapped, Each
<1>7. ASSUME NEW K \in SUBSET RowKeys
      PROVE  Mapped([x \in ModuleTags |-> gd[x][K]], ns) = Each(Loaded(ns, K, SelectModuleTag), DeleteModuleTag)
  <2>1. PICK h : h = [x \in ModuleTags |-> DeleteModuleTag(SelectModuleTag(x, K))]
    OBVIOUS
  <2>2. Gives(h, ModuleTags, Removals)
    <3>1. \A x \in ModuleTags : DeleteModuleTag(SelectModuleTag(x, K)) \in Seq(Removals)
      BY RemovalsRemove, ModuleTagDeleted, SelectModuleTagIn
    <3> QED BY <2>1, <3>1 DEF Gives
  <2>3. [x \in ModuleTags |-> gd[x][K]] = [x \in ModuleTags |-> IF x.key \in K THEN h[x] ELSE <<>>]
    BY <1>2, <2>1 DEF ModuleTagGone
  <2>4. Mapped(h, Here(ns, K)) = Mapped([x \in ModuleTags |-> IF x.key \in K THEN h[x] ELSE <<>>], ns)
    BY <2>2, KeptSlice
  <2>5. PICK p \in Seq(ModuleTags) : p = Here(ns, K)
    BY HereIn
  <2>6. Mapped(h, p) = Each(Loaded(ns, K, SelectModuleTag), DeleteModuleTag)
    <3>1. [i \in DOMAIN p |-> h[p[i]]] = [i \in DOMAIN p |-> DeleteModuleTag(SelectModuleTag(p[i], K))]
      BY <2>1
    <3>2. PICK q : q = [i \in DOMAIN p |-> SelectModuleTag(p[i], K)]
      OBVIOUS
    <3>3. Loaded(ns, K, SelectModuleTag) = q
      BY <2>5, <3>2 DEF Loaded
    <3>4. [i \in DOMAIN p |-> DeleteModuleTag(SelectModuleTag(p[i], K))] = [i \in DOMAIN q |-> DeleteModuleTag(q[i])]
      BY <3>2
    <3> QED BY <3>1, <3>3, <3>4 DEF Mapped, Each
  <2> QED BY <2>3, <2>4, <2>5, <2>6, Zenon
<1>8. SliceOf(gd, ModuleTags, ns) = ModuleTagSliceGone(ns)
  BY <1>7 DEF SliceOf, ModuleTagSliceGone
<1> QED BY <1>5, <1>6, <1>8, Zenon

\* A manifest's own row goes last.
RootedIn(n, B, a) ==
  /\ Undoes(B, a) /\ Joined(Insert(n), a, InsertManifest(n))
  /\ ManifestGone(n) = Over(B, n.key, Delete(n))

LEMMA ManifestRooted ==
  ASSUME NEW n \in Manifests
  PROVE  \E B, a : RootedIn(n, B, a)
<1>1. HasRow(n) /\ n.env = NoEnv
  BY DEF HasRow, Manifests, Reached, AllTables
<1>2. PICK t0 \in Seq(Additions(RowKeys)) : t0 = Insert(n) /\ Joined(Insert(n), <<>>, t0)
  BY <1>1, InsertFacts, JoinedNothing
<1>3. PICK a1, D1 :
        a1 \in Seq(Additions(RowKeys)) /\ a1 = Each(n.Entities, InsertEntity) /\ D1 = EntitySliceGone(n.Entities) /\ Undoes(D1, a1)
  <2>1. n.Entities \in Seq(Entities)
    BY DEF Manifests
  <2>2. Each(n.Entities, InsertEntity) \in Seq(Additions(RowKeys))
    BY <2>1, AdditionsAdd, EachEntityInserted
  <2> QED BY <2>1, <2>2, EntitySliceUndone, Zenon
<1>4. PICK a2, D2 :
        a2 \in Seq(Additions(RowKeys)) /\ a2 = Each(n.DependentRIMs, InsertLocator) /\ D2 = LocatorSliceGone(n.DependentRIMs) /\ Undoes(D2, a2)
  <2>1. n.DependentRIMs \in Seq(Locators)
    BY DEF Manifests
  <2>2. Each(n.DependentRIMs, InsertLocator) \in Seq(Additions(RowKeys))
    BY <2>1, AdditionsAdd, EachLocatorInserted
  <2> QED BY <2>1, <2>2, LocatorSliceUndone, Zenon
<1>5. PICK a3, D3 :
        a3 \in Seq(Additions(RowKeys)) /\ a3 = Each(n.ModuleTags, InsertModuleTag) /\ D3 = ModuleTagSliceGone(n.ModuleTags) /\ Undoes(D3, a3)
  <2>1. n.ModuleTags \in Seq(ModuleTags)
    BY DEF Manifests
  <2>2. Each(n.ModuleTags, InsertModuleTag) \in Seq(Additions(RowKeys))
    BY <2>1, AdditionsAdd, EachModuleTagInserted
  <2> QED BY <2>1, <2>2, ModuleTagSliceUndone, Zenon
<1>6. PICK a4, D4 :
        a4 \in Seq(Additions(RowKeys)) /\ a4 = Each(n.Extensions, Insert) /\ D4 = Nothing /\ Undoes(D4, a4)
  <2>1. n.Extensions \in Seq(AnyLeaves)
    BY AnyLeaf DEF Manifests
  <2>2. Each(n.Extensions, Insert) \in Seq(Additions(RowKeys))
    BY <2>1, AdditionsAdd, EachInserted
  <2> QED BY <2>1, <2>2, UndoesNothing, Zenon
<1>7. PICK t1 \in Seq(Additions(RowKeys)) : t1 = t0 \o a1 /\ Joined(t0, a1, t1)
  BY <1>2, <1>3, JoinedJoin
<1>8. PICK t2 \in Seq(Additions(RowKeys)) : t2 = t1 \o a2 /\ Joined(t1, a2, t2)
  BY <1>7, <1>4, JoinedJoin
<1>9. PICK t3 \in Seq(Additions(RowKeys)) : t3 = t2 \o a3 /\ Joined(t2, a3, t3)
  BY <1>8, <1>5, JoinedJoin
<1>10. PICK t4 \in Seq(Additions(RowKeys)) : t4 = t3 \o a4 /\ Joined(t3, a4, t4)
  BY <1>9, <1>6, JoinedJoin
<1>11. PICK r1 \in Seq(Additions(RowKeys)) : r1 = a1
  BY <1>3
<1>12. PICK r2 \in Seq(Additions(RowKeys)) : Joined(r1, a3, r2)
  BY <1>11, <1>5, JoinedJoin
<1>13. PICK r3 \in Seq(Additions(RowKeys)) : Joined(r2, a2, r3)
  BY <1>12, <1>4, JoinedJoin
<1>14. PICK r4 \in Seq(Additions(RowKeys)) : Joined(r3, a4, r4)
  BY <1>13, <1>6, JoinedJoin
<1>15. PICK q1 \in Seq(Additions(RowKeys)) : q1 = a1
  BY <1>3
<1>16. PICK q2 \in Seq(Additions(RowKeys)) : Joined(q1, a2, q2)
  BY <1>15, <1>4, JoinedJoin
<1>17. PICK q3 \in Seq(Additions(RowKeys)) : Joined(q2, a3, q3)
  BY <1>16, <1>5, JoinedJoin
<1>18. PICK q4 \in Seq(Additions(RowKeys)) : Joined(q3, a4, q4)
  BY <1>17, <1>6, JoinedJoin
<1>19. Joined(Insert(n), q1, t1)
  BY <1>2, <1>7, <1>15, JoinedOn
<1>20. Joined(Insert(n), q2, t2)
  BY <1>19, <1>8, <1>16 DEF Joined
<1>21. Joined(Insert(n), q3, t3)
  BY <1>20, <1>9, <1>17 DEF Joined
<1>22. Joined(Insert(n), q4, t4)
  BY <1>21, <1>10, <1>18 DEF Joined
<1>23. Alike(q4, r4)
  BY <1>15, <1>16, <1>17, <1>18, <1>11, <1>12, <1>13, <1>14 DEF Joined, Alike
<1>24. Joined(Insert(n), r4, t4)
  BY <1>22, <1>23 DEF Joined, Alike
<1>25. PICK B1 : B1 = D1 /\ Undoes(B1, r1)
  BY <1>11, <1>3
<1>26. PICK B2 : B2 = Both(B1, D3) /\ Undoes(B2, r2)
  BY <1>25, <1>12, <1>5, UndoesJoin
<1>27. PICK B3 : B3 = Both(B2, D2) /\ Undoes(B3, r3)
  BY <1>26, <1>13, <1>4, UndoesJoin
<1>28. PICK B4 : B4 = Both(B3, D4) /\ Undoes(B4, r4)
  BY <1>27, <1>14, <1>6, UndoesJoin
<1>30. t4 = InsertManifest(n)
  BY <1>2, <1>3, <1>4, <1>5, <1>6, <1>7, <1>8, <1>9, <1>10, Zenon DEF InsertManifest
<1>31. ASSUME NEW K \in SUBSET RowKeys
      PROVE  DeleteManifest(SelectManifest(n, K)) = B4[K] \o Delete(n)
  <2>1. PICK l : l = SelectManifest(n, K) /\ l.key = n.key
    <3>1. SelectManifest(n, K).key = n.key
      BY DEF SelectManifest, Manifests
    <3> QED BY <3>1, Zenon
  <2>2. PICK p1 \in Seq(Removals) : p1 = D1[K] /\ p1 = Each(l.Entities, DeleteEntity)
    <3>1. l.Entities = Loaded(n.Entities, K, SelectEntity)
      BY <2>1 DEF SelectManifest, Manifests
    <3>2. D1[K] = Each(Loaded(n.Entities, K, SelectEntity), DeleteEntity)
      BY <1>3 DEF EntitySliceGone
    <3>3. D1[K] \in Seq(Removals)
      BY <1>3 DEF Undoes
    <3> QED BY <3>1, <3>2, <3>3, Zenon
  <2>3. PICK p2 \in Seq(Removals) : p2 = D2[K] /\ p2 = Each(l.DependentRIMs, DeleteLocator)
    <3>1. l.DependentRIMs = Loaded(n.DependentRIMs, K, SelectLocator)
      BY <2>1 DEF SelectManifest, Manifests
    <3>2. D2[K] = Each(Loaded(n.DependentRIMs, K, SelectLocator), DeleteLocator)
      BY <1>4 DEF LocatorSliceGone
    <3>3. D2[K] \in Seq(Removals)
      BY <1>4 DEF Undoes
    <3> QED BY <3>1, <3>2, <3>3, Zenon
  <2>4. PICK p3 \in Seq(Removals) : p3 = D3[K] /\ p3 = Each(l.ModuleTags, DeleteModuleTag)
    <3>1. l.ModuleTags = Loaded(n.ModuleTags, K, SelectModuleTag)
      BY <2>1 DEF SelectManifest, Manifests
    <3>2. D3[K] = Each(Loaded(n.ModuleTags, K, SelectModuleTag), DeleteModuleTag)
      BY <1>5 DEF ModuleTagSliceGone
    <3>3. D3[K] \in Seq(Removals)
      BY <1>5 DEF Undoes
    <3> QED BY <3>1, <3>2, <3>3, Zenon
  <2>5. PICK p4 \in Seq(Removals) : p4 = D4[K] /\ p4 = <<>>
    BY <1>6 DEF Nothing, Undoes
  <2>6. PICK c1 \in Seq(Removals) : c1 = B1[K] /\ c1 = p1
    BY <1>25, <2>2
  <2>7. PICK c2 \in Seq(Removals) : c2 = B2[K] /\ c2 = c1 \o p3
    <3>1. B2[K] = B1[K] \o D3[K]
      BY <1>26 DEF Both
    <3>2. B2[K] \in Seq(Removals)
      BY <1>26 DEF Undoes
    <3> QED BY <3>1, <3>2, <2>6, <2>4, Zenon
  <2>8. PICK c3 \in Seq(Removals) : c3 = B3[K] /\ c3 = c2 \o p2
    <3>1. B3[K] = B2[K] \o D2[K]
      BY <1>27 DEF Both
    <3>2. B3[K] \in Seq(Removals)
      BY <1>27 DEF Undoes
    <3> QED BY <3>1, <3>2, <2>7, <2>3, Zenon
  <2>9. PICK c4 \in Seq(Removals) : c4 = B4[K] /\ c4 = c3 \o p4
    <3>1. B4[K] = B3[K] \o D4[K]
      BY <1>28 DEF Both
    <3>2. B4[K] \in Seq(Removals)
      BY <1>28 DEF Undoes
    <3> QED BY <3>1, <3>2, <2>8, <2>5, Zenon
  <2>10. c4 = c3
    BY <2>9, <2>5, <2>8, JoinNothing
  <2>11. Delete(l) = Delete(n)
    BY <2>1 DEF Delete
  <2>12. DeleteManifest(l) = c4 \o Delete(n)
    BY <2>1, <2>2, <2>3, <2>4, <2>5, <2>6, <2>7, <2>8, <2>9, <2>10, <2>11, Zenon DEF DeleteManifest
  <2> QED BY <2>1, <2>9, <2>12, Zenon
<1>32. ManifestGone(n) = Over(B4, n.key, Delete(n))
  BY <1>31 DEF ManifestGone, Over
<1> QED BY <1>24, <1>28, <1>30, <1>32, Zenon DEF RootedIn

LEMMA ManifestUndone ==
  ASSUME NEW n \in Manifests
  PROVE  Undoes(ManifestGone(n), InsertManifest(n))
<1>1. HasRow(n) /\ n.env = NoEnv
  BY DEF HasRow, Manifests, Reached, AllTables
<1>2. PICK B, a : RootedIn(n, B, a)
  BY ManifestRooted
<1>3. Undoes(Over(B, n.key, Delete(n)), InsertManifest(n))
  BY <1>1, <1>2, RootUndone DEF RootedIn
<1> QED BY <1>2, <1>3, Zenon DEF RootedIn
-----------------------------------------------------------------------------
(* What a document that is all there is read as, and what its delete reaches *)

\* The rows K are all the rows of the program a, and more.
Has(K, a) == Inserted(a) \subseteq K

\* What a inserts is deleted by d, and inserted again by r, but for the tables named.
Gone(a, d) == Inserted(a) \subseteq Deleted(d) \cup InsertedInto(a, Forgotten)
Back(a, r) == Inserted(a) \subseteq Inserted(r) \cup InsertedInto(a, NotLoaded)

Inserts(r, a, b) ==
  /\ Inserted(r) = Inserted(a) \cup Inserted(b)
  /\ \A T : InsertedInto(r, T) = InsertedInto(a, T) \cup InsertedInto(b, T)
Drops(r, a, b) == Deleted(r) = Deleted(a) \cup Deleted(b)

LEMMA InsertsBoth ==
  ASSUME NEW S, NEW a \in Seq(S), NEW b \in Seq(S)
  PROVE  \E r \in Seq(S) : r = a \o b /\ Inserts(r, a, b)
<1>1. PICK r \in Seq(S) : r = a \o b
  <2>1. a \o b \in Seq(S)
    OBVIOUS
  <2> QED BY <2>1, Zenon
<1>2. ToSet(r) = ToSet(a) \cup ToSet(b)
  BY <1>1, ToSetJoin
<1>3. Inserted(r) = Inserted(a) \cup Inserted(b)
  BY <1>1, InsertedJoin
<1>4. \A T : InsertedInto(r, T) = InsertedInto(a, T) \cup InsertedInto(b, T)
  BY <1>2 DEF InsertedInto
<1> QED BY <1>1, <1>3, <1>4 DEF Inserts

LEMMA DropsBoth ==
  ASSUME NEW S, NEW a \in Seq(S), NEW b \in Seq(S)
  PROVE  \E r \in Seq(S) : r = a \o b /\ Drops(r, a, b)
<1>1. PICK r \in Seq(S) : r = a \o b
  <2>1. a \o b \in Seq(S)
    OBVIOUS
  <2> QED BY <2>1, Zenon
<1> QED BY <1>1, DeletedJoin DEF Drops

LEMMA NoneMoved == \A T : Inserted(<<>>) = {} /\ InsertedInto(<<>>, T) = {}
BY DEF Inserted, InsertedInto, ToSet

LEMMA OrphanIn ==
  ASSUME NEW n, n.key \in RowKeys, NEW b \in BOOLEAN
  PROVE  DeleteIfOrphaned(n, b) \in Seq(Removals)
<1>1. [do |-> "owners", key |-> n.key, checked |-> b] \in Removals
  BY DEF Removals
<1> QED BY <1>1 DEF DeleteIfOrphaned

LEMMA InsertInto ==
  ASSUME NEW n, NEW T, n.tbl \in T
  PROVE  Inserted(Insert(n)) \subseteq InsertedInto(Insert(n), T)
<1>1. PICK s : s = [do |-> "insert", key |-> n.key, tbl |-> n.tbl, hasEnv |-> n.env # NoEnv]
  OBVIOUS
<1>2. ToSet(Insert(n)) = {s} /\ s.tbl \in T
  BY <1>1, OneStatement DEF Insert
<1> QED BY <1>2 DEF Inserted, InsertedInto

\* The nodes of a slice whose rows are all there.
LEMMA SliceWhole ==
  ASSUME NEW N, NEW ins, Gives(ins, N, Additions(RowKeys)),
         \A x \in N : x.key \in Inserted(ins[x]), NEW ns \in Seq(N), NEW K,
         Has(K, Mapped(ins, ns))
  PROVE  Here(ns, K) = ns /\ \A i \in DOMAIN ns : Has(K, ins[ns[i]])
<1>1. PICK one : one = [x \in N |-> IF x.key \in K THEN <<x>> ELSE <<>>]
  OBVIOUS
<1>2. Gives(one, N, N)
  <2>1. \A x \in N : <<x>> \in Seq(N) /\ <<>> \in Seq(N)
    OBVIOUS
  <2> QED BY <1>1, <2>1 DEF Gives
<1>3. PICK W : W = {p \in Seq(N) : Has(K, Mapped(ins, p)) =>
                      Mapped(one, p) = p /\ \A i \in DOMAIN p : Has(K, ins[p[i]])}
  OBVIOUS
<1>4. <<>> \in W
  <2>1. Mapped(one, <<>>) = <<>> /\ <<>> \in Seq(N) /\ DOMAIN <<>> = {}
    BY MappedNone
  <2> QED BY <1>3, <2>1
<1>5. ASSUME NEW p \in Seq(N), NEW x \in N, p \in W PROVE Append(p, x) \in W
  <2>1. PICK q \in Seq(N) : q = Append(p, x)
    <3>1. Append(p, x) \in Seq(N)
      OBVIOUS
    <3> QED BY <3>1, Zenon
  <2>2. SUFFICES ASSUME Has(K, Mapped(ins, q))
                 PROVE  Mapped(one, q) = q /\ \A i \in DOMAIN q : Has(K, ins[q[i]])
    BY <1>3, <2>1
  <2>3. PICK a \in Seq(Additions(RowKeys)), b \in Seq(Additions(RowKeys)) :
          a = Mapped(ins, p) /\ b = ins[x]
    BY MappedIn DEF Gives
  <2>4. Mapped(ins, q) = a \o b
    <3>1. MapsOn(ins, p, x)
      BY MappedMore
    <3> QED BY <2>1, <2>3, <3>1 DEF MapsOn
  <2>5. Has(K, a) /\ Has(K, b)
    <3>1. Inserted(a \o b) = Inserted(a) \cup Inserted(b)
      BY InsertedJoin
    <3> QED BY <2>2, <2>4, <3>1 DEF Has
  <2>6. Mapped(one, p) = p /\ \A i \in DOMAIN p : Has(K, ins[p[i]])
    BY <1>3, <1>5, <2>3, <2>5
  <2>7. x.key \in K
    BY <2>3, <2>5 DEF Has
  <2>8. Mapped(one, q) = q
    <3>1. MapsOn(one, p, x)
      BY <1>2, MappedMore
    <3>2. one[x] = <<x>>
      BY <1>1, <2>7
    <3>3. p \o <<x>> = q
      BY <2>1, AppendJoin
    <3> QED BY <2>1, <2>6, <3>1, <3>2, <3>3, Zenon DEF MapsOn
  <2>9. \A i \in DOMAIN q : (i \in DOMAIN p /\ q[i] = p[i]) \/ q[i] = x
    BY <2>1
  <2> QED BY <2>3, <2>5, <2>6, <2>8, <2>9
<1>6. Seq(N) \subseteq W
  BY <1>4, <1>5, AllSequences
<1>7. Here(ns, K) = Mapped(one, ns)
  <2>1. [i \in DOMAIN ns |-> one[ns[i]]]
        = [i \in DOMAIN ns |-> IF ns[i].key \in K THEN <<ns[i]>> ELSE <<>>]
    BY <1>1
  <2> QED BY <2>1 DEF Here, Each, Mapped
<1> QED BY <1>3, <1>6, <1>7

\* A slice of leaves of the tables T.
LEMMA SliceInto ==
  ASSUME NEW T \in SUBSET AllTables, NEW ns \in Seq(LeavesIn(T))
  PROVE  Inserted(Each(ns, Insert)) \subseteq InsertedInto(Each(ns, Insert), T)
<1>1. PICK ins : ins = [x \in LeavesIn(T) |-> Insert(x)]
  OBVIOUS
<1>2. Gives(ins, LeavesIn(T), Additions(RowKeys))
  <2>1. \A x \in LeavesIn(T) : x \in AnyLeaves
    BY DEF LeavesIn, AnyLeaves
  <2>2. \A x \in LeavesIn(T) : Insert(x) \in Seq(Additions(RowKeys))
    BY <2>1, AdditionsAdd, LeafInserted
  <2> QED BY <1>1, <2>2 DEF Gives
<1>3. Mapped(ins, ns) = Each(ns, Insert)
  <2>1. [i \in DOMAIN ns |-> ins[ns[i]]] = [i \in DOMAIN ns |-> Insert(ns[i])]
    BY <1>1
  <2> QED BY <2>1 DEF Mapped, Each
<1>4. PICK W : W = {p \in Seq(LeavesIn(T)) : Inserted(Mapped(ins, p)) \subseteq InsertedInto(Mapped(ins, p), T)}
  OBVIOUS
<1>5. <<>> \in W
  <2>1. <<>> \in Seq(LeavesIn(T))
    OBVIOUS
  <2> QED BY <1>4, <2>1, MappedNone, NoneMoved
<1>6. ASSUME NEW p \in Seq(LeavesIn(T)), NEW x \in LeavesIn(T), p \in W PROVE Append(p, x) \in W
  <2>1. PICK q \in Seq(LeavesIn(T)) : q = Append(p, x)
    <3>1. Append(p, x) \in Seq(LeavesIn(T))
      OBVIOUS
    <3> QED BY <3>1, Zenon
  <2>2. PICK a \in Seq(Additions(RowKeys)), b \in Seq(Additions(RowKeys)) :
          a = Mapped(ins, p) /\ b = ins[x]
    BY <1>2, MappedIn DEF Gives
  <2>3. PICK r \in Seq(Additions(RowKeys)) : r = a \o b /\ Inserts(r, a, b)
    BY InsertsBoth
  <2>4. Mapped(ins, q) = r
    <3>1. MapsOn(ins, p, x)
      BY <1>2, MappedMore
    <3> QED BY <2>1, <2>2, <2>3, <3>1 DEF MapsOn
  <2>5. Inserted(b) \subseteq InsertedInto(b, T)
    <3>1. x.tbl \in T /\ b = Insert(x)
      BY <1>1, <2>2 DEF LeavesIn
    <3> QED BY <3>1, InsertInto
  <2>6. Inserted(a) \subseteq InsertedInto(a, T)
    BY <1>4, <1>6, <2>2
  <2> QED BY <1>4, <2>1, <2>3, <2>4, <2>5, <2>6 DEF Inserts
<1>7. Seq(LeavesIn(T)) \subseteq W
  BY <1>5, <1>6, AllSequences
<1> QED BY <1>3, <1>4, <1>7

\* The programs of a slice, from those of its nodes.
LEMMA SliceReached ==
  ASSUME NEW N, NEW ins, Gives(ins, N, Additions(RowKeys)), NEW del, Gives(del, N, Removals),
         NEW again, Gives(again, N, Additions(RowKeys)), NEW ns \in Seq(N),
         \A i \in DOMAIN ns : Gone(ins[ns[i]], del[ns[i]]) /\ Back(ins[ns[i]], again[ns[i]])
  PROVE  Gone(Mapped(ins, ns), Mapped(del, ns)) /\ Back(Mapped(ins, ns), Mapped(again, ns))
<1>1. PICK M : M = {x \in N : Gone(ins[x], del[x]) /\ Back(ins[x], again[x])}
  OBVIOUS
<1>2. /\ ns \in Seq(M) /\ \A x \in M : x \in N
      /\ \A p \in Seq(M) : p \in Seq(N)
  BY <1>1
<1>3. PICK W : W = {p \in Seq(M) : /\ Gone(Mapped(ins, p), Mapped(del, p))
                                   /\ Back(Mapped(ins, p), Mapped(again, p))}
  OBVIOUS
<1>4. <<>> \in W
  <2>1. <<>> \in Seq(M)
    OBVIOUS
  <2> QED BY <1>3, <2>1, MappedNone, NoneMoved DEF Gone, Back
<1>5. ASSUME NEW p \in Seq(M), NEW x \in M, p \in W PROVE Append(p, x) \in W
  <2>1. PICK q \in Seq(M) : q = Append(p, x)
    <3>1. Append(p, x) \in Seq(M)
      OBVIOUS
    <3> QED BY <3>1, Zenon
  <2>2. p \in Seq(N) /\ x \in N
    BY <1>2
  <2>3. PICK a \in Seq(Additions(RowKeys)), b \in Seq(Additions(RowKeys)) :
          a = Mapped(ins, p) /\ b = ins[x]
    BY <2>2, MappedIn DEF Gives
  <2>4. PICK d \in Seq(Removals), e \in Seq(Removals) : d = Mapped(del, p) /\ e = del[x]
    BY <2>2, MappedIn DEF Gives
  <2>5. PICK g \in Seq(Additions(RowKeys)), h \in Seq(Additions(RowKeys)) :
          g = Mapped(again, p) /\ h = again[x]
    BY <2>2, MappedIn DEF Gives
  <2>6. PICK r \in Seq(Additions(RowKeys)) : r = a \o b /\ Inserts(r, a, b)
    BY InsertsBoth
  <2>7. PICK s \in Seq(Removals) : s = d \o e /\ Drops(s, d, e)
    BY DropsBoth
  <2>8. PICK t \in Seq(Additions(RowKeys)) : t = g \o h /\ Inserts(t, g, h)
    BY InsertsBoth
  <2>9. Mapped(ins, q) = r /\ Mapped(del, q) = s /\ Mapped(again, q) = t
    <3>1. MapsOn(ins, p, x) /\ MapsOn(del, p, x) /\ MapsOn(again, p, x)
      BY <2>2, MappedMore
    <3> QED BY <2>1, <2>3, <2>4, <2>5, <2>6, <2>7, <2>8, <3>1 DEF MapsOn
  <2>10. Gone(a, d) /\ Gone(b, e) /\ Back(a, g) /\ Back(b, h)
    BY <1>1, <1>3, <1>5, <2>3, <2>4, <2>5
  <2>11. Gone(r, s)
    BY <2>6, <2>7, <2>10 DEF Gone, Inserts, Drops
  <2>12. Back(r, t)
    BY <2>6, <2>8, <2>10 DEF Back, Inserts
  <2> QED BY <1>3, <2>1, <2>9, <2>11, <2>12
<1>6. Seq(M) \subseteq W
  BY <1>4, <1>5, AllSequences
<1> QED BY <1>2, <1>3, <1>6

LEMMA AnyLeafOf == \A x \in Leaves : x \in AnyLeaves
BY DEF Leaves, LeavesIn, AnyLeaves, Reached, AllTables

LEMMA LeafReached ==
  ASSUME NEW n \in Leaves
  PROVE  n.key \in Inserted(Insert(n)) /\ Gone(Insert(n), Delete(n))
<1>1. HasRow(n)
  BY AnyLeafOf DEF HasRow, AnyLeaves, LeavesIn
<1>2. Inserted(Insert(n)) = {n.key}
  BY <1>1, InsertFacts
<1>3. Deleted(Delete(n)) = {n.key}
  BY <1>1, DeleteFacts DEF HasRow
<1> QED BY <1>2, <1>3 DEF Gone

LEMMA DomainEntryReached ==
  ASSUME NEW n \in DomainEntries
  PROVE  n.key \in Inserted(InsertDomainEntry(n)) /\ Gone(InsertDomainEntry(n), DeleteDomainEntry(n))
<1>1. HasRow(n) /\ n.env \in Envs
  BY RowAssumption, OwnerTables DEF HasRow, DomainEntries, OwnerTable
<1>2. Inserted(InsertDomainEntry(n)) = {n.key}
  <2>1. PICK f \in Seq(Additions(RowKeys)), x \in Seq(Additions(RowKeys)) :
          f = FindEnv(n) /\ x = Insert(n) /\ Inserted(f) = {} /\ Inserted(x) = {n.key}
    BY <1>1, FindFacts, InsertFacts
  <2>2. Inserted(f \o x) = Inserted(f) \cup Inserted(x)
    BY InsertedJoin
  <2> QED BY <2>1, <2>2 DEF InsertDomainEntry
<1>3. Deleted(DeleteDomainEntry(n)) = {n.key}
  <2>1. n.key \in RowKeys /\ TRUE \in BOOLEAN
    BY <1>1 DEF HasRow
  <2>2. Deleted(Delete(n) \o DeleteIfOrphaned(n, TRUE)) = {n.key}
    BY <2>1, OrphanFacts
  <2> QED BY <2>2 DEF DeleteDomainEntry
<1> QED BY <1>2, <1>3 DEF Gone

LEMMA LeafSliceReached ==
  ASSUME NEW ns \in Seq(Leaves), NEW K, Has(K, Each(ns, Insert))
  PROVE  LET here == Here(ns, K)
         IN Gone(Each(ns, Insert), Each(here, Delete)) /\ Back(Each(ns, Insert), Each(here, Insert))
<1>1. PICK ins : ins = [x \in Leaves |-> Insert(x)]
  OBVIOUS
<1>2. PICK del : del = [x \in Leaves |-> Delete(x)]
  OBVIOUS
<1>3. \A x \in Leaves : Insert(x) \in Seq(Additions(RowKeys)) /\ Delete(x) \in Seq(Removals)
  BY AdditionsAdd, LeafInserted, RemovalsRemove, LeafDeleted, AnyLeafOf
<1>4. Gives(ins, Leaves, Additions(RowKeys)) /\ Gives(del, Leaves, Removals)
  BY <1>1, <1>2, <1>3 DEF Gives
<1>5. Mapped(ins, ns) = Each(ns, Insert) /\ Mapped(del, ns) = Each(ns, Delete)
  <2>1. /\ [i \in DOMAIN ns |-> ins[ns[i]]] = [i \in DOMAIN ns |-> Insert(ns[i])]
        /\ [i \in DOMAIN ns |-> del[ns[i]]] = [i \in DOMAIN ns |-> Delete(ns[i])]
    BY <1>1, <1>2
  <2> QED BY <2>1 DEF Mapped, Each
<1>6. \A x \in Leaves : x.key \in Inserted(ins[x]) /\ Gone(ins[x], del[x]) /\ Back(ins[x], ins[x])
  BY <1>1, <1>2, LeafReached DEF Back
<1>7. Here(ns, K) = ns
  <2>1. Has(K, Mapped(ins, ns))
    BY <1>5
  <2> QED BY <1>4, <1>6, <2>1, SliceWhole
<1>8. \A i \in DOMAIN ns : Gone(ins[ns[i]], del[ns[i]]) /\ Back(ins[ns[i]], ins[ns[i]])
  BY <1>6
<1>9. Gone(Mapped(ins, ns), Mapped(del, ns)) /\ Back(Mapped(ins, ns), Mapped(ins, ns))
  BY <1>4, <1>8, SliceReached
<1> QED BY <1>5, <1>7, <1>9

LEMMA DomainEntrySliceReached ==
  ASSUME NEW ns \in Seq(DomainEntries), NEW K, Has(K, Each(ns, InsertDomainEntry))
  PROVE  LET here == Here(ns, K)
         IN Gone(Each(ns, InsertDomainEntry), Each(here, DeleteDomainEntry)) /\ Back(Each(ns, InsertDomainEntry), Each(here, InsertDomainEntry))
<1>1. PICK ins : ins = [x \in DomainEntries |-> InsertDomainEntry(x)]
  OBVIOUS
<1>2. PICK del : del = [x \in DomainEntries |-> DeleteDomainEntry(x)]
  OBVIOUS
<1>3. \A x \in DomainEntries : InsertDomainEntry(x) \in Seq(Additions(RowKeys)) /\ DeleteDomainEntry(x) \in Seq(Removals)
  BY AdditionsAdd, DomainEntryInserted, RemovalsRemove, DomainEntryDeleted
<1>4. Gives(ins, DomainEntries, Additions(RowKeys)) /\ Gives(del, DomainEntries, Removals)
  BY <1>1, <1>2, <1>3 DEF Gives
<1>5. Mapped(ins, ns) = Each(ns, InsertDomainEntry) /\ Mapped(del, ns) = Each(ns, DeleteDomainEntry)
  <2>1. /\ [i \in DOMAIN ns |-> ins[ns[i]]] = [i \in DOMAIN ns |-> InsertDomainEntry(ns[i])]
        /\ [i \in DOMAIN ns |-> del[ns[i]]] = [i \in DOMAIN ns |-> DeleteDomainEntry(ns[i])]
    BY <1>1, <1>2
  <2> QED BY <2>1 DEF Mapped, Each
<1>6. \A x \in DomainEntries : x.key \in Inserted(ins[x]) /\ Gone(ins[x], del[x]) /\ Back(ins[x], ins[x])
  BY <1>1, <1>2, DomainEntryReached DEF Back
<1>7. Here(ns, K) = ns
  <2>1. Has(K, Mapped(ins, ns))
    BY <1>5
  <2> QED BY <1>4, <1>6, <2>1, SliceWhole
<1>8. \A i \in DOMAIN ns : Gone(ins[ns[i]], del[ns[i]]) /\ Back(ins[ns[i]], ins[ns[i]])
  BY <1>6
<1>9. Gone(Mapped(ins, ns), Mapped(del, ns)) /\ Back(Mapped(ins, ns), Mapped(ins, ns))
  BY <1>4, <1>8, SliceReached
<1> QED BY <1>5, <1>7, <1>9

LEMMA EntityReached ==
  ASSUME NEW n \in Entities
  PROVE  /\ n.key \in Inserted(InsertEntity(n))
         /\ \A K : Has(K, InsertEntity(n)) =>
              /\ Gone(InsertEntity(n), DeleteEntity(SelectEntity(n, K)))
              /\ Back(InsertEntity(n), InsertEntity(SelectEntity(n, K)))
<1>1. HasRow(n)
  BY DEF HasRow, Entities, Reached, AllTables
<1>2. PICK t0 \in Seq(Additions(RowKeys)) : t0 = Insert(n) /\ Inserted(t0) = {n.key}
  <2>1. Insert(n) \in Seq(Additions(RowKeys)) /\ Inserted(Insert(n)) = {n.key}
    BY <1>1, InsertFacts
  <2> QED BY <2>1, Zenon
<1>3. PICK a1 \in Seq(Additions(RowKeys)) : a1 = Each(n.RoleEntries, Insert)
  <2>1. n.RoleEntries \in Seq(AnyLeaves)
    BY AnyLeaf DEF Entities
  <2>2. Each(n.RoleEntries, Insert) \in Seq(Additions(RowKeys))
    BY <2>1, AdditionsAdd, EachInserted
  <2> QED BY <2>2, Zenon
<1>4. PICK a2 \in Seq(Additions(RowKeys)) : a2 = Each(n.Extensions, Insert)
  <2>1. n.Extensions \in Seq(AnyLeaves)
    BY AnyLeaf DEF Entities
  <2>2. Each(n.Extensions, Insert) \in Seq(Additions(RowKeys))
    BY <2>1, AdditionsAdd, EachInserted
  <2> QED BY <2>2, Zenon
<1>5. PICK t1 \in Seq(Additions(RowKeys)) : t1 = t0 \o a1 /\ Inserts(t1, t0, a1)
  BY <1>2, <1>3, InsertsBoth
<1>6. PICK t2 \in Seq(Additions(RowKeys)) : t2 = t1 \o a2 /\ Inserts(t2, t1, a2)
  BY <1>5, <1>4, InsertsBoth
<1>7. t2 = InsertEntity(n)
  BY <1>2, <1>3, <1>4, <1>5, <1>6, Zenon DEF InsertEntity
<1>8. n.key \in Inserted(t2)
  BY <1>2, <1>5, <1>6 DEF Inserts
<1>9. \A T : InsertedInto(a1, T) \subseteq InsertedInto(t2, T) /\ InsertedInto(a2, T) \subseteq InsertedInto(t2, T)
  BY <1>5, <1>6 DEF Inserts
<1>10. Inserted(t2) = {n.key} \cup Inserted(a1) \cup Inserted(a2)
  BY <1>2, <1>5, <1>6 DEF Inserts
<1>11. ASSUME NEW K, Has(K, t2)
      PROVE  Gone(t2, DeleteEntity(SelectEntity(n, K))) /\ Back(t2, InsertEntity(SelectEntity(n, K)))
  <2>1. Has(K, a1) /\ Has(K, a2)
    BY <1>11, <1>10 DEF Has
  <2>2. PICK l \in Entities :
          /\ l = SelectEntity(n, K)
          /\ l.key = n.key
          /\ l.tbl = n.tbl
          /\ l.env = n.env
          /\ l.RoleEntries = Here(n.RoleEntries, K)
          /\ l.Extensions = Here(n.Extensions, K)
    <3>1. SelectEntity(n, K) \in Entities
      BY SelectEntityIn
    <3>2. LET m == SelectEntity(n, K) IN m.key = n.key /\ m.tbl = n.tbl /\ m.env = n.env /\ m.RoleEntries = Here(n.RoleEntries, K) /\ m.Extensions = Here(n.Extensions, K)
      BY DEF SelectEntity, Entities
    <3> QED BY <3>1, <3>2
  <2>3. PICK d1 \in Seq(Removals), r1 \in Seq(Additions(RowKeys)) :
          /\ d1 = Each(l.RoleEntries, Delete) /\ Gone(a1, d1)
          /\ r1 = Each(l.RoleEntries, Insert) /\ Back(a1, r1)
    <3>1. l.RoleEntries \in Seq(AnyLeaves)
      BY AnyLeaf DEF Entities
    <3>2. Each(l.RoleEntries, Insert) \in Seq(Additions(RowKeys))
      BY <3>1, AdditionsAdd, EachInserted
    <3>3. Each(l.RoleEntries, Delete) \in Seq(Removals)
      BY <3>1, RemovalsRemove, EachDeleted
    <3>4. n.RoleEntries \in Seq(Leaves)
      BY DEF Entities
    <3>5. Has(K, Each(n.RoleEntries, Insert))
      BY <2>1, <1>3
    <3>6. Gone(a1, Each(l.RoleEntries, Delete)) /\ Back(a1, Each(l.RoleEntries, Insert))
      BY <3>4, <3>5, <2>2, <1>3, LeafSliceReached
    <3> QED BY <3>2, <3>3, <3>6
  <2>4. PICK d2 \in Seq(Removals), r2 \in Seq(Additions(RowKeys)) :
          /\ d2 = Each(l.Extensions, Delete) /\ Gone(a2, d2)
          /\ r2 = Each(l.Extensions, Insert) /\ Back(a2, r2)
    <3>1. l.Extensions \in Seq(AnyLeaves)
      BY AnyLeaf DEF Entities
    <3>2. Each(l.Extensions, Insert) \in Seq(Additions(RowKeys))
      BY <3>1, AdditionsAdd, EachInserted
    <3>3. Each(l.Extensions, Delete) \in Seq(Removals)
      BY <3>1, RemovalsRemove, EachDeleted
    <3>4. n.Extensions \in Seq(Leaves)
      BY DEF Entities
    <3>5. Has(K, Each(n.Extensions, Insert))
      BY <2>1, <1>4
    <3>6. Gone(a2, Each(l.Extensions, Delete)) /\ Back(a2, Each(l.Extensions, Insert))
      BY <3>4, <3>5, <2>2, <1>4, LeafSliceReached
    <3> QED BY <3>2, <3>3, <3>6
  <2>5. PICK dn \in Seq(Removals) : dn = Delete(l) /\ Deleted(dn) = {n.key}
    <3>1. l.key \in RowKeys
      BY DEF Entities
    <3>2. Delete(l) \in Seq(Removals) /\ Deleted(Delete(l)) = {l.key}
      BY <3>1, DeleteFacts
    <3> QED BY <3>2, <2>2, Zenon
  <2>6. PICK e1 \in Seq(Removals) : e1 = d2 \o d1 /\ Drops(e1, d2, d1)
    BY <2>4, <2>3, DropsBoth
  <2>7. PICK e2 \in Seq(Removals) : e2 = e1 \o dn /\ Drops(e2, e1, dn)
    BY <2>6, <2>5, DropsBoth
  <2>8. e2 = DeleteEntity(l)
    BY <2>3, <2>4, <2>5, <2>6, <2>7, Zenon DEF DeleteEntity
  <2>9. Deleted(d2) \subseteq Deleted(e2) /\ Deleted(d1) \subseteq Deleted(e2) /\ Deleted(dn) \subseteq Deleted(e2)
    BY <2>6, <2>7 DEF Drops
  <2>10. Insert(l) = Insert(n)
    BY <2>2 DEF Insert
  <2>11. PICK u1 \in Seq(Additions(RowKeys)) : u1 = t0 \o r1 /\ Inserts(u1, t0, r1)
    BY <1>2, <2>3, InsertsBoth
  <2>12. PICK u2 \in Seq(Additions(RowKeys)) : u2 = u1 \o r2 /\ Inserts(u2, u1, r2)
    BY <2>11, <2>4, InsertsBoth
  <2>13. u2 = InsertEntity(l)
    BY <1>2, <2>10, <2>3, <2>4, <2>11, <2>12, Zenon DEF InsertEntity
  <2>14. n.key \in Inserted(u2) /\ Inserted(r1) \subseteq Inserted(u2) /\ Inserted(r2) \subseteq Inserted(u2)
    BY <1>2, <2>11, <2>12 DEF Inserts
  <2>15. Gone(t2, e2)
    BY <2>5, <1>9, <1>10, <2>3, <2>4, <2>9 DEF Gone
  <2>16. Back(t2, u2)
    BY <1>9, <1>10, <2>3, <2>4, <2>14 DEF Back
  <2> QED BY <2>2, <2>8, <2>13, <2>15, <2>16
<1> QED BY <1>7, <1>8, <1>11

LEMMA EntitySliceReached ==
  ASSUME NEW ns \in Seq(Entities), NEW K, Has(K, Each(ns, InsertEntity))
  PROVE  LET here == Loaded(ns, K, SelectEntity)
         IN Gone(Each(ns, InsertEntity), Each(here, DeleteEntity)) /\ Back(Each(ns, InsertEntity), Each(here, InsertEntity))
<1>1. PICK ins : ins = [x \in Entities |-> InsertEntity(x)]
  OBVIOUS
<1>2. PICK del : del = [x \in Entities |-> DeleteEntity(SelectEntity(x, K))]
  OBVIOUS
<1>3. PICK again : again = [x \in Entities |-> InsertEntity(SelectEntity(x, K))]
  OBVIOUS
<1>4. \A x \in Entities : InsertEntity(x) \in Seq(Additions(RowKeys)) /\ DeleteEntity(x) \in Seq(Removals)
  BY AdditionsAdd, EntityInserted, RemovalsRemove, EntityDeleted
<1>5. /\ Gives(ins, Entities, Additions(RowKeys)) /\ Gives(del, Entities, Removals)
      /\ Gives(again, Entities, Additions(RowKeys))
  <2>1. \A x \in Entities : SelectEntity(x, K) \in Entities
    BY SelectEntityIn
  <2> QED BY <1>1, <1>2, <1>3, <1>4, <2>1 DEF Gives
<1>6. Mapped(ins, ns) = Each(ns, InsertEntity)
  <2>1. [i \in DOMAIN ns |-> ins[ns[i]]] = [i \in DOMAIN ns |-> InsertEntity(ns[i])]
    BY <1>1
  <2> QED BY <2>1 DEF Mapped, Each
<1>7. \A x \in Entities : x.key \in Inserted(ins[x])
  BY <1>1, EntityReached
<1>8. Here(ns, K) = ns /\ \A i \in DOMAIN ns : Has(K, ins[ns[i]])
  <2>1. Has(K, Mapped(ins, ns))
    BY <1>6
  <2> QED BY <1>5, <1>7, <2>1, SliceWhole
<1>9. \A i \in DOMAIN ns : Gone(ins[ns[i]], del[ns[i]]) /\ Back(ins[ns[i]], again[ns[i]])
  <2> TAKE i \in DOMAIN ns
  <2>1. PICK x \in Entities : x = ns[i]
    OBVIOUS
  <2>2. ins[x] = InsertEntity(x) /\ del[x] = DeleteEntity(SelectEntity(x, K)) /\ again[x] = InsertEntity(SelectEntity(x, K))
    BY <1>1, <1>2, <1>3
  <2>3. Has(K, InsertEntity(x))
    BY <1>8, <2>1, <2>2
  <2> QED BY <2>1, <2>2, <2>3, EntityReached
<1>10. PICK h : h = Loaded(ns, K, SelectEntity) /\ h = [i \in DOMAIN ns |-> SelectEntity(ns[i], K)]
  BY <1>8 DEF Loaded
<1>11. Mapped(del, ns) = Each(h, DeleteEntity) /\ Mapped(again, ns) = Each(h, InsertEntity)
  <2>1. /\ [i \in DOMAIN ns |-> del[ns[i]]] = [i \in DOMAIN h |-> DeleteEntity(h[i])]
        /\ [i \in DOMAIN ns |-> again[ns[i]]] = [i \in DOMAIN h |-> InsertEntity(h[i])]
    BY <1>2, <1>3, <1>10
  <2> QED BY <2>1 DEF Mapped, Each
<1>12. Gone(Mapped(ins, ns), Mapped(del, ns)) /\ Back(Mapped(ins, ns), Mapped(again, ns))
  BY <1>5, <1>9, SliceReached
<1> QED BY <1>6, <1>10, <1>11, <1>12

LEMMA LocatorReached ==
  ASSUME NEW n \in Locators
  PROVE  /\ n.key \in Inserted(InsertLocator(n))
         /\ \A K : Has(K, InsertLocator(n)) =>
              /\ Gone(InsertLocator(n), DeleteLocator(SelectLocator(n, K)))
              /\ Back(InsertLocator(n), InsertLocator(SelectLocator(n, K)))
<1>1. HasRow(n)
  BY DEF HasRow, Locators, Reached, AllTables
<1>2. PICK t0 \in Seq(Additions(RowKeys)) : t0 = Insert(n) /\ Inserted(t0) = {n.key}
  <2>1. Insert(n) \in Seq(Additions(RowKeys)) /\ Inserted(Insert(n)) = {n.key}
    BY <1>1, InsertFacts
  <2> QED BY <2>1, Zenon
<1>3. PICK a1 \in Seq(Additions(RowKeys)) : a1 = Each(n.Href, Insert)
  <2>1. n.Href \in Seq(AnyLeaves)
    BY AnyLeaf DEF Locators
  <2>2. Each(n.Href, Insert) \in Seq(Additions(RowKeys))
    BY <2>1, AdditionsAdd, EachInserted
  <2> QED BY <2>2, Zenon
<1>4. PICK a2 \in Seq(Additions(RowKeys)) : a2 = Each(n.Thumbprint, Insert)
  <2>1. n.Thumbprint \in Seq(AnyLeaves)
    BY AnyLeaf DEF Locators
  <2>2. Each(n.Thumbprint, Insert) \in Seq(Additions(RowKeys))
    BY <2>1, AdditionsAdd, EachInserted
  <2> QED BY <2>2, Zenon
<1>5. PICK t1 \in Seq(Additions(RowKeys)) : t1 = t0 \o a1 /\ Inserts(t1, t0, a1)
  BY <1>2, <1>3, InsertsBoth
<1>6. PICK t2 \in Seq(Additions(RowKeys)) : t2 = t1 \o a2 /\ Inserts(t2, t1, a2)
  BY <1>5, <1>4, InsertsBoth
<1>7. t2 = InsertLocator(n)
  BY <1>2, <1>3, <1>4, <1>5, <1>6, Zenon DEF InsertLocator
<1>8. n.key \in Inserted(t2)
  BY <1>2, <1>5, <1>6 DEF Inserts
<1>9. \A T : InsertedInto(a1, T) \subseteq InsertedInto(t2, T) /\ InsertedInto(a2, T) \subseteq InsertedInto(t2, T)
  BY <1>5, <1>6 DEF Inserts
<1>10. Inserted(t2) = {n.key} \cup Inserted(a1) \cup Inserted(a2)
  BY <1>2, <1>5, <1>6 DEF Inserts
<1>11. ASSUME NEW K, Has(K, t2)
      PROVE  Gone(t2, DeleteLocator(SelectLocator(n, K))) /\ Back(t2, InsertLocator(SelectLocator(n, K)))
  <2>1. Has(K, a1) /\ Has(K, a2)
    BY <1>11, <1>10 DEF Has
  <2>2. PICK l \in Locators :
          /\ l = SelectLocator(n, K)
          /\ l.key = n.key
          /\ l.tbl = n.tbl
          /\ l.env = n.env
          /\ l.Href = Here(n.Href, K)
          /\ l.Thumbprint = Here(n.Thumbprint, K)
    <3>1. SelectLocator(n, K) \in Locators
      BY SelectLocatorIn
    <3>2. LET m == SelectLocator(n, K) IN m.key = n.key /\ m.tbl = n.tbl /\ m.env = n.env /\ m.Href = Here(n.Href, K) /\ m.Thumbprint = Here(n.Thumbprint, K)
      BY DEF SelectLocator, Locators
    <3> QED BY <3>1, <3>2
  <2>3. PICK d1 \in Seq(Removals), r1 \in Seq(Additions(RowKeys)) :
          /\ d1 = Each(l.Href, Delete) /\ Gone(a1, d1)
          /\ r1 = Each(l.Href, Insert) /\ Back(a1, r1)
    <3>1. l.Href \in Seq(AnyLeaves)
      BY AnyLeaf DEF Locators
    <3>2. Each(l.Href, Insert) \in Seq(Additions(RowKeys))
      BY <3>1, AdditionsAdd, EachInserted
    <3>3. Each(l.Href, Delete) \in Seq(Removals)
      BY <3>1, RemovalsRemove, EachDeleted
    <3>4. n.Href \in Seq(Leaves)
      BY DEF Locators
    <3>5. Has(K, Each(n.Href, Insert))
      BY <2>1, <1>3
    <3>6. Gone(a1, Each(l.Href, Delete)) /\ Back(a1, Each(l.Href, Insert))
      BY <3>4, <3>5, <2>2, <1>3, LeafSliceReached
    <3> QED BY <3>2, <3>3, <3>6
  <2>4. PICK d2 \in Seq(Removals), r2 \in Seq(Additions(RowKeys)) :
          /\ d2 = Each(l.Thumbprint, Delete) /\ Gone(a2, d2)
          /\ r2 = Each(l.Thumbprint, Insert) /\ Back(a2, r2)
    <3>1. l.Thumbprint \in Seq(AnyLeaves)
      BY AnyLeaf DEF Locators
    <3>2. Each(l.Thumbprint, Insert) \in Seq(Additions(RowKeys))
      BY <3>1, AdditionsAdd, EachInserted
    <3>3. Each(l.Thumbprint, Delete) \in Seq(Removals)
      BY <3>1, RemovalsRemove, EachDeleted
    <3>4. n.Thumbprint \in Seq(Leaves)
      BY DEF Locators
    <3>5. Has(K, Each(n.Thumbprint, Insert))
      BY <2>1, <1>4
    <3>6. Gone(a2, Each(l.Thumbprint, Delete)) /\ Back(a2, Each(l.Thumbprint, Insert))
      BY <3>4, <3>5, <2>2, <1>4, LeafSliceReached
    <3> QED BY <3>2, <3>3, <3>6
  <2>5. PICK dn \in Seq(Removals) : dn = Delete(l) /\ Deleted(dn) = {n.key}
    <3>1. l.key \in RowKeys
      BY DEF Locators
    <3>2. Delete(l) \in Seq(Removals) /\ Deleted(Delete(l)) = {l.key}
      BY <3>1, DeleteFacts
    <3> QED BY <3>2, <2>2, Zenon
  <2>6. PICK e1 \in Seq(Removals) : e1 = d1 \o d2 /\ Drops(e1, d1, d2)
    BY <2>3, <2>4, DropsBoth
  <2>7. PICK e2 \in Seq(Removals) : e2 = e1 \o dn /\ Drops(e2, e1, dn)
    BY <2>6, <2>5, DropsBoth
  <2>8. e2 = DeleteLocator(l)
    BY <2>3, <2>4, <2>5, <2>6, <2>7, Zenon DEF DeleteLocator
  <2>9. Deleted(d1) \subseteq Deleted(e2) /\ Deleted(d2) \subseteq Deleted(e2) /\ Deleted(dn) \subseteq Deleted(e2)
    BY <2>6, <2>7 DEF Drops
  <2>10. Insert(l) = Insert(n)
    BY <2>2 DEF Insert
  <2>11. PICK u1 \in Seq(Additions(RowKeys)) : u1 = t0 \o r1 /\ Inserts(u1, t0, r1)
    BY <1>2, <2>3, InsertsBoth
  <2>12. PICK u2 \in Seq(Additions(RowKeys)) : u2 = u1 \o r2 /\ Inserts(u2, u1, r2)
    BY <2>11, <2>4, InsertsBoth
  <2>13. u2 = InsertLocator(l)
    BY <1>2, <2>10, <2>3, <2>4, <2>11, <2>12, Zenon DEF InsertLocator
  <2>14. n.key \in Inserted(u2) /\ Inserted(r1) \subseteq Inserted(u2) /\ Inserted(r2) \subseteq Inserted(u2)
    BY <1>2, <2>11, <2>12 DEF Inserts
  <2>15. Gone(t2, e2)
    BY <2>5, <1>9, <1>10, <2>3, <2>4, <2>9 DEF Gone
  <2>16. Back(t2, u2)
    BY <1>9, <1>10, <2>3, <2>4, <2>14 DEF Back
  <2> QED BY <2>2, <2>8, <2>13, <2>15, <2>16
<1> QED BY <1>7, <1>8, <1>11

LEMMA LocatorSliceReached ==
  ASSUME NEW ns \in Seq(Locators), NEW K, Has(K, Each(ns, InsertLocator))
  PROVE  LET here == Loaded(ns, K, SelectLocator)
         IN Gone(Each(ns, InsertLocator), Each(here, DeleteLocator)) /\ Back(Each(ns, InsertLocator), Each(here, InsertLocator))
<1>1. PICK ins : ins = [x \in Locators |-> InsertLocator(x)]
  OBVIOUS
<1>2. PICK del : del = [x \in Locators |-> DeleteLocator(SelectLocator(x, K))]
  OBVIOUS
<1>3. PICK again : again = [x \in Locators |-> InsertLocator(SelectLocator(x, K))]
  OBVIOUS
<1>4. \A x \in Locators : InsertLocator(x) \in Seq(Additions(RowKeys)) /\ DeleteLocator(x) \in Seq(Removals)
  BY AdditionsAdd, LocatorInserted, RemovalsRemove, LocatorDeleted
<1>5. /\ Gives(ins, Locators, Additions(RowKeys)) /\ Gives(del, Locators, Removals)
      /\ Gives(again, Locators, Additions(RowKeys))
  <2>1. \A x \in Locators : SelectLocator(x, K) \in Locators
    BY SelectLocatorIn
  <2> QED BY <1>1, <1>2, <1>3, <1>4, <2>1 DEF Gives
<1>6. Mapped(ins, ns) = Each(ns, InsertLocator)
  <2>1. [i \in DOMAIN ns |-> ins[ns[i]]] = [i \in DOMAIN ns |-> InsertLocator(ns[i])]
    BY <1>1
  <2> QED BY <2>1 DEF Mapped, Each
<1>7. \A x \in Locators : x.key \in Inserted(ins[x])
  BY <1>1, LocatorReached
<1>8. Here(ns, K) = ns /\ \A i \in DOMAIN ns : Has(K, ins[ns[i]])
  <2>1. Has(K, Mapped(ins, ns))
    BY <1>6
  <2> QED BY <1>5, <1>7, <2>1, SliceWhole
<1>9. \A i \in DOMAIN ns : Gone(ins[ns[i]], del[ns[i]]) /\ Back(ins[ns[i]], again[ns[i]])
  <2> TAKE i \in DOMAIN ns
  <2>1. PICK x \in Locators : x = ns[i]
    OBVIOUS
  <2>2. ins[x] = InsertLocator(x) /\ del[x] = DeleteLocator(SelectLocator(x, K)) /\ again[x] = InsertLocator(SelectLocator(x, K))
    BY <1>1, <1>2, <1>3
  <2>3. Has(K, InsertLocator(x))
    BY <1>8, <2>1, <2>2
  <2> QED BY <2>1, <2>2, <2>3, LocatorReached
<1>10. PICK h : h = Loaded(ns, K, SelectLocator) /\ h = [i \in DOMAIN ns |-> SelectLocator(ns[i], K)]
  BY <1>8 DEF Loaded
<1>11. Mapped(del, ns) = Each(h, DeleteLocator) /\ Mapped(again, ns) = Each(h, InsertLocator)
  <2>1. /\ [i \in DOMAIN ns |-> del[ns[i]]] = [i \in DOMAIN h |-> DeleteLocator(h[i])]
        /\ [i \in DOMAIN ns |-> again[ns[i]]] = [i \in DOMAIN h |-> InsertLocator(h[i])]
    BY <1>2, <1>3, <1>10
  <2> QED BY <2>1 DEF Mapped, Each
<1>12. Gone(Mapped(ins, ns), Mapped(del, ns)) /\ Back(Mapped(ins, ns), Mapped(again, ns))
  BY <1>5, <1>9, SliceReached
<1> QED BY <1>6, <1>10, <1>11, <1>12

LEMMA IntegrityRegisterReached ==
  ASSUME NEW n \in IntegrityRegisters
  PROVE  /\ n.key \in Inserted(InsertIntegrityRegister(n))
         /\ \A K : Has(K, InsertIntegrityRegister(n)) =>
              /\ Gone(InsertIntegrityRegister(n), DeleteIntegrityRegister(SelectIntegrityRegister(n, K)))
              /\ Back(InsertIntegrityRegister(n), InsertIntegrityRegister(SelectIntegrityRegister(n, K)))
<1>1. HasRow(n)
  BY DEF HasRow, IntegrityRegisters, Reached, AllTables
<1>2. PICK t0 \in Seq(Additions(RowKeys)) : t0 = Insert(n) /\ Inserted(t0) = {n.key}
  <2>1. Insert(n) \in Seq(Additions(RowKeys)) /\ Inserted(Insert(n)) = {n.key}
    BY <1>1, InsertFacts
  <2> QED BY <2>1, Zenon
<1>3. PICK a1 \in Seq(Additions(RowKeys)) : a1 = Each(n.Digests, Insert)
  <2>1. n.Digests \in Seq(AnyLeaves)
    BY AnyLeaf DEF IntegrityRegisters
  <2>2. Each(n.Digests, Insert) \in Seq(Additions(RowKeys))
    BY <2>1, AdditionsAdd, EachInserted
  <2> QED BY <2>2, Zenon
<1>4. PICK t1 \in Seq(Additions(RowKeys)) : t1 = t0 \o a1 /\ Inserts(t1, t0, a1)
  BY <1>2, <1>3, InsertsBoth
<1>5. t1 = InsertIntegrityRegister(n)
  BY <1>2, <1>3, <1>4, Zenon DEF InsertIntegrityRegister
<1>6. n.key \in Inserted(t1)
  BY <1>2, <1>4 DEF Inserts
<1>7. \A T : InsertedInto(a1, T) \subseteq InsertedInto(t1, T)
  BY <1>4 DEF Inserts
<1>8. Inserted(t1) = {n.key} \cup Inserted(a1)
  BY <1>2, <1>4 DEF Inserts
<1>9. ASSUME NEW K, Has(K, t1)
      PROVE  Gone(t1, DeleteIntegrityRegister(SelectIntegrityRegister(n, K))) /\ Back(t1, InsertIntegrityRegister(SelectIntegrityRegister(n, K)))
  <2>1. Has(K, a1)
    BY <1>9, <1>8 DEF Has
  <2>2. PICK l \in IntegrityRegisters :
          /\ l = SelectIntegrityRegister(n, K)
          /\ l.key = n.key
          /\ l.tbl = n.tbl
          /\ l.env = n.env
          /\ l.Digests = Here(n.Digests, K)
    <3>1. SelectIntegrityRegister(n, K) \in IntegrityRegisters
      BY SelectIntegrityRegisterIn
    <3>2. LET m == SelectIntegrityRegister(n, K) IN m.key = n.key /\ m.tbl = n.tbl /\ m.env = n.env /\ m.Digests = Here(n.Digests, K)
      BY DEF SelectIntegrityRegister, IntegrityRegisters
    <3> QED BY <3>1, <3>2
  <2>3. PICK d1 \in Seq(Removals), r1 \in Seq(Additions(RowKeys)) :
          /\ d1 = Each(l.Digests, Delete) /\ Gone(a1, d1)
          /\ r1 = Each(l.Digests, Insert) /\ Back(a1, r1)
    <3>1. l.Digests \in Seq(AnyLeaves)
      BY AnyLeaf DEF IntegrityRegisters
    <3>2. Each(l.Digests, Insert) \in Seq(Additions(RowKeys))
      BY <3>1, AdditionsAdd, EachInserted
    <3>3. Each(l.Digests, Delete) \in Seq(Removals)
      BY <3>1, RemovalsRemove, EachDeleted
    <3>4. n.Digests \in Seq(Leaves)
      BY DEF IntegrityRegisters
    <3>5. Has(K, Each(n.Digests, Insert))
      BY <2>1, <1>3
    <3>6. Gone(a1, Each(l.Digests, Delete)) /\ Back(a1, Each(l.Digests, Insert))
      BY <3>4, <3>5, <2>2, <1>3, LeafSliceReached
    <3> QED BY <3>2, <3>3, <3>6
  <2>4. PICK dn \in Seq(Removals) : dn = Delete(l) /\ Deleted(dn) = {n.key}
    <3>1. l.key \in RowKeys
      BY DEF IntegrityRegisters
    <3>2. Delete(l) \in Seq(Removals) /\ Deleted(Delete(l)) = {l.key}
      BY <3>1, DeleteFacts
    <3> QED BY <3>2, <2>2, Zenon
  <2>5. PICK e1 \in Seq(Removals) : e1 = d1 \o dn /\ Drops(e1, d1, dn)
    BY <2>3, <2>4, DropsBoth
  <2>6. e1 = DeleteIntegrityRegister(l)
    BY <2>3, <2>4, <2>5, Zenon DEF DeleteIntegrityRegister
  <2>7. Deleted(d1) \subseteq Deleted(e1) /\ Deleted(dn) \subseteq Deleted(e1)
    BY <2>5 DEF Drops
  <2>8. Insert(l) = Insert(n)
    BY <2>2 DEF Insert
  <2>9. PICK u1 \in Seq(Additions(RowKeys)) : u1 = t0 \o r1 /\ Inserts(u1, t0, r1)
    BY <1>2, <2>3, InsertsBoth
  <2>10. u1 = InsertIntegrityRegister(l)
    BY <1>2, <2>8, <2>3, <2>9, Zenon DEF InsertIntegrityRegister
  <2>11. n.key \in Inserted(u1) /\ Inserted(r1) \subseteq Inserted(u1)
    BY <1>2, <2>9 DEF Inserts
  <2>12. Gone(t1, e1)
    BY <2>4, <1>7, <1>8, <2>3, <2>7 DEF Gone
  <2>13. Back(t1, u1)
    BY <1>7, <1>8, <2>3, <2>11 DEF Back
  <2> QED BY <2>2, <2>6, <2>10, <2>12, <2>13
<1> QED BY <1>5, <1>6, <1>9

LEMMA IntegrityRegisterSliceReached ==
  ASSUME NEW ns \in Seq(IntegrityRegisters), NEW K, Has(K, Each(ns, InsertIntegrityRegister))
  PROVE  LET here == Loaded(ns, K, SelectIntegrityRegister)
         IN Gone(Each(ns, InsertIntegrityRegister), Each(here, DeleteIntegrityRegister)) /\ Back(Each(ns, InsertIntegrityRegister), Each(here, InsertIntegrityRegister))
<1>1. PICK ins : ins = [x \in IntegrityRegisters |-> InsertIntegrityRegister(x)]
  OBVIOUS
<1>2. PICK del : del = [x \in IntegrityRegisters |-> DeleteIntegrityRegister(SelectIntegrityRegister(x, K))]
  OBVIOUS
<1>3. PICK again : again = [x \in IntegrityRegisters |-> InsertIntegrityRegister(SelectIntegrityRegister(x, K))]
  OBVIOUS
<1>4. \A x \in IntegrityRegisters : InsertIntegrityRegister(x) \in Seq(Additions(RowKeys)) /\ DeleteIntegrityRegister(x) \in Seq(Removals)
  BY AdditionsAdd, IntegrityRegisterInserted, RemovalsRemove, IntegrityRegisterDeleted
<1>5. /\ Gives(ins, IntegrityRegisters, Additions(RowKeys)) /\ Gives(del, IntegrityRegisters, Removals)
      /\ Gives(again, IntegrityRegisters, Additions(RowKeys))
  <2>1. \A x \in IntegrityRegisters : SelectIntegrityRegister(x, K) \in IntegrityRegisters
    BY SelectIntegrityRegisterIn
  <2> QED BY <1>1, <1>2, <1>3, <1>4, <2>1 DEF Gives
<1>6. Mapped(ins, ns) = Each(ns, InsertIntegrityRegister)
  <2>1. [i \in DOMAIN ns |-> ins[ns[i]]] = [i \in DOMAIN ns |-> InsertIntegrityRegister(ns[i])]
    BY <1>1
  <2> QED BY <2>1 DEF Mapped, Each
<1>7. \A x \in IntegrityRegisters : x.key \in Inserted(ins[x])
  BY <1>1, IntegrityRegisterReached
<1>8. Here(ns, K) = ns /\ \A i \in DOMAIN ns : Has(K, ins[ns[i]])
  <2>1. Has(K, Mapped(ins, ns))
    BY <1>6
  <2> QED BY <1>5, <1>7, <2>1, SliceWhole
<1>9. \A i \in DOMAIN ns : Gone(ins[ns[i]], del[ns[i]]) /\ Back(ins[ns[i]], again[ns[i]])
  <2> TAKE i \in DOMAIN ns
  <2>1. PICK x \in IntegrityRegisters : x = ns[i]
    OBVIOUS
  <2>2. ins[x] = InsertIntegrityRegister(x) /\ del[x] = DeleteIntegrityRegister(SelectIntegrityRegister(x, K)) /\ again[x] = InsertIntegrityRegister(SelectIntegrityRegister(x, K))
    BY <1>1, <1>2, <1>3
  <2>3. Has(K, InsertIntegrityRegister(x))
    BY <1>8, <2>1, <2>2
  <2> QED BY <2>1, <2>2, <2>3, IntegrityRegisterReached
<1>10. PICK h : h = Loaded(ns, K, SelectIntegrityRegister) /\ h = [i \in DOMAIN ns |-> SelectIntegrityRegister(ns[i], K)]
  BY <1>8 DEF Loaded
<1>11. Mapped(del, ns) = Each(h, DeleteIntegrityRegister) /\ Mapped(again, ns) = Each(h, InsertIntegrityRegister)
  <2>1. /\ [i \in DOMAIN ns |-> del[ns[i]]] = [i \in DOMAIN h |-> DeleteIntegrityRegister(h[i])]
        /\ [i \in DOMAIN ns |-> again[ns[i]]] = [i \in DOMAIN h |-> InsertIntegrityRegister(h[i])]
    BY <1>2, <1>3, <1>10
  <2> QED BY <2>1 DEF Mapped, Each
<1>12. Gone(Mapped(ins, ns), Mapped(del, ns)) /\ Back(Mapped(ins, ns), Mapped(again, ns))
  BY <1>5, <1>9, SliceReached
<1> QED BY <1>6, <1>10, <1>11, <1>12

LEMMA MeasurementReached ==
  ASSUME NEW n \in Measurements
  PROVE  /\ n.key \in Inserted(InsertMeasurement(n))
         /\ \A K : Has(K, InsertMeasurement(n)) =>
              /\ Gone(InsertMeasurement(n), DeleteMeasurement(SelectMeasurement(n, K)))
              /\ Back(InsertMeasurement(n), InsertMeasurement(SelectMeasurement(n, K)))
<1>1. HasRow(n)
  BY DEF HasRow, Measurements, Reached, AllTables
<1>2. PICK t0 \in Seq(Additions(RowKeys)) : t0 = Insert(n) /\ Inserted(t0) = {n.key}
  <2>1. Insert(n) \in Seq(Additions(RowKeys)) /\ Inserted(Insert(n)) = {n.key}
    BY <1>1, InsertFacts
  <2> QED BY <2>1, Zenon
<1>3. PICK a1 \in Seq(Additions(RowKeys)) : a1 = Each(n.ValueEntries, Insert)
  <2>1. n.ValueEntries \in Seq(AnyLeaves)
    BY AnyLeaf DEF Measurements
  <2>2. Each(n.ValueEntries, Insert) \in Seq(Additions(RowKeys))
    BY <2>1, AdditionsAdd, EachInserted
  <2> QED BY <2>2, Zenon
<1>4. PICK a2 \in Seq(Additions(RowKeys)) : a2 = Each(n.Digests, Insert)
  <2>1. n.Digests \in Seq(AnyLeaves)
    BY AnyLeaf DEF Measurements
  <2>2. Each(n.Digests, Insert) \in Seq(Additions(RowKeys))
    BY <2>1, AdditionsAdd, EachInserted
  <2> QED BY <2>2, Zenon
<1>5. PICK a3 \in Seq(Additions(RowKeys)) : a3 = Each(n.Flags, Insert)
  <2>1. n.Flags \in Seq(AnyLeaves)
    BY AnyLeaf DEF Measurements
  <2>2. Each(n.Flags, Insert) \in Seq(Additions(RowKeys))
    BY <2>1, AdditionsAdd, EachInserted
  <2> QED BY <2>2, Zenon
<1>6. PICK a4 \in Seq(Additions(RowKeys)) : a4 = Each(n.IntegrityRegisters, InsertIntegrityRegister)
  <2>1. n.IntegrityRegisters \in Seq(IntegrityRegisters)
    BY DEF Measurements
  <2>2. Each(n.IntegrityRegisters, InsertIntegrityRegister) \in Seq(Additions(RowKeys))
    BY <2>1, AdditionsAdd, EachIntegrityRegisterInserted
  <2> QED BY <2>2, Zenon
<1>7. PICK a5 \in Seq(Additions(RowKeys)) : a5 = Each(n.Extensions, Insert)
  <2>1. n.Extensions \in Seq(AnyLeaves)
    BY AnyLeaf DEF Measurements
  <2>2. Each(n.Extensions, Insert) \in Seq(Additions(RowKeys))
    BY <2>1, AdditionsAdd, EachInserted
  <2> QED BY <2>2, Zenon
<1>8. PICK a6 \in Seq(Additions(RowKeys)) : a6 = Each(n.CryptoKeys, Insert)
  <2>1. n.CryptoKeys \in Seq(AnyLeaves)
    BY AnyLeaf DEF Measurements
  <2>2. Each(n.CryptoKeys, Insert) \in Seq(Additions(RowKeys))
    BY <2>1, AdditionsAdd, EachInserted
  <2> QED BY <2>2, Zenon
<1>9. PICK a7 \in Seq(Additions(RowKeys)) : a7 = Each(n.AuthorizedBy, Insert)
  <2>1. n.AuthorizedBy \in Seq(AnyLeaves)
    BY AnyLeaf DEF Measurements
  <2>2. Each(n.AuthorizedBy, Insert) \in Seq(Additions(RowKeys))
    BY <2>1, AdditionsAdd, EachInserted
  <2> QED BY <2>2, Zenon
<1>10. PICK t1 \in Seq(Additions(RowKeys)) : t1 = t0 \o a1 /\ Inserts(t1, t0, a1)
  BY <1>2, <1>3, InsertsBoth
<1>11. PICK t2 \in Seq(Additions(RowKeys)) : t2 = t1 \o a2 /\ Inserts(t2, t1, a2)
  BY <1>10, <1>4, InsertsBoth
<1>12. PICK t3 \in Seq(Additions(RowKeys)) : t3 = t2 \o a3 /\ Inserts(t3, t2, a3)
  BY <1>11, <1>5, InsertsBoth
<1>13. PICK t4 \in Seq(Additions(RowKeys)) : t4 = t3 \o a4 /\ Inserts(t4, t3, a4)
  BY <1>12, <1>6, InsertsBoth
<1>14. PICK t5 \in Seq(Additions(RowKeys)) : t5 = t4 \o a5 /\ Inserts(t5, t4, a5)
  BY <1>13, <1>7, InsertsBoth
<1>15. PICK t6 \in Seq(Additions(RowKeys)) : t6 = t5 \o a6 /\ Inserts(t6, t5, a6)
  BY <1>14, <1>8, InsertsBoth
<1>16. PICK t7 \in Seq(Additions(RowKeys)) : t7 = t6 \o a7 /\ Inserts(t7, t6, a7)
  BY <1>15, <1>9, InsertsBoth
<1>17. t7 = InsertMeasurement(n)
  BY <1>2, <1>3, <1>4, <1>5, <1>6, <1>7, <1>8, <1>9, <1>10, <1>11, <1>12, <1>13, <1>14, <1>15, <1>16, Zenon DEF InsertMeasurement
<1>18. n.key \in Inserted(t7)
  BY <1>2, <1>10, <1>11, <1>12, <1>13, <1>14, <1>15, <1>16 DEF Inserts
<1>19. \A T : InsertedInto(a1, T) \subseteq InsertedInto(t7, T) /\ InsertedInto(a2, T) \subseteq InsertedInto(t7, T) /\ InsertedInto(a3, T) \subseteq InsertedInto(t7, T) /\ InsertedInto(a4, T) \subseteq InsertedInto(t7, T) /\ InsertedInto(a5, T) \subseteq InsertedInto(t7, T) /\ InsertedInto(a6, T) \subseteq InsertedInto(t7, T) /\ InsertedInto(a7, T) \subseteq InsertedInto(t7, T)
  BY <1>10, <1>11, <1>12, <1>13, <1>14, <1>15, <1>16 DEF Inserts
<1>20. Inserted(t7) = {n.key} \cup Inserted(a1) \cup Inserted(a2) \cup Inserted(a3) \cup Inserted(a4) \cup Inserted(a5) \cup Inserted(a6) \cup Inserted(a7)
  BY <1>2, <1>10, <1>11, <1>12, <1>13, <1>14, <1>15, <1>16 DEF Inserts
<1>21. ASSUME NEW K, Has(K, t7)
      PROVE  Gone(t7, DeleteMeasurement(SelectMeasurement(n, K))) /\ Back(t7, InsertMeasurement(SelectMeasurement(n, K)))
  <2>1. Has(K, a1) /\ Has(K, a2) /\ Has(K, a3) /\ Has(K, a4) /\ Has(K, a5) /\ Has(K, a6) /\ Has(K, a7)
    BY <1>21, <1>20 DEF Has
  <2>2. PICK l \in Measurements :
          /\ l = SelectMeasurement(n, K)
          /\ l.key = n.key
          /\ l.tbl = n.tbl
          /\ l.env = n.env
          /\ l.ValueEntries = Here(n.ValueEntries, K)
          /\ l.Digests = Here(n.Digests, K)
          /\ l.Flags = Here(n.Flags, K)
          /\ l.IntegrityRegisters = Loaded(n.IntegrityRegisters, K, SelectIntegrityRegister)
          /\ l.Extensions = Here(n.Extensions, K)
          /\ l.CryptoKeys = <<>>
          /\ l.AuthorizedBy = Here(n.AuthorizedBy, K)
    <3>1. SelectMeasurement(n, K) \in Measurements
      BY SelectMeasurementIn
    <3>2. LET m == SelectMeasurement(n, K) IN m.key = n.key /\ m.tbl = n.tbl /\ m.env = n.env /\ m.ValueEntries = Here(n.ValueEntries, K) /\ m.Digests = Here(n.Digests, K) /\ m.Flags = Here(n.Flags, K) /\ m.IntegrityRegisters = Loaded(n.IntegrityRegisters, K, SelectIntegrityRegister) /\ m.Extensions = Here(n.Extensions, K) /\ m.CryptoKeys = <<>> /\ m.AuthorizedBy = Here(n.AuthorizedBy, K)
      BY DEF SelectMeasurement, Measurements
    <3> QED BY <3>1, <3>2
  <2>3. PICK d1 \in Seq(Removals), r1 \in Seq(Additions(RowKeys)) :
          /\ d1 = Each(l.ValueEntries, Delete) /\ Gone(a1, d1)
          /\ r1 = Each(l.ValueEntries, Insert) /\ Back(a1, r1)
    <3>1. l.ValueEntries \in Seq(AnyLeaves)
      BY AnyLeaf DEF Measurements
    <3>2. Each(l.ValueEntries, Insert) \in Seq(Additions(RowKeys))
      BY <3>1, AdditionsAdd, EachInserted
    <3>3. Each(l.ValueEntries, Delete) \in Seq(Removals)
      BY <3>1, RemovalsRemove, EachDeleted
    <3>4. n.ValueEntries \in Seq(Leaves)
      BY DEF Measurements
    <3>5. Has(K, Each(n.ValueEntries, Insert))
      BY <2>1, <1>3
    <3>6. Gone(a1, Each(l.ValueEntries, Delete)) /\ Back(a1, Each(l.ValueEntries, Insert))
      BY <3>4, <3>5, <2>2, <1>3, LeafSliceReached
    <3> QED BY <3>2, <3>3, <3>6
  <2>4. PICK d2 \in Seq(Removals), r2 \in Seq(Additions(RowKeys)) :
          /\ d2 = Each(l.Digests, Delete) /\ Gone(a2, d2)
          /\ r2 = Each(l.Digests, Insert) /\ Back(a2, r2)
    <3>1. l.Digests \in Seq(AnyLeaves)
      BY AnyLeaf DEF Measurements
    <3>2. Each(l.Digests, Insert) \in Seq(Additions(RowKeys))
      BY <3>1, AdditionsAdd, EachInserted
    <3>3. Each(l.Digests, Delete) \in Seq(Removals)
      BY <3>1, RemovalsRemove, EachDeleted
    <3>4. n.Digests \in Seq(Leaves)
      BY DEF Measurements
    <3>5. Has(K, Each(n.Digests, Insert))
      BY <2>1, <1>4
    <3>6. Gone(a2, Each(l.Digests, Delete)) /\ Back(a2, Each(l.Digests, Insert))
      BY <3>4, <3>5, <2>2, <1>4, LeafSliceReached
    <3> QED BY <3>2, <3>3, <3>6
  <2>5. PICK d3 \in Seq(Removals), r3 \in Seq(Additions(RowKeys)) :
          /\ d3 = Each(l.Flags, Delete) /\ Gone(a3, d3)
          /\ r3 = Each(l.Flags, Insert) /\ Back(a3, r3)
    <3>1. l.Flags \in Seq(AnyLeaves)
      BY AnyLeaf DEF Measurements
    <3>2. Each(l.Flags, Insert) \in Seq(Additions(RowKeys))
      BY <3>1, AdditionsAdd, EachInserted
    <3>3. Each(l.Flags, Delete) \in Seq(Removals)
      BY <3>1, RemovalsRemove, EachDeleted
    <3>4. n.Flags \in Seq(Leaves)
      BY DEF Measurements
    <3>5. Has(K, Each(n.Flags, Insert))
      BY <2>1, <1>5
    <3>6. Gone(a3, Each(l.Flags, Delete)) /\ Back(a3, Each(l.Flags, Insert))
      BY <3>4, <3>5, <2>2, <1>5, LeafSliceReached
    <3> QED BY <3>2, <3>3, <3>6
  <2>6. PICK d4 \in Seq(Removals), r4 \in Seq(Additions(RowKeys)) :
          /\ d4 = Each(l.IntegrityRegisters, DeleteIntegrityRegister) /\ Gone(a4, d4)
          /\ r4 = Each(l.IntegrityRegisters, InsertIntegrityRegister) /\ Back(a4, r4)
    <3>1. l.IntegrityRegisters \in Seq(IntegrityRegisters)
      BY DEF Measurements
    <3>2. Each(l.IntegrityRegisters, InsertIntegrityRegister) \in Seq(Additions(RowKeys))
      BY <3>1, AdditionsAdd, EachIntegrityRegisterInserted
    <3>3. Each(l.IntegrityRegisters, DeleteIntegrityRegister) \in Seq(Removals)
      BY <3>1, RemovalsRemove, EachIntegrityRegisterDeleted
    <3>4. n.IntegrityRegisters \in Seq(IntegrityRegisters)
      BY DEF Measurements
    <3>5. Has(K, Each(n.IntegrityRegisters, InsertIntegrityRegister))
      BY <2>1, <1>6
    <3>6. Gone(a4, Each(l.IntegrityRegisters, DeleteIntegrityRegister)) /\ Back(a4, Each(l.IntegrityRegisters, InsertIntegrityRegister))
      BY <3>4, <3>5, <2>2, <1>6, IntegrityRegisterSliceReached
    <3> QED BY <3>2, <3>3, <3>6
  <2>7. PICK d5 \in Seq(Removals), r5 \in Seq(Additions(RowKeys)) :
          /\ d5 = Each(l.Extensions, Delete) /\ Gone(a5, d5)
          /\ r5 = Each(l.Extensions, Insert) /\ Back(a5, r5)
    <3>1. l.Extensions \in Seq(AnyLeaves)
      BY AnyLeaf DEF Measurements
    <3>2. Each(l.Extensions, Insert) \in Seq(Additions(RowKeys))
      BY <3>1, AdditionsAdd, EachInserted
    <3>3. Each(l.Extensions, Delete) \in Seq(Removals)
      BY <3>1, RemovalsRemove, EachDeleted
    <3>4. n.Extensions \in Seq(Leaves)
      BY DEF Measurements
    <3>5. Has(K, Each(n.Extensions, Insert))
      BY <2>1, <1>7
    <3>6. Gone(a5, Each(l.Extensions, Delete)) /\ Back(a5, Each(l.Extensions, Insert))
      BY <3>4, <3>5, <2>2, <1>7, LeafSliceReached
    <3> QED BY <3>2, <3>3, <3>6
  <2>8. PICK d6 \in Seq(Removals), r6 \in Seq(Additions(RowKeys)) :
          /\ d6 = Each(l.CryptoKeys, Delete) /\ Gone(a6, d6)
          /\ r6 = Each(l.CryptoKeys, Insert) /\ Back(a6, r6)
    <3>1. l.CryptoKeys \in Seq(AnyLeaves)
      BY AnyLeaf DEF Measurements
    <3>2. Each(l.CryptoKeys, Insert) \in Seq(Additions(RowKeys))
      BY <3>1, AdditionsAdd, EachInserted
    <3>3. Each(l.CryptoKeys, Delete) \in Seq(Removals)
      BY <3>1, RemovalsRemove, EachDeleted
    <3>4. Inserted(a6) \subseteq InsertedInto(a6, {"cryptokeys/measurement"})
      <4>1. n.CryptoKeys \in Seq(LeavesIn({"cryptokeys/measurement"})) /\ {"cryptokeys/measurement"} \in SUBSET AllTables
        BY DEF Measurements, AllTables, Forgotten
      <4> QED BY <4>1, <1>8, SliceInto
    <3>5. Inserted(a6) \subseteq InsertedInto(a6, Forgotten) /\ Inserted(a6) \subseteq InsertedInto(a6, NotLoaded)
      BY <3>4 DEF InsertedInto, Forgotten, NotLoaded
    <3> QED BY <3>2, <3>3, <3>5 DEF Gone, Back
  <2>9. PICK d7 \in Seq(Removals), r7 \in Seq(Additions(RowKeys)) :
          /\ d7 = Each(l.AuthorizedBy, Delete) /\ Gone(a7, d7)
          /\ r7 = Each(l.AuthorizedBy, Insert) /\ Back(a7, r7)
    <3>1. l.AuthorizedBy \in Seq(AnyLeaves)
      BY AnyLeaf DEF Measurements
    <3>2. Each(l.AuthorizedBy, Insert) \in Seq(Additions(RowKeys))
      BY <3>1, AdditionsAdd, EachInserted
    <3>3. Each(l.AuthorizedBy, Delete) \in Seq(Removals)
      BY <3>1, RemovalsRemove, EachDeleted
    <3>4. n.AuthorizedBy \in Seq(Leaves)
      BY DEF Measurements
    <3>5. Has(K, Each(n.AuthorizedBy, Insert))
      BY <2>1, <1>9
    <3>6. Gone(a7, Each(l.AuthorizedBy, Delete)) /\ Back(a7, Each(l.AuthorizedBy, Insert))
      BY <3>4, <3>5, <2>2, <1>9, LeafSliceReached
    <3> QED BY <3>2, <3>3, <3>6
  <2>10. PICK dn \in Seq(Removals) : dn = Delete(l) /\ Deleted(dn) = {n.key}
    <3>1. l.key \in RowKeys
      BY DEF Measurements
    <3>2. Delete(l) \in Seq(Removals) /\ Deleted(Delete(l)) = {l.key}
      BY <3>1, DeleteFacts
    <3> QED BY <3>2, <2>2, Zenon
  <2>11. PICK e1 \in Seq(Removals) : e1 = d7 \o d6 /\ Drops(e1, d7, d6)
    BY <2>9, <2>8, DropsBoth
  <2>12. PICK e2 \in Seq(Removals) : e2 = e1 \o d2 /\ Drops(e2, e1, d2)
    BY <2>11, <2>4, DropsBoth
  <2>13. PICK e3 \in Seq(Removals) : e3 = e2 \o d3 /\ Drops(e3, e2, d3)
    BY <2>12, <2>5, DropsBoth
  <2>14. PICK e4 \in Seq(Removals) : e4 = e3 \o d4 /\ Drops(e4, e3, d4)
    BY <2>13, <2>6, DropsBoth
  <2>15. PICK e5 \in Seq(Removals) : e5 = e4 \o d1 /\ Drops(e5, e4, d1)
    BY <2>14, <2>3, DropsBoth
  <2>16. PICK e6 \in Seq(Removals) : e6 = e5 \o d5 /\ Drops(e6, e5, d5)
    BY <2>15, <2>7, DropsBoth
  <2>17. PICK e7 \in Seq(Removals) : e7 = e6 \o dn /\ Drops(e7, e6, dn)
    BY <2>16, <2>10, DropsBoth
  <2>18. e7 = DeleteMeasurement(l)
    BY <2>3, <2>4, <2>5, <2>6, <2>7, <2>8, <2>9, <2>10, <2>11, <2>12, <2>13, <2>14, <2>15, <2>16, <2>17, Zenon DEF DeleteMeasurement
  <2>19. Deleted(d7) \subseteq Deleted(e7) /\ Deleted(d6) \subseteq Deleted(e7) /\ Deleted(d2) \subseteq Deleted(e7) /\ Deleted(d3) \subseteq Deleted(e7) /\ Deleted(d4) \subseteq Deleted(e7) /\ Deleted(d1) \subseteq Deleted(e7) /\ Deleted(d5) \subseteq Deleted(e7) /\ Deleted(dn) \subseteq Deleted(e7)
    BY <2>11, <2>12, <2>13, <2>14, <2>15, <2>16, <2>17 DEF Drops
  <2>20. Insert(l) = Insert(n)
    BY <2>2 DEF Insert
  <2>21. PICK u1 \in Seq(Additions(RowKeys)) : u1 = t0 \o r1 /\ Inserts(u1, t0, r1)
    BY <1>2, <2>3, InsertsBoth
  <2>22. PICK u2 \in Seq(Additions(RowKeys)) : u2 = u1 \o r2 /\ Inserts(u2, u1, r2)
    BY <2>21, <2>4, InsertsBoth
  <2>23. PICK u3 \in Seq(Additions(RowKeys)) : u3 = u2 \o r3 /\ Inserts(u3, u2, r3)
    BY <2>22, <2>5, InsertsBoth
  <2>24. PICK u4 \in Seq(Additions(RowKeys)) : u4 = u3 \o r4 /\ Inserts(u4, u3, r4)
    BY <2>23, <2>6, InsertsBoth
  <2>25. PICK u5 \in Seq(Additions(RowKeys)) : u5 = u4 \o r5 /\ Inserts(u5, u4, r5)
    BY <2>24, <2>7, InsertsBoth
  <2>26. PICK u6 \in Seq(Additions(RowKeys)) : u6 = u5 \o r6 /\ Inserts(u6, u5, r6)
    BY <2>25, <2>8, InsertsBoth
  <2>27. PICK u7 \in Seq(Additions(RowKeys)) : u7 = u6 \o r7 /\ Inserts(u7, u6, r7)
    BY <2>26, <2>9, InsertsBoth
  <2>28. u7 = InsertMeasurement(l)
    BY <1>2, <2>20, <2>3, <2>4, <2>5, <2>6, <2>7, <2>8, <2>9, <2>21, <2>22, <2>23, <2>24, <2>25, <2>26, <2>27, Zenon DEF InsertMeasurement
  <2>29. n.key \in Inserted(u7) /\ Inserted(r1) \subseteq Inserted(u7) /\ Inserted(r2) \subseteq Inserted(u7) /\ Inserted(r3) \subseteq Inserted(u7) /\ Inserted(r4) \subseteq Inserted(u7) /\ Inserted(r5) \subseteq Inserted(u7) /\ Inserted(r6) \subseteq Inserted(u7) /\ Inserted(r7) \subseteq Inserted(u7)
    BY <1>2, <2>21, <2>22, <2>23, <2>24, <2>25, <2>26, <2>27 DEF Inserts
  <2>30. Gone(t7, e7)
    BY <2>10, <1>19, <1>20, <2>3, <2>4, <2>5, <2>6, <2>7, <2>8, <2>9, <2>19 DEF Gone
  <2>31. Back(t7, u7)
    BY <1>19, <1>20, <2>3, <2>4, <2>5, <2>6, <2>7, <2>8, <2>9, <2>29 DEF Back
  <2> QED BY <2>2, <2>18, <2>28, <2>30, <2>31
<1> QED BY <1>17, <1>18, <1>21

LEMMA MeasurementSliceReached ==
  ASSUME NEW ns \in Seq(Measurements), NEW K, Has(K, Each(ns, InsertMeasurement))
  PROVE  LET here == Loaded(ns, K, SelectMeasurement)
         IN Gone(Each(ns, InsertMeasurement), Each(here, DeleteMeasurement)) /\ Back(Each(ns, InsertMeasurement), Each(here, InsertMeasurement))
<1>1. PICK ins : ins = [x \in Measurements |-> InsertMeasurement(x)]
  OBVIOUS
<1>2. PICK del : del = [x \in Measurements |-> DeleteMeasurement(SelectMeasurement(x, K))]
  OBVIOUS
<1>3. PICK again : again = [x \in Measurements |-> InsertMeasurement(SelectMeasurement(x, K))]
  OBVIOUS
<1>4. \A x \in Measurements : InsertMeasurement(x) \in Seq(Additions(RowKeys)) /\ DeleteMeasurement(x) \in Seq(Removals)
  BY AdditionsAdd, MeasurementInserted, RemovalsRemove, MeasurementDeleted
<1>5. /\ Gives(ins, Measurements, Additions(RowKeys)) /\ Gives(del, Measurements, Removals)
      /\ Gives(again, Measurements, Additions(RowKeys))
  <2>1. \A x \in Measurements : SelectMeasurement(x, K) \in Measurements
    BY SelectMeasurementIn
  <2> QED BY <1>1, <1>2, <1>3, <1>4, <2>1 DEF Gives
<1>6. Mapped(ins, ns) = Each(ns, InsertMeasurement)
  <2>1. [i \in DOMAIN ns |-> ins[ns[i]]] = [i \in DOMAIN ns |-> InsertMeasurement(ns[i])]
    BY <1>1
  <2> QED BY <2>1 DEF Mapped, Each
<1>7. \A x \in Measurements : x.key \in Inserted(ins[x])
  BY <1>1, MeasurementReached
<1>8. Here(ns, K) = ns /\ \A i \in DOMAIN ns : Has(K, ins[ns[i]])
  <2>1. Has(K, Mapped(ins, ns))
    BY <1>6
  <2> QED BY <1>5, <1>7, <2>1, SliceWhole
<1>9. \A i \in DOMAIN ns : Gone(ins[ns[i]], del[ns[i]]) /\ Back(ins[ns[i]], again[ns[i]])
  <2> TAKE i \in DOMAIN ns
  <2>1. PICK x \in Measurements : x = ns[i]
    OBVIOUS
  <2>2. ins[x] = InsertMeasurement(x) /\ del[x] = DeleteMeasurement(SelectMeasurement(x, K)) /\ again[x] = InsertMeasurement(SelectMeasurement(x, K))
    BY <1>1, <1>2, <1>3
  <2>3. Has(K, InsertMeasurement(x))
    BY <1>8, <2>1, <2>2
  <2> QED BY <2>1, <2>2, <2>3, MeasurementReached
<1>10. PICK h : h = Loaded(ns, K, SelectMeasurement) /\ h = [i \in DOMAIN ns |-> SelectMeasurement(ns[i], K)]
  BY <1>8 DEF Loaded
<1>11. Mapped(del, ns) = Each(h, DeleteMeasurement) /\ Mapped(again, ns) = Each(h, InsertMeasurement)
  <2>1. /\ [i \in DOMAIN ns |-> del[ns[i]]] = [i \in DOMAIN h |-> DeleteMeasurement(h[i])]
        /\ [i \in DOMAIN ns |-> again[ns[i]]] = [i \in DOMAIN h |-> InsertMeasurement(h[i])]
    BY <1>2, <1>3, <1>10
  <2> QED BY <2>1 DEF Mapped, Each
<1>12. Gone(Mapped(ins, ns), Mapped(del, ns)) /\ Back(Mapped(ins, ns), Mapped(again, ns))
  BY <1>5, <1>9, SliceReached
<1> QED BY <1>6, <1>10, <1>11, <1>12

LEMMA KeyTripleReached ==
  ASSUME NEW n \in KeyTriples
  PROVE  /\ n.key \in Inserted(InsertKeyTriple(n))
         /\ \A K : Has(K, InsertKeyTriple(n)) =>
              /\ Gone(InsertKeyTriple(n), DeleteKeyTriple(SelectKeyTriple(n, K)))
              /\ Back(InsertKeyTriple(n), InsertKeyTriple(SelectKeyTriple(n, K)))
<1>1. HasRow(n) /\ n.env \in Envs
  BY RowAssumption, OwnerTables DEF HasRow, KeyTriples, OwnerTable
<1>2. PICK x0 \in Seq(Additions(RowKeys)) : x0 = Insert(n) /\ Inserted(x0) = {n.key}
  <2>1. Insert(n) \in Seq(Additions(RowKeys)) /\ Inserted(Insert(n)) = {n.key}
    BY <1>1, InsertFacts
  <2> QED BY <2>1, Zenon
<1>3. PICK f0 \in Seq(Additions(RowKeys)) : f0 = FindEnv(n)
  <2>1. FindEnv(n) \in Seq(Additions(RowKeys))
    BY <1>1, FindFacts
  <2> QED BY <2>1, Zenon
<1>4. PICK t0 \in Seq(Additions(RowKeys)) : t0 = f0 \o x0 /\ Inserts(t0, f0, x0)
  BY <1>2, <1>3, InsertsBoth
<1>5. PICK a1 \in Seq(Additions(RowKeys)) : a1 = Each(n.KeyList, Insert)
  <2>1. n.KeyList \in Seq(AnyLeaves)
    BY AnyLeaf DEF KeyTriples
  <2>2. Each(n.KeyList, Insert) \in Seq(Additions(RowKeys))
    BY <2>1, AdditionsAdd, EachInserted
  <2> QED BY <2>2, Zenon
<1>6. PICK a2 \in Seq(Additions(RowKeys)) : a2 = Each(n.AuthorizedBy, Insert)
  <2>1. n.AuthorizedBy \in Seq(AnyLeaves)
    BY AnyLeaf DEF KeyTriples
  <2>2. Each(n.AuthorizedBy, Insert) \in Seq(Additions(RowKeys))
    BY <2>1, AdditionsAdd, EachInserted
  <2> QED BY <2>2, Zenon
<1>7. PICK t1 \in Seq(Additions(RowKeys)) : t1 = t0 \o a1 /\ Inserts(t1, t0, a1)
  BY <1>4, <1>5, InsertsBoth
<1>8. PICK t2 \in Seq(Additions(RowKeys)) : t2 = t1 \o a2 /\ Inserts(t2, t1, a2)
  BY <1>7, <1>6, InsertsBoth
<1>9. t2 = InsertKeyTriple(n)
  BY <1>2, <1>3, <1>4, <1>5, <1>6, <1>7, <1>8, Zenon DEF InsertKeyTriple
<1>10. n.key \in Inserted(t2)
  BY <1>2, <1>3, <1>4, <1>7, <1>8 DEF Inserts
<1>11. \A T : InsertedInto(a1, T) \subseteq InsertedInto(t2, T) /\ InsertedInto(a2, T) \subseteq InsertedInto(t2, T)
  BY <1>7, <1>8 DEF Inserts
<1>12. Inserted(t2) = {n.key} \cup Inserted(a1) \cup Inserted(a2)
  <2>1. Inserted(f0) = {}
    BY <1>1, <1>3, FindFacts
  <2> QED BY <2>1, <1>2, <1>3, <1>4, <1>7, <1>8 DEF Inserts
<1>13. ASSUME NEW K, Has(K, t2)
      PROVE  Gone(t2, DeleteKeyTriple(SelectKeyTriple(n, K))) /\ Back(t2, InsertKeyTriple(SelectKeyTriple(n, K)))
  <2>1. Has(K, a1) /\ Has(K, a2)
    BY <1>13, <1>12 DEF Has
  <2>2. PICK l \in KeyTriples :
          /\ l = SelectKeyTriple(n, K)
          /\ l.key = n.key
          /\ l.tbl = n.tbl
          /\ l.env = n.env
          /\ l.KeyList = Here(n.KeyList, K)
          /\ l.AuthorizedBy = Here(n.AuthorizedBy, K)
    <3>1. SelectKeyTriple(n, K) \in KeyTriples
      BY SelectKeyTripleIn
    <3>2. LET m == SelectKeyTriple(n, K) IN m.key = n.key /\ m.tbl = n.tbl /\ m.env = n.env /\ m.KeyList = Here(n.KeyList, K) /\ m.AuthorizedBy = Here(n.AuthorizedBy, K)
      BY DEF SelectKeyTriple, KeyTriples
    <3> QED BY <3>1, <3>2
  <2>3. PICK d1 \in Seq(Removals), r1 \in Seq(Additions(RowKeys)) :
          /\ d1 = Each(l.KeyList, Delete) /\ Gone(a1, d1)
          /\ r1 = Each(l.KeyList, Insert) /\ Back(a1, r1)
    <3>1. l.KeyList \in Seq(AnyLeaves)
      BY AnyLeaf DEF KeyTriples
    <3>2. Each(l.KeyList, Insert) \in Seq(Additions(RowKeys))
      BY <3>1, AdditionsAdd, EachInserted
    <3>3. Each(l.KeyList, Delete) \in Seq(Removals)
      BY <3>1, RemovalsRemove, EachDeleted
    <3>4. n.KeyList \in Seq(Leaves)
      BY DEF KeyTriples
    <3>5. Has(K, Each(n.KeyList, Insert))
      BY <2>1, <1>5
    <3>6. Gone(a1, Each(l.KeyList, Delete)) /\ Back(a1, Each(l.KeyList, Insert))
      BY <3>4, <3>5, <2>2, <1>5, LeafSliceReached
    <3> QED BY <3>2, <3>3, <3>6
  <2>4. PICK d2 \in Seq(Removals), r2 \in Seq(Additions(RowKeys)) :
          /\ d2 = Each(l.AuthorizedBy, Delete) /\ Gone(a2, d2)
          /\ r2 = Each(l.AuthorizedBy, Insert) /\ Back(a2, r2)
    <3>1. l.AuthorizedBy \in Seq(AnyLeaves)
      BY AnyLeaf DEF KeyTriples
    <3>2. Each(l.AuthorizedBy, Insert) \in Seq(Additions(RowKeys))
      BY <3>1, AdditionsAdd, EachInserted
    <3>3. Each(l.AuthorizedBy, Delete) \in Seq(Removals)
      BY <3>1, RemovalsRemove, EachDeleted
    <3>4. n.AuthorizedBy \in Seq(Leaves)
      BY DEF KeyTriples
    <3>5. Has(K, Each(n.AuthorizedBy, Insert))
      BY <2>1, <1>6
    <3>6. Gone(a2, Each(l.AuthorizedBy, Delete)) /\ Back(a2, Each(l.AuthorizedBy, Insert))
      BY <3>4, <3>5, <2>2, <1>6, LeafSliceReached
    <3> QED BY <3>2, <3>3, <3>6
  <2>5. PICK dn \in Seq(Removals) : dn = Delete(l) /\ Deleted(dn) = {n.key}
    <3>1. l.key \in RowKeys
      BY DEF KeyTriples
    <3>2. Delete(l) \in Seq(Removals) /\ Deleted(Delete(l)) = {l.key}
      BY <3>1, DeleteFacts
    <3> QED BY <3>2, <2>2, Zenon
  <2>6. PICK o \in Seq(Removals) : o = DeleteIfOrphaned(l, FALSE)
    <3>1. l.key \in RowKeys /\ FALSE \in BOOLEAN
      BY DEF KeyTriples
    <3>2. DeleteIfOrphaned(l, FALSE) \in Seq(Removals)
      BY <3>1, OrphanIn
    <3> QED BY <3>2, Zenon
  <2>7. PICK e1 \in Seq(Removals) : e1 = d1 \o d2 /\ Drops(e1, d1, d2)
    BY <2>3, <2>4, DropsBoth
  <2>8. PICK e2 \in Seq(Removals) : e2 = e1 \o dn /\ Drops(e2, e1, dn)
    BY <2>7, <2>5, DropsBoth
  <2>9. PICK e3 \in Seq(Removals) : e3 = e2 \o o /\ Drops(e3, e2, o)
    BY <2>8, <2>6, DropsBoth
  <2>10. e3 = DeleteKeyTriple(l)
    BY <2>3, <2>4, <2>5, <2>6, <2>7, <2>8, <2>9, Zenon DEF DeleteKeyTriple
  <2>11. Deleted(d1) \subseteq Deleted(e3) /\ Deleted(d2) \subseteq Deleted(e3) /\ Deleted(dn) \subseteq Deleted(e3)
    BY <2>7, <2>8, <2>9 DEF Drops
  <2>12. Insert(l) = Insert(n) /\ FindEnv(l) = FindEnv(n)
    BY <2>2 DEF Insert, FindEnv
  <2>13. PICK u1 \in Seq(Additions(RowKeys)) : u1 = t0 \o r1 /\ Inserts(u1, t0, r1)
    BY <1>4, <2>3, InsertsBoth
  <2>14. PICK u2 \in Seq(Additions(RowKeys)) : u2 = u1 \o r2 /\ Inserts(u2, u1, r2)
    BY <2>13, <2>4, InsertsBoth
  <2>15. u2 = InsertKeyTriple(l)
    BY <1>2, <1>3, <1>4, <2>12, <2>3, <2>4, <2>13, <2>14, Zenon DEF InsertKeyTriple
  <2>16. n.key \in Inserted(u2) /\ Inserted(r1) \subseteq Inserted(u2) /\ Inserted(r2) \subseteq Inserted(u2)
    BY <1>2, <1>3, <1>4, <2>13, <2>14 DEF Inserts
  <2>17. Gone(t2, e3)
    BY <2>5, <1>11, <1>12, <2>3, <2>4, <2>11 DEF Gone
  <2>18. Back(t2, u2)
    BY <1>11, <1>12, <2>3, <2>4, <2>16 DEF Back
  <2> QED BY <2>2, <2>10, <2>15, <2>17, <2>18
<1> QED BY <1>9, <1>10, <1>13

LEMMA KeyTripleSliceReached ==
  ASSUME NEW ns \in Seq(KeyTriples), NEW K, Has(K, Each(ns, InsertKeyTriple))
  PROVE  LET here == Loaded(ns, K, SelectKeyTriple)
         IN Gone(Each(ns, InsertKeyTriple), Each(here, DeleteKeyTriple)) /\ Back(Each(ns, InsertKeyTriple), Each(here, InsertKeyTriple))
<1>1. PICK ins : ins = [x \in KeyTriples |-> InsertKeyTriple(x)]
  OBVIOUS
<1>2. PICK del : del = [x \in KeyTriples |-> DeleteKeyTriple(SelectKeyTriple(x, K))]
  OBVIOUS
<1>3. PICK again : again = [x \in KeyTriples |-> InsertKeyTriple(SelectKeyTriple(x, K))]
  OBVIOUS
<1>4. \A x \in KeyTriples : InsertKeyTriple(x) \in Seq(Additions(RowKeys)) /\ DeleteKeyTriple(x) \in Seq(Removals)
  BY AdditionsAdd, KeyTripleInserted, RemovalsRemove, KeyTripleDeleted
<1>5. /\ Gives(ins, KeyTriples, Additions(RowKeys)) /\ Gives(del, KeyTriples, Removals)
      /\ Gives(again, KeyTriples, Additions(RowKeys))
  <2>1. \A x \in KeyTriples : SelectKeyTriple(x, K) \in KeyTriples
    BY SelectKeyTripleIn
  <2> QED BY <1>1, <1>2, <1>3, <1>4, <2>1 DEF Gives
<1>6. Mapped(ins, ns) = Each(ns, InsertKeyTriple)
  <2>1. [i \in DOMAIN ns |-> ins[ns[i]]] = [i \in DOMAIN ns |-> InsertKeyTriple(ns[i])]
    BY <1>1
  <2> QED BY <2>1 DEF Mapped, Each
<1>7. \A x \in KeyTriples : x.key \in Inserted(ins[x])
  BY <1>1, KeyTripleReached
<1>8. Here(ns, K) = ns /\ \A i \in DOMAIN ns : Has(K, ins[ns[i]])
  <2>1. Has(K, Mapped(ins, ns))
    BY <1>6
  <2> QED BY <1>5, <1>7, <2>1, SliceWhole
<1>9. \A i \in DOMAIN ns : Gone(ins[ns[i]], del[ns[i]]) /\ Back(ins[ns[i]], again[ns[i]])
  <2> TAKE i \in DOMAIN ns
  <2>1. PICK x \in KeyTriples : x = ns[i]
    OBVIOUS
  <2>2. ins[x] = InsertKeyTriple(x) /\ del[x] = DeleteKeyTriple(SelectKeyTriple(x, K)) /\ again[x] = InsertKeyTriple(SelectKeyTriple(x, K))
    BY <1>1, <1>2, <1>3
  <2>3. Has(K, InsertKeyTriple(x))
    BY <1>8, <2>1, <2>2
  <2> QED BY <2>1, <2>2, <2>3, KeyTripleReached
<1>10. PICK h : h = Loaded(ns, K, SelectKeyTriple) /\ h = [i \in DOMAIN ns |-> SelectKeyTriple(ns[i], K)]
  BY <1>8 DEF Loaded
<1>11. Mapped(del, ns) = Each(h, DeleteKeyTriple) /\ Mapped(again, ns) = Each(h, InsertKeyTriple)
  <2>1. /\ [i \in DOMAIN ns |-> del[ns[i]]] = [i \in DOMAIN h |-> DeleteKeyTriple(h[i])]
        /\ [i \in DOMAIN ns |-> again[ns[i]]] = [i \in DOMAIN h |-> InsertKeyTriple(h[i])]
    BY <1>2, <1>3, <1>10
  <2> QED BY <2>1 DEF Mapped, Each
<1>12. Gone(Mapped(ins, ns), Mapped(del, ns)) /\ Back(Mapped(ins, ns), Mapped(again, ns))
  BY <1>5, <1>9, SliceReached
<1> QED BY <1>6, <1>10, <1>11, <1>12

LEMMA ValueTripleReached ==
  ASSUME NEW n \in ValueTriples
  PROVE  /\ n.key \in Inserted(InsertValueTriple(n))
         /\ \A K : Has(K, InsertValueTriple(n)) =>
              /\ Gone(InsertValueTriple(n), DeleteValueTriple(SelectValueTriple(n, K)))
              /\ Back(InsertValueTriple(n), InsertValueTriple(SelectValueTriple(n, K)))
<1>1. HasRow(n) /\ n.env \in Envs
  BY RowAssumption, OwnerTables DEF HasRow, ValueTriples, OwnerTable
<1>2. PICK x0 \in Seq(Additions(RowKeys)) : x0 = Insert(n) /\ Inserted(x0) = {n.key}
  <2>1. Insert(n) \in Seq(Additions(RowKeys)) /\ Inserted(Insert(n)) = {n.key}
    BY <1>1, InsertFacts
  <2> QED BY <2>1, Zenon
<1>3. PICK f0 \in Seq(Additions(RowKeys)) : f0 = FindEnv(n)
  <2>1. FindEnv(n) \in Seq(Additions(RowKeys))
    BY <1>1, FindFacts
  <2> QED BY <2>1, Zenon
<1>4. PICK t0 \in Seq(Additions(RowKeys)) : t0 = f0 \o x0 /\ Inserts(t0, f0, x0)
  BY <1>2, <1>3, InsertsBoth
<1>5. PICK a1 \in Seq(Additions(RowKeys)) : a1 = Each(n.Measurements, InsertMeasurement)
  <2>1. n.Measurements \in Seq(Measurements)
    BY DEF ValueTriples
  <2>2. Each(n.Measurements, InsertMeasurement) \in Seq(Additions(RowKeys))
    BY <2>1, AdditionsAdd, EachMeasurementInserted
  <2> QED BY <2>2, Zenon
<1>6. PICK t1 \in Seq(Additions(RowKeys)) : t1 = t0 \o a1 /\ Inserts(t1, t0, a1)
  BY <1>4, <1>5, InsertsBoth
<1>7. t1 = InsertValueTriple(n)
  BY <1>2, <1>3, <1>4, <1>5, <1>6, Zenon DEF InsertValueTriple
<1>8. n.key \in Inserted(t1)
  BY <1>2, <1>3, <1>4, <1>6 DEF Inserts
<1>9. \A T : InsertedInto(a1, T) \subseteq InsertedInto(t1, T)
  BY <1>6 DEF Inserts
<1>10. Inserted(t1) = {n.key} \cup Inserted(a1)
  <2>1. Inserted(f0) = {}
    BY <1>1, <1>3, FindFacts
  <2> QED BY <2>1, <1>2, <1>3, <1>4, <1>6 DEF Inserts
<1>11. ASSUME NEW K, Has(K, t1)
      PROVE  Gone(t1, DeleteValueTriple(SelectValueTriple(n, K))) /\ Back(t1, InsertValueTriple(SelectValueTriple(n, K)))
  <2>1. Has(K, a1)
    BY <1>11, <1>10 DEF Has
  <2>2. PICK l \in ValueTriples :
          /\ l = SelectValueTriple(n, K)
          /\ l.key = n.key
          /\ l.tbl = n.tbl
          /\ l.env = n.env
          /\ l.Measurements = Loaded(n.Measurements, K, SelectMeasurement)
    <3>1. SelectValueTriple(n, K) \in ValueTriples
      BY SelectValueTripleIn
    <3>2. LET m == SelectValueTriple(n, K) IN m.key = n.key /\ m.tbl = n.tbl /\ m.env = n.env /\ m.Measurements = Loaded(n.Measurements, K, SelectMeasurement)
      BY DEF SelectValueTriple, ValueTriples
    <3> QED BY <3>1, <3>2
  <2>3. PICK d1 \in Seq(Removals), r1 \in Seq(Additions(RowKeys)) :
          /\ d1 = Each(l.Measurements, DeleteMeasurement) /\ Gone(a1, d1)
          /\ r1 = Each(l.Measurements, InsertMeasurement) /\ Back(a1, r1)
    <3>1. l.Measurements \in Seq(Measurements)
      BY DEF ValueTriples
    <3>2. Each(l.Measurements, InsertMeasurement) \in Seq(Additions(RowKeys))
      BY <3>1, AdditionsAdd, EachMeasurementInserted
    <3>3. Each(l.Measurements, DeleteMeasurement) \in Seq(Removals)
      BY <3>1, RemovalsRemove, EachMeasurementDeleted
    <3>4. n.Measurements \in Seq(Measurements)
      BY DEF ValueTriples
    <3>5. Has(K, Each(n.Measurements, InsertMeasurement))
      BY <2>1, <1>5
    <3>6. Gone(a1, Each(l.Measurements, DeleteMeasurement)) /\ Back(a1, Each(l.Measurements, InsertMeasurement))
      BY <3>4, <3>5, <2>2, <1>5, MeasurementSliceReached
    <3> QED BY <3>2, <3>3, <3>6
  <2>4. PICK dn \in Seq(Removals) : dn = Delete(l) /\ Deleted(dn) = {n.key}
    <3>1. l.key \in RowKeys
      BY DEF ValueTriples
    <3>2. Delete(l) \in Seq(Removals) /\ Deleted(Delete(l)) = {l.key}
      BY <3>1, DeleteFacts
    <3> QED BY <3>2, <2>2, Zenon
  <2>5. PICK o \in Seq(Removals) : o = DeleteIfOrphaned(l, TRUE)
    <3>1. l.key \in RowKeys /\ TRUE \in BOOLEAN
      BY DEF ValueTriples
    <3>2. DeleteIfOrphaned(l, TRUE) \in Seq(Removals)
      BY <3>1, OrphanIn
    <3> QED BY <3>2, Zenon
  <2>6. PICK e1 \in Seq(Removals) : e1 = d1 \o dn /\ Drops(e1, d1, dn)
    BY <2>3, <2>4, DropsBoth
  <2>7. PICK e2 \in Seq(Removals) : e2 = e1 \o o /\ Drops(e2, e1, o)
    BY <2>6, <2>5, DropsBoth
  <2>8. e2 = DeleteValueTriple(l)
    BY <2>3, <2>4, <2>5, <2>6, <2>7, Zenon DEF DeleteValueTriple
  <2>9. Deleted(d1) \subseteq Deleted(e2) /\ Deleted(dn) \subseteq Deleted(e2)
    BY <2>6, <2>7 DEF Drops
  <2>10. Insert(l) = Insert(n) /\ FindEnv(l) = FindEnv(n)
    BY <2>2 DEF Insert, FindEnv
  <2>11. PICK u1 \in Seq(Additions(RowKeys)) : u1 = t0 \o r1 /\ Inserts(u1, t0, r1)
    BY <1>4, <2>3, InsertsBoth
  <2>12. u1 = InsertValueTriple(l)
    BY <1>2, <1>3, <1>4, <2>10, <2>3, <2>11, Zenon DEF InsertValueTriple
  <2>13. n.key \in Inserted(u1) /\ Inserted(r1) \subseteq Inserted(u1)
    BY <1>2, <1>3, <1>4, <2>11 DEF Inserts
  <2>14. Gone(t1, e2)
    BY <2>4, <1>9, <1>10, <2>3, <2>9 DEF Gone
  <2>15. Back(t1, u1)
    BY <1>9, <1>10, <2>3, <2>13 DEF Back
  <2> QED BY <2>2, <2>8, <2>12, <2>14, <2>15
<1> QED BY <1>7, <1>8, <1>11

LEMMA ValueTripleSliceReached ==
  ASSUME NEW ns \in Seq(ValueTriples), NEW K, Has(K, Each(ns, InsertValueTriple))
  PROVE  LET here == Loaded(ns, K, SelectValueTriple)
         IN Gone(Each(ns, InsertValueTriple), Each(here, DeleteValueTriple)) /\ Back(Each(ns, InsertValueTriple), Each(here, InsertValueTriple))
<1>1. PICK ins : ins = [x \in ValueTriples |-> InsertValueTriple(x)]
  OBVIOUS
<1>2. PICK del : del = [x \in ValueTriples |-> DeleteValueTriple(SelectValueTriple(x, K))]
  OBVIOUS
<1>3. PICK again : again = [x \in ValueTriples |-> InsertValueTriple(SelectValueTriple(x, K))]
  OBVIOUS
<1>4. \A x \in ValueTriples : InsertValueTriple(x) \in Seq(Additions(RowKeys)) /\ DeleteValueTriple(x) \in Seq(Removals)
  BY AdditionsAdd, ValueTripleInserted, RemovalsRemove, ValueTripleDeleted
<1>5. /\ Gives(ins, ValueTriples, Additions(RowKeys)) /\ Gives(del, ValueTriples, Removals)
      /\ Gives(again, ValueTriples, Additions(RowKeys))
  <2>1. \A x \in ValueTriples : SelectValueTriple(x, K) \in ValueTriples
    BY SelectValueTripleIn
  <2> QED BY <1>1, <1>2, <1>3, <1>4, <2>1 DEF Gives
<1>6. Mapped(ins, ns) = Each(ns, InsertValueTriple)
  <2>1. [i \in DOMAIN ns |-> ins[ns[i]]] = [i \in DOMAIN ns |-> InsertValueTriple(ns[i])]
    BY <1>1
  <2> QED BY <2>1 DEF Mapped, Each
<1>7. \A x \in ValueTriples : x.key \in Inserted(ins[x])
  BY <1>1, ValueTripleReached
<1>8. Here(ns, K) = ns /\ \A i \in DOMAIN ns : Has(K, ins[ns[i]])
  <2>1. Has(K, Mapped(ins, ns))
    BY <1>6
  <2> QED BY <1>5, <1>7, <2>1, SliceWhole
<1>9. \A i \in DOMAIN ns : Gone(ins[ns[i]], del[ns[i]]) /\ Back(ins[ns[i]], again[ns[i]])
  <2> TAKE i \in DOMAIN ns
  <2>1. PICK x \in ValueTriples : x = ns[i]
    OBVIOUS
  <2>2. ins[x] = InsertValueTriple(x) /\ del[x] = DeleteValueTriple(SelectValueTriple(x, K)) /\ again[x] = InsertValueTriple(SelectValueTriple(x, K))
    BY <1>1, <1>2, <1>3
  <2>3. Has(K, InsertValueTriple(x))
    BY <1>8, <2>1, <2>2
  <2> QED BY <2>1, <2>2, <2>3, ValueTripleReached
<1>10. PICK h : h = Loaded(ns, K, SelectValueTriple) /\ h = [i \in DOMAIN ns |-> SelectValueTriple(ns[i], K)]
  BY <1>8 DEF Loaded
<1>11. Mapped(del, ns) = Each(h, DeleteValueTriple) /\ Mapped(again, ns) = Each(h, InsertValueTriple)
  <2>1. /\ [i \in DOMAIN ns |-> del[ns[i]]] = [i \in DOMAIN h |-> DeleteValueTriple(h[i])]
        /\ [i \in DOMAIN ns |-> again[ns[i]]] = [i \in DOMAIN h |-> InsertValueTriple(h[i])]
    BY <1>2, <1>3, <1>10
  <2> QED BY <2>1 DEF Mapped, Each
<1>12. Gone(Mapped(ins, ns), Mapped(del, ns)) /\ Back(Mapped(ins, ns), Mapped(again, ns))
  BY <1>5, <1>9, SliceReached
<1> QED BY <1>6, <1>10, <1>11, <1>12

LEMMA StatefulEnvironmentReached ==
  ASSUME NEW n \in StatefulEnvironments
  PROVE  /\ n.key \in Inserted(InsertStatefulEnvironment(n))
         /\ \A K : Has(K, InsertStatefulEnvironment(n)) =>
              /\ Gone(InsertStatefulEnvironment(n), DeleteStatefulEnvironment(SelectStatefulEnvironment(n, K)))
              /\ Back(InsertStatefulEnvironment(n), InsertStatefulEnvironment(SelectStatefulEnvironment(n, K)))
<1>1. HasRow(n) /\ n.env \in Envs
  BY RowAssumption, OwnerTables DEF HasRow, StatefulEnvironments, OwnerTable
<1>2. PICK x0 \in Seq(Additions(RowKeys)) : x0 = Insert(n) /\ Inserted(x0) = {n.key}
  <2>1. Insert(n) \in Seq(Additions(RowKeys)) /\ Inserted(Insert(n)) = {n.key}
    BY <1>1, InsertFacts
  <2> QED BY <2>1, Zenon
<1>3. PICK f0 \in Seq(Additions(RowKeys)) : f0 = FindEnv(n)
  <2>1. FindEnv(n) \in Seq(Additions(RowKeys))
    BY <1>1, FindFacts
  <2> QED BY <2>1, Zenon
<1>4. PICK t0 \in Seq(Additions(RowKeys)) : t0 = f0 \o x0 /\ Inserts(t0, f0, x0)
  BY <1>2, <1>3, InsertsBoth
<1>5. PICK a1 \in Seq(Additions(RowKeys)) : a1 = Each(n.Measurements, InsertMeasurement)
  <2>1. n.Measurements \in Seq(Measurements)
    BY DEF StatefulEnvironments
  <2>2. Each(n.Measurements, InsertMeasurement) \in Seq(Additions(RowKeys))
    BY <2>1, AdditionsAdd, EachMeasurementInserted
  <2> QED BY <2>2, Zenon
<1>6. PICK t1 \in Seq(Additions(RowKeys)) : t1 = t0 \o a1 /\ Inserts(t1, t0, a1)
  BY <1>4, <1>5, InsertsBoth
<1>7. t1 = InsertStatefulEnvironment(n)
  BY <1>2, <1>3, <1>4, <1>5, <1>6, Zenon DEF InsertStatefulEnvironment
<1>8. n.key \in Inserted(t1)
  BY <1>2, <1>3, <1>4, <1>6 DEF Inserts
<1>9. \A T : InsertedInto(a1, T) \subseteq InsertedInto(t1, T)
  BY <1>6 DEF Inserts
<1>10. Inserted(t1) = {n.key} \cup Inserted(a1)
  <2>1. Inserted(f0) = {}
    BY <1>1, <1>3, FindFacts
  <2> QED BY <2>1, <1>2, <1>3, <1>4, <1>6 DEF Inserts
<1>11. ASSUME NEW K, Has(K, t1)
      PROVE  Gone(t1, DeleteStatefulEnvironment(SelectStatefulEnvironment(n, K))) /\ Back(t1, InsertStatefulEnvironment(SelectStatefulEnvironment(n, K)))
  <2>1. Has(K, a1)
    BY <1>11, <1>10 DEF Has
  <2>2. PICK l \in StatefulEnvironments :
          /\ l = SelectStatefulEnvironment(n, K)
          /\ l.key = n.key
          /\ l.tbl = n.tbl
          /\ l.env = n.env
          /\ l.Measurements = Loaded(n.Measurements, K, SelectMeasurement)
    <3>1. SelectStatefulEnvironment(n, K) \in StatefulEnvironments
      BY SelectStatefulEnvironmentIn
    <3>2. LET m == SelectStatefulEnvironment(n, K) IN m.key = n.key /\ m.tbl = n.tbl /\ m.env = n.env /\ m.Measurements = Loaded(n.Measurements, K, SelectMeasurement)
      BY DEF SelectStatefulEnvironment, StatefulEnvironments
    <3> QED BY <3>1, <3>2
  <2>3. PICK d1 \in Seq(Removals), r1 \in Seq(Additions(RowKeys)) :
          /\ d1 = Each(l.Measurements, DeleteMeasurement) /\ Gone(a1, d1)
          /\ r1 = Each(l.Measurements, InsertMeasurement) /\ Back(a1, r1)
    <3>1. l.Measurements \in Seq(Measurements)
      BY DEF StatefulEnvironments
    <3>2. Each(l.Measurements, InsertMeasurement) \in Seq(Additions(RowKeys))
      BY <3>1, AdditionsAdd, EachMeasurementInserted
    <3>3. Each(l.Measurements, DeleteMeasurement) \in Seq(Removals)
      BY <3>1, RemovalsRemove, EachMeasurementDeleted
    <3>4. n.Measurements \in Seq(Measurements)
      BY DEF StatefulEnvironments
    <3>5. Has(K, Each(n.Measurements, InsertMeasurement))
      BY <2>1, <1>5
    <3>6. Gone(a1, Each(l.Measurements, DeleteMeasurement)) /\ Back(a1, Each(l.Measurements, InsertMeasurement))
      BY <3>4, <3>5, <2>2, <1>5, MeasurementSliceReached
    <3> QED BY <3>2, <3>3, <3>6
  <2>4. PICK dn \in Seq(Removals) : dn = Delete(l) /\ Deleted(dn) = {n.key}
    <3>1. l.key \in RowKeys
      BY DEF StatefulEnvironments
    <3>2. Delete(l) \in Seq(Removals) /\ Deleted(Delete(l)) = {l.key}
      BY <3>1, DeleteFacts
    <3> QED BY <3>2, <2>2, Zenon
  <2>5. PICK o \in Seq(Removals) : o = DeleteIfOrphaned(l, TRUE)
    <3>1. l.key \in RowKeys /\ TRUE \in BOOLEAN
      BY DEF StatefulEnvironments
    <3>2. DeleteIfOrphaned(l, TRUE) \in Seq(Removals)
      BY <3>1, OrphanIn
    <3> QED BY <3>2, Zenon
  <2>6. PICK e1 \in Seq(Removals) : e1 = d1 \o dn /\ Drops(e1, d1, dn)
    BY <2>3, <2>4, DropsBoth
  <2>7. PICK e2 \in Seq(Removals) : e2 = e1 \o o /\ Drops(e2, e1, o)
    BY <2>6, <2>5, DropsBoth
  <2>8. e2 = DeleteStatefulEnvironment(l)
    BY <2>3, <2>4, <2>5, <2>6, <2>7, Zenon DEF DeleteStatefulEnvironment
  <2>9. Deleted(d1) \subseteq Deleted(e2) /\ Deleted(dn) \subseteq Deleted(e2)
    BY <2>6, <2>7 DEF Drops
  <2>10. Insert(l) = Insert(n) /\ FindEnv(l) = FindEnv(n)
    BY <2>2 DEF Insert, FindEnv
  <2>11. PICK u1 \in Seq(Additions(RowKeys)) : u1 = t0 \o r1 /\ Inserts(u1, t0, r1)
    BY <1>4, <2>3, InsertsBoth
  <2>12. u1 = InsertStatefulEnvironment(l)
    BY <1>2, <1>3, <1>4, <2>10, <2>3, <2>11, Zenon DEF InsertStatefulEnvironment
  <2>13. n.key \in Inserted(u1) /\ Inserted(r1) \subseteq Inserted(u1)
    BY <1>2, <1>3, <1>4, <2>11 DEF Inserts
  <2>14. Gone(t1, e2)
    BY <2>4, <1>9, <1>10, <2>3, <2>9 DEF Gone
  <2>15. Back(t1, u1)
    BY <1>9, <1>10, <2>3, <2>13 DEF Back
  <2> QED BY <2>2, <2>8, <2>12, <2>14, <2>15
<1> QED BY <1>7, <1>8, <1>11

LEMMA StatefulEnvironmentSliceReached ==
  ASSUME NEW ns \in Seq(StatefulEnvironments), NEW K, Has(K, Each(ns, InsertStatefulEnvironment))
  PROVE  LET here == Loaded(ns, K, SelectStatefulEnvironment)
         IN Gone(Each(ns, InsertStatefulEnvironment), Each(here, DeleteStatefulEnvironment)) /\ Back(Each(ns, InsertStatefulEnvironment), Each(here, InsertStatefulEnvironment))
<1>1. PICK ins : ins = [x \in StatefulEnvironments |-> InsertStatefulEnvironment(x)]
  OBVIOUS
<1>2. PICK del : del = [x \in StatefulEnvironments |-> DeleteStatefulEnvironment(SelectStatefulEnvironment(x, K))]
  OBVIOUS
<1>3. PICK again : again = [x \in StatefulEnvironments |-> InsertStatefulEnvironment(SelectStatefulEnvironment(x, K))]
  OBVIOUS
<1>4. \A x \in StatefulEnvironments : InsertStatefulEnvironment(x) \in Seq(Additions(RowKeys)) /\ DeleteStatefulEnvironment(x) \in Seq(Removals)
  BY AdditionsAdd, StatefulEnvironmentInserted, RemovalsRemove, StatefulEnvironmentDeleted
<1>5. /\ Gives(ins, StatefulEnvironments, Additions(RowKeys)) /\ Gives(del, StatefulEnvironments, Removals)
      /\ Gives(again, StatefulEnvironments, Additions(RowKeys))
  <2>1. \A x \in StatefulEnvironments : SelectStatefulEnvironment(x, K) \in StatefulEnvironments
    BY SelectStatefulEnvironmentIn
  <2> QED BY <1>1, <1>2, <1>3, <1>4, <2>1 DEF Gives
<1>6. Mapped(ins, ns) = Each(ns, InsertStatefulEnvironment)
  <2>1. [i \in DOMAIN ns |-> ins[ns[i]]] = [i \in DOMAIN ns |-> InsertStatefulEnvironment(ns[i])]
    BY <1>1
  <2> QED BY <2>1 DEF Mapped, Each
<1>7. \A x \in StatefulEnvironments : x.key \in Inserted(ins[x])
  BY <1>1, StatefulEnvironmentReached
<1>8. Here(ns, K) = ns /\ \A i \in DOMAIN ns : Has(K, ins[ns[i]])
  <2>1. Has(K, Mapped(ins, ns))
    BY <1>6
  <2> QED BY <1>5, <1>7, <2>1, SliceWhole
<1>9. \A i \in DOMAIN ns : Gone(ins[ns[i]], del[ns[i]]) /\ Back(ins[ns[i]], again[ns[i]])
  <2> TAKE i \in DOMAIN ns
  <2>1. PICK x \in StatefulEnvironments : x = ns[i]
    OBVIOUS
  <2>2. ins[x] = InsertStatefulEnvironment(x) /\ del[x] = DeleteStatefulEnvironment(SelectStatefulEnvironment(x, K)) /\ again[x] = InsertStatefulEnvironment(SelectStatefulEnvironment(x, K))
    BY <1>1, <1>2, <1>3
  <2>3. Has(K, InsertStatefulEnvironment(x))
    BY <1>8, <2>1, <2>2
  <2> QED BY <2>1, <2>2, <2>3, StatefulEnvironmentReached
<1>10. PICK h : h = Loaded(ns, K, SelectStatefulEnvironment) /\ h = [i \in DOMAIN ns |-> SelectStatefulEnvironment(ns[i], K)]
  BY <1>8 DEF Loaded
<1>11. Mapped(del, ns) = Each(h, DeleteStatefulEnvironment) /\ Mapped(again, ns) = Each(h, InsertStatefulEnvironment)
  <2>1. /\ [i \in DOMAIN ns |-> del[ns[i]]] = [i \in DOMAIN h |-> DeleteStatefulEnvironment(h[i])]
        /\ [i \in DOMAIN ns |-> again[ns[i]]] = [i \in DOMAIN h |-> InsertStatefulEnvironment(h[i])]
    BY <1>2, <1>3, <1>10
  <2> QED BY <2>1 DEF Mapped, Each
<1>12. Gone(Mapped(ins, ns), Mapped(del, ns)) /\ Back(Mapped(ins, ns), Mapped(again, ns))
  BY <1>5, <1>9, SliceReached
<1> QED BY <1>6, <1>10, <1>11, <1>12

LEMMA ConditionalTripleReached ==
  ASSUME NEW n \in ConditionalEndorsementTriples
  PROVE  /\ n.key \in Inserted(InsertConditionalEndorsementTriple(n))
         /\ \A K : Has(K, InsertConditionalEndorsementTriple(n)) =>
              /\ Gone(InsertConditionalEndorsementTriple(n), DeleteConditionalEndorsementTriple(SelectConditionalEndorsementTriple(n, K)))
              /\ Back(InsertConditionalEndorsementTriple(n), InsertConditionalEndorsementTriple(SelectConditionalEndorsementTriple(n, K)))
<1>1. HasRow(n)
  BY DEF HasRow, ConditionalEndorsementTriples, Reached, AllTables
<1>2. PICK t0 \in Seq(Additions(RowKeys)) : t0 = Insert(n) /\ Inserted(t0) = {n.key}
  <2>1. Insert(n) \in Seq(Additions(RowKeys)) /\ Inserted(Insert(n)) = {n.key}
    BY <1>1, InsertFacts
  <2> QED BY <2>1, Zenon
<1>3. PICK a1 \in Seq(Additions(RowKeys)) : a1 = Each(n.Conditions, InsertStatefulEnvironment)
  <2>1. n.Conditions \in Seq(StatefulEnvironments)
    BY DEF ConditionalEndorsementTriples
  <2>2. Each(n.Conditions, InsertStatefulEnvironment) \in Seq(Additions(RowKeys))
    BY <2>1, AdditionsAdd, EachStatefulEnvironmentInserted
  <2> QED BY <2>2, Zenon
<1>4. PICK a2 \in Seq(Additions(RowKeys)) : a2 = Each(n.Endorsements, InsertValueTriple)
  <2>1. n.Endorsements \in Seq(ValueTriples)
    BY DEF ConditionalEndorsementTriples
  <2>2. Each(n.Endorsements, InsertValueTriple) \in Seq(Additions(RowKeys))
    BY <2>1, AdditionsAdd, EachValueTripleInserted
  <2> QED BY <2>2, Zenon
<1>5. PICK t1 \in Seq(Additions(RowKeys)) : t1 = t0 \o a1 /\ Inserts(t1, t0, a1)
  BY <1>2, <1>3, InsertsBoth
<1>6. PICK t2 \in Seq(Additions(RowKeys)) : t2 = t1 \o a2 /\ Inserts(t2, t1, a2)
  BY <1>5, <1>4, InsertsBoth
<1>7. t2 = InsertConditionalEndorsementTriple(n)
  BY <1>2, <1>3, <1>4, <1>5, <1>6, Zenon DEF InsertConditionalEndorsementTriple
<1>8. n.key \in Inserted(t2)
  BY <1>2, <1>5, <1>6 DEF Inserts
<1>9. \A T : InsertedInto(a1, T) \subseteq InsertedInto(t2, T) /\ InsertedInto(a2, T) \subseteq InsertedInto(t2, T)
  BY <1>5, <1>6 DEF Inserts
<1>10. Inserted(t2) = {n.key} \cup Inserted(a1) \cup Inserted(a2)
  BY <1>2, <1>5, <1>6 DEF Inserts
<1>11. ASSUME NEW K, Has(K, t2)
      PROVE  Gone(t2, DeleteConditionalEndorsementTriple(SelectConditionalEndorsementTriple(n, K))) /\ Back(t2, InsertConditionalEndorsementTriple(SelectConditionalEndorsementTriple(n, K)))
  <2>1. Has(K, a1) /\ Has(K, a2)
    BY <1>11, <1>10 DEF Has
  <2>2. PICK l \in ConditionalEndorsementTriples :
          /\ l = SelectConditionalEndorsementTriple(n, K)
          /\ l.key = n.key
          /\ l.tbl = n.tbl
          /\ l.env = n.env
          /\ l.Conditions = Loaded(n.Conditions, K, SelectStatefulEnvironment)
          /\ l.Endorsements = Loaded(n.Endorsements, K, SelectValueTriple)
    <3>1. SelectConditionalEndorsementTriple(n, K) \in ConditionalEndorsementTriples
      BY SelectConditionalTripleIn
    <3>2. LET m == SelectConditionalEndorsementTriple(n, K) IN m.key = n.key /\ m.tbl = n.tbl /\ m.env = n.env /\ m.Conditions = Loaded(n.Conditions, K, SelectStatefulEnvironment) /\ m.Endorsements = Loaded(n.Endorsements, K, SelectValueTriple)
      BY DEF SelectConditionalEndorsementTriple, ConditionalEndorsementTriples
    <3> QED BY <3>1, <3>2
  <2>3. PICK d1 \in Seq(Removals), r1 \in Seq(Additions(RowKeys)) :
          /\ d1 = Each(l.Conditions, DeleteStatefulEnvironment) /\ Gone(a1, d1)
          /\ r1 = Each(l.Conditions, InsertStatefulEnvironment) /\ Back(a1, r1)
    <3>1. l.Conditions \in Seq(StatefulEnvironments)
      BY DEF ConditionalEndorsementTriples
    <3>2. Each(l.Conditions, InsertStatefulEnvironment) \in Seq(Additions(RowKeys))
      BY <3>1, AdditionsAdd, EachStatefulEnvironmentInserted
    <3>3. Each(l.Conditions, DeleteStatefulEnvironment) \in Seq(Removals)
      BY <3>1, RemovalsRemove, EachStatefulEnvironmentDeleted
    <3>4. n.Conditions \in Seq(StatefulEnvironments)
      BY DEF ConditionalEndorsementTriples
    <3>5. Has(K, Each(n.Conditions, InsertStatefulEnvironment))
      BY <2>1, <1>3
    <3>6. Gone(a1, Each(l.Conditions, DeleteStatefulEnvironment)) /\ Back(a1, Each(l.Conditions, InsertStatefulEnvironment))
      BY <3>4, <3>5, <2>2, <1>3, StatefulEnvironmentSliceReached
    <3> QED BY <3>2, <3>3, <3>6
  <2>4. PICK d2 \in Seq(Removals), r2 \in Seq(Additions(RowKeys)) :
          /\ d2 = Each(l.Endorsements, DeleteValueTriple) /\ Gone(a2, d2)
          /\ r2 = Each(l.Endorsements, InsertValueTriple) /\ Back(a2, r2)
    <3>1. l.Endorsements \in Seq(ValueTriples)
      BY DEF ConditionalEndorsementTriples
    <3>2. Each(l.Endorsements, InsertValueTriple) \in Seq(Additions(RowKeys))
      BY <3>1, AdditionsAdd, EachValueTripleInserted
    <3>3. Each(l.Endorsements, DeleteValueTriple) \in Seq(Removals)
      BY <3>1, RemovalsRemove, EachValueTripleDeleted
    <3>4. n.Endorsements \in Seq(ValueTriples)
      BY DEF ConditionalEndorsementTriples
    <3>5. Has(K, Each(n.Endorsements, InsertValueTriple))
      BY <2>1, <1>4
    <3>6. Gone(a2, Each(l.Endorsements, DeleteValueTriple)) /\ Back(a2, Each(l.Endorsements, InsertValueTriple))
      BY <3>4, <3>5, <2>2, <1>4, ValueTripleSliceReached
    <3> QED BY <3>2, <3>3, <3>6
  <2>5. PICK dn \in Seq(Removals) : dn = Delete(l) /\ Deleted(dn) = {n.key}
    <3>1. l.key \in RowKeys
      BY DEF ConditionalEndorsementTriples
    <3>2. Delete(l) \in Seq(Removals) /\ Deleted(Delete(l)) = {l.key}
      BY <3>1, DeleteFacts
    <3> QED BY <3>2, <2>2, Zenon
  <2>6. PICK e1 \in Seq(Removals) : e1 = d1 \o d2 /\ Drops(e1, d1, d2)
    BY <2>3, <2>4, DropsBoth
  <2>7. PICK e2 \in Seq(Removals) : e2 = e1 \o dn /\ Drops(e2, e1, dn)
    BY <2>6, <2>5, DropsBoth
  <2>8. e2 = DeleteConditionalEndorsementTriple(l)
    BY <2>3, <2>4, <2>5, <2>6, <2>7, Zenon DEF DeleteConditionalEndorsementTriple
  <2>9. Deleted(d1) \subseteq Deleted(e2) /\ Deleted(d2) \subseteq Deleted(e2) /\ Deleted(dn) \subseteq Deleted(e2)
    BY <2>6, <2>7 DEF Drops
  <2>10. Insert(l) = Insert(n)
    BY <2>2 DEF Insert
  <2>11. PICK u1 \in Seq(Additions(RowKeys)) : u1 = t0 \o r1 /\ Inserts(u1, t0, r1)
    BY <1>2, <2>3, InsertsBoth
  <2>12. PICK u2 \in Seq(Additions(RowKeys)) : u2 = u1 \o r2 /\ Inserts(u2, u1, r2)
    BY <2>11, <2>4, InsertsBoth
  <2>13. u2 = InsertConditionalEndorsementTriple(l)
    BY <1>2, <2>10, <2>3, <2>4, <2>11, <2>12, Zenon DEF InsertConditionalEndorsementTriple
  <2>14. n.key \in Inserted(u2) /\ Inserted(r1) \subseteq Inserted(u2) /\ Inserted(r2) \subseteq Inserted(u2)
    BY <1>2, <2>11, <2>12 DEF Inserts
  <2>15. Gone(t2, e2)
    BY <2>5, <1>9, <1>10, <2>3, <2>4, <2>9 DEF Gone
  <2>16. Back(t2, u2)
    BY <1>9, <1>10, <2>3, <2>4, <2>14 DEF Back
  <2> QED BY <2>2, <2>8, <2>13, <2>15, <2>16
<1> QED BY <1>7, <1>8, <1>11

LEMMA ConditionalTripleSliceReached ==
  ASSUME NEW ns \in Seq(ConditionalEndorsementTriples), NEW K, Has(K, Each(ns, InsertConditionalEndorsementTriple))
  PROVE  LET here == Loaded(ns, K, SelectConditionalEndorsementTriple)
         IN Gone(Each(ns, InsertConditionalEndorsementTriple), Each(here, DeleteConditionalEndorsementTriple)) /\ Back(Each(ns, InsertConditionalEndorsementTriple), Each(here, InsertConditionalEndorsementTriple))
<1>1. PICK ins : ins = [x \in ConditionalEndorsementTriples |-> InsertConditionalEndorsementTriple(x)]
  OBVIOUS
<1>2. PICK del : del = [x \in ConditionalEndorsementTriples |-> DeleteConditionalEndorsementTriple(SelectConditionalEndorsementTriple(x, K))]
  OBVIOUS
<1>3. PICK again : again = [x \in ConditionalEndorsementTriples |-> InsertConditionalEndorsementTriple(SelectConditionalEndorsementTriple(x, K))]
  OBVIOUS
<1>4. \A x \in ConditionalEndorsementTriples : InsertConditionalEndorsementTriple(x) \in Seq(Additions(RowKeys)) /\ DeleteConditionalEndorsementTriple(x) \in Seq(Removals)
  BY AdditionsAdd, ConditionalTripleInserted, RemovalsRemove, ConditionalTripleDeleted
<1>5. /\ Gives(ins, ConditionalEndorsementTriples, Additions(RowKeys)) /\ Gives(del, ConditionalEndorsementTriples, Removals)
      /\ Gives(again, ConditionalEndorsementTriples, Additions(RowKeys))
  <2>1. \A x \in ConditionalEndorsementTriples : SelectConditionalEndorsementTriple(x, K) \in ConditionalEndorsementTriples
    BY SelectConditionalTripleIn
  <2> QED BY <1>1, <1>2, <1>3, <1>4, <2>1 DEF Gives
<1>6. Mapped(ins, ns) = Each(ns, InsertConditionalEndorsementTriple)
  <2>1. [i \in DOMAIN ns |-> ins[ns[i]]] = [i \in DOMAIN ns |-> InsertConditionalEndorsementTriple(ns[i])]
    BY <1>1
  <2> QED BY <2>1 DEF Mapped, Each
<1>7. \A x \in ConditionalEndorsementTriples : x.key \in Inserted(ins[x])
  BY <1>1, ConditionalTripleReached
<1>8. Here(ns, K) = ns /\ \A i \in DOMAIN ns : Has(K, ins[ns[i]])
  <2>1. Has(K, Mapped(ins, ns))
    BY <1>6
  <2> QED BY <1>5, <1>7, <2>1, SliceWhole
<1>9. \A i \in DOMAIN ns : Gone(ins[ns[i]], del[ns[i]]) /\ Back(ins[ns[i]], again[ns[i]])
  <2> TAKE i \in DOMAIN ns
  <2>1. PICK x \in ConditionalEndorsementTriples : x = ns[i]
    OBVIOUS
  <2>2. ins[x] = InsertConditionalEndorsementTriple(x) /\ del[x] = DeleteConditionalEndorsementTriple(SelectConditionalEndorsementTriple(x, K)) /\ again[x] = InsertConditionalEndorsementTriple(SelectConditionalEndorsementTriple(x, K))
    BY <1>1, <1>2, <1>3
  <2>3. Has(K, InsertConditionalEndorsementTriple(x))
    BY <1>8, <2>1, <2>2
  <2> QED BY <2>1, <2>2, <2>3, ConditionalTripleReached
<1>10. PICK h : h = Loaded(ns, K, SelectConditionalEndorsementTriple) /\ h = [i \in DOMAIN ns |-> SelectConditionalEndorsementTriple(ns[i], K)]
  BY <1>8 DEF Loaded
<1>11. Mapped(del, ns) = Each(h, DeleteConditionalEndorsementTriple) /\ Mapped(again, ns) = Each(h, InsertConditionalEndorsementTriple)
  <2>1. /\ [i \in DOMAIN ns |-> del[ns[i]]] = [i \in DOMAIN h |-> DeleteConditionalEndorsementTriple(h[i])]
        /\ [i \in DOMAIN ns |-> again[ns[i]]] = [i \in DOMAIN h |-> InsertConditionalEndorsementTriple(h[i])]
    BY <1>2, <1>3, <1>10
  <2> QED BY <2>1 DEF Mapped, Each
<1>12. Gone(Mapped(ins, ns), Mapped(del, ns)) /\ Back(Mapped(ins, ns), Mapped(again, ns))
  BY <1>5, <1>9, SliceReached
<1> QED BY <1>6, <1>10, <1>11, <1>12

LEMMA SeriesRecordReached ==
  ASSUME NEW n \in ConditionalEndorsementSeriesRecords
  PROVE  /\ n.key \in Inserted(InsertConditionalEndorsementSeriesRecord(n))
         /\ \A K : Has(K, InsertConditionalEndorsementSeriesRecord(n)) =>
              /\ Gone(InsertConditionalEndorsementSeriesRecord(n), DeleteConditionalEndorsementSeriesRecord(SelectConditionalEndorsementSeriesRecord(n, K)))
              /\ Back(InsertConditionalEndorsementSeriesRecord(n), InsertConditionalEndorsementSeriesRecord(SelectConditionalEndorsementSeriesRecord(n, K)))
<1>1. HasRow(n)
  BY DEF HasRow, ConditionalEndorsementSeriesRecords, AllTables, Forgotten
<1>2. PICK t0 \in Seq(Additions(RowKeys)) : t0 = Insert(n) /\ Inserted(t0) = {n.key} /\ Inserted(t0) \subseteq InsertedInto(t0, Forgotten)
  <2>1. Insert(n) \in Seq(Additions(RowKeys)) /\ Inserted(Insert(n)) = {n.key}
    BY <1>1, InsertFacts
  <2>2. Inserted(Insert(n)) \subseteq InsertedInto(Insert(n), Forgotten)
    <3>1. n.tbl \in Forgotten
      BY DEF ConditionalEndorsementSeriesRecords, Forgotten
    <3> QED BY <3>1, InsertInto
  <2> QED BY <2>1, <2>2, Zenon
<1>3. PICK a1 \in Seq(Additions(RowKeys)) : a1 = Each(n.Selection, InsertMeasurement)
  <2>1. n.Selection \in Seq(Measurements)
    BY DEF ConditionalEndorsementSeriesRecords
  <2>2. Each(n.Selection, InsertMeasurement) \in Seq(Additions(RowKeys))
    BY <2>1, AdditionsAdd, EachMeasurementInserted
  <2> QED BY <2>2, Zenon
<1>4. PICK a2 \in Seq(Additions(RowKeys)) : a2 = Each(n.Addition, InsertMeasurement)
  <2>1. n.Addition \in Seq(Measurements)
    BY DEF ConditionalEndorsementSeriesRecords
  <2>2. Each(n.Addition, InsertMeasurement) \in Seq(Additions(RowKeys))
    BY <2>1, AdditionsAdd, EachMeasurementInserted
  <2> QED BY <2>2, Zenon
<1>5. PICK t1 \in Seq(Additions(RowKeys)) : t1 = t0 \o a1 /\ Inserts(t1, t0, a1)
  BY <1>2, <1>3, InsertsBoth
<1>6. PICK t2 \in Seq(Additions(RowKeys)) : t2 = t1 \o a2 /\ Inserts(t2, t1, a2)
  BY <1>5, <1>4, InsertsBoth
<1>7. t2 = InsertConditionalEndorsementSeriesRecord(n)
  BY <1>2, <1>3, <1>4, <1>5, <1>6, Zenon DEF InsertConditionalEndorsementSeriesRecord
<1>8. n.key \in Inserted(t2)
  BY <1>2, <1>5, <1>6 DEF Inserts
<1>9. \A T : InsertedInto(a1, T) \subseteq InsertedInto(t2, T) /\ InsertedInto(a2, T) \subseteq InsertedInto(t2, T) /\ InsertedInto(t0, T) \subseteq InsertedInto(t2, T)
  BY <1>5, <1>6 DEF Inserts
<1>10. Inserted(t2) = {n.key} \cup Inserted(a1) \cup Inserted(a2)
  BY <1>2, <1>5, <1>6 DEF Inserts
<1>11. ASSUME NEW K, Has(K, t2)
      PROVE  Gone(t2, DeleteConditionalEndorsementSeriesRecord(SelectConditionalEndorsementSeriesRecord(n, K))) /\ Back(t2, InsertConditionalEndorsementSeriesRecord(SelectConditionalEndorsementSeriesRecord(n, K)))
  <2>1. Has(K, a1) /\ Has(K, a2)
    BY <1>11, <1>10 DEF Has
  <2>2. PICK l \in ConditionalEndorsementSeriesRecords :
          /\ l = SelectConditionalEndorsementSeriesRecord(n, K)
          /\ l.key = n.key
          /\ l.tbl = n.tbl
          /\ l.env = n.env
          /\ l.Selection = Loaded(n.Selection, K, SelectMeasurement)
          /\ l.Addition = Loaded(n.Addition, K, SelectMeasurement)
    <3>1. SelectConditionalEndorsementSeriesRecord(n, K) \in ConditionalEndorsementSeriesRecords
      BY SelectSeriesRecordIn
    <3>2. LET m == SelectConditionalEndorsementSeriesRecord(n, K) IN m.key = n.key /\ m.tbl = n.tbl /\ m.env = n.env /\ m.Selection = Loaded(n.Selection, K, SelectMeasurement) /\ m.Addition = Loaded(n.Addition, K, SelectMeasurement)
      BY DEF SelectConditionalEndorsementSeriesRecord, ConditionalEndorsementSeriesRecords
    <3> QED BY <3>1, <3>2
  <2>3. PICK d1 \in Seq(Removals), r1 \in Seq(Additions(RowKeys)) :
          /\ d1 = Each(l.Selection, DeleteMeasurement) /\ Gone(a1, d1)
          /\ r1 = Each(l.Selection, InsertMeasurement) /\ Back(a1, r1)
    <3>1. l.Selection \in Seq(Measurements)
      BY DEF ConditionalEndorsementSeriesRecords
    <3>2. Each(l.Selection, InsertMeasurement) \in Seq(Additions(RowKeys))
      BY <3>1, AdditionsAdd, EachMeasurementInserted
    <3>3. Each(l.Selection, DeleteMeasurement) \in Seq(Removals)
      BY <3>1, RemovalsRemove, EachMeasurementDeleted
    <3>4. n.Selection \in Seq(Measurements)
      BY DEF ConditionalEndorsementSeriesRecords
    <3>5. Has(K, Each(n.Selection, InsertMeasurement))
      BY <2>1, <1>3
    <3>6. Gone(a1, Each(l.Selection, DeleteMeasurement)) /\ Back(a1, Each(l.Selection, InsertMeasurement))
      BY <3>4, <3>5, <2>2, <1>3, MeasurementSliceReached
    <3> QED BY <3>2, <3>3, <3>6
  <2>4. PICK d2 \in Seq(Removals), r2 \in Seq(Additions(RowKeys)) :
          /\ d2 = Each(l.Addition, DeleteMeasurement) /\ Gone(a2, d2)
          /\ r2 = Each(l.Addition, InsertMeasurement) /\ Back(a2, r2)
    <3>1. l.Addition \in Seq(Measurements)
      BY DEF ConditionalEndorsementSeriesRecords
    <3>2. Each(l.Addition, InsertMeasurement) \in Seq(Additions(RowKeys))
      BY <3>1, AdditionsAdd, EachMeasurementInserted
    <3>3. Each(l.Addition, DeleteMeasurement) \in Seq(Removals)
      BY <3>1, RemovalsRemove, EachMeasurementDeleted
    <3>4. n.Addition \in Seq(Measurements)
      BY DEF ConditionalEndorsementSeriesRecords
    <3>5. Has(K, Each(n.Addition, InsertMeasurement))
      BY <2>1, <1>4
    <3>6. Gone(a2, Each(l.Addition, DeleteMeasurement)) /\ Back(a2, Each(l.Addition, InsertMeasurement))
      BY <3>4, <3>5, <2>2, <1>4, MeasurementSliceReached
    <3> QED BY <3>2, <3>3, <3>6
  <2>5. PICK e1 \in Seq(Removals) : e1 = d1 \o d2 /\ Drops(e1, d1, d2)
    BY <2>3, <2>4, DropsBoth
  <2>6. e1 = DeleteConditionalEndorsementSeriesRecord(l)
    BY <2>3, <2>4, <2>5, Zenon DEF DeleteConditionalEndorsementSeriesRecord
  <2>7. Deleted(d1) \subseteq Deleted(e1) /\ Deleted(d2) \subseteq Deleted(e1)
    BY <2>5 DEF Drops
  <2>8. Insert(l) = Insert(n)
    BY <2>2 DEF Insert
  <2>9. PICK u1 \in Seq(Additions(RowKeys)) : u1 = t0 \o r1 /\ Inserts(u1, t0, r1)
    BY <1>2, <2>3, InsertsBoth
  <2>10. PICK u2 \in Seq(Additions(RowKeys)) : u2 = u1 \o r2 /\ Inserts(u2, u1, r2)
    BY <2>9, <2>4, InsertsBoth
  <2>11. u2 = InsertConditionalEndorsementSeriesRecord(l)
    BY <1>2, <2>8, <2>3, <2>4, <2>9, <2>10, Zenon DEF InsertConditionalEndorsementSeriesRecord
  <2>12. n.key \in Inserted(u2) /\ Inserted(r1) \subseteq Inserted(u2) /\ Inserted(r2) \subseteq Inserted(u2)
    BY <1>2, <2>9, <2>10 DEF Inserts
  <2>13. Gone(t2, e1)
    BY <1>2, <1>9, <1>10, <2>3, <2>4, <2>7 DEF Gone
  <2>14. Back(t2, u2)
    BY <1>9, <1>10, <2>3, <2>4, <2>12 DEF Back
  <2> QED BY <2>2, <2>6, <2>11, <2>13, <2>14
<1> QED BY <1>7, <1>8, <1>11

LEMMA SeriesRecordSliceReached ==
  ASSUME NEW ns \in Seq(ConditionalEndorsementSeriesRecords), NEW K, Has(K, Each(ns, InsertConditionalEndorsementSeriesRecord))
  PROVE  LET here == Loaded(ns, K, SelectConditionalEndorsementSeriesRecord)
         IN Gone(Each(ns, InsertConditionalEndorsementSeriesRecord), Each(here, DeleteConditionalEndorsementSeriesRecord)) /\ Back(Each(ns, InsertConditionalEndorsementSeriesRecord), Each(here, InsertConditionalEndorsementSeriesRecord))
<1>1. PICK ins : ins = [x \in ConditionalEndorsementSeriesRecords |-> InsertConditionalEndorsementSeriesRecord(x)]
  OBVIOUS
<1>2. PICK del : del = [x \in ConditionalEndorsementSeriesRecords |-> DeleteConditionalEndorsementSeriesRecord(SelectConditionalEndorsementSeriesRecord(x, K))]
  OBVIOUS
<1>3. PICK again : again = [x \in ConditionalEndorsementSeriesRecords |-> InsertConditionalEndorsementSeriesRecord(SelectConditionalEndorsementSeriesRecord(x, K))]
  OBVIOUS
<1>4. \A x \in ConditionalEndorsementSeriesRecords : InsertConditionalEndorsementSeriesRecord(x) \in Seq(Additions(RowKeys)) /\ DeleteConditionalEndorsementSeriesRecord(x) \in Seq(Removals)
  BY AdditionsAdd, SeriesRecordInserted, RemovalsRemove, SeriesRecordDeleted
<1>5. /\ Gives(ins, ConditionalEndorsementSeriesRecords, Additions(RowKeys)) /\ Gives(del, ConditionalEndorsementSeriesRecords, Removals)
      /\ Gives(again, ConditionalEndorsementSeriesRecords, Additions(RowKeys))
  <2>1. \A x \in ConditionalEndorsementSeriesRecords : SelectConditionalEndorsementSeriesRecord(x, K) \in ConditionalEndorsementSeriesRecords
    BY SelectSeriesRecordIn
  <2> QED BY <1>1, <1>2, <1>3, <1>4, <2>1 DEF Gives
<1>6. Mapped(ins, ns) = Each(ns, InsertConditionalEndorsementSeriesRecord)
  <2>1. [i \in DOMAIN ns |-> ins[ns[i]]] = [i \in DOMAIN ns |-> InsertConditionalEndorsementSeriesRecord(ns[i])]
    BY <1>1
  <2> QED BY <2>1 DEF Mapped, Each
<1>7. \A x \in ConditionalEndorsementSeriesRecords : x.key \in Inserted(ins[x])
  BY <1>1, SeriesRecordReached
<1>8. Here(ns, K) = ns /\ \A i \in DOMAIN ns : Has(K, ins[ns[i]])
  <2>1. Has(K, Mapped(ins, ns))
    BY <1>6
  <2> QED BY <1>5, <1>7, <2>1, SliceWhole
<1>9. \A i \in DOMAIN ns : Gone(ins[ns[i]], del[ns[i]]) /\ Back(ins[ns[i]], again[ns[i]])
  <2> TAKE i \in DOMAIN ns
  <2>1. PICK x \in ConditionalEndorsementSeriesRecords : x = ns[i]
    OBVIOUS
  <2>2. ins[x] = InsertConditionalEndorsementSeriesRecord(x) /\ del[x] = DeleteConditionalEndorsementSeriesRecord(SelectConditionalEndorsementSeriesRecord(x, K)) /\ again[x] = InsertConditionalEndorsementSeriesRecord(SelectConditionalEndorsementSeriesRecord(x, K))
    BY <1>1, <1>2, <1>3
  <2>3. Has(K, InsertConditionalEndorsementSeriesRecord(x))
    BY <1>8, <2>1, <2>2
  <2> QED BY <2>1, <2>2, <2>3, SeriesRecordReached
<1>10. PICK h : h = Loaded(ns, K, SelectConditionalEndorsementSeriesRecord) /\ h = [i \in DOMAIN ns |-> SelectConditionalEndorsementSeriesRecord(ns[i], K)]
  BY <1>8 DEF Loaded
<1>11. Mapped(del, ns) = Each(h, DeleteConditionalEndorsementSeriesRecord) /\ Mapped(again, ns) = Each(h, InsertConditionalEndorsementSeriesRecord)
  <2>1. /\ [i \in DOMAIN ns |-> del[ns[i]]] = [i \in DOMAIN h |-> DeleteConditionalEndorsementSeriesRecord(h[i])]
        /\ [i \in DOMAIN ns |-> again[ns[i]]] = [i \in DOMAIN h |-> InsertConditionalEndorsementSeriesRecord(h[i])]
    BY <1>2, <1>3, <1>10
  <2> QED BY <2>1 DEF Mapped, Each
<1>12. Gone(Mapped(ins, ns), Mapped(del, ns)) /\ Back(Mapped(ins, ns), Mapped(again, ns))
  BY <1>5, <1>9, SliceReached
<1> QED BY <1>6, <1>10, <1>11, <1>12

LEMMA SeriesTripleReached ==
  ASSUME NEW n \in ConditionalEndorsementSeriesTriples
  PROVE  /\ n.key \in Inserted(InsertConditionalEndorsementSeriesTriple(n))
         /\ \A K : Has(K, InsertConditionalEndorsementSeriesTriple(n)) =>
              /\ Gone(InsertConditionalEndorsementSeriesTriple(n), DeleteConditionalEndorsementSeriesTriple(SelectConditionalEndorsementSeriesTriple(n, K)))
              /\ Back(InsertConditionalEndorsementSeriesTriple(n), InsertConditionalEndorsementSeriesTriple(SelectConditionalEndorsementSeriesTriple(n, K)))
<1>1. HasRow(n) /\ n.env \in Envs
  BY RowAssumption, OwnerTables DEF HasRow, ConditionalEndorsementSeriesTriples, OwnerTable
<1>2. PICK x0 \in Seq(Additions(RowKeys)) : x0 = Insert(n) /\ Inserted(x0) = {n.key}
  <2>1. Insert(n) \in Seq(Additions(RowKeys)) /\ Inserted(Insert(n)) = {n.key}
    BY <1>1, InsertFacts
  <2> QED BY <2>1, Zenon
<1>3. PICK f0 \in Seq(Additions(RowKeys)) : f0 = FindEnv(n)
  <2>1. FindEnv(n) \in Seq(Additions(RowKeys))
    BY <1>1, FindFacts
  <2> QED BY <2>1, Zenon
<1>4. PICK t0 \in Seq(Additions(RowKeys)) : t0 = f0 \o x0 /\ Inserts(t0, f0, x0)
  BY <1>2, <1>3, InsertsBoth
<1>5. PICK a1 \in Seq(Additions(RowKeys)) : a1 = Each(n.Measurements, InsertMeasurement)
  <2>1. n.Measurements \in Seq(Measurements)
    BY DEF ConditionalEndorsementSeriesTriples
  <2>2. Each(n.Measurements, InsertMeasurement) \in Seq(Additions(RowKeys))
    BY <2>1, AdditionsAdd, EachMeasurementInserted
  <2> QED BY <2>2, Zenon
<1>6. PICK a2 \in Seq(Additions(RowKeys)) : a2 = Each(n.AuthorizedBy, Insert)
  <2>1. n.AuthorizedBy \in Seq(AnyLeaves)
    BY AnyLeaf DEF ConditionalEndorsementSeriesTriples
  <2>2. Each(n.AuthorizedBy, Insert) \in Seq(Additions(RowKeys))
    BY <2>1, AdditionsAdd, EachInserted
  <2> QED BY <2>2, Zenon
<1>7. PICK a3 \in Seq(Additions(RowKeys)) : a3 = Each(n.Series, InsertConditionalEndorsementSeriesRecord)
  <2>1. n.Series \in Seq(ConditionalEndorsementSeriesRecords)
    BY DEF ConditionalEndorsementSeriesTriples
  <2>2. Each(n.Series, InsertConditionalEndorsementSeriesRecord) \in Seq(Additions(RowKeys))
    BY <2>1, AdditionsAdd, EachSeriesRecordInserted
  <2> QED BY <2>2, Zenon
<1>8. PICK t1 \in Seq(Additions(RowKeys)) : t1 = t0 \o a1 /\ Inserts(t1, t0, a1)
  BY <1>4, <1>5, InsertsBoth
<1>9. PICK t2 \in Seq(Additions(RowKeys)) : t2 = t1 \o a2 /\ Inserts(t2, t1, a2)
  BY <1>8, <1>6, InsertsBoth
<1>10. PICK t3 \in Seq(Additions(RowKeys)) : t3 = t2 \o a3 /\ Inserts(t3, t2, a3)
  BY <1>9, <1>7, InsertsBoth
<1>11. t3 = InsertConditionalEndorsementSeriesTriple(n)
  BY <1>2, <1>3, <1>4, <1>5, <1>6, <1>7, <1>8, <1>9, <1>10, Zenon DEF InsertConditionalEndorsementSeriesTriple
<1>12. n.key \in Inserted(t3)
  BY <1>2, <1>3, <1>4, <1>8, <1>9, <1>10 DEF Inserts
<1>13. \A T : InsertedInto(a1, T) \subseteq InsertedInto(t3, T) /\ InsertedInto(a2, T) \subseteq InsertedInto(t3, T) /\ InsertedInto(a3, T) \subseteq InsertedInto(t3, T)
  BY <1>8, <1>9, <1>10 DEF Inserts
<1>14. Inserted(t3) = {n.key} \cup Inserted(a1) \cup Inserted(a2) \cup Inserted(a3)
  <2>1. Inserted(f0) = {}
    BY <1>1, <1>3, FindFacts
  <2> QED BY <2>1, <1>2, <1>3, <1>4, <1>8, <1>9, <1>10 DEF Inserts
<1>15. ASSUME NEW K, Has(K, t3)
      PROVE  Gone(t3, DeleteConditionalEndorsementSeriesTriple(SelectConditionalEndorsementSeriesTriple(n, K))) /\ Back(t3, InsertConditionalEndorsementSeriesTriple(SelectConditionalEndorsementSeriesTriple(n, K)))
  <2>1. Has(K, a1) /\ Has(K, a2) /\ Has(K, a3)
    BY <1>15, <1>14 DEF Has
  <2>2. PICK l \in ConditionalEndorsementSeriesTriples :
          /\ l = SelectConditionalEndorsementSeriesTriple(n, K)
          /\ l.key = n.key
          /\ l.tbl = n.tbl
          /\ l.env = n.env
          /\ l.Measurements = Loaded(n.Measurements, K, SelectMeasurement)
          /\ l.AuthorizedBy = Here(n.AuthorizedBy, K)
          /\ l.Series = Loaded(n.Series, K, SelectConditionalEndorsementSeriesRecord)
    <3>1. SelectConditionalEndorsementSeriesTriple(n, K) \in ConditionalEndorsementSeriesTriples
      BY SelectSeriesTripleIn
    <3>2. LET m == SelectConditionalEndorsementSeriesTriple(n, K) IN m.key = n.key /\ m.tbl = n.tbl /\ m.env = n.env /\ m.Measurements = Loaded(n.Measurements, K, SelectMeasurement) /\ m.AuthorizedBy = Here(n.AuthorizedBy, K) /\ m.Series = Loaded(n.Series, K, SelectConditionalEndorsementSeriesRecord)
      BY DEF SelectConditionalEndorsementSeriesTriple, ConditionalEndorsementSeriesTriples
    <3> QED BY <3>1, <3>2
  <2>3. PICK d1 \in Seq(Removals), r1 \in Seq(Additions(RowKeys)) :
          /\ d1 = Each(l.Measurements, DeleteMeasurement) /\ Gone(a1, d1)
          /\ r1 = Each(l.Measurements, InsertMeasurement) /\ Back(a1, r1)
    <3>1. l.Measurements \in Seq(Measurements)
      BY DEF ConditionalEndorsementSeriesTriples
    <3>2. Each(l.Measurements, InsertMeasurement) \in Seq(Additions(RowKeys))
      BY <3>1, AdditionsAdd, EachMeasurementInserted
    <3>3. Each(l.Measurements, DeleteMeasurement) \in Seq(Removals)
      BY <3>1, RemovalsRemove, EachMeasurementDeleted
    <3>4. n.Measurements \in Seq(Measurements)
      BY DEF ConditionalEndorsementSeriesTriples
    <3>5. Has(K, Each(n.Measurements, InsertMeasurement))
      BY <2>1, <1>5
    <3>6. Gone(a1, Each(l.Measurements, DeleteMeasurement)) /\ Back(a1, Each(l.Measurements, InsertMeasurement))
      BY <3>4, <3>5, <2>2, <1>5, MeasurementSliceReached
    <3> QED BY <3>2, <3>3, <3>6
  <2>4. PICK d2 \in Seq(Removals), r2 \in Seq(Additions(RowKeys)) :
          /\ d2 = Each(l.AuthorizedBy, Delete) /\ Gone(a2, d2)
          /\ r2 = Each(l.AuthorizedBy, Insert) /\ Back(a2, r2)
    <3>1. l.AuthorizedBy \in Seq(AnyLeaves)
      BY AnyLeaf DEF ConditionalEndorsementSeriesTriples
    <3>2. Each(l.AuthorizedBy, Insert) \in Seq(Additions(RowKeys))
      BY <3>1, AdditionsAdd, EachInserted
    <3>3. Each(l.AuthorizedBy, Delete) \in Seq(Removals)
      BY <3>1, RemovalsRemove, EachDeleted
    <3>4. n.AuthorizedBy \in Seq(Leaves)
      BY DEF ConditionalEndorsementSeriesTriples
    <3>5. Has(K, Each(n.AuthorizedBy, Insert))
      BY <2>1, <1>6
    <3>6. Gone(a2, Each(l.AuthorizedBy, Delete)) /\ Back(a2, Each(l.AuthorizedBy, Insert))
      BY <3>4, <3>5, <2>2, <1>6, LeafSliceReached
    <3> QED BY <3>2, <3>3, <3>6
  <2>5. PICK d3 \in Seq(Removals), r3 \in Seq(Additions(RowKeys)) :
          /\ d3 = Each(l.Series, DeleteConditionalEndorsementSeriesRecord) /\ Gone(a3, d3)
          /\ r3 = Each(l.Series, InsertConditionalEndorsementSeriesRecord) /\ Back(a3, r3)
    <3>1. l.Series \in Seq(ConditionalEndorsementSeriesRecords)
      BY DEF ConditionalEndorsementSeriesTriples
    <3>2. Each(l.Series, InsertConditionalEndorsementSeriesRecord) \in Seq(Additions(RowKeys))
      BY <3>1, AdditionsAdd, EachSeriesRecordInserted
    <3>3. Each(l.Series, DeleteConditionalEndorsementSeriesRecord) \in Seq(Removals)
      BY <3>1, RemovalsRemove, EachSeriesRecordDeleted
    <3>4. n.Series \in Seq(ConditionalEndorsementSeriesRecords)
      BY DEF ConditionalEndorsementSeriesTriples
    <3>5. Has(K, Each(n.Series, InsertConditionalEndorsementSeriesRecord))
      BY <2>1, <1>7
    <3>6. Gone(a3, Each(l.Series, DeleteConditionalEndorsementSeriesRecord)) /\ Back(a3, Each(l.Series, InsertConditionalEndorsementSeriesRecord))
      BY <3>4, <3>5, <2>2, <1>7, SeriesRecordSliceReached
    <3> QED BY <3>2, <3>3, <3>6
  <2>6. PICK dn \in Seq(Removals) : dn = Delete(l) /\ Deleted(dn) = {n.key}
    <3>1. l.key \in RowKeys
      BY DEF ConditionalEndorsementSeriesTriples
    <3>2. Delete(l) \in Seq(Removals) /\ Deleted(Delete(l)) = {l.key}
      BY <3>1, DeleteFacts
    <3> QED BY <3>2, <2>2, Zenon
  <2>7. PICK o \in Seq(Removals) : o = DeleteIfOrphaned(l, FALSE)
    <3>1. l.key \in RowKeys /\ FALSE \in BOOLEAN
      BY DEF ConditionalEndorsementSeriesTriples
    <3>2. DeleteIfOrphaned(l, FALSE) \in Seq(Removals)
      BY <3>1, OrphanIn
    <3> QED BY <3>2, Zenon
  <2>8. PICK e1 \in Seq(Removals) : e1 = d1 \o d2 /\ Drops(e1, d1, d2)
    BY <2>3, <2>4, DropsBoth
  <2>9. PICK e2 \in Seq(Removals) : e2 = e1 \o d3 /\ Drops(e2, e1, d3)
    BY <2>8, <2>5, DropsBoth
  <2>10. PICK e3 \in Seq(Removals) : e3 = e2 \o dn /\ Drops(e3, e2, dn)
    BY <2>9, <2>6, DropsBoth
  <2>11. PICK e4 \in Seq(Removals) : e4 = e3 \o o /\ Drops(e4, e3, o)
    BY <2>10, <2>7, DropsBoth
  <2>12. e4 = DeleteConditionalEndorsementSeriesTriple(l)
    BY <2>3, <2>4, <2>5, <2>6, <2>7, <2>8, <2>9, <2>10, <2>11, Zenon DEF DeleteConditionalEndorsementSeriesTriple
  <2>13. Deleted(d1) \subseteq Deleted(e4) /\ Deleted(d2) \subseteq Deleted(e4) /\ Deleted(d3) \subseteq Deleted(e4) /\ Deleted(dn) \subseteq Deleted(e4)
    BY <2>8, <2>9, <2>10, <2>11 DEF Drops
  <2>14. Insert(l) = Insert(n) /\ FindEnv(l) = FindEnv(n)
    BY <2>2 DEF Insert, FindEnv
  <2>15. PICK u1 \in Seq(Additions(RowKeys)) : u1 = t0 \o r1 /\ Inserts(u1, t0, r1)
    BY <1>4, <2>3, InsertsBoth
  <2>16. PICK u2 \in Seq(Additions(RowKeys)) : u2 = u1 \o r2 /\ Inserts(u2, u1, r2)
    BY <2>15, <2>4, InsertsBoth
  <2>17. PICK u3 \in Seq(Additions(RowKeys)) : u3 = u2 \o r3 /\ Inserts(u3, u2, r3)
    BY <2>16, <2>5, InsertsBoth
  <2>18. u3 = InsertConditionalEndorsementSeriesTriple(l)
    BY <1>2, <1>3, <1>4, <2>14, <2>3, <2>4, <2>5, <2>15, <2>16, <2>17, Zenon DEF InsertConditionalEndorsementSeriesTriple
  <2>19. n.key \in Inserted(u3) /\ Inserted(r1) \subseteq Inserted(u3) /\ Inserted(r2) \subseteq Inserted(u3) /\ Inserted(r3) \subseteq Inserted(u3)
    BY <1>2, <1>3, <1>4, <2>15, <2>16, <2>17 DEF Inserts
  <2>20. Gone(t3, e4)
    BY <2>6, <1>13, <1>14, <2>3, <2>4, <2>5, <2>13 DEF Gone
  <2>21. Back(t3, u3)
    BY <1>13, <1>14, <2>3, <2>4, <2>5, <2>19 DEF Back
  <2> QED BY <2>2, <2>12, <2>18, <2>20, <2>21
<1> QED BY <1>11, <1>12, <1>15

LEMMA SeriesTripleSliceReached ==
  ASSUME NEW ns \in Seq(ConditionalEndorsementSeriesTriples), NEW K, Has(K, Each(ns, InsertConditionalEndorsementSeriesTriple))
  PROVE  LET here == Loaded(ns, K, SelectConditionalEndorsementSeriesTriple)
         IN Gone(Each(ns, InsertConditionalEndorsementSeriesTriple), Each(here, DeleteConditionalEndorsementSeriesTriple)) /\ Back(Each(ns, InsertConditionalEndorsementSeriesTriple), Each(here, InsertConditionalEndorsementSeriesTriple))
<1>1. PICK ins : ins = [x \in ConditionalEndorsementSeriesTriples |-> InsertConditionalEndorsementSeriesTriple(x)]
  OBVIOUS
<1>2. PICK del : del = [x \in ConditionalEndorsementSeriesTriples |-> DeleteConditionalEndorsementSeriesTriple(SelectConditionalEndorsementSeriesTriple(x, K))]
  OBVIOUS
<1>3. PICK again : again = [x \in ConditionalEndorsementSeriesTriples |-> InsertConditionalEndorsementSeriesTriple(SelectConditionalEndorsementSeriesTriple(x, K))]
  OBVIOUS
<1>4. \A x \in ConditionalEndorsementSeriesTriples : InsertConditionalEndorsementSeriesTriple(x) \in Seq(Additions(RowKeys)) /\ DeleteConditionalEndorsementSeriesTriple(x) \in Seq(Removals)
  BY AdditionsAdd, SeriesTripleInserted, RemovalsRemove, SeriesTripleDeleted
<1>5. /\ Gives(ins, ConditionalEndorsementSeriesTriples, Additions(RowKeys)) /\ Gives(del, ConditionalEndorsementSeriesTriples, Removals)
      /\ Gives(again, ConditionalEndorsementSeriesTriples, Additions(RowKeys))
  <2>1. \A x \in ConditionalEndorsementSeriesTriples : SelectConditionalEndorsementSeriesTriple(x, K) \in ConditionalEndorsementSeriesTriples
    BY SelectSeriesTripleIn
  <2> QED BY <1>1, <1>2, <1>3, <1>4, <2>1 DEF Gives
<1>6. Mapped(ins, ns) = Each(ns, InsertConditionalEndorsementSeriesTriple)
  <2>1. [i \in DOMAIN ns |-> ins[ns[i]]] = [i \in DOMAIN ns |-> InsertConditionalEndorsementSeriesTriple(ns[i])]
    BY <1>1
  <2> QED BY <2>1 DEF Mapped, Each
<1>7. \A x \in ConditionalEndorsementSeriesTriples : x.key \in Inserted(ins[x])
  BY <1>1, SeriesTripleReached
<1>8. Here(ns, K) = ns /\ \A i \in DOMAIN ns : Has(K, ins[ns[i]])
  <2>1. Has(K, Mapped(ins, ns))
    BY <1>6
  <2> QED BY <1>5, <1>7, <2>1, SliceWhole
<1>9. \A i \in DOMAIN ns : Gone(ins[ns[i]], del[ns[i]]) /\ Back(ins[ns[i]], again[ns[i]])
  <2> TAKE i \in DOMAIN ns
  <2>1. PICK x \in ConditionalEndorsementSeriesTriples : x = ns[i]
    OBVIOUS
  <2>2. ins[x] = InsertConditionalEndorsementSeriesTriple(x) /\ del[x] = DeleteConditionalEndorsementSeriesTriple(SelectConditionalEndorsementSeriesTriple(x, K)) /\ again[x] = InsertConditionalEndorsementSeriesTriple(SelectConditionalEndorsementSeriesTriple(x, K))
    BY <1>1, <1>2, <1>3
  <2>3. Has(K, InsertConditionalEndorsementSeriesTriple(x))
    BY <1>8, <2>1, <2>2
  <2> QED BY <2>1, <2>2, <2>3, SeriesTripleReached
<1>10. PICK h : h = Loaded(ns, K, SelectConditionalEndorsementSeriesTriple) /\ h = [i \in DOMAIN ns |-> SelectConditionalEndorsementSeriesTriple(ns[i], K)]
  BY <1>8 DEF Loaded
<1>11. Mapped(del, ns) = Each(h, DeleteConditionalEndorsementSeriesTriple) /\ Mapped(again, ns) = Each(h, InsertConditionalEndorsementSeriesTriple)
  <2>1. /\ [i \in DOMAIN ns |-> del[ns[i]]] = [i \in DOMAIN h |-> DeleteConditionalEndorsementSeriesTriple(h[i])]
        /\ [i \in DOMAIN ns |-> again[ns[i]]] = [i \in DOMAIN h |-> InsertConditionalEndorsementSeriesTriple(h[i])]
    BY <1>2, <1>3, <1>10
  <2> QED BY <2>1 DEF Mapped, Each
<1>12. Gone(Mapped(ins, ns), Mapped(del, ns)) /\ Back(Mapped(ins, ns), Mapped(again, ns))
  BY <1>5, <1>9, SliceReached
<1> QED BY <1>6, <1>10, <1>11, <1>12

LEMMA MembershipTripleReached ==
  ASSUME NEW n \in DomainMembershipTriples
  PROVE  /\ n.key \in Inserted(InsertDomainMembershipTriple(n))
         /\ \A K : Has(K, InsertDomainMembershipTriple(n)) =>
              /\ Gone(InsertDomainMembershipTriple(n), DeleteDomainMembershipTriple(SelectDomainMembershipTriple(n, K)))
              /\ Back(InsertDomainMembershipTriple(n), InsertDomainMembershipTriple(SelectDomainMembershipTriple(n, K)))
<1>1. HasRow(n) /\ n.env \in Envs
  BY RowAssumption, OwnerTables DEF HasRow, DomainMembershipTriples, OwnerTable
<1>2. PICK x0 \in Seq(Additions(RowKeys)) : x0 = Insert(n) /\ Inserted(x0) = {n.key}
  <2>1. Insert(n) \in Seq(Additions(RowKeys)) /\ Inserted(Insert(n)) = {n.key}
    BY <1>1, InsertFacts
  <2> QED BY <2>1, Zenon
<1>3. PICK f0 \in Seq(Additions(RowKeys)) : f0 = FindEnv(n)
  <2>1. FindEnv(n) \in Seq(Additions(RowKeys))
    BY <1>1, FindFacts
  <2> QED BY <2>1, Zenon
<1>4. PICK t0 \in Seq(Additions(RowKeys)) : t0 = f0 \o x0 /\ Inserts(t0, f0, x0)
  BY <1>2, <1>3, InsertsBoth
<1>5. PICK a1 \in Seq(Additions(RowKeys)) : a1 = Each(n.Members, InsertDomainEntry)
  <2>1. n.Members \in Seq(DomainEntries)
    BY DEF DomainMembershipTriples
  <2>2. Each(n.Members, InsertDomainEntry) \in Seq(Additions(RowKeys))
    BY <2>1, AdditionsAdd, EachDomainEntryInserted
  <2> QED BY <2>2, Zenon
<1>6. PICK t1 \in Seq(Additions(RowKeys)) : t1 = t0 \o a1 /\ Inserts(t1, t0, a1)
  BY <1>4, <1>5, InsertsBoth
<1>7. t1 = InsertDomainMembershipTriple(n)
  BY <1>2, <1>3, <1>4, <1>5, <1>6, Zenon DEF InsertDomainMembershipTriple
<1>8. n.key \in Inserted(t1)
  BY <1>2, <1>3, <1>4, <1>6 DEF Inserts
<1>9. \A T : InsertedInto(a1, T) \subseteq InsertedInto(t1, T)
  BY <1>6 DEF Inserts
<1>10. Inserted(t1) = {n.key} \cup Inserted(a1)
  <2>1. Inserted(f0) = {}
    BY <1>1, <1>3, FindFacts
  <2> QED BY <2>1, <1>2, <1>3, <1>4, <1>6 DEF Inserts
<1>11. ASSUME NEW K, Has(K, t1)
      PROVE  Gone(t1, DeleteDomainMembershipTriple(SelectDomainMembershipTriple(n, K))) /\ Back(t1, InsertDomainMembershipTriple(SelectDomainMembershipTriple(n, K)))
  <2>1. Has(K, a1)
    BY <1>11, <1>10 DEF Has
  <2>2. PICK l \in DomainMembershipTriples :
          /\ l = SelectDomainMembershipTriple(n, K)
          /\ l.key = n.key
          /\ l.tbl = n.tbl
          /\ l.env = n.env
          /\ l.Members = Here(n.Members, K)
    <3>1. SelectDomainMembershipTriple(n, K) \in DomainMembershipTriples
      BY SelectMembershipTripleIn
    <3>2. LET m == SelectDomainMembershipTriple(n, K) IN m.key = n.key /\ m.tbl = n.tbl /\ m.env = n.env /\ m.Members = Here(n.Members, K)
      BY DEF SelectDomainMembershipTriple, DomainMembershipTriples
    <3> QED BY <3>1, <3>2
  <2>3. PICK d1 \in Seq(Removals), r1 \in Seq(Additions(RowKeys)) :
          /\ d1 = Each(l.Members, DeleteDomainEntry) /\ Gone(a1, d1)
          /\ r1 = Each(l.Members, InsertDomainEntry) /\ Back(a1, r1)
    <3>1. l.Members \in Seq(DomainEntries)
      BY DEF DomainMembershipTriples
    <3>2. Each(l.Members, InsertDomainEntry) \in Seq(Additions(RowKeys))
      BY <3>1, AdditionsAdd, EachDomainEntryInserted
    <3>3. Each(l.Members, DeleteDomainEntry) \in Seq(Removals)
      BY <3>1, RemovalsRemove, EachDomainEntryDeleted
    <3>4. n.Members \in Seq(DomainEntries)
      BY DEF DomainMembershipTriples
    <3>5. Has(K, Each(n.Members, InsertDomainEntry))
      BY <2>1, <1>5
    <3>6. Gone(a1, Each(l.Members, DeleteDomainEntry)) /\ Back(a1, Each(l.Members, InsertDomainEntry))
      BY <3>4, <3>5, <2>2, <1>5, DomainEntrySliceReached
    <3> QED BY <3>2, <3>3, <3>6
  <2>4. PICK dn \in Seq(Removals) : dn = Delete(l) /\ Deleted(dn) = {n.key}
    <3>1. l.key \in RowKeys
      BY DEF DomainMembershipTriples
    <3>2. Delete(l) \in Seq(Removals) /\ Deleted(Delete(l)) = {l.key}
      BY <3>1, DeleteFacts
    <3> QED BY <3>2, <2>2, Zenon
  <2>5. PICK o \in Seq(Removals) : o = DeleteIfOrphaned(l, TRUE)
    <3>1. l.key \in RowKeys /\ TRUE \in BOOLEAN
      BY DEF DomainMembershipTriples
    <3>2. DeleteIfOrphaned(l, TRUE) \in Seq(Removals)
      BY <3>1, OrphanIn
    <3> QED BY <3>2, Zenon
  <2>6. PICK e1 \in Seq(Removals) : e1 = d1 \o dn /\ Drops(e1, d1, dn)
    BY <2>3, <2>4, DropsBoth
  <2>7. PICK e2 \in Seq(Removals) : e2 = e1 \o o /\ Drops(e2, e1, o)
    BY <2>6, <2>5, DropsBoth
  <2>8. e2 = DeleteDomainMembershipTriple(l)
    BY <2>3, <2>4, <2>5, <2>6, <2>7, Zenon DEF DeleteDomainMembershipTriple
  <2>9. Deleted(d1) \subseteq Deleted(e2) /\ Deleted(dn) \subseteq Deleted(e2)
    BY <2>6, <2>7 DEF Drops
  <2>10. Insert(l) = Insert(n) /\ FindEnv(l) = FindEnv(n)
    BY <2>2 DEF Insert, FindEnv
  <2>11. PICK u1 \in Seq(Additions(RowKeys)) : u1 = t0 \o r1 /\ Inserts(u1, t0, r1)
    BY <1>4, <2>3, InsertsBoth
  <2>12. u1 = InsertDomainMembershipTriple(l)
    BY <1>2, <1>3, <1>4, <2>10, <2>3, <2>11, Zenon DEF InsertDomainMembershipTriple
  <2>13. n.key \in Inserted(u1) /\ Inserted(r1) \subseteq Inserted(u1)
    BY <1>2, <1>3, <1>4, <2>11 DEF Inserts
  <2>14. Gone(t1, e2)
    BY <2>4, <1>9, <1>10, <2>3, <2>9 DEF Gone
  <2>15. Back(t1, u1)
    BY <1>9, <1>10, <2>3, <2>13 DEF Back
  <2> QED BY <2>2, <2>8, <2>12, <2>14, <2>15
<1> QED BY <1>7, <1>8, <1>11

LEMMA MembershipTripleSliceReached ==
  ASSUME NEW ns \in Seq(DomainMembershipTriples), NEW K, Has(K, Each(ns, InsertDomainMembershipTriple))
  PROVE  LET here == Loaded(ns, K, SelectDomainMembershipTriple)
         IN Gone(Each(ns, InsertDomainMembershipTriple), Each(here, DeleteDomainMembershipTriple)) /\ Back(Each(ns, InsertDomainMembershipTriple), Each(here, InsertDomainMembershipTriple))
<1>1. PICK ins : ins = [x \in DomainMembershipTriples |-> InsertDomainMembershipTriple(x)]
  OBVIOUS
<1>2. PICK del : del = [x \in DomainMembershipTriples |-> DeleteDomainMembershipTriple(SelectDomainMembershipTriple(x, K))]
  OBVIOUS
<1>3. PICK again : again = [x \in DomainMembershipTriples |-> InsertDomainMembershipTriple(SelectDomainMembershipTriple(x, K))]
  OBVIOUS
<1>4. \A x \in DomainMembershipTriples : InsertDomainMembershipTriple(x) \in Seq(Additions(RowKeys)) /\ DeleteDomainMembershipTriple(x) \in Seq(Removals)
  BY AdditionsAdd, MembershipTripleInserted, RemovalsRemove, MembershipTripleDeleted
<1>5. /\ Gives(ins, DomainMembershipTriples, Additions(RowKeys)) /\ Gives(del, DomainMembershipTriples, Removals)
      /\ Gives(again, DomainMembershipTriples, Additions(RowKeys))
  <2>1. \A x \in DomainMembershipTriples : SelectDomainMembershipTriple(x, K) \in DomainMembershipTriples
    BY SelectMembershipTripleIn
  <2> QED BY <1>1, <1>2, <1>3, <1>4, <2>1 DEF Gives
<1>6. Mapped(ins, ns) = Each(ns, InsertDomainMembershipTriple)
  <2>1. [i \in DOMAIN ns |-> ins[ns[i]]] = [i \in DOMAIN ns |-> InsertDomainMembershipTriple(ns[i])]
    BY <1>1
  <2> QED BY <2>1 DEF Mapped, Each
<1>7. \A x \in DomainMembershipTriples : x.key \in Inserted(ins[x])
  BY <1>1, MembershipTripleReached
<1>8. Here(ns, K) = ns /\ \A i \in DOMAIN ns : Has(K, ins[ns[i]])
  <2>1. Has(K, Mapped(ins, ns))
    BY <1>6
  <2> QED BY <1>5, <1>7, <2>1, SliceWhole
<1>9. \A i \in DOMAIN ns : Gone(ins[ns[i]], del[ns[i]]) /\ Back(ins[ns[i]], again[ns[i]])
  <2> TAKE i \in DOMAIN ns
  <2>1. PICK x \in DomainMembershipTriples : x = ns[i]
    OBVIOUS
  <2>2. ins[x] = InsertDomainMembershipTriple(x) /\ del[x] = DeleteDomainMembershipTriple(SelectDomainMembershipTriple(x, K)) /\ again[x] = InsertDomainMembershipTriple(SelectDomainMembershipTriple(x, K))
    BY <1>1, <1>2, <1>3
  <2>3. Has(K, InsertDomainMembershipTriple(x))
    BY <1>8, <2>1, <2>2
  <2> QED BY <2>1, <2>2, <2>3, MembershipTripleReached
<1>10. PICK h : h = Loaded(ns, K, SelectDomainMembershipTriple) /\ h = [i \in DOMAIN ns |-> SelectDomainMembershipTriple(ns[i], K)]
  BY <1>8 DEF Loaded
<1>11. Mapped(del, ns) = Each(h, DeleteDomainMembershipTriple) /\ Mapped(again, ns) = Each(h, InsertDomainMembershipTriple)
  <2>1. /\ [i \in DOMAIN ns |-> del[ns[i]]] = [i \in DOMAIN h |-> DeleteDomainMembershipTriple(h[i])]
        /\ [i \in DOMAIN ns |-> again[ns[i]]] = [i \in DOMAIN h |-> InsertDomainMembershipTriple(h[i])]
    BY <1>2, <1>3, <1>10
  <2> QED BY <2>1 DEF Mapped, Each
<1>12. Gone(Mapped(ins, ns), Mapped(del, ns)) /\ Back(Mapped(ins, ns), Mapped(again, ns))
  BY <1>5, <1>9, SliceReached
<1> QED BY <1>6, <1>10, <1>11, <1>12

LEMMA DependencyTripleReached ==
  ASSUME NEW n \in DomainDependencyTriples
  PROVE  /\ n.key \in Inserted(InsertDomainDependencyTriple(n))
         /\ \A K : Has(K, InsertDomainDependencyTriple(n)) =>
              /\ Gone(InsertDomainDependencyTriple(n), DeleteDomainDependencyTriple(SelectDomainDependencyTriple(n, K)))
              /\ Back(InsertDomainDependencyTriple(n), InsertDomainDependencyTriple(SelectDomainDependencyTriple(n, K)))
<1>1. HasRow(n) /\ n.env \in Envs
  BY RowAssumption, OwnerTables DEF HasRow, DomainDependencyTriples, OwnerTable
<1>2. PICK x0 \in Seq(Additions(RowKeys)) : x0 = Insert(n) /\ Inserted(x0) = {n.key}
  <2>1. Insert(n) \in Seq(Additions(RowKeys)) /\ Inserted(Insert(n)) = {n.key}
    BY <1>1, InsertFacts
  <2> QED BY <2>1, Zenon
<1>3. PICK f0 \in Seq(Additions(RowKeys)) : f0 = FindEnv(n)
  <2>1. FindEnv(n) \in Seq(Additions(RowKeys))
    BY <1>1, FindFacts
  <2> QED BY <2>1, Zenon
<1>4. PICK t0 \in Seq(Additions(RowKeys)) : t0 = f0 \o x0 /\ Inserts(t0, f0, x0)
  BY <1>2, <1>3, InsertsBoth
<1>5. PICK a1 \in Seq(Additions(RowKeys)) : a1 = Each(n.Trustees, InsertDomainEntry)
  <2>1. n.Trustees \in Seq(DomainEntries)
    BY DEF DomainDependencyTriples
  <2>2. Each(n.Trustees, InsertDomainEntry) \in Seq(Additions(RowKeys))
    BY <2>1, AdditionsAdd, EachDomainEntryInserted
  <2> QED BY <2>2, Zenon
<1>6. PICK t1 \in Seq(Additions(RowKeys)) : t1 = t0 \o a1 /\ Inserts(t1, t0, a1)
  BY <1>4, <1>5, InsertsBoth
<1>7. t1 = InsertDomainDependencyTriple(n)
  BY <1>2, <1>3, <1>4, <1>5, <1>6, Zenon DEF InsertDomainDependencyTriple
<1>8. n.key \in Inserted(t1)
  BY <1>2, <1>3, <1>4, <1>6 DEF Inserts
<1>9. \A T : InsertedInto(a1, T) \subseteq InsertedInto(t1, T)
  BY <1>6 DEF Inserts
<1>10. Inserted(t1) = {n.key} \cup Inserted(a1)
  <2>1. Inserted(f0) = {}
    BY <1>1, <1>3, FindFacts
  <2> QED BY <2>1, <1>2, <1>3, <1>4, <1>6 DEF Inserts
<1>11. ASSUME NEW K, Has(K, t1)
      PROVE  Gone(t1, DeleteDomainDependencyTriple(SelectDomainDependencyTriple(n, K))) /\ Back(t1, InsertDomainDependencyTriple(SelectDomainDependencyTriple(n, K)))
  <2>1. Has(K, a1)
    BY <1>11, <1>10 DEF Has
  <2>2. PICK l \in DomainDependencyTriples :
          /\ l = SelectDomainDependencyTriple(n, K)
          /\ l.key = n.key
          /\ l.tbl = n.tbl
          /\ l.env = n.env
          /\ l.Trustees = Here(n.Trustees, K)
    <3>1. SelectDomainDependencyTriple(n, K) \in DomainDependencyTriples
      BY SelectDependencyTripleIn
    <3>2. LET m == SelectDomainDependencyTriple(n, K) IN m.key = n.key /\ m.tbl = n.tbl /\ m.env = n.env /\ m.Trustees = Here(n.Trustees, K)
      BY DEF SelectDomainDependencyTriple, DomainDependencyTriples
    <3> QED BY <3>1, <3>2
  <2>3. PICK d1 \in Seq(Removals), r1 \in Seq(Additions(RowKeys)) :
          /\ d1 = Each(l.Trustees, DeleteDomainEntry) /\ Gone(a1, d1)
          /\ r1 = Each(l.Trustees, InsertDomainEntry) /\ Back(a1, r1)
    <3>1. l.Trustees \in Seq(DomainEntries)
      BY DEF DomainDependencyTriples
    <3>2. Each(l.Trustees, InsertDomainEntry) \in Seq(Additions(RowKeys))
      BY <3>1, AdditionsAdd, EachDomainEntryInserted
    <3>3. Each(l.Trustees, DeleteDomainEntry) \in Seq(Removals)
      BY <3>1, RemovalsRemove, EachDomainEntryDeleted
    <3>4. n.Trustees \in Seq(DomainEntries)
      BY DEF DomainDependencyTriples
    <3>5. Has(K, Each(n.Trustees, InsertDomainEntry))
      BY <2>1, <1>5
    <3>6. Gone(a1, Each(l.Trustees, DeleteDomainEntry)) /\ Back(a1, Each(l.Trustees, InsertDomainEntry))
      BY <3>4, <3>5, <2>2, <1>5, DomainEntrySliceReached
    <3> QED BY <3>2, <3>3, <3>6
  <2>4. PICK dn \in Seq(Removals) : dn = Delete(l) /\ Deleted(dn) = {n.key}
    <3>1. l.key \in RowKeys
      BY DEF DomainDependencyTriples
    <3>2. Delete(l) \in Seq(Removals) /\ Deleted(Delete(l)) = {l.key}
      BY <3>1, DeleteFacts
    <3> QED BY <3>2, <2>2, Zenon
  <2>5. PICK o \in Seq(Removals) : o = DeleteIfOrphaned(l, TRUE)
    <3>1. l.key \in RowKeys /\ TRUE \in BOOLEAN
      BY DEF DomainDependencyTriples
    <3>2. DeleteIfOrphaned(l, TRUE) \in Seq(Removals)
      BY <3>1, OrphanIn
    <3> QED BY <3>2, Zenon
  <2>6. PICK e1 \in Seq(Removals) : e1 = d1 \o dn /\ Drops(e1, d1, dn)
    BY <2>3, <2>4, DropsBoth
  <2>7. PICK e2 \in Seq(Removals) : e2 = e1 \o o /\ Drops(e2, e1, o)
    BY <2>6, <2>5, DropsBoth
  <2>8. e2 = DeleteDomainDependencyTriple(l)
    BY <2>3, <2>4, <2>5, <2>6, <2>7, Zenon DEF DeleteDomainDependencyTriple
  <2>9. Deleted(d1) \subseteq Deleted(e2) /\ Deleted(dn) \subseteq Deleted(e2)
    BY <2>6, <2>7 DEF Drops
  <2>10. Insert(l) = Insert(n) /\ FindEnv(l) = FindEnv(n)
    BY <2>2 DEF Insert, FindEnv
  <2>11. PICK u1 \in Seq(Additions(RowKeys)) : u1 = t0 \o r1 /\ Inserts(u1, t0, r1)
    BY <1>4, <2>3, InsertsBoth
  <2>12. u1 = InsertDomainDependencyTriple(l)
    BY <1>2, <1>3, <1>4, <2>10, <2>3, <2>11, Zenon DEF InsertDomainDependencyTriple
  <2>13. n.key \in Inserted(u1) /\ Inserted(r1) \subseteq Inserted(u1)
    BY <1>2, <1>3, <1>4, <2>11 DEF Inserts
  <2>14. Gone(t1, e2)
    BY <2>4, <1>9, <1>10, <2>3, <2>9 DEF Gone
  <2>15. Back(t1, u1)
    BY <1>9, <1>10, <2>3, <2>13 DEF Back
  <2> QED BY <2>2, <2>8, <2>12, <2>14, <2>15
<1> QED BY <1>7, <1>8, <1>11

LEMMA DependencyTripleSliceReached ==
  ASSUME NEW ns \in Seq(DomainDependencyTriples), NEW K, Has(K, Each(ns, InsertDomainDependencyTriple))
  PROVE  LET here == Loaded(ns, K, SelectDomainDependencyTriple)
         IN Gone(Each(ns, InsertDomainDependencyTriple), Each(here, DeleteDomainDependencyTriple)) /\ Back(Each(ns, InsertDomainDependencyTriple), Each(here, InsertDomainDependencyTriple))
<1>1. PICK ins : ins = [x \in DomainDependencyTriples |-> InsertDomainDependencyTriple(x)]
  OBVIOUS
<1>2. PICK del : del = [x \in DomainDependencyTriples |-> DeleteDomainDependencyTriple(SelectDomainDependencyTriple(x, K))]
  OBVIOUS
<1>3. PICK again : again = [x \in DomainDependencyTriples |-> InsertDomainDependencyTriple(SelectDomainDependencyTriple(x, K))]
  OBVIOUS
<1>4. \A x \in DomainDependencyTriples : InsertDomainDependencyTriple(x) \in Seq(Additions(RowKeys)) /\ DeleteDomainDependencyTriple(x) \in Seq(Removals)
  BY AdditionsAdd, DependencyTripleInserted, RemovalsRemove, DependencyTripleDeleted
<1>5. /\ Gives(ins, DomainDependencyTriples, Additions(RowKeys)) /\ Gives(del, DomainDependencyTriples, Removals)
      /\ Gives(again, DomainDependencyTriples, Additions(RowKeys))
  <2>1. \A x \in DomainDependencyTriples : SelectDomainDependencyTriple(x, K) \in DomainDependencyTriples
    BY SelectDependencyTripleIn
  <2> QED BY <1>1, <1>2, <1>3, <1>4, <2>1 DEF Gives
<1>6. Mapped(ins, ns) = Each(ns, InsertDomainDependencyTriple)
  <2>1. [i \in DOMAIN ns |-> ins[ns[i]]] = [i \in DOMAIN ns |-> InsertDomainDependencyTriple(ns[i])]
    BY <1>1
  <2> QED BY <2>1 DEF Mapped, Each
<1>7. \A x \in DomainDependencyTriples : x.key \in Inserted(ins[x])
  BY <1>1, DependencyTripleReached
<1>8. Here(ns, K) = ns /\ \A i \in DOMAIN ns : Has(K, ins[ns[i]])
  <2>1. Has(K, Mapped(ins, ns))
    BY <1>6
  <2> QED BY <1>5, <1>7, <2>1, SliceWhole
<1>9. \A i \in DOMAIN ns : Gone(ins[ns[i]], del[ns[i]]) /\ Back(ins[ns[i]], again[ns[i]])
  <2> TAKE i \in DOMAIN ns
  <2>1. PICK x \in DomainDependencyTriples : x = ns[i]
    OBVIOUS
  <2>2. ins[x] = InsertDomainDependencyTriple(x) /\ del[x] = DeleteDomainDependencyTriple(SelectDomainDependencyTriple(x, K)) /\ again[x] = InsertDomainDependencyTriple(SelectDomainDependencyTriple(x, K))
    BY <1>1, <1>2, <1>3
  <2>3. Has(K, InsertDomainDependencyTriple(x))
    BY <1>8, <2>1, <2>2
  <2> QED BY <2>1, <2>2, <2>3, DependencyTripleReached
<1>10. PICK h : h = Loaded(ns, K, SelectDomainDependencyTriple) /\ h = [i \in DOMAIN ns |-> SelectDomainDependencyTriple(ns[i], K)]
  BY <1>8 DEF Loaded
<1>11. Mapped(del, ns) = Each(h, DeleteDomainDependencyTriple) /\ Mapped(again, ns) = Each(h, InsertDomainDependencyTriple)
  <2>1. /\ [i \in DOMAIN ns |-> del[ns[i]]] = [i \in DOMAIN h |-> DeleteDomainDependencyTriple(h[i])]
        /\ [i \in DOMAIN ns |-> again[ns[i]]] = [i \in DOMAIN h |-> InsertDomainDependencyTriple(h[i])]
    BY <1>2, <1>3, <1>10
  <2> QED BY <2>1 DEF Mapped, Each
<1>12. Gone(Mapped(ins, ns), Mapped(del, ns)) /\ Back(Mapped(ins, ns), Mapped(again, ns))
  BY <1>5, <1>9, SliceReached
<1> QED BY <1>6, <1>10, <1>11, <1>12

LEMMA ModuleTagReached ==
  ASSUME NEW n \in ModuleTags
  PROVE  /\ n.key \in Inserted(InsertModuleTag(n))
         /\ \A K : Has(K, InsertModuleTag(n)) =>
              /\ Gone(InsertModuleTag(n), DeleteModuleTag(SelectModuleTag(n, K)))
              /\ Back(InsertModuleTag(n), InsertModuleTag(SelectModuleTag(n, K)))
<1>1. HasRow(n)
  BY DEF HasRow, ModuleTags, Reached, AllTables
<1>2. PICK t0 \in Seq(Additions(RowKeys)) : t0 = Insert(n) /\ Inserted(t0) = {n.key}
  <2>1. Insert(n) \in Seq(Additions(RowKeys)) /\ Inserted(Insert(n)) = {n.key}
    BY <1>1, InsertFacts
  <2> QED BY <2>1, Zenon
<1>3. PICK a1 \in Seq(Additions(RowKeys)) : a1 = Each(n.Entities, InsertEntity)
  <2>1. n.Entities \in Seq(Entities)
    BY DEF ModuleTags
  <2>2. Each(n.Entities, InsertEntity) \in Seq(Additions(RowKeys))
    BY <2>1, AdditionsAdd, EachEntityInserted
  <2> QED BY <2>2, Zenon
<1>4. PICK a2 \in Seq(Additions(RowKeys)) : a2 = Each(n.LinkedTags, Insert)
  <2>1. n.LinkedTags \in Seq(AnyLeaves)
    BY AnyLeaf DEF ModuleTags
  <2>2. Each(n.LinkedTags, Insert) \in Seq(Additions(RowKeys))
    BY <2>1, AdditionsAdd, EachInserted
  <2> QED BY <2>2, Zenon
<1>5. PICK a3 \in Seq(Additions(RowKeys)) : a3 = Each(n.ValueTriples, InsertValueTriple)
  <2>1. n.ValueTriples \in Seq(ValueTriples)
    BY DEF ModuleTags
  <2>2. Each(n.ValueTriples, InsertValueTriple) \in Seq(Additions(RowKeys))
    BY <2>1, AdditionsAdd, EachValueTripleInserted
  <2> QED BY <2>2, Zenon
<1>6. PICK a4 \in Seq(Additions(RowKeys)) : a4 = Each(n.KeyTriples, InsertKeyTriple)
  <2>1. n.KeyTriples \in Seq(KeyTriples)
    BY DEF ModuleTags
  <2>2. Each(n.KeyTriples, InsertKeyTriple) \in Seq(Additions(RowKeys))
    BY <2>1, AdditionsAdd, EachKeyTripleInserted
  <2> QED BY <2>2, Zenon
<1>7. PICK a5 \in Seq(Additions(RowKeys)) : a5 = Each(n.ConditionalEndorsementTriples, InsertConditionalEndorsementTriple)
  <2>1. n.ConditionalEndorsementTriples \in Seq(ConditionalEndorsementTriples)
    BY DEF ModuleTags
  <2>2. Each(n.ConditionalEndorsementTriples, InsertConditionalEndorsementTriple) \in Seq(Additions(RowKeys))
    BY <2>1, AdditionsAdd, EachConditionalTripleInserted
  <2> QED BY <2>2, Zenon
<1>8. PICK a6 \in Seq(Additions(RowKeys)) : a6 = Each(n.ConditionalEndorsementSeriesTriples, InsertConditionalEndorsementSeriesTriple)
  <2>1. n.ConditionalEndorsementSeriesTriples \in Seq(ConditionalEndorsementSeriesTriples)
    BY DEF ModuleTags
  <2>2. Each(n.ConditionalEndorsementSeriesTriples, InsertConditionalEndorsementSeriesTriple) \in Seq(Additions(RowKeys))
    BY <2>1, AdditionsAdd, EachSeriesTripleInserted
  <2> QED BY <2>2, Zenon
<1>9. PICK a7 \in Seq(Additions(RowKeys)) : a7 = Each(n.DomainDependencyTriples, InsertDomainDependencyTriple)
  <2>1. n.DomainDependencyTriples \in Seq(DomainDependencyTriples)
    BY DEF ModuleTags
  <2>2. Each(n.DomainDependencyTriples, InsertDomainDependencyTriple) \in Seq(Additions(RowKeys))
    BY <2>1, AdditionsAdd, EachDependencyTripleInserted
  <2> QED BY <2>2, Zenon
<1>10. PICK a8 \in Seq(Additions(RowKeys)) : a8 = Each(n.DomainMembershipTriples, InsertDomainMembershipTriple)
  <2>1. n.DomainMembershipTriples \in Seq(DomainMembershipTriples)
    BY DEF ModuleTags
  <2>2. Each(n.DomainMembershipTriples, InsertDomainMembershipTriple) \in Seq(Additions(RowKeys))
    BY <2>1, AdditionsAdd, EachMembershipTripleInserted
  <2> QED BY <2>2, Zenon
<1>11. PICK a9 \in Seq(Additions(RowKeys)) : a9 = Each(n.Extensions, Insert)
  <2>1. n.Extensions \in Seq(AnyLeaves)
    BY AnyLeaf DEF ModuleTags
  <2>2. Each(n.Extensions, Insert) \in Seq(Additions(RowKeys))
    BY <2>1, AdditionsAdd, EachInserted
  <2> QED BY <2>2, Zenon
<1>12. PICK a10 \in Seq(Additions(RowKeys)) : a10 = Each(n.TriplesExtensions, Insert)
  <2>1. n.TriplesExtensions \in Seq(AnyLeaves)
    BY AnyLeaf DEF ModuleTags
  <2>2. Each(n.TriplesExtensions, Insert) \in Seq(Additions(RowKeys))
    BY <2>1, AdditionsAdd, EachInserted
  <2> QED BY <2>2, Zenon
<1>13. PICK t1 \in Seq(Additions(RowKeys)) : t1 = t0 \o a1 /\ Inserts(t1, t0, a1)
  BY <1>2, <1>3, InsertsBoth
<1>14. PICK t2 \in Seq(Additions(RowKeys)) : t2 = t1 \o a2 /\ Inserts(t2, t1, a2)
  BY <1>13, <1>4, InsertsBoth
<1>15. PICK t3 \in Seq(Additions(RowKeys)) : t3 = t2 \o a3 /\ Inserts(t3, t2, a3)
  BY <1>14, <1>5, InsertsBoth
<1>16. PICK t4 \in Seq(Additions(RowKeys)) : t4 = t3 \o a4 /\ Inserts(t4, t3, a4)
  BY <1>15, <1>6, InsertsBoth
<1>17. PICK t5 \in Seq(Additions(RowKeys)) : t5 = t4 \o a5 /\ Inserts(t5, t4, a5)
  BY <1>16, <1>7, InsertsBoth
<1>18. PICK t6 \in Seq(Additions(RowKeys)) : t6 = t5 \o a6 /\ Inserts(t6, t5, a6)
  BY <1>17, <1>8, InsertsBoth
<1>19. PICK t7 \in Seq(Additions(RowKeys)) : t7 = t6 \o a7 /\ Inserts(t7, t6, a7)
  BY <1>18, <1>9, InsertsBoth
<1>20. PICK t8 \in Seq(Additions(RowKeys)) : t8 = t7 \o a8 /\ Inserts(t8, t7, a8)
  BY <1>19, <1>10, InsertsBoth
<1>21. PICK t9 \in Seq(Additions(RowKeys)) : t9 = t8 \o a9 /\ Inserts(t9, t8, a9)
  BY <1>20, <1>11, InsertsBoth
<1>22. PICK t10 \in Seq(Additions(RowKeys)) : t10 = t9 \o a10 /\ Inserts(t10, t9, a10)
  BY <1>21, <1>12, InsertsBoth
<1>23. t10 = InsertModuleTag(n)
  BY <1>2, <1>3, <1>4, <1>5, <1>6, <1>7, <1>8, <1>9, <1>10, <1>11, <1>12, <1>13, <1>14, <1>15, <1>16, <1>17, <1>18, <1>19, <1>20, <1>21, <1>22, Zenon DEF InsertModuleTag
<1>24. n.key \in Inserted(t10)
  BY <1>2, <1>13, <1>14, <1>15, <1>16, <1>17, <1>18, <1>19, <1>20, <1>21, <1>22 DEF Inserts
<1>25. \A T : InsertedInto(a1, T) \subseteq InsertedInto(t10, T) /\ InsertedInto(a2, T) \subseteq InsertedInto(t10, T) /\ InsertedInto(a3, T) \subseteq InsertedInto(t10, T) /\ InsertedInto(a4, T) \subseteq InsertedInto(t10, T) /\ InsertedInto(a5, T) \subseteq InsertedInto(t10, T) /\ InsertedInto(a6, T) \subseteq InsertedInto(t10, T) /\ InsertedInto(a7, T) \subseteq InsertedInto(t10, T) /\ InsertedInto(a8, T) \subseteq InsertedInto(t10, T) /\ InsertedInto(a9, T) \subseteq InsertedInto(t10, T) /\ InsertedInto(a10, T) \subseteq InsertedInto(t10, T)
  <2> TAKE T
  <2>1. InsertedInto(t1, T) = InsertedInto(t0, T) \cup InsertedInto(a1, T)
    BY <1>13 DEF Inserts
  <2>2. InsertedInto(t2, T) = InsertedInto(t1, T) \cup InsertedInto(a2, T)
    BY <1>14 DEF Inserts
  <2>3. InsertedInto(t3, T) = InsertedInto(t2, T) \cup InsertedInto(a3, T)
    BY <1>15 DEF Inserts
  <2>4. InsertedInto(t4, T) = InsertedInto(t3, T) \cup InsertedInto(a4, T)
    BY <1>16 DEF Inserts
  <2>5. InsertedInto(t5, T) = InsertedInto(t4, T) \cup InsertedInto(a5, T)
    BY <1>17 DEF Inserts
  <2>6. InsertedInto(t6, T) = InsertedInto(t5, T) \cup InsertedInto(a6, T)
    BY <1>18 DEF Inserts
  <2>7. InsertedInto(t7, T) = InsertedInto(t6, T) \cup InsertedInto(a7, T)
    BY <1>19 DEF Inserts
  <2>8. InsertedInto(t8, T) = InsertedInto(t7, T) \cup InsertedInto(a8, T)
    BY <1>20 DEF Inserts
  <2>9. InsertedInto(t9, T) = InsertedInto(t8, T) \cup InsertedInto(a9, T)
    BY <1>21 DEF Inserts
  <2>10. InsertedInto(t10, T) = InsertedInto(t9, T) \cup InsertedInto(a10, T)
    BY <1>22 DEF Inserts
  <2> QED BY <2>1, <2>2, <2>3, <2>4, <2>5, <2>6, <2>7, <2>8, <2>9, <2>10
<1>26. Inserted(t10) = {n.key} \cup Inserted(a1) \cup Inserted(a2) \cup Inserted(a3) \cup Inserted(a4) \cup Inserted(a5) \cup Inserted(a6) \cup Inserted(a7) \cup Inserted(a8) \cup Inserted(a9) \cup Inserted(a10)
  BY <1>2, <1>13, <1>14, <1>15, <1>16, <1>17, <1>18, <1>19, <1>20, <1>21, <1>22 DEF Inserts
<1>27. ASSUME NEW K, Has(K, t10)
      PROVE  Gone(t10, DeleteModuleTag(SelectModuleTag(n, K))) /\ Back(t10, InsertModuleTag(SelectModuleTag(n, K)))
  <2>1. Has(K, a1) /\ Has(K, a2) /\ Has(K, a3) /\ Has(K, a4) /\ Has(K, a5) /\ Has(K, a6) /\ Has(K, a7) /\ Has(K, a8) /\ Has(K, a9) /\ Has(K, a10)
    BY <1>27, <1>26 DEF Has
  <2>2. PICK l \in ModuleTags :
          /\ l = SelectModuleTag(n, K)
          /\ l.key = n.key
          /\ l.tbl = n.tbl
          /\ l.env = n.env
          /\ l.Entities = Loaded(n.Entities, K, SelectEntity)
          /\ l.LinkedTags = Here(n.LinkedTags, K)
          /\ l.ValueTriples = Loaded(n.ValueTriples, K, SelectValueTriple)
          /\ l.KeyTriples = Loaded(n.KeyTriples, K, SelectKeyTriple)
          /\ l.ConditionalEndorsementTriples = Loaded(n.ConditionalEndorsementTriples, K, SelectConditionalEndorsementTriple)
          /\ l.ConditionalEndorsementSeriesTriples = Loaded(n.ConditionalEndorsementSeriesTriples, K, SelectConditionalEndorsementSeriesTriple)
          /\ l.DomainDependencyTriples = Loaded(n.DomainDependencyTriples, K, SelectDomainDependencyTriple)
          /\ l.DomainMembershipTriples = Loaded(n.DomainMembershipTriples, K, SelectDomainMembershipTriple)
          /\ l.Extensions = Here(n.Extensions, K)
          /\ l.TriplesExtensions = Here(n.TriplesExtensions, K)
    <3>1. SelectModuleTag(n, K) \in ModuleTags
      BY SelectModuleTagIn
    <3>2. LET m == SelectModuleTag(n, K) IN m.key = n.key /\ m.tbl = n.tbl /\ m.env = n.env /\ m.Entities = Loaded(n.Entities, K, SelectEntity) /\ m.LinkedTags = Here(n.LinkedTags, K) /\ m.ValueTriples = Loaded(n.ValueTriples, K, SelectValueTriple) /\ m.KeyTriples = Loaded(n.KeyTriples, K, SelectKeyTriple) /\ m.ConditionalEndorsementTriples = Loaded(n.ConditionalEndorsementTriples, K, SelectConditionalEndorsementTriple) /\ m.ConditionalEndorsementSeriesTriples = Loaded(n.ConditionalEndorsementSeriesTriples, K, SelectConditionalEndorsementSeriesTriple) /\ m.DomainDependencyTriples = Loaded(n.DomainDependencyTriples, K, SelectDomainDependencyTriple) /\ m.DomainMembershipTriples = Loaded(n.DomainMembershipTriples, K, SelectDomainMembershipTriple) /\ m.Extensions = Here(n.Extensions, K) /\ m.TriplesExtensions = Here(n.TriplesExtensions, K)
      BY DEF SelectModuleTag, ModuleTags
    <3> QED BY <3>1, <3>2
  <2>3. PICK d1 \in Seq(Removals), r1 \in Seq(Additions(RowKeys)) :
          /\ d1 = Each(l.Entities, DeleteEntity) /\ Gone(a1, d1)
          /\ r1 = Each(l.Entities, InsertEntity) /\ Back(a1, r1)
    <3>1. l.Entities \in Seq(Entities)
      BY DEF ModuleTags
    <3>2. Each(l.Entities, InsertEntity) \in Seq(Additions(RowKeys))
      BY <3>1, AdditionsAdd, EachEntityInserted
    <3>3. Each(l.Entities, DeleteEntity) \in Seq(Removals)
      BY <3>1, RemovalsRemove, EachEntityDeleted
    <3>4. n.Entities \in Seq(Entities)
      BY DEF ModuleTags
    <3>5. Has(K, Each(n.Entities, InsertEntity))
      BY <2>1, <1>3
    <3>6. Gone(a1, Each(l.Entities, DeleteEntity)) /\ Back(a1, Each(l.Entities, InsertEntity))
      BY <3>4, <3>5, <2>2, <1>3, EntitySliceReached
    <3> QED BY <3>2, <3>3, <3>6
  <2>4. PICK d2 \in Seq(Removals), r2 \in Seq(Additions(RowKeys)) :
          /\ d2 = Each(l.LinkedTags, Delete) /\ Gone(a2, d2)
          /\ r2 = Each(l.LinkedTags, Insert) /\ Back(a2, r2)
    <3>1. l.LinkedTags \in Seq(AnyLeaves)
      BY AnyLeaf DEF ModuleTags
    <3>2. Each(l.LinkedTags, Insert) \in Seq(Additions(RowKeys))
      BY <3>1, AdditionsAdd, EachInserted
    <3>3. Each(l.LinkedTags, Delete) \in Seq(Removals)
      BY <3>1, RemovalsRemove, EachDeleted
    <3>4. n.LinkedTags \in Seq(Leaves)
      BY DEF ModuleTags
    <3>5. Has(K, Each(n.LinkedTags, Insert))
      BY <2>1, <1>4
    <3>6. Gone(a2, Each(l.LinkedTags, Delete)) /\ Back(a2, Each(l.LinkedTags, Insert))
      BY <3>4, <3>5, <2>2, <1>4, LeafSliceReached
    <3> QED BY <3>2, <3>3, <3>6
  <2>5. PICK d3 \in Seq(Removals), r3 \in Seq(Additions(RowKeys)) :
          /\ d3 = Each(l.ValueTriples, DeleteValueTriple) /\ Gone(a3, d3)
          /\ r3 = Each(l.ValueTriples, InsertValueTriple) /\ Back(a3, r3)
    <3>1. l.ValueTriples \in Seq(ValueTriples)
      BY DEF ModuleTags
    <3>2. Each(l.ValueTriples, InsertValueTriple) \in Seq(Additions(RowKeys))
      BY <3>1, AdditionsAdd, EachValueTripleInserted
    <3>3. Each(l.ValueTriples, DeleteValueTriple) \in Seq(Removals)
      BY <3>1, RemovalsRemove, EachValueTripleDeleted
    <3>4. n.ValueTriples \in Seq(ValueTriples)
      BY DEF ModuleTags
    <3>5. Has(K, Each(n.ValueTriples, InsertValueTriple))
      BY <2>1, <1>5
    <3>6. Gone(a3, Each(l.ValueTriples, DeleteValueTriple)) /\ Back(a3, Each(l.ValueTriples, InsertValueTriple))
      BY <3>4, <3>5, <2>2, <1>5, ValueTripleSliceReached
    <3> QED BY <3>2, <3>3, <3>6
  <2>6. PICK d4 \in Seq(Removals), r4 \in Seq(Additions(RowKeys)) :
          /\ d4 = Each(l.KeyTriples, DeleteKeyTriple) /\ Gone(a4, d4)
          /\ r4 = Each(l.KeyTriples, InsertKeyTriple) /\ Back(a4, r4)
    <3>1. l.KeyTriples \in Seq(KeyTriples)
      BY DEF ModuleTags
    <3>2. Each(l.KeyTriples, InsertKeyTriple) \in Seq(Additions(RowKeys))
      BY <3>1, AdditionsAdd, EachKeyTripleInserted
    <3>3. Each(l.KeyTriples, DeleteKeyTriple) \in Seq(Removals)
      BY <3>1, RemovalsRemove, EachKeyTripleDeleted
    <3>4. n.KeyTriples \in Seq(KeyTriples)
      BY DEF ModuleTags
    <3>5. Has(K, Each(n.KeyTriples, InsertKeyTriple))
      BY <2>1, <1>6
    <3>6. Gone(a4, Each(l.KeyTriples, DeleteKeyTriple)) /\ Back(a4, Each(l.KeyTriples, InsertKeyTriple))
      BY <3>4, <3>5, <2>2, <1>6, KeyTripleSliceReached
    <3> QED BY <3>2, <3>3, <3>6
  <2>7. PICK d5 \in Seq(Removals), r5 \in Seq(Additions(RowKeys)) :
          /\ d5 = Each(l.ConditionalEndorsementTriples, DeleteConditionalEndorsementTriple) /\ Gone(a5, d5)
          /\ r5 = Each(l.ConditionalEndorsementTriples, InsertConditionalEndorsementTriple) /\ Back(a5, r5)
    <3>1. l.ConditionalEndorsementTriples \in Seq(ConditionalEndorsementTriples)
      BY DEF ModuleTags
    <3>2. Each(l.ConditionalEndorsementTriples, InsertConditionalEndorsementTriple) \in Seq(Additions(RowKeys))
      BY <3>1, AdditionsAdd, EachConditionalTripleInserted
    <3>3. Each(l.ConditionalEndorsementTriples, DeleteConditionalEndorsementTriple) \in Seq(Removals)
      BY <3>1, RemovalsRemove, EachConditionalTripleDeleted
    <3>4. n.ConditionalEndorsementTriples \in Seq(ConditionalEndorsementTriples)
      BY DEF ModuleTags
    <3>5. Has(K, Each(n.ConditionalEndorsementTriples, InsertConditionalEndorsementTriple))
      BY <2>1, <1>7
    <3>6. Gone(a5, Each(l.ConditionalEndorsementTriples, DeleteConditionalEndorsementTriple)) /\ Back(a5, Each(l.ConditionalEndorsementTriples, InsertConditionalEndorsementTriple))
      BY <3>4, <3>5, <2>2, <1>7, ConditionalTripleSliceReached
    <3> QED BY <3>2, <3>3, <3>6
  <2>8. PICK d6 \in Seq(Removals), r6 \in Seq(Additions(RowKeys)) :
          /\ d6 = Each(l.ConditionalEndorsementSeriesTriples, DeleteConditionalEndorsementSeriesTriple) /\ Gone(a6, d6)
          /\ r6 = Each(l.ConditionalEndorsementSeriesTriples, InsertConditionalEndorsementSeriesTriple) /\ Back(a6, r6)
    <3>1. l.ConditionalEndorsementSeriesTriples \in Seq(ConditionalEndorsementSeriesTriples)
      BY DEF ModuleTags
    <3>2. Each(l.ConditionalEndorsementSeriesTriples, InsertConditionalEndorsementSeriesTriple) \in Seq(Additions(RowKeys))
      BY <3>1, AdditionsAdd, EachSeriesTripleInserted
    <3>3. Each(l.ConditionalEndorsementSeriesTriples, DeleteConditionalEndorsementSeriesTriple) \in Seq(Removals)
      BY <3>1, RemovalsRemove, EachSeriesTripleDeleted
    <3>4. n.ConditionalEndorsementSeriesTriples \in Seq(ConditionalEndorsementSeriesTriples)
      BY DEF ModuleTags
    <3>5. Has(K, Each(n.ConditionalEndorsementSeriesTriples, InsertConditionalEndorsementSeriesTriple))
      BY <2>1, <1>8
    <3>6. Gone(a6, Each(l.ConditionalEndorsementSeriesTriples, DeleteConditionalEndorsementSeriesTriple)) /\ Back(a6, Each(l.ConditionalEndorsementSeriesTriples, InsertConditionalEndorsementSeriesTriple))
      BY <3>4, <3>5, <2>2, <1>8, SeriesTripleSliceReached
    <3> QED BY <3>2, <3>3, <3>6
  <2>9. PICK d7 \in Seq(Removals), r7 \in Seq(Additions(RowKeys)) :
          /\ d7 = Each(l.DomainDependencyTriples, DeleteDomainDependencyTriple) /\ Gone(a7, d7)
          /\ r7 = Each(l.DomainDependencyTriples, InsertDomainDependencyTriple) /\ Back(a7, r7)
    <3>1. l.DomainDependencyTriples \in Seq(DomainDependencyTriples)
      BY DEF ModuleTags
    <3>2. Each(l.DomainDependencyTriples, InsertDomainDependencyTriple) \in Seq(Additions(RowKeys))
      BY <3>1, AdditionsAdd, EachDependencyTripleInserted
    <3>3. Each(l.DomainDependencyTriples, DeleteDomainDependencyTriple) \in Seq(Removals)
      BY <3>1, RemovalsRemove, EachDependencyTripleDeleted
    <3>4. n.DomainDependencyTriples \in Seq(DomainDependencyTriples)
      BY DEF ModuleTags
    <3>5. Has(K, Each(n.DomainDependencyTriples, InsertDomainDependencyTriple))
      BY <2>1, <1>9
    <3>6. Gone(a7, Each(l.DomainDependencyTriples, DeleteDomainDependencyTriple)) /\ Back(a7, Each(l.DomainDependencyTriples, InsertDomainDependencyTriple))
      BY <3>4, <3>5, <2>2, <1>9, DependencyTripleSliceReached
    <3> QED BY <3>2, <3>3, <3>6
  <2>10. PICK d8 \in Seq(Removals), r8 \in Seq(Additions(RowKeys)) :
          /\ d8 = Each(l.DomainMembershipTriples, DeleteDomainMembershipTriple) /\ Gone(a8, d8)
          /\ r8 = Each(l.DomainMembershipTriples, InsertDomainMembershipTriple) /\ Back(a8, r8)
    <3>1. l.DomainMembershipTriples \in Seq(DomainMembershipTriples)
      BY DEF ModuleTags
    <3>2. Each(l.DomainMembershipTriples, InsertDomainMembershipTriple) \in Seq(Additions(RowKeys))
      BY <3>1, AdditionsAdd, EachMembershipTripleInserted
    <3>3. Each(l.DomainMembershipTriples, DeleteDomainMembershipTriple) \in Seq(Removals)
      BY <3>1, RemovalsRemove, EachMembershipTripleDeleted
    <3>4. n.DomainMembershipTriples \in Seq(DomainMembershipTriples)
      BY DEF ModuleTags
    <3>5. Has(K, Each(n.DomainMembershipTriples, InsertDomainMembershipTriple))
      BY <2>1, <1>10
    <3>6. Gone(a8, Each(l.DomainMembershipTriples, DeleteDomainMembershipTriple)) /\ Back(a8, Each(l.DomainMembershipTriples, InsertDomainMembershipTriple))
      BY <3>4, <3>5, <2>2, <1>10, MembershipTripleSliceReached
    <3> QED BY <3>2, <3>3, <3>6
  <2>11. PICK d9 \in Seq(Removals), r9 \in Seq(Additions(RowKeys)) :
          /\ d9 = Each(l.Extensions, Delete) /\ Gone(a9, d9)
          /\ r9 = Each(l.Extensions, Insert) /\ Back(a9, r9)
    <3>1. l.Extensions \in Seq(AnyLeaves)
      BY AnyLeaf DEF ModuleTags
    <3>2. Each(l.Extensions, Insert) \in Seq(Additions(RowKeys))
      BY <3>1, AdditionsAdd, EachInserted
    <3>3. Each(l.Extensions, Delete) \in Seq(Removals)
      BY <3>1, RemovalsRemove, EachDeleted
    <3>4. n.Extensions \in Seq(Leaves)
      BY DEF ModuleTags
    <3>5. Has(K, Each(n.Extensions, Insert))
      BY <2>1, <1>11
    <3>6. Gone(a9, Each(l.Extensions, Delete)) /\ Back(a9, Each(l.Extensions, Insert))
      BY <3>4, <3>5, <2>2, <1>11, LeafSliceReached
    <3> QED BY <3>2, <3>3, <3>6
  <2>12. PICK d10 \in Seq(Removals), r10 \in Seq(Additions(RowKeys)) :
          /\ d10 = Each(l.TriplesExtensions, Delete) /\ Gone(a10, d10)
          /\ r10 = Each(l.TriplesExtensions, Insert) /\ Back(a10, r10)
    <3>1. l.TriplesExtensions \in Seq(AnyLeaves)
      BY AnyLeaf DEF ModuleTags
    <3>2. Each(l.TriplesExtensions, Insert) \in Seq(Additions(RowKeys))
      BY <3>1, AdditionsAdd, EachInserted
    <3>3. Each(l.TriplesExtensions, Delete) \in Seq(Removals)
      BY <3>1, RemovalsRemove, EachDeleted
    <3>4. n.TriplesExtensions \in Seq(Leaves)
      BY DEF ModuleTags
    <3>5. Has(K, Each(n.TriplesExtensions, Insert))
      BY <2>1, <1>12
    <3>6. Gone(a10, Each(l.TriplesExtensions, Delete)) /\ Back(a10, Each(l.TriplesExtensions, Insert))
      BY <3>4, <3>5, <2>2, <1>12, LeafSliceReached
    <3> QED BY <3>2, <3>3, <3>6
  <2>13. PICK dn \in Seq(Removals) : dn = Delete(l) /\ Deleted(dn) = {n.key}
    <3>1. l.key \in RowKeys
      BY DEF ModuleTags
    <3>2. Delete(l) \in Seq(Removals) /\ Deleted(Delete(l)) = {l.key}
      BY <3>1, DeleteFacts
    <3> QED BY <3>2, <2>2, Zenon
  <2>14. PICK e1 \in Seq(Removals) : e1 = d2 \o d1 /\ Drops(e1, d2, d1)
    BY <2>4, <2>3, DropsBoth
  <2>15. PICK e2 \in Seq(Removals) : e2 = e1 \o d3 /\ Drops(e2, e1, d3)
    BY <2>14, <2>5, DropsBoth
  <2>16. PICK e3 \in Seq(Removals) : e3 = e2 \o d4 /\ Drops(e3, e2, d4)
    BY <2>15, <2>6, DropsBoth
  <2>17. PICK e4 \in Seq(Removals) : e4 = e3 \o d5 /\ Drops(e4, e3, d5)
    BY <2>16, <2>7, DropsBoth
  <2>18. PICK e5 \in Seq(Removals) : e5 = e4 \o d6 /\ Drops(e5, e4, d6)
    BY <2>17, <2>8, DropsBoth
  <2>19. PICK e6 \in Seq(Removals) : e6 = e5 \o d7 /\ Drops(e6, e5, d7)
    BY <2>18, <2>9, DropsBoth
  <2>20. PICK e7 \in Seq(Removals) : e7 = e6 \o d8 /\ Drops(e7, e6, d8)
    BY <2>19, <2>10, DropsBoth
  <2>21. PICK e8 \in Seq(Removals) : e8 = e7 \o d9 /\ Drops(e8, e7, d9)
    BY <2>20, <2>11, DropsBoth
  <2>22. PICK e9 \in Seq(Removals) : e9 = e8 \o d10 /\ Drops(e9, e8, d10)
    BY <2>21, <2>12, DropsBoth
  <2>23. PICK e10 \in Seq(Removals) : e10 = e9 \o dn /\ Drops(e10, e9, dn)
    BY <2>22, <2>13, DropsBoth
  <2>24. e10 = DeleteModuleTag(l)
    BY <2>3, <2>4, <2>5, <2>6, <2>7, <2>8, <2>9, <2>10, <2>11, <2>12, <2>13, <2>14, <2>15, <2>16, <2>17, <2>18, <2>19, <2>20, <2>21, <2>22, <2>23, Zenon DEF DeleteModuleTag, DeleteOwned
  <2>25. Deleted(d2) \subseteq Deleted(e10) /\ Deleted(d1) \subseteq Deleted(e10) /\ Deleted(d3) \subseteq Deleted(e10) /\ Deleted(d4) \subseteq Deleted(e10) /\ Deleted(d5) \subseteq Deleted(e10) /\ Deleted(d6) \subseteq Deleted(e10) /\ Deleted(d7) \subseteq Deleted(e10) /\ Deleted(d8) \subseteq Deleted(e10) /\ Deleted(d9) \subseteq Deleted(e10) /\ Deleted(d10) \subseteq Deleted(e10) /\ Deleted(dn) \subseteq Deleted(e10)
    BY <2>14, <2>15, <2>16, <2>17, <2>18, <2>19, <2>20, <2>21, <2>22, <2>23 DEF Drops
  <2>26. Insert(l) = Insert(n)
    BY <2>2 DEF Insert
  <2>27. PICK u1 \in Seq(Additions(RowKeys)) : u1 = t0 \o r1 /\ Inserts(u1, t0, r1)
    BY <1>2, <2>3, InsertsBoth
  <2>28. PICK u2 \in Seq(Additions(RowKeys)) : u2 = u1 \o r2 /\ Inserts(u2, u1, r2)
    BY <2>27, <2>4, InsertsBoth
  <2>29. PICK u3 \in Seq(Additions(RowKeys)) : u3 = u2 \o r3 /\ Inserts(u3, u2, r3)
    BY <2>28, <2>5, InsertsBoth
  <2>30. PICK u4 \in Seq(Additions(RowKeys)) : u4 = u3 \o r4 /\ Inserts(u4, u3, r4)
    BY <2>29, <2>6, InsertsBoth
  <2>31. PICK u5 \in Seq(Additions(RowKeys)) : u5 = u4 \o r5 /\ Inserts(u5, u4, r5)
    BY <2>30, <2>7, InsertsBoth
  <2>32. PICK u6 \in Seq(Additions(RowKeys)) : u6 = u5 \o r6 /\ Inserts(u6, u5, r6)
    BY <2>31, <2>8, InsertsBoth
  <2>33. PICK u7 \in Seq(Additions(RowKeys)) : u7 = u6 \o r7 /\ Inserts(u7, u6, r7)
    BY <2>32, <2>9, InsertsBoth
  <2>34. PICK u8 \in Seq(Additions(RowKeys)) : u8 = u7 \o r8 /\ Inserts(u8, u7, r8)
    BY <2>33, <2>10, InsertsBoth
  <2>35. PICK u9 \in Seq(Additions(RowKeys)) : u9 = u8 \o r9 /\ Inserts(u9, u8, r9)
    BY <2>34, <2>11, InsertsBoth
  <2>36. PICK u10 \in Seq(Additions(RowKeys)) : u10 = u9 \o r10 /\ Inserts(u10, u9, r10)
    BY <2>35, <2>12, InsertsBoth
  <2>37. u10 = InsertModuleTag(l)
    BY <1>2, <2>26, <2>3, <2>4, <2>5, <2>6, <2>7, <2>8, <2>9, <2>10, <2>11, <2>12, <2>27, <2>28, <2>29, <2>30, <2>31, <2>32, <2>33, <2>34, <2>35, <2>36, Zenon DEF InsertModuleTag
  <2>38. n.key \in Inserted(u10) /\ Inserted(r1) \subseteq Inserted(u10) /\ Inserted(r2) \subseteq Inserted(u10) /\ Inserted(r3) \subseteq Inserted(u10) /\ Inserted(r4) \subseteq Inserted(u10) /\ Inserted(r5) \subseteq Inserted(u10) /\ Inserted(r6) \subseteq Inserted(u10) /\ Inserted(r7) \subseteq Inserted(u10) /\ Inserted(r8) \subseteq Inserted(u10) /\ Inserted(r9) \subseteq Inserted(u10) /\ Inserted(r10) \subseteq Inserted(u10)
    BY <1>2, <2>27, <2>28, <2>29, <2>30, <2>31, <2>32, <2>33, <2>34, <2>35, <2>36 DEF Inserts
  <2>39. Gone(t10, e10)
    BY <2>13, <1>25, <1>26, <2>3, <2>4, <2>5, <2>6, <2>7, <2>8, <2>9, <2>10, <2>11, <2>12, <2>25 DEF Gone
  <2>40. Back(t10, u10)
    BY <1>25, <1>26, <2>3, <2>4, <2>5, <2>6, <2>7, <2>8, <2>9, <2>10, <2>11, <2>12, <2>38 DEF Back
  <2> QED BY <2>2, <2>24, <2>37, <2>39, <2>40
<1> QED BY <1>23, <1>24, <1>27

LEMMA ModuleTagSliceReached ==
  ASSUME NEW ns \in Seq(ModuleTags), NEW K, Has(K, Each(ns, InsertModuleTag))
  PROVE  LET here == Loaded(ns, K, SelectModuleTag)
         IN Gone(Each(ns, InsertModuleTag), Each(here, DeleteModuleTag)) /\ Back(Each(ns, InsertModuleTag), Each(here, InsertModuleTag))
<1>1. PICK ins : ins = [x \in ModuleTags |-> InsertModuleTag(x)]
  OBVIOUS
<1>2. PICK del : del = [x \in ModuleTags |-> DeleteModuleTag(SelectModuleTag(x, K))]
  OBVIOUS
<1>3. PICK again : again = [x \in ModuleTags |-> InsertModuleTag(SelectModuleTag(x, K))]
  OBVIOUS
<1>4. \A x \in ModuleTags : InsertModuleTag(x) \in Seq(Additions(RowKeys)) /\ DeleteModuleTag(x) \in Seq(Removals)
  BY AdditionsAdd, ModuleTagInserted, RemovalsRemove, ModuleTagDeleted
<1>5. /\ Gives(ins, ModuleTags, Additions(RowKeys)) /\ Gives(del, ModuleTags, Removals)
      /\ Gives(again, ModuleTags, Additions(RowKeys))
  <2>1. \A x \in ModuleTags : SelectModuleTag(x, K) \in ModuleTags
    BY SelectModuleTagIn
  <2> QED BY <1>1, <1>2, <1>3, <1>4, <2>1 DEF Gives
<1>6. Mapped(ins, ns) = Each(ns, InsertModuleTag)
  <2>1. [i \in DOMAIN ns |-> ins[ns[i]]] = [i \in DOMAIN ns |-> InsertModuleTag(ns[i])]
    BY <1>1
  <2> QED BY <2>1 DEF Mapped, Each
<1>7. \A x \in ModuleTags : x.key \in Inserted(ins[x])
  BY <1>1, ModuleTagReached
<1>8. Here(ns, K) = ns /\ \A i \in DOMAIN ns : Has(K, ins[ns[i]])
  <2>1. Has(K, Mapped(ins, ns))
    BY <1>6
  <2> QED BY <1>5, <1>7, <2>1, SliceWhole
<1>9. \A i \in DOMAIN ns : Gone(ins[ns[i]], del[ns[i]]) /\ Back(ins[ns[i]], again[ns[i]])
  <2> TAKE i \in DOMAIN ns
  <2>1. PICK x \in ModuleTags : x = ns[i]
    OBVIOUS
  <2>2. ins[x] = InsertModuleTag(x) /\ del[x] = DeleteModuleTag(SelectModuleTag(x, K)) /\ again[x] = InsertModuleTag(SelectModuleTag(x, K))
    BY <1>1, <1>2, <1>3
  <2>3. Has(K, InsertModuleTag(x))
    BY <1>8, <2>1, <2>2
  <2> QED BY <2>1, <2>2, <2>3, ModuleTagReached
<1>10. PICK h : h = Loaded(ns, K, SelectModuleTag) /\ h = [i \in DOMAIN ns |-> SelectModuleTag(ns[i], K)]
  BY <1>8 DEF Loaded
<1>11. Mapped(del, ns) = Each(h, DeleteModuleTag) /\ Mapped(again, ns) = Each(h, InsertModuleTag)
  <2>1. /\ [i \in DOMAIN ns |-> del[ns[i]]] = [i \in DOMAIN h |-> DeleteModuleTag(h[i])]
        /\ [i \in DOMAIN ns |-> again[ns[i]]] = [i \in DOMAIN h |-> InsertModuleTag(h[i])]
    BY <1>2, <1>3, <1>10
  <2> QED BY <2>1 DEF Mapped, Each
<1>12. Gone(Mapped(ins, ns), Mapped(del, ns)) /\ Back(Mapped(ins, ns), Mapped(again, ns))
  BY <1>5, <1>9, SliceReached
<1> QED BY <1>6, <1>10, <1>11, <1>12

LEMMA ManifestReached ==
  ASSUME NEW n \in Manifests
  PROVE  /\ n.key \in Inserted(InsertManifest(n))
         /\ \A K : Has(K, InsertManifest(n)) =>
              /\ Gone(InsertManifest(n), DeleteManifest(SelectManifest(n, K)))
              /\ Back(InsertManifest(n), InsertManifest(SelectManifest(n, K)))
<1>1. HasRow(n)
  BY DEF HasRow, Manifests, Reached, AllTables
<1>2. PICK t0 \in Seq(Additions(RowKeys)) : t0 = Insert(n) /\ Inserted(t0) = {n.key}
  <2>1. Insert(n) \in Seq(Additions(RowKeys)) /\ Inserted(Insert(n)) = {n.key}
    BY <1>1, InsertFacts
  <2> QED BY <2>1, Zenon
<1>3. PICK a1 \in Seq(Additions(RowKeys)) : a1 = Each(n.Entities, InsertEntity)
  <2>1. n.Entities \in Seq(Entities)
    BY DEF Manifests
  <2>2. Each(n.Entities, InsertEntity) \in Seq(Additions(RowKeys))
    BY <2>1, AdditionsAdd, EachEntityInserted
  <2> QED BY <2>2, Zenon
<1>4. PICK a2 \in Seq(Additions(RowKeys)) : a2 = Each(n.DependentRIMs, InsertLocator)
  <2>1. n.DependentRIMs \in Seq(Locators)
    BY DEF Manifests
  <2>2. Each(n.DependentRIMs, InsertLocator) \in Seq(Additions(RowKeys))
    BY <2>1, AdditionsAdd, EachLocatorInserted
  <2> QED BY <2>2, Zenon
<1>5. PICK a3 \in Seq(Additions(RowKeys)) : a3 = Each(n.ModuleTags, InsertModuleTag)
  <2>1. n.ModuleTags \in Seq(ModuleTags)
    BY DEF Manifests
  <2>2. Each(n.ModuleTags, InsertModuleTag) \in Seq(Additions(RowKeys))
    BY <2>1, AdditionsAdd, EachModuleTagInserted
  <2> QED BY <2>2, Zenon
<1>6. PICK a4 \in Seq(Additions(RowKeys)) : a4 = Each(n.Extensions, Insert)
  <2>1. n.Extensions \in Seq(AnyLeaves)
    BY AnyLeaf DEF Manifests
  <2>2. Each(n.Extensions, Insert) \in Seq(Additions(RowKeys))
    BY <2>1, AdditionsAdd, EachInserted
  <2> QED BY <2>2, Zenon
<1>7. PICK t1 \in Seq(Additions(RowKeys)) : t1 = t0 \o a1 /\ Inserts(t1, t0, a1)
  BY <1>2, <1>3, InsertsBoth
<1>8. PICK t2 \in Seq(Additions(RowKeys)) : t2 = t1 \o a2 /\ Inserts(t2, t1, a2)
  BY <1>7, <1>4, InsertsBoth
<1>9. PICK t3 \in Seq(Additions(RowKeys)) : t3 = t2 \o a3 /\ Inserts(t3, t2, a3)
  BY <1>8, <1>5, InsertsBoth
<1>10. PICK t4 \in Seq(Additions(RowKeys)) : t4 = t3 \o a4 /\ Inserts(t4, t3, a4)
  BY <1>9, <1>6, InsertsBoth
<1>11. t4 = InsertManifest(n)
  BY <1>2, <1>3, <1>4, <1>5, <1>6, <1>7, <1>8, <1>9, <1>10, Zenon DEF InsertManifest
<1>12. n.key \in Inserted(t4)
  BY <1>2, <1>7, <1>8, <1>9, <1>10 DEF Inserts
<1>13. \A T : InsertedInto(a1, T) \subseteq InsertedInto(t4, T) /\ InsertedInto(a2, T) \subseteq InsertedInto(t4, T) /\ InsertedInto(a3, T) \subseteq InsertedInto(t4, T) /\ InsertedInto(a4, T) \subseteq InsertedInto(t4, T)
  BY <1>7, <1>8, <1>9, <1>10 DEF Inserts
<1>14. Inserted(t4) = {n.key} \cup Inserted(a1) \cup Inserted(a2) \cup Inserted(a3) \cup Inserted(a4)
  BY <1>2, <1>7, <1>8, <1>9, <1>10 DEF Inserts
<1>15. ASSUME NEW K, Has(K, t4)
      PROVE  Gone(t4, DeleteManifest(SelectManifest(n, K))) /\ Back(t4, InsertManifest(SelectManifest(n, K)))
  <2>1. Has(K, a1) /\ Has(K, a2) /\ Has(K, a3) /\ Has(K, a4)
    BY <1>15, <1>14 DEF Has
  <2>2. PICK l \in AnyManifests :
          /\ l = SelectManifest(n, K)
          /\ l.key = n.key
          /\ l.tbl = n.tbl
          /\ l.env = n.env
          /\ l.Entities = Loaded(n.Entities, K, SelectEntity)
          /\ l.DependentRIMs = Loaded(n.DependentRIMs, K, SelectLocator)
          /\ l.ModuleTags = Loaded(n.ModuleTags, K, SelectModuleTag)
          /\ l.Extensions = Here(n.Namesakes, K)
    <3>1. SelectManifest(n, K) \in AnyManifests
      BY SelectManifestIn
    <3>2. LET m == SelectManifest(n, K) IN m.key = n.key /\ m.tbl = n.tbl /\ m.env = n.env /\ m.Entities = Loaded(n.Entities, K, SelectEntity) /\ m.DependentRIMs = Loaded(n.DependentRIMs, K, SelectLocator) /\ m.ModuleTags = Loaded(n.ModuleTags, K, SelectModuleTag) /\ m.Extensions = Here(n.Namesakes, K)
      BY DEF SelectManifest, Manifests
    <3> QED BY <3>1, <3>2
  <2>3. PICK d1 \in Seq(Removals), r1 \in Seq(Additions(RowKeys)) :
          /\ d1 = Each(l.Entities, DeleteEntity) /\ Gone(a1, d1)
          /\ r1 = Each(l.Entities, InsertEntity) /\ Back(a1, r1)
    <3>1. l.Entities \in Seq(Entities)
      BY DEF AnyManifests
    <3>2. Each(l.Entities, InsertEntity) \in Seq(Additions(RowKeys))
      BY <3>1, AdditionsAdd, EachEntityInserted
    <3>3. Each(l.Entities, DeleteEntity) \in Seq(Removals)
      BY <3>1, RemovalsRemove, EachEntityDeleted
    <3>4. n.Entities \in Seq(Entities)
      BY DEF Manifests
    <3>5. Has(K, Each(n.Entities, InsertEntity))
      BY <2>1, <1>3
    <3>6. Gone(a1, Each(l.Entities, DeleteEntity)) /\ Back(a1, Each(l.Entities, InsertEntity))
      BY <3>4, <3>5, <2>2, <1>3, EntitySliceReached
    <3> QED BY <3>2, <3>3, <3>6
  <2>4. PICK d2 \in Seq(Removals), r2 \in Seq(Additions(RowKeys)) :
          /\ d2 = Each(l.DependentRIMs, DeleteLocator) /\ Gone(a2, d2)
          /\ r2 = Each(l.DependentRIMs, InsertLocator) /\ Back(a2, r2)
    <3>1. l.DependentRIMs \in Seq(Locators)
      BY DEF AnyManifests
    <3>2. Each(l.DependentRIMs, InsertLocator) \in Seq(Additions(RowKeys))
      BY <3>1, AdditionsAdd, EachLocatorInserted
    <3>3. Each(l.DependentRIMs, DeleteLocator) \in Seq(Removals)
      BY <3>1, RemovalsRemove, EachLocatorDeleted
    <3>4. n.DependentRIMs \in Seq(Locators)
      BY DEF Manifests
    <3>5. Has(K, Each(n.DependentRIMs, InsertLocator))
      BY <2>1, <1>4
    <3>6. Gone(a2, Each(l.DependentRIMs, DeleteLocator)) /\ Back(a2, Each(l.DependentRIMs, InsertLocator))
      BY <3>4, <3>5, <2>2, <1>4, LocatorSliceReached
    <3> QED BY <3>2, <3>3, <3>6
  <2>5. PICK d3 \in Seq(Removals), r3 \in Seq(Additions(RowKeys)) :
          /\ d3 = Each(l.ModuleTags, DeleteModuleTag) /\ Gone(a3, d3)
          /\ r3 = Each(l.ModuleTags, InsertModuleTag) /\ Back(a3, r3)
    <3>1. l.ModuleTags \in Seq(ModuleTags)
      BY DEF AnyManifests
    <3>2. Each(l.ModuleTags, InsertModuleTag) \in Seq(Additions(RowKeys))
      BY <3>1, AdditionsAdd, EachModuleTagInserted
    <3>3. Each(l.ModuleTags, DeleteModuleTag) \in Seq(Removals)
      BY <3>1, RemovalsRemove, EachModuleTagDeleted
    <3>4. n.ModuleTags \in Seq(ModuleTags)
      BY DEF Manifests
    <3>5. Has(K, Each(n.ModuleTags, InsertModuleTag))
      BY <2>1, <1>5
    <3>6. Gone(a3, Each(l.ModuleTags, DeleteModuleTag)) /\ Back(a3, Each(l.ModuleTags, InsertModuleTag))
      BY <3>4, <3>5, <2>2, <1>5, ModuleTagSliceReached
    <3> QED BY <3>2, <3>3, <3>6
  <2>6. PICK r4 \in Seq(Additions(RowKeys)) :
          /\ Inserted(a4) \subseteq InsertedInto(a4, Forgotten)
          /\ r4 = Each(l.Extensions, Insert) /\ Back(a4, r4)
    <3>1. l.Extensions \in Seq(AnyLeaves)
      BY AnyLeaf DEF AnyManifests
    <3>2. Each(l.Extensions, Insert) \in Seq(Additions(RowKeys))
      BY <3>1, AdditionsAdd, EachInserted
    <3>4. Inserted(a4) \subseteq InsertedInto(a4, {"extensions/manifest"})
      <4>1. n.Extensions \in Seq(LeavesIn({"extensions/manifest"})) /\ {"extensions/manifest"} \in SUBSET AllTables
        BY DEF Manifests, AllTables, Forgotten
      <4> QED BY <4>1, <1>6, SliceInto
    <3>5. Inserted(a4) \subseteq InsertedInto(a4, Forgotten) /\ Inserted(a4) \subseteq InsertedInto(a4, NotLoaded)
      BY <3>4 DEF InsertedInto, Forgotten, NotLoaded
    <3> QED BY <3>2, <3>5 DEF Gone, Back
  <2>7. PICK dn \in Seq(Removals) : dn = Delete(l) /\ Deleted(dn) = {n.key}
    <3>1. l.key \in RowKeys
      BY DEF AnyManifests
    <3>2. Delete(l) \in Seq(Removals) /\ Deleted(Delete(l)) = {l.key}
      BY <3>1, DeleteFacts
    <3> QED BY <3>2, <2>2, Zenon
  <2>8. PICK e1 \in Seq(Removals) : e1 = d1 \o d3 /\ Drops(e1, d1, d3)
    BY <2>3, <2>5, DropsBoth
  <2>9. PICK e2 \in Seq(Removals) : e2 = e1 \o d2 /\ Drops(e2, e1, d2)
    BY <2>8, <2>4, DropsBoth
  <2>10. PICK e3 \in Seq(Removals) : e3 = e2 \o dn /\ Drops(e3, e2, dn)
    BY <2>9, <2>7, DropsBoth
  <2>11. e3 = DeleteManifest(l)
    BY <2>3, <2>4, <2>5, <2>7, <2>8, <2>9, <2>10, Zenon DEF DeleteManifest
  <2>12. Deleted(d1) \subseteq Deleted(e3) /\ Deleted(d3) \subseteq Deleted(e3) /\ Deleted(d2) \subseteq Deleted(e3) /\ Deleted(dn) \subseteq Deleted(e3)
    BY <2>8, <2>9, <2>10 DEF Drops
  <2>13. Insert(l) = Insert(n)
    BY <2>2 DEF Insert
  <2>14. PICK u1 \in Seq(Additions(RowKeys)) : u1 = t0 \o r1 /\ Inserts(u1, t0, r1)
    BY <1>2, <2>3, InsertsBoth
  <2>15. PICK u2 \in Seq(Additions(RowKeys)) : u2 = u1 \o r2 /\ Inserts(u2, u1, r2)
    BY <2>14, <2>4, InsertsBoth
  <2>16. PICK u3 \in Seq(Additions(RowKeys)) : u3 = u2 \o r3 /\ Inserts(u3, u2, r3)
    BY <2>15, <2>5, InsertsBoth
  <2>17. PICK u4 \in Seq(Additions(RowKeys)) : u4 = u3 \o r4 /\ Inserts(u4, u3, r4)
    BY <2>16, <2>6, InsertsBoth
  <2>18. u4 = InsertManifest(l)
    BY <1>2, <2>13, <2>3, <2>4, <2>5, <2>6, <2>14, <2>15, <2>16, <2>17, Zenon DEF InsertManifest
  <2>19. n.key \in Inserted(u4) /\ Inserted(r1) \subseteq Inserted(u4) /\ Inserted(r2) \subseteq Inserted(u4) /\ Inserted(r3) \subseteq Inserted(u4) /\ Inserted(r4) \subseteq Inserted(u4)
    BY <1>2, <2>14, <2>15, <2>16, <2>17 DEF Inserts
  <2>20. Gone(t4, e3)
    BY <2>7, <1>13, <1>14, <2>3, <2>4, <2>5, <2>6, <2>12 DEF Gone
  <2>21. Back(t4, u4)
    BY <1>13, <1>14, <2>3, <2>4, <2>5, <2>6, <2>19 DEF Back
  <2> QED BY <2>2, <2>11, <2>18, <2>20, <2>21
<1> QED BY <1>11, <1>12, <1>15

\* A token's authority is all it has.
LEMMA TokenReached ==
  ASSUME NEW n \in Tokens
  PROVE  Inserted(InsertToken(n)) \subseteq {n.key} \cup InsertedInto(InsertToken(n), Forgotten)
<1>1. HasRow(n)
  BY DEF HasRow, Tokens, Reached, AllTables
<1>2. PICK t0 \in Seq(Additions(RowKeys)) : t0 = Insert(n) /\ Inserted(t0) = {n.key}
  <2>1. Insert(n) \in Seq(Additions(RowKeys)) /\ Inserted(Insert(n)) = {n.key}
    BY <1>1, InsertFacts
  <2> QED BY <2>1, Zenon
<1>3. PICK a1 \in Seq(Additions(RowKeys)) : a1 = Each(n.Authority, Insert)
  <2>1. n.Authority \in Seq(AnyLeaves)
    BY AnyLeaf DEF Tokens
  <2>2. Each(n.Authority, Insert) \in Seq(Additions(RowKeys))
    BY <2>1, AdditionsAdd, EachInserted
  <2> QED BY <2>2, Zenon
<1>4. PICK t1 \in Seq(Additions(RowKeys)) : t1 = t0 \o a1 /\ Inserts(t1, t0, a1)
  BY <1>2, <1>3, InsertsBoth
<1>5. t1 = InsertToken(n)
  BY <1>2, <1>3, <1>4, Zenon DEF InsertToken
<1>6. Inserted(a1) \subseteq InsertedInto(a1, {"cryptokeys/token"})
  <2>1. n.Authority \in Seq(LeavesIn({"cryptokeys/token"})) /\ {"cryptokeys/token"} \in SUBSET AllTables
    BY DEF Tokens, AllTables, Forgotten
  <2> QED BY <1>3, <2>1, SliceInto
<1>7. Inserted(a1) \subseteq InsertedInto(a1, Forgotten)
  BY <1>6 DEF InsertedInto, Forgotten
<1> QED BY <1>2, <1>4, <1>5, <1>7 DEF Inserts
=============================================================================
