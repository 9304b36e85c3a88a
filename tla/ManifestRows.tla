---------------------------- MODULE ManifestRows ----------------------------
(***************************************************************************)
(* How pkg/model turns a document into rows: for each type with rows of    *)
(* its own, the statements its Insert executes, the part of it that its    *)
(* Select loads again, and the statements its Delete executes on what was  *)
(* loaded.                                                                 *)
(*                                                                         *)
(* A node is a Go value of the type the operators are named for: a record  *)
(* with the key of its row ("key"), its table ("tbl", with the type of the *)
(* owner where one table holds the rows of several), the environment it    *)
(* refers to ("env", or NoEnv), and one field for each slice of owned      *)
(* values.  Columns are left out: what matters is which rows there are.    *)
(***************************************************************************)
EXTENDS Sequences, SequencesExt

CONSTANTS RowKeys, Envs, NoEnv

ASSUME RowAssumption == NoEnv \notin Envs

\* The tables with rows that the Delete of their owner leaves behind: Select does
\* not load the relation (measurements, tokens) or looks for another type of owner
\* (manifests), or there is no statement that deletes the row (series records).
Forgotten ==
  {"extensions/manifest", "cryptokeys/measurement", "cryptokeys/token",
   "conditional_endorsement_series_records"}
Reached == STRING \ Forgotten

\* Those with rows that the Select of a manifest does not load again.
NotLoaded == {"extensions/manifest", "cryptokeys/measurement"}

(* The types.  Crypto keys, digests, flags, roles, hrefs, linked tags, value *)
(* entries and extensions are leaves.                                       *)
LeavesIn(tables) == [key : RowKeys, tbl : tables, env : {NoEnv}]
Leaves == LeavesIn(Reached)
Entities ==
  [key : RowKeys, tbl : Reached, env : {NoEnv}, RoleEntries : Seq(Leaves),
   Extensions : Seq(Leaves)]
Locators ==
  [key : RowKeys, tbl : Reached, env : {NoEnv}, Href : Seq(Leaves), Thumbprint : Seq(Leaves)]
IntegrityRegisters == [key : RowKeys, tbl : Reached, env : {NoEnv}, Digests : Seq(Leaves)]
Measurements ==
  [key : RowKeys, tbl : Reached, env : {NoEnv}, ValueEntries : Seq(Leaves),
   Digests : Seq(Leaves), Flags : Seq(Leaves),
   IntegrityRegisters : Seq(IntegrityRegisters), Extensions : Seq(Leaves),
   CryptoKeys : Seq(LeavesIn({"cryptokeys/measurement"})), AuthorizedBy : Seq(Leaves)]
KeyTriples ==
  [key : RowKeys, tbl : {"key_triples"}, env : Envs, KeyList : Seq(Leaves),
   AuthorizedBy : Seq(Leaves)]
ValueTriples ==
  [key : RowKeys, tbl : {"value_triples"}, env : Envs, Measurements : Seq(Measurements)]
StatefulEnvironments ==
  [key : RowKeys, tbl : {"stateful_environments"}, env : Envs, Measurements : Seq(Measurements)]
ConditionalEndorsementTriples ==
  [key : RowKeys, tbl : Reached, env : {NoEnv}, Conditions : Seq(StatefulEnvironments),
   Endorsements : Seq(ValueTriples)]
ConditionalEndorsementSeriesRecords ==
  [key : RowKeys, tbl : {"conditional_endorsement_series_records"}, env : {NoEnv},
   Selection : Seq(Measurements), Addition : Seq(Measurements)]
ConditionalEndorsementSeriesTriples ==
  [key : RowKeys, tbl : {"conditional_endorsement_series_triples"}, env : Envs,
   Measurements : Seq(Measurements), AuthorizedBy : Seq(Leaves),
   Series : Seq(ConditionalEndorsementSeriesRecords)]
DomainEntries == [key : RowKeys, tbl : {"domain_entries"}, env : Envs]
DomainMembershipTriples ==
  [key : RowKeys, tbl : {"domain_membership_triples"}, env : Envs, Members : Seq(DomainEntries)]
DomainDependencyTriples ==
  [key : RowKeys, tbl : {"domain_dependency_triples"}, env : Envs, Trustees : Seq(DomainEntries)]
ModuleTags ==
  [key : RowKeys, tbl : Reached, env : {NoEnv},
   Entities : Seq(Entities), LinkedTags : Seq(Leaves),
   ValueTriples : Seq(ValueTriples), KeyTriples : Seq(KeyTriples),
   ConditionalEndorsementTriples : Seq(ConditionalEndorsementTriples),
   ConditionalEndorsementSeriesTriples : Seq(ConditionalEndorsementSeriesTriples),
   DomainDependencyTriples : Seq(DomainDependencyTriples),
   DomainMembershipTriples : Seq(DomainMembershipTriples),
   Extensions : Seq(Leaves), TriplesExtensions : Seq(Leaves)]
Manifests ==
  [key : RowKeys, tbl : Reached, env : {NoEnv}, Entities : Seq(Entities),
   DependentRIMs : Seq(Locators), ModuleTags : Seq(ModuleTags),
   Extensions : Seq(LeavesIn({"extensions/manifest"})), Namesakes : Seq(Leaves)]
Tokens ==
  [key : RowKeys, tbl : Reached, env : {NoEnv}, Authority : Seq(LeavesIn({"cryptokeys/token"}))]
-----------------------------------------------------------------------------
\* The statements F gives for each of the nodes ns, in order.
Each(ns, F(_)) == FlattenSeq([i \in DOMAIN ns |-> F(ns[i])])

\* The nodes of a has-many relation whose rows are there.
Here(ns, keys) == Each(ns, LAMBDA n : IF n.key \in keys THEN <<n>> ELSE <<>>)

\* Relation(...) and Select on each element of what it returned.
Loaded(ns, keys, Load(_, _)) ==
  LET here == Here(ns, keys) IN [i \in DOMAIN here |-> Load(here[i], keys)]

Insert(n) == <<[do |-> "insert", key |-> n.key, tbl |-> n.tbl, hasEnv |-> n.env # NoEnv]>>
FindEnv(n) == <<[do |-> "findEnv", env |-> n.env]>>
Delete(n) == <<[do |-> "delete", key |-> n.key]>>

\* Fault: a table is missing from the list.
OwnersWithoutMemberships ==
  <<"conditional_endorsement_series_triples", "domain_entries", "domain_dependency_triples",
    "key_triples", "stateful_environments", "value_triples">>

\* The tables with an environment_id, in the order the files' init functions
\* append them.
environmentOwners ==
  <<"conditional_endorsement_series_triples", "domain_entries", "domain_dependency_triples",
    "domain_membership_triples", "key_triples", "stateful_environments", "value_triples">>

\* DeleteIfOrphaned of the environment a node was loaded with.  "checked" tells
\* whether the caller looks for a nil Environment first.
DeleteIfOrphaned(n, checked) ==
  <<[do |-> "owners", key |-> n.key, checked |-> checked]>>
-----------------------------------------------------------------------------
InsertEntity(n) == Insert(n) \o Each(n.RoleEntries, Insert) \o Each(n.Extensions, Insert)
SelectEntity(n, keys) ==
  [n EXCEPT !.RoleEntries = Here(@, keys), !.Extensions = Here(@, keys)]
DeleteEntity(n) == Each(n.Extensions, Delete) \o Each(n.RoleEntries, Delete) \o Delete(n)

InsertLocator(n) == Insert(n) \o Each(n.Href, Insert) \o Each(n.Thumbprint, Insert)
SelectLocator(n, keys) == [n EXCEPT !.Href = Here(@, keys), !.Thumbprint = Here(@, keys)]
DeleteLocator(n) == Each(n.Href, Delete) \o Each(n.Thumbprint, Delete) \o Delete(n)

InsertIntegrityRegister(n) == Insert(n) \o Each(n.Digests, Insert)
SelectIntegrityRegister(n, keys) == [n EXCEPT !.Digests = Here(@, keys)]
DeleteIntegrityRegister(n) == Each(n.Digests, Delete) \o Delete(n)
-----------------------------------------------------------------------------
InsertMeasurement(n) ==
  Insert(n) \o Each(n.ValueEntries, Insert) \o Each(n.Digests, Insert)
  \o Each(n.Flags, Insert) \o Each(n.IntegrityRegisters, InsertIntegrityRegister)
  \o Each(n.Extensions, Insert) \o Each(n.CryptoKeys, Insert) \o Each(n.AuthorizedBy, Insert)

\* Fault: nothing below a measurement is loaded with it.
MeasurementAlone(n, keys) ==
  [n EXCEPT !.ValueEntries = <<>>, !.Digests = <<>>, !.Flags = <<>>, !.IntegrityRegisters = <<>>,
            !.Extensions = <<>>, !.AuthorizedBy = <<>>, !.CryptoKeys = <<>>]

\* The CryptoKeys are not among the relations that are loaded.
SelectMeasurement(n, keys) ==
  [n EXCEPT !.ValueEntries = Here(@, keys), !.Digests = Here(@, keys), !.Flags = Here(@, keys),
            !.IntegrityRegisters = Loaded(@, keys, SelectIntegrityRegister),
            !.Extensions = Here(@, keys), !.AuthorizedBy = Here(@, keys),
            !.CryptoKeys = <<>>]

DeleteMeasurement(n) ==
  Each(n.AuthorizedBy, Delete) \o Each(n.CryptoKeys, Delete) \o Each(n.Digests, Delete)
  \o Each(n.Flags, Delete) \o Each(n.IntegrityRegisters, DeleteIntegrityRegister)
  \o Each(n.ValueEntries, Delete) \o Each(n.Extensions, Delete) \o Delete(n)
-----------------------------------------------------------------------------
InsertKeyTriple(n) ==
  FindEnv(n) \o Insert(n) \o Each(n.KeyList, Insert) \o Each(n.AuthorizedBy, Insert)
SelectKeyTriple(n, keys) == [n EXCEPT !.KeyList = Here(@, keys), !.AuthorizedBy = Here(@, keys)]
DeleteKeyTriple(n) ==
  Each(n.KeyList, Delete) \o Each(n.AuthorizedBy, Delete) \o Delete(n)
  \o DeleteIfOrphaned(n, FALSE)

InsertValueTriple(n) == FindEnv(n) \o Insert(n) \o Each(n.Measurements, InsertMeasurement)
SelectValueTriple(n, keys) ==
  [n EXCEPT !.Measurements = Loaded(@, keys, SelectMeasurement)]

\* Fault: the environment is looked at before the triple that refers to it is gone.
DeleteEnvironmentFirst(n) ==
  Each(n.Measurements, DeleteMeasurement) \o DeleteIfOrphaned(n, TRUE) \o Delete(n)

\* Fault: the measurements stay.
KeepMeasurements(n) == Delete(n) \o DeleteIfOrphaned(n, TRUE)

DeleteValueTriple(n) ==
  Each(n.Measurements, DeleteMeasurement) \o Delete(n) \o DeleteIfOrphaned(n, TRUE)

InsertStatefulEnvironment(n) ==
  FindEnv(n) \o Insert(n) \o Each(n.Measurements, InsertMeasurement)
SelectStatefulEnvironment(n, keys) ==
  [n EXCEPT !.Measurements = Loaded(@, keys, SelectMeasurement)]
DeleteStatefulEnvironment(n) ==
  Each(n.Measurements, DeleteMeasurement) \o Delete(n) \o DeleteIfOrphaned(n, TRUE)
-----------------------------------------------------------------------------
InsertConditionalEndorsementTriple(n) ==
  Insert(n) \o Each(n.Conditions, InsertStatefulEnvironment)
  \o Each(n.Endorsements, InsertValueTriple)
SelectConditionalEndorsementTriple(n, keys) ==
  [n EXCEPT !.Conditions = Loaded(@, keys, SelectStatefulEnvironment),
            !.Endorsements = Loaded(@, keys, SelectValueTriple)]
DeleteConditionalEndorsementTriple(n) ==
  Each(n.Conditions, DeleteStatefulEnvironment) \o Each(n.Endorsements, DeleteValueTriple)
  \o Delete(n)

InsertConditionalEndorsementSeriesRecord(n) ==
  Insert(n) \o Each(n.Selection, InsertMeasurement) \o Each(n.Addition, InsertMeasurement)
SelectConditionalEndorsementSeriesRecord(n, keys) ==
  [n EXCEPT !.Selection = Loaded(@, keys, SelectMeasurement),
            !.Addition = Loaded(@, keys, SelectMeasurement)]

\* The record's own row stays.
DeleteConditionalEndorsementSeriesRecord(n) ==
  Each(n.Selection, DeleteMeasurement) \o Each(n.Addition, DeleteMeasurement)

InsertConditionalEndorsementSeriesTriple(n) ==
  FindEnv(n) \o Insert(n) \o Each(n.Measurements, InsertMeasurement)
  \o Each(n.AuthorizedBy, Insert) \o Each(n.Series, InsertConditionalEndorsementSeriesRecord)
SelectConditionalEndorsementSeriesTriple(n, keys) ==
  [n EXCEPT !.Measurements = Loaded(@, keys, SelectMeasurement),
            !.AuthorizedBy = Here(@, keys),
            !.Series = Loaded(@, keys, SelectConditionalEndorsementSeriesRecord)]
DeleteConditionalEndorsementSeriesTriple(n) ==
  Each(n.Measurements, DeleteMeasurement) \o Each(n.AuthorizedBy, Delete)
  \o Each(n.Series, DeleteConditionalEndorsementSeriesRecord) \o Delete(n)
  \o DeleteIfOrphaned(n, FALSE)
-----------------------------------------------------------------------------
InsertDomainEntry(n) == FindEnv(n) \o Insert(n)
DeleteDomainEntry(n) == Delete(n) \o DeleteIfOrphaned(n, TRUE)

InsertDomainMembershipTriple(n) == FindEnv(n) \o Insert(n) \o Each(n.Members, InsertDomainEntry)
SelectDomainMembershipTriple(n, keys) == [n EXCEPT !.Members = Here(@, keys)]
DeleteDomainMembershipTriple(n) ==
  Each(n.Members, DeleteDomainEntry) \o Delete(n) \o DeleteIfOrphaned(n, TRUE)

InsertDomainDependencyTriple(n) == FindEnv(n) \o Insert(n) \o Each(n.Trustees, InsertDomainEntry)
SelectDomainDependencyTriple(n, keys) == [n EXCEPT !.Trustees = Here(@, keys)]
DeleteDomainDependencyTriple(n) ==
  Each(n.Trustees, DeleteDomainEntry) \o Delete(n) \o DeleteIfOrphaned(n, TRUE)
-----------------------------------------------------------------------------
InsertModuleTag(n) ==
  Insert(n) \o Each(n.Entities, InsertEntity) \o Each(n.LinkedTags, Insert)
  \o Each(n.ValueTriples, InsertValueTriple) \o Each(n.KeyTriples, InsertKeyTriple)
  \o Each(n.ConditionalEndorsementTriples, InsertConditionalEndorsementTriple)
  \o Each(n.ConditionalEndorsementSeriesTriples, InsertConditionalEndorsementSeriesTriple)
  \o Each(n.DomainDependencyTriples, InsertDomainDependencyTriple)
  \o Each(n.DomainMembershipTriples, InsertDomainMembershipTriple)
  \o Each(n.Extensions, Insert) \o Each(n.TriplesExtensions, Insert)

SelectModuleTag(n, keys) ==
  [n EXCEPT
     !.Entities = Loaded(@, keys, SelectEntity), !.LinkedTags = Here(@, keys),
     !.ValueTriples = Loaded(@, keys, SelectValueTriple),
     !.KeyTriples = Loaded(@, keys, SelectKeyTriple),
     !.ConditionalEndorsementTriples = Loaded(@, keys, SelectConditionalEndorsementTriple),
     !.ConditionalEndorsementSeriesTriples =
         Loaded(@, keys, SelectConditionalEndorsementSeriesTriple),
     !.DomainDependencyTriples = Loaded(@, keys, SelectDomainDependencyTriple),
     !.DomainMembershipTriples = Loaded(@, keys, SelectDomainMembershipTriple),
     !.Extensions = Here(@, keys), !.TriplesExtensions = Here(@, keys)]

DeleteOwned(n) ==
  Each(n.LinkedTags, Delete) \o Each(n.Entities, DeleteEntity)
  \o Each(n.ValueTriples, DeleteValueTriple) \o Each(n.KeyTriples, DeleteKeyTriple)
  \o Each(n.ConditionalEndorsementTriples, DeleteConditionalEndorsementTriple)
  \o Each(n.ConditionalEndorsementSeriesTriples, DeleteConditionalEndorsementSeriesTriple)
  \o Each(n.DomainDependencyTriples, DeleteDomainDependencyTriple)
  \o Each(n.DomainMembershipTriples, DeleteDomainMembershipTriple)
  \o Each(n.Extensions, Delete) \o Each(n.TriplesExtensions, Delete)

\* Fault: a module tag's row goes before the rows that are found through it.
DeleteModuleTagFirst(n) == Delete(n) \o DeleteOwned(n)
DeleteModuleTag(n) == DeleteOwned(n) \o Delete(n)
-----------------------------------------------------------------------------
InsertManifest(n) ==
  Insert(n) \o Each(n.Entities, InsertEntity) \o Each(n.DependentRIMs, InsertLocator)
  \o Each(n.ModuleTags, InsertModuleTag) \o Each(n.Extensions, Insert)

\* The relation "Extensions" looks for rows whose owner type is "module_tag",
\* where Insert has written "manifest": it finds none of the manifest's, and those
\* of the module tag whose ID is the same number (Namesakes).
SelectManifest(n, keys) ==
  [n EXCEPT !.Entities = Loaded(@, keys, SelectEntity),
            !.DependentRIMs = Loaded(@, keys, SelectLocator),
            !.ModuleTags = Loaded(@, keys, SelectModuleTag),
            !.Extensions = Here(n.Namesakes, keys)]

DeleteManifest(n) ==
  Each(n.Entities, DeleteEntity) \o Each(n.ModuleTags, DeleteModuleTag)
  \o Each(n.DependentRIMs, DeleteLocator) \o Delete(n)

InsertToken(n) == Insert(n) \o Each(n.Authority, Insert)

\* Select names no relation.
SelectToken(n) == [n EXCEPT !.Authority = <<>>]
DeleteToken(n) == Each(n.Authority, Delete) \o Delete(n)
-----------------------------------------------------------------------------
\* The keys of the rows a program inserts, and of those it deletes.
Inserted(prog) == {s.key : s \in {x \in ToSet(prog) : x.do = "insert"}}
Deleted(prog) == {s.key : s \in {x \in ToSet(prog) : x.do = "delete"}}
InsertedInto(prog, tables) ==
  {s.key : s \in {x \in ToSet(prog) : x.do = "insert" /\ x.tbl \in tables}}

\* A program that inserts no row twice.
InsertsOnce(prog) ==
  \A i, j \in DOMAIN prog :
    prog[i].do = "insert" /\ prog[j].do = "insert" /\ prog[i].key = prog[j].key => i = j
=============================================================================
