----------------------------- MODULE QuerySpec -----------------------------
(***************************************************************************)
(* What a query asks for, independently of how Run computes it: a row      *)
(* matches if its own columns satisfy the restrictions of the query, and   *)
(* if, for each subquery, there is a row below it that matches in its turn.*)
(*                                                                         *)
(* A row is [tbl, id, typ, up, owner, env, val]: its table and primary key,*)
(* the value of its column owner_type (or of the constant OwnerName of its *)
(* model), the table and ID of the row it belongs to, the environment it   *)
(* refers to (0: none), and one value that stands for all other columns.   *)
(* The val of an environment is a record of its columns.                   *)
(*                                                                         *)
(* A query object holds the sets of accepted values of each of these       *)
(* columns, an empty set accepting all of them, and its subqueries: subs   *)
(* maps their names to the members of the group, or to a single member.    *)
(* Subqueries without any parameter, which Run skips, are absent.          *)
(***************************************************************************)
EXTENDS Naturals, Sequences

NULL == "NULL"

Blank == [vals |-> {}, ids |-> {}, owners |-> {}, types |-> {}, envs |-> {},
          savedIDs |-> {}, saved |-> FALSE, savedEnvs |-> {}, envSaved |-> FALSE,
          subs |-> <<>>]

\* An EnvironmentQuery; vendor stands for vendor, model, layer and index, instance
\* for instance and group.  classIDs and instances hold the composite entries of
\* ClassID() and Instance(), classes the ClassSubqueries.
BlankEnv == [exact |-> FALSE, ids |-> {}, classBytes |-> {}, classIDs |-> {}, classes |-> {},
             vendors |-> {}, instanceBytes |-> {}, instances |-> {}]

Sub(q, name) == IF name \in DOMAIN q.subs THEN q.subs[name] ELSE <<>>

EnvIsEmpty(q) == [q EXCEPT !.exact = FALSE] = BlankEnv

\* The rows of a table or view; the view of value triples leaves out those that are
\* the endorsements of a conditional endorsement triple.
Table(db, tbl) ==
  IF tbl = "value_triple_entries"
  THEN {r \in db : r.tbl = "value_triples" /\ r.typ = "module_tag"}
  ELSE {r \in db : r.tbl = tbl}

\* An empty list of values puts no restriction on a column; if exact, the column
\* must then be NULL.
Column(x, vals, exact) == IF vals = {} THEN exact => x = NULL ELSE x \in vals

Where(q, r) ==
  /\ Column(r.id, q.ids, FALSE) /\ Column(r.val, q.vals, FALSE)
  /\ Column(r.owner, q.owners, FALSE) /\ Column(r.typ, q.types, FALSE)
  /\ Column(r.env, q.envs, FALSE)
-----------------------------------------------------------------------------
\* Every member of the subquery is matched by a row of tbl that belongs to r.
Has(q, name, tbl, types, r, db, Asked(_, _, _)) ==
  \A i \in DOMAIN Sub(q, name) : \E x \in Table(db, tbl) :
    /\ x.owner = r.id /\ Column(x.typ, types, FALSE)
    /\ Asked(q.subs[name][i], x, db)

\* In an exact query the columns that are not given are NULL.
ClassAsked(s, exact, e) ==
  /\ Column(e.class, s.classBytes \cup s.classIDs, exact)
  /\ Column(e.vendor, s.vendors, exact)

EnvAsked(q, r) ==
  /\ Column(r.id, q.ids, FALSE)
  /\ IF q.classes = {} THEN ClassAsked(q, q.exact, r.val)
     ELSE /\ \E s \in q.classes : ClassAsked(s, q.exact, r.val)
          /\ ClassAsked(q, FALSE, r.val)
  /\ Column(r.val.instance, q.instanceBytes \cup q.instances, q.exact)

InEnv(q, r, db) ==
  \A i \in DOMAIN Sub(q, "environment") :
    \/ EnvIsEmpty(q.subs["environment"][i])
    \/ \E e \in Table(db, "environments") :
         e.id = r.env /\ EnvAsked(q.subs["environment"][i], e)

LeafAsked(q, r, db) == Where(q, r)

DigestsAsked(type, q, r, db) ==
  Where(q, r) /\ Has(q, "digests", "digests", {type}, r, db, LeafAsked)

IntegrityRegisterAsked(q, r, db) == DigestsAsked("integrity_register", q, r, db)

LocatorAsked(q, r, db) ==
  DigestsAsked("locator", q, r, db) /\ Has(q, "hrefs", "hrefs", {}, r, db, LeafAsked)

EntityAsked(q, r, db) == Where(q, r) /\ Has(q, "roles", "roles", {}, r, db, LeafAsked)

MeasurementAsked(q, r, db) ==
  /\ DigestsAsked("measurement", q, r, db)
  /\ Has(q, "authorizedBy", "cryptokeys", {"measurement_auth"}, r, db, LeafAsked)
  /\ Has(q, "values", "measurement_value_entries", {}, r, db, LeafAsked)
  /\ Has(q, "registers", "integrity_registers", {}, r, db, IntegrityRegisterAsked)
  /\ Has(q, "flags", "flags", {}, r, db, LeafAsked)

MeasurementsAsked(name, type, q, r, db) ==
  Has(q, name, "measurements", {type}, r, db, MeasurementAsked)

ManifestAsked(q, r, db) ==
  /\ Where(q, r)
  /\ Has(q, "entities", "entities", {"manifest"}, r, db, EntityAsked)
  /\ Has(q, "dependentRIMs", "locators", {}, r, db, LocatorAsked)

ModuleTagAsked(q, r, db) ==
  /\ Where(q, r)
  /\ Has(q, "entities", "entities", {"module_tag"}, r, db, EntityAsked)
  /\ Has(q, "linkedTags", "linked_tags", {}, r, db, LeafAsked)

TokenAsked(q, r, db) ==
  Where(q, r) /\ Has(q, "authority", "cryptokeys", {"token"}, r, db, LeafAsked)

TripleAsked(q, r, db) ==
  /\ Where(q, r) /\ InEnv(q, r, db)
  /\ Has(q, "cryptoKeys", "cryptokeys", {"key_triple"}, r, db, LeafAsked)
  /\ Has(q, "authorizedBy", "cryptokeys", {"key_triple_auth"}, r, db, LeafAsked)
  /\ MeasurementsAsked("measurements", "value_triple", q, r, db)

StatefulEnvironmentAsked(q, r, db) ==
  /\ Where(q, r) /\ InEnv(q, r, db)
  /\ MeasurementsAsked("measurements", "stateful_environment", q, r, db)

EndorsementAsked(q, r, db) ==
  /\ Where(q, r) /\ InEnv(q, r, db)
  /\ MeasurementsAsked("measurements", "value_triple", q, r, db)

ConditionalEndorsementTripleAsked(q, r, db) ==
  /\ Where(q, r)
  /\ Has(q, "conditions", "stateful_environments", {}, r, db, StatefulEnvironmentAsked)
  /\ Has(q, "endorsements", "value_triples", {"conditional_endorsement_triple"},
         r, db, EndorsementAsked)

RecordAsked(q, r, db) ==
  /\ Where(q, r)
  /\ MeasurementsAsked("selections", "ces_record_selection", q, r, db)
  /\ MeasurementsAsked("additions", "ces_record_addition", q, r, db)

ConditionalEndorsementSeriesTripleAsked(q, r, db) ==
  /\ Where(q, r) /\ InEnv(q, r, db)
  /\ Has(q, "authorizedBy", "cryptokeys", {"ces_condition"}, r, db, LeafAsked)
  /\ MeasurementsAsked("measurements", "ces_condition", q, r, db)
  /\ Has(q, "records", "conditional_endorsement_series_records", {}, r, db, RecordAsked)

DomainEntryAsked(q, r, db) == Where(q, r) /\ InEnv(q, r, db)

DomainTripleAsked(type, q, r, db) ==
  Where(q, r) /\ InEnv(q, r, db) /\ Has(q, "entries", "domain_entries", {type}, r, db, DomainEntryAsked)
=============================================================================
