------------------------------ MODULE MCQuery ------------------------------
(***************************************************************************)
(* Two documents per type of query.  IDs of different tables coincide, so  *)
(* that only owner types tell apart what belongs to what, and the documents*)
(* share their first environment.                                          *)
(***************************************************************************)
EXTENDS Query, SequencesExt

MCDocs == {"d1", "d2"}

R(tbl, id, typ, up, owner, env, val) ==
  [tbl |-> tbl, id |-> id, typ |-> typ, up |-> up, owner |-> owner, env |-> env, val |-> val]
Top(tbl, id, env, val) == R(tbl, id, "module_tag", "", 9, env, val)
Env(id, class, vendor, instance) ==
  R("environments", id, "", "", 0, 0, [class |-> class, vendor |-> vendor, instance |-> instance])
Env1 == Env(1, "c1", NULL, NULL)
Env2 == Env(2, "c1", "v1", NULL)
Env3 == Env(3, NULL, "v1", "i1")

Measurement(id, typ, up, owner, val) == R("measurements", id, typ, up, owner, 0, val)
Digest(id, typ, up, owner, val) == R("digests", id, typ, up, owner, 0, val)
Key(id, typ, up, owner, val) == R("cryptokeys", id, typ, up, owner, 0, val)
Plain(tbl, id, up, owner, val) == R(tbl, id, "", up, owner, 0, val)

Pair(x, y) == "d1" :> x @@ "d2" :> y

Endorsed(id, vt, env, m) ==
  { R("value_triples", vt, "conditional_endorsement_triple", "conditional_endorsement_triples",
      id, env, "a"),
    Measurement(m, "value_triple", "value_triples", vt, "m") }

ValueRows == Pair(
  { Env1, Top("value_triples", 1, 1, "a"),
    Measurement(1, "value_triple", "value_triples", 1, "m"),
    Digest(1, "measurement", "measurements", 1, "x"),
    Plain("integrity_registers", 1, "measurements", 1, "p"),
    Digest(2, "integrity_register", "integrity_registers", 1, "y"),
    Measurement(2, "value_triple", "value_triples", 1, "n"),
    Plain("flags", 1, "measurements", 2, "f") },
  { Env1, Env2, Top("value_triples", 2, 2, "b"), Top("value_triples", 3, 1, "b"),
    Measurement(3, "value_triple", "value_triples", 2, "m"),
    Digest(3, "measurement", "measurements", 3, "x"),
    Plain("measurement_value_entries", 1, "measurements", 3, "v"),
    Measurement(4, "stateful_environment", "stateful_environments", 3, "n"),
    R("value_triples", 4, "conditional_endorsement_triple", "", 1, 1, "a") })

MCRowsOf == [
  LocatorQuery |-> Pair(
    { Plain("locators", 1, "manifests", 1, "a"), Plain("hrefs", 1, "locators", 1, "h"),
      Digest(1, "locator", "locators", 1, "x"), Digest(2, "measurement", "measurements", 2, "x") },
    { Plain("locators", 2, "manifests", 2, "b"), Plain("hrefs", 2, "locators", 2, "h"),
      Digest(3, "locator", "locators", 2, "y") }),
  EntityQuery |-> Pair(
    { R("entities", 1, "manifest", "manifests", 1, 0, "a"), Plain("roles", 1, "entities", 1, "r") },
    { R("entities", 2, "module_tag", "module_tags", 1, 0, "a"), Plain("roles", 2, "entities", 2, "s") }),
  ManifestQuery |-> Pair(
    { Plain("manifests", 1, "", 0, "a"), R("entities", 1, "manifest", "manifests", 1, 0, "e"),
      Plain("roles", 1, "entities", 1, "r"), Plain("locators", 1, "manifests", 1, "l"),
      Plain("hrefs", 1, "locators", 1, "h") },
    { Plain("manifests", 2, "", 0, "b"), R("entities", 2, "module_tag", "module_tags", 2, 0, "e"),
      Plain("locators", 2, "manifests", 2, "l"), Plain("hrefs", 2, "locators", 2, "h") }),
  ModuleTagQuery |-> Pair(
    { Plain("module_tags", 1, "manifests", 1, "a"), R("entities", 1, "module_tag", "module_tags", 1, 0, "e"),
      Plain("linked_tags", 1, "module_tags", 1, "l") },
    { Plain("module_tags", 2, "manifests", 2, "b"), R("entities", 2, "manifest", "manifests", 2, 0, "e"),
      Plain("linked_tags", 2, "module_tags", 2, "l") }),
  TokenQuery |-> Pair(
    { Plain("tokens", 1, "", 0, "a"), Key(1, "token", "tokens", 1, "k") },
    { Plain("tokens", 2, "", 0, "b"), Key(2, "key_triple", "key_triples", 2, "k") }),
  KeyTripleQuery |-> Pair(
    { Env1, Top("key_triples", 1, 1, "a"), Key(1, "key_triple", "key_triples", 1, "k"),
      Key(2, "key_triple_auth", "key_triples", 1, "l") },
    { Env1, Env2, Env3, Top("key_triples", 2, 2, "b"), Key(3, "key_triple", "key_triples", 2, "k"),
      Key(4, "key_triple", "key_triples", 2, "l"), Top("key_triples", 3, 3, "a") }),
  ValueTripleQuery |-> ValueRows,
  ValueTripleQueryGroup |-> ValueRows,
  ConditionalEndorsementTripleQuery |-> Pair(
    { Env1, Top("conditional_endorsement_triples", 1, 0, "a"),
      R("stateful_environments", 1, "conditional_endorsement_triple",
        "conditional_endorsement_triples", 1, 1, "a"),
      Measurement(5, "stateful_environment", "stateful_environments", 1, "n") }
    \cup Endorsed(1, 1, 1, 1),
    { Env1, Top("conditional_endorsement_triples", 2, 0, "b"),
      R("stateful_environments", 2, "conditional_endorsement_triple",
        "conditional_endorsement_triples", 2, 1, "a"),
      Top("value_triples", 3, 1, "a"), Measurement(3, "value_triple", "value_triples", 3, "n") }
    \cup Endorsed(2, 2, 1, 2)),
  ConditionalEndorsementSeriesTripleQuery |-> Pair(
    { Env1, Top("conditional_endorsement_series_triples", 1, 1, "a"),
      Measurement(1, "ces_condition", "conditional_endorsement_series_triples", 1, "m"),
      R("conditional_endorsement_series_records", 1, "conditional_endorsement_series_triple",
        "conditional_endorsement_series_triples", 1, 0, "a"),
      Measurement(2, "ces_record_selection", "conditional_endorsement_series_records", 1, "m"),
      Measurement(3, "ces_record_addition", "conditional_endorsement_series_records", 1, "n") },
    { Env1, Top("conditional_endorsement_series_triples", 2, 1, "b"),
      Key(1, "ces_condition", "conditional_endorsement_series_triples", 2, "k"),
      R("conditional_endorsement_series_records", 2, "conditional_endorsement_series_triple",
        "conditional_endorsement_series_triples", 2, 0, "a"),
      Measurement(5, "ces_record_selection", "conditional_endorsement_series_records", 2, "n") }),
  DomainMembershipTripleQuery |-> Pair(
    { Env1, Env2, Top("domain_membership_triples", 1, 1, "a"),
      R("domain_entries", 1, "domain_membership_triple", "domain_membership_triples", 1, 2, "") },
    { Env1, Env2, Top("domain_membership_triples", 2, 2, "b"),
      R("domain_entries", 2, "domain_membership_triple", "domain_membership_triples", 2, 1, ""),
      R("domain_entries", 3, "domain_dependency_triple", "domain_dependency_triples", 2, 2, "") }),
  DomainDependencyTripleQuery |-> Pair(
    { Env1, Env2, Top("domain_dependency_triples", 1, 1, "a"),
      R("domain_entries", 1, "domain_dependency_triple", "domain_dependency_triples", 1, 2, "") },
    { Env1, Env2, Top("domain_dependency_triples", 2, 2, "b"),
      R("domain_entries", 2, "domain_membership_triple", "domain_membership_triples", 2, 2, "") })]
-----------------------------------------------------------------------------
Val(v) == [Blank EXCEPT !.vals = {v}]
OfType(q, type) == [q EXCEPT !.types = {type}]
With(q, name, members) == [q EXCEPT !.subs = (name :> members) @@ @]
InEnvironment(q, env) == With(q, "environment", <<env>>)
Class(c) == [BlankEnv EXCEPT !.classBytes = {c}]
Vendor(v) == [BlankEnv EXCEPT !.vendors = {v}]
Exact(env) == [env EXCEPT !.exact = TRUE]

\* Measurement("n") with a digest, and others.
Digested(type) == OfType(With(Val("m"), "digests", <<Val("x")>>), type)
Registered == OfType(With(Blank, "registers", <<With(Val("p"), "digests", <<Val("y")>>)>>),
                     "value_triple")
Flagged == OfType(With(Blank, "flags", <<Val("f")>>), "value_triple")
Valued == OfType(With(Blank, "values", <<Val("v")>>), "value_triple")
Plainly(v, type) == OfType(Val(v), type)

TripleQueries == {
  InEnvironment(Blank, Class("c1")), InEnvironment(Blank, Exact(Class("c1"))),
  InEnvironment([Blank EXCEPT !.envs = {2}], Class("c1")),
  InEnvironment(Blank, [BlankEnv EXCEPT !.classes = {Class("c1"), Vendor("v1")}, !.exact = TRUE]),
  InEnvironment(Blank, [Vendor("v1") EXCEPT !.instances = {"i1"}]) }

ValueQueries == {
  With(Blank, "measurements", <<Digested("value_triple"), Flagged>>),
  With([Blank EXCEPT !.ids = {1, 2}], "measurements", <<Registered>>),
  InEnvironment(With(Val("b"), "measurements", <<Valued, Plainly("m", "value_triple")>>), Class("c1")) }

KeyQueries == {
  With(With(Blank, "cryptoKeys", <<Val("k")>>), "authorizedBy", <<Val("l")>>),
  InEnvironment(With(Blank, "cryptoKeys", <<Val("l")>>), Vendor("v1")) }

Condition == With(Blank, "measurements", <<Plainly("n", "stateful_environment")>>)
Endorsement == OfType(With(Blank, "measurements", <<Plainly("m", "value_triple")>>),
                      "conditional_endorsement_triple")
ConditionalQueries == {
  With(With(Blank, "conditions", <<InEnvironment(Condition, Class("c1"))>>),
       "endorsements", <<Endorsement>>),
  With(Val("a"), "endorsements",
       <<OfType(InEnvironment(Blank, Class("c1")), "conditional_endorsement_triple"), Endorsement>>) }

Record == With(With(Blank, "selections", <<Val("m")>>), "additions", <<Val("n")>>)
SeriesQueries == {
  InEnvironment(With(With(Blank, "records", <<Record>>),
                     "measurements", <<Plainly("m", "ces_condition")>>), Class("c1")),
  With(With(Blank, "authorizedBy", <<Val("k")>>), "records", <<With(Blank, "selections", <<Val("n")>>)>>) }

DomainQueries == {
  InEnvironment(With(Blank, "entries", <<InEnvironment(Blank, Vendor("v1"))>>), Class("c1")),
  With(Blank, "entries", <<[Blank EXCEPT !.envs = {2}]>>) }

Of(kinds, queries) == {[kind |-> k, query |-> q] : k \in kinds, q \in queries}

AllQueries ==
  Of({"LocatorQuery"}, {With(With(Blank, "digests", <<Val("x")>>), "hrefs", <<Val("h")>>)})
  \cup Of({"EntityQuery"}, {With(OfType(Blank, "manifest"), "roles", <<Val("r")>>)})
  \cup Of({"ManifestQuery"},
          {With(With(Blank, "entities", <<With(Val("e"), "roles", <<Val("r")>>)>>),
                "dependentRIMs", <<With(Blank, "hrefs", <<Val("h")>>)>>)})
  \cup Of({"ModuleTagQuery"},
          {With(With(Blank, "entities", <<Val("e")>>), "linkedTags", <<Val("l")>>)})
  \cup Of({"TokenQuery"}, {With(Blank, "authority", <<Val("k")>>)})
  \cup Of({"KeyTripleQuery"}, TripleQueries \cup KeyQueries)
  \cup Of({"ValueTripleQuery"}, ValueQueries)
  \cup Of({"ValueTripleQueryGroup"}, {With(Blank, "members", SetToSeq(ValueQueries))})
  \cup Of({"ConditionalEndorsementTripleQuery"}, ConditionalQueries)
  \cup Of({"ConditionalEndorsementSeriesTripleQuery"}, SeriesQueries)
  \cup Of({"DomainMembershipTripleQuery", "DomainDependencyTripleQuery"}, DomainQueries)

ASSUME MCAsks == \A x \in Queries : Asks(x.kind, x.query)
=============================================================================
