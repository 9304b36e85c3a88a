------------------------------- MODULE Query -------------------------------
(***************************************************************************)
(* The query objects of query.go and querygroup.go.  Run executes one      *)
(* SELECT per subquery, outside of any transaction, each narrowed by the   *)
(* IDs the one before has left, and finally that of the query itself.  In  *)
(* doing so it overwrites the query object, and has to put back what it    *)
(* found, whatever becomes of the SELECTs, for the object may be run again.*)
(*                                                                         *)
(* Here a Run is one step, which takes the database before and after at    *)
(* most one commit of another client, and the statement, if any, the commit*)
(* comes before: MidRun below.  Another statement may fail.  Rows are      *)
(* added a document at a time and removed one by one, from the leaves, as  *)
(* the programs of ManifestRows do.                                        *)
(***************************************************************************)
EXTENDS QuerySpec

CONSTANTS
  Queries,        \* the queries the client may build: records [kind, query]
  Docs,           \* the documents that may be added
  RowsOf,         \* the rows of each document that matter to each type of query
  Values,         \* the values the client may add to its query between two runs
  MaxStatements,  \* bound on the statement a commit or a failure precedes
  MaxDeletes,     \* bound on the number of rows removed
  MaxRuns         \* bound on the number of runs

\* A query object that is not running.  NewQuery returns one, and the builder methods
\* only add to its lists and its subqueries.
AtRest(q) ==
  /\ q = [vals |-> q.vals, ids |-> q.ids, owners |-> q.owners, types |-> q.types,
          envs |-> q.envs, savedIDs |-> {}, saved |-> FALSE, savedEnvs |-> {},
          envSaved |-> FALSE, subs |-> q.subs]
  /\ q.subs = [name \in DOMAIN q.subs |-> q.subs[name]]

\* The subquery is a group.
IsGroup(q, name) ==
  name \in DOMAIN q.subs =>
    Len(q.subs[name]) \in Nat /\ DOMAIN q.subs[name] = 1 .. Len(q.subs[name])

Grouped == {"measurements", "conditions", "endorsements", "selections", "additions",
            "records", "members"}
HasGroups(q) == \A name \in Grouped : IsGroup(q, name)

\* The groups in the groups.
IsBuilt(q) ==
  /\ AtRest(q) /\ HasGroups(q)
  /\ \A name \in Grouped : \A i \in DOMAIN Sub(q, name) :
       AtRest(q.subs[name][i]) /\ HasGroups(q.subs[name][i])

Kinds ==
  {"LocatorQuery", "EntityQuery", "ManifestQuery", "ModuleTagQuery", "TokenQuery",
   "KeyTripleQuery", "ValueTripleQuery", "ConditionalEndorsementTripleQuery",
   "ConditionalEndorsementSeriesTripleQuery", "DomainMembershipTripleQuery",
   "DomainDependencyTripleQuery", "ValueTripleQueryGroup"}

\* OwnerName of StatefulEnvironment and ConditionalEndorsementSeriesRecord, which belong
\* to one type of owner only.
Typed(rows) == \A r \in rows :
  /\ r.tbl = "stateful_environments" => r.typ = "conditional_endorsement_triple"
  /\ r.tbl = "conditional_endorsement_series_records"
       => r.typ = "conditional_endorsement_series_triple"

ASSUME QueryAssumption ==
  /\ DOMAIN RowsOf = Kinds
  /\ \A k \in Kinds : DOMAIN RowsOf[k] = Docs /\ \A d \in Docs : Typed(RowsOf[k][d])
  /\ \A x \in Queries : /\ x.kind \in Kinds /\ IsBuilt(x.query)
                        /\ x.kind = "ValueTripleQueryGroup" => "members" \in DOMAIN x.query.subs
  /\ MaxStatements \in Nat /\ MaxDeletes \in Nat /\ MaxRuns \in Nat

VARIABLES
  db,       \* the rows of the database
  added,    \* the documents added so far: each at most once, a bound
  kind,     \* the type of the client's query object
  query,    \* the query object
  result,   \* what its last run returned
  runs, deletes

vars == <<db, added, kind, query, result, runs, deletes>>
-----------------------------------------------------------------------------
\* A run in progress: the query object, the next statement, the database on both
\* sides of the commit, and what the run will return.
MidRun(q, m) == [q |-> q, m |-> m, err |-> "none", rows |-> {}]

Seen(m) == IF m.next < m.at THEN m.before ELSE m.after

\* runQuery: no row is an error too, ErrNoMatch.
Outcome(q, m, rows) ==
  [q |-> q, m |-> [m EXCEPT !.next = @ + 1],
   rows |-> IF m.next = m.fails THEN {} ELSE rows,
   err |-> IF m.next = m.fails THEN "db error" ELSE IF rows = {} THEN "no match" ELSE "none"]

RunQuery(tbl, Match(_, _), q, m) ==
  Outcome(q, m, {r \in Table(Seen(m), tbl) : Match(q, r)})

\* Fault: a second narrowing forgets that the list was saved already.
SaveTwice(q) == [q EXCEPT !.savedIDs = q.ids, !.saved = TRUE]

\* What was saved is of no use once it is restored, and is forgotten here.
saveIDs(q) == IF q.saved THEN q ELSE [q EXCEPT !.savedIDs = q.ids, !.saved = TRUE]
restoreIDs(q) ==
  IF q.saved THEN [q EXCEPT !.ids = q.savedIDs, !.savedIDs = {}, !.saved = FALSE] ELSE q
saveEnvIDs(q) == IF q.envSaved THEN q ELSE [q EXCEPT !.savedEnvs = q.envs, !.envSaved = TRUE]
restoreEnvIDs(q) ==
  IF q.envSaved THEN [q EXCEPT !.envs = q.savedEnvs, !.savedEnvs = {}, !.envSaved = FALSE] ELSE q
\* Fault: the environments are forgotten.
RestoreOnlyIDs(q) == restoreIDs(q)

Restore(q) == restoreEnvIDs(restoreIDs(q))

IDs(rows) == {r.id : r \in rows}
Owners(rows) == {r.owner : r \in rows}

Skips(s, name) == s.err # "none" \/ Sub(s.q, name) = <<>>

\* A subquery is run with the query and the moment of its caller; q is the caller's
\* object afterwards.  Its error ends the run.
Fails(s, q, sub) == [s EXCEPT !.q = q, !.m = sub.m, !.err = sub.err]

Restored(s) == [s EXCEPT !.q = Restore(@)]

Final(tbl, s) ==
  IF s.err # "none" THEN s ELSE Restored(RunQuery(tbl, Where, s.q, s.m))

\* A subquery whose rows belong to those of the query: it is narrowed by the IDs of
\* the query, which the owners of its rows then replace.
OwnedBy(sub, types, ids) == [sub EXCEPT !.types = @ \cup types, !.owners = @ \cup ids]
Disowned(sub) == [sub EXCEPT !.types = {}, !.owners = {}]

NarrowByOwner(s, name, sub) ==
  LET q == [saveIDs(s.q) EXCEPT !.subs[name] = <<Disowned(sub.q)>>]
  IN IF sub.err # "none" THEN Fails(s, Restore(q), sub)
     ELSE [s EXCEPT !.q = [q EXCEPT !.ids = Owners(sub.rows)], !.m = sub.m]

ByOwner(name, types, Run(_, _), s) ==
  IF Skips(s, name) THEN s
  ELSE NarrowByOwner(s, name, Run(OwnedBy(s.q.subs[name][1], types, s.q.ids), s.m))

\* Fault: the class subqueries joined with AND.
EnvWhereAll(q, r) ==
  /\ Column(r.id, q.ids, FALSE)
  /\ \A s \in q.classes :
       Column(r.val.class, s.classBytes, q.exact) /\ Column(r.val.vendor, s.vendors, q.exact)
  /\ Column(r.val.class, q.classBytes, q.exact /\ q.classes = {})
  /\ Column(r.val.vendor, q.vendors, q.exact /\ q.classes = {})
  /\ Column(r.val.instance, q.instanceBytes \cup q.instances, q.exact)

\* The subquery for the environment; its own IDs are put back at once.
EnvWhere(q, r) ==
  LET exactClass == q.exact /\ q.classes = {} /\ q.classIDs = {}
      ClassWhere(s) == /\ Column(r.val.class, s.classBytes, q.exact)
                       /\ Column(r.val.class, s.classIDs, FALSE)
                       /\ Column(r.val.vendor, s.vendors, q.exact)
  IN /\ Column(r.id, q.ids, FALSE)
     /\ q.classes = {} \/ \E s \in q.classes : ClassWhere(s)
     /\ Column(r.val.class, q.classBytes, exactClass)
     /\ Column(r.val.class, q.classIDs, FALSE)
     /\ Column(r.val.vendor, q.vendors, exactClass)
     /\ Column(r.val.instance, q.instanceBytes, q.exact /\ q.instances = {})
     /\ Column(r.val.instance, q.instances, FALSE)

NarrowByEnvironment(s, sub) ==
  IF sub.err # "none" THEN Fails(s, s.q, sub)
  ELSE [s EXCEPT !.q = [saveEnvIDs(s.q) EXCEPT !.envs = IDs(sub.rows)], !.m = sub.m]

ByEnvironment(s) ==
  IF Skips(s, "environment") \/ EnvIsEmpty(s.q.subs["environment"][1]) THEN s
  ELSE NarrowByEnvironment(s,
         RunQuery("environments", EnvWhere,
                  [s.q.subs["environment"][1] EXCEPT !.ids = @ \cup s.q.envs], s.m))

\* Fault: a group takes every error for a member without a match.
AfterRegardless(g, r) ==
  [members |-> Append(g.members, r.q), m |-> r.m, err |-> "none",
   results |-> IF r.err = "none" THEN Append(g.results, r.rows) ELSE g.results]

\* A group runs its members one after the other; one that matches nothing is left out,
\* any other error ends the run.
After(g, r) ==
  [members |-> Append(g.members, r.q), m |-> r.m,
   err |-> IF r.err = "db error" THEN r.err ELSE "none",
   results |-> IF r.err = "none" THEN Append(g.results, r.rows) ELSE g.results]

GroupResult(g) ==
  IF g.err = "none" /\ g.results = <<>> THEN [g EXCEPT !.err = "no match"] ELSE g

\* run[i][n] is what the i-th member returns when its first statement is the n-th.
NextMember(g, member, run, i) ==
  IF g.err = "none" THEN After(g, run[i][g.m.next])
  ELSE [g EXCEPT !.members = Append(@, member)]

RunGroup(members, run, m) ==
  LET group[i \in 0 .. Len(members)] ==
        IF i = 0 THEN [members |-> <<>>, m |-> m, err |-> "none", results |-> <<>>]
        ELSE NextMember(group[i - 1], members[i], run, i)
  IN GroupResult(group[Len(members)])

Runs(members, Run(_, _), m) ==
  [i \in DOMAIN members |-> [n \in Nat |-> Run(members[i], [m EXCEPT !.next = n])]]

\* Fault: the owners of some member's result.
OwnerDisjunction(type, g) ==
  LET ids == Owners({r \in UNION {g.results[i] : i \in DOMAIN g.results} : r.typ = type})
  IN [ids |-> ids, err |-> IF g.err = "none" /\ ids = {} THEN "no match" ELSE g.err]

\* The IDs of the owners of the given type that have a row in each member's result.
OwnerConjunction(type, g) ==
  LET owned == [i \in DOMAIN g.results |-> Owners({r \in g.results[i] : r.typ = type})]
      ids == {o \in UNION {owned[i] : i \in DOMAIN owned} : \A i \in DOMAIN owned : o \in owned[i]}
      missing == Len(g.results) # Len(g.members) \/ ids = {}
  IN [ids |-> ids, err |-> IF g.err = "none" /\ missing THEN "no match" ELSE g.err]

\* A group of subqueries, all of which an owner has to match.
WithMembers(q, name, members) ==
  [q EXCEPT !.subs[name] = [i \in DOMAIN members |-> [members[i] EXCEPT !.owners = {}]]]

NarrowByGroup(s, q, recovered, owners, m) ==
  IF owners.err # "none" THEN [s EXCEPT !.q = recovered, !.m = m, !.err = owners.err]
  ELSE [s EXCEPT !.q = [saveIDs(q) EXCEPT !.ids = owners.ids], !.m = m]

ByGroup(name, type, Run(_, _), Recover(_), s) ==
  IF Skips(s, name) THEN s
  ELSE LET members == [i \in DOMAIN s.q.subs[name] |-> OwnedBy(s.q.subs[name][i], {}, s.q.ids)]
           g == RunGroup(members, Runs(members, Run, s.m), s.m)
           q == WithMembers(s.q, name, g.members)
       IN NarrowByGroup(s, q, Recover(q), OwnerConjunction(type, g), g.m)

NoRecovery(q) == q
-----------------------------------------------------------------------------
RunCryptoKey(q, m) == RunQuery("cryptokeys", Where, q, m)
RunDigest(q, m) == RunQuery("digests", Where, q, m)
RunMeasurementValue(q, m) == RunQuery("measurement_value_entries", Where, q, m)
RunFlag(q, m) == RunQuery("flags", Where, q, m)
RunHref(q, m) == RunQuery("hrefs", Where, q, m)
RunLinkedTag(q, m) == RunQuery("linked_tags", Where, q, m)

RunIntegrityRegister(q, m) ==
  Final("integrity_registers",
        ByOwner("digests", {"integrity_register"}, RunDigest, MidRun(q, m)))

RunMeasurement(q, m) ==
  LET keys == ByOwner("authorizedBy", {"measurement"}, RunCryptoKey, MidRun(q, m))
      digests == ByOwner("digests", {"measurement"}, RunDigest, keys)
      values == ByOwner("values", {}, RunMeasurementValue, digests)
      registers == ByOwner("registers", {}, RunIntegrityRegister, values)
  IN Final("measurements", ByOwner("flags", {}, RunFlag, registers))

RunLocator(q, m) ==
  LET digests == ByOwner("digests", {"locator"}, RunDigest, MidRun(q, m))
  IN Final("locators", ByOwner("hrefs", {}, RunHref, digests))

\* The entities with one of the roles join the IDs the query already has.
JoinByRole(s, roles) ==
  IF roles.err # "none" THEN Fails(s, Restore(s.q), roles)
  ELSE [s EXCEPT !.q.ids = @ \cup Owners(roles.rows), !.m = roles.m]

RunEntity(q, m) ==
  Final("entities",
        IF Sub(q, "roles") = <<>> THEN MidRun(q, m)
        ELSE JoinByRole(MidRun(saveIDs(q), m), RunQuery("roles", Where, q.subs["roles"][1], m)))

RunManifest(q, m) ==
  LET entities == ByOwner("entities", {"manifest"}, RunEntity, MidRun(q, m))
  IN Final("manifests", ByOwner("dependentRIMs", {}, RunLocator, entities))

RunModuleTag(q, m) ==
  LET entities == ByOwner("entities", {"module_tag"}, RunEntity, MidRun(q, m))
  IN Final("module_tags", ByOwner("linkedTags", {}, RunLinkedTag, entities))

RunToken(q, m) ==
  Final("tokens", ByOwner("authority", {"token"}, RunCryptoKey, MidRun(q, m)))

RunTriple(tbl, q, m) ==
  LET env == ByEnvironment(MidRun(q, m))
      keys == ByOwner("cryptoKeys", {"key_triple"}, RunCryptoKey, env)
      auth == ByOwner("authorizedBy", {"key_triple_auth"}, RunCryptoKey, keys)
  IN Final(tbl, ByGroup("measurements", "value_triple", RunMeasurement, Restore, auth))

RunKeyTriple(q, m) == RunTriple("key_triples", q, m)
RunValueTriple(q, m) == RunTriple("value_triple_entries", q, m)

RunStatefulEnvironment(q, m) ==
  Final("stateful_environments",
        ByGroup("measurements", "stateful_environment", RunMeasurement, restoreEnvIDs,
                ByEnvironment(MidRun(q, m))))

RunEndorsement(q, m) ==
  Final("value_triples",
        ByGroup("measurements", "value_triple", RunMeasurement, NoRecovery,
                ByEnvironment(MidRun(q, m))))

RunConditionalEndorsementTriple(q, m) ==
  LET conditions == ByGroup("conditions", "conditional_endorsement_triple",
                            RunStatefulEnvironment, NoRecovery, MidRun(q, m))
  IN Final("conditional_endorsement_triples",
           ByGroup("endorsements", "conditional_endorsement_triple",
                   RunEndorsement, restoreIDs, conditions))

RunRecord(q, m) ==
  LET selections == ByGroup("selections", "ces_record_selection", RunMeasurement,
                            NoRecovery, MidRun(q, m))
  IN Final("conditional_endorsement_series_records",
           ByGroup("additions", "ces_record_addition", RunMeasurement, restoreIDs, selections))

RunConditionalEndorsementSeriesTriple(q, m) ==
  LET env == ByEnvironment(MidRun(q, m))
      auth == ByOwner("authorizedBy", {"ces_condition"}, RunCryptoKey, env)
      measurements == ByGroup("measurements", "ces_condition", RunMeasurement, Restore, auth)
  IN Final("conditional_endorsement_series_triples",
           ByGroup("records", "conditional_endorsement_series_triple", RunRecord, Restore,
                   measurements))

RunDomainEntry(q, m) == Final("domain_entries", ByEnvironment(MidRun(q, m)))

\* The owners of the entries join the IDs the query already has.
JoinByEntry(s, sub) ==
  LET q == [s.q EXCEPT !.subs["entries"] = <<Disowned(sub.q)>>]
  IN IF sub.err # "none" THEN Fails(s, restoreEnvIDs(q), sub)
     ELSE [s EXCEPT !.q = [saveIDs(q) EXCEPT !.ids = @ \cup Owners(sub.rows)], !.m = sub.m]

ByEntry(type, s) ==
  IF Skips(s, "entries") THEN s
  ELSE JoinByEntry(s, RunDomainEntry(OwnedBy(s.q.subs["entries"][1], {type}, s.q.ids), s.m))

RunDomainTriple(tbl, type, q, m) == Final(tbl, ByEntry(type, ByEnvironment(MidRun(q, m))))

\* QueryGroup.Run: the union of its members' results.
Union(g) == IF g.err = "none" THEN UNION {g.results[i] : i \in DOMAIN g.results} ELSE {}

Disjunction(q, g) ==
  [q |-> [q EXCEPT !.subs["members"] = g.members], m |-> g.m, err |-> g.err, rows |-> Union(g)]

RunDisjunction(Run(_, _), q, m) ==
  Disjunction(q, RunGroup(q.subs["members"], Runs(q.subs["members"], Run, m), m))
-----------------------------------------------------------------------------
\* Query.Run and what it should return, for the query types of the Store.
RunOf(q, m) ==
  CASE kind = "LocatorQuery" -> RunLocator(q, m)
    [] kind = "EntityQuery" -> RunEntity(q, m)
    [] kind = "ManifestQuery" -> RunManifest(q, m)
    [] kind = "ModuleTagQuery" -> RunModuleTag(q, m)
    [] kind = "TokenQuery" -> RunToken(q, m)
    [] kind = "KeyTripleQuery" -> RunKeyTriple(q, m)
    [] kind = "ValueTripleQuery" -> RunValueTriple(q, m)
    [] kind = "ConditionalEndorsementTripleQuery" -> RunConditionalEndorsementTriple(q, m)
    [] kind = "ConditionalEndorsementSeriesTripleQuery"
         -> RunConditionalEndorsementSeriesTriple(q, m)
    [] kind = "DomainMembershipTripleQuery"
         -> RunDomainTriple("domain_membership_triples", "domain_membership_triple", q, m)
    [] kind = "DomainDependencyTripleQuery"
         -> RunDomainTriple("domain_dependency_triples", "domain_dependency_triple", q, m)
    [] kind = "ValueTripleQueryGroup" -> RunDisjunction(RunValueTriple, q, m)

AnyAsked(Asked(_, _, _), q, r, d) ==
  \E i \in DOMAIN q.subs["members"] : Asked(q.subs["members"][i], r, d)

Answer(d) ==
  LET Rows(tbl, Asked(_, _, _)) == {r \in Table(d, tbl) : Asked(query, r, d)}
      MembershipAsked(q, r, x) == DomainTripleAsked("domain_membership_triple", q, r, x)
      DependencyAsked(q, r, x) == DomainTripleAsked("domain_dependency_triple", q, r, x)
      GroupAsked(q, r, x) == AnyAsked(TripleAsked, q, r, x)
  IN CASE kind = "LocatorQuery" -> Rows("locators", LocatorAsked)
       [] kind = "EntityQuery" -> Rows("entities", EntityAsked)
       [] kind = "ManifestQuery" -> Rows("manifests", ManifestAsked)
       [] kind = "ModuleTagQuery" -> Rows("module_tags", ModuleTagAsked)
       [] kind = "TokenQuery" -> Rows("tokens", TokenAsked)
       [] kind = "KeyTripleQuery" -> Rows("key_triples", TripleAsked)
       [] kind = "ValueTripleQuery" -> Rows("value_triple_entries", TripleAsked)
       [] kind = "ConditionalEndorsementTripleQuery"
            -> Rows("conditional_endorsement_triples", ConditionalEndorsementTripleAsked)
       [] kind = "ConditionalEndorsementSeriesTripleQuery"
            -> Rows("conditional_endorsement_series_triples",
                    ConditionalEndorsementSeriesTripleAsked)
       [] kind = "DomainMembershipTripleQuery"
            -> Rows("domain_membership_triples", MembershipAsked)
       [] kind = "DomainDependencyTripleQuery"
            -> Rows("domain_dependency_triples", DependencyAsked)
       [] kind = "ValueTripleQueryGroup" -> Rows("value_triple_entries", GroupAsked)
-----------------------------------------------------------------------------
NoResult == [rows |-> {}, err |-> "none", failed |-> FALSE]

Init ==
  /\ db = {} /\ added = {} /\ runs = 0 /\ deletes = 0
  /\ \E x \in Queries : kind = x.kind /\ query = x.query
  /\ result = NoResult

\* AddBytes commits all rows of a document at once.
Add(d) ==
  /\ d \in Docs \ added
  /\ db' = db \cup RowsOf[kind][d] /\ added' = added \cup {d} /\ UNCHANGED deletes

\* DeleteManifest removes the rows below a row before the row itself, and an
\* environment after the last row that refers to it.
InUse(r) == \E x \in db : \/ (x.up = r.tbl /\ x.owner = r.id)
                         \/ (r.tbl = "environments" /\ x.env = r.id)

Delete(r) ==
  /\ deletes < MaxDeletes /\ ~InUse(r)
  /\ db' = db \ {r} /\ deletes' = deletes + 1 /\ UNCHANGED added

Commit == (\E d \in Docs : Add(d)) \/ (\E r \in db : Delete(r))

OtherClient == Commit /\ UNCHANGED <<kind, query, result, runs>>

\* The builder methods append to the lists of the query.
Builder(v) ==
  /\ runs < MaxRuns /\ v \notin query.vals
  /\ query' = [query EXCEPT !.vals = @ \cup {v}]
  /\ UNCHANGED <<db, added, kind, result, runs, deletes>>

Return(r) ==
  /\ query' = r.q
  /\ result' = [rows |-> r.rows, err |-> r.err, failed |-> r.m.fails \in 1 .. r.m.next - 1]

\* db' is the database after the commit, if there is one while the query runs.
Run(at, fails) ==
  /\ runs < MaxRuns
  /\ Return(RunOf(query, [next |-> 1, before |-> db, after |-> db', at |-> at, fails |-> fails]))
  /\ runs' = runs + 1 /\ UNCHANGED kind

RunAlone(fails) == UNCHANGED <<db, added, deletes>> /\ Run(0, fails)
RunInterrupted(at) == Commit /\ Run(at, 0)

Next ==
  \/ OtherClient
  \/ \E v \in Values : Builder(v)
  \/ \E n \in 0 .. MaxStatements : RunAlone(n)
  \/ \E n \in 1 .. MaxStatements : RunInterrupted(n)

Spec == Init /\ [][Next]_vars
-----------------------------------------------------------------------------
(* The queries whose runs return what QuerySpec says: hypotheses of the theorems about *)
(* what a run returns, which MCQuery checks of its queries.                           *)

\* A subquery has no owners and owner types of its own: Run takes them away.
Bare(x) == AtRest(x) /\ x.owners = {} /\ x.types = {}

Single(q, name, Asks(_)) ==
  name \in DOMAIN q.subs =>
    LET x == q.subs[name][1] IN q.subs[name] = <<x>> /\ Bare(x) /\ Asks(x)

Group(q, name, Asks(_)) ==
  name \in DOMAIN q.subs =>
    /\ Len(q.subs[name]) \in Nat
    /\ q.subs[name] = [i \in 1 .. Len(q.subs[name]) |-> q.subs[name][i]]
    /\ \A i \in DOMAIN q.subs[name] :
         LET x == q.subs[name][i] IN AtRest(x) /\ x.owners = {} /\ Asks(x)

\* A class is given by its bytes or by the composite IDs, in an exact query by its bytes.
OneWay(c, exact) == c.classIDs = {} \/ (c.classBytes = {} /\ ~exact)

\* The environment is given by the subquery or by its ID.
AsksEnv(q) ==
  "environment" \in DOMAIN q.subs =>
    LET env == q.subs["environment"][1]
    IN /\ q.subs["environment"] = <<env>>
       /\ env = [exact |-> env.exact, ids |-> env.ids, classBytes |-> env.classBytes,
                 classIDs |-> env.classIDs, classes |-> env.classes,
                 vendors |-> env.vendors, instanceBytes |-> env.instanceBytes,
                 instances |-> env.instances]
       /\ env.exact \in BOOLEAN
       /\ q.envs = {} \/ env.ids = {}
       /\ env.instanceBytes = {} \/ env.instances = {}
       /\ OneWay(env, env.exact /\ env.classes = {})
       /\ \A s \in env.classes : OneWay(s, env.exact)

AsksLeaf(q) == TRUE
AsksRegister(q) == Single(q, "digests", AsksLeaf)
AsksLocator(q) == Single(q, "digests", AsksLeaf) /\ Single(q, "hrefs", AsksLeaf)

\* The authorisations of a measurement are never found.
AsksMeasurement(q) ==
  /\ "authorizedBy" \notin DOMAIN q.subs
  /\ Single(q, "digests", AsksLeaf) /\ Single(q, "values", AsksLeaf)
  /\ Single(q, "registers", AsksRegister) /\ Single(q, "flags", AsksLeaf)

\* An entity query with roles, a domain triple with entries, has no IDs.
AsksEntity(q) == Single(q, "roles", AsksLeaf) /\ ("roles" \in DOMAIN q.subs => q.ids = {})
AsksManifest(q) == Single(q, "entities", AsksEntity) /\ Single(q, "dependentRIMs", AsksLocator)
AsksModuleTag(q) == Single(q, "entities", AsksEntity) /\ Single(q, "linkedTags", AsksLeaf)
AsksToken(q) == Single(q, "authority", AsksLeaf)

AsksTriple(q) ==
  /\ AsksEnv(q) /\ Single(q, "cryptoKeys", AsksLeaf) /\ Single(q, "authorizedBy", AsksLeaf)
  /\ Group(q, "measurements", AsksMeasurement)
AsksStatefulEnvironment(q) == AsksEnv(q) /\ Group(q, "measurements", AsksMeasurement)

\* An endorsement has an environment or measurements: what it saved of its environments
\* is not restored when the measurements match nothing.
AsksEndorsement(q) ==
  /\ AsksEnv(q) /\ Group(q, "measurements", AsksMeasurement)
  /\ "environment" \notin DOMAIN q.subs \/ "measurements" \notin DOMAIN q.subs
AsksConditionalEndorsementTriple(q) ==
  /\ Group(q, "conditions", AsksStatefulEnvironment)
  /\ Group(q, "endorsements", AsksEndorsement)
AsksRecord(q) ==
  Group(q, "selections", AsksMeasurement) /\ Group(q, "additions", AsksMeasurement)
AsksConditionalEndorsementSeriesTriple(q) ==
  /\ AsksEnv(q) /\ Single(q, "authorizedBy", AsksLeaf)
  /\ Group(q, "measurements", AsksMeasurement) /\ Group(q, "records", AsksRecord)
AsksDomainEntry(q) == AsksEnv(q)
AsksDomainTriple(q) ==
  /\ AsksEnv(q) /\ Single(q, "entries", AsksDomainEntry)
  /\ ("entries" \in DOMAIN q.subs => q.ids = {})
AsksGroup(q) ==
  LET members == q.subs["members"]
  IN /\ "members" \in DOMAIN q.subs /\ Len(members) \in Nat
     /\ members = [i \in 1 .. Len(members) |-> members[i]]
     /\ \A i \in DOMAIN members : AtRest(members[i]) /\ AsksTriple(members[i])

Asks(k, q) ==
  CASE k = "LocatorQuery" -> AsksLocator(q)
    [] k = "EntityQuery" -> AsksEntity(q)
    [] k = "ManifestQuery" -> AsksManifest(q)
    [] k = "ModuleTagQuery" -> AsksModuleTag(q)
    [] k = "TokenQuery" -> AsksToken(q)
    [] k \in {"KeyTripleQuery", "ValueTripleQuery"} -> AsksTriple(q)
    [] k = "ConditionalEndorsementTripleQuery" -> AsksConditionalEndorsementTriple(q)
    [] k = "ConditionalEndorsementSeriesTripleQuery" -> AsksConditionalEndorsementSeriesTriple(q)
    [] k \in {"DomainMembershipTripleQuery", "DomainDependencyTripleQuery"} -> AsksDomainTriple(q)
    [] k = "ValueTripleQueryGroup" -> AsksGroup(q)

-----------------------------------------------------------------------------
\* Rows come with the outcome "no error" only, and a query object at rest holds no
\* saved lists that the next run would mistake for its own.
TypeOK ==
  /\ result.err \in {"none", "no match", "db error"}
  /\ result.err = "none" <=> result.rows # {} \/ runs = 0
  /\ result.rows \subseteq UNION {RowsOf[kind][d] : d \in added}
  /\ ~query.saved /\ ~query.envSaved

\* A row that Run returns satisfied the query, subqueries included, before or after
\* what another client has committed meanwhile.
Sound ==
  [][runs' # runs => result'.rows \subseteq Answer(db) \cup Answer(db')]_vars

\* Run leaves out no row that satisfied the query all along.
Complete ==
  [][runs' # runs /\ result'.err # "db error"
       => Answer(db) \cap Answer(db') \subseteq result'.rows]_vars

\* Whatever becomes of its statements, a run leaves the query object as it was, so
\* that it can be repeated.
Repeatable == [][runs' # runs => query' = query]_vars

\* An error of the database, in whichever subquery, is never taken for a subquery
\* without a match, and never for an answer.
ErrorsSurface == result.failed <=> result.err = "db error"
=============================================================================
