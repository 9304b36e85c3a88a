# A verification model of corim-store

corim-store keeps CoRIMs (manifests of reference values, endorsements and keys
for the attestation of devices) in an SQL database, and answers queries about
the triples in them. This directory holds TLA+ modules translated from its Go
source, the TLC configurations that check them, and TLAPS proofs about six of
its components. Paths below are relative to the repository; `store.go:314` without
a directory is `pkg/store/store.go`.

## The system and its parts

| part | state it keeps | operations | what is hard about it | what makes it correct |
|---|---|---|---|---|
| Store (`pkg/store/store.go`, `config.go`) | a DB handle and a configuration: `Force`, `Insecure`, `RequireLabel`, hash algorithm; all else is in the database | `AddBytes`, `VerifyAndAddBytes`, `AddCoRIM`, `AddManifest`, `AddToken`, `DeleteManifest`, `Clear`, `Set...TriplesActive`, `Get...`, `Query...` | several processes on one DB; some calls run in one transaction, some in two, some in none; the schema has no unique constraint | one manifest and one token per manifest ID, an add has its whole effect or none, signed input is verified, nothing is lost by an overwrite |
| Row trees (`pkg/model/*.go`) | about 25 tables: a manifest, its module tags, their triples, and what those own | `Insert`, `Select`, `Delete` of each type, recursively | `Delete` removes what `Select` has loaded; without a transaction it can stop anywhere | what was inserted is loaded back, and removed by a delete, possibly a repeated one |
| Environments (`pkg/model/environment.go`) | one shared row per environment | `Insert` (find or insert), `DeleteIfOrphaned` | sharing between documents, reference check and delete are separate statements | stored once, there as long as a triple refers to it, gone afterwards |
| Life cycle (`cmd/corim-store/cmd/lifecycle.go`, `Set...TriplesActive`) | `is_active` of each triple | `activate`, `deactivate`, the six API methods | lookups and updates in separate statements; the command works on tables by hand-written SQL | only what was named changes, to what was asked |
| Query engine (`pkg/store/query.go`, `querygroup.go`, entry views) | query objects, mutated while they run | builders, `UpdateSelectQuery`, `Run`, groups | multi-stage runs that narrow and restore the query; conjunction over owners; exact and partial environments; time windows | the result is the set a reader of the builder calls expects |
| CoSERV (`pkg/store/coserv.go`) | the result set in the making and its expiry | `RunQuery`: environment queries (entries, then each triple) and RIM queries (manifest, then bytes) | several statements outside of a transaction, errors that mean "nothing found", missing end points of validity | an answer is complete and whole, expires no later than the CoRIMs it is made of, and an error is never an answer |
| Migrations (`pkg/migrations`, `cmd/corim-store/cmd/db.go`, `Store.Init`, `Store.Migrate`) | the schema, the marks of the migrations applied, a lock row | `init`, `migrate`, `rollback`, `clear`, their counterparts of the store | sixty statements that depend on each other, none in a transaction, marked before they run; a lock that is a row | one process migrates at a time, the marks tell the schema, documents survive the way up and down |
| Key stores (`pkg/util/signing.go`) | trust anchors | add keys, certificates, roots; choose a key for a message | chains, several stores | a signature is accepted only with a trusted key |
| Command line (`cmd/corim-store/cmd`) | none | one store call per argument | stops at the first error | |
| Conversion (`FromCoRIM`, `ToCoRIM`), `pkg/db`, `pkg/build` | none | pure conversion, opening a driver | | |

The parts interact through the database only: a client (a CLI process or a
goroutine of a service that imports `pkg/store`) sends one statement after the
other, and every interleaving with other clients is possible that the isolation
level allows. There are no background tasks, callbacks or messages.

Every statement can fail (connection lost, a conflict reported by the DBMS, a
cancelled context), and a process can die between two. A transaction is then
rolled back; statements outside of one stay. The modules have one action `Fail`
for all of this, enabled wherever a client has a statement to execute; `Coserv`,
where it matters what the code takes an error for, has the errors themselves.

## Modules

| module | models | role |
|---|---|---|
| `StoreSchema` | documents, configuration, rows of `manifests` and `tokens` | shared definitions |
| `StoreSpec` | what `store.go` promises: an add is one step, a delete two | abstract specification |
| `StoreTx` | the adds and the delete of `store.go`, statement by statement, with transactions | detailed specification |
| `StoreTxProofs` | | theorems about `StoreTx`, and that it implements `StoreSpec` |
| `Lifecycle` | `lifecycle.go` and `Set...TriplesActive` | |
| `ManifestRows` | `Insert`, `Select`, `Delete` of every type in `pkg/model`, as programs of statements | pure operators |
| `RowStore` | clients that execute those programs, sharing environments | composes with `ManifestRows` |
| `QuerySpec` | what each type of query in `query.go` asks for | reference semantics, pure operators |
| `Query` | `Run` of each type, statement by statement, while others commit | checked against `QuerySpec` |
| `Coserv` | `RunQuery` of `coserv.go`, statement by statement, while others commit and time passes | |
| `MigrationSteps` | the four migrations as sequences of statements, and what a statement does to schema and rows | pure operators |
| `Migrator` | the commands of `db.go` and the methods of the store that migrate: lock, marks, statements, failures | composes with `MigrationSteps` |
| `LifecycleProofs`, `RowStoreProofs`, `QueryProofs`, `MigratorProofs`, `CoservProofs` | | theorems about the module each is named after |
| `RowProofs` | | lemmas: which statements the programs of `ManifestRows` consist of, for any rows |
| `SequenceFacts` | | lemmas: induction over numbers, what is in a sequence that was flattened, reversed or filtered |
| `MCStoreTx`, `MCLifecycle`, `MCRowStore`, `MCQuery`, `MCCoserv`, `MCMigrator` | | constants for TLC |

`StoreTx` and `RowStore` look at the same calls at two levels. In `StoreTx` a
manifest is one row, which is enough to decide what adds and deletes do to each
other; all interleavings of its few statements are explored and proved about.
`RowStore` opens that row up into the tree of rows the statements write, where
the questions are whether anything is forgotten and what happens to shared
environments. `Query` reads what those calls commit: whole documents that
appear at once and rows that go one by one, leaves first; so does `Coserv`, for
which a query object is the set of environments it matches.

Operators whose comment begins with `Fault:` are not part of a specification.
Each is what a definition next to it would be if the code had a plausible bug,
and is used to see that the properties notice.

### StoreTx

A client is `idle` or at one of the statements of its call, `pc[c]`, named after
what the statement does: `SelectToken`, `ReloadToken`, `DropToken`, `InsertToken`
are `AddToken` (store.go:273-304), `SelectManifest` ... `InsertManifest` are
`AddManifest` (store.go:307-365), `GetManifest` is `DeleteManifest`. `found[c]`
is the Go variable `existing`; `tx[c]` is the open transaction, a snapshot and
two sets of writes. `AddBytes` and `VerifyAndAddBytes` run in one transaction
(`Store.BeginTx`), in which the transactions that `AddToken` and `AddManifest`
begin are savepoints. `AddCoRIM` on a store that is no transaction runs lookup,
removal and insertion separately.

`DeleteManifest` is never in a transaction (store.go:406): it deletes what the
manifest contains in many statements, each committed at once, and the row of the
manifest last (manifest.go:314-339). Here, where a manifest is one row, these are
two steps: `DeleteContents`, with the first of them, marks the manifest `partial`,
and `DeleteManifest` removes it. A delete may stop in between, a second one or an
overwrite may come first. `StoreSpec` has the same two halves, `BeginDelete` and
`EndDelete`: what it promises is that adds are indivisible and that nothing but a
delete is ever seen half done. What happens between those statements is the
subject of `RowStore`.

`Isolation` is what the DBMS does by default, since `BeginTx` passes no options:
*serializable* stands for SQLite, *repeatable_read* for MySQL, *read_committed*
for PostgreSQL. Conflicts are detected at the commit, or anywhere earlier (Fail).

| run | question | bounds |
|---|---|---|
| `store_serial` | overwriting and deleting with `Force`, serializable: uniqueness, no half overwrite, and every commit a step of `StoreSpec`, the whole of an add or half of a delete | 2 clients, 2 documents of 1 manifest ID, 3 calls |
| `store_weak` | read committed, every operation, signed documents, labels: a failed call leaves nothing, tokens appear with their manifests, nothing unverified is stored, `TxInv` | 2 clients, 3 documents, 2 IDs, 3 calls |
| `store_verify_twice` | finding, see below | 1 client, 3 calls |

Two clients and one manifest ID are where every conflict between calls arises,
since calls only ever interfere through rows of the same ID; three calls allow an
add, its removal and a second add, overlapping in any way. What `Force` decides
is part of the refinement theorem, which holds for either value.

### Lifecycle

`active` is the set of triples with `is_active`. The `activate` and `deactivate`
commands are the chain `SetKeys`, `SetValues`, `ResolveTags`, then for each
module tag `ScanKeyTriples`, `SetTagKeys`, `ScanValueTriples`, `SetTagValues`,
or `Refuse` where the code returns an error of its own; the API methods are
`QueryEntries` and `Update`. Adds and deletions happen at any time. `OwnerColumn`
tells whether migration `0003_rev10` has been applied. The code runs on both
schemas, since `Open` does not look at the migrations, but
`moduleTagsSetActive` asks for a column that exists only before it
(lifecycle.go:150). On the current schema `ScanValueTriples` is therefore an
error, and a command that names a module tag ends in `Refuse` without having come
to the value triples: `lifecycle_tags` is the counterexample. `lifecycle` runs on
the older schema, where commands by tag get further and so can do more harm; its
properties are proved for both.

| run | question | bounds |
|---|---|---|
| `lifecycle` | commands by ID, by module tag and API calls change what they name, all of it, and to what was asked | 2 clients, 5 triples, 2 module tags, 2 commands, old schema |
| `lifecycle_tags` | findings: a command by tag ends with the triples of the tag as asked (`TagsEndAsAsked`) | 1 client, 3 triples of 1 tag, 1 command, current schema |

The five triples are one key triple, two value triples and one of another kind
under one tag and a value triple alone under the other: each branch of
`moduleTagsSetActive` is taken. Two commands suffice for one to change what
another has read. Deactivation by tag is left out of `lifecycle`, since it does not
do what it says, and is what `lifecycle_tags` runs.

### ManifestRows and RowStore

For each type `T` of `pkg/model`, `InsertT(n)` and `DeleteT(n)` are the sequence
of statements the method executes on a node `n`, and `SelectT(n, keys)` the part
of it that is loaded when the rows `keys` are there. So `DeleteManifest(
SelectManifest(m, keys))` is what a delete does in a given state of the database,
and the recursion of the Go methods is the nesting of the operators. `RowStore`
has a program counter per client, `prog[c]`, the statements it has left.
`AddBytes` (with `Force`) runs in a transaction; `DeleteManifest` does not.
Loading, a series of queries in the code, is one step.

| run | question | bounds |
|---|---|---|
| `rows_crash` | a manifest with a row in every slice of every type is loaded back whole but for the rows the code never loads; its delete can be stopped anywhere and repeated; no triple misses its environment | 1 client, 4 calls |
| `rows_race` | with adds, overwrites and deletes overlapping, deletes stay repeatable, environments unique and collected, and of a manifest whose row is gone nothing is left but the rows the code forgets | 2 clients, 3 documents, 2 environments, 4 calls |
| `rows_env_race` | finding | 2 clients, 3 calls |

One document suffices for what `Select` and `Delete` forget; the environments
need two documents that share one, and a third that replaces the first. A
document is added at most once in a run, so that keys name rows.

The code does forget some rows, against its comments ("fully populate",
store.go:389; "all its data", store.go:397-399), and two sets of tables name them:

- `Forgotten`, whose rows no delete reaches: the extensions of a manifest
  (manifest.go:49 tags the relation `module_tag`, line 265 writes `manifest`), crypto
  keys of measurements, the records of endorsement series
  (conditionalendorsementseriestriple.go:207-225), and the authority of a token
  (token.go:40);
- `NotLoaded`, those among them that `Select` does not read again: the extensions
  of a manifest and crypto keys of measurements.

The documents have rows in all of these. `NothingLeft` and `FullyPopulated` say that these
rows, and no others, are lost: they are wrong as soon as one more relation is
forgotten, and hold of the rest whatever the shape of the documents (see the
theorems).

### QuerySpec and Query

A row is its table, ID, owner type, owner, environment and one value for all
other columns; an environment has three columns, class, vendor and instance, of
which the others are copies as far as `query.go` is concerned. A query object is
a record of the lists its builder methods fill and of its subqueries. `QuerySpec`
says of each type when a row is *asked* for: its columns satisfy the lists, and
each member of each subquery is matched by some row below it.

`Query` runs the object as the code does. `RunTriple`, `RunMeasurement`, ... have
the same stages in the same order as the `Run` methods: `ByEnvironment`, `ByOwner`
for a subquery whose rows belong to those of the query, `ByGroup` for a
conjunction over owners, and `Final` for the statement of the query itself. A run
in progress carries the query object as it is at that moment, so that saving,
narrowing, resetting and restoring its lists, and the error paths that must not
forget to, are those of the code (`saveIDs`, `Disowned`, `Fails`, ...). A group
(`RunGroup`) takes what its members return as a function of member and statement,
and is itself a recursive function over its members.

A whole `Run` is one step of the model, in which the database may change once:
`RunInterrupted(n)` commits an add or the removal of a row before statement *n*
and `RunAlone(n)` lets statement *n* fail. The client may run the object again,
add to it between runs (`Builder`), and others commit between runs as they like.

| run | question | bounds |
|---|---|---|
| `query` | a run returns only what was asked for before or after the commit (`Sound`) and all that was asked for all along (`Complete`), tells a database error from a query without a match (`ErrorsSurface`), and leaves the object as it found it (`Repeatable`) | 24 queries of 12 types, 2 documents each, 2 removals, 2 runs, up to 9 statements |

No query among the inputs executes more than nine statements. The two documents
of a type are such that IDs of different tables coincide, so that it matters
whether owner types are compared, and that each stage of each query finds rows of
one document, of both, and of none. Two runs are what it takes to see what the
first has done to the object. One commit per run is enough for `Sound` and
`Complete` to be about different databases; with an environment that is removed
and comes back under another ID during one run, `Complete` would not hold
(listed under the hazards), and needs more than one commit.

### Coserv

The store is what other clients commit: `AddBytes` and `VerifyAndAddBytes` with
`Force`, which replace, the latter without looking for an older token, `AddCoRIM`,
which adds no token, and the statements of `DeleteManifest`, leaves first. The
service is at one of its statements, `pc`: for an environment query
`QueryTriples` and, for endorsed values, `QueryConditionals` find entries
(coserv.go:94-171), then `LoadTriple` and `LoadParts` load them one by one
(173-258, `ToTriple`); for a RIM query `Select` finds the manifest of the next
selector (283-342), `GetToken` its bytes, and `Rebuild` puts the CoRIM together
from its rows when there is no token (354-396). `served` and `expiry` are the
local variables of the code. `asOf` is the time the query objects were built
with, which for an environment query is older than `now` when its statements run.

Each statement returns an error or none (`Outcomes`): `ErrNoMatch` where nothing
matches, `sql.ErrNoRows` where a row that was found is gone, and an error of the
database at any time; `GetTokenBytes` also one for two tokens of one ID, `Select`
for two manifests. What follows is decided as in the code, statement by statement:
some pass over `ErrNoMatch` (coserv.go:156, 161, 293, 314, 361), others return
it (107, 166, 231), and `RunQuery` makes an empty result set of it and returns
every other error (`ReturnError`, 69-81). The test at line 141 is left out: what
it looks at builds a query object, and never returns `ErrNoMatch`. The history
variable `errs` has what the statements returned, and `FailureSurfaces` compares
it with what the caller gets.

| run | question | bounds |
|---|---|---|
| `coserv` | a result set has, whole, all that was asked for and there throughout (`Complete`), expires no later than the CoRIMs its triples come from (`ExpiryCovers`), gives for a RIM selector the bytes of the manifest it selects, the highest version of a module tag (`RimIsSelected`), and there is a result set exactly if no statement returned an error but `ErrNoMatch` (`FailureSurfaces`) | 3 documents, of which two share a manifest ID and two a module tag ID, 5 triples of 4 kinds, 7 requests, 3 instants, 1 query |

A query keeps nothing from the one before, so that one is enough; three instants
let a document be not yet valid, valid and expired, before, during and after the
query. Two documents with one ID are what it takes for the bytes to be those of
another, and for two tokens; two with one module tag for the versions to matter.

There are three exceptions, where the code does not do it:

- the expiry of a module tag selector is that of the first entry found
  (coserv.go:331), the bytes are those of the best one, and `ExpiryCovers` says
  nothing of them;
- a document may take a manifest ID between the selection of the manifest
  (coserv.go:304) and the look-up of the token (coserv.go:359): it is served with the
  expiry of the one it replaced, which may be later than its own end of validity.
  `ExpiryCovers` compares with the document served, and speaks of selectors whose
  manifest stayed throughout; without either condition `coserv` ends in a
  counterexample;
- no document is added by `AddCoRIM` under an ID whose token an earlier document
  has left behind, since the code would return that token.

### MigrationSteps and Migrator

A migration is a sequence of statements, `Up[m]` and `Down[m]`, in the order of
the Go files, each with the columns it needs. A schema is a set of columns and
views; a row has an owner, its type and one value, which is what the statements
of `0003_rev10` move around. `Accepts` is what the strictest of the databases
refuses (a view keeps its columns from being dropped).

In `Migrator` a process executes a command: `CreateMeta`, `Lock`, `Plan`, then
its statements (`MarkApplied`, `MarkUnapplied`, `Execute`), then `Unlock`. The
migrator of the `bun` library is modelled as `db.go` and `store.go` use it: the
mark is written before the first statement of a migration and removed before the
first of its way back. A process may fail at a statement, where what follows
depends on whether the error is returned (the methods of the store, whose
deferred `Unlock` runs) or printed (the commands, where `CheckErr` exits), or die.
`db migrate` gives its lock up at once (`UnlockEarly`, db.go:62).

| run | question | bounds |
|---|---|---|
| `migrate` | commands that keep the lock exclude each other; unless a migration was left halfway or overlapped, the marks say which schema the database has, no statement is refused, a migration that reports success leaves the current schema, and documents survive; `Store.Migrate` always gives the lock back | 2 processes, one of which may also clear and migrate without a lock; 3 initial databases; 2 commands, 1 failure |
| `migrate_unlocked` | finding | 2 processes, `db migrate` only |

Two commands are a way up and a way down, or two that overlap; the initial
databases (empty, before `0003_rev10`, current) take the place of longer
histories. The documents have a row for every data statement of `0003_rev10`, and
one with every owner type it tells apart.

`migrate` assumes `FairSpec`, weak fairness of the statements of each process: a
process that has been given a command waits for nothing but its own statements,
since `Lock` fails at once when the lock is taken. That commands are given, fail
or die is not assumed. No other module assumes fairness or states liveness:
nothing else in the code retries, waits or runs in the background, and a client
may stop at any statement.

## What the checks found

Each is a run that TLC ends with a counterexample, listed with the contradicted
comment, test or declaration under `findings` in `PROJECT.json`.

- `VerifyAndAddBytes` inserts a token without looking for an older one
  (`store_verify_twice`).
- `deactivate` by module tag or manifest activates, and either command ends in an
  error before it comes to the value triples (`lifecycle_tags`, two findings).
- A delete can take away the environment of a document that is just being added
  (`rows_env_race`).
- `db migrate` releases its lock before it migrates, so that a second one reports
  an up-to-date database in the middle of the first (`migrate_unlocked`).

Disagreements that show in the definitions themselves, or where TLC has a
counterexample as soon as an input or a hypothesis is changed as described, are
listed as hazards with a note:

- in the store, the token that `DeleteManifest` leaves, labels that an overwrite
  ignores, `AddCoRIM` outside a transaction, and a nil manifest that
  `QueryManifestModels` dereferences when a row goes after the query;
- in the life cycle, the old values `Set...TriplesActive` returns, and that a
  command that stops in the middle leaves what it has done;
- in the row trees, the extensions of manifests, crypto keys of measurements and
  records of endorsement series, which are inserted and not deleted (the first
  two are not loaded either), and the authority of a token;
- in the queries, the exact query by class ID that does not compare the other
  class fields with NULL, restrictions that are united instead of intersected,
  `EndorsementQuery` that stays narrowed when its measurements match nothing, and
  `AuthorizedBy` of a measurement, which looks under the wrong owner type;
- in CoSERV, the expiry of module tag selectors and of a CoRIM that has just been
  replaced, and the token of a deleted CoRIM (see Coserv); and, since no query asks for `is_active`, that deactivated
  triples are served, which a model without that flag cannot say;
- in the migrations, that the commands keep the lock after an error, and that a
  migration left halfway counts as applied.

## What is proved

For any number of clients, processes, documents, triples, labels, calls and
failures, and any requests and instants:

| module | theorem | says | under |
|---|---|---|---|
| `StoreTxProofs` | `TxCorrect` | the type invariant and `TxInv` always hold | the constants' assumptions |
| | `FailureIsClean` | a failed call has left no row | any isolation |
| | `AddsAtomic` | a token is published only with its manifest | any isolation |
| | `SignedAreVerified` | signed documents in the store were verified | any isolation |
| | `OverwritesKeepAValue` | a manifest ID leaves the store by a delete only, never by an overwrite | any isolation, no `AddCoRIM` outside a transaction |
| | `StoreImplementsSpec` | every step is a step of `StoreSpec`, a whole add or half of a delete, or stutters | serializable, no `AddCoRIM` outside a transaction |
| | `ManifestsAreUnique` | one manifest per ID | the same |
| | `ManifestsHaveTokens` | what a manifest was decoded from is among the tokens | the same |
| | `TokensAreUnique` | one token per ID | serializable, no `VerifyAndAddBytes` |
| `LifecycleProofs` | `TypeCorrect` | the type invariant: no triple is active that is gone | the constants' assumptions |
| | `TargetsOnly` | a command changes only what it names | the same, on either schema |
| | `AsAsked` | a command never does the opposite | no command deactivates by module tag |
| | `WholeTags` | a step that sets the triples of a tag sets all of them | the same |
| `RowStoreProofs` | `TypeCorrect` | calls execute only statements of their kind, and only on rows of documents that were added | the constants' assumptions, any isolation |
| | `EnvironmentsAreUnique` | no environment is in its table twice | serializable |
| | `EnvironmentsStay` | no triple misses its environment | serializable; no deletes, or a single client |
| | `DeletesAreRetriable` | `Retriable`: a stopped delete can be repeated | serializable |
| | `NothingIsLeft` | `NothingLeft`: of a manifest whose row is gone no row stays but those of the tables `Forgotten` | serializable |
| | `EnvironmentsAreOwned` | `EnvsAreOwned`: no environment outlives the last row that refers to it | serializable |
| | `DocumentsAreWhole` | `FullyPopulated`: a manifest that is there is read back with every row that was added but those of the tables `NotLoaded` | serializable |
| `QueryProofs` | `QueriesTypeCorrect` | `TypeOK`: rows come without an error only, nothing stays saved in the object of the client | `QueryAssumption`, any queries |
| | `ErrorsAreReported` | `ErrorsSurface`: a failed statement, and nothing else, is a database error | the same |
| | `RunsAreRepeatable` | `Repeatable`: a run leaves the object as it found it | `QueryAssumption`, queries of `Asks` |
| | `RunsAreSound` | `Sound`: a run returns only what was asked for before or after the commit during it | the same |
| | `RunsAreComplete` | `Complete`: it returns all that was asked for before and after | the same |
| `MigratorProofs` | `LockExcludes` | one process at a time has the lock and migrates with it | the constants' assumptions |
| | `TypeCorrect` | the type invariant: the migrations table holds migrations | the same |
| | `MarksTellTheSchema` | `SchemaFollowsMarks` | the same |
| | `MigrationsAreAccepted` | no statement of an undisturbed migration is refused | the same |
| | `MigrationsEndCurrent` | one that reports success leaves the current schema | the same |
| | `DocumentsAreKept` | `DocumentsSurvive`: undisturbed migrations lose nothing that the schema they lead to can hold | the same, with `RowsAssumption` on the documents |
| `CoservProofs` | `TypeCorrect` | rows form trees, a result set names things once | the constants' assumptions |
| | `ExpiryIsCovered` | `ExpiryCovers`: an expiry outlasts neither `MaxExpiry`, nor a CoRIM its triples come from, nor the bytes of a manifest selected by ID that stayed | the documents of an ID are all added with their bytes, or all without |
| | `ErrorsSurface` | `FailureSurfaces`: there is a result set exactly if no statement returned an error but `ErrNoMatch` | the constants' assumptions |
| | `SteadyAreServed` | `Complete` | the same |
| | `SelectorsGetTheirRim` | `RimIsSelected` | the hypothesis of `ExpiryIsCovered` |

**StoreTx.** The inductive invariant is `TxInv`, a conjunction over clients of what a call in
progress may rely on, by statement: what its transaction has written so far is
exactly what the statements before have written (`LocalInv`), and keys are not
shared between calls (`KeysInv`), and what a delete has found
is a manifest it could find, partial if it is to be removed next, or gone (`HeldRows`). It is needed because none of the properties
mentions a transaction in progress, and each of them is decided at the commit.
`TypeStep` and `TxStep` have one case per action. For the refinement, at the
commit of a serializable transaction its snapshot is the committed state, so
that its writes are the effect of the call at that moment; every other step of
it changes neither table. The uniqueness theorems follow from `StoreSpec`, where
a step is a whole call; so does `ManifestsHaveTokens`, which needs uniqueness:
an add evicts the token of the manifest it evicts, and no other manifest had the
same. `OverwritesKeepAValue` needs no serializability, but to know what an add has
read: a call that adds evicts manifests of the ID it adds (`EvictsOwnID`), whatever
it sees of others. `store_serial` and `store_weak` check `TxInv` and the same
statements on small instances.

**Lifecycle.** `LifeInv` says of each client, by statement, what its command is
and what it has found: the IDs it holds at `SetTagKeys` are those of key triples
of the tag at the head of its list, among them all that are there. An add between
lookup and update cannot break that: the tag is known, so it was added already.
From it the three action properties follow by cases on the steps that write
(`Writes`); those under `NoTagDeactivation` need the further invariant that a
command with tags to do has the value TRUE.

**RowStore.** The programs a client executes are those of arbitrary documents, so the
proofs rest on what each operator of `ManifestRows` can produce, whatever rows are
there (`RowProofs`): the statements of a load and delete only delete, and those of an
add only insert. Flattening and reversing are defined in the community modules by
recursion; `SequenceFacts` proves what is needed of them from the natural numbers
being well-founded (`LeastNumber`, `AllNumbers`).

`TypeInv` says of each client that what is left of its program consists of such
statements and that its transaction has seen and written known rows only.
`UniqueInv` adds that no environment is there twice, neither among the committed
rows nor in what any transaction sees. An insertion in a transaction is of an
environment the transaction does not see; at its commit, on a serializable DBMS,
nobody else has changed what it read, so what it saw is what is then committed.
`ReferInv` says that every triple, committed or seen by a transaction, refers to an
environment that is there too; that an add is in one of two phases, removing an
older document or inserting, and the environment it has found or inserted for the
rows it is about to write is there (`Phases`: with an environment in hand it removes
nothing); and that a row which refers to the environment that `DeleteIfOrphaned` is
about to remove can only be in a table it has still to look at (`Checked`). It is
not preserved where an add overlaps a delete, which
runs outside a transaction: `rows_env_race` is the counterexample, and the reason
for the hypothesis of `EnvironmentsStay`.

`DeletesAreRetriable` asks what a whole program does, in its order. `RowProofs` answers
for documents of any shape: the rows of a document that a delete can find lie on lines
(`LinesOf`), each a row with the rows above it, and `Select` followed by `Delete` on any
set `K` of rows that are there removes exactly the rows of `K` all of whose upper rows are
in `K` (`Standing`), each before the rows above it, and looks at the owners of an
environment after each row that has one (`Sweeps`). One lemma per type (`ValueTripleUndone`, ...)
establishes this (`Undoes`, `Tidy`) from the same for what the type owns. It rests on the
keys of a document being distinct (`KeyAssumption`): else a load would find a row
through two parents.

The inductive invariant (`LinesInv`, `LinesHold`) says of the rows there that each has those
above it (`UpTo`), and of each call that what is left of its program keeps it so
(`Tidied`): of every line whose row is there, the row goes before the rows above. Two deletes
of the same document may overlap at any statement: each keeps the order, whatever the
other has already removed. An add also inserts, from the root to the leaves,
so that halfway its own document is not so ordered; `Adding` says what it sees of it, `Meets` that
nobody else touches it before the commit, and `Ordered` that it has deleted all it found
before it goes on. `Retriable` speaks of the rows a delete removes when it starts from the
whole document, `Removable`. For `NothingIsLeft`, `ManifestReached` (`RowProofs`) shows of a manifest of any
shape that these are all its rows but those of the tables `Forgotten`.

`FullyPopulated` needs the converse, that nothing is missing. `WholeInv` adds that a call
deletes only of the manifest ID it was called with and the root row last (`Aims`), that a manifest
which is there is whole unless a delete of its ID is in progress or has stopped (`Accounted`),
and that an add that replaces a manifest has removed none of its rows, or still has
to remove its root (`Kept`). The lemmas `ValueTripleWhole`, ... of `RowProofs` show that loading depends
on nothing but the rows of the document once these are all there.

`EnvsAreOwned` speaks of quiet moments only; `OwnInv` says who is responsible at the others.
An environment nobody refers to (`Unowned`) in what a transaction sees was so when it began, or
one of the statements left is going to look at its owners (`Sees`), or the next
one refers to it (`Binds`); among the committed ones a delete in progress is going to look
at it, unless one has stopped halfway (`OwnsDb`). Programs keep that up: each look-up of an environment is
followed at once by the insertion that needs it, and each deletion of a row with an
environment by a look at the owners (`Minded`, which `RowProofs` establishes for documents of any
shape); and what is to be looked at is known, since the environment of every row still
to be deleted is in memory (`Holds`). A commit brings in nothing that a delete overlapping it is about to
remove: an add sees rows of its own document and those it began with only (`News`, `LinesInv`), and on
a serializable DBMS these are the committed ones.

**Migrator.** `LockInv` is `MigratesAlone` for every place between `Lock` and
`Unlock`, that of `UnlockEarly` included: the command that gives the lock up there
is the one that has it.

`SchemaFollowsMarks` and `NeverRefused` are far from inductive: they do not say what
is left of a migration in progress. `Undisturbed` does. It holds while `broken` is
FALSE, and says that one process at most is migrating, and that what it has left
`Leads`, statement by statement, each accepted, from the present marks and schema to
those of some number of migrations, and passes through the schema of the marks
wherever a mark is set or removed (`Pending`). When a process plans, its program is made of
whole migrations, in the order of the marks there are (`Grouped` keeps
the groups of the marks in ascending order, so that the last group is their end).
That each of the eight programs leads where it should is the content of the first part
of `MigratorProofs`: a lemma for each kind of statement on an arbitrary schema
(`CreateGoes`, `RenameGoes`, ...), sequences of statements of a kind (`CreatesGo`, ...),
and the programs of the four migrations composed of them.

`DocumentsSurvive` speaks of the moments between two migrations; what the rows are
like in the middle of one is a stage (`Stage`): whether hrefs are in a column, a table
or both, whether value triples name the type of their owner, and what the keys of
authorities are called. `Kept(x, s, R)` says that the rows `R` hold the documents `s`
in the way of stage `x`, and `Moves` that a statement takes any rows so kept to rows
kept at the next stage, whichever of several rows an update meets. A lemma for each data
statement and each column dropped shows that it `Moves`; every other statement moves
any stage to itself; so programs lead from stage to stage (`RowsOfMigrations`) in
the sense in which they lead from schema to schema, and by the same lemmas.
`Carrying` is then the counterpart of `Undisturbed` (`Carried` of `Pending`), and
`Clears` says that whatever the truncations of `clear` find, nobody has documents
stored any more. A step that is none of a migration is `Aside` (`StepKinds`) and keeps
both.

**Coserv.** `IInv` says what the service keeps at each statement: a steady triple that
was asked for is still to be loaded, being loaded, or served whole (`CompleteInv`),
which needs that steady triples have all their rows (`StoreInv`) and that nothing is
served twice (`ServedInv`); and while a query goes on, its statements have returned no error but
`ErrNoMatch` (`FailInv`). `FailStep` has one case per statement, since each tests its
error in its own way: what it passes over must be `ErrNoMatch`, and what it
returns is what `RunQuery` then answers (`ErrorSurfaces`). For RIM selectors, a
manifest that is there throughout and is the newest of its tag is what the look-up
returns whenever it happens, since time only advances and cannot make another one
valid that was there before (`SelectInv`); and its bytes are still there, so that if
one token is found it is its own (`TokensInv`, `TokenIsItsOwn`). That needs `OneWay`: if
of two documents of an ID one was added with its bytes and one without, the
bytes found by that ID may be the other's. `ExpiryInv` adds that the expiry noted so
far covers the documents that have been collected, the triple being loaded
and the manifest just selected; it needs `TokensInv`, too, since what is collected for
a selector is what the token has.

**Query.** A run is one step, so the invariant (`QueryInv`) says little; the work is in
what one `Run` does. `Reports` relates the moments and the error of a part of a run: the
error is that of the database if, and only if, the statement that fails is one of
those executed in between. It composes (`ReportsMore`), through a group by induction on its members
(`FoldGathers`, `GroupEnds`). `Held` says what shape a query object has in the middle of a run and
which of its two lists are saved, `Mid` and `Over` are both for a run in progress and one that
has ended. One lemma for each kind of stage (`OwnerNarrows`, `EnvironmentNarrows`, `GroupNarrows`, ...) and one for
each type of query, from the leaves upwards, compose these; saving, restoring and the order of
the restorations on each error path decide whether they do.

What a run returns is bounded from both sides (`Answered`): it admits only rows of a set *G*
and, unless it fails, all rows of a set *H*. While the commit during the run is an add or
a removal and never both, the union and the intersection of the database before and after
are each one of the two, so that *G* and *H* for the whole run are what `QuerySpec` asks of
that union and that intersection. Each stage keeps the bounds: it narrows the lists of the object to
owners or environments of rows that are themselves bounded so, by the lemma for the query
of that stage; a conjunction over owners keeps those that every member of the
group admits, by induction over the members. The same lemmas say what `restoreIDs` and `restoreEnvIDs` find to
put back: the object of the caller, for a subquery and for each member of a group, on
every path. The hypothesis is `Asks(kind, query)` for each query of the client, which says
which queries are answered. It leaves out those that are not, or not so, by the code: `AuthorizedBy` of a
measurement, IDs together with roles or entries, an environment by its ID and by a subquery
with IDs, exact queries by class ID, endorsements with both an environment and measurements (all of
which are among the hazards, and properties that do not hold); a subquery with owner types of its
own, which `Run` overwrites; and a class or an instance given in both forms, bytes and
composite ID, where the code asks for both and `QuerySpec` for either. TLC checks that all queries of
`MCQuery` satisfy it (`MCAsks`).

The constants are constrained only by `SchemaAssumption`, `TxAssumption`,
`LifecycleAssumption`, `RowAssumption`, `RowStoreAssumption`, `MigratorAssumption`,
`RowsAssumption`, `KeyAssumption`, `QueryAssumption` and `CoservAssumption`. `KeyAssumption` says that a key names
one row: the database gives each row it inserts a number of its own (autoincrement), and a
key of the model stands for such a number in its table. `RowsAssumption` says which documents a database
of either schema can hold: in the older none has a row of a table, or an owner type,
that came later; IDs of locators are primary keys; and a locator of the newer one has an
href, which the validation of a CoRIM before it is added sees to (store.go:210, 228). A
locator without one would come back from a rollback with nothing to have kept.
`QueryAssumption` says that the objects the client builds are what the builder methods make:
lists, subqueries, groups that are sequences of such objects, and nothing saved. It also
says that the rows of stateful environments and of series records have the one type
of owner their `OwnerName` gives them (`Typed`).

## What is only model-checked, and what is left out

Each property of the passing runs except `LockIsReleased` is also a theorem, for any
values of the constants and under the hypotheses of the table above.

- Of the queries that `Asks` leaves out `Sound`, `Complete` and `Repeatable` are neither
  proved nor, since `MCQuery` has none, checked; the hazards say what becomes of them.
- `LockIsReleased` is liveness, which the prover does not do. It is checked for two
  processes.
- The outcome of a `COMMIT` during which the connection breaks is unknown to the
  caller in reality; here a failed call has not committed.
- A store obtained from `Store.BeginTx` by the caller, who then makes several
  calls on it, is not modelled. The loop of `add` over several files is not
  either: each file is a call of its own.
- Columns that decide nothing (times, versions, names, values of measurements)
  are left out; digests and bytes are identified with the document.
- `clear` runs without the lock; its truncations are in `Migrator`, but what a
  failure between two of them leaves of a document is not a question any run asks.
- In `Query`, time windows and tuples of columns (`Digest(alg, value)`) are
  left out; loading what a query has found is in `Coserv` only, windows of
  validity too. A run of `Query` meets one commit or one failure, not both.

## Plan

1. `StoreSchema`, `StoreSpec`, `StoreTx`, `StoreTxProofs`: done.
2. `Lifecycle`, `LifecycleProofs`: done.
3. `ManifestRows`, `RowStore`, `RowProofs`, `RowStoreProofs`: done.
4. `QuerySpec`, `Query`, `QueryProofs`: done. To extend: time windows, loading after a query,
   several commits per run.
5. `MigrationSteps`, `Migrator`, `MigratorProofs`: done.
6. `Coserv`, `CoservProofs`: done.
7. `KeyStores`: trust anchors, chains and the choice among stores; the loop of
   `add`.

## Not modelled

- Key stores (`pkg/util/signing.go`): whether a signature verifies is an input of
  `StoreTx`, decided by libraries for COSE and X.509.
- `get`, `list`, `dump` and the configuration of the command line print and read;
  the entry views join a row with its ancestors and are read-only.
- `FromCoRIM` and `ToCoRIM` convert field by field, without state.
- `pkg/db` opens a driver, of which the isolation is a constant here;
  `pkg/build` holds constants.
