----------------------------- MODULE Migrator -----------------------------
(***************************************************************************)
(* Processes that initialise, migrate, roll back and clear one database:   *)
(* the commands of cmd/corim-store/cmd/db.go and the methods Init, Migrate *)
(* and Clear of the store.  Each of them executes its statements one by    *)
(* one, none in a transaction; they exclude each other by a row in a lock  *)
(* table.  A migration is marked as applied before its first statement and *)
(* as unapplied before the first of its way back (the migrator of bun).    *)
(***************************************************************************)
EXTENDS MigrationSteps, FiniteSets

CONSTANTS
  Procs,
  CommandsOf,    \* the commands each process is given, of All
  OldRows,       \* the rows of a document from before 0003_rev10
  NewRows,       \* those of one added after it
  MaxCommands, MaxFailures  \* bounds

StoreCalls == {"Store.Init", "Store.Migrate"}
Migrating == StoreCalls \cup {"init", "migrate"}
Locking == Migrating \cup {"rollback"}
All == Locking \cup {"clear"}

ASSUME MigratorAssumption ==
  /\ CommandsOf \in [Procs -> SUBSET All]
  /\ MaxCommands \in Nat /\ MaxFailures \in Nat

\* What a database of either schema can hold: the older has no table or type that came
\* later, IDs are primary keys, and a locator of the newer one has an href, as the
\* CoRIM is validated before it is added (store.go:210, 228).
ASSUME RowsAssumption ==
  LET Both == OldRows \cup NewRows
      Locators(rs) == RowsOf(rs, "locators")
  IN /\ \A r \in Both : r = Row(r.tbl, r.id, r.own, r.typ, r.val) /\ r.id \in Nat
     /\ \A r \in OldRows :
          /\ r.tbl \notin ToSet(NewTables) \cup {"tokens"}
          /\ r.tbl = "value_triples" => r.typ = None
          /\ r.tbl = "cryptokeys" => r.typ # "measurement_auth"
     /\ \A k, l \in Locators(OldRows) : k.id = l.id => k = l
     /\ \A k, l \in Locators(NewRows) : k.id = l.id => k = l
     /\ \A k \in Locators(OldRows) : \A l \in Locators(NewRows) : k.id # l.id
     /\ \A h \in RowsOf(NewRows, "hrefs") : \E l \in Locators(NewRows) : l.id = h.own
     /\ \A l \in Locators(NewRows) : \E h \in RowsOf(NewRows, "hrefs") : h.own = l.id

VARIABLES
  meta,      \* whether the tables of the migrator exist
  locked,    \* the row of its lock table
  marks,     \* the rows of its migrations table, oldest first
  schema, rows,
  pc, cmd,   \* the command each process executes, and where
  todo,      \* the statements it has left
  stored,    \* the documents nobody has removed: "old", "new"
  broken,    \* a migration has been left halfway, or two have overlapped
  lost,      \* a process has died with the lock, or could not release it
  given, failures

vars == <<meta, locked, marks, schema, rows, pc, cmd, todo, stored, broken, lost, given, failures>>

MarkRow(m, g) == [migration |-> m, group |-> g]
Marked == {marks[i].migration : i \in DOMAIN marks}

\* The group of a migration: of the oldest row, when there are several.
FirstMark(m) == CHOOSE i \in DOMAIN marks :
  /\ marks[i].migration = m
  /\ \A j \in 1..(i - 1) : marks[j].migration # m
GroupOf(m) == marks[FirstMark(m)].group
Groups == {GroupOf(m) : m \in Marked}
LastGroup == IF Groups = {} THEN 0 ELSE CHOOSE g \in Groups : \A h \in Groups : h <= g
-----------------------------------------------------------------------------
(* Schemas as a reader of the models and the views expects them.           *)

HasColumns(tables, columns) == Ids(tables) \cup columns

FirstTables == {InitialTables[i][1] : i \in DOMAIN InitialTables}

SchemaBefore0003 ==
  [columns |-> HasColumns(FirstTables \cup {"tokens"},
     {<<"locators", "href">>, <<"digests", "alg_id">>, <<"value_triples", "module_id">>}),
   views |-> FirstViews]

CurrentSchema ==
  [columns |-> HasColumns(FirstTables \cup {"tokens"} \cup {NewTables[i] : i \in DOMAIN NewTables},
     {<<"digests", "alg_id_int">>, <<"digests", "alg_id_text">>,
      <<"key_triples", "cond_key_type">>, <<"key_triples", "cond_key_bytes">>,
      <<"value_triples", "owner_type">>, <<"value_triples", "owner_id">>}),
   views |-> {ManifestView, ModuleTagView, KeyViewRev10, ValueViewRev10}
               \cup {NewViews[i] : i \in DOMAIN NewViews}]

\* The schema after the first n migrations.
SchemaOf(n) ==
  CASE n = 0 -> EmptySchema
    [] n = 1 -> [SchemaBefore0003 EXCEPT !.columns = @ \ Ids({"tokens"}), !.views = {}]
    [] n = 2 -> [SchemaBefore0003 EXCEPT !.columns = @ \ Ids({"tokens"})]
    [] n = 3 -> SchemaBefore0003
    [] n = 4 -> CurrentSchema
-----------------------------------------------------------------------------
\* The rows of the old document in the current schema.
OldRowsNow ==
  {CASE r.tbl = "locators" -> [r EXCEPT !.val = None]
     [] r.tbl = "value_triples" -> [r EXCEPT !.typ = "module_tag"]
     [] r.tbl = "cryptokeys" /\ r.typ = "measurement" -> [r EXCEPT !.typ = "measurement_auth"]
     [] OTHER -> r : r \in OldRows}
  \cup {Row("hrefs", l.id, l.id, None, l.val) : l \in RowsOf(OldRows, "locators")}

\* A new database; one that was last migrated by a version of the program
\* without 0003_rev10; or one that is up to date, with documents of either age.
Init ==
  /\ \/ /\ meta = FALSE /\ marks = <<>> /\ schema = EmptySchema
        /\ rows = {} /\ stored = {}
     \/ /\ meta = TRUE /\ marks = [m \in 1..3 |-> MarkRow(m, 1)]
        /\ schema = SchemaBefore0003 /\ rows = OldRows /\ stored = {"old"}
     \/ /\ meta = TRUE /\ marks = [m \in 1..4 |-> MarkRow(m, IF m < 4 THEN 1 ELSE 2)]
        /\ schema = CurrentSchema /\ rows = OldRowsNow \cup NewRows /\ stored = {"old", "new"}
  /\ locked = FALSE
  /\ pc = [p \in Procs |-> "idle"]
  /\ cmd = [p \in Procs |-> None]
  /\ todo = [p \in Procs |-> <<>>]
  /\ broken = FALSE /\ lost = FALSE /\ given = 0 /\ failures = 0

Goto(p, l) == pc' = [pc EXCEPT ![p] = l]

\* The command is over.
Return(p) ==
  /\ Goto(p, "idle")
  /\ cmd' = [cmd EXCEPT ![p] = None]
  /\ todo' = [todo EXCEPT ![p] = <<>>]

Give(p) ==
  /\ pc[p] = "idle" /\ given < MaxCommands
  /\ \E c \in CommandsOf[p] :
       /\ cmd' = [cmd EXCEPT ![p] = c]
       /\ Goto(p, CASE c \in {"init", "Store.Init"} -> "meta"
                    [] c \in Locking \ {"init", "Store.Init"} -> "lock"
                    [] c = "clear" -> "run")
       /\ todo' = [todo EXCEPT ![p] = IF c = "clear" THEN ResetModels ELSE <<>>]
       /\ stored' = IF c = "clear" THEN {} ELSE stored
  /\ given' = given + 1
  /\ UNCHANGED <<meta, locked, marks, schema, rows, broken, lost, failures>>

\* Migrator.Init: CREATE TABLE IF NOT EXISTS for its two tables.
CreateMeta(p) ==
  /\ pc[p] = "meta"
  /\ meta' = TRUE /\ Goto(p, "lock")
  /\ UNCHANGED <<locked, marks, schema, rows, cmd, todo, stored, broken, lost, given,
                 failures>>

\* Fault: the lock is taken whoever has it.
CanLockAnyhow == meta
\* Migrator.Lock inserts a row, which fails when there is one.
CanLock == meta /\ ~locked

\* Where a command goes with the lock: "db migrate" defers the error check of an
\* Unlock that it makes at once.
AfterLock(c) == IF c = "migrate" THEN "unlock early" ELSE "plan"

Lock(p) ==
  /\ pc[p] = "lock"
  /\ \/ CanLock /\ locked' = TRUE /\ Goto(p, AfterLock(cmd[p])) /\ UNCHANGED <<todo, cmd>>
     \/ ~CanLock /\ Return(p) /\ UNCHANGED locked
  /\ UNCHANGED <<meta, marks, schema, rows, stored, broken, lost, given, failures>>

UnlockEarly(p) ==
  /\ pc[p] = "unlock early"
  /\ locked' = FALSE /\ Goto(p, "plan")
  /\ UNCHANGED <<meta, marks, schema, rows, cmd, todo, stored, broken, lost, given,
                 failures>>
-----------------------------------------------------------------------------
Mark(m, g) == [do |-> "mark", m |-> m, group |-> g]
Unmark(m) == [do |-> "unmark", m |-> m]

\* Fault: the new group is counted down from the last.
UpStepsOfEarlierGroup(m) ==
  IF m \in Marked THEN <<>> ELSE <<Mark(m, LastGroup - 1)>> \o Up[m]
\* Migrator.Migrate: what is not marked, in order, as one more group.
UpSteps(m) == IF m \in Marked THEN <<>> ELSE <<Mark(m, LastGroup + 1)>> \o Up[m]

\* Fault: the newest migration is not registered.
MigrateStepsButLast == UpSteps(1) \o UpSteps(2) \o UpSteps(3)
MigrateSteps == UpSteps(1) \o UpSteps(2) \o UpSteps(3) \o UpSteps(4)

\* Migrator.Rollback: the last group, backwards.
DownSteps(m) ==
  IF m \in Marked /\ GroupOf(m) = LastGroup THEN <<Unmark(m)>> \o Down[m] ELSE <<>>
RollbackSteps == DownSteps(4) \o DownSteps(3) \o DownSteps(2) \o DownSteps(1)

\* The rows of the migrations table are read in one SELECT.
Plan(p) ==
  /\ pc[p] = "plan" /\ meta
  /\ todo' = [todo EXCEPT ![p] = IF cmd[p] = "rollback" THEN RollbackSteps ELSE MigrateSteps]
  /\ Goto(p, "run")
  /\ broken' = (broken \/ \E q \in Procs \ {p} : pc[q] = "run" /\ cmd[q] \in Locking)
  /\ UNCHANGED <<meta, locked, marks, schema, rows, cmd, stored, lost, given, failures>>

Next1(p) == Head(todo[p])
Advance(p) == todo' = [todo EXCEPT ![p] = Tail(@)]

MarkApplied(p) ==
  /\ pc[p] = "run" /\ todo[p] # <<>> /\ Next1(p).do = "mark"
  /\ marks' = Append(marks, MarkRow(Next1(p).m, Next1(p).group))
  /\ Advance(p)
  /\ UNCHANGED <<meta, locked, schema, rows, pc, cmd, stored, broken, lost, given,
                 failures>>

\* The rows that go with the tables of 0000_initial are gone for good.
MarkUnapplied(p) ==
  /\ pc[p] = "run" /\ todo[p] # <<>> /\ Next1(p).do = "unmark"
  /\ marks' = IF Next1(p).m \in Marked THEN RemoveAt(marks, FirstMark(Next1(p).m)) ELSE marks
  /\ stored' = IF Next1(p).m = 1 THEN {} ELSE stored
  /\ Advance(p)
  /\ UNCHANGED <<meta, locked, schema, rows, pc, cmd, broken, lost, given, failures>>

Execute(p) ==
  /\ pc[p] = "run" /\ todo[p] # <<>> /\ Next1(p).do \notin {"mark", "unmark"}
  /\ Accepts(Next1(p), schema)
  /\ schema' = SchemaAfter(Next1(p), schema)
  /\ rows' \in RowsAfter(Next1(p), rows)
  /\ Advance(p)
  /\ UNCHANGED <<meta, locked, marks, pc, cmd, stored, broken, lost, given, failures>>
-----------------------------------------------------------------------------
Holding(p) == pc[p] \in {"plan", "run", "unlock"} /\ cmd[p] \in Locking \ {"migrate"}

\* Fault: Store.Migrate releases the lock only after a success.
UnlocksNothing == {}
\* The calls whose deferred Unlock runs after an error.  CheckErr exits.
UnlockAfterError == StoreCalls

\* A command ends with an error; its last statement has had no effect.
Abort(p) ==
  IF Holding(p) /\ cmd[p] \in UnlockAfterError
  THEN Goto(p, "unlock") /\ todo' = [todo EXCEPT ![p] = <<>>] /\ UNCHANGED cmd
  ELSE Return(p)

\* In the middle of a migration, after its mark and before its end.
Midway(p) == pc[p] = "run" /\ cmd[p] \in Locking /\ todo[p] # <<>>
             /\ Next1(p).do \notin {"mark", "unmark"}

\* The DBMS refuses the statement.
Refused(p) ==
  /\ pc[p] = "run" /\ todo[p] # <<>> /\ Next1(p).do \notin {"mark", "unmark"}
  /\ ~Accepts(Next1(p), schema)
  /\ Abort(p)
  /\ broken' = (broken \/ Midway(p))
  /\ UNCHANGED <<meta, locked, marks, schema, rows, stored, lost, given, failures>>

\* The command succeeds.
Finish(p) ==
  /\ pc[p] = "run" /\ todo[p] = <<>>
  /\ IF Holding(p) THEN Goto(p, "unlock") /\ UNCHANGED <<todo, cmd>> ELSE Return(p)
  /\ UNCHANGED <<meta, locked, marks, schema, rows, stored, broken, lost, given, failures>>

Unlock(p) ==
  /\ pc[p] = "unlock"
  /\ locked' = FALSE /\ Return(p)
  /\ UNCHANGED <<meta, marks, schema, rows, stored, broken, lost, given, failures>>

\* A statement fails: the connection, a timeout, a cancelled context.
Fail(p) ==
  /\ pc[p] \notin {"idle", "unlock"} /\ failures < MaxFailures
  /\ pc[p] = "run" => todo[p] # <<>>
  /\ Abort(p)
  /\ broken' = (broken \/ Midway(p))
  /\ lost' = (lost \/ pc[p] = "unlock early")
  /\ failures' = failures + 1
  /\ UNCHANGED <<meta, locked, marks, schema, rows, stored, given>>

\* The process dies, or the statement that fails is that of Unlock.
Die(p) ==
  /\ pc[p] # "idle" /\ failures < MaxFailures
  /\ Return(p)
  /\ broken' = (broken \/ Midway(p))
  /\ lost' = (lost \/ Holding(p) \/ pc[p] = "unlock early")
  /\ failures' = failures + 1
  /\ UNCHANGED <<meta, locked, marks, schema, rows, stored, given>>

Works(p) ==
  \/ CreateMeta(p) \/ Lock(p) \/ UnlockEarly(p) \/ Plan(p) \/ MarkApplied(p)
  \/ MarkUnapplied(p) \/ Execute(p) \/ Refused(p) \/ Finish(p) \/ Unlock(p)

Next == \E p \in Procs : Give(p) \/ Works(p) \/ Fail(p) \/ Die(p)

Spec == Init /\ [][Next]_vars

\* A command that has been given is carried on with, whether or not another
\* fails: a process waits for nothing but its own statements.
FairSpec == Spec /\ \A p \in Procs : WF_vars(Works(p))
-----------------------------------------------------------------------------
(* Properties.                                                             *)

Quiet == \A p \in Procs : ~Midway(p)

TypeOK ==
  /\ meta \in BOOLEAN /\ locked \in BOOLEAN /\ broken \in BOOLEAN /\ lost \in BOOLEAN
  /\ \A i \in DOMAIN marks : marks[i] \in [migration : Migrations, group : Nat]
  /\ pc \in [Procs -> {"idle", "meta", "lock", "unlock early", "plan", "run", "unlock"}]
  /\ cmd \in [Procs -> All \cup {None}]
  /\ stored \subseteq {"old", "new"}
  /\ given \in 0..MaxCommands /\ failures \in 0..MaxFailures

\* Of the commands that keep the lock while they migrate, one at a time does,
\* and the row of the lock table is there until it is done: the calls of Lock in
\* store.go:121 and db.go:41, 87 (db.go:61 gives it up at once).
MigratesAlone ==
  /\ \A p, q \in Procs : Holding(p) /\ Holding(q) => p = q
  /\ \A p \in Procs : Holding(p) => locked

\* As long as no migration has been left halfway or overlapped by another, the
\* marks say which schema the database has, also when a command has failed
\* between two migrations of a group or has been rolled back: what each way down
\* removes is what the way up has made.
SchemaFollowsMarks ==
  ~broken /\ Quiet => \E n \in 0..4 : Marked = 1..n /\ schema = SchemaOf(n)

\* Under the same condition no statement of a migration is refused by the DBMS:
\* nothing is made twice, dropped before what depends on it, or renamed away.
NeverRefused ==
  ~broken => \A p \in Procs : Midway(p) => Accepts(Next1(p), schema)

HrefsOf(l) == {h.val : h \in {x \in RowsOf(rows, "hrefs") : x.own = l.id}}

\* A locator of the older schema has one of the hrefs it had in the newer.
KeepsAnHref(had) ==
  \A l \in RowsOf(had, "locators") :
    \E k \in RowsOf(rows, "locators") :
      k.id = l.id /\ k.val \in {h.val : h \in {x \in RowsOf(had, "hrefs") : x.own = l.id}}

\* What nobody has removed is there after any sequence of migrations and
\* rollbacks of 0003_rev10, none of which was left halfway: locators with their
\* hrefs, value triples with their module tags, keys with the same owners; and
\* after a rollback what the older schema can hold of newer documents.
DocumentsSurvive ==
  ~broken /\ Quiet =>
    /\ "old" \in stored /\ schema = SchemaBefore0003 => OldRows \subseteq rows
    /\ "old" \in stored /\ schema = CurrentSchema =>
         /\ OldRowsNow \subseteq rows
         /\ \A l \in RowsOf(OldRows, "locators") : HrefsOf(l) = {l.val}
    /\ "new" \in stored /\ schema = SchemaBefore0003 =>
         /\ KeepsAnHref(NewRows)
         /\ \A r \in NewRows :
              /\ r.tbl = "value_triples" /\ r.typ = "module_tag" =>
                   [r EXCEPT !.typ = None] \in rows
              /\ r.tbl = "cryptokeys" /\ r.typ = "measurement_auth" =>
                   [r EXCEPT !.typ = "measurement"] \in rows

\* "Migrate upates the tables in the associated database to be compatible with
\* this store" (store.go:111): a command that migrates and reports success leaves
\* the current schema.
MigrateIsCompatible ==
  [][\A p \in Procs : Finish(p) /\ cmd[p] \in Migrating => schema = CurrentSchema]_vars

\* The same where no migration was left halfway or overlapped.
UndisturbedIsCompatible ==
  [][\A p \in Procs : Finish(p) /\ cmd[p] \in Migrating /\ ~broken
                        => schema = CurrentSchema]_vars

\* Whether Store.Migrate succeeds or fails, somebody can take the lock again
\* (store.go:124), unless a process has died with it.
LockIsReleased ==
  \A p \in Procs : (Holding(p) /\ cmd[p] \in StoreCalls) ~> (~locked \/ lost)
=============================================================================
