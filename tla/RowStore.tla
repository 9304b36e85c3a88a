----------------------------- MODULE RowStore -----------------------------
(***************************************************************************)
(* Documents as trees of rows that share environments.  AddBytes with the  *)
(* configuration Force, and DeleteManifest, run the programs of            *)
(* ManifestRows statement by statement: the first in one transaction, the  *)
(* second without one, so that a failure leaves what was done so far.      *)
(* Environments are shared by all triples that refer to the same one:      *)
(* Environment.Insert reuses the row it finds, and DeleteIfOrphaned removes*)
(* the row nobody refers to any longer.                                    *)
(*                                                                         *)
(* Loading a document (the queries of Select) is one step here.            *)
(***************************************************************************)
EXTENDS ManifestRows, Naturals, FiniteSets

CONSTANTS
  Clients,
  Docs, IdOf,            \* the documents, and the manifest ID of each
  ManifestOf, TokenOf,   \* the nodes of each document
  Ops,                   \* the calls made: "add", "delete"
  Isolation,
  MaxCalls               \* bound on the number of calls

ASSUME RowStoreAssumption ==
  /\ DOMAIN IdOf = Docs /\ ManifestOf \in [Docs -> Manifests] /\ TokenOf \in [Docs -> Tokens]
  /\ Ops \subseteq {"add", "delete"}
  /\ Isolation \in {"serializable", "read_committed"}
  /\ MaxCalls \in Nat

Ids == {IdOf[d] : d \in Docs}

VARIABLES
  db,       \* the committed rows, and the committed environments
  call,     \* the call each client is in
  prog,     \* the statements it has left to execute
  bound,    \* the ID Environment.Insert has given to the environment
  held,     \* the environment each loaded triple has in memory
  tx,       \* each client's transaction
  nextEnv,  \* the autoincrement counter of "environments"
  added,    \* the documents added so far: each at most once, a bound
  calls,    \* number of calls made
  crashed   \* TRUE once a delete has stopped halfway

vars == <<db, call, prog, bound, held, tx, nextEnv, added, calls, crashed>>

Empty == [rows |-> {}, envs |-> {}]
Plus(a, b) == [t \in {"rows", "envs"} |-> a[t] \cup b[t]]
Minus(a, b) == [t \in {"rows", "envs"} |-> a[t] \ b[t]]

NoTx == [snap |-> Empty, ins |-> Empty, del |-> Empty]
Idle == [op |-> "none"]

Init ==
  /\ db = Empty
  /\ call = [c \in Clients |-> Idle]
  /\ prog = [c \in Clients |-> <<>>]
  /\ bound = [c \in Clients |-> 0]
  /\ held = [c \in Clients |-> {}]
  /\ tx = [c \in Clients |-> NoTx]
  /\ nextEnv = 1 /\ added = {} /\ calls = 0 /\ crashed = FALSE
-----------------------------------------------------------------------------
InTx(c) == call[c].op = "add"

\* What a statement of c's reads, and what it writes.
View(c) ==
  IF InTx(c)
  THEN Plus(Minus(IF Isolation = "serializable" THEN tx[c].snap ELSE db, tx[c].del), tx[c].ins)
  ELSE db

Write(c, ins, del) ==
  IF InTx(c)
  THEN /\ tx' = [tx EXCEPT ![c].ins = Plus(Minus(@, del), ins), ![c].del = Plus(@, del)]
       /\ UNCHANGED db
  ELSE db' = Plus(Minus(db, del), ins) /\ UNCHANGED tx

VisibleKeys(c) == {r.key : r \in View(c).rows}

\* The next statement of c's program, and the step to the one after it.
AtStmt(c, what) == prog[c] # <<>> /\ Head(prog[c]).do = what
Stmt(c) == Head(prog[c])
Then(c, stmts) == prog' = [prog EXCEPT ![c] = stmts \o Tail(@)]

\* Fault: the rollback is forgotten.
ReturnNoRollback(c) ==
  /\ call' = [call EXCEPT ![c] = Idle]
  /\ prog' = [prog EXCEPT ![c] = <<>>]
  /\ bound' = [bound EXCEPT ![c] = 0]
  /\ held' = [held EXCEPT ![c] = {}]
  /\ UNCHANGED tx

Return(c) ==
  /\ call' = [call EXCEPT ![c] = Idle]
  /\ prog' = [prog EXCEPT ![c] = <<>>]
  /\ bound' = [bound EXCEPT ![c] = 0]
  /\ held' = [held EXCEPT ![c] = {}]
  /\ tx' = [tx EXCEPT ![c] = NoTx]
-----------------------------------------------------------------------------
AddBytes(d) ==
  <<[do |-> "loadToken", id |-> IdOf[d]]>> \o InsertToken(TokenOf[d])
  \o <<[do |-> "loadManifest", id |-> IdOf[d]]>> \o InsertManifest(ManifestOf[d])
  \o <<[do |-> "commit"]>>

\* A key names one row of one table: the database gives each row it inserts an ID of
\* its own (autoincrement).
ASSUME KeyAssumption ==
  /\ \A d \in Docs : InsertsOnce(AddBytes(d))
  /\ \A d, e \in Docs : d # e => Inserted(AddBytes(d)) \cap Inserted(AddBytes(e)) = {}

BeginCall(c, op, id, program) ==
  /\ call[c] = Idle /\ calls < MaxCalls /\ op \in Ops
  /\ calls' = calls + 1
  /\ call' = [call EXCEPT ![c] = [op |-> op, id |-> id]]
  /\ prog' = [prog EXCEPT ![c] = program]
  /\ UNCHANGED <<db, bound, held, nextEnv, crashed>>

BeginAdd(c) ==
  \E d \in Docs \ added :
    /\ BeginCall(c, "add", IdOf[d], AddBytes(d))
    /\ added' = added \cup {d}
    /\ tx' = [tx EXCEPT ![c].snap = IF Isolation = "serializable" THEN db ELSE Empty]

BeginDelete(c) ==
  \E id \in Ids :
    /\ BeginCall(c, "delete", id, <<[do |-> "loadManifest", id |-> id]>>)
    /\ UNCHANGED <<added, tx>>

\* A statement fails or the process dies: a transaction is rolled back.
Fail(c) ==
  /\ call[c] # Idle
  /\ Return(c)
  /\ crashed' = (crashed \/ (call[c].op = "delete" /\ ~AtStmt(c, "loadManifest")))
  /\ UNCHANGED <<db, nextEnv, added, calls>>

\* A program without statements left: DeleteManifest returns.
Finish(c) ==
  /\ call[c] # Idle /\ prog[c] = <<>>
  /\ Return(c)
  /\ UNCHANGED <<db, nextEnv, added, calls, crashed>>

\* Fault: a commit that ignores what others have committed meanwhile.
CommitAnyway(c) ==
  /\ AtStmt(c, "commit")
  /\ db' = Plus(Minus(db, tx[c].del), tx[c].ins)
  /\ Return(c)
  /\ UNCHANGED <<nextEnv, added, calls, crashed>>

Commit(c) ==
  /\ AtStmt(c, "commit")
  /\ Isolation = "serializable" => tx[c].snap = db
  /\ db' = Plus(Minus(db, tx[c].del), tx[c].ins)
  /\ Return(c)
  /\ UNCHANGED <<nextEnv, added, calls, crashed>>
-----------------------------------------------------------------------------
\* The documents of an ID whose row is there: the lookup takes any of them.
Existing(c, NodeOf) == {d \in Docs : IdOf[d] = Stmt(c).id /\ NodeOf[d].key \in VisibleKeys(c)}

\* AddToken with Force: the older token goes first.
LoadToken(c) ==
  /\ AtStmt(c, "loadToken")
  /\ \/ Existing(c, TokenOf) = {} /\ Then(c, <<>>)
     \/ \E d \in Existing(c, TokenOf) : Then(c, DeleteToken(SelectToken(TokenOf[d])))
  /\ UNCHANGED <<db, call, bound, held, tx, nextEnv, added, calls, crashed>>

\* A belongs-to relation is a LEFT JOIN: a triple whose environment is gone is
\* loaded without one.
HeldEnvs(c) ==
  {[key |-> r.key, id |-> r.env] : r \in {x \in View(c).rows : \E e \in View(c).envs : e.id = x.env}}

\* GetManifest, and AddManifest with Force.  GetManifest fails without a row (Fail).
LoadManifest(c) ==
  /\ AtStmt(c, "loadManifest")
  /\ \/ /\ Existing(c, ManifestOf) = {} /\ InTx(c)
        /\ Then(c, <<>>)
        /\ UNCHANGED held
     \/ \E d \in Existing(c, ManifestOf) :
          /\ Then(c, DeleteManifest(SelectManifest(ManifestOf[d], VisibleKeys(c))))
          /\ held' = [held EXCEPT ![c] = HeldEnvs(c)]
  /\ UNCHANGED <<db, call, bound, tx, nextEnv, added, calls, crashed>>

InsertRow(c) ==
  /\ AtStmt(c, "insert")
  /\ Write(c, [Empty EXCEPT !.rows = {[key |-> Stmt(c).key, tbl |-> Stmt(c).tbl,
                                      env |-> IF Stmt(c).hasEnv THEN bound[c] ELSE 0]}], Empty)
  /\ Then(c, <<>>)
  /\ UNCHANGED <<call, bound, held, nextEnv, added, calls, crashed>>

\* A row that is already gone is no error.
DeleteRow(c) ==
  /\ AtStmt(c, "delete")
  /\ Write(c, Empty, [Empty EXCEPT !.rows = {r \in View(c).rows : r.key = Stmt(c).key}])
  /\ Then(c, <<>>)
  /\ UNCHANGED <<call, bound, held, nextEnv, added, calls, crashed>>
-----------------------------------------------------------------------------
(* Environment.Insert and Environment.DeleteIfOrphaned *)

Found(c) == {e \in View(c).envs : e.env = Stmt(c).env}

ReuseEnv(c) ==
  /\ AtStmt(c, "findEnv")
  /\ \E e \in Found(c) : bound' = [bound EXCEPT ![c] = e.id]
  /\ Then(c, <<>>)
  /\ UNCHANGED <<db, call, held, tx, nextEnv, added, calls, crashed>>

InsertEnv(c) ==
  /\ AtStmt(c, "findEnv")
  /\ Found(c) = {}
  /\ Write(c, [Empty EXCEPT !.envs = {[id |-> nextEnv, env |-> Stmt(c).env]}], Empty)
  /\ bound' = [bound EXCEPT ![c] = nextEnv]
  /\ nextEnv' = nextEnv + 1
  /\ Then(c, <<>>)
  /\ UNCHANGED <<call, held, added, calls, crashed>>

HeldBy(c) == {h.id : h \in {x \in held[c] : x.key = Stmt(c).key}}

OwnedIn(c, id, table) == \E r \in View(c).rows : r.env = id /\ r.tbl = table

\* A triple loaded without its environment: most types skip the check, KeyTriple
\* and ConditionalEndorsementSeriesTriple dereference nil, which ends the process
\* (Fail).
SkipOwners(c) ==
  /\ AtStmt(c, "owners") /\ HeldBy(c) = {} /\ Stmt(c).checked
  /\ Then(c, <<>>)
  /\ UNCHANGED <<db, call, bound, held, tx, nextEnv, added, calls, crashed>>

\* getOwnerIDs on the first of the tables: an owner settles it, the last table
\* without one leaves the environment to be deleted.
Check(c, id, tables) ==
  /\ Then(c, IF OwnedIn(c, id, Head(tables)) THEN <<>>
             ELSE IF Len(tables) = 1 THEN <<[do |-> "dropEnv", id |-> id]>>
             ELSE <<[do |-> "nextOwners", id |-> id, tables |-> Tail(tables)]>>)
  /\ UNCHANGED <<db, call, bound, held, tx, nextEnv, added, calls, crashed>>

CheckOwners(c) ==
  AtStmt(c, "owners") /\ \E id \in HeldBy(c) : Check(c, id, environmentOwners)

CheckNextOwners(c) == AtStmt(c, "nextOwners") /\ Check(c, Stmt(c).id, Stmt(c).tables)

DropEnv(c) ==
  /\ AtStmt(c, "dropEnv")
  /\ Write(c, Empty, [Empty EXCEPT !.envs = {e \in View(c).envs : e.id = Stmt(c).id}])
  /\ Then(c, <<>>)
  /\ UNCHANGED <<call, bound, held, nextEnv, added, calls, crashed>>

Next ==
  \E c \in Clients :
    \/ BeginAdd(c) \/ BeginDelete(c) \/ Fail(c) \/ Finish(c) \/ Commit(c)
    \/ LoadToken(c) \/ LoadManifest(c) \/ InsertRow(c) \/ DeleteRow(c)
    \/ ReuseEnv(c) \/ InsertEnv(c) \/ SkipOwners(c) \/ CheckOwners(c)
    \/ CheckNextOwners(c) \/ DropEnv(c)

Spec == Init /\ [][Next]_vars
-----------------------------------------------------------------------------
(* Properties *)

Keys == {r.key : r \in db.rows}

RowsOf == [d \in Docs |-> Inserted(InsertManifest(ManifestOf[d]))]
TokenRowsOf == [d \in Docs |-> Inserted(InsertToken(TokenOf[d]))]

\* What DeleteManifest removes of a document that is all there.
Removable ==
  [d \in Docs |-> Deleted(DeleteManifest(SelectManifest(ManifestOf[d], RowsOf[d])))]

Quiet == ~crashed /\ \A c \in Clients : call[c] = Idle

TypeOK ==
  /\ Keys \subseteq UNION {RowsOf[d] \cup TokenRowsOf[d] : d \in added}
  /\ \A r \in db.rows : r.env < nextEnv
  /\ \A e \in db.envs : e.id \in 1..(nextEnv - 1)
  /\ \A c \in Clients :
       /\ call[c] = Idle => prog[c] = <<>> /\ tx[c] = NoTx /\ held[c] = {} /\ bound[c] = 0
       /\ bound[c] < nextEnv
       /\ ~InTx(c) =>
            /\ tx[c] = NoTx
            /\ \A i \in DOMAIN prog[c] :
                 prog[c][i].do \in {"loadManifest", "delete", "owners", "nextOwners", "dropEnv"}
  /\ calls \in 0..MaxCalls /\ crashed \in BOOLEAN

\* A delete that stopped at any statement can be repeated (store.go:400-407): as
\* long as rows it would have removed are left, the manifest is there to be found
\* and every one of them is reached from it again.
Retriable ==
  \A d \in Docs :
    LET left == Keys \cap Removable[d]
    IN IF ManifestOf[d].key \in Keys
       THEN left \subseteq Deleted(DeleteManifest(SelectManifest(ManifestOf[d], Keys)))
       ELSE left = {}

\* The environment a triple refers to exists (environment.go:297-316: only an
\* environment without owners is deleted).
NoDanglingEnv == \A r \in db.rows : r.env # 0 => \E e \in db.envs : e.id = r.env

\* An environment is stored once: those who share it find the same row
\* (environment.go:275-287).
UniqueEnvs == \A e, f \in db.envs : e.env = f.env => e = f

\* No environment outlives the last triple that refers to it.
EnvsAreOwned == Quiet => \A e \in db.envs : \E r \in db.rows : r.env = e.id

\* Once the row of a manifest is gone, deleted or replaced, by a delete that stopped or
\* by one that did not, of its other rows none are left but those of the tables
\* Forgotten.  "All its data" (store.go:397-399) does not hold for these: extensions of
\* the manifest, crypto keys of measurements and the records of series stay for good.
NothingLeft ==
  \A d \in Docs :
    ManifestOf[d].key \notin Keys =>
      Keys \cap RowsOf[d] \subseteq InsertedInto(InsertManifest(ManifestOf[d]), Forgotten)

\* The manifest of a document that nobody has begun to delete is loaded with all the
\* rows that were added (store.go:389, 466-469: "fully populate"), except those of the
\* tables NotLoaded: the extensions of the manifest itself and the crypto keys of
\* measurements, which the code loses.
FullyPopulated ==
  \A d \in Docs :
    /\ ~crashed
    /\ \A c \in Clients : call[c].op = "delete" => call[c].id # IdOf[d]
    /\ ManifestOf[d].key \in Keys
    => RowsOf[d] \subseteq Inserted(InsertManifest(SelectManifest(ManifestOf[d], Keys)))
                           \cup InsertedInto(InsertManifest(ManifestOf[d]), NotLoaded)
=============================================================================
