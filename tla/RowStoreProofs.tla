-------------------------- MODULE RowStoreProofs --------------------------
(* The rows of documents and their environments, for any number of clients  *)
(* and calls, and documents of any shape.                                   *)
EXTENDS RowStore, RowProofs

AddedKeys == UNION {RowsOf[d] \cup TokenRowsOf[d] : d \in added}

\* Rows, and what the DBMS keeps of them: one that refers to an environment is in
\* a table of owners.
Rows == [key : RowKeys, tbl : AllTables, env : {0}] \cup [key : RowKeys, tbl : OwnerTable, env : Nat]
EnvRows == [id : Nat, env : Envs]
Content == [rows : SUBSET Rows, envs : SUBSET EnvRows]
Transactions == [snap : Content, ins : Content, del : Content]
Calls == {Idle} \cup [op : {"add", "delete"}, id : Ids]
InMemory == [key : RowKeys, id : Nat]

Loads == [do : {"loadManifest"}, id : Ids]
Checks ==
  [do : {"nextOwners"}, id : Nat, tables : Seq(OwnerTable) \ {<<>>}] \cup [do : {"dropEnv"}, id : Nat]
Others == [do : {"loadToken"}, id : Ids] \cup [do : {"commit"}]

DeleteStatements == Removals \cup Loads \cup Checks
Statements(K) == Additions(K) \cup DeleteStatements \cup Others

\* Nothing is numbered beyond the counter, and no row is of a document not added.
Known(x) ==
  /\ \A r \in x.rows : r.key \in AddedKeys /\ r.env < nextEnv
  /\ \A e \in x.envs : e.id \in 1..(nextEnv - 1)

ClientType(c) ==
  /\ call[c] \in Calls /\ bound[c] \in Nat /\ held[c] \subseteq InMemory
  /\ prog[c] \in Seq(Statements(AddedKeys))
  /\ tx[c] \in Transactions
  /\ Known(tx[c].snap) /\ Known(tx[c].ins) /\ bound[c] < nextEnv
  /\ call[c] = Idle => prog[c] = <<>> /\ tx[c] = NoTx /\ held[c] = {} /\ bound[c] = 0
  /\ ~InTx(c) => tx[c] = NoTx /\ prog[c] \in Seq(DeleteStatements)

TypeInv ==
  /\ db \in Content /\ Known(db)
  /\ DOMAIN call = Clients /\ DOMAIN prog = Clients /\ DOMAIN bound = Clients
  /\ DOMAIN held = Clients /\ DOMAIN tx = Clients
  /\ nextEnv \in Nat \ {0} /\ added \subseteq Docs
  /\ calls \in 0..MaxCalls /\ crashed \in BOOLEAN
  /\ \A c \in Clients : ClientType(c)
-----------------------------------------------------------------------------
\* A client's own variables: those of the others stay.
OnlyOf(c) ==
  /\ DOMAIN call' = Clients /\ DOMAIN prog' = Clients /\ DOMAIN bound' = Clients
  /\ DOMAIN held' = Clients /\ DOMAIN tx' = Clients
  /\ \A d \in Clients \ {c} :
       /\ call'[d] = call[d] /\ prog'[d] = prog[d] /\ bound'[d] = bound[d]
       /\ held'[d] = held[d] /\ tx'[d] = tx[d]

LEMMA Monotone ==
  ASSUME NEW K, NEW L, K \subseteq L
  PROVE  Statements(K) \subseteq Statements(L)
BY DEF Statements, Additions

LEMMA KnownStays ==
  ASSUME nextEnv \in Nat, nextEnv' \in Nat, nextEnv <= nextEnv', added \subseteq added',
         NEW x \in Content, Known(x)
  PROVE  Known(x)'
<1>1. AddedKeys \subseteq AddedKeys'
  BY DEF AddedKeys, RowsOf, TokenRowsOf
<1>2. \A r \in x.rows : r.env \in Nat
  BY DEF Content, Rows
<1>3. \A e \in x.envs : e.id \in Nat
  BY DEF Content, EnvRows
<1> QED BY <1>1, <1>2, <1>3 DEF Known

\* Where only c's variables change, the types of the others are kept.
LEMMA TypeFrame ==
  ASSUME TypeInv, NEW c \in Clients, OnlyOf(c), db' \in Content, Known(db)',
         nextEnv' \in Nat, nextEnv <= nextEnv', added \subseteq added', added' \subseteq Docs,
         calls' \in 0..MaxCalls, crashed' \in BOOLEAN, ClientType(c)'
  PROVE  TypeInv'
<1>1. ASSUME NEW d \in Clients \ {c} PROVE ClientType(d)'
  <2>1. /\ call'[d] = call[d] /\ prog'[d] = prog[d] /\ bound'[d] = bound[d]
        /\ held'[d] = held[d] /\ tx'[d] = tx[d]
    BY DEF OnlyOf
  <2>2. ClientType(d) /\ nextEnv \in Nat
    BY DEF TypeInv
  <2>3. tx[d].snap \in Content /\ tx[d].ins \in Content
    BY <2>2 DEF ClientType, Transactions
  <2>4. Known(tx[d].snap)' /\ Known(tx[d].ins)'
    <3>1. PICK x \in Content, y \in Content : x = tx[d].snap /\ y = tx[d].ins /\ Known(x) /\ Known(y)
      BY <2>2, <2>3 DEF ClientType
    <3>2. Known(x)' /\ Known(y)'
      BY <2>2, <3>1, KnownStays
    <3> QED BY <2>1, <3>1, <3>2 DEF Known
  <2>5. AddedKeys \subseteq AddedKeys'
    BY DEF AddedKeys, RowsOf, TokenRowsOf
  <2>6. prog'[d] \in Seq(Statements(AddedKeys'))
    <3>1. Statements(AddedKeys) \subseteq Statements(AddedKeys')
      BY <2>5, Monotone
    <3>2. prog[d] \in Seq(Statements(AddedKeys))
      BY <2>2 DEF ClientType
    <3> QED BY <2>1, <3>1, <3>2
  <2>7. bound'[d] < nextEnv'
    BY <2>1, <2>2 DEF ClientType
  <2> QED BY <2>1, <2>2, <2>4, <2>6, <2>7 DEF ClientType, InTx
<1> QED BY <1>1 DEF OnlyOf, TypeInv
-----------------------------------------------------------------------------
LEMMA ContentPlus ==
  ASSUME NEW a \in Content, NEW b \in Content
  PROVE  /\ Plus(a, b) \in Content
         /\ Plus(a, b).rows = a.rows \cup b.rows /\ Plus(a, b).envs = a.envs \cup b.envs
BY DEF Content, Plus

LEMMA ContentMinus ==
  ASSUME NEW a \in Content, NEW b \in Content
  PROVE  /\ Minus(a, b) \in Content
         /\ Minus(a, b).rows = a.rows \ b.rows /\ Minus(a, b).envs = a.envs \ b.envs
BY DEF Content, Minus

LEMMA EmptyContent ==
  /\ Empty \in Content /\ Empty.rows = {} /\ Empty.envs = {} /\ Known(Empty)
  /\ NoTx \in Transactions /\ NoTx.snap = Empty /\ NoTx.ins = Empty /\ NoTx.del = Empty
<1>1. Empty \in Content
  BY DEF Empty, Content
<1>2. Empty.rows = {} /\ Empty.envs = {}
  BY DEF Empty
<1> QED BY <1>1, <1>2 DEF NoTx, Transactions, Known

LEMMA RowsOnly ==
  ASSUME NEW X \in SUBSET Rows
  PROVE  /\ [Empty EXCEPT !.rows = X] \in Content
         /\ [Empty EXCEPT !.rows = X].rows = X /\ [Empty EXCEPT !.rows = X].envs = {}
BY DEF Empty, Content

LEMMA EnvsOnly ==
  ASSUME NEW X \in SUBSET EnvRows
  PROVE  /\ [Empty EXCEPT !.envs = X] \in Content
         /\ [Empty EXCEPT !.envs = X].envs = X /\ [Empty EXCEPT !.envs = X].rows = {}
BY DEF Empty, Content

\* Where a client is in its program.
LEMMA AtStatement ==
  ASSUME TypeInv, NEW c \in Clients, NEW w, AtStmt(c, w)
  PROVE  /\ prog[c] # <<>> /\ Stmt(c) \in Statements(AddedKeys) /\ Stmt(c).do = w
         /\ Tail(prog[c]) \in Seq(Statements(AddedKeys))
         /\ ~InTx(c) => Stmt(c) \in DeleteStatements /\ Tail(prog[c]) \in Seq(DeleteStatements)
         /\ call[c] # Idle
BY DEF TypeInv, ClientType, AtStmt, Stmt

LEMMA StatementFields ==
  ASSUME NEW K, NEW s \in Statements(K)
  PROVE  /\ s.do = "insert" =>
              /\ s.key \in K /\ s.hasEnv \in BOOLEAN /\ (~s.hasEnv => s.tbl \in AllTables)
              /\ s.hasEnv => s.tbl \in OwnerTable
         /\ s.do = "findEnv" => s.env \in Envs
         /\ s.do = "delete" => s.key \in RowKeys
         /\ s.do = "owners" => s.key \in RowKeys
         /\ s.do = "nextOwners" => s.id \in Nat /\ s.tables \in Seq(OwnerTable) /\ s.tables # <<>>
         /\ s.do = "dropEnv" => s.id \in Nat
         /\ s.do \in {"loadManifest", "loadToken"} => s.id \in Ids
         /\ s \in DeleteStatements
              => s.do \in {"delete", "owners", "loadManifest", "nextOwners", "dropEnv"}
         /\ s \notin DeleteStatements => s.do \in {"insert", "findEnv", "loadToken", "commit"}
<1>1. CASE s \in [do : {"insert"}, key : K, tbl : AllTables, hasEnv : {FALSE}]
  BY <1>1 DEF DeleteStatements, Removals, Loads, Checks
<1>2. CASE s \in [do : {"insert"}, key : K, tbl : OwnerTable, hasEnv : {TRUE}]
  BY <1>2 DEF DeleteStatements, Removals, Loads, Checks
<1>3. CASE s \in [do : {"findEnv"}, env : Envs]
  BY <1>3 DEF DeleteStatements, Removals, Loads, Checks
<1>4. CASE s \in DeleteStatements
  BY <1>4 DEF DeleteStatements, Removals, Loads, Checks
<1>5. CASE s \in Others
  BY <1>5 DEF Others, DeleteStatements, Removals, Loads, Checks
<1> QED BY <1>1, <1>2, <1>3, <1>4, <1>5 DEF Statements, Additions
-----------------------------------------------------------------------------
(* Types *)

LEMMA TypeInit == Init => TypeInv
<1> SUFFICES ASSUME Init PROVE TypeInv
  OBVIOUS
<1>1. ASSUME NEW c \in Clients PROVE ClientType(c)
  <2>1. /\ call[c] = Idle /\ prog[c] = <<>> /\ bound[c] = 0 /\ held[c] = {} /\ tx[c] = NoTx
        /\ nextEnv = 1
    BY DEF Init
  <2>2. Known(tx[c].snap) /\ Known(tx[c].ins) /\ tx[c] \in Transactions
    BY <2>1, EmptyContent
  <2>3. call[c] \in Calls /\ ~InTx(c)
    BY <2>1 DEF Calls, InTx, Idle
  <2> QED BY <2>1, <2>2, <2>3 DEF ClientType
<1>2. db \in Content /\ Known(db)
  BY EmptyContent DEF Init
<1>3. calls \in 0..MaxCalls
  BY RowStoreAssumption DEF Init
<1>4. /\ DOMAIN call = Clients /\ DOMAIN prog = Clients /\ DOMAIN bound = Clients
      /\ DOMAIN held = Clients /\ DOMAIN tx = Clients
  BY DEF Init
<1>5. nextEnv = 1 /\ added = {} /\ crashed = FALSE
  BY DEF Init
<1>6. nextEnv \in Nat \ {0} /\ added \subseteq Docs
  BY <1>5
<1>7. crashed \in BOOLEAN
  BY <1>5, Zenon
<1> QED BY <1>1, <1>2, <1>3, <1>4, <1>6, <1>7 DEF TypeInv

\* The end of a call.
LEMMA ReturnType ==
  ASSUME TypeInv, NEW c \in Clients, Return(c), db' \in Content, Known(db),
         Known(db)', UNCHANGED <<nextEnv, added, calls>>, crashed' \in BOOLEAN
  PROVE  TypeInv'
<1>1. OnlyOf(c)
  BY DEF TypeInv, Return, OnlyOf
<1>2. /\ call'[c] = Idle /\ prog'[c] = <<>> /\ bound'[c] = 0 /\ held'[c] = {} /\ tx'[c] = NoTx
  BY DEF TypeInv, Return
<1>3. Known(Empty)'
  BY EmptyContent DEF Known
<1>4. ClientType(c)'
  <2>1. 0 < nextEnv'
    BY DEF TypeInv
  <2>2. call'[c] \in Calls /\ ~InTx(c)'
    BY <1>2 DEF Calls, InTx, Idle
  <2> QED BY <1>2, <1>3, <2>1, <2>2, EmptyContent DEF ClientType
<1> QED BY <1>1, <1>4, TypeFrame DEF TypeInv

\* A step that reads: p comes before what is left of the program.
LEMMA ReadType ==
  ASSUME TypeInv, NEW c \in Clients, NEW w, AtStmt(c, w), NEW p, Then(c, p),
         p \in Seq(Statements(AddedKeys)), ~InTx(c) => p \in Seq(DeleteStatements),
         OnlyOf(c), bound'[c] = bound[c] \/ (bound'[c] \in Nat /\ bound'[c] < nextEnv),
         held'[c] \subseteq InMemory,
         UNCHANGED <<db, call, tx, nextEnv, added, calls, crashed>>
  PROVE  TypeInv'
<1>1. prog'[c] = p \o Tail(prog[c])
  BY DEF Then, TypeInv
<1>2. Tail(prog[c]) \in Seq(Statements(AddedKeys))
      /\ (~InTx(c) => Tail(prog[c]) \in Seq(DeleteStatements)) /\ call[c] # Idle
  BY AtStatement
<1>3. prog'[c] \in Seq(Statements(AddedKeys)) /\ (~InTx(c) => prog'[c] \in Seq(DeleteStatements))
  BY <1>1, <1>2
<1>4. AddedKeys' = AddedKeys
  BY DEF AddedKeys, RowsOf, TokenRowsOf
<1>5. Known(db)' /\ Known(tx[c].snap)' /\ Known(tx[c].ins)'
  BY <1>4 DEF Known, TypeInv, ClientType
<1>6. ClientType(c)'
  BY <1>2, <1>3, <1>4, <1>5 DEF ClientType, TypeInv, InTx
<1> QED BY <1>5, <1>6, TypeFrame DEF TypeInv

\* A step that writes: the program goes on.
LEMMA WriteType ==
  ASSUME TypeInv, NEW c \in Clients, NEW w, AtStmt(c, w), Then(c, <<>>),
         NEW ins \in Content, NEW del \in Content, Write(c, ins, del), Known(ins)',
         UNCHANGED <<call, held, added, calls, crashed>>, DOMAIN bound' = Clients,
         \A d \in Clients \ {c} : bound'[d] = bound[d],
         nextEnv' \in Nat, nextEnv <= nextEnv', bound'[c] \in Nat, bound'[c] < nextEnv'
  PROVE  TypeInv'
<1>1. prog'[c] = <<>> \o Tail(prog[c])
  BY DEF Then, TypeInv
<1>2. Tail(prog[c]) \in Seq(Statements(AddedKeys))
      /\ (~InTx(c) => Tail(prog[c]) \in Seq(DeleteStatements)) /\ call[c] # Idle
  BY AtStatement
<1>3. prog'[c] \in Seq(Statements(AddedKeys)) /\ (~InTx(c) => prog'[c] \in Seq(DeleteStatements))
  BY <1>1, <1>2
<1>4. AddedKeys' = AddedKeys
  BY DEF AddedKeys, RowsOf, TokenRowsOf
<1>5. OnlyOf(c)
  BY DEF OnlyOf, TypeInv, Then, Write
<1>6. db \in Content /\ tx[c] \in Transactions /\ Known(db) /\ Known(tx[c].snap) /\ Known(tx[c].ins)
  BY DEF TypeInv, ClientType
<1>7. tx[c].snap \in Content /\ tx[c].ins \in Content /\ tx[c].del \in Content
  BY <1>6 DEF Transactions
<1>8. ASSUME NEW x \in Content, Known(x)
      PROVE  Known(x)' /\ Minus(x, del) \in Content /\ Plus(Minus(x, del), ins) \in Content
             /\ Known(Plus(Minus(x, del), ins))'
  <2>1. Known(x)'
    BY <1>8, KnownStays DEF TypeInv
  <2>2. /\ Minus(x, del) \in Content /\ Minus(x, del).rows = x.rows \ del.rows
        /\ Minus(x, del).envs = x.envs \ del.envs
    BY ContentMinus
  <2>3. /\ Plus(Minus(x, del), ins) \in Content
        /\ Plus(Minus(x, del), ins).rows = (x.rows \ del.rows) \cup ins.rows
        /\ Plus(Minus(x, del), ins).envs = (x.envs \ del.envs) \cup ins.envs
    BY <2>2, ContentPlus
  <2> DEFINE y == Plus(Minus(x, del), ins)
  <2>4. Known(y)'
    <3>1. /\ \A r \in y.rows : r \in x.rows \/ r \in ins.rows
          /\ \A e \in y.envs : e \in x.envs \/ e \in ins.envs
      BY <2>3
    <3> HIDE DEF y
    <3> QED BY <2>1, <3>1 DEF Known
  <2> QED BY <2>1, <2>2, <2>3, <2>4
<1>9. PICK x0 \in Content, x1 \in Content, x2 \in Content :
        /\ x0 = db /\ x1 = tx[c].snap /\ x2 = tx[c].ins
        /\ Known(x0) /\ Known(x1) /\ Known(x2)
  BY <1>6, <1>7
<1>10. PICK y0 \in Content, y2 \in Content :
        /\ y0 = Plus(Minus(x0, del), ins) /\ y2 = Plus(Minus(x2, del), ins)
        /\ Known(y0)' /\ Known(y2)'
  BY <1>8, <1>9
<1>11. Known(x0)' /\ Known(x1)' /\ Known(x2)'
  BY <1>8, <1>9
<1>12. CASE InTx(c)
  <2>1. UNCHANGED db /\ tx'[c] = [snap |-> tx[c].snap, ins |-> Plus(Minus(tx[c].ins, del), ins),
                                  del |-> Plus(tx[c].del, del)]
    BY <1>6, <1>12 DEF Write, TypeInv, Transactions
  <2>2. PICK z \in Content : z = Plus(tx[c].del, del)
    BY <1>7, ContentPlus
  <2>3. db' = x0 /\ tx'[c] = [snap |-> x1, ins |-> y2, del |-> z]
    BY <1>9, <1>10, <2>1, <2>2
  <2>4. tx'[c] \in Transactions /\ tx'[c].snap = x1 /\ tx'[c].ins = y2
    BY <2>3 DEF Transactions
  <2>5. Known(tx[c].snap)' /\ Known(tx[c].ins)' /\ Known(db)'
    BY <1>10, <1>11, <2>3, <2>4 DEF Known
  <2>6. ClientType(c)'
    BY <1>2, <1>3, <1>4, <1>12, <2>4, <2>5 DEF ClientType, TypeInv, InTx
  <2>7. db' \in Content
    BY <1>9, <2>3
  <2> QED BY <1>5, <2>5, <2>6, <2>7, TypeFrame DEF TypeInv
<1>13. CASE ~InTx(c)
  <2>1. UNCHANGED tx /\ db' = y0
    BY <1>9, <1>10, <1>13 DEF Write
  <2>2. tx'[c].snap = x1 /\ tx'[c].ins = x2 /\ db' \in Content
    BY <1>9, <1>10, <2>1
  <2>3. Known(tx[c].snap)' /\ Known(tx[c].ins)' /\ Known(db)'
    BY <1>10, <1>11, <2>1, <2>2 DEF Known
  <2>4. ClientType(c)'
    BY <1>2, <1>3, <1>4, <1>6, <1>13, <2>1, <2>3 DEF ClientType, TypeInv, InTx
  <2> QED BY <1>5, <2>2, <2>3, <2>4, TypeFrame DEF TypeInv
<1> QED BY <1>12, <1>13
-----------------------------------------------------------------------------
\* What the programs of documents are made of.
LEMMA AddsRows ==
  ASSUME NEW p \in Seq(Additions(RowKeys)), NEW K, Inserted(p) \subseteq K
  PROVE  p \in Seq(Additions(K)) /\ Inserted(p) \subseteq RowKeys
<1>1. \A i \in DOMAIN p : p[i] \in Additions(RowKeys)
  OBVIOUS
<1>2. \A i \in DOMAIN p : p[i].do = "insert" => p[i].key \in Inserted(p)
  BY DEF Inserted, ToSet
<1>3. ASSUME NEW i \in DOMAIN p PROVE p[i] \in Additions(K)
  BY <1>1, <1>2 DEF Additions
<1>4. Inserted(p) \subseteq RowKeys
  BY <1>1 DEF Inserted, ToSet, Additions
<1>5. p = [i \in 1..Len(p) |-> p[i]] /\ Len(p) \in Nat /\ DOMAIN p = 1..Len(p)
  OBVIOUS
<1> HIDE DEF Additions
<1>6. p \in [1..Len(p) -> Additions(K)]
  BY <1>3, <1>5
<1> QED BY <1>4, <1>5, <1>6

LEMMA DocumentPrograms ==
  ASSUME NEW d \in Docs
  PROVE  /\ InsertManifest(ManifestOf[d]) \in Seq(Additions(RowsOf[d]))
         /\ InsertToken(TokenOf[d]) \in Seq(Additions(TokenRowsOf[d]))
         /\ RowsOf[d] \subseteq RowKeys /\ TokenRowsOf[d] \subseteq RowKeys
         /\ \A keys : DeleteManifest(SelectManifest(ManifestOf[d], keys)) \in Seq(Removals)
         /\ DeleteToken(SelectToken(TokenOf[d])) \in Seq(Removals)
<1>1. ManifestOf[d] \in Manifests /\ TokenOf[d] \in Tokens
  BY RowStoreAssumption
<1>2. /\ InsertManifest(ManifestOf[d]) \in Seq(Additions(RowKeys))
      /\ InsertToken(TokenOf[d]) \in Seq(Additions(RowKeys))
  BY <1>1, AdditionsAdd, ManifestInserted, TokenInserted
<1>3. /\ RowsOf[d] = Inserted(InsertManifest(ManifestOf[d]))
      /\ TokenRowsOf[d] = Inserted(InsertToken(TokenOf[d]))
  BY DEF RowsOf, TokenRowsOf
<1>4. \A keys : DeleteManifest(SelectManifest(ManifestOf[d], keys)) \in Seq(Removals)
  BY <1>1, SelectManifestIn, RemovalsRemove, ManifestDeleted
<1>5. DeleteToken(SelectToken(TokenOf[d])) \in Seq(Removals)
  BY <1>1, SelectTokenIn, RemovalsRemove, TokenDeleted
<1>6. /\ InsertManifest(ManifestOf[d]) \in Seq(Additions(RowsOf[d])) /\ RowsOf[d] \subseteq RowKeys
  <2> DEFINE p == InsertManifest(ManifestOf[d])
  <2>1. p \in Seq(Additions(RowKeys)) /\ RowsOf[d] = Inserted(p)
    BY <1>2, <1>3
  <2> HIDE DEF p
  <2>2. p \in Seq(Additions(RowsOf[d])) /\ RowsOf[d] \subseteq RowKeys
    BY <2>1, AddsRows
  <2> QED BY <2>2 DEF p
<1>7. /\ InsertToken(TokenOf[d]) \in Seq(Additions(TokenRowsOf[d])) /\ TokenRowsOf[d] \subseteq RowKeys
  <2> DEFINE p == InsertToken(TokenOf[d])
  <2>1. p \in Seq(Additions(RowKeys)) /\ TokenRowsOf[d] = Inserted(p)
    BY <1>2, <1>3
  <2> HIDE DEF p
  <2>2. p \in Seq(Additions(TokenRowsOf[d])) /\ TokenRowsOf[d] \subseteq RowKeys
    BY <2>1, AddsRows
  <2> QED BY <2>2 DEF p
<1> QED BY <1>4, <1>5, <1>6, <1>7

LEMMA AddProgram ==
  ASSUME NEW d \in Docs, NEW K, RowsOf[d] \cup TokenRowsOf[d] \subseteq K
  PROVE  AddBytes(d) \in Seq(Statements(K))
<1> DEFINE p == InsertToken(TokenOf[d])
           q == InsertManifest(ManifestOf[d])
<1>1. Additions(RowsOf[d]) \subseteq Statements(K) /\ Additions(TokenRowsOf[d]) \subseteq Statements(K)
  BY DEF Additions, Statements
<1>2. p \in Seq(Statements(K)) /\ q \in Seq(Statements(K))
  BY <1>1, DocumentPrograms
<1>3. IdOf[d] \in Ids
  BY DEF Ids
<1>4. /\ [do |-> "loadToken", id |-> IdOf[d]] \in Statements(K)
      /\ [do |-> "loadManifest", id |-> IdOf[d]] \in Statements(K)
      /\ [do |-> "commit"] \in Statements(K)
  BY <1>3 DEF Statements, DeleteStatements, Loads, Others
<1> HIDE DEF p, q
<1>5. /\ <<[do |-> "loadToken", id |-> IdOf[d]]>> \in Seq(Statements(K))
      /\ <<[do |-> "loadManifest", id |-> IdOf[d]]>> \in Seq(Statements(K))
      /\ <<[do |-> "commit"]>> \in Seq(Statements(K))
  BY <1>4
<1>6. <<[do |-> "loadToken", id |-> IdOf[d]]>> \o p \o <<[do |-> "loadManifest", id |-> IdOf[d]]>>
      \o q \o <<[do |-> "commit"]>> \in Seq(Statements(K))
  BY <1>2, <1>5
<1> QED BY <1>6 DEF AddBytes, p, q

LEMMA AddedRows == ASSUME TypeInv PROVE AddedKeys \subseteq RowKeys
BY DocumentPrograms DEF AddedKeys, TypeInv
-----------------------------------------------------------------------------
LEMMA BeginType ==
  ASSUME TypeInv, NEW c \in Clients, BeginAdd(c) \/ BeginDelete(c)
  PROVE  TypeInv'
<1>1. PICK op, id, p : BeginCall(c, op, id, p)
  BY DEF BeginAdd, BeginDelete
<1>2. /\ call[c] = Idle /\ tx[c] = NoTx /\ held[c] = {} /\ bound[c] = 0
      /\ calls' \in 0..MaxCalls /\ UNCHANGED <<db, bound, held, nextEnv, crashed>>
  BY <1>1, RowStoreAssumption DEF BeginCall, TypeInv, ClientType
<1>3. OnlyOf(c)
  BY <1>1 DEF BeginCall, BeginAdd, BeginDelete, TypeInv, OnlyOf
<1>4. added \subseteq added' /\ added' \subseteq Docs
  BY DEF BeginAdd, BeginDelete, TypeInv
<1>5. nextEnv \in Nat \ {0} /\ nextEnv' = nextEnv /\ db \in Content /\ Known(db)
  BY <1>2 DEF TypeInv
<1>6. PICK x \in Content : x = db /\ Known(x)
  BY <1>5
<1>7. Known(x)' /\ Known(Empty)'
  <2>1. Known(x)'
    BY <1>4, <1>5, <1>6, KnownStays
  <2> QED BY <2>1, EmptyContent DEF Known
<1>8. Known(db)' /\ db' = x
  BY <1>2, <1>6, <1>7 DEF Known
<1>9. CASE BeginAdd(c)
  <2>1. PICK d \in Docs : /\ BeginCall(c, "add", IdOf[d], AddBytes(d)) /\ added' = added \cup {d}
                          /\ tx' = [tx EXCEPT ![c].snap =
                                      IF Isolation = "serializable" THEN db ELSE Empty]
    BY <1>9 DEF BeginAdd
  <2>2. call'[c] = [op |-> "add", id |-> IdOf[d]] /\ prog'[c] = AddBytes(d)
    BY <2>1 DEF BeginCall, TypeInv
  <2>3. PICK s \in Content : s = (IF Isolation = "serializable" THEN x ELSE Empty) /\ Known(s)'
    BY <1>6, <1>7, EmptyContent
  <2>4. tx'[c] = [snap |-> s, ins |-> Empty, del |-> Empty]
    BY <1>2, <1>6, <2>1, <2>3, EmptyContent DEF NoTx, TypeInv
  <2>5. prog'[c] \in Seq(Statements(AddedKeys'))
    <3>1. RowsOf[d] \cup TokenRowsOf[d] \subseteq AddedKeys'
      BY <2>1 DEF AddedKeys, RowsOf, TokenRowsOf
    <3> QED BY <2>2, <3>1, AddProgram
  <2>6. call'[c] \in Calls /\ call'[c] # Idle /\ InTx(c)'
    BY <2>2, RowStoreAssumption DEF Calls, Ids, InTx, Idle
  <2>7. tx'[c] \in Transactions /\ tx'[c].snap = s /\ tx'[c].ins = Empty
    BY <2>4, EmptyContent DEF Transactions
  <2>8. Known(tx[c].snap)' /\ Known(tx[c].ins)'
    BY <1>7, <2>3, <2>7 DEF Known
  <2>9. ClientType(c)'
    BY <1>2, <1>5, <2>5, <2>6, <2>7, <2>8 DEF ClientType
  <2> QED BY <1>2, <1>3, <1>4, <1>5, <1>8, <2>9, TypeFrame DEF TypeInv
<1>10. CASE BeginDelete(c)
  <2>1. PICK i \in Ids : BeginCall(c, "delete", i, <<[do |-> "loadManifest", id |-> i]>>)
                         /\ UNCHANGED <<added, tx>>
    BY <1>10 DEF BeginDelete
  <2>2. call'[c] = [op |-> "delete", id |-> i] /\ prog'[c] = <<[do |-> "loadManifest", id |-> i]>>
    BY <2>1 DEF BeginCall, TypeInv
  <2>3. [do |-> "loadManifest", id |-> i] \in DeleteStatements
    BY DEF DeleteStatements, Loads
  <2>4. DeleteStatements \subseteq Statements(AddedKeys')
    BY DEF Statements
  <2>5. prog'[c] \in Seq(DeleteStatements)
    BY <2>2, <2>3
  <2>6. prog'[c] \in Seq(Statements(AddedKeys'))
    BY <2>4, <2>5
  <2>7. call'[c] \in Calls /\ call'[c] # Idle /\ ~InTx(c)'
    BY <2>2 DEF Calls, InTx, Idle
  <2>8. tx'[c] = NoTx /\ Known(tx[c].snap)' /\ Known(tx[c].ins)'
    BY <1>2, <1>7, <2>1, EmptyContent DEF Known
  <2>9. ClientType(c)'
    BY <1>2, <1>5, <2>5, <2>6, <2>7, <2>8, EmptyContent DEF ClientType
  <2> QED BY <1>2, <1>3, <1>4, <1>5, <1>8, <2>9, TypeFrame DEF TypeInv
<1> QED BY <1>9, <1>10

LEMMA EndType ==
  ASSUME TypeInv, NEW c \in Clients, Fail(c) \/ Finish(c) \/ Commit(c)
  PROVE  TypeInv'
<1>1. Return(c) /\ UNCHANGED <<nextEnv, added, calls>>
  BY DEF Fail, Finish, Commit
<1>2. crashed' \in BOOLEAN
  <2>1. crashed \in BOOLEAN
    BY DEF TypeInv
  <2>2. CASE Fail(c)
    <3>1. \E x \in BOOLEAN : crashed' = (crashed \/ x)
      BY <2>2, Zenon DEF Fail
    <3> QED BY <2>1, <3>1
  <2>3. CASE UNCHANGED crashed
    BY <2>1, <2>3
  <2> QED BY <2>2, <2>3 DEF Finish, Commit
<1>3. Known(db) /\ db \in Content /\ AddedKeys' = AddedKeys
  BY <1>1 DEF TypeInv, AddedKeys, RowsOf, TokenRowsOf
<1>4. CASE UNCHANGED db
  <2>1. Known(db)'
    BY <1>1, <1>3, <1>4 DEF Known
  <2> QED BY <1>1, <1>2, <1>3, <1>4, <2>1, ReturnType
<1>5. CASE Commit(c)
  <2>1. PICK x \in Content, ins \in Content, del \in Content :
          x = db /\ ins = tx[c].ins /\ del = tx[c].del /\ Known(x) /\ Known(ins)
    BY <1>3 DEF TypeInv, ClientType, Transactions
  <2>2. db' = Plus(Minus(x, del), ins)
    BY <1>5, <2>1 DEF Commit
  <2>3. /\ Minus(x, del) \in Content /\ Minus(x, del).rows = x.rows \ del.rows
        /\ Minus(x, del).envs = x.envs \ del.envs
    BY ContentMinus
  <2>4. /\ db' \in Content /\ db'.rows = (x.rows \ del.rows) \cup ins.rows
        /\ db'.envs = (x.envs \ del.envs) \cup ins.envs
    BY <2>2, <2>3, ContentPlus
  <2>5. /\ \A r \in db'.rows : r \in x.rows \/ r \in ins.rows
        /\ \A e \in db'.envs : e \in x.envs \/ e \in ins.envs
    BY <2>4
  <2>6. Known(db)'
    BY <1>1, <1>3, <2>1, <2>5 DEF Known
  <2> QED BY <1>1, <1>2, <1>3, <2>4, <2>6, ReturnType
<1> QED BY <1>4, <1>5 DEF Fail, Finish
-----------------------------------------------------------------------------
LEMMA ViewKnown ==
  ASSUME TypeInv, NEW c \in Clients
  PROVE  Known(View(c)) /\ View(c) \in Content
<1>1. /\ db \in Content /\ tx[c].snap \in Content /\ tx[c].ins \in Content /\ tx[c].del \in Content
      /\ Known(db) /\ Known(tx[c].snap) /\ Known(tx[c].ins)
  BY DEF TypeInv, ClientType, Transactions
<1>2. CASE InTx(c)
  <2>1. PICK x \in Content, ins \in Content, del \in Content :
          /\ x = (IF Isolation = "serializable" THEN tx[c].snap ELSE db)
          /\ ins = tx[c].ins /\ del = tx[c].del /\ Known(x) /\ Known(ins)
    BY <1>1
  <2>2. View(c) = Plus(Minus(x, del), ins)
    BY <1>2, <2>1 DEF View
  <2>3. /\ Minus(x, del) \in Content /\ Minus(x, del).rows = x.rows \ del.rows
        /\ Minus(x, del).envs = x.envs \ del.envs
    BY ContentMinus
  <2>4. /\ View(c) \in Content /\ View(c).rows = (x.rows \ del.rows) \cup ins.rows
        /\ View(c).envs = (x.envs \ del.envs) \cup ins.envs
    BY <2>2, <2>3, ContentPlus
  <2>5. /\ \A r \in View(c).rows : r \in x.rows \/ r \in ins.rows
        /\ \A e \in View(c).envs : e \in x.envs \/ e \in ins.envs
    BY <2>4
  <2> QED BY <2>1, <2>4, <2>5 DEF Known
<1>3. CASE ~InTx(c)
  BY <1>1, <1>3 DEF View
<1> QED BY <1>2, <1>3

LEMMA LoadType ==
  ASSUME TypeInv, NEW c \in Clients, LoadToken(c) \/ LoadManifest(c)
  PROVE  TypeInv'
<1>1. Removals \subseteq DeleteStatements /\ Removals \subseteq Statements(AddedKeys)
  BY DEF DeleteStatements, Statements
<1>2. PICK w, p : AtStmt(c, w) /\ Then(c, p) /\ p \in Seq(Removals)
  <2>1. <<>> \in Seq(Removals)
    OBVIOUS
  <2>2. CASE LoadToken(c)
    <3>1. \/ Then(c, <<>>)
          \/ \E d \in Docs : Then(c, DeleteToken(SelectToken(TokenOf[d])))
      BY <2>2 DEF LoadToken, Existing
    <3>2. \E p : Then(c, p) /\ p \in Seq(Removals)
      BY <2>1, <3>1, DocumentPrograms
    <3> QED BY <2>2, <3>2 DEF LoadToken
  <2>3. CASE LoadManifest(c)
    <3>1. \/ Then(c, <<>>)
          \/ \E d \in Docs : \E keys : Then(c, DeleteManifest(SelectManifest(ManifestOf[d], keys)))
      BY <2>3 DEF LoadManifest, Existing
    <3>2. \E p : Then(c, p) /\ p \in Seq(Removals)
      BY <2>1, <3>1, DocumentPrograms
    <3> QED BY <2>3, <3>2 DEF LoadManifest
  <2> QED BY <2>2, <2>3
<1>3. p \in Seq(DeleteStatements) /\ p \in Seq(Statements(AddedKeys))
  BY <1>1, <1>2
<1>4. /\ UNCHANGED <<db, call, bound, tx, nextEnv, added, calls, crashed>>
      /\ DOMAIN held' = Clients /\ \A d \in Clients \ {c} : held'[d] = held[d]
      /\ held'[c] = held[c] \/ held'[c] = HeldEnvs(c)
  BY DEF LoadToken, LoadManifest, TypeInv
<1>5. HeldEnvs(c) \subseteq InMemory
  <2>1. \A r \in View(c).rows : r.key \in RowKeys /\ r.env \in Nat
    BY ViewKnown DEF Content, Rows
  <2> QED BY <2>1 DEF HeldEnvs, InMemory
<1>6. held'[c] \subseteq InMemory
  BY <1>4, <1>5 DEF TypeInv, ClientType
<1>7. OnlyOf(c)
  BY <1>2, <1>4 DEF OnlyOf, TypeInv, Then
<1> QED BY <1>2, <1>3, <1>4, <1>6, <1>7, ReadType

LEMMA ReuseType ==
  ASSUME TypeInv, NEW c \in Clients, ReuseEnv(c)
  PROVE  TypeInv'
<1>1. PICK e \in View(c).envs : bound' = [bound EXCEPT ![c] = e.id]
  BY DEF ReuseEnv, Found
<1>2. e.id \in Nat /\ e.id < nextEnv
  BY <1>1, ViewKnown DEF Known, Content, EnvRows, TypeInv
<1>3. bound'[c] = e.id
  BY <1>1 DEF TypeInv
<1>4. OnlyOf(c)
  BY <1>1 DEF OnlyOf, TypeInv, Then, ReuseEnv
<1>5. <<>> \in Seq(Statements(AddedKeys)) /\ <<>> \in Seq(DeleteStatements)
  OBVIOUS
<1>6. held'[c] \subseteq InMemory
  BY DEF ReuseEnv, TypeInv, ClientType
<1> QED BY <1>2, <1>3, <1>4, <1>5, <1>6, ReadType DEF ReuseEnv

LEMMA OwnersSequence ==
  /\ environmentOwners \in Seq(OwnerTable) \ {<<>>} /\ Len(environmentOwners) = 7
<1>1. environmentOwners = [i \in 1..7 |-> environmentOwners[i]] /\ Len(environmentOwners) = 7
  BY DEF environmentOwners
<1>2. \A i \in 1..7 : environmentOwners[i] \in OwnerTable
  BY <1>1 DEF OwnerTable, ToSet
<1> QED BY <1>1, <1>2

\* What a check of the first of the tables leaves to be executed: if there is no owner,
\* a statement that looks on or drops the environment.
LEMMA CheckProgram ==
  ASSUME NEW c \in Clients, NEW id \in Nat, NEW tables \in Seq(OwnerTable) \ {<<>>},
         Check(c, id, tables)
  PROVE  \E p \in Seq(Checks) :
           /\ Then(c, p)
           /\ OwnedIn(c, id, Head(tables)) \/ \E s \in Checks : p = <<s>> /\ s.id = id
<1>1. CASE OwnedIn(c, id, Head(tables))
  <2>1. <<>> \in Seq(Checks)
    OBVIOUS
  <2>2. Then(c, <<>>)
    BY <1>1 DEF Check
  <2> QED BY <1>1, <2>1, <2>2
<1>2. ASSUME NEW s \in Checks, s.id = id, Then(c, <<s>>)
      PROVE  \E p \in Seq(Checks) :
               /\ Then(c, p)
               /\ OwnedIn(c, id, Head(tables)) \/ \E x \in Checks : p = <<x>> /\ x.id = id
  <2>1. <<s>> \in Seq(Checks)
    OBVIOUS
  <2> QED BY <1>2, <2>1, Zenon
<1>3. CASE ~OwnedIn(c, id, Head(tables)) /\ Len(tables) = 1
  <2>1. PICK s \in Checks : s = [do |-> "dropEnv", id |-> id] /\ s.id = id
    <3>1. [do |-> "dropEnv", id |-> id] \in Checks
      BY DEF Checks
    <3> QED BY <3>1
  <2>2. Then(c, <<s>>)
    BY <1>3, <2>1 DEF Check
  <2> QED BY <1>2, <2>1, <2>2
<1>4. CASE ~OwnedIn(c, id, Head(tables)) /\ Len(tables) # 1
  <2>1. Tail(tables) \in Seq(OwnerTable) \ {<<>>}
    <3>1. Len(tables) \in Nat \ {0, 1}
      BY <1>4
    <3>2. Tail(tables) \in Seq(OwnerTable) /\ Len(Tail(tables)) = Len(tables) - 1
      BY <3>1
    <3>3. Len(Tail(tables)) # 0
      BY <3>1, <3>2
    <3> QED BY <3>2, <3>3
  <2>2. PICK s \in Checks : s = [do |-> "nextOwners", id |-> id, tables |-> Tail(tables)] /\ s.id = id
    <3>1. [do |-> "nextOwners", id |-> id, tables |-> Tail(tables)] \in Checks
      BY <2>1 DEF Checks
    <3> QED BY <3>1
  <2>3. Then(c, <<s>>)
    BY <1>4, <2>2 DEF Check
  <2> QED BY <1>2, <2>2, <2>3
<1> QED BY <1>1, <1>3, <1>4

LEMMA CheckType ==
  ASSUME TypeInv, NEW c \in Clients, SkipOwners(c) \/ CheckOwners(c) \/ CheckNextOwners(c)
  PROVE  TypeInv'
<1>1. Checks \subseteq DeleteStatements /\ Checks \subseteq Statements(AddedKeys)
  BY DEF DeleteStatements, Statements
<1>2. PICK w, p : AtStmt(c, w) /\ Then(c, p) /\ p \in Seq(Checks)
  <2>1. CASE SkipOwners(c)
    <3>1. <<>> \in Seq(Checks)
      OBVIOUS
    <3> QED BY <2>1, <3>1 DEF SkipOwners
  <2>2. CASE CheckOwners(c)
    <3>1. PICK id \in HeldBy(c) : Check(c, id, environmentOwners)
      BY <2>2 DEF CheckOwners
    <3>2. id \in Nat
      BY DEF HeldBy, TypeInv, ClientType, InMemory
    <3> QED BY <2>2, <3>1, <3>2, OwnersSequence, CheckProgram DEF CheckOwners
  <2>3. CASE CheckNextOwners(c)
    <3>1. Stmt(c).id \in Nat /\ Stmt(c).tables \in Seq(OwnerTable) \ {<<>>}
      BY <2>3, AtStatement, StatementFields DEF CheckNextOwners
    <3> QED BY <2>3, <3>1, CheckProgram DEF CheckNextOwners
  <2> QED BY <2>1, <2>2, <2>3
<1>3. p \in Seq(DeleteStatements) /\ p \in Seq(Statements(AddedKeys))
  BY <1>1, <1>2
<1>4. UNCHANGED <<db, call, bound, held, tx, nextEnv, added, calls, crashed>>
  BY DEF SkipOwners, CheckOwners, CheckNextOwners, Check
<1>5. held'[c] \subseteq InMemory
  BY <1>4 DEF TypeInv, ClientType
<1>6. OnlyOf(c)
  BY <1>2, <1>4 DEF OnlyOf, TypeInv, Then
<1> QED BY <1>2, <1>3, <1>4, <1>5, <1>6, ReadType
-----------------------------------------------------------------------------
\* The row a statement inserts.
NewRow(c) == [key |-> Stmt(c).key, tbl |-> Stmt(c).tbl,
              env |-> IF Stmt(c).hasEnv THEN bound[c] ELSE 0]

LEMMA NewRowType ==
  ASSUME TypeInv, NEW c \in Clients, AtStmt(c, "insert")
  PROVE  /\ NewRow(c) \in Rows /\ NewRow(c).key \in AddedKeys /\ NewRow(c).env < nextEnv
         /\ NewRow(c).key = Stmt(c).key /\ NewRow(c).tbl = Stmt(c).tbl
         /\ NewRow(c).env = (IF Stmt(c).hasEnv THEN bound[c] ELSE 0)
<1>1. /\ Stmt(c).key \in AddedKeys /\ Stmt(c).hasEnv \in BOOLEAN
      /\ ~Stmt(c).hasEnv => Stmt(c).tbl \in AllTables
      /\ Stmt(c).hasEnv => Stmt(c).tbl \in OwnerTable
  BY AtStatement, StatementFields
<1>2. bound[c] \in Nat /\ bound[c] < nextEnv /\ nextEnv \in Nat \ {0}
  BY DEF TypeInv, ClientType
<1>3. Stmt(c).key \in RowKeys
  BY <1>1, AddedRows
<1>4. NewRow(c) \in Rows
  <2>1. CASE Stmt(c).hasEnv
    BY <1>1, <1>2, <1>3, <2>1 DEF NewRow, Rows
  <2>2. CASE ~Stmt(c).hasEnv
    BY <1>1, <1>2, <1>3, <2>2 DEF NewRow, Rows
  <2> QED BY <2>1, <2>2
<1> QED BY <1>1, <1>2, <1>4 DEF NewRow

LEMMA RowType ==
  ASSUME TypeInv, NEW c \in Clients, InsertRow(c) \/ DeleteRow(c)
  PROVE  TypeInv'
<1>1. /\ UNCHANGED <<call, bound, held, nextEnv, added, calls, crashed>> /\ Then(c, <<>>)
  BY DEF InsertRow, DeleteRow
<1>2. /\ nextEnv' \in Nat /\ nextEnv <= nextEnv' /\ bound'[c] \in Nat /\ bound'[c] < nextEnv'
      /\ DOMAIN bound' = Clients /\ \A d \in Clients \ {c} : bound'[d] = bound[d]
  BY <1>1 DEF TypeInv, ClientType
<1>3. AddedKeys' = AddedKeys
  BY <1>1 DEF AddedKeys, RowsOf, TokenRowsOf
<1>4. CASE InsertRow(c)
  <2>1. PICK row \in Rows : row = NewRow(c) /\ row.key \in AddedKeys /\ row.env < nextEnv
    BY <1>4, NewRowType DEF InsertRow
  <2>2. PICK ins : ins = [Empty EXCEPT !.rows = {row}]
    OBVIOUS
  <2>3. ins \in Content /\ ins.rows = {row} /\ ins.envs = {}
    BY <2>2, RowsOnly
  <2>4. AtStmt(c, "insert") /\ Write(c, ins, Empty)
    BY <1>4, <2>1, <2>2 DEF InsertRow, NewRow
  <2>5. Known(ins)'
    BY <1>1, <1>3, <2>1, <2>3 DEF Known
  <2> QED BY <1>1, <1>2, <2>3, <2>4, <2>5, EmptyContent, WriteType
<1>5. CASE DeleteRow(c)
  <2>1. PICK gone \in Content :
          gone = [Empty EXCEPT !.rows = {r \in View(c).rows : r.key = Stmt(c).key}]
    <3>1. {r \in View(c).rows : r.key = Stmt(c).key} \subseteq Rows
      BY ViewKnown DEF Content
    <3> QED BY <3>1, RowsOnly
  <2>2. AtStmt(c, "delete") /\ Write(c, Empty, gone)
    BY <1>5, <2>1 DEF DeleteRow
  <2>3. Known(Empty)'
    BY EmptyContent DEF Known
  <2> QED BY <1>1, <1>2, <2>1, <2>2, <2>3, EmptyContent, WriteType
<1> QED BY <1>4, <1>5

LEMMA EnvType ==
  ASSUME TypeInv, NEW c \in Clients, InsertEnv(c) \/ DropEnv(c)
  PROVE  TypeInv'
<1>1. /\ UNCHANGED <<call, held, added, calls, crashed>> /\ Then(c, <<>>)
  BY DEF InsertEnv, DropEnv
<1>2. nextEnv \in Nat \ {0} /\ bound[c] \in Nat /\ bound[c] < nextEnv
  BY DEF TypeInv, ClientType
<1>3. CASE InsertEnv(c)
  <2>1. PICK e : e = [id |-> nextEnv, env |-> Stmt(c).env]
    OBVIOUS
  <2>2. e \in EnvRows /\ e.id = nextEnv
    BY <1>2, <1>3, <2>1, AtStatement, StatementFields DEF EnvRows, InsertEnv
  <2>3. PICK ins : ins = [Empty EXCEPT !.envs = {e}]
    OBVIOUS
  <2>4. ins \in Content /\ ins.envs = {e} /\ ins.rows = {}
    BY <2>2, <2>3, EnvsOnly
  <2>5. AtStmt(c, "findEnv") /\ Write(c, ins, Empty) /\ nextEnv' = nextEnv + 1
    BY <1>3, <2>1, <2>3 DEF InsertEnv
  <2>6. Known(ins)'
    BY <1>2, <2>2, <2>4, <2>5 DEF Known
  <2>7. bound'[c] = nextEnv /\ DOMAIN bound' = Clients
        /\ \A d \in Clients \ {c} : bound'[d] = bound[d]
    BY <1>3 DEF InsertEnv, TypeInv
  <2> QED BY <1>1, <1>2, <2>4, <2>5, <2>6, <2>7, EmptyContent, WriteType
<1>4. CASE DropEnv(c)
  <2>1. PICK gone \in Content :
          gone = [Empty EXCEPT !.envs = {e \in View(c).envs : e.id = Stmt(c).id}]
    <3>1. {e \in View(c).envs : e.id = Stmt(c).id} \subseteq EnvRows
      BY ViewKnown DEF Content
    <3> QED BY <3>1, EnvsOnly
  <2>2. AtStmt(c, "dropEnv") /\ Write(c, Empty, gone)
    BY <1>4, <2>1 DEF DropEnv
  <2>3. Known(Empty)'
    BY EmptyContent DEF Known
  <2>4. UNCHANGED <<bound, nextEnv>> /\ DOMAIN bound = Clients
    BY <1>4 DEF DropEnv, TypeInv
  <2> QED BY <1>1, <1>2, <2>1, <2>2, <2>3, <2>4, EmptyContent, WriteType
<1> QED BY <1>3, <1>4

LEMMA TypeStep == ASSUME TypeInv, [Next]_vars PROVE TypeInv'
<1>1. CASE UNCHANGED vars
  BY <1>1 DEF vars, TypeInv, ClientType, Known, AddedKeys, RowsOf, TokenRowsOf, InTx
<1> QED
  BY <1>1, BeginType, EndType, LoadType, ReuseType, CheckType, RowType, EnvType DEF Next

\* Whatever the documents look like, a call only ever executes the statements of
\* its kind, no row is one of a document that has not been added, and nothing is
\* numbered beyond the counter.
THEOREM TypeCorrect == Spec => []TypeOK
<1>1. TypeInv => TypeOK
  <2> SUFFICES ASSUME TypeInv PROVE TypeOK
    OBVIOUS
  <2>1. Keys \subseteq UNION {RowsOf[d] \cup TokenRowsOf[d] : d \in added}
    BY DEF Keys, TypeInv, Known, AddedKeys
  <2>2. /\ \A r \in db.rows : r.env < nextEnv
        /\ \A e \in db.envs : e.id \in 1..(nextEnv - 1)
    BY DEF TypeInv, Known
  <2>3. ASSUME NEW c \in Clients
        PROVE  /\ call[c] = Idle => prog[c] = <<>> /\ tx[c] = NoTx /\ held[c] = {} /\ bound[c] = 0
               /\ bound[c] < nextEnv
               /\ ~InTx(c) =>
                    /\ tx[c] = NoTx
                    /\ \A i \in DOMAIN prog[c] :
                         prog[c][i].do \in {"loadManifest", "delete", "owners", "nextOwners", "dropEnv"}
    <3>1. ~InTx(c) => \A i \in DOMAIN prog[c] : prog[c][i] \in DeleteStatements
      BY DEF TypeInv, ClientType
    <3>2. \A s \in DeleteStatements :
            s.do \in {"loadManifest", "delete", "owners", "nextOwners", "dropEnv"}
      BY DEF DeleteStatements, Removals, Loads, Checks
    <3> QED BY <3>1, <3>2 DEF TypeInv, ClientType
  <2>4. calls \in 0..MaxCalls /\ crashed \in BOOLEAN
    BY DEF TypeInv
  <2> QED BY <2>1, <2>2, <2>3, <2>4 DEF TypeOK
<1> QED BY <1>1, TypeInit, TypeStep, PTL DEF Spec
-----------------------------------------------------------------------------
(* What a serializable DBMS shows to each client *)

LEMMA OnlyMine ==
  ASSUME TypeInv, NEW c \in Clients,
         \/ BeginAdd(c) \/ BeginDelete(c) \/ Fail(c) \/ Finish(c) \/ Commit(c)
         \/ LoadToken(c) \/ LoadManifest(c) \/ InsertRow(c) \/ DeleteRow(c)
         \/ ReuseEnv(c) \/ InsertEnv(c) \/ SkipOwners(c) \/ CheckOwners(c)
         \/ CheckNextOwners(c) \/ DropEnv(c)
  PROVE  OnlyOf(c)
<1>1. CASE BeginAdd(c) \/ BeginDelete(c)
  BY <1>1 DEF BeginAdd, BeginDelete, BeginCall, TypeInv, OnlyOf
<1>2. CASE Fail(c) \/ Finish(c) \/ Commit(c)
  BY <1>2 DEF Fail, Finish, Commit, Return, TypeInv, OnlyOf
<1>3. CASE LoadToken(c) \/ LoadManifest(c) \/ SkipOwners(c) \/ CheckOwners(c) \/ CheckNextOwners(c)
  <2>1. PICK p : Then(c, p)
    BY <1>3 DEF LoadToken, LoadManifest, SkipOwners, CheckOwners, CheckNextOwners, Check
  <2>2. UNCHANGED <<call, bound, tx>> /\ \/ UNCHANGED held
                                         \/ held' = [held EXCEPT ![c] = HeldEnvs(c)]
    BY <1>3 DEF LoadToken, LoadManifest, SkipOwners, CheckOwners, CheckNextOwners, Check
  <2> QED BY <2>1, <2>2 DEF Then, TypeInv, OnlyOf
<1>4. CASE InsertRow(c) \/ DeleteRow(c) \/ InsertEnv(c) \/ DropEnv(c) \/ ReuseEnv(c)
  <2>1. Then(c, <<>>) /\ UNCHANGED <<call, held>>
    BY <1>4 DEF InsertRow, DeleteRow, InsertEnv, DropEnv, ReuseEnv
  <2>2. UNCHANGED bound \/ \E i : bound' = [bound EXCEPT ![c] = i]
    BY <1>4 DEF InsertRow, DeleteRow, InsertEnv, DropEnv, ReuseEnv
  <2>3. UNCHANGED tx \/ \E ins, del : Write(c, ins, del)
    BY <1>4 DEF InsertRow, DeleteRow, InsertEnv, DropEnv, ReuseEnv
  <2>4. UNCHANGED tx \/ \E t : tx' = [tx EXCEPT ![c] = t]
    BY <2>3 DEF Write
  <2> QED BY <2>1, <2>2, <2>4 DEF Then, TypeInv, OnlyOf
<1> QED BY <1>1, <1>2, <1>3, <1>4

LEMMA ViewFrame ==
  ASSUME Isolation = "serializable", NEW c \in Clients, NEW d \in Clients \ {c}, OnlyOf(c)
  PROVE  /\ InTx(d)' <=> InTx(d)
         /\ InTx(d) => View(d)' = View(d)
         /\ ~InTx(d) => View(d) = db /\ View(d)' = db'
BY DEF OnlyOf, View, InTx

LEMMA ReadView ==
  ASSUME Isolation = "serializable", NEW c \in Clients, UNCHANGED <<db, call, tx>>
  PROVE  View(c)' = View(c) /\ (InTx(c)' <=> InTx(c))
BY DEF View, InTx

LEMMA WriteView ==
  ASSUME Isolation = "serializable", TypeInv, NEW c \in Clients, UNCHANGED call,
         NEW ins \in Content, NEW del \in Content, Write(c, ins, del)
  PROVE  /\ InTx(c)' <=> InTx(c)
         /\ View(c)'.rows = (View(c).rows \ del.rows) \cup ins.rows
         /\ View(c)'.envs = (View(c).envs \ del.envs) \cup ins.envs
         /\ IF InTx(c) THEN UNCHANGED db ELSE db = View(c) /\ db' = View(c)'
<1>1. tx[c] \in Transactions /\ db \in Content
  BY DEF TypeInv, ClientType
<1>2. tx[c].snap \in Content /\ tx[c].ins \in Content /\ tx[c].del \in Content
  BY <1>1 DEF Transactions
<1>3. InTx(c)' <=> InTx(c)
  BY DEF InTx
<1>4. CASE InTx(c)
  <2>1. UNCHANGED db /\ tx'[c] = [snap |-> tx[c].snap, ins |-> Plus(Minus(tx[c].ins, del), ins),
                                  del |-> Plus(tx[c].del, del)]
    BY <1>1, <1>4 DEF Write, TypeInv, Transactions
  <2>2. PICK s \in Content, i \in Content, d \in Content :
          s = tx[c].snap /\ i = tx[c].ins /\ d = tx[c].del
    BY <1>2
  <2>3. View(c) = Plus(Minus(s, d), i)
    BY <1>4, <2>2 DEF View
  <2>4. View(c)' = Plus(Minus(s, Plus(d, del)), Plus(Minus(i, del), ins))
    <3>1. tx'[c].snap = s /\ tx'[c].ins = Plus(Minus(i, del), ins) /\ tx'[c].del = Plus(d, del)
      BY <2>1, <2>2
    <3> QED BY <1>3, <1>4, <3>1 DEF View
  <2>5. /\ View(c).rows = (s.rows \ d.rows) \cup i.rows
        /\ View(c).envs = (s.envs \ d.envs) \cup i.envs
    <3>1. PICK x \in Content : x = Minus(s, d) /\ x.rows = s.rows \ d.rows /\ x.envs = s.envs \ d.envs
      BY ContentMinus
    <3>2. View(c) = Plus(x, i)
      BY <2>3, <3>1
    <3> QED BY <3>1, <3>2, ContentPlus
  <2>6. /\ View(c)'.rows = (s.rows \ (d.rows \cup del.rows)) \cup ((i.rows \ del.rows) \cup ins.rows)
        /\ View(c)'.envs = (s.envs \ (d.envs \cup del.envs)) \cup ((i.envs \ del.envs) \cup ins.envs)
    <3>1. PICK x \in Content : x = Plus(d, del) /\ x.rows = d.rows \cup del.rows
                               /\ x.envs = d.envs \cup del.envs
      BY ContentPlus
    <3>2. PICK y \in Content : y = Minus(s, x) /\ y.rows = s.rows \ x.rows /\ y.envs = s.envs \ x.envs
      BY ContentMinus
    <3>3. PICK z \in Content : z = Minus(i, del) /\ z.rows = i.rows \ del.rows
                               /\ z.envs = i.envs \ del.envs
      BY ContentMinus
    <3>4. PICK w \in Content : w = Plus(z, ins) /\ w.rows = z.rows \cup ins.rows
                               /\ w.envs = z.envs \cup ins.envs
      BY ContentPlus
    <3>5. View(c)' = Plus(y, w)
      BY <2>4, <3>1, <3>2, <3>3, <3>4
    <3>6. View(c)'.rows = y.rows \cup w.rows /\ View(c)'.envs = y.envs \cup w.envs
      BY <3>5, ContentPlus
    <3> QED BY <3>1, <3>2, <3>3, <3>4, <3>6
  <2> QED BY <1>3, <1>4, <2>1, <2>5, <2>6
<1>5. CASE ~InTx(c)
  <2>1. View(c) = db /\ View(c)' = db' /\ db' = Plus(Minus(db, del), ins)
    BY <1>3, <1>5 DEF View, Write
  <2>2. PICK s \in Content : s = db
    BY <1>1
  <2>3. PICK x \in Content : x = Minus(s, del) /\ x.rows = s.rows \ del.rows
                             /\ x.envs = s.envs \ del.envs
    BY ContentMinus
  <2>4. db' = Plus(x, ins)
    BY <2>1, <2>2, <2>3
  <2>5. db'.rows = x.rows \cup ins.rows /\ db'.envs = x.envs \cup ins.envs
    BY <2>4, ContentPlus
  <2> QED BY <1>3, <1>5, <2>1, <2>2, <2>3, <2>5
<1> QED BY <1>4, <1>5

\* At the commit what the transaction sees is what is committed.
LEMMA CommitView ==
  ASSUME Isolation = "serializable", TypeInv, NEW c \in Clients, Commit(c)
  PROVE  InTx(c) /\ db' = View(c) /\ ~InTx(c)'
<1>1. InTx(c)
  <2>1. Stmt(c).do = "commit"
    BY AtStatement DEF Commit
  <2> QED BY <2>1, AtStatement, StatementFields DEF Commit
<1>2. db' = Plus(Minus(tx[c].snap, tx[c].del), tx[c].ins)
  BY DEF Commit
<1>3. call'[c] = Idle
  BY DEF Commit, Return, TypeInv
<1> QED BY <1>1, <1>2, <1>3 DEF View, InTx, Idle

LEMMA BeginView ==
  ASSUME Isolation = "serializable", TypeInv, NEW c \in Clients, BeginAdd(c)
  PROVE  UNCHANGED db /\ InTx(c)' /\ View(c)'.rows = db.rows /\ View(c)'.envs = db.envs
<1>1. PICK d \in Docs : /\ BeginCall(c, "add", IdOf[d], AddBytes(d))
                        /\ tx' = [tx EXCEPT ![c].snap =
                                    IF Isolation = "serializable" THEN db ELSE Empty]
  BY DEF BeginAdd
<1>2. /\ call[c] = Idle /\ call' = [call EXCEPT ![c] = [op |-> "add", id |-> IdOf[d]]]
      /\ UNCHANGED db
  BY <1>1 DEF BeginCall
<1>3. call'[c].op = "add" /\ tx[c] = NoTx
  BY <1>2 DEF TypeInv, ClientType
<1>4. tx'[c].snap = db /\ tx'[c].ins = Empty /\ tx'[c].del = Empty
  BY <1>1, <1>3 DEF NoTx, TypeInv
<1>5. PICK x \in Content : x = db
  BY DEF TypeInv
<1>6. PICK e \in Content : e = Empty /\ e.rows = {} /\ e.envs = {}
  BY EmptyContent
<1>7. PICK y \in Content : y = Minus(x, e) /\ y.rows = x.rows /\ y.envs = x.envs
  <2>1. Minus(x, e) \in Content /\ Minus(x, e).rows = x.rows \ e.rows
        /\ Minus(x, e).envs = x.envs \ e.envs
    BY ContentMinus
  <2>2. x.rows \ e.rows = x.rows /\ x.envs \ e.envs = x.envs
    BY <1>6
  <2> QED BY <2>1, <2>2
<1>8. View(c)' = Plus(y, e)
  BY <1>3, <1>6, <1>4, <1>5, <1>7 DEF View, InTx
<1>9. View(c)'.rows = y.rows \cup e.rows /\ View(c)'.envs = y.envs \cup e.envs
  BY <1>8, ContentPlus
<1> QED BY <1>2, <1>3, <1>6, <1>5, <1>7, <1>9 DEF InTx
-----------------------------------------------------------------------------
(* Environments are stored once *)

Unique(envs) == \A e, f \in envs : e.env = f.env => e = f

\* Committed or seen by a transaction, an environment is there once.
UniqueInv == TypeInv /\ Unique(db.envs) /\ \A c \in Clients : InTx(c) => Unique(View(c).envs)

LEMMA UniqueFrame ==
  ASSUME Isolation = "serializable", UniqueInv, TypeInv', NEW c \in Clients, OnlyOf(c),
         Unique(db'.envs), InTx(c)' => Unique(View(c)'.envs)
  PROVE  UniqueInv'
<1>1. ASSUME NEW d \in Clients, InTx(d)' PROVE Unique(View(d)'.envs)
  <2>1. CASE d = c
    BY <1>1, <2>1
  <2>2. CASE d # c
    <3>1. InTx(d) /\ View(d)' = View(d)
      BY <1>1, <2>2, ViewFrame
    <3> QED BY <3>1 DEF UniqueInv
  <2> QED BY <2>1, <2>2
<1> QED BY <1>1 DEF UniqueInv

LEMMA FewerUnique ==
  ASSUME NEW E, NEW F, Unique(E), F \subseteq E
  PROVE  Unique(F)
BY DEF Unique

LEMMA UniqueStep ==
  ASSUME Isolation = "serializable", UniqueInv, [Next]_vars
  PROVE  UniqueInv'
<1>1. TypeInv /\ TypeInv'
  BY TypeStep DEF UniqueInv
<1>2. CASE UNCHANGED vars
  <2>1. \A d \in Clients : View(d)' = View(d) /\ (InTx(d)' <=> InTx(d))
    BY <1>2, ReadView DEF vars
  <2> QED BY <1>1, <1>2, <2>1 DEF UniqueInv, vars
<1>3. ASSUME NEW c \in Clients, BeginAdd(c) PROVE UniqueInv'
  <2>1. Unique(db'.envs) /\ Unique(View(c)'.envs)
    BY <1>1, <1>3, BeginView DEF UniqueInv
  <2> QED BY <1>1, <1>3, <2>1, OnlyMine, UniqueFrame
<1>4. ASSUME NEW c \in Clients, BeginDelete(c) \/ Fail(c) \/ Finish(c) PROVE UniqueInv'
  <2>1. Unique(db'.envs)
    BY <1>4 DEF UniqueInv, BeginDelete, BeginCall, Fail, Finish
  <2>2. ~InTx(c)'
    <3>1. call'[c].op \in {"delete", "none"}
      BY <1>1, <1>4 DEF BeginDelete, BeginCall, Fail, Finish, Return, TypeInv, Idle
    <3> QED BY <3>1 DEF InTx
  <2> QED BY <1>1, <1>4, <2>1, <2>2, OnlyMine, UniqueFrame
<1>5. ASSUME NEW c \in Clients, Commit(c) PROVE UniqueInv'
  <2>1. Unique(db'.envs) /\ ~InTx(c)'
    BY <1>1, <1>5, CommitView DEF UniqueInv
  <2> QED BY <1>1, <1>5, <2>1, OnlyMine, UniqueFrame
<1>6. ASSUME NEW c \in Clients,
             \/ LoadToken(c) \/ LoadManifest(c) \/ ReuseEnv(c) \/ SkipOwners(c)
             \/ CheckOwners(c) \/ CheckNextOwners(c)
      PROVE  UniqueInv'
  <2>1. UNCHANGED <<db, call, tx>>
    BY <1>6 DEF LoadToken, LoadManifest, ReuseEnv, SkipOwners, CheckOwners, CheckNextOwners, Check
  <2>2. Unique(db'.envs) /\ (InTx(c)' => Unique(View(c)'.envs))
    BY <2>1, ReadView DEF UniqueInv
  <2> QED BY <1>1, <1>6, <2>2, OnlyMine, UniqueFrame
<1>7. ASSUME NEW c \in Clients, UNCHANGED call, OnlyOf(c),
             NEW ins \in Content, NEW del \in Content, Write(c, ins, del), ins.envs = {}
      PROVE  UniqueInv'
  <2>1. /\ InTx(c)' <=> InTx(c)
        /\ View(c)'.envs = View(c).envs \ del.envs
        /\ IF InTx(c) THEN UNCHANGED db ELSE db = View(c) /\ db' = View(c)'
    <3>1. View(c)'.envs = (View(c).envs \ del.envs) \cup ins.envs
      BY <1>1, <1>7, WriteView
    <3> QED BY <1>1, <1>7, <3>1, WriteView
  <2>2. Unique(db'.envs) /\ (InTx(c)' => Unique(View(c)'.envs))
    BY <2>1, FewerUnique DEF UniqueInv
  <2> QED BY <1>1, <1>7, <2>2, UniqueFrame
<1>8. ASSUME NEW c \in Clients, InsertRow(c) PROVE UniqueInv'
  <2>1. PICK row \in Rows : row = NewRow(c)
    BY <1>1, <1>8, NewRowType DEF InsertRow
  <2>2. PICK ins \in Content : ins = [Empty EXCEPT !.rows = {row}] /\ ins.envs = {}
    <3>1. {row} \in SUBSET Rows
      BY <2>1
    <3> QED BY <3>1, RowsOnly
  <2>3. Write(c, ins, Empty) /\ UNCHANGED call
    BY <1>8, <2>1, <2>2 DEF InsertRow, NewRow
  <2> QED BY <1>1, <1>7, <1>8, <2>2, <2>3, OnlyMine, EmptyContent
<1>9. ASSUME NEW c \in Clients, DeleteRow(c) PROVE UniqueInv'
  <2>1. PICK gone \in Content :
          gone = [Empty EXCEPT !.rows = {r \in View(c).rows : r.key = Stmt(c).key}]
    <3>1. {r \in View(c).rows : r.key = Stmt(c).key} \subseteq Rows
      BY <1>1, ViewKnown DEF Content
    <3> QED BY <3>1, RowsOnly
  <2>2. Write(c, Empty, gone) /\ UNCHANGED call
    BY <1>9, <2>1 DEF DeleteRow
  <2> QED BY <1>1, <1>7, <1>9, <2>2, OnlyMine, EmptyContent
<1>10. ASSUME NEW c \in Clients, DropEnv(c) PROVE UniqueInv'
  <2>1. PICK gone \in Content :
          gone = [Empty EXCEPT !.envs = {e \in View(c).envs : e.id = Stmt(c).id}]
    <3>1. {e \in View(c).envs : e.id = Stmt(c).id} \subseteq EnvRows
      BY <1>1, ViewKnown DEF Content
    <3> QED BY <3>1, EnvsOnly
  <2>2. Write(c, Empty, gone) /\ UNCHANGED call
    BY <1>10, <2>1 DEF DropEnv
  <2> QED BY <1>1, <1>7, <1>10, <2>2, OnlyMine, EmptyContent
<1>11. ASSUME NEW c \in Clients, InsertEnv(c) PROVE UniqueInv'
  <2>1. PICK e : e = [id |-> nextEnv, env |-> Stmt(c).env]
    OBVIOUS
  <2>2. e \in EnvRows /\ e.env = Stmt(c).env
    BY <1>1, <1>11, <2>1, AtStatement, StatementFields DEF EnvRows, InsertEnv, TypeInv
  <2>3. PICK ins \in Content : ins = [Empty EXCEPT !.envs = {e}] /\ ins.envs = {e}
    BY <2>2, EnvsOnly
  <2>4. Write(c, ins, Empty) /\ UNCHANGED call
    BY <1>11, <2>1, <2>3 DEF InsertEnv
  <2>5. InTx(c)
    <3>1. Stmt(c).do = "findEnv"
      BY <1>1, <1>11, AtStatement DEF InsertEnv
    <3> QED BY <1>1, <1>11, <3>1, AtStatement, StatementFields DEF InsertEnv
  <2>6. UNCHANGED db /\ View(c)'.envs = View(c).envs \cup {e}
    <3>1. View(c)'.envs = (View(c).envs \ Empty.envs) \cup ins.envs
      BY <1>1, <2>3, <2>4, EmptyContent, WriteView
    <3> QED BY <1>1, <2>3, <2>4, <2>5, <3>1, EmptyContent, WriteView
  <2>7. \A f \in View(c).envs : f.env # e.env
    BY <1>11, <2>2 DEF InsertEnv, Found
  <2>8. Unique(View(c)'.envs) /\ Unique(db'.envs)
    BY <2>5, <2>6, <2>7 DEF UniqueInv, Unique
  <2> QED BY <1>1, <1>11, <2>8, OnlyMine, UniqueFrame
<1> QED
  BY <1>2, <1>3, <1>4, <1>5, <1>6, <1>8, <1>9, <1>10, <1>11 DEF Next

\* An environment is stored once: on a serializable DBMS no two adds, of whatever
\* documents and however they overlap with deletes, leave two rows of it.
THEOREM EnvironmentsAreUnique ==
  ASSUME Isolation = "serializable"
  PROVE  Spec => []UniqueEnvs
<1>1. Init => UniqueInv
  <2> SUFFICES ASSUME Init PROVE UniqueInv
    OBVIOUS
  <2>1. db.envs = {} /\ \A c \in Clients : ~InTx(c)
    BY EmptyContent DEF Init, InTx, Idle
  <2> QED BY <2>1, TypeInit DEF UniqueInv, Unique
<1>2. UniqueInv => UniqueEnvs
  BY DEF UniqueInv, Unique, UniqueEnvs
<1> QED BY <1>1, <1>2, UniqueStep, PTL DEF Spec
-----------------------------------------------------------------------------
(* No triple refers to an environment that is gone *)

\* While a delete runs nobody else is in a call, or nothing is deleted but by the
\* adds that replace a document.
Alone == "delete" \notin Ops \/ \A c, d \in Clients : c = d

Refer(rows, envs) == \A r \in rows : r.env # 0 => \E e \in envs : e.id = r.env

\* Before its first environment is bound, a program may still remove rows; after
\* that it only adds.
Early ==
  [do : {"insert"}, key : RowKeys, tbl : AllTables, hasEnv : {FALSE}] \cup Removals \cup Loads \cup Others
Late == Additions(RowKeys) \cup [do : {"commit"}]
Plain(b, s) == \E p \in Seq(Early), q \in Seq(Late) : s = p \o q /\ (b # 0 => p = <<>>)

\* A check of the owners is only ever the next statement,
Phases(c) ==
  \/ Plain(bound[c], prog[c])
  \/ bound[c] = 0 /\ prog[c] # <<>> /\ Head(prog[c]) \in Checks /\ Plain(0, Tail(prog[c]))

\* and the rows that refer to the environment are in tables it has not come to.
Checked(c) ==
  \A r \in View(c).rows :
    r.env # 0 =>
      /\ AtStmt(c, "dropEnv") => r.env # Stmt(c).id
      /\ AtStmt(c, "nextOwners") /\ r.env = Stmt(c).id => r.tbl \in ToSet(Stmt(c).tables)

ReferClient(c) ==
  /\ Phases(c) /\ Checked(c)
  /\ call[c] # Idle => call[c].op \in Ops
  /\ InTx(c) => Refer(View(c).rows, View(c).envs)
  /\ InTx(c) /\ bound[c] # 0 => \E e \in View(c).envs : e.id = bound[c]

ReferInv == TypeInv /\ Refer(db.rows, db.envs) /\ \A c \in Clients : ReferClient(c)

LEMMA KindsApart ==
  /\ \A s \in Early : s.do \in {"insert", "delete", "owners", "loadManifest", "loadToken", "commit"}
  /\ \A s \in Late : s.do \in {"insert", "findEnv", "commit"}
  /\ \A s \in Checks : s.do \in {"nextOwners", "dropEnv"}
<1>1. \A s \in Early : s.do \in {"insert", "delete", "owners", "loadManifest", "loadToken", "commit"}
  BY DEF Early, Removals, Loads, Others
<1>2. \A s \in Late : s.do \in {"insert", "findEnv", "commit"}
  BY DEF Late, Additions
<1>3. \A s \in Checks : s.do \in {"nextOwners", "dropEnv"}
  BY DEF Checks
<1> QED BY <1>1, <1>2, <1>3

LEMMA PlainTail ==
  ASSUME NEW b, NEW s, Plain(b, s), s # <<>>
  PROVE  \/ Head(s) \in Early /\ b = 0 /\ Plain(0, Tail(s))
         \/ Head(s) \in Late /\ \A a : Plain(a, Tail(s))
<1>1. PICK p \in Seq(Early), q \in Seq(Late) : s = p \o q /\ (b # 0 => p = <<>>)
  BY DEF Plain
<1>2. CASE p = <<>>
  <2>1. s = q /\ q # <<>>
    BY <1>1, <1>2
  <2>2. Head(s) \in Late /\ Tail(s) \in Seq(Late)
    BY <2>1
  <2>3. \A a : Plain(a, Tail(s))
    <3>1. <<>> \in Seq(Early) /\ Tail(s) = <<>> \o Tail(s)
      BY <2>2
    <3> QED BY <2>2, <3>1 DEF Plain
  <2> QED BY <2>2, <2>3
<1>3. CASE p # <<>>
  <2>1. Head(p) \in Early /\ Tail(p) \in Seq(Early)
    BY <1>3
  <2>2. Head(s) = Head(p) /\ Tail(s) = Tail(p) \o q
    BY <1>1, <1>3
  <2> QED BY <1>1, <1>3, <2>1, <2>2 DEF Plain
<1> QED BY <1>2, <1>3

LEMMA PlainJoin ==
  ASSUME NEW r \in Seq(Early), NEW s, Plain(0, s)
  PROVE  Plain(0, r \o s)
<1>1. PICK p \in Seq(Early), q \in Seq(Late) : s = p \o q
  BY DEF Plain
<1>2. r \o p \in Seq(Early) /\ r \o s = (r \o p) \o q
  BY <1>1
<1> QED BY <1>2 DEF Plain

LEMMA PlainHead ==
  ASSUME NEW b, NEW s, Plain(b, s), s # <<>>
  PROVE  Head(s).do \notin {"nextOwners", "dropEnv"}
BY PlainTail, KindsApart

LEMMA PlainNothing == \A b : Plain(b, <<>>)
<1>1. <<>> \in Seq(Early) /\ <<>> \in Seq(Late) /\ <<>> = <<>> \o <<>>
  OBVIOUS
<1> QED BY <1>1 DEF Plain

\* A token and what it owns refer to no environment.
WithoutEnv == [do : {"insert"}, key : RowKeys, tbl : AllTables, hasEnv : {FALSE}]

LEMMA TokenWithoutEnv ==
  ASSUME NEW d \in Docs
  PROVE  InsertToken(TokenOf[d]) \in Seq(WithoutEnv)
<1> DEFINE A == WithoutEnv
           n == TokenOf[d]
           p == InsertToken(n)
<1>1. n \in Tokens
  BY RowStoreAssumption
<1>2. \A m : m.key \in RowKeys /\ m.tbl \in AllTables /\ m.env = NoEnv => Insert(m) \in Seq(A)
  <2> SUFFICES ASSUME NEW m, m.key \in RowKeys, m.tbl \in AllTables, m.env = NoEnv
               PROVE  Insert(m) \in Seq(A)
    OBVIOUS
  <2>1. [do |-> "insert", key |-> m.key, tbl |-> m.tbl, hasEnv |-> m.env # NoEnv] \in A
    BY DEF WithoutEnv
  <2> HIDE DEF A
  <2>2. <<[do |-> "insert", key |-> m.key, tbl |-> m.tbl, hasEnv |-> m.env # NoEnv]>> \in Seq(A)
    BY <2>1
  <2> QED BY <2>2 DEF Insert
<1> HIDE DEF A, n
<1>3. Insert(n) \in Seq(A) /\ n.Authority \in Seq(AnyLeaves)
  BY <1>1, <1>2, AnyLeaf DEF Tokens, Reached, AllTables
<1>4. \A i \in DOMAIN n.Authority : Insert(n.Authority[i]) \in Seq(A)
  <2>1. ASSUME NEW i \in DOMAIN n.Authority PROVE n.Authority[i] \in AnyLeaves
    BY <1>3
  <2>2. \A m \in AnyLeaves : m.key \in RowKeys /\ m.tbl \in AllTables /\ m.env = NoEnv
    BY DEF AnyLeaves, LeavesIn
  <2> QED BY <1>2, <2>1, <2>2
<1>5. Each(n.Authority, Insert) \in Seq(A)
  <2> DEFINE ss == [i \in DOMAIN n.Authority |-> Insert(n.Authority[i])]
  <2>1. ss = [i \in DOMAIN n.Authority |-> ss[i]] /\ \A i \in DOMAIN n.Authority : ss[i] \in Seq(A)
    BY <1>4
  <2> HIDE DEF ss
  <2>2. FlattenSeq(ss) \in Seq(A)
    BY <1>3, <2>1, SeqClosed, SliceIn
  <2> QED BY <2>2 DEF Each, ss
<1>6. p \in Seq(A)
  <2>1. PICK u \in Seq(A), v \in Seq(A) : u = Insert(n) /\ v = Each(n.Authority, Insert)
    BY <1>3, <1>5
  <2>2. p = u \o v
    BY <2>1, Zenon DEF InsertToken
  <2> HIDE DEF p
  <2> QED BY <2>2
<1> QED BY <1>6 DEF A, p, n

\* The phases of an add: whatever is replaced is gone before the manifest is inserted.
LEMMA PlainAdd ==
  ASSUME NEW d \in Docs
  PROVE  Plain(0, AddBytes(d))
<1> DEFINE p == InsertToken(TokenOf[d])
           q == InsertManifest(ManifestOf[d])
<1>1. p \in Seq(Early)
  <2>1. WithoutEnv \subseteq Early
    BY DEF Early, WithoutEnv
  <2>2. p \in Seq(WithoutEnv)
    BY TokenWithoutEnv
  <2> HIDE DEF p
  <2> QED BY <2>1, <2>2
<1>2. q \in Seq(Late)
  <2>1. Additions(RowsOf[d]) \subseteq Late
    BY DocumentPrograms DEF Additions, Late
  <2> QED BY <2>1, DocumentPrograms
<1>3. /\ [do |-> "loadToken", id |-> IdOf[d]] \in Early
       /\ [do |-> "loadManifest", id |-> IdOf[d]] \in Early
       /\ [do |-> "commit"] \in Late
  BY DEF Early, Late, Loads, Others, Ids
<1>4. PICK x \in Seq(Early), y \in Seq(Early), z \in Seq(Late) :
         /\ x = <<[do |-> "loadToken", id |-> IdOf[d]]>>
         /\ y = <<[do |-> "loadManifest", id |-> IdOf[d]]>> /\ z = <<[do |-> "commit"]>>
  <2>1. PICK a \in Early, b \in Early, e \in Late :
          /\ a = [do |-> "loadToken", id |-> IdOf[d]]
          /\ b = [do |-> "loadManifest", id |-> IdOf[d]] /\ e = [do |-> "commit"]
    BY <1>3
  <2>2. <<a>> \in Seq(Early) /\ <<b>> \in Seq(Early) /\ <<e>> \in Seq(Late)
    OBVIOUS
  <2> QED BY <2>1, <2>2
<1>5. AddBytes(d) = x \o p \o y \o q \o z
  BY <1>4 DEF AddBytes
<1> HIDE DEF p, q
<1>6. x \o p \o y \in Seq(Early) /\ q \o z \in Seq(Late)
       /\ x \o p \o y \o q \o z = (x \o p \o y) \o (q \o z)
  BY <1>1, <1>2
<1> QED BY <1>5, <1>6 DEF Plain
-----------------------------------------------------------------------------
LEMMA ReferInit == Init => ReferInv
<1> SUFFICES ASSUME Init PROVE ReferInv
  OBVIOUS
<1>1. Refer(db.rows, db.envs)
  BY EmptyContent DEF Init, Refer
<1>2. ASSUME NEW c \in Clients PROVE ReferClient(c)
  <2>1. prog[c] = <<>> /\ call[c] = Idle /\ ~InTx(c)
    BY DEF Init, InTx, Idle
  <2> QED BY <2>1, PlainNothing DEF ReferClient, Phases, Checked, AtStmt
<1> QED BY <1>1, <1>2, TypeInit DEF ReferInv

\* A step of c leaves what the others know alone.
LEMMA ReferFrame ==
  ASSUME Isolation = "serializable", Alone, ReferInv, TypeInv', NEW c \in Clients, OnlyOf(c),
         Refer(db.rows, db.envs)', ReferClient(c)'
  PROVE  ReferInv'
<1>1. ASSUME NEW d \in Clients \ {c} PROVE ReferClient(d)'
  <2>1. ReferClient(d) /\ TypeInv
    BY DEF ReferInv
  <2>2. call'[d] = call[d] /\ prog'[d] = prog[d] /\ bound'[d] = bound[d]
    BY DEF OnlyOf
  <2>3. /\ InTx(d)' <=> InTx(d)
        /\ InTx(d) => View(d)' = View(d)
    BY ViewFrame
  <2>4. Phases(d)' /\ (call'[d] # Idle => call'[d].op \in Ops)
    BY <2>1, <2>2 DEF ReferClient, Phases
  <2>5. CASE InTx(d)
    <3>1. View(d)' = View(d)
      BY <2>3, <2>5
    <3>2. /\ AtStmt(d, "dropEnv")' <=> AtStmt(d, "dropEnv")
          /\ AtStmt(d, "nextOwners")' <=> AtStmt(d, "nextOwners")
          /\ Stmt(d)' = Stmt(d)
      BY <2>2 DEF AtStmt, Stmt
    <3>3. Checked(d)'
      BY <2>1, <3>1, <3>2 DEF ReferClient, Checked
    <3> QED BY <2>1, <2>2, <2>3, <2>4, <2>5, <3>1, <3>3 DEF ReferClient
  <2>6. CASE ~InTx(d)
    <3>1. "delete" \notin Ops
      BY DEF Alone
    <3>2. call[d] = Idle
      <4>1. call[d] \in Calls
        BY <2>1 DEF TypeInv, ClientType
      <4> QED BY <2>1, <2>6, <3>1, <4>1 DEF ReferClient, Calls, InTx
    <3>3. prog'[d] = <<>>
      BY <2>1, <2>2, <3>2 DEF TypeInv, ClientType
    <3>4. Checked(d)'
      BY <3>3 DEF Checked, AtStmt
    <3> QED BY <2>3, <2>4, <2>6, <3>4 DEF ReferClient
  <2> QED BY <2>5, <2>6
<1> QED BY <1>1 DEF ReferInv

\* The phase a statement is of.
LEMMA PhaseTail ==
  ASSUME NEW c \in Clients, Phases(c), NEW w, AtStmt(c, w)
  PROVE  /\ w \in {"delete", "owners", "loadManifest", "loadToken", "nextOwners", "dropEnv"}
              => bound[c] = 0 /\ Plain(0, Tail(prog[c]))
         /\ w = "insert" => Plain(bound[c], Tail(prog[c]))
         /\ w = "findEnv" => \A b : Plain(b, Tail(prog[c]))
<1>1. prog[c] # <<>> /\ Head(prog[c]).do = w
  BY DEF AtStmt
<1>2. CASE Plain(bound[c], prog[c])
  <2>1. \/ Head(prog[c]) \in Early /\ bound[c] = 0 /\ Plain(0, Tail(prog[c]))
        \/ Head(prog[c]) \in Late /\ \A a : Plain(a, Tail(prog[c]))
    BY <1>1, <1>2, PlainTail
  <2> QED BY <1>1, <1>2, <2>1, PlainHead, KindsApart
<1>3. CASE bound[c] = 0 /\ Head(prog[c]) \in Checks /\ Plain(0, Tail(prog[c]))
  BY <1>1, <1>3, KindsApart
<1> QED BY <1>2, <1>3 DEF Phases

LEMMA ReferView ==
  ASSUME ReferInv, NEW c \in Clients
  PROVE  Refer(View(c).rows, View(c).envs)
BY DEF ReferInv, ReferClient, View

\* A step that reads and leaves a program without a check at its head.
LEMMA ReferRead ==
  ASSUME Isolation = "serializable", Alone, ReferInv, TypeInv', NEW c \in Clients, OnlyOf(c),
         UNCHANGED <<db, call, tx>>, Plain(bound'[c], prog'[c]),
         InTx(c) /\ bound'[c] # 0 => \E e \in View(c).envs : e.id = bound'[c]
  PROVE  ReferInv'
<1>1. View(c)' = View(c) /\ (InTx(c)' <=> InTx(c))
  BY ReadView
<1>2. Phases(c)' /\ Checked(c)'
  <2>1. ~AtStmt(c, "dropEnv")' /\ ~AtStmt(c, "nextOwners")'
    BY PlainHead DEF AtStmt
  <2> QED BY <2>1 DEF Phases, Checked
<1>3. Refer(db.rows, db.envs)' /\ ReferClient(c)
  BY DEF ReferInv
<1>4. ReferClient(c)'
  BY <1>1, <1>2, <1>3 DEF ReferClient
<1> QED BY <1>3, <1>4, ReferFrame

\* A step that writes what refers to nothing that is gone.
LEMMA ReferWrite ==
  ASSUME Isolation = "serializable", Alone, ReferInv, TypeInv', NEW c \in Clients, OnlyOf(c),
         UNCHANGED call, NEW ins \in Content, NEW del \in Content, Write(c, ins, del),
         Plain(bound'[c], prog'[c]),
         Refer((View(c).rows \ del.rows) \cup ins.rows, (View(c).envs \ del.envs) \cup ins.envs),
         InTx(c) /\ bound'[c] # 0 =>
           \E e \in (View(c).envs \ del.envs) \cup ins.envs : e.id = bound'[c]
  PROVE  ReferInv'
<1>1. /\ InTx(c)' <=> InTx(c)
      /\ View(c)'.rows = (View(c).rows \ del.rows) \cup ins.rows
      /\ View(c)'.envs = (View(c).envs \ del.envs) \cup ins.envs
      /\ IF InTx(c) THEN UNCHANGED db ELSE db = View(c) /\ db' = View(c)'
  BY WriteView DEF ReferInv
<1>2. Phases(c)' /\ Checked(c)'
  <2>1. ~AtStmt(c, "dropEnv")' /\ ~AtStmt(c, "nextOwners")'
    BY PlainHead DEF AtStmt
  <2> QED BY <2>1 DEF Phases, Checked
<1>3. Refer(View(c).rows, View(c).envs)'
  BY <1>1
<1>4. Refer(db.rows, db.envs)'
  BY <1>1, <1>3 DEF ReferInv
<1>5. ReferClient(c)
  BY DEF ReferInv
<1>6. ReferClient(c)'
  BY <1>1, <1>2, <1>3, <1>5 DEF ReferClient
<1> QED BY <1>4, <1>6, ReferFrame

\* The programs of the steps that take one statement off.
LEMMA NextStatement ==
  ASSUME TypeInv, NEW c \in Clients, Then(c, <<>>), prog[c] # <<>>
  PROVE  prog'[c] = Tail(prog[c])
<1>1. prog'[c] = <<>> \o Tail(prog[c]) /\ prog[c] \in Seq(Statements(AddedKeys))
  BY DEF Then, TypeInv, ClientType
<1> QED BY <1>1
-----------------------------------------------------------------------------
LEMMA BeginRefers ==
  ASSUME Isolation = "serializable", Alone, ReferInv, TypeInv', NEW c \in Clients,
         BeginAdd(c) \/ BeginDelete(c)
  PROVE  ReferInv'
<1>1. OnlyOf(c) /\ TypeInv /\ call[c] = Idle /\ UNCHANGED <<db, bound>> /\ bound[c] = 0
  BY OnlyMine DEF ReferInv, BeginAdd, BeginDelete, BeginCall, TypeInv, ClientType
<1>2. Refer(db.rows, db.envs)'
  BY <1>1 DEF ReferInv
<1>3. Plain(bound'[c], prog'[c]) /\ call'[c].op \in Ops
  <2>1. CASE BeginAdd(c)
    BY <1>1, <2>1, PlainAdd DEF BeginAdd, BeginCall, TypeInv
  <2>2. CASE BeginDelete(c)
    <3>1. PICK i \in Ids : BeginCall(c, "delete", i, <<[do |-> "loadManifest", id |-> i]>>)
      BY <2>2 DEF BeginDelete
    <3>2. prog'[c] = <<[do |-> "loadManifest", id |-> i]>> /\ call'[c].op \in Ops
      BY <1>1, <3>1 DEF BeginCall, TypeInv
    <3>3. PICK s \in Early : s = [do |-> "loadManifest", id |-> i]
      BY DEF Early, Loads
    <3>4. <<s>> \in Seq(Early) /\ <<s>> \o <<>> = <<s>>
      OBVIOUS
    <3>5. Plain(0, <<s>>)
      BY <3>4, PlainNothing, PlainJoin
    <3> QED BY <1>1, <3>2, <3>3, <3>5
  <2> QED BY <2>1, <2>2
<1>4. Phases(c)' /\ Checked(c)'
  <2>1. ~AtStmt(c, "dropEnv")' /\ ~AtStmt(c, "nextOwners")'
    BY <1>3, PlainHead DEF AtStmt
  <2> QED BY <1>3, <2>1 DEF Phases, Checked
<1>5. InTx(c)' => Refer(View(c).rows, View(c).envs)'
  <2>1. InTx(c)' => BeginAdd(c)
    BY <1>1 DEF BeginDelete, BeginCall, InTx, TypeInv
  <2> QED BY <1>1, <2>1, BeginView DEF ReferInv
<1>6. ReferClient(c)'
  BY <1>1, <1>3, <1>4, <1>5 DEF ReferClient
<1> QED BY <1>1, <1>2, <1>6, ReferFrame

LEMMA EndRefers ==
  ASSUME Isolation = "serializable", Alone, ReferInv, TypeInv', NEW c \in Clients,
         Fail(c) \/ Finish(c) \/ Commit(c)
  PROVE  ReferInv'
<1>1. TypeInv /\ OnlyOf(c)
  BY OnlyMine DEF ReferInv
<1>2. call'[c] = Idle /\ prog'[c] = <<>>
  BY <1>1 DEF Fail, Finish, Commit, Return, TypeInv
<1>3. Refer(db.rows, db.envs)'
  <2>1. CASE Commit(c)
    BY <1>1, <2>1, CommitView, ReferView
  <2>2. CASE UNCHANGED db
    BY <2>2 DEF ReferInv
  <2> QED BY <2>1, <2>2 DEF Fail, Finish
<1>4. Phases(c)' /\ Checked(c)'
  BY <1>2, PlainNothing DEF Phases, Checked, AtStmt
<1>5. ~InTx(c)'
  BY <1>2 DEF InTx, Idle
<1>6. ReferClient(c)'
  BY <1>2, <1>4, <1>5 DEF ReferClient
<1> QED BY <1>1, <1>3, <1>6, ReferFrame

LEMMA ReadRefers ==
  ASSUME Isolation = "serializable", Alone, ReferInv, TypeInv', NEW c \in Clients,
         LoadToken(c) \/ LoadManifest(c) \/ SkipOwners(c) \/ ReuseEnv(c)
  PROVE  ReferInv'
<1>1. OnlyOf(c) /\ TypeInv /\ Phases(c)
  BY OnlyMine DEF ReferInv, ReferClient
<1>2. UNCHANGED <<db, call, tx>>
  BY DEF LoadToken, LoadManifest, SkipOwners, ReuseEnv
<1>3. ASSUME NEW w \in {"loadToken", "loadManifest", "owners"}, AtStmt(c, w), UNCHANGED bound,
             NEW p \in Seq(Removals), Then(c, p)
      PROVE  ReferInv'
  <2>1. bound[c] = 0 /\ Plain(0, Tail(prog[c]))
    BY <1>1, <1>3, PhaseTail
  <2>2. p \in Seq(Early)
    <3>1. Removals \subseteq Early
      BY DEF Early
    <3> QED BY <3>1
  <2>3. prog'[c] = p \o Tail(prog[c])
    BY <1>1, <1>3 DEF Then, TypeInv
  <2>4. Plain(bound'[c], prog'[c]) /\ bound'[c] = 0
    BY <1>3, <2>1, <2>2, <2>3, PlainJoin
  <2> QED BY <1>1, <1>2, <2>4, ReferRead
<1>4. <<>> \in Seq(Removals)
  OBVIOUS
<1>5. CASE LoadToken(c)
  <2>1. \/ Then(c, <<>>)
        \/ \E d \in Docs : Then(c, DeleteToken(SelectToken(TokenOf[d])))
    BY <1>5 DEF LoadToken, Existing
  <2>2. \E p : Then(c, p) /\ p \in Seq(Removals)
    BY <1>4, <2>1, DocumentPrograms
  <2> QED BY <1>3, <1>5, <2>2 DEF LoadToken
<1>6. CASE LoadManifest(c)
  <2>1. \/ Then(c, <<>>)
        \/ \E d \in Docs : \E keys : Then(c, DeleteManifest(SelectManifest(ManifestOf[d], keys)))
    BY <1>6 DEF LoadManifest, Existing
  <2>2. \E p : Then(c, p) /\ p \in Seq(Removals)
    BY <1>4, <2>1, DocumentPrograms
  <2> QED BY <1>3, <1>6, <2>2 DEF LoadManifest
<1>7. CASE SkipOwners(c)
  BY <1>3, <1>4, <1>7 DEF SkipOwners
<1>8. CASE ReuseEnv(c)
  <2>1. AtStmt(c, "findEnv") /\ Then(c, <<>>)
        /\ \E e \in View(c).envs : bound' = [bound EXCEPT ![c] = e.id]
    BY <1>8 DEF ReuseEnv, Found
  <2>2. Plain(bound'[c], Tail(prog[c]))
    BY <1>1, <2>1, PhaseTail
  <2>3. prog'[c] = Tail(prog[c])
    BY <1>1, <2>1, NextStatement DEF AtStmt
  <2>4. \E e \in View(c).envs : e.id = bound'[c]
    BY <1>1, <2>1 DEF TypeInv
  <2> QED BY <1>1, <1>2, <2>2, <2>3, <2>4, ReferRead
<1> QED BY <1>5, <1>6, <1>7, <1>8

\* getOwnerIDs on one table after the other: those that are done have no owner.
LEMMA CheckRefers ==
  ASSUME Isolation = "serializable", Alone, ReferInv, TypeInv', NEW c \in Clients,
         NEW id \in Nat, NEW tables \in Seq(OwnerTable) \ {<<>>}, Check(c, id, tables), OnlyOf(c),
         prog[c] # <<>>, bound[c] = 0, Plain(0, Tail(prog[c])),
         \A r \in View(c).rows : r.env # 0 /\ r.env = id => r.tbl \in ToSet(tables)
  PROVE  ReferInv'
<1>1. UNCHANGED <<db, call, bound, held, tx>> /\ TypeInv
  BY DEF Check, ReferInv
<1>2. View(c)' = View(c) /\ (InTx(c)' <=> InTx(c))
  BY <1>1, ReadView
<1>3. CASE Then(c, <<>>)
  <2>1. prog'[c] = Tail(prog[c])
    BY <1>1, <1>3, NextStatement
  <2> QED BY <1>1, <2>1, ReferRead
<1>4. ASSUME NEW s \in Checks, Then(c, <<s>>),
             \A r \in View(c).rows :
               r.env # 0 => /\ s.do = "dropEnv" => r.env # s.id
                            /\ s.do = "nextOwners" /\ r.env = s.id => r.tbl \in ToSet(s.tables)
      PROVE  ReferInv'
  <2>1. prog'[c] = <<s>> \o Tail(prog[c]) /\ Tail(prog[c]) \in Seq(Statements(AddedKeys))
    BY <1>1, <1>4 DEF Then, TypeInv, ClientType
  <2>2. prog'[c] # <<>> /\ Head(prog'[c]) = s /\ Tail(prog'[c]) = Tail(prog[c])
    BY <2>1
  <2>3. Phases(c)'
    BY <1>1, <1>4, <2>2 DEF Phases
  <2>4. Stmt(c)' = s /\ (AtStmt(c, "dropEnv")' <=> s.do = "dropEnv")
        /\ (AtStmt(c, "nextOwners")' <=> s.do = "nextOwners")
    BY <2>2 DEF Stmt, AtStmt
  <2>5. Checked(c)'
    BY <1>2, <1>4, <2>4 DEF Checked
  <2>6. ReferClient(c) /\ Refer(db.rows, db.envs)'
    BY <1>1 DEF ReferInv
  <2>7. ReferClient(c)'
    BY <1>1, <1>2, <2>3, <2>5, <2>6 DEF ReferClient
  <2> QED BY <2>6, <2>7, ReferFrame
<1>5. Head(tables) \in OwnerTable /\ Len(tables) \in Nat \ {0}
      /\ ToSet(tables) \subseteq {Head(tables)} \cup ToSet(Tail(tables))
      /\ (Len(tables) = 1 => ToSet(tables) = {Head(tables)})
  <2>1. Head(tables) = tables[1] /\ \A i \in 1..Len(tables) : i = 1 \/ tables[i] = Tail(tables)[i-1]
    OBVIOUS
  <2>2. \A i \in 1..Len(tables) : i # 1 => i - 1 \in DOMAIN Tail(tables)
    OBVIOUS
  <2>3. DOMAIN tables = 1..Len(tables) /\ Len(tables) \in Nat \ {0}
    OBVIOUS
  <2>4. \A i \in 1..Len(tables) : tables[i] \in {Head(tables)} \cup ToSet(Tail(tables))
    BY <2>1, <2>2 DEF ToSet
  <2>5. Len(tables) = 1 => \A i \in DOMAIN tables : i = 1
    BY <2>3
  <2>6. 1 \in DOMAIN tables
    BY <2>3
  <2> QED BY <2>1, <2>3, <2>4, <2>5, <2>6 DEF ToSet
<1>6. CASE ~OwnedIn(c, id, Head(tables)) /\ Len(tables) = 1
           /\ Then(c, <<[do |-> "dropEnv", id |-> id]>>)
  <2>1. PICK s \in Checks : s = [do |-> "dropEnv", id |-> id]
    BY DEF Checks
  <2>2. \A r \in View(c).rows : r.env # 0 => r.env # id
    BY <1>5, <1>6 DEF OwnedIn
  <2> QED BY <1>4, <1>6, <2>1, <2>2
<1>7. CASE ~OwnedIn(c, id, Head(tables)) /\ Len(tables) # 1
           /\ Then(c, <<[do |-> "nextOwners", id |-> id, tables |-> Tail(tables)]>>)
  <2>1. Tail(tables) \in Seq(OwnerTable) \ {<<>>}
    <3>1. Len(tables) \in Nat \ {0, 1}
      BY <1>7
    <3>2. Tail(tables) \in Seq(OwnerTable) /\ Len(Tail(tables)) = Len(tables) - 1
      BY <3>1
    <3>3. Len(Tail(tables)) # 0
      BY <3>1, <3>2
    <3> QED BY <3>2, <3>3
  <2>2. PICK s \in Checks : s = [do |-> "nextOwners", id |-> id, tables |-> Tail(tables)]
    BY <2>1 DEF Checks
  <2>3. \A r \in View(c).rows : r.env # 0 /\ r.env = id => r.tbl \in ToSet(Tail(tables))
    BY <1>5, <1>7 DEF OwnedIn
  <2> QED BY <1>4, <1>7, <2>2, <2>3
<1> QED BY <1>3, <1>6, <1>7 DEF Check

LEMMA ChecksRefer ==
  ASSUME Isolation = "serializable", Alone, ReferInv, TypeInv', NEW c \in Clients,
         CheckOwners(c) \/ CheckNextOwners(c)
  PROVE  ReferInv'
<1>1. OnlyOf(c) /\ TypeInv /\ Phases(c) /\ Checked(c)
  BY OnlyMine DEF ReferInv, ReferClient
<1>2. CASE CheckOwners(c)
  <2>1. PICK id \in HeldBy(c) : Check(c, id, environmentOwners)
    BY <1>2 DEF CheckOwners
  <2>2. id \in Nat
    BY <1>1 DEF HeldBy, TypeInv, ClientType, InMemory
  <2>3. prog[c] # <<>> /\ bound[c] = 0 /\ Plain(0, Tail(prog[c]))
    BY <1>1, <1>2, PhaseTail DEF CheckOwners, AtStmt
  <2>4. \A r \in View(c).rows : r.env # 0 => r.tbl \in ToSet(environmentOwners)
    BY <1>1, ViewKnown DEF Content, Rows, OwnerTable
  <2> QED BY <1>1, <2>1, <2>2, <2>3, <2>4, OwnersSequence, CheckRefers
<1>3. CASE CheckNextOwners(c)
  <2>1. PICK id, tables : id = Stmt(c).id /\ tables = Stmt(c).tables
    OBVIOUS
  <2>2. AtStmt(c, "nextOwners") /\ Check(c, id, tables)
    BY <1>3, <2>1 DEF CheckNextOwners
  <2>3. id \in Nat /\ tables \in Seq(OwnerTable) \ {<<>>}
    BY <1>1, <2>1, <2>2, AtStatement, StatementFields
  <2>4. prog[c] # <<>> /\ bound[c] = 0 /\ Plain(0, Tail(prog[c]))
    BY <1>1, <2>2, PhaseTail DEF AtStmt
  <2>5. \A r \in View(c).rows : r.env # 0 /\ r.env = id => r.tbl \in ToSet(tables)
    BY <1>1, <2>1, <2>2 DEF Checked
  <2> QED BY <1>1, <2>2, <2>3, <2>4, <2>5, CheckRefers
<1> QED BY <1>2, <1>3
-----------------------------------------------------------------------------
LEMMA WriteRefers ==
  ASSUME Isolation = "serializable", Alone, ReferInv, TypeInv', NEW c \in Clients,
         InsertRow(c) \/ DeleteRow(c) \/ InsertEnv(c) \/ DropEnv(c)
  PROVE  ReferInv'
<1>1. OnlyOf(c) /\ TypeInv /\ Phases(c) /\ Checked(c) /\ ReferClient(c)
  BY OnlyMine DEF ReferInv, ReferClient
<1>2. Refer(View(c).rows, View(c).envs) /\ View(c) \in Content
  BY <1>1, ReferView, ViewKnown
<1>3. UNCHANGED call /\ Then(c, <<>>) /\ prog[c] # <<>>
  BY DEF InsertRow, DeleteRow, InsertEnv, DropEnv, AtStmt
<1>4. prog'[c] = Tail(prog[c])
  BY <1>1, <1>3, NextStatement
<1>5. PICK none \in Content : none = Empty /\ none.rows = {} /\ none.envs = {}
  BY EmptyContent
<1>6. CASE InsertRow(c)
  <2>1. PICK row \in Rows : row = NewRow(c) /\ row.env = (IF Stmt(c).hasEnv THEN bound[c] ELSE 0)
    BY <1>1, <1>6, NewRowType DEF InsertRow
  <2>2. PICK ins \in Content :
          ins = [Empty EXCEPT !.rows = {row}] /\ ins.rows = {row} /\ ins.envs = {}
    <3>1. {row} \in SUBSET Rows
      BY <2>1
    <3> QED BY <3>1, RowsOnly
  <2>3. Write(c, ins, none) /\ UNCHANGED bound /\ AtStmt(c, "insert")
    BY <1>5, <1>6, <2>1, <2>2 DEF InsertRow, NewRow
  <2>4. Plain(bound'[c], prog'[c])
    BY <1>1, <1>4, <2>3, PhaseTail
  <2>5. InTx(c)
    <3>1. Stmt(c).do = "insert"
      BY <1>1, <2>3, AtStatement
    <3> QED BY <1>1, <2>3, <3>1, AtStatement, StatementFields
  <2>6. bound[c] # 0 => \E e \in View(c).envs : e.id = bound[c]
    BY <1>1, <2>5 DEF ReferClient
  <2>7. row.env # 0 => \E e \in View(c).envs : e.id = row.env
    BY <2>1, <2>6
  <2>8. Refer((View(c).rows \ none.rows) \cup ins.rows, (View(c).envs \ none.envs) \cup ins.envs)
    BY <1>2, <1>5, <2>2, <2>7 DEF Refer
  <2>9. bound'[c] # 0 => \E e \in (View(c).envs \ none.envs) \cup ins.envs : e.id = bound'[c]
    BY <1>5, <2>3, <2>6
  <2> QED BY <1>1, <1>3, <2>3, <2>4, <2>8, <2>9, ReferWrite
<1>7. CASE DeleteRow(c)
  <2>1. PICK gone \in Content :
          gone = [Empty EXCEPT !.rows = {r \in View(c).rows : r.key = Stmt(c).key}] /\ gone.envs = {}
    <3>1. {r \in View(c).rows : r.key = Stmt(c).key} \subseteq Rows
      BY <1>2 DEF Content
    <3> QED BY <3>1, RowsOnly
  <2>2. Write(c, none, gone) /\ UNCHANGED bound /\ AtStmt(c, "delete")
    BY <1>5, <1>7, <2>1 DEF DeleteRow
  <2>3. bound'[c] = 0 /\ Plain(bound'[c], prog'[c])
    BY <1>1, <1>4, <2>2, PhaseTail
  <2>4. Refer((View(c).rows \ gone.rows) \cup none.rows, (View(c).envs \ gone.envs) \cup none.envs)
    BY <1>2, <1>5, <2>1 DEF Refer
  <2> QED BY <1>1, <1>3, <2>2, <2>3, <2>4, ReferWrite
<1>8. CASE InsertEnv(c)
  <2>1. PICK e : e = [id |-> nextEnv, env |-> Stmt(c).env]
    OBVIOUS
  <2>2. e \in EnvRows /\ e.id = nextEnv
    BY <1>1, <1>8, <2>1, AtStatement, StatementFields DEF EnvRows, InsertEnv, TypeInv
  <2>3. PICK ins \in Content :
          ins = [Empty EXCEPT !.envs = {e}] /\ ins.envs = {e} /\ ins.rows = {}
    <3>1. {e} \in SUBSET EnvRows
      BY <2>2
    <3> QED BY <3>1, EnvsOnly
  <2>4. Write(c, ins, none) /\ bound'[c] = nextEnv /\ AtStmt(c, "findEnv")
    BY <1>1, <1>5, <1>8, <2>1, <2>3 DEF InsertEnv, TypeInv
  <2>5. Plain(bound'[c], prog'[c])
    BY <1>1, <1>4, <2>4, PhaseTail
  <2>6. Refer((View(c).rows \ none.rows) \cup ins.rows, (View(c).envs \ none.envs) \cup ins.envs)
    BY <1>2, <1>5, <2>3 DEF Refer
  <2>7. \E f \in (View(c).envs \ none.envs) \cup ins.envs : f.id = bound'[c]
    BY <2>2, <2>3, <2>4
  <2> QED BY <1>1, <1>3, <2>4, <2>5, <2>6, <2>7, ReferWrite
<1>9. CASE DropEnv(c)
  <2>1. PICK gone \in Content :
          /\ gone = [Empty EXCEPT !.envs = {e \in View(c).envs : e.id = Stmt(c).id}]
          /\ gone.rows = {} /\ gone.envs = {e \in View(c).envs : e.id = Stmt(c).id}
    <3>1. {e \in View(c).envs : e.id = Stmt(c).id} \subseteq EnvRows
      BY <1>2 DEF Content
    <3> QED BY <3>1, EnvsOnly
  <2>2. Write(c, none, gone) /\ UNCHANGED bound /\ AtStmt(c, "dropEnv")
    BY <1>5, <1>9, <2>1 DEF DropEnv
  <2>3. bound'[c] = 0 /\ Plain(bound'[c], prog'[c])
    BY <1>1, <1>4, <2>2, PhaseTail
  <2>4. \A r \in View(c).rows : r.env # 0 => r.env # Stmt(c).id
    BY <1>1, <2>2 DEF Checked
  <2>5. Refer((View(c).rows \ gone.rows) \cup none.rows, (View(c).envs \ gone.envs) \cup none.envs)
    BY <1>2, <1>5, <2>1, <2>4 DEF Refer
  <2> QED BY <1>1, <1>3, <2>2, <2>3, <2>5, ReferWrite
<1> QED BY <1>6, <1>7, <1>8, <1>9

LEMMA ReferStep ==
  ASSUME Isolation = "serializable", Alone, ReferInv, [Next]_vars
  PROVE  ReferInv'
<1>1. TypeInv'
  BY TypeStep DEF ReferInv
<1>2. CASE UNCHANGED vars
  <2>1. \A d \in Clients : View(d)' = View(d) /\ (InTx(d)' <=> InTx(d))
    BY <1>2, ReadView DEF vars
  <2>2. ASSUME NEW d \in Clients PROVE ReferClient(d)'
    <3>1. ReferClient(d) /\ UNCHANGED <<call, prog, bound>>
      BY <1>2 DEF ReferInv, vars
    <3>2. Phases(d)'
      BY <3>1 DEF ReferClient, Phases
    <3>3. Checked(d)'
      BY <2>1, <3>1 DEF ReferClient, Checked, AtStmt, Stmt
    <3> QED BY <2>1, <3>1, <3>2, <3>3 DEF ReferClient
  <2> QED BY <1>1, <1>2, <2>2 DEF ReferInv, vars
<1> QED
  BY <1>1, <1>2, BeginRefers, EndRefers, ReadRefers, ChecksRefer, WriteRefers DEF Next

\* The environment a triple refers to is never dropped: on a serializable DBMS, for
\* documents of any shape, when no add overlaps a delete outside of a transaction
\* (rows_env_race shows what happens when one does).
THEOREM EnvironmentsStay ==
  ASSUME Isolation = "serializable", "delete" \notin Ops \/ \A c, d \in Clients : c = d
  PROVE  Spec => []NoDanglingEnv
<1>1. Alone
  BY DEF Alone
<1>2. ReferInv => NoDanglingEnv
  BY DEF ReferInv, Refer, NoDanglingEnv
<1>3. ReferInv /\ [Next]_vars => ReferInv'
  BY <1>1, ReferStep
<1> QED BY <1>2, <1>3, ReferInit, PTL DEF Spec
-----------------------------------------------------------------------------
(* What a program has left, from one statement to the next *)

LEMMA HeadTail ==
  ASSUME NEW S, NEW p \in Seq(S), p # <<>>
  PROVE  /\ Head(p) \in S /\ Tail(p) \in Seq(S) /\ Head(p) = p[1] /\ 1 \in DOMAIN p
         /\ \A i \in DOMAIN Tail(p) :
              i \in Nat /\ 1 <= i /\ i + 1 \in DOMAIN p /\ Tail(p)[i] = p[i+1]
         /\ \A i \in DOMAIN p :
              i \in Nat /\ 1 <= i /\ (i # 1 => i - 1 \in DOMAIN Tail(p) /\ Tail(p)[i-1] = p[i])
         /\ ToSet(p) = {Head(p)} \cup ToSet(Tail(p))
<1>1. /\ Head(p) \in S /\ Tail(p) \in Seq(S) /\ Head(p) = p[1] /\ DOMAIN p = 1..Len(p)
      /\ Len(p) \in Nat \ {0} /\ DOMAIN Tail(p) = 1..(Len(p) - 1)
      /\ \A i \in 1..(Len(p) - 1) : Tail(p)[i] = p[i+1]
  OBVIOUS
<1>2. \A i \in DOMAIN Tail(p) :
        i \in Nat /\ 1 <= i /\ i + 1 \in DOMAIN p /\ Tail(p)[i] = p[i+1]
  BY <1>1
<1>3. ASSUME NEW i \in DOMAIN p
      PROVE  i \in Nat /\ 1 <= i /\ (i # 1 => i - 1 \in DOMAIN Tail(p) /\ Tail(p)[i-1] = p[i])
  <2>1. i \in Nat /\ 1 <= i
    BY <1>1
  <2>2. i # 1 => i - 1 \in 1..(Len(p) - 1) /\ (i - 1) + 1 = i
    BY <1>1
  <2> QED BY <1>1, <2>1, <2>2
<1>4. 1 \in DOMAIN p
  BY <1>1
<1>5. ToSet(p) = {Head(p)} \cup ToSet(Tail(p))
  <2>1. ASSUME NEW i \in DOMAIN p PROVE p[i] \in {Head(p)} \cup ToSet(Tail(p))
    <3>1. CASE i = 1
      BY <1>1, <3>1
    <3>2. CASE i # 1
      <4>1. i - 1 \in DOMAIN Tail(p) /\ Tail(p)[i-1] = p[i]
        BY <1>3, <3>2
      <4> QED BY <4>1, Zenon DEF ToSet
    <3> QED BY <3>1, <3>2
  <2>2. Head(p) \in ToSet(p)
    BY <1>1, <1>4 DEF ToSet
  <2>3. ToSet(Tail(p)) \subseteq ToSet(p)
    BY <1>2 DEF ToSet
  <2>4. ToSet(p) \subseteq {Head(p)} \cup ToSet(Tail(p))
    BY <2>1 DEF ToSet
  <2> QED BY <2>2, <2>3, <2>4
<1> QED BY <1>1, <1>2, <1>3, <1>4, <1>5

LEMMA DoesTail ==
  ASSUME NEW S, NEW p \in Seq(S), p # <<>>, NEW w, NEW k
  PROVE  /\ \A i : Does(Tail(p), i, w, k) => i \in Nat /\ i + 1 \in Nat /\ Does(p, i + 1, w, k)
         /\ \A i : Does(p, i, w, k) =>
              /\ i \in Nat /\ 1 <= i
              /\ i = 1 => Head(p).do = w /\ Head(p).key = k
              /\ i # 1 => i - 1 \in Nat /\ Does(Tail(p), i - 1, w, k)
<1>1. /\ Head(p) = p[1]
      /\ \A i \in DOMAIN Tail(p) :
              i \in Nat /\ 1 <= i /\ i + 1 \in DOMAIN p /\ Tail(p)[i] = p[i+1]
      /\ \A i \in DOMAIN p :
              i \in Nat /\ 1 <= i /\ (i # 1 => i - 1 \in DOMAIN Tail(p) /\ Tail(p)[i-1] = p[i])
  BY HeadTail
<1>2. ASSUME NEW i, Does(Tail(p), i, w, k) PROVE i \in Nat /\ i + 1 \in Nat /\ Does(p, i + 1, w, k)
  BY <1>1, <1>2 DEF Does
<1>3. ASSUME NEW i, Does(p, i, w, k)
      PROVE  /\ i \in Nat /\ 1 <= i
             /\ i = 1 => Head(p).do = w /\ Head(p).key = k
             /\ i # 1 => i - 1 \in Nat /\ Does(Tail(p), i - 1, w, k)
  BY <1>1, <1>3 DEF Does
<1> QED BY <1>2, <1>3

\* The rows a program inserts and deletes, of its first statement and the others.
OfTail(p) ==
  /\ Inserted(p) = (IF Head(p).do = "insert" THEN {Head(p).key} ELSE {}) \cup Inserted(Tail(p))
  /\ Deleted(p) = (IF Head(p).do = "delete" THEN {Head(p).key} ELSE {}) \cup Deleted(Tail(p))

LEMMA RowsOfTail ==
  ASSUME NEW S, NEW p \in Seq(S), p # <<>>
  PROVE  OfTail(p)
<1>1. ToSet(p) = {Head(p)} \cup ToSet(Tail(p))
  BY HeadTail
<1> QED BY <1>1 DEF OfTail, Inserted, Deleted
-----------------------------------------------------------------------------
(* The rows of a document, and the lines along which they are found *)

AddRows(d) == Inserted(AddBytes(d))

\* The statements of an add that has loaded nothing to delete.
AddStatements == Additions(RowKeys) \cup Loads \cup Others

LEMMA AddShape ==
  ASSUME NEW d \in Docs
  PROVE  \E p, q, x, y, z \in Seq(AddStatements) :
           /\ AddBytes(d) = x \o p \o y \o q \o z
           /\ p = InsertToken(TokenOf[d]) /\ p \in Seq(Additions(TokenRowsOf[d]))
           /\ q = InsertManifest(ManifestOf[d]) /\ q \in Seq(Additions(RowsOf[d]))
           /\ x = <<[do |-> "loadToken", id |-> IdOf[d]]>>
           /\ y = <<[do |-> "loadManifest", id |-> IdOf[d]]>> /\ z = <<[do |-> "commit"]>>
<1> DEFINE K == AddStatements
           p == InsertToken(TokenOf[d])
           q == InsertManifest(ManifestOf[d])
           x == <<[do |-> "loadToken", id |-> IdOf[d]]>>
           y == <<[do |-> "loadManifest", id |-> IdOf[d]]>>
           z == <<[do |-> "commit"]>>
<1>1. /\ p \in Seq(Additions(TokenRowsOf[d])) /\ q \in Seq(Additions(RowsOf[d]))
      /\ RowsOf[d] \subseteq RowKeys /\ TokenRowsOf[d] \subseteq RowKeys
  BY DocumentPrograms
<1>2. Additions(RowsOf[d]) \subseteq K /\ Additions(TokenRowsOf[d]) \subseteq K
  BY <1>1 DEF Additions, AddStatements
<1>3. p \in Seq(K) /\ q \in Seq(K)
  BY <1>1, <1>2
<1>4. /\ [do |-> "loadToken", id |-> IdOf[d]] \in K
      /\ [do |-> "loadManifest", id |-> IdOf[d]] \in K
      /\ [do |-> "commit"] \in K
  BY DEF Ids, AddStatements, Loads, Others
<1> HIDE DEF K
<1>5. x \in Seq(K) /\ y \in Seq(K) /\ z \in Seq(K)
  <2>1. \A s \in K : <<s>> \in Seq(K)
    OBVIOUS
  <2> QED BY <1>4, <2>1
<1>6. AddBytes(d) = x \o p \o y \o q \o z
  BY DEF AddBytes
<1> HIDE DEF p, q, x, y, z
<1>7. \E u, v, r, s, t \in Seq(K) : u = p /\ v = q /\ r = x /\ s = y /\ t = z
  BY <1>3, <1>5
<1> QED BY <1>1, <1>3, <1>5, <1>6 DEF p, q, x, y, z, K

\* What the parts of an add insert.
LEMMA DocRows ==
  ASSUME NEW d \in Docs
  PROVE  /\ AddRows(d) = TokenRowsOf[d] \cup RowsOf[d] /\ TokenRowsOf[d] \cap RowsOf[d] = {}
         /\ InsertsOnce(InsertManifest(ManifestOf[d]))
         /\ Inserted(InsertManifest(ManifestOf[d])) = RowsOf[d] /\ RowsOf[d] \subseteq RowKeys
         /\ AddRows(d) \subseteq RowKeys /\ Deleted(AddBytes(d)) = {}
<1>1. PICK p, q, x, y, z \in Seq(AddStatements) :
           /\ AddBytes(d) = x \o p \o y \o q \o z
           /\ p = InsertToken(TokenOf[d]) /\ p \in Seq(Additions(TokenRowsOf[d]))
           /\ q = InsertManifest(ManifestOf[d]) /\ q \in Seq(Additions(RowsOf[d]))
           /\ x = <<[do |-> "loadToken", id |-> IdOf[d]]>>
           /\ y = <<[do |-> "loadManifest", id |-> IdOf[d]]>> /\ z = <<[do |-> "commit"]>>
  BY AddShape
<1>2. /\ Inserted(p) = TokenRowsOf[d] /\ Inserted(q) = RowsOf[d]
      /\ RowsOf[d] \subseteq RowKeys /\ TokenRowsOf[d] \subseteq RowKeys
  BY <1>1, DocumentPrograms DEF RowsOf, TokenRowsOf
<1>3. /\ ToSet(x) = {[do |-> "loadToken", id |-> IdOf[d]]}
      /\ ToSet(y) = {[do |-> "loadManifest", id |-> IdOf[d]]} /\ ToSet(z) = {[do |-> "commit"]}
  BY <1>1, OneStatement
<1>4. /\ Inserted(x) = {} /\ Inserted(y) = {} /\ Inserted(z) = {}
  BY <1>3 DEF Inserted
<1>6. PICK a \in Seq(AddStatements) : a = x \o p /\ Joined(x, p, a)
  BY JoinedJoin
<1>7. PICK b \in Seq(AddStatements) : b = a \o y /\ Joined(a, y, b)
  BY JoinedJoin
<1>8. PICK e \in Seq(AddStatements) : e = b \o q /\ Joined(b, q, e)
  BY JoinedJoin
<1>9. PICK f \in Seq(AddStatements) : f = e \o z /\ Joined(e, z, f)
  BY JoinedJoin
<1>10. AddBytes(d) = f
  BY <1>1, <1>6, <1>7, <1>8, <1>9, Zenon
<1>11. Inserted(a) = TokenRowsOf[d] /\ Inserted(b) = TokenRowsOf[d]
  BY <1>2, <1>4, <1>6, <1>7 DEF Joined
<1>12. Inserted(e) = TokenRowsOf[d] \cup RowsOf[d] /\ Inserted(f) = TokenRowsOf[d] \cup RowsOf[d]
  BY <1>2, <1>4, <1>8, <1>9, <1>11 DEF Joined
<1>13. InsertsOnce(f)
  BY <1>10, KeyAssumption
<1>14. InsertsOnce(q) /\ TokenRowsOf[d] \cap RowsOf[d] = {}
  BY <1>2, <1>8, <1>9, <1>11, <1>13 DEF Joined
<1>15. Deleted(f) = {}
  <2>1. \A s \in AddStatements : s.do # "delete"
    BY DEF AddStatements, Additions, Loads, Others
  <2>2. ToSet(f) \subseteq AddStatements
    BY <1>9 DEF ToSet
  <2> QED BY <2>1, <2>2 DEF Deleted
<1>16. AddRows(d) = TokenRowsOf[d] \cup RowsOf[d] /\ Deleted(AddBytes(d)) = {}
  BY <1>10, <1>12, <1>15 DEF AddRows
<1>17. InsertsOnce(InsertManifest(ManifestOf[d])) /\ Inserted(InsertManifest(ManifestOf[d])) = RowsOf[d]
  BY <1>1, <1>2, <1>14, Zenon
<1> QED BY <1>2, <1>14, <1>16, <1>17

LEMMA DocsApart ==
  ASSUME NEW d \in Docs, NEW e \in Docs, d # e
  PROVE  AddRows(d) \cap AddRows(e) = {}
BY KeyAssumption DEF AddRows

LEMMA DocKeys ==
  ASSUME NEW d \in Docs
  PROVE  ManifestOf[d].key \in RowsOf[d] /\ TokenOf[d].key \in TokenRowsOf[d]
<1>1. PICK m \in Manifests, t \in Tokens : m = ManifestOf[d] /\ t = TokenOf[d]
  BY RowStoreAssumption
<1>2. HasRow(m) /\ HasRow(t)
  BY DEF HasRow, Manifests, Tokens, Reached, AllTables
<1>3. m.key \in Inserted(InsertManifest(m))
  <2>1. PICK B, a : RootedIn(m, B, a)
    BY ManifestRooted
  <2>2. Inserted(Insert(m)) = {m.key}
    BY <1>2, InsertFacts
  <2> QED BY <2>1, <2>2 DEF RootedIn, Joined
<1>4. t.key \in Inserted(InsertToken(t))
  <2>1. Insert(t) \in Seq(Additions(RowKeys)) /\ Inserted(Insert(t)) = {t.key}
    BY <1>2, InsertFacts
  <2>2. Each(t.Authority, Insert) \in Seq(Additions(RowKeys))
    <3>1. t.Authority \in Seq(AnyLeaves)
      BY AnyLeaf DEF Tokens
    <3> QED BY <3>1, AdditionsAdd, EachInserted
  <2>3. PICK r : r = Insert(t) \o Each(t.Authority, Insert)
                 /\ Joined(Insert(t), Each(t.Authority, Insert), r)
    BY <2>1, <2>2, JoinedJoin
  <2>4. InsertToken(t) = r
    BY <2>3, Zenon DEF InsertToken
  <2>5. t.key \in Inserted(r)
    BY <2>1, <2>3 DEF Joined
  <2> QED BY <2>4, <2>5, Zenon
<1> QED BY <1>1, <1>3, <1>4 DEF RowsOf, TokenRowsOf

LEMMA RowsApart ==
  ASSUME NEW d \in Docs, NEW e \in Docs, d # e
  PROVE  /\ RowsOf[d] \cap AddRows(e) = {} /\ TokenRowsOf[d] \cap AddRows(e) = {}
         /\ AddRows(d) \cap RowsOf[e] = {} /\ RowsOf[d] \cap RowsOf[e] = {}
BY DocsApart, DocRows
-----------------------------------------------------------------------------
\* The lines of a document: what a delete removes of the rows that are there.
LinesOf(d) ==
  CHOOSE S : /\ Along(S, RowsOf[d])
             /\ \A K \in SUBSET RowKeys :
                  Sweeps(ManifestGone(ManifestOf[d])[K], S, WithEnv(InsertManifest(ManifestOf[d])), K)

LEMMA DocLines ==
  ASSUME NEW d \in Docs
  PROVE  /\ Along(LinesOf(d), RowsOf[d])
         /\ \A K \in SUBSET RowKeys :
              Sweeps(ManifestGone(ManifestOf[d])[K], LinesOf(d), WithEnv(InsertManifest(ManifestOf[d])), K)
<1>1. PICK m \in Manifests : m = ManifestOf[d]
  BY RowStoreAssumption
<1>2. InsertsOnce(InsertManifest(m)) /\ Inserted(InsertManifest(m)) = RowsOf[d]
  BY <1>1, DocRows
<1>3. Tidy(ManifestGone(m), RowsOf[d], WithEnv(InsertManifest(m)))
  BY <1>2, ManifestUndone DEF Undoes
<1>4. \E S : /\ Along(S, RowsOf[d])
             /\ \A K \in SUBSET RowKeys : Sweeps(ManifestGone(m)[K], S, WithEnv(InsertManifest(m)), K)
  BY <1>3 DEF Tidy
<1> QED BY <1>1, <1>4, Zenon DEF LinesOf

\* What DeleteManifest removes of a document when the rows K are there.
Unloaded(d, K) == DeleteManifest(SelectManifest(ManifestOf[d], K))

LEMMA UnloadedLines ==
  ASSUME NEW d \in Docs, NEW K \in SUBSET RowKeys
  PROVE  /\ ManifestOf[d].key \in K =>
              /\ Unloaded(d, K) \in Seq(Removals)
              /\ Deleted(Unloaded(d, K)) = RowsIn(Standing(LinesOf(d), K))
              /\ UpTheLines(Unloaded(d, K), Standing(LinesOf(d), K))
              /\ LooksAfter(Unloaded(d, K), WithEnv(InsertManifest(ManifestOf[d])))
         /\ ManifestOf[d].key \notin K => RowsIn(Standing(LinesOf(d), K)) = {}
<1>1. PICK m : m = ManifestOf[d]
  OBVIOUS
<1>2. Sweeps(ManifestGone(m)[K], LinesOf(d), WithEnv(InsertManifest(m)), K)
  BY <1>1, DocLines
<1>3. ASSUME m.key \in K PROVE ManifestGone(m)[K] = Unloaded(d, K)
  BY <1>1, <1>3 DEF ManifestGone, Unloaded
<1>4. ASSUME m.key \notin K PROVE ManifestGone(m)[K] = <<>>
  BY <1>4 DEF ManifestGone
<1>5. Deleted(<<>>) = {}
  BY DEF Deleted, ToSet
<1>6. ASSUME m.key \in K
      PROVE  Sweeps(Unloaded(d, K), LinesOf(d), WithEnv(InsertManifest(m)), K)
  BY <1>2, <1>3, <1>6, Zenon
<1>7. ASSUME m.key \notin K
      PROVE  Sweeps(<<>>, LinesOf(d), WithEnv(InsertManifest(m)), K)
  BY <1>2, <1>4, <1>7, Zenon
<1> QED BY <1>1, <1>5, <1>6, <1>7 DEF Sweeps
-----------------------------------------------------------------------------
\* The rows above a row that is there are there,
UpTo(K, d) == \A s \in LinesOf(d) : s.row \in K => s.over \subseteq K

\* and what the program p deletes of the document d keeps it so.
Rowed(d, K) == {s \in LinesOf(d) : s.row \in K}
Tidied(p, K, d) == UpTo(K, d) /\ UpTheLines(p, Rowed(d, K))

LEMMA FewerLines ==
  ASSUME NEW p, NEW S, UpTheLines(p, S), NEW T \in SUBSET S
  PROVE  UpTheLines(p, T)
BY DEF UpTheLines

LEMMA NoLines ==
  ASSUME NEW p, NEW S, \A s \in S : s.over \cap Deleted(p) = {}
  PROVE  UpTheLines(p, S)
BY DeletedDoes DEF UpTheLines

LEMMA SameRows ==
  ASSUME NEW p, NEW d \in Docs, NEW K, NEW L, K \cap RowsOf[d] = L \cap RowsOf[d], Tidied(p, K, d)
  PROVE  Tidied(p, L, d)
<1>1. Along(LinesOf(d), RowsOf[d])
  BY DocLines
<1>2. Rowed(d, L) = Rowed(d, K)
  BY <1>1 DEF Rowed, Along
<1>3. UpTo(L, d)
  BY <1>1 DEF Tidied, UpTo, Along
<1> QED BY <1>2, <1>3 DEF Tidied

LEMMA TidiedTail ==
  ASSUME NEW S, NEW p \in Seq(S), p # <<>>, NEW K, NEW d, Tidied(p, K, d), Head(p).do # "delete"
  PROVE  Tidied(Tail(p), K, d)
<1>1. ASSUME NEW s \in Rowed(d, K), NEW a \in s.over, NEW i, Does(Tail(p), i, "delete", a)
      PROVE  \E j \in Nat : j < i /\ Does(Tail(p), j, "delete", s.row)
  <2>1. i \in Nat /\ i + 1 \in Nat /\ Does(p, i + 1, "delete", a)
    BY <1>1, DoesTail
  <2>2. PICK j \in Nat : j < i + 1 /\ Does(p, j, "delete", s.row)
    BY <2>1 DEF Tidied, UpTheLines
  <2>3. j - 1 \in Nat /\ Does(Tail(p), j - 1, "delete", s.row)
    BY <2>2, DoesTail
  <2>4. j - 1 < i
    BY <2>1, <2>2
  <2> QED BY <2>3, <2>4
<1> QED BY <1>1 DEF Tidied, UpTheLines

LEMMA TidiedDelete ==
  ASSUME NEW S, NEW p \in Seq(S), p # <<>>, NEW K, NEW d, Tidied(p, K, d),
         Head(p).do = "delete", NEW k, Head(p).key = k
  PROVE  Tidied(Tail(p), K \ {k}, d)
<1>1. Does(p, 1, "delete", k)
  BY HeadTail DEF Does
<1>2. ASSUME NEW s \in LinesOf(d), s.row \in K \ {k} PROVE s.over \subseteq K \ {k}
  <2>1. s \in Rowed(d, K) /\ s.over \subseteq K
    BY <1>2 DEF Rowed, Tidied, UpTo
  <2>2. ASSUME k \in s.over PROVE FALSE
    <3>1. PICK j \in Nat : j < 1 /\ Does(p, j, "delete", s.row)
      BY <1>1, <2>1, <2>2 DEF Tidied, UpTheLines
    <3>2. 1 <= j
      BY <3>1, DoesTail
    <3> QED BY <3>1, <3>2
  <2> QED BY <2>1, <2>2
<1>3. ASSUME NEW s \in Rowed(d, K \ {k}), NEW a \in s.over, NEW i, Does(Tail(p), i, "delete", a)
      PROVE  \E j \in Nat : j < i /\ Does(Tail(p), j, "delete", s.row)
  <2>1. i \in Nat /\ i + 1 \in Nat /\ Does(p, i + 1, "delete", a)
    BY <1>3, DoesTail
  <2>2. PICK j \in Nat : j < i + 1 /\ Does(p, j, "delete", s.row)
    BY <2>1 DEF Tidied, UpTheLines, Rowed
  <2>3. s.row # k
    BY DEF Rowed
  <2>4. j - 1 \in Nat /\ Does(Tail(p), j - 1, "delete", s.row)
    BY <2>2, <2>3, DoesTail
  <2>5. j - 1 < i
    BY <2>1, <2>2
  <2> QED BY <2>4, <2>5
<1>4. UpTo(K \ {k}, d)
  BY <1>2 DEF UpTo
<1> QED BY <1>3, <1>4 DEF Tidied, UpTheLines

\* Deletes of a document before a program that deletes nothing,
LEMMA TidiedBefore ==
  ASSUME NEW S, NEW r \in Seq(S), NEW q \in Seq(S), Deleted(q) = {},
         NEW K, NEW d, UpTo(K, d), UpTheLines(r, Rowed(d, K))
  PROVE  Tidied(r \o q, K, d)
<1>1. ASSUME NEW s \in Rowed(d, K), NEW a \in s.over, NEW i, Does(r \o q, i, "delete", a)
      PROVE  \E j \in Nat : j < i /\ Does(r \o q, j, "delete", s.row)
  <2>1. \A j : ~Does(q, j, "delete", a)
    BY DeletedDoes
  <2>2. Does(r, i, "delete", a)
    BY <1>1, <2>1, DoesJoin
  <2>3. PICK j \in Nat : j < i /\ Does(r, j, "delete", s.row)
    BY <2>2 DEF UpTheLines
  <2>4. Does(r \o q, j, "delete", s.row)
    BY <2>3, DoesJoin
  <2> QED BY <2>3, <2>4
<1> QED BY <1>1 DEF Tidied, UpTheLines

\* and what deletes nothing before one that does.
LEMMA TidiedAfter ==
  ASSUME NEW S, NEW r \in Seq(S), NEW q \in Seq(S), Deleted(r) = {},
         NEW K, NEW d, Tidied(q, K, d)
  PROVE  Tidied(r \o q, K, d)
<1>1. ASSUME NEW s \in Rowed(d, K), NEW a \in s.over, NEW i, Does(r \o q, i, "delete", a)
      PROVE  \E j \in Nat : j < i /\ Does(r \o q, j, "delete", s.row)
  <2>1. \A j : ~Does(r, j, "delete", a)
    BY DeletedDoes
  <2>2. i - Len(r) \in Nat /\ Does(q, i - Len(r), "delete", a)
    BY <1>1, <2>1, DoesJoin
  <2>3. PICK m \in Nat : m = i - Len(r) /\ Does(q, m, "delete", a)
    BY <2>2
  <2>4. PICK j \in Nat : j < m /\ Does(q, j, "delete", s.row)
    BY <2>3 DEF Tidied, UpTheLines
  <2>5. Len(r) + j \in Nat /\ Does(r \o q, Len(r) + j, "delete", s.row)
    BY <2>4, DoesJoin
  <2>6. i \in Nat /\ Len(r) \in Nat
    <3>1. r \o q \in Seq(S)
      OBVIOUS
    <3>2. i \in Nat
      BY <1>1, <3>1, NumbersOf
    <3> QED BY <3>2
  <2>7. Len(r) + j < i
    BY <2>3, <2>4, <2>6
  <2> QED BY <2>5, <2>7
<1> QED BY <1>1 DEF Tidied, UpTheLines
-----------------------------------------------------------------------------
(* The order in which a call does its parts *)

\* What may come before what: an add of the document e looks for the older token
\* and the older manifest before it inserts its own, deletes only what it has found
\* last, and looks at the owners of no environment before it has loaded the triples.
Pair(x, y, e) ==
  /\ y.do = "loadToken" => x.do # "insert"
  /\ y.do = "loadManifest" /\ x.do = "insert" => x.key \notin RowsOf[e]
  /\ y.do = "delete" => x.do \notin {"loadToken", "loadManifest"}
  /\ y.do \in {"owners", "nextOwners", "dropEnv"} => x.do # "loadManifest"
  /\ x.do # "commit"
Ordered(p, e) == \A i, j \in DOMAIN p : i < j => Pair(p[i], p[j], e)

LEMMA OrderedTail ==
  ASSUME NEW S, NEW p \in Seq(S), p # <<>>, NEW e, Ordered(p, e)
  PROVE  Ordered(Tail(p), e) /\ \A y \in ToSet(Tail(p)) : Pair(Head(p), y, e)
<1>1. /\ Head(p) = p[1] /\ 1 \in DOMAIN p
      /\ \A i \in DOMAIN Tail(p) :
              i \in Nat /\ 1 <= i /\ i + 1 \in DOMAIN p /\ Tail(p)[i] = p[i+1]
  BY HeadTail
<1>2. ASSUME NEW i \in DOMAIN Tail(p), NEW j \in DOMAIN Tail(p), i < j
      PROVE  Pair(Tail(p)[i], Tail(p)[j], e)
  <2>1. i + 1 < j + 1
    BY <1>1, <1>2
  <2>2. Pair(p[i+1], p[j+1], e)
    BY <1>1, <2>1 DEF Ordered
  <2> QED BY <1>1, <2>2
<1>3. ASSUME NEW i \in DOMAIN Tail(p) PROVE Pair(Head(p), Tail(p)[i], e)
  <2>1. 1 < i + 1
    BY <1>1
  <2>2. Pair(p[1], p[i+1], e)
    BY <1>1, <2>1 DEF Ordered
  <2> QED BY <1>1, <2>2
<1> QED BY <1>2, <1>3 DEF Ordered, ToSet

LEMMA OrderedJoin ==
  ASSUME NEW S, NEW p \in Seq(S), NEW q \in Seq(S), NEW e, Ordered(p, e), Ordered(q, e),
         \A x \in ToSet(p) : \A y \in ToSet(q) : Pair(x, y, e)
  PROVE  Ordered(p \o q, e)
<1>1. /\ DOMAIN (p \o q) = 1..(Len(p) + Len(q)) /\ DOMAIN p = 1..Len(p) /\ DOMAIN q = 1..Len(q)
      /\ Len(p) \in Nat /\ Len(q) \in Nat
  OBVIOUS
<1>2. \A i \in 1..Len(p) : (p \o q)[i] = p[i]
  OBVIOUS
<1>3. \A i \in 1..Len(q) : (p \o q)[Len(p) + i] = q[i]
  OBVIOUS
<1>4. ASSUME NEW i \in 1..(Len(p) + Len(q)), i \notin 1..Len(p)
      PROVE  i - Len(p) \in 1..Len(q) /\ (p \o q)[i] = q[i - Len(p)]
  <2>1. i - Len(p) \in 1..Len(q) /\ Len(p) + (i - Len(p)) = i
    BY <1>1, <1>4
  <2> QED BY <1>3, <2>1
<1>5. ASSUME NEW i \in 1..(Len(p) + Len(q)), NEW j \in 1..(Len(p) + Len(q)), i < j
      PROVE  Pair((p \o q)[i], (p \o q)[j], e)
  <2>1. CASE j \in 1..Len(p)
    <3>1. i \in 1..Len(p)
      BY <1>1, <1>5, <2>1
    <3> QED BY <1>1, <1>2, <1>5, <2>1, <3>1 DEF Ordered
  <2>2. CASE i \in 1..Len(p) /\ j \notin 1..Len(p)
    <3>1. p[i] \in ToSet(p) /\ q[j - Len(p)] \in ToSet(q)
      BY <1>1, <1>4, <2>2 DEF ToSet
    <3> QED BY <1>2, <1>4, <2>2, <3>1
  <2>3. CASE i \notin 1..Len(p) /\ j \notin 1..Len(p)
    <3>1. i - Len(p) < j - Len(p)
      BY <1>1, <1>5
    <3>2. i - Len(p) \in DOMAIN q /\ j - Len(p) \in DOMAIN q
      BY <1>1, <1>4, <2>3
    <3>3. Pair(q[i - Len(p)], q[j - Len(p)], e)
      BY <3>1, <3>2 DEF Ordered
    <3> QED BY <1>4, <2>3, <3>3
  <2> QED BY <2>1, <2>2, <2>3
<1> QED BY <1>1, <1>5 DEF Ordered

LEMMA OrderedOne ==
  ASSUME NEW s, NEW e
  PROVE  Ordered(<<s>>, e)
BY DEF Ordered

LEMMA OrderedAll ==
  ASSUME NEW S, NEW p \in Seq(S), NEW e, \A x, y \in S : Pair(x, y, e)
  PROVE  Ordered(p, e)
BY DEF Ordered

LEMMA OrderedAdd ==
  ASSUME NEW d \in Docs
  PROVE  Ordered(AddBytes(d), d)
<1>1. PICK p, q, x, y, z \in Seq(AddStatements) :
           /\ AddBytes(d) = x \o p \o y \o q \o z
           /\ p = InsertToken(TokenOf[d]) /\ p \in Seq(Additions(TokenRowsOf[d]))
           /\ q = InsertManifest(ManifestOf[d]) /\ q \in Seq(Additions(RowsOf[d]))
           /\ x = <<[do |-> "loadToken", id |-> IdOf[d]]>>
           /\ y = <<[do |-> "loadManifest", id |-> IdOf[d]]>> /\ z = <<[do |-> "commit"]>>
  BY AddShape
<1>2. /\ ToSet(x) = {[do |-> "loadToken", id |-> IdOf[d]]}
      /\ ToSet(y) = {[do |-> "loadManifest", id |-> IdOf[d]]} /\ ToSet(z) = {[do |-> "commit"]}
      /\ ToSet(p) \subseteq Additions(TokenRowsOf[d]) /\ ToSet(q) \subseteq Additions(RowsOf[d])
  <2>1. ToSet(p) \subseteq Additions(TokenRowsOf[d]) /\ ToSet(q) \subseteq Additions(RowsOf[d])
    BY <1>1 DEF ToSet
  <2> QED BY <1>1, <2>1, OneStatement
<1>3. /\ \A K : \A s \in Additions(K) : s.do \in {"insert", "findEnv"} /\ (s.do = "insert" => s.key \in K)
      /\ TokenRowsOf[d] \cap RowsOf[d] = {}
  BY DocRows DEF Additions
<1>4. ASSUME NEW s, NEW t, s.do # "commit", t.do \in {"insert", "findEnv", "commit"}
      PROVE  Pair(s, t, d)
  BY <1>4 DEF Pair
<1>5. Ordered(x, d) /\ Ordered(y, d) /\ Ordered(z, d)
  BY <1>1, OrderedOne
<1>6. Ordered(p, d) /\ Ordered(q, d)
  <2>1. ASSUME NEW K, NEW u \in Seq(Additions(K)) PROVE Ordered(u, d)
    <3>1. \A s, t \in Additions(K) : Pair(s, t, d)
      BY <1>3, <1>4
    <3> QED BY <3>1, OrderedAll
  <2> QED BY <1>1, <2>1
<1>12. \A s \in ToSet(x) \cup ToSet(p) \cup ToSet(y) \cup ToSet(q) : s.do # "commit"
  <2>1. /\ \A s \in ToSet(x) : s.do # "commit"
        /\ \A s \in ToSet(y) : s.do # "commit"
    BY <1>2
  <2>2. /\ \A s \in ToSet(p) : s.do # "commit"
        /\ \A s \in ToSet(q) : s.do # "commit"
    BY <1>2, <1>3
  <2> QED BY <2>1, <2>2
<1>7. PICK a \in Seq(AddStatements) : /\ a = x \o p /\ Ordered(a, d)
                                      /\ ToSet(a) = ToSet(x) \cup ToSet(p)
  <2>1. x \o p \in Seq(AddStatements) /\ ToSet(x \o p) = ToSet(x) \cup ToSet(p)
    BY ToSetJoin
  <2>2. Ordered(x \o p, d)
    <3>1. \A s \in ToSet(x) : \A t \in ToSet(p) : Pair(s, t, d)
      BY <1>2, <1>3, <1>4
    <3> QED BY <1>5, <1>6, <3>1, OrderedJoin
  <2> QED BY <2>1, <2>2, Zenon
<1>8. PICK b \in Seq(AddStatements) : /\ b = a \o y /\ Ordered(b, d)
                                      /\ ToSet(b) = ToSet(a) \cup ToSet(y)
  <2>1. a \o y \in Seq(AddStatements) /\ ToSet(a \o y) = ToSet(a) \cup ToSet(y)
    BY ToSetJoin
  <2>2. Ordered(a \o y, d)
    <3>1. \A s \in ToSet(x) : s.do = "loadToken"
      BY <1>2
    <3>2. \A s \in ToSet(p) : s.do \in {"insert", "findEnv"} /\ (s.do = "insert" => s.key \notin RowsOf[d])
      BY <1>2, <1>3
    <3>3. \A s \in ToSet(a) : s.do \in {"loadToken", "insert", "findEnv"} /\ (s.do = "insert" => s.key \notin RowsOf[d])
      BY <1>7, <3>1, <3>2
    <3>4. \A t \in ToSet(y) : t.do = "loadManifest"
      BY <1>2
    <3>5. \A s \in ToSet(a) : \A t \in ToSet(y) : Pair(s, t, d)
      BY <3>3, <3>4 DEF Pair
    <3> QED BY <1>5, <1>7, <3>5, OrderedJoin
  <2> QED BY <2>1, <2>2, Zenon
<1>9. PICK g \in Seq(AddStatements) : /\ g = b \o q /\ Ordered(g, d)
                                      /\ ToSet(g) = ToSet(b) \cup ToSet(q)
  <2>1. b \o q \in Seq(AddStatements) /\ ToSet(b \o q) = ToSet(b) \cup ToSet(q)
    BY ToSetJoin
  <2>2. Ordered(b \o q, d)
    <3>1. \A s \in ToSet(b) : s.do # "commit"
      BY <1>12, <1>7, <1>8
    <3>2. \A t \in ToSet(q) : t.do \in {"insert", "findEnv", "commit"}
      BY <1>2, <1>3
    <3>3. \A s \in ToSet(b) : \A t \in ToSet(q) : Pair(s, t, d)
      BY <3>1, <3>2, <1>4
    <3> QED BY <1>6, <1>8, <3>3, OrderedJoin
  <2> QED BY <2>1, <2>2, Zenon
<1>10. Ordered(g \o z, d)
  <2>1. \A s \in ToSet(g) : s.do # "commit"
    BY <1>12, <1>7, <1>8, <1>9
  <2>2. \A t \in ToSet(z) : t.do \in {"insert", "findEnv", "commit"}
    BY <1>2
  <2>3. \A s \in ToSet(g) : \A t \in ToSet(z) : Pair(s, t, d)
    BY <2>1, <2>2, <1>4
  <2> QED BY <1>5, <1>9, <2>3, OrderedJoin
<1>11. AddBytes(d) = g \o z
  BY <1>1, <1>7, <1>8, <1>9, Zenon
<1> QED BY <1>10, <1>11, Zenon
-----------------------------------------------------------------------------
Pending(p, w) == \E s \in ToSet(p) : s.do = w

\* An add of the document e that began with the rows W, sees the rows V, and has
\* the statements p left.
Adding(V, W, p, e) ==
  /\ V \subseteq W \cup AddRows(e) /\ W \cap AddRows(e) = {}
  /\ Inserted(p) \subseteq AddRows(e) /\ Deleted(p) \cap AddRows(e) = {}
  /\ RowsOf[e] \subseteq V \cup Inserted(p)
  /\ Pending(p, "loadToken") => V \cap AddRows(e) = {}
  /\ Pending(p, "loadManifest") => V \cap RowsOf[e] = {}

\* A call that sees the rows V and has the statements p left; A are the rows of all
\* documents added.
Runs(A, V, W, p, e, in) ==
  /\ Deleted(p) \subseteq A
  /\ Ordered(p, e)
  /\ \A d \in Docs : (in => d # e) => Tidied(p, V, d)
  /\ in => e \in Docs /\ Adding(V, W, p, e)

LEMMA PendingTail ==
  ASSUME NEW S, NEW p \in Seq(S), p # <<>>, NEW w, Pending(Tail(p), w)
  PROVE  Pending(p, w)
BY HeadTail DEF Pending

LEMMA RunsSkip ==
  ASSUME NEW S, NEW p \in Seq(S), p # <<>>, Head(p).do \notin {"insert", "delete"},
         NEW A, NEW V, NEW W, NEW e, NEW in, Runs(A, V, W, p, e, in)
  PROVE  Runs(A, V, W, Tail(p), e, in)
<1>1. Inserted(Tail(p)) = Inserted(p) /\ Deleted(Tail(p)) = Deleted(p)
  BY RowsOfTail DEF OfTail
<1>2. Ordered(Tail(p), e)
  BY OrderedTail DEF Runs
<1>3. \A d \in Docs : (in => d # e) => Tidied(Tail(p), V, d)
  BY TidiedTail DEF Runs
<1>4. ASSUME in PROVE Adding(V, W, Tail(p), e)
  <2>1. /\ Pending(Tail(p), "loadToken") => Pending(p, "loadToken")
        /\ Pending(Tail(p), "loadManifest") => Pending(p, "loadManifest")
    BY PendingTail
  <2> QED BY <1>1, <1>4, <2>1 DEF Runs, Adding
<1> QED BY <1>1, <1>2, <1>3, <1>4 DEF Runs

LEMMA RunsInsert ==
  ASSUME NEW S, NEW p \in Seq(S), p # <<>>, Head(p).do = "insert", NEW k, Head(p).key = k,
         NEW A, NEW V, NEW W, NEW e, NEW in, in, Runs(A, V, W, p, e, in)
  PROVE  Runs(A, V \cup {k}, W, Tail(p), e, in)
<1>1. Inserted(p) = {k} \cup Inserted(Tail(p)) /\ Deleted(Tail(p)) = Deleted(p)
  BY RowsOfTail DEF OfTail
<1>2. Ordered(Tail(p), e) /\ \A y \in ToSet(Tail(p)) : Pair(Head(p), y, e)
  BY OrderedTail DEF Runs
<1>3. e \in Docs /\ Adding(V, W, p, e) /\ k \in AddRows(e)
  BY <1>1 DEF Runs, Adding
<1>4. ASSUME NEW d \in Docs, d # e PROVE Tidied(Tail(p), V \cup {k}, d)
  <2>1. Tidied(Tail(p), V, d)
    BY <1>4, TidiedTail DEF Runs
  <2>2. k \notin RowsOf[d]
    BY <1>3, <1>4, RowsApart
  <2>3. V \cap RowsOf[d] = (V \cup {k}) \cap RowsOf[d]
    BY <2>2
  <2> QED BY <2>1, <2>3, SameRows
<1>5. Adding(V \cup {k}, W, Tail(p), e)
  <2>1. ~Pending(Tail(p), "loadToken")
    BY <1>2 DEF Pending, Pair
  <2>2. Pending(Tail(p), "loadManifest") => Pending(p, "loadManifest") /\ k \notin RowsOf[e]
    BY <1>2, PendingTail DEF Pending, Pair
  <2> QED BY <1>1, <1>3, <2>1, <2>2 DEF Adding
<1> QED BY <1>1, <1>2, <1>3, <1>4, <1>5 DEF Runs

LEMMA RunsDelete ==
  ASSUME NEW S, NEW p \in Seq(S), p # <<>>, Head(p).do = "delete", NEW k, Head(p).key = k,
         NEW A, NEW V, NEW W, NEW e, NEW in, Runs(A, V, W, p, e, in)
  PROVE  Runs(A, V \ {k}, W, Tail(p), e, in)
<1>1. Inserted(Tail(p)) = Inserted(p) /\ Deleted(p) = {k} \cup Deleted(Tail(p))
  BY RowsOfTail DEF OfTail
<1>2. Ordered(Tail(p), e)
  BY OrderedTail DEF Runs
<1>3. \A d \in Docs : (in => d # e) => Tidied(Tail(p), V \ {k}, d)
  BY TidiedDelete DEF Runs
<1>4. ASSUME in PROVE Adding(V \ {k}, W, Tail(p), e)
  <2>1. /\ Pending(Tail(p), "loadToken") => Pending(p, "loadToken")
        /\ Pending(Tail(p), "loadManifest") => Pending(p, "loadManifest")
    BY PendingTail
  <2>2. Adding(V, W, p, e) /\ k \notin AddRows(e) /\ RowsOf[e] \subseteq AddRows(e)
    BY <1>1, <1>4, DocRows DEF Runs, Adding
  <2> QED BY <1>1, <2>1, <2>2 DEF Adding
<1> QED BY <1>1, <1>2, <1>3, <1>4 DEF Runs

\* What deletes comes before what is left of a program that deletes nothing else.
LEMMA RunsBefore ==
  ASSUME NEW S, NEW p \in Seq(S), NEW r \in Seq(S), r \in Seq(Removals) \/ r \in Seq(Checks),
         NEW A, NEW V, NEW W, NEW e, NEW in, Runs(A, V, W, p, e, in),
         Deleted(r) \subseteq A, in => Deleted(r) \cap AddRows(e) = {},
         \A d \in Docs : (in => d # e) => Tidied(r \o p, V, d)
  PROVE  Runs(A, V, W, r \o p, e, in)
<1>1. \A s \in ToSet(r) : s.do \in {"delete", "owners", "nextOwners", "dropEnv"}
  <2>1. \A s \in Removals \cup Checks : s.do \in {"delete", "owners", "nextOwners", "dropEnv"}
    BY DEF Removals, Checks
  <2>2. ToSet(r) \subseteq Removals \cup Checks
    BY DEF ToSet
  <2> QED BY <2>1, <2>2
<1>2. PICK q : q = r \o p /\ ToSet(q) = ToSet(r) \cup ToSet(p)
  BY ToSetJoin
<1>3. Inserted(q) = Inserted(p) /\ Deleted(q) = Deleted(r) \cup Deleted(p)
  BY <1>1, <1>2 DEF Inserted, Deleted
<1>4. Pending(q, "loadToken") => Pending(p, "loadToken")
  BY <1>1, <1>2 DEF Pending
<1>5. Pending(q, "loadManifest") => Pending(p, "loadManifest")
  BY <1>1, <1>2 DEF Pending
<1>6. Ordered(q, e)
  <2>1. \A x \in ToSet(r) : \A y : Pair(x, y, e)
    BY <1>1 DEF Pair
  <2>2. Ordered(r, e)
    <3>1. \A i \in DOMAIN r : r[i] \in ToSet(r)
      BY DEF ToSet
    <3> QED BY <2>1, <3>1 DEF Ordered
  <2>3. Ordered(p, e)
    BY DEF Runs
  <2> QED BY <1>2, <2>1, <2>2, <2>3, OrderedJoin
<1>7. \A d \in Docs : (in => d # e) => Tidied(q, V, d)
  BY <1>2
<1>8. ASSUME in PROVE e \in Docs /\ Adding(V, W, q, e)
  BY <1>3, <1>4, <1>5, <1>8 DEF Runs, Adding
<1>9. Runs(A, V, W, q, e, in)
  BY <1>3, <1>6, <1>7, <1>8 DEF Runs
<1> QED BY <1>2, <1>9, Zenon

LEMMA RunsChecks ==
  ASSUME NEW S, NEW p \in Seq(S), NEW r \in Seq(S), r \in Seq(Checks),
         NEW A, NEW V, NEW W, NEW e, NEW in, Runs(A, V, W, p, e, in)
  PROVE  Runs(A, V, W, r \o p, e, in)
<1>1. Deleted(r) = {}
  <2>1. \A s \in Checks : s.do # "delete"
    BY DEF Checks
  <2>2. ToSet(r) \subseteq Checks
    BY DEF ToSet
  <2> QED BY <2>1, <2>2 DEF Deleted
<1>2. \A d \in Docs : (in => d # e) => Tidied(r \o p, V, d)
  BY <1>1, TidiedAfter DEF Runs
<1> QED BY <1>1, <1>2, RunsBefore

\* A call that has found the document x, and deletes it.
LEMMA RunsLoad ==
  ASSUME NEW S, NEW p \in Seq(S), p # <<>>, Head(p).do \in {"loadToken", "loadManifest"},
         NEW r \in Seq(S), r \in Seq(Removals),
         NEW A, NEW V, NEW W, NEW e, NEW in, Runs(A, V, W, p, e, in),
         NEW x \in Docs, in => x # e, Deleted(r) \subseteq AddRows(x), AddRows(x) \subseteq A,
         UpTo(V, x) => UpTheLines(r, Rowed(x, V))
  PROVE  Runs(A, V, W, r \o Tail(p), e, in)
<1>1. Runs(A, V, W, Tail(p), e, in) /\ Tail(p) \in Seq(S)
  BY RunsSkip
<1>2. Deleted(Tail(p)) = {}
  <2>1. \A y \in ToSet(Tail(p)) : y.do # "delete"
    BY OrderedTail DEF Runs, Pair
  <2> QED BY <2>1 DEF Deleted
<1>3. ASSUME NEW d \in Docs, in => d # e PROVE Tidied(r \o Tail(p), V, d)
  <2>1. UpTo(V, d)
    BY <1>3 DEF Runs, Tidied
  <2>2. UpTheLines(r, Rowed(d, V))
    <3>1. CASE d = x
      BY <2>1, <3>1
    <3>2. CASE d # x
      <4>1. RowsOf[d] \cap AddRows(x) = {} /\ Along(LinesOf(d), RowsOf[d])
        BY <3>2, RowsApart, DocLines
      <4>2. \A s \in Rowed(d, V) : s.over \cap Deleted(r) = {}
        BY <4>1 DEF Along, Rowed
      <4> QED BY <4>2, NoLines
    <3> QED BY <3>1, <3>2
  <2>3. PICK q \in Seq(S) : q = Tail(p) /\ Deleted(q) = {}
    BY <1>1, <1>2
  <2>4. Tidied(r \o q, V, d)
    BY <2>1, <2>2, <2>3, TidiedBefore
  <2> QED BY <2>3, <2>4, Zenon
<1>4. in => Deleted(r) \cap AddRows(e) = {}
  <2>1. in => e \in Docs
    BY DEF Runs
  <2> QED BY <2>1, DocsApart
<1> QED BY <1>1, <1>3, <1>4, RunsBefore

\* The programs of a load.
LEMMA TokenUnloaded ==
  ASSUME NEW d \in Docs
  PROVE  /\ DeleteToken(SelectToken(TokenOf[d])) \in Seq(Removals)
         /\ Deleted(DeleteToken(SelectToken(TokenOf[d]))) = {TokenOf[d].key}
         /\ TokenOf[d].key \in TokenRowsOf[d] /\ TokenRowsOf[d] \subseteq AddRows(d)
<1>1. PICK t \in Tokens : t = TokenOf[d]
  BY RowStoreAssumption
<1>2. PICK l : l = SelectToken(t) /\ l.key = t.key /\ l.Authority = <<>> /\ t.key \in RowKeys
  <2>1. SelectToken(t).key = t.key /\ SelectToken(t).Authority = <<>> /\ t.key \in RowKeys
    BY DEF SelectToken, Tokens
  <2> QED BY <2>1, Zenon
<1>3. PICK x \in Seq(Removals) : x = Delete(l) /\ Deleted(x) = {t.key}
  BY <1>2, DeleteFacts
<1>4. DeleteToken(l) = x
  <2>1. <<>> \o x = x
    OBVIOUS
  <2> QED BY <1>2, <1>3, <2>1, EachNothing, Zenon DEF DeleteToken
<1> QED BY <1>1, <1>2, <1>3, <1>4, DocKeys, DocRows, Zenon

LEMMA ManifestUnloaded ==
  ASSUME NEW d \in Docs, NEW V \in SUBSET RowKeys, ManifestOf[d].key \in V
  PROVE  /\ Unloaded(d, V) \in Seq(Removals)
         /\ Deleted(Unloaded(d, V)) \subseteq AddRows(d)
         /\ UpTo(V, d) => UpTheLines(Unloaded(d, V), Rowed(d, V))
<1>1. PICK r \in Seq(Removals) :
        /\ r = Unloaded(d, V) /\ Deleted(r) = RowsIn(Standing(LinesOf(d), V))
        /\ UpTheLines(r, Standing(LinesOf(d), V))
  BY UnloadedLines
<1>2. Along(LinesOf(d), RowsOf[d]) /\ RowsOf[d] \subseteq AddRows(d)
  BY DocLines, DocRows
<1>3. Deleted(r) \subseteq AddRows(d)
  BY <1>1, <1>2 DEF Along, Standing, RowsIn
<1>4. UpTo(V, d) => Rowed(d, V) \subseteq Standing(LinesOf(d), V)
  BY DEF UpTo, Rowed, Standing
<1> QED BY <1>1, <1>3, <1>4, FewerLines
-----------------------------------------------------------------------------
LEMMA RunsNothing ==
  ASSUME NEW A, NEW V, NEW W, NEW e, \A d \in Docs : UpTo(V, d)
  PROVE  Runs(A, V, W, <<>>, e, FALSE)
<1>1. PICK p : p = <<>> /\ DOMAIN p = {} /\ ToSet(p) = {}
  BY DEF ToSet
<1>2. Deleted(p) = {}
  BY <1>1 DEF Deleted
<1>3. \A d \in Docs : UpTheLines(p, Rowed(d, V))
  BY <1>2, NoLines
<1>4. Runs(A, V, W, p, e, FALSE)
  BY <1>1, <1>2, <1>3 DEF Runs, Ordered, Tidied
<1> QED BY <1>1, <1>4

LEMMA RunsDeletion ==
  ASSUME NEW A, NEW V, NEW W, NEW e, \A d \in Docs : UpTo(V, d), NEW i
  PROVE  Runs(A, V, W, <<[do |-> "loadManifest", id |-> i]>>, e, FALSE)
<1>1. PICK p : p = <<[do |-> "loadManifest", id |-> i]>>
  OBVIOUS
<1>2. ToSet(p) = {[do |-> "loadManifest", id |-> i]} /\ Ordered(p, e)
  BY <1>1, OneStatement, OrderedOne
<1>3. Deleted(p) = {}
  BY <1>2 DEF Deleted
<1>4. \A d \in Docs : UpTheLines(p, Rowed(d, V))
  BY <1>3, NoLines
<1>5. Runs(A, V, W, p, e, FALSE)
  BY <1>2, <1>3, <1>4 DEF Runs, Tidied
<1> QED BY <1>1, <1>5

LEMMA RunsAdd ==
  ASSUME NEW A, NEW V, NEW e \in Docs, \A d \in Docs : UpTo(V, d), V \cap AddRows(e) = {}
  PROVE  Runs(A, V, V, AddBytes(e), e, TRUE)
<1>1. PICK p : p = AddBytes(e) /\ Deleted(p) = {} /\ Inserted(p) = AddRows(e) /\ Ordered(p, e)
  BY DocRows, OrderedAdd DEF AddRows
<1>2. \A d \in Docs : UpTheLines(p, Rowed(d, V))
  BY <1>1, NoLines
<1>3. RowsOf[e] \subseteq AddRows(e)
  BY DocRows
<1>4. Adding(V, V, p, e)
  BY <1>1, <1>3 DEF Adding
<1>5. Runs(A, V, V, p, e, TRUE)
  BY <1>1, <1>2, <1>4 DEF Runs, Tidied
<1> QED BY <1>1, <1>5

\* The last statement of an add.
LEMMA RunsCommit ==
  ASSUME NEW S, NEW p \in Seq(S), p # <<>>, Head(p).do = "commit",
         NEW A, NEW V, NEW W, NEW e, Runs(A, V, W, p, e, TRUE)
  PROVE  /\ e \in Docs /\ V \subseteq W \cup AddRows(e) /\ RowsOf[e] \subseteq V
         /\ \A d \in Docs : UpTo(V, d)
<1>1. \A y \in ToSet(Tail(p)) : Pair(Head(p), y, e)
  BY OrderedTail DEF Runs
<1>2. ToSet(Tail(p)) = {}
  BY <1>1 DEF Pair
<1>3. Inserted(p) = {}
  <2>1. ToSet(p) = {Head(p)}
    BY <1>2, HeadTail
  <2> QED BY <2>1 DEF Inserted
<1>4. e \in Docs /\ V \subseteq W \cup AddRows(e) /\ RowsOf[e] \subseteq V
  BY <1>3 DEF Runs, Adding
<1>5. UpTo(V, e)
  <2>1. Along(LinesOf(e), RowsOf[e])
    BY <1>4, DocLines
  <2> QED BY <1>4, <2>1 DEF UpTo, Along
<1>6. \A d \in Docs : d # e => UpTo(V, d)
  BY DEF Runs, Tidied
<1> QED BY <1>4, <1>5, <1>6
-----------------------------------------------------------------------------
\* Rows that the program p leaves alone: none, or what an add inserts.
LeftAlone(X, p) == X = {} \/ \E f \in Docs : X = AddRows(f) /\ X \cap Deleted(p) = {}

LEMMA RunsFewer ==
  ASSUME NEW A, NEW V, NEW W, NEW p, NEW e, Runs(A, V, W, p, e, FALSE),
         NEW B, A \subseteq B, NEW U, \A d \in Docs : UpTo(U, d),
         NEW X, U \subseteq V \cup X, LeftAlone(X, p)
  PROVE  Runs(B, U, W, p, e, FALSE)
<1>1. ASSUME NEW d \in Docs PROVE Tidied(p, U, d)
  <2>1. UpTheLines(p, Rowed(d, V))
    BY DEF Runs, Tidied
  <2>2. ASSUME NEW s \in Rowed(d, U), s \notin Rowed(d, V) PROVE s.over \cap Deleted(p) = {}
    <3>1. s.row \in X /\ s \in LinesOf(d)
      BY <2>2 DEF Rowed
    <3>2. PICK f \in Docs : X = AddRows(f) /\ X \cap Deleted(p) = {}
      BY <2>2, <3>1 DEF LeftAlone
    <3>3. s.row \in RowsOf[d] /\ s.over \subseteq RowsOf[d] /\ RowsOf[d] \subseteq AddRows(d)
      BY <3>1, DocLines, DocRows DEF Along
    <3>4. d = f
      BY <3>1, <3>2, <3>3, DocsApart
    <3> QED BY <3>2, <3>3, <3>4
  <2>3. UpTheLines(p, Rowed(d, U))
    BY <2>1, <2>2, DeletedDoes DEF UpTheLines
  <2> QED BY <2>3 DEF Tidied
<1> QED BY <1>1 DEF Runs

LEMMA RunsMore ==
  ASSUME NEW A, NEW V, NEW W, NEW p, NEW e, NEW b, Runs(A, V, W, p, e, b), NEW B, A \subseteq B
  PROVE  Runs(B, V, W, p, e, b)
BY DEF Runs
-----------------------------------------------------------------------------
SnapKeys(c) == {r.key : r \in tx[c].snap.rows}

Running(c, e) ==
  /\ InTx(c) => Runs(AddedKeys, VisibleKeys(c), SnapKeys(c), prog[c], e, TRUE)
  /\ ~InTx(c) => Runs(AddedKeys, VisibleKeys(c), SnapKeys(c), prog[c], e, FALSE)

\* The call of c adds e, that of d adds f, if they add: neither touches what the
\* other adds.
Meets(c, d, e, f) ==
  InTx(c) =>
    /\ AddRows(e) \cap Deleted(prog[d]) = {}
    /\ InTx(d) => e # f /\ VisibleKeys(d) \cap AddRows(e) = {}

LinesClient(c, e) ==
  /\ Running(c, e)
  /\ InTx(c) => e \in added /\ Keys \cap AddRows(e) = {}

\* E is the document each client adds.
LinesInv(E) ==
  /\ TypeInv
  /\ \A d \in Docs : UpTo(Keys, d)
  /\ \A c \in Clients : LinesClient(c, E[c])
  /\ \A c \in Clients : \A d \in Clients \ {c} : Meets(c, d, E[c], E[d])

LEMMA LinesFrame ==
  ASSUME Isolation = "serializable", NEW E, LinesInv(E), TypeInv', NEW c \in Clients, OnlyOf(c),
         NEW F, \A d \in Clients \ {c} : F[d] = E[d], added \subseteq added',
         Keys' \subseteq Keys \/ (InTx(c) /\ Keys' \subseteq Keys \cup AddRows(E[c])),
         \A d \in Docs : UpTo(Keys', d), LinesClient(c, F[c])',
         \A d \in Clients \ {c} : Meets(c, d, F[c], F[d])' /\ Meets(d, c, F[d], F[c])'
  PROVE  LinesInv(F)'
<1>1. AddedKeys \subseteq AddedKeys'
  BY DEF AddedKeys, RowsOf, TokenRowsOf
<1>2. added \subseteq Docs
  BY DEF LinesInv, TypeInv
<1>3. ASSUME NEW d \in Clients \ {c} PROVE LinesClient(d, F[d])'
  <2>1. PICK e : e = E[d] /\ e = F[d]
    OBVIOUS
  <2>2. /\ call'[d] = call[d] /\ prog'[d] = prog[d] /\ tx'[d] = tx[d]
        /\ InTx(d)' <=> InTx(d)
        /\ InTx(d) => View(d)' = View(d)
        /\ ~InTx(d) => View(d) = db /\ View(d)' = db'
    BY ViewFrame DEF OnlyOf
  <2>3. SnapKeys(d)' = SnapKeys(d)
    BY <2>2 DEF SnapKeys
  <2>4. LinesClient(d, e) /\ Meets(c, d, E[c], e)
    BY <2>1 DEF LinesInv
  <2>5. PICK A, B, W, p : A = AddedKeys /\ B = AddedKeys' /\ W = SnapKeys(d) /\ p = prog[d]
                          /\ A \subseteq B
    BY <1>1
  <2>6. CASE InTx(d)
    <3>1. PICK V : V = VisibleKeys(d) /\ VisibleKeys(d)' = V
      BY <2>2, <2>6 DEF VisibleKeys
    <3>2. Runs(A, V, W, p, e, TRUE)
      BY <2>4, <2>5, <2>6, <3>1 DEF LinesClient, Running
    <3>3. Runs(B, V, W, p, e, TRUE)
      BY <2>5, <3>2, RunsMore
    <3>4. Running(d, e)'
      BY <2>2, <2>3, <2>5, <2>6, <3>1, <3>3 DEF Running
    <3>5. e \in added' /\ Keys' \cap AddRows(e) = {}
      <4>1. e \in added /\ Keys \cap AddRows(e) = {}
        BY <2>4, <2>6 DEF LinesClient
      <4>2. InTx(c) => E[c] # e /\ E[c] \in Docs
        BY <1>2, <2>4, <2>6 DEF Meets, LinesInv, LinesClient
      <4>3. InTx(c) => AddRows(E[c]) \cap AddRows(e) = {}
        BY <1>2, <4>1, <4>2, DocsApart
      <4> QED BY <4>1, <4>3
    <3> QED BY <2>1, <2>2, <3>4, <3>5 DEF LinesClient
  <2>7. CASE ~InTx(d)
    <3>1. PICK V, U : V = VisibleKeys(d) /\ U = VisibleKeys(d)' /\ V = Keys /\ U = Keys'
      BY <2>2, <2>7 DEF VisibleKeys, Keys
    <3>2. Runs(A, V, W, p, e, FALSE)
      BY <2>4, <2>5, <2>7, <3>1 DEF LinesClient, Running
    <3>3. \A x \in Docs : UpTo(U, x)
      BY <3>1
    <3>5. Runs(B, U, W, p, e, FALSE)
      <4>1. CASE U \subseteq V
        <5>1. PICK X : X = {} /\ U \subseteq V \cup X /\ LeftAlone(X, p)
          BY <4>1 DEF LeftAlone
        <5> QED BY <2>5, <3>2, <3>3, <5>1, RunsFewer
      <4>2. CASE InTx(c) /\ U \subseteq V \cup AddRows(E[c])
        <5>1. PICK f \in Docs : f = E[c] /\ AddRows(f) \cap Deleted(p) = {}
                                /\ U \subseteq V \cup AddRows(f)
          BY <1>2, <2>4, <2>5, <4>2 DEF Meets, LinesInv, LinesClient
        <5>2. PICK X : X = AddRows(f)
          OBVIOUS
        <5>3. LeftAlone(X, p)
          BY <5>1, <5>2 DEF LeftAlone
        <5>4. U \subseteq V \cup X
          BY <5>1, <5>2
        <5> QED BY <2>5, <3>2, <3>3, <5>3, <5>4, RunsFewer
      <4> QED BY <3>1, <4>1, <4>2
    <3>6. Running(d, e)'
      BY <2>2, <2>3, <2>5, <2>7, <3>1, <3>5 DEF Running
    <3> QED BY <2>1, <2>2, <2>7, <3>6 DEF LinesClient
  <2> QED BY <2>6, <2>7
<1>4. ASSUME NEW x \in Clients, NEW y \in Clients \ {x} PROVE Meets(x, y, F[x], F[y])'
  <2>1. CASE x = c \/ y = c
    BY <2>1
  <2>2. CASE x # c /\ y # c
    <3>1. Meets(x, y, F[x], F[y])
      BY <2>2 DEF LinesInv
    <3>2. /\ prog'[y] = prog[y] /\ (InTx(x)' <=> InTx(x)) /\ (InTx(y)' <=> InTx(y))
          /\ InTx(y) => View(y)' = View(y)
      BY <2>2, ViewFrame DEF OnlyOf
    <3>3. InTx(y) => VisibleKeys(y)' = VisibleKeys(y)
      BY <3>2 DEF VisibleKeys
    <3> QED BY <3>1, <3>2, <3>3 DEF Meets
  <2> QED BY <2>1, <2>2
<1>5. \A x \in Clients : LinesClient(x, F[x])'
  BY <1>3
<1> QED BY <1>4, <1>5 DEF LinesInv

\* A step within a call.
LEMMA LinesStep ==
  ASSUME Isolation = "serializable", NEW E, LinesInv(E), TypeInv', NEW c \in Clients, OnlyOf(c),
         UNCHANGED <<call, added>>, SnapKeys(c)' = SnapKeys(c),
         NEW b \in BOOLEAN, InTx(c) <=> b, NEW V, V = VisibleKeys(c)', NEW p, p = prog'[c],
         Runs(AddedKeys, V, SnapKeys(c), p, E[c], b),
         b => UNCHANGED db /\ V \subseteq VisibleKeys(c) \cup AddRows(E[c]),
         ~b => V \subseteq Keys,
         \A d \in Clients \ {c} : InTx(d) => AddRows(E[d]) \cap Deleted(p) = {}
  PROVE  LinesInv(E)'
<1>1. AddedKeys' = AddedKeys /\ added \subseteq Docs
  BY DEF AddedKeys, RowsOf, TokenRowsOf, LinesInv, TypeInv
<1>2. InTx(c)' <=> b
  BY DEF InTx
<1>3. ~b => Keys' = V
  BY <1>2 DEF VisibleKeys, View, Keys
<1>4. b => Keys' = Keys
  BY DEF Keys
<1>5. \A d \in Docs : UpTo(Keys', d)
  <2>1. CASE b
    BY <1>4, <2>1 DEF LinesInv
  <2>2. CASE ~b
    BY <1>3, <2>2 DEF Runs, Tidied
  <2> QED BY <2>1, <2>2
<1>6. LinesClient(c, E[c])
  BY DEF LinesInv
<1>7. Running(c, E[c])'
  <2>1. PICK A, W : A = AddedKeys' /\ W = SnapKeys(c)' /\ Runs(A, V, W, p, E[c], b)
    BY <1>1
  <2>2. CASE b = TRUE
    BY <1>2, <2>1, <2>2 DEF Running
  <2>3. CASE b = FALSE
    BY <1>2, <2>1, <2>3 DEF Running
  <2> QED BY <2>2, <2>3
<1>8. LinesClient(c, E[c])'
  BY <1>2, <1>4, <1>6, <1>7 DEF LinesClient
<1>9. ASSUME NEW d \in Clients \ {c}
      PROVE  Meets(c, d, E[c], E[d])' /\ Meets(d, c, E[d], E[c])'
  <2>1. Meets(c, d, E[c], E[d]) /\ Meets(d, c, E[d], E[c])
    BY DEF LinesInv
  <2>2. /\ prog'[d] = prog[d] /\ (InTx(d)' <=> InTx(d))
        /\ InTx(d) => View(d)' = View(d)
    BY ViewFrame DEF OnlyOf
  <2>3. InTx(d) => VisibleKeys(d)' = VisibleKeys(d)
    BY <2>2 DEF VisibleKeys
  <2>4. Meets(c, d, E[c], E[d])'
    BY <1>2, <2>1, <2>2, <2>3 DEF Meets
  <2>5. ASSUME InTx(d), b
        PROVE  E[d] # E[c] /\ V \cap AddRows(E[d]) = {}
    <3>1. E[d] # E[c] /\ VisibleKeys(c) \cap AddRows(E[d]) = {}
      BY <2>1, <2>5 DEF Meets
    <3>2. E[c] \in Docs /\ E[d] \in Docs
      BY <1>1, <2>5 DEF LinesInv, LinesClient
    <3> QED BY <2>5, <3>1, <3>2, DocsApart
  <2>6. Meets(d, c, E[d], E[c])'
    BY <1>2, <2>2, <2>5 DEF Meets
  <2> QED BY <2>4, <2>6
<1>10. Keys' \subseteq Keys
  BY <1>3, <1>4
<1>11. added \subseteq added'
  OBVIOUS
<1> QED BY <1>5, <1>8, <1>9, <1>10, <1>11, LinesFrame
-----------------------------------------------------------------------------
LEMMA LinesHere ==
  ASSUME NEW E, LinesInv(E), NEW c \in Clients
  PROVE  \E b \in BOOLEAN :
           /\ InTx(c) <=> b
           /\ Runs(AddedKeys, VisibleKeys(c), SnapKeys(c), prog[c], E[c], b)
<1>1. Running(c, E[c])
  BY DEF LinesInv, LinesClient
<1>2. CASE InTx(c)
  <2>1. Runs(AddedKeys, VisibleKeys(c), SnapKeys(c), prog[c], E[c], TRUE)
    BY <1>1, <1>2 DEF Running
  <2> QED BY <1>2, <2>1
<1>3. CASE ~InTx(c)
  <2>1. Runs(AddedKeys, VisibleKeys(c), SnapKeys(c), prog[c], E[c], FALSE)
    BY <1>1, <1>3 DEF Running
  <2> QED BY <1>3, <2>1
<1> QED BY <1>2, <1>3

LEMMA ChecksDelete == ASSUME NEW r \in Seq(Checks) PROVE Deleted(r) = {}
<1>1. \A s \in Checks : s.do # "delete"
  BY DEF Checks
<1>2. ToSet(r) \subseteq Checks
  BY DEF ToSet
<1> QED BY <1>1, <1>2 DEF Deleted

DeletesBoth(p, q, r) == r = p \o q /\ Deleted(r) = Deleted(p) \cup Deleted(q)

LEMMA BothDeleted ==
  ASSUME NEW S, NEW p \in Seq(S), NEW q \in Seq(S)
  PROVE  \E r \in Seq(S) : DeletesBoth(p, q, r)
<1>1. PICK r \in Seq(S) : r = p \o q
  <2>1. p \o q \in Seq(S)
    OBVIOUS
  <2> QED BY <2>1, Zenon
<1>2. Deleted(r) = Deleted(p) \cup Deleted(q)
  BY <1>1, DeletedJoin
<1> QED BY <1>1, <1>2 DEF DeletesBoth

\* What the others add, c deletes nothing of.
LEMMA OthersStay ==
  ASSUME NEW E, LinesInv(E), NEW c \in Clients, NEW d \in Clients \ {c}, InTx(d)
  PROVE  /\ AddRows(E[d]) \cap Deleted(prog[c]) = {} /\ E[d] \in Docs
         /\ VisibleKeys(c) \cap AddRows(E[d]) = {}
<1>1. E[d] \in added /\ Keys \cap AddRows(E[d]) = {} /\ added \subseteq Docs
  BY DEF LinesInv, LinesClient, TypeInv
<1>2. Meets(d, c, E[d], E[c])
  BY DEF LinesInv
<1>3. ~InTx(c) => VisibleKeys(c) = Keys
  BY DEF VisibleKeys, View, Keys
<1> QED BY <1>1, <1>2, <1>3 DEF Meets

\* A step that reads, or that leaves the rows alone.
LEMMA LinesRead ==
  ASSUME Isolation = "serializable", NEW E, LinesInv(E), TypeInv', NEW c \in Clients, OnlyOf(c),
         UNCHANGED <<call, added>>, SnapKeys(c)' = SnapKeys(c), InTx(c) => UNCHANGED db,
         VisibleKeys(c)' = VisibleKeys(c),
         NEW w, AtStmt(c, w), w \notin {"insert", "delete"}, NEW r \in Seq(Checks), Then(c, r)
  PROVE  LinesInv(E)'
<1>1. TypeInv
  BY DEF LinesInv
<1>2. PICK A, S, V, W, e : A = AddedKeys /\ S = Statements(A) /\ V = VisibleKeys(c)
                           /\ W = SnapKeys(c) /\ e = E[c]
  OBVIOUS
<1>3. PICK p \in Seq(S) : p = prog[c] /\ p # <<>> /\ Head(p).do = w
  BY <1>1, <1>2 DEF AtStmt, TypeInv, ClientType
<1>4. PICK q \in Seq(S) : q = Tail(p) /\ Deleted(q) \subseteq Deleted(p)
  <2>1. Deleted(Tail(p)) \subseteq Deleted(p)
    BY <1>3, RowsOfTail DEF OfTail
  <2>2. Tail(p) \in Seq(S)
    BY <1>3
  <2> QED BY <2>1, <2>2, Zenon
<1>5. PICK b \in BOOLEAN : (InTx(c) <=> b) /\ Runs(A, V, W, p, e, b)
  BY <1>2, <1>3, LinesHere
<1>6. Runs(A, V, W, q, e, b)
  BY <1>3, <1>4, <1>5, RunsSkip
<1>7. r \in Seq(S)
  <2>1. Checks \subseteq S
    BY <1>2 DEF Statements, DeleteStatements
  <2> QED BY <2>1
<1>8. PICK s \in Seq(S) : s = r \o q /\ Deleted(s) \subseteq Deleted(p)
  <2>1. PICK s \in Seq(S) : DeletesBoth(r, q, s)
    BY <1>7, BothDeleted
  <2> QED BY <1>4, <2>1, ChecksDelete DEF DeletesBoth
<1>9. Runs(A, V, W, s, e, b)
  <2>1. Runs(A, V, W, r \o q, e, b)
    BY <1>6, <1>7, RunsChecks
  <2> QED BY <1>8, <2>1, Zenon
<1>10. s = prog'[c]
  BY <1>1, <1>3, <1>4, <1>8 DEF Then, TypeInv
<1>11. \A d \in Clients \ {c} : InTx(d) => AddRows(E[d]) \cap Deleted(s) = {}
  BY <1>3, <1>8, OthersStay
<1>12. ~b => V \subseteq Keys
  BY <1>2, <1>5 DEF VisibleKeys, View, Keys
<1>13. V = VisibleKeys(c)' /\ V \subseteq VisibleKeys(c) \cup AddRows(E[c]) /\ (b => UNCHANGED db)
  BY <1>2, <1>5
<1>14. Runs(AddedKeys, V, SnapKeys(c), s, E[c], b)
  BY <1>2, <1>9
<1> QED BY <1>5, <1>10, <1>11, <1>12, <1>13, <1>14, LinesStep

\* A document found is one that has been added,
LEMMA FoundAdded ==
  ASSUME TypeInv, NEW c \in Clients, NEW x \in Docs, NEW k \in AddRows(x), k \in VisibleKeys(c)
  PROVE  AddRows(x) \subseteq AddedKeys
<1>1. k \in AddedKeys
  BY ViewKnown DEF VisibleKeys, Known
<1>2. PICK d \in added : k \in RowsOf[d] \cup TokenRowsOf[d]
  BY <1>1 DEF AddedKeys
<1>3. d \in Docs
  BY DEF TypeInv
<1>4. d = x
  BY <1>2, <1>3, DocRows, DocsApart
<1> QED BY <1>2, <1>3, <1>4, DocRows DEF AddedKeys

\* and its deletion goes before what is left of the program.
LEMMA LinesLoad ==
  ASSUME Isolation = "serializable", NEW E, LinesInv(E), TypeInv', NEW c \in Clients, OnlyOf(c),
         UNCHANGED <<call, added, tx, db>>,
         NEW w \in {"loadToken", "loadManifest"}, AtStmt(c, w),
         NEW x \in Docs, InTx(c) => x # E[c], NEW k \in AddRows(x), k \in VisibleKeys(c),
         NEW r \in Seq(Removals), Then(c, r), Deleted(r) \subseteq AddRows(x),
         UpTo(VisibleKeys(c), x) => UpTheLines(r, Rowed(x, VisibleKeys(c)))
  PROVE  LinesInv(E)'
<1>1. TypeInv
  BY DEF LinesInv
<1>2. PICK A, S, V, W, e : A = AddedKeys /\ S = Statements(A) /\ V = VisibleKeys(c)
                           /\ W = SnapKeys(c) /\ e = E[c]
  OBVIOUS
<1>3. PICK p \in Seq(S) : p = prog[c] /\ p # <<>> /\ Head(p).do = w
  BY <1>1, <1>2 DEF AtStmt, TypeInv, ClientType
<1>4. PICK q \in Seq(S) : q = Tail(p) /\ Deleted(q) \subseteq Deleted(p)
  <2>1. Deleted(Tail(p)) \subseteq Deleted(p)
    BY <1>3, RowsOfTail DEF OfTail
  <2>2. Tail(p) \in Seq(S)
    BY <1>3
  <2> QED BY <2>1, <2>2, Zenon
<1>5. PICK b \in BOOLEAN : (InTx(c) <=> b) /\ Runs(A, V, W, p, e, b)
  BY <1>2, <1>3, LinesHere
<1>6. r \in Seq(S)
  <2>1. Removals \subseteq S
    BY <1>2 DEF Statements, DeleteStatements
  <2> QED BY <2>1
<1>7. PICK s \in Seq(S) : s = r \o q /\ Deleted(s) = Deleted(r) \cup Deleted(q)
  <2>1. PICK s \in Seq(S) : DeletesBoth(r, q, s)
    BY <1>6, BothDeleted
  <2> QED BY <2>1 DEF DeletesBoth
<1>8. Runs(A, V, W, s, e, b)
  <2>1. AddRows(x) \subseteq A
    BY <1>1, <1>2, FoundAdded
  <2>2. (b => x # e) /\ (UpTo(V, x) => UpTheLines(r, Rowed(x, V)))
    BY <1>2, <1>5
  <2>3. Runs(A, V, W, r \o Tail(p), e, b)
    BY <1>3, <1>5, <1>6, <2>1, <2>2, RunsLoad
  <2> QED BY <1>4, <1>7, <2>3, Zenon
<1>9. s = prog'[c]
  BY <1>1, <1>3, <1>4, <1>7 DEF Then, TypeInv
<1>10. ASSUME NEW d \in Clients \ {c}, InTx(d) PROVE AddRows(E[d]) \cap Deleted(s) = {}
  <2>1. /\ AddRows(E[d]) \cap Deleted(p) = {} /\ E[d] \in Docs
        /\ VisibleKeys(c) \cap AddRows(E[d]) = {}
    BY <1>3, <1>10, OthersStay
  <2>2. E[d] # x
    BY <2>1
  <2>3. AddRows(E[d]) \cap AddRows(x) = {}
    BY <2>1, <2>2, DocsApart
  <2> QED BY <1>4, <1>7, <2>1, <2>3
<1>11. V = VisibleKeys(c)' /\ V \subseteq VisibleKeys(c) \cup AddRows(E[c])
  BY <1>2, ReadView DEF VisibleKeys
<1>12. ~b => V \subseteq Keys
  BY <1>2, <1>5 DEF VisibleKeys, View, Keys
<1>13. Runs(AddedKeys, V, SnapKeys(c), s, E[c], b)
  BY <1>2, <1>8
<1>14. SnapKeys(c)' = SnapKeys(c)
  BY DEF SnapKeys
<1> QED BY <1>5, <1>9, <1>10, <1>11, <1>12, <1>13, <1>14, LinesStep
-----------------------------------------------------------------------------
(* What the statements do to the rows and environments a client sees *)

\* A write of c's leaves what its transaction began with.
LEMMA WriteSnap ==
  ASSUME TypeInv, NEW c \in Clients, NEW ins, NEW del, Write(c, ins, del)
  PROVE  tx'[c].snap = tx[c].snap
<1>1. CASE InTx(c)
  BY <1>1 DEF Write, TypeInv, ClientType, Transactions
<1>2. CASE ~InTx(c)
  BY <1>2 DEF Write
<1> QED BY <1>1, <1>2

LEMMA InsertView ==
  ASSUME Isolation = "serializable", TypeInv, NEW c \in Clients, InsertRow(c)
  PROVE  /\ AtStmt(c, "insert") /\ InTx(c) /\ Then(c, <<>>)
         /\ UNCHANGED <<call, bound, held, added, crashed, db>> /\ tx'[c].snap = tx[c].snap
         /\ View(c)'.rows = View(c).rows \cup {NewRow(c)} /\ View(c)'.envs = View(c).envs
<1>1. AtStmt(c, "insert") /\ InTx(c)
  BY AtStatement, StatementFields DEF InsertRow
<1>2. PICK row \in Rows : row = NewRow(c)
  BY <1>1, NewRowType
<1>3. PICK ins \in Content : ins = [Empty EXCEPT !.rows = {row}] /\ ins.rows = {row} /\ ins.envs = {}
  <2>1. {row} \in SUBSET Rows
    BY <1>2
  <2> QED BY <2>1, RowsOnly
<1>4. Write(c, ins, Empty) /\ UNCHANGED <<call, bound, held, added, crashed>> /\ Then(c, <<>>)
  BY <1>2, <1>3 DEF InsertRow, NewRow
<1>5. /\ View(c)'.rows = (View(c).rows \ Empty.rows) \cup ins.rows
      /\ View(c)'.envs = (View(c).envs \ Empty.envs) \cup ins.envs
      /\ UNCHANGED db
  BY <1>1, <1>4, EmptyContent, WriteView
<1>6. View(c)'.rows = View(c).rows \cup {row} /\ View(c)'.envs = View(c).envs
  BY <1>3, <1>5, EmptyContent
<1>7. tx'[c].snap = tx[c].snap
  BY <1>4, WriteSnap
<1> QED BY <1>1, <1>2, <1>4, <1>5, <1>6, <1>7

LEMMA DeleteView ==
  ASSUME Isolation = "serializable", TypeInv, NEW c \in Clients, DeleteRow(c)
  PROVE  /\ AtStmt(c, "delete") /\ Then(c, <<>>)
         /\ UNCHANGED <<call, bound, held, added, crashed>> /\ tx'[c].snap = tx[c].snap
         /\ IF InTx(c) THEN UNCHANGED db ELSE db = View(c) /\ db' = View(c)'
         /\ View(c)'.rows = {r \in View(c).rows : r.key # Stmt(c).key}
         /\ View(c)'.envs = View(c).envs
<1>1. AtStmt(c, "delete")
  BY DEF DeleteRow
<1>2. PICK k : k = Stmt(c).key
  OBVIOUS
<1>3. PICK gone \in Content :
        /\ gone = [Empty EXCEPT !.rows = {r \in View(c).rows : r.key = k}]
        /\ gone.rows = {r \in View(c).rows : r.key = k} /\ gone.envs = {}
  <2>1. {r \in View(c).rows : r.key = k} \subseteq Rows
    BY ViewKnown DEF Content
  <2> QED BY <2>1, RowsOnly
<1>4. Write(c, Empty, gone) /\ UNCHANGED <<call, bound, held, added, crashed>> /\ Then(c, <<>>)
  BY <1>2, <1>3 DEF DeleteRow
<1>5. /\ View(c)'.rows = (View(c).rows \ gone.rows) \cup Empty.rows
      /\ View(c)'.envs = (View(c).envs \ gone.envs) \cup Empty.envs
      /\ IF InTx(c) THEN UNCHANGED db ELSE db = View(c) /\ db' = View(c)'
  BY <1>4, EmptyContent, WriteView
<1>6. View(c)'.rows = {r \in View(c).rows : r.key # k} /\ View(c)'.envs = View(c).envs
  BY <1>3, <1>5, EmptyContent
<1>7. tx'[c].snap = tx[c].snap
  BY <1>4, WriteSnap
<1> QED BY <1>1, <1>2, <1>4, <1>5, <1>6, <1>7

LEMMA InsertEnvView ==
  ASSUME Isolation = "serializable", TypeInv, NEW c \in Clients, InsertEnv(c)
  PROVE  /\ AtStmt(c, "findEnv") /\ InTx(c) /\ Then(c, <<>>)
         /\ UNCHANGED <<call, held, added, crashed, db>> /\ tx'[c].snap = tx[c].snap
         /\ View(c)'.rows = View(c).rows
         /\ View(c)'.envs = View(c).envs \cup {[id |-> nextEnv, env |-> Stmt(c).env]}
         /\ bound'[c] = nextEnv /\ nextEnv' = nextEnv + 1
<1>1. AtStmt(c, "findEnv") /\ InTx(c)
  BY AtStatement, StatementFields DEF InsertEnv
<1>2. PICK e \in EnvRows : e = [id |-> nextEnv, env |-> Stmt(c).env]
  <2>1. Stmt(c).env \in Envs /\ nextEnv \in Nat
    BY <1>1, AtStatement, StatementFields DEF TypeInv
  <2> QED BY <2>1 DEF EnvRows
<1>3. PICK ins \in Content : ins = [Empty EXCEPT !.envs = {e}] /\ ins.envs = {e} /\ ins.rows = {}
  <2>1. {e} \in SUBSET EnvRows
    BY <1>2
  <2> QED BY <2>1, EnvsOnly
<1>4. Write(c, ins, Empty) /\ UNCHANGED <<call, held, added, crashed>> /\ Then(c, <<>>)
  BY <1>2, <1>3 DEF InsertEnv
<1>5. /\ View(c)'.rows = (View(c).rows \ Empty.rows) \cup ins.rows
      /\ View(c)'.envs = (View(c).envs \ Empty.envs) \cup ins.envs
      /\ UNCHANGED db
  BY <1>1, <1>4, EmptyContent, WriteView
<1>6. View(c)'.rows = View(c).rows /\ View(c)'.envs = View(c).envs \cup {e}
  BY <1>3, <1>5, EmptyContent
<1>7. tx'[c].snap = tx[c].snap
  BY <1>4, WriteSnap
<1>8. bound'[c] = nextEnv /\ nextEnv' = nextEnv + 1
  BY DEF InsertEnv, TypeInv
<1> QED BY <1>1, <1>2, <1>4, <1>5, <1>6, <1>7, <1>8

LEMMA DropView ==
  ASSUME Isolation = "serializable", TypeInv, NEW c \in Clients, DropEnv(c)
  PROVE  /\ AtStmt(c, "dropEnv") /\ Then(c, <<>>)
         /\ UNCHANGED <<call, bound, held, added, crashed>> /\ tx'[c].snap = tx[c].snap
         /\ IF InTx(c) THEN UNCHANGED db ELSE db = View(c) /\ db' = View(c)'
         /\ View(c)'.rows = View(c).rows
         /\ View(c)'.envs = {e \in View(c).envs : e.id # Stmt(c).id}
<1>1. AtStmt(c, "dropEnv")
  BY DEF DropEnv
<1>2. PICK i : i = Stmt(c).id
  OBVIOUS
<1>3. PICK gone \in Content :
        /\ gone = [Empty EXCEPT !.envs = {e \in View(c).envs : e.id = i}]
        /\ gone.envs = {e \in View(c).envs : e.id = i} /\ gone.rows = {}
  <2>1. {e \in View(c).envs : e.id = i} \subseteq EnvRows
    BY ViewKnown DEF Content
  <2> QED BY <2>1, EnvsOnly
<1>4. Write(c, Empty, gone) /\ UNCHANGED <<call, bound, held, added, crashed>> /\ Then(c, <<>>)
  BY <1>2, <1>3 DEF DropEnv
<1>5. /\ View(c)'.rows = (View(c).rows \ gone.rows) \cup Empty.rows
      /\ View(c)'.envs = (View(c).envs \ gone.envs) \cup Empty.envs
      /\ IF InTx(c) THEN UNCHANGED db ELSE db = View(c) /\ db' = View(c)'
  BY <1>4, EmptyContent, WriteView
<1>6. View(c)'.rows = View(c).rows /\ View(c)'.envs = {e \in View(c).envs : e.id # i}
  BY <1>3, <1>5, EmptyContent
<1>7. tx'[c].snap = tx[c].snap
  BY <1>4, WriteSnap
<1> QED BY <1>1, <1>2, <1>4, <1>5, <1>6, <1>7

LEMMA CheckStatements ==
  ASSUME TypeInv, NEW c \in Clients,
         ReuseEnv(c) \/ SkipOwners(c) \/ CheckOwners(c) \/ CheckNextOwners(c)
  PROVE  /\ UNCHANGED <<db, call, tx, added, crashed>>
         /\ \E w : AtStmt(c, w) /\ w \notin {"insert", "delete"}
         /\ \E r \in Seq(Checks) : Then(c, r)
<1>1. UNCHANGED <<db, call, tx, added, crashed>>
  BY DEF ReuseEnv, SkipOwners, CheckOwners, CheckNextOwners, Check
<1>2. PICK w : AtStmt(c, w) /\ w \notin {"insert", "delete"}
  BY DEF ReuseEnv, SkipOwners, CheckOwners, CheckNextOwners
<1>3. PICK r \in Seq(Checks) : Then(c, r)
  <2>1. CASE ReuseEnv(c) \/ SkipOwners(c)
    <3>1. <<>> \in Seq(Checks)
      OBVIOUS
    <3> QED BY <2>1, <3>1 DEF ReuseEnv, SkipOwners
  <2>2. CASE CheckOwners(c)
    <3>1. PICK id \in HeldBy(c) : Check(c, id, environmentOwners)
      BY <2>2 DEF CheckOwners
    <3>2. id \in Nat
      BY DEF HeldBy, TypeInv, ClientType, InMemory
    <3> QED BY <3>1, <3>2, OwnersSequence, CheckProgram
  <2>3. CASE CheckNextOwners(c)
    <3>1. Stmt(c).id \in Nat /\ Stmt(c).tables \in Seq(OwnerTable) \ {<<>>}
      BY <2>3, AtStatement, StatementFields DEF CheckNextOwners
    <3> QED BY <2>3, <3>1, CheckProgram DEF CheckNextOwners
  <2> QED BY <2>1, <2>2, <2>3
<1> QED BY <1>1, <1>2, <1>3

LEMMA EnvKeys ==
  ASSUME Isolation = "serializable", TypeInv, NEW c \in Clients, InsertEnv(c) \/ DropEnv(c)
  PROVE  /\ UNCHANGED <<call, added, crashed>> /\ Then(c, <<>>)
         /\ InTx(c) => UNCHANGED db
         /\ VisibleKeys(c)' = VisibleKeys(c) /\ SnapKeys(c)' = SnapKeys(c) /\ Keys' = Keys
<1>1. /\ UNCHANGED <<call, added, crashed>> /\ Then(c, <<>>) /\ tx'[c].snap = tx[c].snap
      /\ View(c)'.rows = View(c).rows
  BY InsertEnvView, DropView
<1>2. UNCHANGED db \/ (~InTx(c) /\ db = View(c) /\ db' = View(c)')
  <2>1. CASE InsertEnv(c)
    BY <2>1, InsertEnvView
  <2>2. CASE DropEnv(c)
    BY <2>2, DropView
  <2> QED BY <2>1, <2>2
<1>3. VisibleKeys(c)' = VisibleKeys(c) /\ SnapKeys(c)' = SnapKeys(c) /\ Keys' = Keys
  BY <1>1, <1>2 DEF VisibleKeys, SnapKeys, Keys
<1> QED BY <1>1, <1>2, <1>3

LEMMA InsertKeys ==
  ASSUME Isolation = "serializable", TypeInv, NEW c \in Clients, InsertRow(c)
  PROVE  /\ AtStmt(c, "insert") /\ InTx(c) /\ UNCHANGED <<call, added, crashed, db>> /\ Then(c, <<>>)
         /\ VisibleKeys(c)' = VisibleKeys(c) \cup {Stmt(c).key} /\ SnapKeys(c)' = SnapKeys(c)
<1>1. /\ AtStmt(c, "insert") /\ InTx(c) /\ UNCHANGED <<call, added, crashed, db>> /\ Then(c, <<>>)
      /\ tx'[c].snap = tx[c].snap /\ View(c)'.rows = View(c).rows \cup {NewRow(c)}
  BY InsertView
<1>2. NewRow(c).key = Stmt(c).key
  BY <1>1, NewRowType
<1> QED BY <1>1, <1>2 DEF VisibleKeys, SnapKeys

LEMMA DeleteKeys ==
  ASSUME Isolation = "serializable", TypeInv, NEW c \in Clients, DeleteRow(c)
  PROVE  /\ AtStmt(c, "delete") /\ UNCHANGED <<call, added, crashed>> /\ Then(c, <<>>)
         /\ InTx(c) => UNCHANGED db
         /\ VisibleKeys(c)' = VisibleKeys(c) \ {Stmt(c).key} /\ SnapKeys(c)' = SnapKeys(c)
<1>1. /\ AtStmt(c, "delete") /\ UNCHANGED <<call, added, crashed>> /\ Then(c, <<>>)
      /\ tx'[c].snap = tx[c].snap
      /\ IF InTx(c) THEN UNCHANGED db ELSE db = View(c) /\ db' = View(c)'
      /\ View(c)'.rows = {r \in View(c).rows : r.key # Stmt(c).key}
  BY DeleteView
<1>2. VisibleKeys(c)' = VisibleKeys(c) \ {Stmt(c).key} /\ SnapKeys(c)' = SnapKeys(c)
  BY <1>1 DEF VisibleKeys, SnapKeys
<1> QED BY <1>1, <1>2
-----------------------------------------------------------------------------
LEMMA LinesInsert ==
  ASSUME Isolation = "serializable", NEW E, LinesInv(E), TypeInv', NEW c \in Clients, InsertRow(c)
  PROVE  LinesInv(E)'
<1>1. TypeInv /\ OnlyOf(c)
  BY OnlyMine DEF LinesInv
<1>2. /\ AtStmt(c, "insert") /\ InTx(c) /\ UNCHANGED <<call, added, crashed, db>> /\ Then(c, <<>>)
      /\ VisibleKeys(c)' = VisibleKeys(c) \cup {Stmt(c).key} /\ SnapKeys(c)' = SnapKeys(c)
  BY <1>1, InsertKeys
<1>3. PICK A, S, V, W, e, k : A = AddedKeys /\ S = Statements(A) /\ V = VisibleKeys(c)
                              /\ W = SnapKeys(c) /\ e = E[c] /\ k = Stmt(c).key
  OBVIOUS
<1>4. PICK p \in Seq(S) : p = prog[c] /\ p # <<>> /\ Head(p).do = "insert" /\ Head(p).key = k
  BY <1>1, <1>2, <1>3 DEF AtStmt, Stmt, TypeInv, ClientType
<1>5. PICK q : q = Tail(p) /\ q = prog'[c]
  BY <1>1, <1>2, <1>4 DEF Then, TypeInv
<1>6. Runs(A, V, W, p, e, TRUE)
  BY <1>2, <1>3, <1>4, LinesHere
<1>7. Runs(A, V \cup {k}, W, q, e, TRUE)
  <2>1. PICK b \in BOOLEAN : b = TRUE /\ b /\ Runs(A, V, W, p, e, b)
    BY <1>6
  <2>2. Runs(A, V \cup {k}, W, Tail(p), e, b)
    BY <1>4, <2>1, RunsInsert
  <2> QED BY <1>5, <2>1, <2>2, Zenon
<1>8. Deleted(q) \subseteq Deleted(p) /\ k \in AddRows(e)
  <2>1. Deleted(Tail(p)) = Deleted(p) /\ k \in Inserted(p)
    BY <1>4, RowsOfTail DEF OfTail
  <2> QED BY <1>5, <1>6, <2>1 DEF Runs, Adding
<1>9. \A d \in Clients \ {c} : InTx(d) => AddRows(E[d]) \cap Deleted(q) = {}
  BY <1>4, <1>8, OthersStay
<1>10. PICK U : U = VisibleKeys(c)' /\ U = V \cup {k} /\ U \subseteq VisibleKeys(c) \cup AddRows(E[c])
  BY <1>2, <1>3, <1>8
<1>11. Runs(AddedKeys, U, SnapKeys(c), q, E[c], TRUE)
  BY <1>3, <1>7, <1>10
<1> QED BY <1>1, <1>2, <1>5, <1>9, <1>10, <1>11, LinesStep

LEMMA LinesDelete ==
  ASSUME Isolation = "serializable", NEW E, LinesInv(E), TypeInv', NEW c \in Clients, DeleteRow(c)
  PROVE  LinesInv(E)'
<1>1. TypeInv /\ OnlyOf(c)
  BY OnlyMine DEF LinesInv
<1>2. /\ AtStmt(c, "delete") /\ UNCHANGED <<call, added, crashed>> /\ Then(c, <<>>)
      /\ InTx(c) => UNCHANGED db
      /\ VisibleKeys(c)' = VisibleKeys(c) \ {Stmt(c).key} /\ SnapKeys(c)' = SnapKeys(c)
  BY <1>1, DeleteKeys
<1>3. PICK A, S, V, W, e, k : A = AddedKeys /\ S = Statements(A) /\ V = VisibleKeys(c)
                              /\ W = SnapKeys(c) /\ e = E[c] /\ k = Stmt(c).key
  OBVIOUS
<1>4. PICK p \in Seq(S) : p = prog[c] /\ p # <<>> /\ Head(p).do = "delete" /\ Head(p).key = k
  BY <1>1, <1>2, <1>3 DEF AtStmt, Stmt, TypeInv, ClientType
<1>5. PICK q : q = Tail(p) /\ q = prog'[c]
  BY <1>1, <1>2, <1>4 DEF Then, TypeInv
<1>6. PICK b \in BOOLEAN : (InTx(c) <=> b) /\ Runs(A, V, W, p, e, b)
  BY <1>3, <1>4, LinesHere
<1>7. Runs(A, V \ {k}, W, q, e, b)
  BY <1>4, <1>5, <1>6, RunsDelete
<1>8. Deleted(q) \subseteq Deleted(p)
  <2>1. Deleted(Tail(p)) \subseteq Deleted(p)
    BY <1>4, RowsOfTail DEF OfTail
  <2> QED BY <1>5, <2>1
<1>9. \A d \in Clients \ {c} : InTx(d) => AddRows(E[d]) \cap Deleted(q) = {}
  BY <1>4, <1>8, OthersStay
<1>10. PICK U : /\ U = VisibleKeys(c)' /\ U = V \ {k}
                /\ U \subseteq VisibleKeys(c) \cup AddRows(E[c])
                /\ ~b => U \subseteq Keys
  <2>1. ~b => V = Keys
    BY <1>3, <1>6 DEF VisibleKeys, View, Keys
  <2> QED BY <1>2, <1>3, <2>1
<1>11. Runs(AddedKeys, U, SnapKeys(c), q, E[c], b) /\ (b => UNCHANGED db)
  BY <1>2, <1>3, <1>6, <1>7, <1>10
<1> QED BY <1>1, <1>2, <1>5, <1>6, <1>9, <1>10, <1>11, LinesStep

\* Environments are inserted, found and deleted without a row.
LEMMA LinesEnv ==
  ASSUME Isolation = "serializable", NEW E, LinesInv(E), TypeInv', NEW c \in Clients,
         InsertEnv(c) \/ DropEnv(c)
  PROVE  LinesInv(E)'
<1>1. TypeInv /\ OnlyOf(c)
  BY OnlyMine DEF LinesInv
<1>2. PICK w : AtStmt(c, w) /\ w \notin {"insert", "delete"}
  BY DEF InsertEnv, DropEnv
<1>3. PICK r \in Seq(Checks) : r = <<>> /\ Then(c, r)
  <2>1. <<>> \in Seq(Checks)
    OBVIOUS
  <2> QED BY <1>1, <2>1, EnvKeys
<1> QED BY <1>1, <1>2, <1>3, EnvKeys, LinesRead

LEMMA LinesCheck ==
  ASSUME Isolation = "serializable", NEW E, LinesInv(E), TypeInv', NEW c \in Clients,
         ReuseEnv(c) \/ SkipOwners(c) \/ CheckOwners(c) \/ CheckNextOwners(c)
  PROVE  LinesInv(E)'
<1>1. TypeInv /\ OnlyOf(c)
  BY OnlyMine DEF LinesInv
<1>2. UNCHANGED <<db, call, tx, added>>
  BY <1>1, CheckStatements
<1>3. PICK w : AtStmt(c, w) /\ w \notin {"insert", "delete"}
  BY <1>1, CheckStatements
<1>4. PICK r \in Seq(Checks) : Then(c, r)
  BY <1>1, CheckStatements
<1>5. VisibleKeys(c)' = VisibleKeys(c) /\ SnapKeys(c)' = SnapKeys(c)
  BY <1>2, ReadView DEF VisibleKeys, SnapKeys
<1> QED BY <1>1, <1>2, <1>3, <1>4, <1>5, LinesRead
-----------------------------------------------------------------------------
\* While an add has a load to execute, it sees nothing of what it adds.
LEMMA NotYet ==
  ASSUME NEW E, LinesInv(E), NEW c \in Clients, InTx(c)
  PROVE  /\ AtStmt(c, "loadToken") => VisibleKeys(c) \cap AddRows(E[c]) = {}
         /\ AtStmt(c, "loadManifest") => VisibleKeys(c) \cap RowsOf[E[c]] = {}
<1>1. Adding(VisibleKeys(c), SnapKeys(c), prog[c], E[c])
  BY DEF LinesInv, LinesClient, Running, Runs
<1>2. PICK S : S = Statements(AddedKeys) /\ prog[c] \in Seq(S)
  BY DEF LinesInv, TypeInv, ClientType
<1>3. prog[c] # <<>> => Head(prog[c]) \in ToSet(prog[c])
  BY <1>2, HeadTail
<1> QED BY <1>1, <1>3 DEF Adding, Pending, AtStmt

LEMMA LinesToken ==
  ASSUME Isolation = "serializable", NEW E, LinesInv(E), TypeInv', NEW c \in Clients, LoadToken(c)
  PROVE  LinesInv(E)'
<1>1. TypeInv /\ OnlyOf(c) /\ AtStmt(c, "loadToken")
      /\ UNCHANGED <<db, call, bound, held, tx, nextEnv, added, calls, crashed>>
  BY OnlyMine DEF LinesInv, LoadToken
<1>2. CASE Then(c, <<>>)
  <2>1. VisibleKeys(c)' = VisibleKeys(c) /\ SnapKeys(c)' = SnapKeys(c)
    BY <1>1, ReadView DEF VisibleKeys, SnapKeys
  <2>2. <<>> \in Seq(Checks)
    OBVIOUS
  <2> QED BY <1>1, <1>2, <2>1, <2>2, LinesRead
<1>3. ASSUME NEW d \in Existing(c, TokenOf), Then(c, DeleteToken(SelectToken(TokenOf[d])))
      PROVE  LinesInv(E)'
  <2>1. PICK x, k : x \in Docs /\ x = d /\ k = TokenOf[x].key /\ k \in VisibleKeys(c)
    BY <1>3 DEF Existing
  <2>2. PICK r \in Seq(Removals) : r = DeleteToken(SelectToken(TokenOf[x])) /\ Deleted(r) = {k}
    BY <2>1, TokenUnloaded
  <2>3. k \in TokenRowsOf[x] /\ k \in AddRows(x) /\ Deleted(r) \subseteq AddRows(x)
    BY <2>1, <2>2, TokenUnloaded
  <2>4. k \notin RowsOf[x]
    BY <2>1, <2>3, DocRows
  <2>5. UpTheLines(r, Rowed(x, VisibleKeys(c)))
    <3>1. \A s \in Rowed(x, VisibleKeys(c)) : s.over \cap Deleted(r) = {}
      BY <2>1, <2>2, <2>4, DocLines DEF Rowed, Along
    <3> QED BY <3>1, NoLines
  <2>6. InTx(c) => x # E[c]
    BY <1>1, <2>1, <2>3, NotYet
  <2>7. Then(c, r)
    BY <1>3, <2>1, <2>2
  <2> QED BY <1>1, <2>1, <2>2, <2>3, <2>5, <2>6, <2>7, LinesLoad
<1> QED BY <1>2, <1>3 DEF LoadToken

LEMMA LinesManifest ==
  ASSUME Isolation = "serializable", NEW E, LinesInv(E), TypeInv', NEW c \in Clients, LoadManifest(c)
  PROVE  LinesInv(E)'
<1>1. TypeInv /\ OnlyOf(c) /\ AtStmt(c, "loadManifest")
      /\ UNCHANGED <<db, call, bound, tx, nextEnv, added, calls, crashed>>
  BY OnlyMine DEF LinesInv, LoadManifest
<1>2. CASE Then(c, <<>>)
  <2>1. VisibleKeys(c)' = VisibleKeys(c) /\ SnapKeys(c)' = SnapKeys(c)
    BY <1>1, ReadView DEF VisibleKeys, SnapKeys
  <2>2. <<>> \in Seq(Checks)
    OBVIOUS
  <2> QED BY <1>1, <1>2, <2>1, <2>2, LinesRead
<1>3. ASSUME NEW d \in Existing(c, ManifestOf),
             Then(c, DeleteManifest(SelectManifest(ManifestOf[d], VisibleKeys(c))))
      PROVE  LinesInv(E)'
  <2>1. PICK x, k : x \in Docs /\ x = d /\ k = ManifestOf[x].key /\ k \in VisibleKeys(c)
    BY <1>3 DEF Existing
  <2>2. PICK V \in SUBSET RowKeys : V = VisibleKeys(c)
    <3>1. \A r \in View(c).rows : r.key \in RowKeys
      BY <1>1, ViewKnown DEF Content, Rows
    <3> QED BY <3>1 DEF VisibleKeys
  <2>3. PICK r \in Seq(Removals) : r = Unloaded(x, V) /\ Deleted(r) \subseteq AddRows(x)
                                   /\ (UpTo(V, x) => UpTheLines(r, Rowed(x, V)))
    BY <2>1, <2>2, ManifestUnloaded
  <2>4. k \in RowsOf[x] /\ k \in AddRows(x)
    BY <2>1, DocKeys, DocRows
  <2>5. InTx(c) => x # E[c]
    BY <1>1, <2>1, <2>4, NotYet
  <2>6. Then(c, r)
    BY <1>3, <2>1, <2>2, <2>3 DEF Unloaded
  <2>7. UpTo(VisibleKeys(c), x) => UpTheLines(r, Rowed(x, VisibleKeys(c)))
    BY <2>2, <2>3
  <2> QED BY <1>1, <2>1, <2>3, <2>4, <2>5, <2>6, <2>7, LinesLoad
<1> QED BY <1>2, <1>3 DEF LoadManifest
-----------------------------------------------------------------------------
\* What has been added is apart from what is about to be.
LEMMA NewApart ==
  ASSUME added \subseteq Docs, NEW d \in Docs \ added
  PROVE  AddedKeys \cap AddRows(d) = {}
<1>1. ASSUME NEW x \in added PROVE (RowsOf[x] \cup TokenRowsOf[x]) \cap AddRows(d) = {}
  BY RowsApart
<1> QED BY <1>1 DEF AddedKeys

LEMMA KnownKeys ==
  ASSUME TypeInv, NEW c \in Clients
  PROVE  VisibleKeys(c) \subseteq AddedKeys /\ Keys \subseteq AddedKeys
BY ViewKnown DEF VisibleKeys, Keys, Known, TypeInv

\* A call that ends, or that has read nothing yet.
LEMMA LinesApart ==
  ASSUME Isolation = "serializable", NEW E, LinesInv(E), TypeInv', NEW c \in Clients, OnlyOf(c),
         ~InTx(c)', UNCHANGED added,
         Keys' \subseteq Keys \/ (InTx(c) /\ Keys' \subseteq Keys \cup AddRows(E[c])),
         \A d \in Docs : UpTo(Keys', d), NEW p, p = prog'[c], Deleted(p) = {},
         Runs(AddedKeys, Keys', SnapKeys(c)', p, E[c], FALSE)
  PROVE  LinesInv(E)'
<1>1. AddedKeys' = AddedKeys /\ VisibleKeys(c)' = Keys'
  BY DEF AddedKeys, RowsOf, TokenRowsOf, VisibleKeys, View, Keys
<1>2. LinesClient(c, E[c])'
  BY <1>1 DEF LinesClient, Running
<1>3. ASSUME NEW d \in Clients \ {c}
      PROVE  Meets(c, d, E[c], E[d])' /\ Meets(d, c, E[d], E[c])'
  <2>1. Deleted(prog'[c]) = {}
    OBVIOUS
  <2> QED BY <2>1 DEF Meets
<1> QED BY <1>2, <1>3, LinesFrame

LEMMA LinesBeginDelete ==
  ASSUME Isolation = "serializable", NEW E, LinesInv(E), TypeInv', NEW c \in Clients, BeginDelete(c)
  PROVE  LinesInv(E)'
<1>1. TypeInv /\ OnlyOf(c)
  BY OnlyMine DEF LinesInv
<1>2. PICK id : BeginCall(c, "delete", id, <<[do |-> "loadManifest", id |-> id]>>)
                /\ UNCHANGED <<added, tx>>
  BY DEF BeginDelete
<1>3. call'[c].op = "delete" /\ UNCHANGED db
  BY <1>1, <1>2 DEF BeginCall, TypeInv
<1>4. PICK p : p = prog'[c] /\ p = <<[do |-> "loadManifest", id |-> id]>>
  BY <1>1, <1>2 DEF BeginCall, TypeInv
<1>5. PICK A, V, W, e : A = AddedKeys /\ V = Keys' /\ W = SnapKeys(c)' /\ e = E[c] /\ V = Keys
  BY <1>3 DEF Keys
<1>6. \A d \in Docs : UpTo(V, d)
  BY <1>5 DEF LinesInv
<1>7. Runs(A, V, W, p, e, FALSE)
  BY <1>4, <1>6, RunsDeletion
<1>8. Deleted(p) = {}
  <2>1. ToSet(p) = {[do |-> "loadManifest", id |-> id]}
    BY <1>4, OneStatement
  <2> QED BY <2>1 DEF Deleted
<1>9. ~InTx(c)'
  BY <1>3 DEF InTx
<1> QED BY <1>1, <1>2, <1>4, <1>5, <1>6, <1>7, <1>8, <1>9, LinesApart

LEMMA LinesEnd ==
  ASSUME Isolation = "serializable", NEW E, LinesInv(E), TypeInv', NEW c \in Clients,
         Fail(c) \/ Finish(c) \/ Commit(c)
  PROVE  LinesInv(E)'
<1>1. TypeInv /\ OnlyOf(c)
  BY OnlyMine DEF LinesInv
<1>2. UNCHANGED added /\ call'[c] = Idle
  BY <1>1 DEF Fail, Finish, Commit, Return, TypeInv
<1>3. PICK p : p = prog'[c] /\ p = <<>>
  BY <1>1 DEF Fail, Finish, Commit, Return, TypeInv
<1>4. ~InTx(c)'
  BY <1>2 DEF InTx, Idle
<1>5. PICK A, U, W, e : A = AddedKeys /\ U = Keys' /\ W = SnapKeys(c)' /\ e = E[c]
  OBVIOUS
<1>6. /\ U \subseteq Keys \/ (InTx(c) /\ U \subseteq Keys \cup AddRows(E[c]))
      /\ \A d \in Docs : UpTo(U, d)
  <2>1. CASE UNCHANGED db
    BY <1>5, <2>1 DEF Keys, LinesInv
  <2>2. CASE Commit(c)
    <3>1. InTx(c) /\ db' = View(c) /\ tx[c].snap = db /\ AtStmt(c, "commit")
      BY <1>1, <2>2, CommitView DEF Commit
    <3>2. PICK S, V : S = Statements(AddedKeys) /\ V = VisibleKeys(c) /\ U = V
      BY <1>5, <3>1 DEF Keys, VisibleKeys
    <3>3. PICK q \in Seq(S) : q = prog[c] /\ q # <<>> /\ Head(q).do = "commit"
      BY <1>1, <3>1, <3>2 DEF AtStmt, TypeInv, ClientType
    <3>4. PICK X : X = SnapKeys(c) /\ X = Keys
      BY <3>1 DEF SnapKeys, Keys
    <3>5. Runs(A, V, X, q, e, TRUE)
      BY <1>5, <3>1, <3>2, <3>3, <3>4 DEF LinesInv, LinesClient, Running
    <3>6. V \subseteq X \cup AddRows(e) /\ \A d \in Docs : UpTo(V, d)
      BY <3>3, <3>5, RunsCommit
    <3> QED BY <1>5, <3>1, <3>2, <3>4, <3>6
  <2> QED BY <2>1, <2>2 DEF Fail, Finish
<1>7. Runs(A, U, W, p, e, FALSE)
  <2>1. Runs(A, U, W, <<>>, e, FALSE)
    BY <1>6, RunsNothing
  <2> QED BY <1>3, <2>1, Zenon
<1>8. Deleted(p) = {}
  BY <1>3 DEF Deleted, ToSet
<1> QED BY <1>1, <1>2, <1>3, <1>4, <1>5, <1>6, <1>7, <1>8, LinesApart

LEMMA LinesBeginAdd ==
  ASSUME Isolation = "serializable", NEW E, LinesInv(E), TypeInv', NEW c \in Clients, BeginAdd(c)
  PROVE  \E F : LinesInv(F)'
<1>1. TypeInv /\ OnlyOf(c) /\ added \subseteq Docs
  BY OnlyMine DEF LinesInv, TypeInv
<1>2. PICK d \in Docs \ added : /\ BeginCall(c, "add", IdOf[d], AddBytes(d))
                                /\ added' = added \cup {d}
                                /\ tx' = [tx EXCEPT ![c].snap =
                                            IF Isolation = "serializable" THEN db ELSE Empty]
  BY DEF BeginAdd
<1>3. PICK p : p = prog'[c] /\ p = AddBytes(d)
  BY <1>1, <1>2 DEF BeginCall, TypeInv
<1>4. /\ UNCHANGED db /\ InTx(c)' /\ VisibleKeys(c)' = Keys /\ Keys' = Keys
  BY <1>1, BeginView DEF VisibleKeys, Keys
<1>5. SnapKeys(c)' = Keys
  <2>1. tx'[c].snap = db
    <3>1. tx[c] \in Transactions
      BY <1>1 DEF TypeInv, ClientType
    <3> QED BY <1>1, <1>2, <3>1 DEF TypeInv, Transactions
  <2> QED BY <2>1 DEF SnapKeys, Keys
<1>6. AddedKeys \cap AddRows(d) = {}
  BY <1>1, NewApart
<1>7. PICK A, V : A = AddedKeys' /\ V = Keys /\ V \cap AddRows(d) = {} /\ \A x \in Docs : UpTo(V, x)
  BY <1>1, <1>6, KnownKeys DEF LinesInv
<1>8. Runs(A, V, V, p, d, TRUE)
  <2>1. Runs(A, V, V, AddBytes(d), d, TRUE)
    BY <1>7, RunsAdd
  <2> QED BY <1>3, <2>1, Zenon
<1>9. PICK F : F[c] = d /\ \A x \in Clients \ {c} : F[x] = E[x]
  <2> DEFINE G == [x \in Clients |-> IF x = c THEN d ELSE E[x]]
  <2>1. G[c] = d /\ \A x \in Clients \ {c} : G[x] = E[x]
    OBVIOUS
  <2> QED BY <2>1
<1>10. LinesClient(c, F[c])'
  <2>1. Running(c, d)'
    BY <1>3, <1>4, <1>5, <1>7, <1>8 DEF Running
  <2>2. d \in added' /\ Keys' \cap AddRows(d) = {}
    BY <1>2, <1>4, <1>7
  <2> QED BY <1>9, <2>1, <2>2 DEF LinesClient
<1>11. ASSUME NEW x \in Clients \ {c}
       PROVE  Meets(c, x, F[c], F[x])' /\ Meets(x, c, F[x], F[c])'
  <2>1. PICK e : e = E[x] /\ e = F[x]
    BY <1>9
  <2>2. /\ prog'[x] = prog[x] /\ (InTx(x)' <=> InTx(x))
        /\ InTx(x) => View(x)' = View(x)
    BY <1>1, ViewFrame DEF OnlyOf
  <2>3. InTx(x) => VisibleKeys(x)' = VisibleKeys(x)
    BY <2>2 DEF VisibleKeys
  <2>4. InTx(x) => e \in added /\ Keys \cap AddRows(e) = {}
    BY <2>1 DEF LinesInv, LinesClient
  <2>5. Deleted(prog[x]) \subseteq AddedKeys /\ VisibleKeys(x) \subseteq AddedKeys
    BY <1>1, LinesHere, KnownKeys DEF Runs
  <2>6. Deleted(prog'[c]) = {}
    BY <1>3, DocRows
  <2>7. Meets(c, x, d, e)'
    BY <1>6, <2>2, <2>3, <2>4, <2>5 DEF Meets
  <2>8. Meets(x, c, e, d)'
    BY <1>4, <2>2, <2>4, <2>6 DEF Meets
  <2> QED BY <1>9, <2>1, <2>7, <2>8
<1>12. added \subseteq added' /\ Keys' \subseteq Keys /\ \A x \in Docs : UpTo(Keys', x)
  BY <1>2, <1>4 DEF LinesInv
<1>13. LinesInv(F)'
  BY <1>1, <1>9, <1>10, <1>11, <1>12, LinesFrame
<1> QED BY <1>13
-----------------------------------------------------------------------------
LinesHold == \E E : LinesInv(E)

LEMMA LinesInit == Init => LinesHold
<1> SUFFICES ASSUME Init PROVE LinesHold
  OBVIOUS
<1>1. TypeInv
  BY TypeInit
<1>2. Keys = {} /\ \A c \in Clients : prog[c] = <<>> /\ ~InTx(c) /\ VisibleKeys(c) = {}
  BY DEF Init, Keys, Empty, InTx, Idle, VisibleKeys, View
<1>3. PICK K : K = {} /\ K = Keys /\ \A d \in Docs : UpTo(K, d)
  BY <1>2 DEF UpTo
<1>4. PICK E : E = {}
  OBVIOUS
<1>5. ASSUME NEW c \in Clients PROVE LinesClient(c, E[c])
  <2>1. PICK A, W, e, p : A = AddedKeys /\ W = SnapKeys(c) /\ e = E[c] /\ p = prog[c] /\ p = <<>>
                          /\ VisibleKeys(c) = K
    BY <1>2, <1>3
  <2>2. Runs(A, K, W, <<>>, e, FALSE)
    BY <1>3, RunsNothing
  <2>3. Runs(A, K, W, p, e, FALSE)
    BY <2>1, <2>2, Zenon
  <2> QED BY <1>2, <2>1, <2>3 DEF LinesClient, Running
<1>6. \A c \in Clients : \A d \in Clients \ {c} : Meets(c, d, E[c], E[d])
  BY <1>2 DEF Meets
<1>7. LinesInv(E)
  BY <1>1, <1>3, <1>5, <1>6 DEF LinesInv
<1> QED BY <1>7 DEF LinesHold

LEMMA LinesHoldStep ==
  ASSUME Isolation = "serializable", LinesHold, [Next]_vars
  PROVE  LinesHold'
<1>1. PICK E : LinesInv(E)
  BY DEF LinesHold
<1>2. TypeInv'
  BY <1>1, TypeStep DEF LinesInv
<1>3. CASE UNCHANGED vars
  <2>1. \A c \in Clients : (InTx(c)' <=> InTx(c)) /\ VisibleKeys(c)' = VisibleKeys(c)
                           /\ SnapKeys(c)' = SnapKeys(c) /\ prog'[c] = prog[c]
    BY <1>3, ReadView DEF vars, VisibleKeys, SnapKeys
  <2>2. Keys' = Keys /\ AddedKeys' = AddedKeys /\ added' = added
    BY <1>3 DEF vars, Keys, AddedKeys, RowsOf, TokenRowsOf
  <2>3. \A c \in Clients : LinesClient(c, E[c])'
    BY <1>1, <2>1, <2>2 DEF LinesInv, LinesClient, Running
  <2>4. \A c \in Clients : \A d \in Clients \ {c} : Meets(c, d, E[c], E[d])'
    BY <1>1, <2>1 DEF LinesInv, Meets
  <2>5. LinesInv(E)'
    BY <1>1, <1>2, <2>2, <2>3, <2>4 DEF LinesInv
  <2> QED BY <2>5 DEF LinesHold
<1>4. ASSUME NEW c \in Clients, BeginAdd(c) PROVE LinesHold'
  BY <1>1, <1>2, <1>4, LinesBeginAdd DEF LinesHold
<1>5. ASSUME NEW c \in Clients,
             \/ BeginDelete(c) \/ Fail(c) \/ Finish(c) \/ Commit(c)
             \/ LoadToken(c) \/ LoadManifest(c) \/ InsertRow(c) \/ DeleteRow(c)
             \/ ReuseEnv(c) \/ InsertEnv(c) \/ SkipOwners(c) \/ CheckOwners(c)
             \/ CheckNextOwners(c) \/ DropEnv(c)
      PROVE  LinesHold'
  <2>1. LinesInv(E)'
    BY <1>1, <1>2, <1>5, LinesBeginDelete, LinesEnd, LinesToken, LinesManifest, LinesInsert,
       LinesDelete, LinesEnv, LinesCheck
  <2> QED BY <2>1 DEF LinesHold
<1> QED BY <1>3, <1>4, <1>5 DEF Next

LEMMA LinesRetriable == ASSUME LinesHold PROVE Retriable
<1>1. PICK E : LinesInv(E)
  BY DEF LinesHold
<1>2. PICK K \in SUBSET RowKeys : K = Keys /\ \A d \in Docs : UpTo(K, d)
  <2>1. \A r \in db.rows : r.key \in RowKeys
    BY <1>1 DEF LinesInv, TypeInv, Content, Rows
  <2> QED BY <1>1, <2>1 DEF LinesInv, Keys
<1>3. ASSUME NEW d \in Docs
      PROVE  LET left == Keys \cap Removable[d]
             IN IF ManifestOf[d].key \in Keys
                THEN left \subseteq Deleted(DeleteManifest(SelectManifest(ManifestOf[d], Keys)))
                ELSE left = {}
  <2>1. PICK S : S = LinesOf(d) /\ UpTo(K, d)
    BY <1>2
  <2>2. Removable[d] = RowsIn(Standing(S, RowsOf[d]))
    <3>1. ManifestOf[d].key \in RowsOf[d] /\ RowsOf[d] \in SUBSET RowKeys
      BY DocKeys, DocRows
    <3>2. Deleted(Unloaded(d, RowsOf[d])) = RowsIn(Standing(S, RowsOf[d]))
      BY <2>1, <3>1, UnloadedLines
    <3> QED BY <3>2 DEF Removable, Unloaded
  <2>3. K \cap Removable[d] \subseteq RowsIn(Standing(S, K))
    BY <2>1, <2>2 DEF RowsIn, Standing, UpTo
  <2>4. CASE ManifestOf[d].key \in K
    <3>1. Deleted(Unloaded(d, K)) = RowsIn(Standing(S, K))
      BY <2>1, <2>4, UnloadedLines
    <3> QED BY <1>2, <2>3, <2>4, <3>1 DEF Unloaded
  <2>5. CASE ManifestOf[d].key \notin K
    <3>1. RowsIn(Standing(S, K)) = {}
      BY <2>1, <2>5, UnloadedLines
    <3> QED BY <1>2, <2>3, <2>5, <3>1
  <2> QED BY <2>4, <2>5
<1> QED BY <1>3 DEF Retriable

\* Under serializable transactions a delete can be repeated whatever has happened
\* (store.go:400-407): it may have been stopped after any statement, another client
\* may have deleted or replaced the same manifest meanwhile, and still, while there
\* are rows it would have removed, the manifest's row is there and every one of them
\* is found from it.
THEOREM DeletesAreRetriable ==
  ASSUME Isolation = "serializable"
  PROVE  Spec => []Retriable
<1>1. Init => LinesHold
  BY LinesInit
<1>2. LinesHold /\ [Next]_vars => LinesHold'
  BY LinesHoldStep
<1>3. LinesHold => Retriable
  BY LinesRetriable
<1> QED BY <1>1, <1>2, <1>3, PTL DEF Spec

\* What DeleteManifest removes of a manifest that is all there: every row of it but
\* those of the tables Forgotten.
LEMMA AllReached ==
  ASSUME NEW d \in Docs
  PROVE  RowsOf[d] \subseteq Removable[d] \cup InsertedInto(InsertManifest(ManifestOf[d]), Forgotten)
<1>1. PICK n \in Manifests : n = ManifestOf[d]
  BY RowStoreAssumption
<1>2. RowsOf[d] = Inserted(InsertManifest(n)) /\ Has(RowsOf[d], InsertManifest(n))
  BY <1>1 DEF RowsOf, Has
<1>3. Gone(InsertManifest(n), DeleteManifest(SelectManifest(n, RowsOf[d])))
  BY <1>2, ManifestReached
<1>4. Removable[d] = Deleted(DeleteManifest(SelectManifest(n, RowsOf[d])))
  BY <1>1 DEF Removable
<1> QED BY <1>1, <1>2, <1>3, <1>4 DEF Gone

\* Under serializable transactions, and whatever documents are added: once a manifest's
\* row is gone, no other row of it is left, in any of the twenty-odd tables a document
\* may have rows in, but for those of the four that are Forgotten, not even while others
\* add and delete or after a delete that stopped (store.go:397-399).
THEOREM NothingIsLeft ==
  ASSUME Isolation = "serializable"
  PROVE  Spec => []NothingLeft
<1>1. Retriable => NothingLeft
  BY AllReached DEF Retriable, NothingLeft
<1>2. Spec => []Retriable
  BY DeletesAreRetriable
<1> QED BY <1>1, <1>2, PTL
-----------------------------------------------------------------------------
(* Documents that nobody has begun to delete *)

\* The row of a manifest is deleted after the others of its document.
RootLast(p, d) ==
  \A k \in RowsOf[d] : \A i : Does(p, i, "delete", k) =>
    \E j \in Nat : i <= j /\ Does(p, j, "delete", ManifestOf[d].key)

\* A call for the manifest ID id looks for no manifest with another, and deletes none.
Aims(p, id) ==
  /\ \A d \in Docs : RootLast(p, d)
  /\ \A d \in Docs : Deleted(p) \cap RowsOf[d] # {} => id = IdOf[d]
  /\ \A s \in ToSet(p) : s.do = "loadManifest" => s.id = id

LEMMA AimsTail ==
  ASSUME NEW S, NEW p \in Seq(S), p # <<>>, NEW id, Aims(p, id)
  PROVE  Aims(Tail(p), id)
<1>1. Deleted(Tail(p)) \subseteq Deleted(p) /\ ToSet(Tail(p)) \subseteq ToSet(p)
  BY RowsOfTail, HeadTail DEF OfTail
<1>2. ASSUME NEW d \in Docs, NEW k \in RowsOf[d], NEW i, Does(Tail(p), i, "delete", k)
      PROVE  \E j \in Nat : i <= j /\ Does(Tail(p), j, "delete", ManifestOf[d].key)
  <2>1. i \in Nat /\ 1 <= i /\ i + 1 \in Nat /\ Does(p, i + 1, "delete", k)
    BY <1>2, DoesTail, HeadTail DEF Does
  <2>2. PICK j \in Nat : i + 1 <= j /\ Does(p, j, "delete", ManifestOf[d].key)
    BY <2>1 DEF Aims, RootLast
  <2>3. j # 1
    BY <2>1, <2>2
  <2>4. j - 1 \in Nat /\ Does(Tail(p), j - 1, "delete", ManifestOf[d].key)
    BY <2>2, <2>3, DoesTail
  <2>5. i <= j - 1
    BY <2>1, <2>2
  <2> QED BY <2>4, <2>5
<1> QED BY <1>1, <1>2 DEF Aims, RootLast

LEMMA AimsJoin ==
  ASSUME NEW S, NEW p \in Seq(S), NEW q \in Seq(S), NEW id, Aims(p, id), Aims(q, id)
  PROVE  Aims(p \o q, id)
<1>1. Deleted(p \o q) = Deleted(p) \cup Deleted(q) /\ ToSet(p \o q) = ToSet(p) \cup ToSet(q)
  BY DeletedJoin, ToSetJoin
<1>2. ASSUME NEW d \in Docs, NEW k \in RowsOf[d], NEW i, Does(p \o q, i, "delete", k)
      PROVE  \E j \in Nat : i <= j /\ Does(p \o q, j, "delete", ManifestOf[d].key)
  <2>1. CASE Does(p, i, "delete", k)
    <3>1. PICK j \in Nat : i <= j /\ Does(p, j, "delete", ManifestOf[d].key)
      BY <2>1 DEF Aims, RootLast
    <3>2. Does(p \o q, j, "delete", ManifestOf[d].key)
      BY <3>1, DoesJoin
    <3> QED BY <3>1, <3>2
  <2>2. CASE i - Len(p) \in Nat /\ Does(q, i - Len(p), "delete", k)
    <3>1. PICK m \in Nat : m = i - Len(p) /\ Does(q, m, "delete", k)
      BY <2>2
    <3>2. PICK j \in Nat : m <= j /\ Does(q, j, "delete", ManifestOf[d].key)
      BY <3>1 DEF Aims, RootLast
    <3>3. Len(p) + j \in Nat /\ Does(p \o q, Len(p) + j, "delete", ManifestOf[d].key)
      BY <3>2, DoesJoin
    <3>4. p \o q \in Seq(S) /\ Len(p) \in Nat
      OBVIOUS
    <3>5. i \in Nat
      BY <1>2, <3>4, NumbersOf
    <3>6. i <= Len(p) + j
      BY <3>1, <3>2, <3>4, <3>5
    <3> QED BY <3>3, <3>6
  <2> QED BY <1>2, <2>1, <2>2, DoesJoin
<1> QED BY <1>1, <1>2 DEF Aims, RootLast

\* A program that deletes no row of a manifest.
LEMMA AimsNowhere ==
  ASSUME NEW p, NEW id, \A d \in Docs : Deleted(p) \cap RowsOf[d] = {},
         \A s \in ToSet(p) : s.do = "loadManifest" => s.id = id
  PROVE  Aims(p, id)
BY DeletedDoes DEF Aims, RootLast

LEMMA AimsChecks ==
  ASSUME NEW r \in Seq(Checks), NEW id
  PROVE  Aims(r, id)
<1>1. \A s \in Checks : s.do # "loadManifest"
  BY DEF Checks
<1>2. ToSet(r) \subseteq Checks
  BY DEF ToSet
<1>3. Deleted(r) = {}
  BY ChecksDelete
<1> QED BY <1>1, <1>2, <1>3, AimsNowhere

LEMMA AimsToken ==
  ASSUME NEW x \in Docs, NEW id
  PROVE  Aims(DeleteToken(SelectToken(TokenOf[x])), id)
<1>1. PICK r \in Seq(Removals) : r = DeleteToken(SelectToken(TokenOf[x])) /\ Deleted(r) = {TokenOf[x].key}
  BY TokenUnloaded
<1>2. \A s \in ToSet(r) : s.do # "loadManifest"
  <2>1. \A s \in Removals : s.do # "loadManifest"
    BY DEF Removals
  <2>2. ToSet(r) \subseteq Removals
    BY DEF ToSet
  <2> QED BY <2>1, <2>2
<1>3. \A d \in Docs : Deleted(r) \cap RowsOf[d] = {}
  <2>1. TokenOf[x].key \in TokenRowsOf[x] /\ TokenRowsOf[x] \cap RowsOf[x] = {}
    BY DocKeys, DocRows
  <2>2. \A d \in Docs : d # x => TokenRowsOf[x] \cap RowsOf[d] = {}
    BY RowsApart, DocRows
  <2> QED BY <1>1, <2>1, <2>2
<1>4. Aims(r, id)
  BY <1>2, <1>3, AimsNowhere
<1> QED BY <1>1, <1>4, Zenon

\* DeleteManifest ends with the row of the manifest it has loaded.
LEMMA RootUnloaded ==
  ASSUME NEW x \in Docs, NEW V
  PROVE  \E a \in Seq(Removals), b \in Seq(Removals) :
           /\ Unloaded(x, V) = a \o b /\ Len(b) = 1
           /\ Does(b, 1, "delete", ManifestOf[x].key)
<1>1. PICK n \in Manifests : n = ManifestOf[x]
  BY RowStoreAssumption
<1>2. PICK l \in AnyManifests : l = SelectManifest(n, V) /\ l.key = n.key
  <2>1. SelectManifest(n, V).key = n.key
    BY DEF SelectManifest, Manifests
  <2>2. SelectManifest(n, V) \in AnyManifests
    BY SelectManifestIn
  <2> QED BY <2>1, <2>2, Zenon
<1>3. PICK a1 \in Seq(Removals) : a1 = Each(l.Entities, DeleteEntity)
  <2>1. l.Entities \in Seq(Entities)
    BY DEF AnyManifests
  <2>2. Each(l.Entities, DeleteEntity) \in Seq(Removals)
    BY <2>1, RemovalsRemove, EachEntityDeleted
  <2> QED BY <2>2, Zenon
<1>4. PICK a2 \in Seq(Removals) : a2 = Each(l.ModuleTags, DeleteModuleTag)
  <2>1. l.ModuleTags \in Seq(ModuleTags)
    BY DEF AnyManifests
  <2>2. Each(l.ModuleTags, DeleteModuleTag) \in Seq(Removals)
    BY <2>1, RemovalsRemove, EachModuleTagDeleted
  <2> QED BY <2>2, Zenon
<1>5. PICK a3 \in Seq(Removals) : a3 = Each(l.DependentRIMs, DeleteLocator)
  <2>1. l.DependentRIMs \in Seq(Locators)
    BY DEF AnyManifests
  <2>2. Each(l.DependentRIMs, DeleteLocator) \in Seq(Removals)
    BY <2>1, RemovalsRemove, EachLocatorDeleted
  <2> QED BY <2>2, Zenon
<1>6. PICK a \in Seq(Removals) : a = a1 \o a2 \o a3
  <2>1. a1 \o a2 \o a3 \in Seq(Removals)
    OBVIOUS
  <2> QED BY <2>1, Zenon
<1>7. PICK b \in Seq(Removals) : b = Delete(l) /\ Len(b) = 1 /\ Does(b, 1, "delete", n.key)
  <2>1. l.key \in RowKeys
    BY DEF AnyManifests
  <2>2. Delete(l) \in Seq(Removals)
    BY <2>1, DeleteFacts
  <2>3. Len(Delete(l)) = 1 /\ Does(Delete(l), 1, "delete", n.key)
    BY <1>2 DEF Delete, Does
  <2> QED BY <2>2, <2>3, Zenon
<1>8. Unloaded(x, V) = a \o b
  BY <1>1, <1>2, <1>3, <1>4, <1>5, <1>6, <1>7, Zenon DEF Unloaded, DeleteManifest
<1> QED BY <1>1, <1>7, <1>8

LEMMA AimsManifest ==
  ASSUME NEW x \in Docs, NEW V \in SUBSET RowKeys, ManifestOf[x].key \in V
  PROVE  Aims(Unloaded(x, V), IdOf[x])
<1>1. PICK a \in Seq(Removals), b \in Seq(Removals) :
        /\ Unloaded(x, V) = a \o b /\ Len(b) = 1 /\ Does(b, 1, "delete", ManifestOf[x].key)
  BY RootUnloaded
<1>2. PICK r \in Seq(Removals) : r = Unloaded(x, V) /\ r = a \o b /\ Deleted(r) \subseteq RowsOf[x]
  <2>1. Unloaded(x, V) \in Seq(Removals)
        /\ Deleted(Unloaded(x, V)) = RowsIn(Standing(LinesOf(x), V))
    BY UnloadedLines
  <2>2. RowsIn(Standing(LinesOf(x), V)) \subseteq RowsOf[x]
    BY DocLines DEF RowsIn, Standing, Along
  <2> QED BY <1>1, <2>1, <2>2, Zenon
<1>3. Len(a) \in Nat /\ Len(r) = Len(a) + 1
  <2>1. ASSUME NEW S, NEW u \in Seq(S), NEW w \in Seq(S)
        PROVE  Len(u \o w) = Len(u) + Len(w) /\ Len(u) \in Nat
    OBVIOUS
  <2>2. Len(a \o b) = Len(a) + Len(b) /\ Len(a) \in Nat
    BY <2>1
  <2> QED BY <1>1, <1>2, <2>2, Zenon
<1>4. PICK m : m = Len(a) + 1 /\ Does(r, m, "delete", ManifestOf[x].key)
  <2>1. Does(a \o b, Len(a) + 1, "delete", ManifestOf[x].key)
    BY <1>1, DoesJoin
  <2> QED BY <1>2, <2>1, Zenon
<1>5. ASSUME NEW d \in Docs, NEW k \in RowsOf[d], NEW i, Does(r, i, "delete", k)
      PROVE  \E j \in Nat : i <= j /\ Does(r, j, "delete", ManifestOf[d].key)
  <2>1. k \in Deleted(r)
    BY <1>5, DeletedDoes
  <2>2. d = x
    BY <1>2, <2>1, RowsApart
  <2>3. i \in Nat /\ i <= Len(r)
    BY <1>5, NumbersOf
  <2>4. m \in Nat /\ i <= m
    BY <1>3, <1>4, <2>3
  <2> QED BY <1>4, <2>2, <2>4
<1>6. \A d \in Docs : Deleted(r) \cap RowsOf[d] # {} => d = x
  BY <1>2, RowsApart
<1>7. \A s \in ToSet(r) : s.do # "loadManifest"
  <2>1. \A s \in Removals : s.do # "loadManifest"
    BY DEF Removals
  <2>2. ToSet(r) \subseteq Removals
    BY DEF ToSet
  <2> QED BY <2>1, <2>2
<1>8. Aims(r, IdOf[x])
  BY <1>5, <1>6, <1>7 DEF Aims, RootLast
<1> QED BY <1>2, <1>8, Zenon

LEMMA AimsAdd ==
  ASSUME NEW d \in Docs
  PROVE  Aims(AddBytes(d), IdOf[d])
<1>1. PICK p, q, x, y, z \in Seq(AddStatements) :
           /\ AddBytes(d) = x \o p \o y \o q \o z
           /\ p = InsertToken(TokenOf[d]) /\ p \in Seq(Additions(TokenRowsOf[d]))
           /\ q = InsertManifest(ManifestOf[d]) /\ q \in Seq(Additions(RowsOf[d]))
           /\ x = <<[do |-> "loadToken", id |-> IdOf[d]]>>
           /\ y = <<[do |-> "loadManifest", id |-> IdOf[d]]>> /\ z = <<[do |-> "commit"]>>
  BY AddShape
<1>2. /\ ToSet(x) = {[do |-> "loadToken", id |-> IdOf[d]]}
      /\ ToSet(y) = {[do |-> "loadManifest", id |-> IdOf[d]]} /\ ToSet(z) = {[do |-> "commit"]}
  BY <1>1, OneStatement
<1>3. /\ \A s \in ToSet(p) : s.do \in {"insert", "findEnv"}
      /\ \A s \in ToSet(q) : s.do \in {"insert", "findEnv"}
  <2>1. \A K : \A s \in Additions(K) : s.do \in {"insert", "findEnv"}
    BY DEF Additions
  <2>2. ToSet(p) \subseteq Additions(TokenRowsOf[d]) /\ ToSet(q) \subseteq Additions(RowsOf[d])
    BY <1>1 DEF ToSet
  <2> QED BY <2>1, <2>2
<1>4. PICK a \in Seq(AddStatements) : a = x \o p /\ ToSet(a) = ToSet(x) \cup ToSet(p)
  <2>1. x \o p \in Seq(AddStatements) /\ ToSet(x \o p) = ToSet(x) \cup ToSet(p)
    BY ToSetJoin
  <2> QED BY <2>1, Zenon
<1>5. PICK b \in Seq(AddStatements) : b = a \o y /\ ToSet(b) = ToSet(a) \cup ToSet(y)
  <2>1. a \o y \in Seq(AddStatements) /\ ToSet(a \o y) = ToSet(a) \cup ToSet(y)
    BY ToSetJoin
  <2> QED BY <2>1, Zenon
<1>6. PICK e \in Seq(AddStatements) : e = b \o q /\ ToSet(e) = ToSet(b) \cup ToSet(q)
  <2>1. b \o q \in Seq(AddStatements) /\ ToSet(b \o q) = ToSet(b) \cup ToSet(q)
    BY ToSetJoin
  <2> QED BY <2>1, Zenon
<1>7. PICK f \in Seq(AddStatements) : f = e \o z /\ ToSet(f) = ToSet(e) \cup ToSet(z)
  <2>1. e \o z \in Seq(AddStatements) /\ ToSet(e \o z) = ToSet(e) \cup ToSet(z)
    BY ToSetJoin
  <2> QED BY <2>1, Zenon
<1>8. AddBytes(d) = f
  BY <1>1, <1>4, <1>5, <1>6, <1>7, Zenon
<1>9. \A s \in ToSet(f) : s.do = "loadManifest" => s.id = IdOf[d]
  <2>1. /\ \A s \in ToSet(x) : s.do = "loadToken"
        /\ \A s \in ToSet(y) : s.id = IdOf[d]
        /\ \A s \in ToSet(z) : s.do = "commit"
    BY <1>2
  <2> QED BY <1>3, <1>4, <1>5, <1>6, <1>7, <2>1
<1>10. Deleted(f) = {}
  BY <1>8, DocRows
<1>11. Aims(f, IdOf[d])
  BY <1>9, <1>10, AimsNowhere
<1> QED BY <1>8, <1>11, Zenon

LEMMA AimsNothing == \A id : Aims(<<>>, id)
<1> TAKE id
<1>1. Deleted(<<>>) = {} /\ ToSet(<<>>) = {}
  BY DEF Deleted, ToSet
<1> QED BY <1>1, AimsNowhere

LEMMA AimsDeletion == \A id : Aims(<<[do |-> "loadManifest", id |-> id]>>, id)
<1> TAKE id
<1>1. PICK p : p = <<[do |-> "loadManifest", id |-> id]>>
  OBVIOUS
<1>2. ToSet(p) = {[do |-> "loadManifest", id |-> id]}
  BY <1>1, OneStatement
<1>3. Deleted(p) = {}
  BY <1>2 DEF Deleted
<1>4. Aims(p, id)
  BY <1>2, <1>3, AimsNowhere
<1> QED BY <1>1, <1>4
-----------------------------------------------------------------------------
\* A call of DeleteManifest that has begun to delete the document d: its manifest's
\* row is still to come.
Taking(c, d) ==
  call[c].op = "delete" /\ call[c].id = IdOf[d] /\ ManifestOf[d].key \in Deleted(prog[c])

\* A manifest that is there is whole, or is being deleted, or a deletion has stopped.
Accounted(d) ==
  \/ crashed \/ ManifestOf[d].key \notin Keys \/ RowsOf[d] \subseteq Keys
  \/ \E c \in Clients : Taking(c, d)

\* A transaction removes nothing of a manifest it began with, or all of it.
Kept(c) ==
  InTx(c) =>
    \A d \in Docs : ManifestOf[d].key \in VisibleKeys(c) =>
      \/ SnapKeys(c) \cap RowsOf[d] \subseteq VisibleKeys(c)
      \/ ManifestOf[d].key \in Deleted(prog[c])

WholeInv ==
  /\ LinesHold
  /\ \A c \in Clients : Aims(prog[c], call[c].id) /\ Kept(c)
  /\ \A d \in Docs : Accounted(d)

LEMMA WholeTypes == ASSUME WholeInv PROVE TypeInv
BY DEF WholeInv, LinesHold, LinesInv

LEMMA WholeFrame ==
  ASSUME Isolation = "serializable", WholeInv, LinesHold', NEW c \in Clients, OnlyOf(c),
         Aims(prog'[c], call'[c].id), Kept(c)', \A d \in Docs : Accounted(d)'
  PROVE  WholeInv'
<1>1. ASSUME NEW x \in Clients \ {c} PROVE Aims(prog'[x], call'[x].id) /\ Kept(x)'
  <2>1. /\ call'[x] = call[x] /\ prog'[x] = prog[x] /\ tx'[x] = tx[x]
        /\ InTx(x)' <=> InTx(x)
        /\ InTx(x) => View(x)' = View(x)
    BY ViewFrame DEF OnlyOf
  <2>2. SnapKeys(x)' = SnapKeys(x) /\ (InTx(x) => VisibleKeys(x)' = VisibleKeys(x))
    BY <2>1 DEF SnapKeys, VisibleKeys
  <2>3. Aims(prog[x], call[x].id) /\ Kept(x)
    BY DEF WholeInv
  <2>4. Kept(x)'
    BY <2>1, <2>2, <2>3 DEF Kept
  <2> QED BY <2>1, <2>3, <2>4
<1>2. \A x \in Clients : Aims(prog'[x], call'[x].id) /\ Kept(x)'
  BY <1>1
<1> QED BY <1>2 DEF WholeInv

\* Nobody stops deleting, and no row goes.
LEMMA AccountedStays ==
  ASSUME WholeInv, UNCHANGED db, NEW c \in Clients, OnlyOf(c), crashed => crashed',
         \A d \in Docs : Taking(c, d) => crashed' \/ Taking(c, d)'
  PROVE  \A d \in Docs : Accounted(d)'
<1> SUFFICES ASSUME NEW d \in Docs PROVE Accounted(d)'
  OBVIOUS
<1>1. Accounted(d) /\ Keys' = Keys /\ RowsOf' = RowsOf
  BY DEF WholeInv, Keys, RowsOf
<1>2. ASSUME NEW x \in Clients, Taking(x, d) PROVE crashed' \/ Taking(x, d)'
  <2>1. CASE x = c
    BY <1>2, <2>1
  <2>2. CASE x # c
    BY <1>2, <2>2 DEF Taking, OnlyOf
  <2> QED BY <2>1, <2>2
<1> QED BY <1>1, <1>2 DEF Accounted

\* The program of a call whose statement has been executed.
LEMMA NextAims ==
  ASSUME WholeInv, NEW c \in Clients, NEW w, AtStmt(c, w), UNCHANGED call,
         NEW r \in Seq(Statements(AddedKeys)), Aims(r, call[c].id), Then(c, r)
  PROVE  /\ Aims(prog'[c], call'[c].id)
         /\ w # "delete" => Deleted(prog[c]) \subseteq Deleted(prog'[c])
         /\ w = "delete" => Deleted(prog[c]) \subseteq Deleted(prog'[c]) \cup {Stmt(c).key}
<1>1. TypeInv
  BY WholeTypes
<1>2. PICK S, i, k : S = Statements(AddedKeys) /\ i = call[c].id /\ k = Stmt(c).key
  OBVIOUS
<1>3. PICK p \in Seq(S) : /\ p = prog[c] /\ p # <<>> /\ Head(p).do = w /\ Head(p).key = k
                          /\ Aims(p, i)
  BY <1>1, <1>2 DEF AtStmt, Stmt, TypeInv, ClientType, WholeInv
<1>4. PICK q \in Seq(S) : /\ q = Tail(p) /\ Aims(q, i)
                          /\ Deleted(p) = (IF w = "delete" THEN {k} ELSE {}) \cup Deleted(q)
  <2>1. Deleted(p) = (IF Head(p).do = "delete" THEN {Head(p).key} ELSE {}) \cup Deleted(Tail(p))
    BY <1>3, RowsOfTail DEF OfTail
  <2>2. Tail(p) \in Seq(S) /\ Aims(Tail(p), i)
    BY <1>3, AimsTail
  <2> QED BY <1>3, <2>1, <2>2, Zenon
<1>5. r \in Seq(S) /\ Aims(r, i)
  BY <1>2
<1>6. PICK s \in Seq(S) : s = r \o q /\ Deleted(s) = Deleted(r) \cup Deleted(q)
  <2>1. PICK s \in Seq(S) : DeletesBoth(r, q, s)
    BY <1>5, BothDeleted
  <2> QED BY <2>1 DEF DeletesBoth
<1>7. Aims(s, i)
  <2>1. Aims(r \o q, i)
    BY <1>4, <1>5, AimsJoin
  <2> QED BY <1>6, <2>1, Zenon
<1>8. prog'[c] = s
  BY <1>1, <1>3, <1>4, <1>6 DEF Then, TypeInv
<1> QED BY <1>2, <1>3, <1>4, <1>6, <1>7, <1>8

\* A step that reads, or that leaves the rows alone.
LEMMA WholeRead ==
  ASSUME Isolation = "serializable", WholeInv, LinesHold', NEW c \in Clients, OnlyOf(c),
         UNCHANGED <<call, crashed>>, Keys' = Keys,
         SnapKeys(c)' = SnapKeys(c), VisibleKeys(c)' = VisibleKeys(c),
         NEW w, AtStmt(c, w), w # "delete",
         NEW r \in Seq(Statements(AddedKeys)), Aims(r, call[c].id), Then(c, r)
  PROVE  WholeInv'
<1>1. Aims(prog'[c], call'[c].id) /\ Deleted(prog[c]) \subseteq Deleted(prog'[c])
  BY NextAims
<1>2. InTx(c)' <=> InTx(c)
  BY DEF InTx
<1>3. Kept(c)'
  BY <1>1, <1>2 DEF WholeInv, Kept, RowsOf
<1>4. ASSUME NEW d \in Docs PROVE Accounted(d)'
  <2>1. Accounted(d) /\ RowsOf' = RowsOf
    BY DEF WholeInv, RowsOf
  <2>2. ASSUME NEW x \in Clients, Taking(x, d) PROVE Taking(x, d)'
    <3>1. CASE x = c
      BY <1>1, <2>2, <3>1 DEF Taking
    <3>2. CASE x # c
      BY <2>2, <3>2 DEF Taking, OnlyOf
    <3> QED BY <3>1, <3>2
  <2> QED BY <2>1, <2>2 DEF Accounted
<1> QED BY <1>1, <1>3, <1>4, WholeFrame
-----------------------------------------------------------------------------
LEMMA WholeChecks ==
  ASSUME Isolation = "serializable", WholeInv, LinesHold', NEW c \in Clients,
         ReuseEnv(c) \/ SkipOwners(c) \/ CheckOwners(c) \/ CheckNextOwners(c)
  PROVE  WholeInv'
<1>1. TypeInv /\ OnlyOf(c) /\ UNCHANGED <<db, call, tx, added, crashed>>
  BY WholeTypes, OnlyMine, CheckStatements
<1>2. PICK w : AtStmt(c, w) /\ w # "delete"
  BY <1>1, CheckStatements
<1>3. PICK r \in Seq(Checks) : Then(c, r)
  BY <1>1, CheckStatements
<1>4. r \in Seq(Statements(AddedKeys)) /\ Aims(r, call[c].id)
  <2>1. Checks \subseteq Statements(AddedKeys)
    BY DEF Statements, DeleteStatements
  <2>2. r \in Seq(Statements(AddedKeys))
    BY <2>1
  <2> QED BY <2>2, AimsChecks
<1>5. VisibleKeys(c)' = VisibleKeys(c) /\ SnapKeys(c)' = SnapKeys(c) /\ Keys' = Keys
  BY <1>1, ReadView DEF VisibleKeys, SnapKeys, Keys
<1> QED BY <1>1, <1>2, <1>3, <1>4, <1>5, WholeRead
-----------------------------------------------------------------------------
LEMMA WholeEnv ==
  ASSUME Isolation = "serializable", WholeInv, LinesHold', NEW c \in Clients,
         InsertEnv(c) \/ DropEnv(c)
  PROVE  WholeInv'
<1>1. TypeInv /\ OnlyOf(c)
  BY WholeTypes, OnlyMine
<1>2. PICK w : AtStmt(c, w) /\ w # "delete"
  BY DEF InsertEnv, DropEnv
<1>3. PICK r \in Seq(Statements(AddedKeys)) : r = <<>> /\ Aims(r, call[c].id)
  <2>1. <<>> \in Seq(Statements(AddedKeys))
    OBVIOUS
  <2> QED BY <2>1, AimsNothing
<1>4. Then(c, r)
  BY <1>1, <1>3, EnvKeys
<1> QED BY <1>1, <1>2, <1>3, <1>4, EnvKeys, WholeRead

LEMMA WholeToken ==
  ASSUME Isolation = "serializable", WholeInv, LinesHold', NEW c \in Clients, LoadToken(c)
  PROVE  WholeInv'
<1>1. /\ TypeInv /\ OnlyOf(c) /\ AtStmt(c, "loadToken")
      /\ UNCHANGED <<db, call, bound, held, tx, nextEnv, added, calls, crashed>>
  BY WholeTypes, OnlyMine DEF LoadToken
<1>2. PICK r \in Seq(Statements(AddedKeys)) : Aims(r, call[c].id) /\ Then(c, r)
  <2>1. CASE Then(c, <<>>)
    <3>1. <<>> \in Seq(Statements(AddedKeys))
      OBVIOUS
    <3> QED BY <2>1, <3>1, AimsNothing
  <2>2. ASSUME NEW d \in Existing(c, TokenOf), Then(c, DeleteToken(SelectToken(TokenOf[d])))
        PROVE  \E r \in Seq(Statements(AddedKeys)) : Aims(r, call[c].id) /\ Then(c, r)
    <3>1. d \in Docs
      BY DEF Existing
    <3>2. PICK r \in Seq(Removals) : r = DeleteToken(SelectToken(TokenOf[d]))
      BY <3>1, TokenUnloaded
    <3>3. r \in Seq(Statements(AddedKeys))
      <4>1. Removals \subseteq Statements(AddedKeys)
        BY DEF Statements, DeleteStatements
      <4> QED BY <4>1
    <3>4. Aims(r, call[c].id)
      BY <3>1, <3>2, AimsToken
    <3> QED BY <2>2, <3>2, <3>3, <3>4
  <2> QED BY <2>1, <2>2 DEF LoadToken
<1>3. VisibleKeys(c)' = VisibleKeys(c) /\ SnapKeys(c)' = SnapKeys(c) /\ Keys' = Keys
  BY <1>1, ReadView DEF VisibleKeys, SnapKeys, Keys
<1>4. PICK w : w = "loadToken" /\ AtStmt(c, w) /\ w # "delete"
  BY <1>1
<1> QED BY <1>1, <1>2, <1>3, <1>4, WholeRead

LEMMA WholeManifest ==
  ASSUME Isolation = "serializable", WholeInv, LinesHold', NEW c \in Clients, LoadManifest(c)
  PROVE  WholeInv'
<1>1. /\ TypeInv /\ OnlyOf(c) /\ AtStmt(c, "loadManifest")
      /\ UNCHANGED <<db, call, bound, tx, nextEnv, added, calls, crashed>>
  BY WholeTypes, OnlyMine DEF LoadManifest
<1>2. Stmt(c).id = call[c].id
  <2>1. PICK S, p : S = Statements(AddedKeys) /\ p \in Seq(S) /\ p = prog[c] /\ p # <<>>
    BY <1>1 DEF AtStmt, TypeInv, ClientType
  <2>2. Head(p) \in ToSet(p)
    BY <2>1, HeadTail
  <2> QED BY <1>1, <2>1, <2>2 DEF AtStmt, Stmt, WholeInv, Aims
<1>3. PICK r \in Seq(Statements(AddedKeys)) : Aims(r, call[c].id) /\ Then(c, r)
  <2>1. CASE Then(c, <<>>)
    <3>1. <<>> \in Seq(Statements(AddedKeys))
      OBVIOUS
    <3> QED BY <2>1, <3>1, AimsNothing
  <2>2. ASSUME NEW d \in Existing(c, ManifestOf),
               Then(c, DeleteManifest(SelectManifest(ManifestOf[d], VisibleKeys(c))))
        PROVE  \E r \in Seq(Statements(AddedKeys)) : Aims(r, call[c].id) /\ Then(c, r)
    <3>1. d \in Docs /\ IdOf[d] = call[c].id /\ ManifestOf[d].key \in VisibleKeys(c)
      BY <1>2, <2>2 DEF Existing
    <3>2. PICK V \in SUBSET RowKeys : V = VisibleKeys(c)
      <4>1. \A r \in View(c).rows : r.key \in RowKeys
        BY <1>1, ViewKnown DEF Content, Rows
      <4> QED BY <4>1 DEF VisibleKeys
    <3>3. PICK r \in Seq(Removals) : r = Unloaded(d, V)
      BY <3>1, <3>2, ManifestUnloaded
    <3>4. r \in Seq(Statements(AddedKeys))
      <4>1. Removals \subseteq Statements(AddedKeys)
        BY DEF Statements, DeleteStatements
      <4> QED BY <4>1
    <3>5. Aims(r, call[c].id)
      <4>1. Aims(Unloaded(d, V), IdOf[d])
        BY <3>1, <3>2, AimsManifest
      <4> QED BY <3>1, <3>3, <4>1, Zenon
    <3>6. Then(c, r)
      BY <2>2, <3>2, <3>3 DEF Unloaded
    <3> QED BY <3>4, <3>5, <3>6
  <2> QED BY <2>1, <2>2 DEF LoadManifest
<1>4. VisibleKeys(c)' = VisibleKeys(c) /\ SnapKeys(c)' = SnapKeys(c) /\ Keys' = Keys
  BY <1>1, ReadView DEF VisibleKeys, SnapKeys, Keys
<1>5. PICK w : w = "loadManifest" /\ AtStmt(c, w) /\ w # "delete"
  BY <1>1
<1> QED BY <1>1, <1>3, <1>4, <1>5, WholeRead
-----------------------------------------------------------------------------
LEMMA WholeInsert ==
  ASSUME Isolation = "serializable", WholeInv, LinesHold', NEW c \in Clients, InsertRow(c)
  PROVE  WholeInv'
<1>1. TypeInv /\ OnlyOf(c)
  BY WholeTypes, OnlyMine
<1>2. /\ AtStmt(c, "insert") /\ InTx(c) /\ UNCHANGED <<call, added, crashed, db>> /\ Then(c, <<>>)
      /\ VisibleKeys(c)' = VisibleKeys(c) \cup {Stmt(c).key} /\ SnapKeys(c)' = SnapKeys(c)
  BY <1>1, InsertKeys
<1>3. PICK e : Adding(VisibleKeys(c), SnapKeys(c), prog[c], e) /\ e \in Docs
  <2>1. PICK E : LinesInv(E)
    BY DEF WholeInv, LinesHold
  <2>2. Runs(AddedKeys, VisibleKeys(c), SnapKeys(c), prog[c], E[c], TRUE)
    BY <1>2, <2>1 DEF LinesInv, LinesClient, Running
  <2> QED BY <2>2 DEF Runs
<1>4. Stmt(c).key \in AddRows(e)
  <2>1. PICK S, p : S = Statements(AddedKeys) /\ p \in Seq(S) /\ p = prog[c] /\ p # <<>>
    BY <1>1, <1>2 DEF AtStmt, TypeInv, ClientType
  <2>2. Inserted(p) = (IF Head(p).do = "insert" THEN {Head(p).key} ELSE {}) \cup Inserted(Tail(p))
    BY <2>1, RowsOfTail DEF OfTail
  <2>3. Stmt(c).key \in Inserted(p)
    BY <1>2, <2>1, <2>2 DEF AtStmt, Stmt
  <2> QED BY <1>3, <2>1, <2>3 DEF Adding
<1>5. PICK w : w = "insert" /\ AtStmt(c, w) /\ w # "delete"
  BY <1>2
<1>6. Aims(prog'[c], call'[c].id) /\ Deleted(prog[c]) \subseteq Deleted(prog'[c])
  <2>1. PICK r \in Seq(Statements(AddedKeys)) : r = <<>> /\ Aims(r, call[c].id)
    <3>1. <<>> \in Seq(Statements(AddedKeys))
      OBVIOUS
    <3> QED BY <3>1, AimsNothing
  <2>2. Then(c, r)
    BY <1>2, <2>1
  <2> QED BY <1>2, <1>5, <2>1, <2>2, NextAims
<1>7. Kept(c)'
  <2>1. PICK k, V, W, U : /\ k = Stmt(c).key /\ V = VisibleKeys(c) /\ W = SnapKeys(c)
                          /\ U = VisibleKeys(c)' /\ U = V \cup {k} /\ W = SnapKeys(c)'
    BY <1>2
  <2>2. ASSUME NEW d \in Docs, ManifestOf[d].key \in U
        PROVE  W \cap RowsOf[d] \subseteq U \/ ManifestOf[d].key \in Deleted(prog'[c])
    <3>1. CASE d = e
      <4>1. W \cap AddRows(e) = {} /\ RowsOf[e] \subseteq AddRows(e)
        BY <1>3, <2>1, DocRows DEF Adding
      <4> QED BY <3>1, <4>1
    <3>2. CASE d # e
      <4>1. ManifestOf[d].key \in RowsOf[d] /\ RowsOf[d] \cap AddRows(e) = {}
        BY <1>3, <3>2, DocKeys, RowsApart
      <4>2. ManifestOf[d].key \in V
        BY <1>4, <2>1, <2>2, <4>1
      <4>3. W \cap RowsOf[d] \subseteq V \/ ManifestOf[d].key \in Deleted(prog[c])
        BY <1>2, <2>1, <4>2 DEF WholeInv, Kept
      <4> QED BY <1>6, <2>1, <4>3
    <3> QED BY <3>1, <3>2
  <2> QED BY <2>1, <2>2 DEF Kept, RowsOf
<1>8. \A d \in Docs : ~Taking(c, d)
  BY <1>2 DEF Taking, InTx
<1>9. \A d \in Docs : Accounted(d)'
  BY <1>1, <1>2, <1>8, AccountedStays
<1> QED BY <1>1, <1>6, <1>7, <1>9, WholeFrame

\* With a row of a manifest to be deleted, or just deleted, its own is still to come.
LEMMA RootToCome ==
  ASSUME WholeInv, NEW c \in Clients, AtStmt(c, "delete"),
         NEW d \in Docs, Stmt(c).key \in RowsOf[d]
  PROVE  ManifestOf[d].key \in Deleted(prog[c]) /\ call[c].id = IdOf[d]
<1>1. TypeInv /\ Aims(prog[c], call[c].id)
  BY WholeTypes DEF WholeInv
<1>2. PICK S, p, k, i : S = Statements(AddedKeys) /\ p \in Seq(S) /\ p = prog[c] /\ p # <<>>
                        /\ k = Stmt(c).key /\ i = call[c].id
                        /\ Head(p).do = "delete" /\ Head(p).key = k
  BY <1>1 DEF AtStmt, Stmt, TypeInv, ClientType
<1>3. Does(p, 1, "delete", k)
  <2>1. Head(p) = p[1] /\ 1 \in DOMAIN p
    BY <1>2, HeadTail
  <2> QED BY <1>2, <2>1 DEF Does
<1>4. PICK j \in Nat : Does(p, j, "delete", ManifestOf[d].key)
  BY <1>1, <1>2, <1>3 DEF Aims, RootLast
<1>5. k \in Deleted(p) /\ ManifestOf[d].key \in Deleted(p)
  BY <1>3, <1>4, DeletedDoes
<1> QED BY <1>1, <1>2, <1>5 DEF Aims

LEMMA WholeDelete ==
  ASSUME Isolation = "serializable", WholeInv, LinesHold', NEW c \in Clients, DeleteRow(c)
  PROVE  WholeInv'
<1>1. TypeInv /\ OnlyOf(c)
  BY WholeTypes, OnlyMine
<1>2. /\ AtStmt(c, "delete") /\ UNCHANGED <<call, added, crashed>> /\ Then(c, <<>>)
      /\ InTx(c) => UNCHANGED db
      /\ VisibleKeys(c)' = VisibleKeys(c) \ {Stmt(c).key} /\ SnapKeys(c)' = SnapKeys(c)
  BY <1>1, DeleteKeys
<1>3. PICK w : w = "delete" /\ AtStmt(c, w)
  BY <1>2
<1>4. /\ Aims(prog'[c], call'[c].id)
      /\ Deleted(prog[c]) \subseteq Deleted(prog'[c]) \cup {Stmt(c).key}
  <2>1. PICK r \in Seq(Statements(AddedKeys)) : r = <<>> /\ Aims(r, call[c].id)
    <3>1. <<>> \in Seq(Statements(AddedKeys))
      OBVIOUS
    <3> QED BY <3>1, AimsNothing
  <2>2. Then(c, r)
    BY <1>2, <2>1
  <2> QED BY <1>2, <1>3, <2>1, <2>2, NextAims
<1>5. PICK k, V, W, U, P, Q :
        /\ k = Stmt(c).key /\ V = VisibleKeys(c) /\ W = SnapKeys(c)
        /\ U = VisibleKeys(c)' /\ U = V \ {k} /\ W = SnapKeys(c)'
        /\ P = Deleted(prog[c]) /\ Q = Deleted(prog'[c]) /\ P \subseteq Q \cup {k}
  BY <1>2, <1>4
<1>6. ASSUME NEW d \in Docs, k \in RowsOf[d] PROVE ManifestOf[d].key \in P /\ call[c].id = IdOf[d]
  BY <1>2, <1>5, <1>6, RootToCome
<1>7. InTx(c)' <=> InTx(c)
  BY <1>2 DEF InTx
<1>8. Kept(c)'
  <2>1. ASSUME InTx(c), NEW d \in Docs, ManifestOf[d].key \in U
        PROVE  W \cap RowsOf[d] \subseteq U \/ ManifestOf[d].key \in Q
    <3>1. W \cap RowsOf[d] \subseteq V \/ ManifestOf[d].key \in P
      BY <1>5, <2>1 DEF WholeInv, Kept
    <3> QED BY <1>5, <1>6, <2>1, <3>1
  <2> QED BY <1>5, <1>7, <2>1 DEF Kept, RowsOf
<1>9. \A d \in Docs : Accounted(d)'
  <2>1. CASE InTx(c)
    <3>1. \A d \in Docs : ~Taking(c, d)
      BY <2>1 DEF Taking, InTx
    <3> QED BY <1>1, <1>2, <2>1, <3>1, AccountedStays
  <2>2. CASE ~InTx(c)
    <3>1. V = Keys /\ U = Keys' /\ call[c].op = "delete"
      <4>1. V = Keys /\ U = Keys'
        BY <1>5, <1>7, <2>2 DEF VisibleKeys, View, Keys
      <4>2. call[c] # Idle /\ call[c] \in Calls
        BY <1>1, <1>2, AtStatement DEF TypeInv, ClientType
      <4>3. call[c].op = "delete"
        BY <2>2, <4>2 DEF Calls, InTx
      <4> QED BY <4>1, <4>3
    <3>2. ASSUME NEW d \in Docs, ~crashed, ManifestOf[d].key \in U, ~(RowsOf[d] \subseteq U)
          PROVE  \E x \in Clients : Taking(x, d)'
      <4>1. ManifestOf[d].key \in V /\ ManifestOf[d].key # k
        BY <1>5, <3>2
      <4>2. ManifestOf[d].key \in P => ManifestOf[d].key \in Q
        BY <1>5, <4>1
      <4>3. CASE k \in RowsOf[d]
        <5>1. Taking(c, d)'
          BY <1>2, <1>5, <1>6, <3>1, <4>2, <4>3 DEF Taking
        <5> QED BY <5>1
      <4>4. CASE k \notin RowsOf[d]
        <5>1. ~(RowsOf[d] \subseteq V)
          BY <1>5, <3>2, <4>4
        <5>2. PICK x \in Clients : Taking(x, d)
          BY <3>1, <3>2, <4>1, <5>1 DEF WholeInv, Accounted
        <5>3. CASE x = c
          BY <1>2, <1>5, <4>2, <5>2, <5>3 DEF Taking
        <5>4. CASE x # c
          BY <1>1, <5>2, <5>4 DEF Taking, OnlyOf
        <5> QED BY <5>3, <5>4
      <4> QED BY <4>3, <4>4
    <3> QED BY <1>2, <3>1, <3>2 DEF Accounted, RowsOf
  <2> QED BY <2>1, <2>2
<1> QED BY <1>1, <1>4, <1>8, <1>9, WholeFrame
-----------------------------------------------------------------------------
\* A call that has not loaded the manifest yet, or that has nothing left to do but to
\* commit, has no row to delete.
LEMMA NoneToDelete ==
  ASSUME WholeInv, NEW c \in Clients, AtStmt(c, "loadManifest") \/ AtStmt(c, "commit")
  PROVE  Deleted(prog[c]) = {}
<1>1. PICK E : LinesInv(E)
  BY DEF WholeInv, LinesHold
<1>2. PICK S, p, e : S = Statements(AddedKeys) /\ p \in Seq(S) /\ p = prog[c] /\ p # <<>>
                     /\ Head(p).do \in {"loadManifest", "commit"} /\ Ordered(p, e)
  <2>1. prog[c] \in Seq(Statements(AddedKeys)) /\ Ordered(prog[c], E[c])
    BY <1>1, LinesHere DEF LinesInv, TypeInv, ClientType, Runs
  <2> QED BY <2>1 DEF AtStmt
<1>3. \A y \in ToSet(Tail(p)) : y.do # "delete"
  BY <1>2, OrderedTail DEF Pair
<1>4. Deleted(Tail(p)) = {}
  BY <1>3 DEF Deleted
<1>5. Deleted(p) = {}
  BY <1>2, <1>4, RowsOfTail DEF OfTail
<1> QED BY <1>2, <1>5

\* A call that ends.
LEMMA WholeEnd ==
  ASSUME Isolation = "serializable", WholeInv, LinesHold', NEW c \in Clients,
         Fail(c) \/ Finish(c) \/ Commit(c)
  PROVE  WholeInv'
<1>1. TypeInv /\ OnlyOf(c)
  BY WholeTypes, OnlyMine
<1>2. prog'[c] = <<>> /\ call'[c] = Idle
  BY <1>1 DEF Fail, Finish, Commit, Return, TypeInv
<1>3. Aims(prog'[c], call'[c].id)
  BY <1>2, AimsNothing
<1>4. Kept(c)'
  BY <1>2 DEF Kept, InTx, Idle
<1>5. \A d \in Docs : Accounted(d)'
  <2>1. CASE Fail(c)
    <3>1. UNCHANGED db
          /\ crashed' = (crashed \/ (call[c].op = "delete" /\ ~AtStmt(c, "loadManifest")))
      BY <2>1 DEF Fail
    <3>2. ASSUME NEW d \in Docs, Taking(c, d) PROVE crashed'
      <4>1. ~AtStmt(c, "loadManifest")
        BY <3>2, NoneToDelete DEF Taking
      <4> QED BY <3>1, <3>2, <4>1 DEF Taking
    <3>3. crashed => crashed'
      BY <3>1
    <3> QED BY <1>1, <3>1, <3>2, <3>3, AccountedStays
  <2>2. CASE Finish(c)
    <3>1. Deleted(<<>>) = {}
      BY DEF Deleted, ToSet
    <3>2. prog[c] = <<>> /\ UNCHANGED <<db, crashed>>
      BY <2>2 DEF Finish
    <3>3. \A d \in Docs : ~Taking(c, d)
      BY <3>1, <3>2 DEF Taking
    <3> QED BY <1>1, <3>2, <3>3, AccountedStays
  <2>3. CASE Commit(c)
    <3>1. /\ InTx(c) /\ db' = View(c) /\ tx[c].snap = db /\ AtStmt(c, "commit")
          /\ UNCHANGED crashed
      BY <1>1, <2>3, CommitView DEF Commit
    <3>2. PICK V, W : V = VisibleKeys(c) /\ V = Keys' /\ W = SnapKeys(c) /\ W = Keys
      BY <3>1 DEF Keys, VisibleKeys, SnapKeys
    <3>3. PICK e : e \in Docs /\ V \subseteq W \cup AddRows(e) /\ RowsOf[e] \subseteq V
      <4>1. PICK E : LinesInv(E)
        BY DEF WholeInv, LinesHold
      <4>2. PICK A, f : A = AddedKeys /\ f = E[c]
        OBVIOUS
      <4>3. PICK p \in Seq(Statements(A)) : p = prog[c] /\ p # <<>> /\ Head(p).do = "commit"
        BY <1>1, <3>1, <4>2 DEF AtStmt, TypeInv, ClientType
      <4>4. Runs(A, V, W, p, f, TRUE)
        BY <3>1, <3>2, <4>1, <4>2, <4>3 DEF LinesInv, LinesClient, Running
      <4>5. f \in Docs /\ V \subseteq W \cup AddRows(f) /\ RowsOf[f] \subseteq V
        BY <4>3, <4>4, RunsCommit
      <4> QED BY <4>5
    <3>4. ASSUME NEW d \in Docs PROVE Accounted(d)'
      <4>1. CASE d = e
        BY <3>2, <3>3, <4>1 DEF Accounted, RowsOf
      <4>2. CASE d # e /\ ManifestOf[d].key \in V
        <5>1. ManifestOf[d].key \in RowsOf[d] /\ RowsOf[d] \cap AddRows(e) = {}
          BY <3>3, <4>2, DocKeys, RowsApart
        <5>2. ManifestOf[d].key \in W
          BY <3>3, <4>2, <5>1
        <5>3. W \cap RowsOf[d] \subseteq V
          BY <3>1, <3>2, <4>2, NoneToDelete DEF WholeInv, Kept
        <5>4. CASE crashed \/ RowsOf[d] \subseteq W
          BY <3>1, <3>2, <5>3, <5>4 DEF Accounted, RowsOf
        <5>5. ASSUME NEW x \in Clients, Taking(x, d) PROVE Taking(x, d)'
          <6>1. x # c
            BY <3>1, <5>5 DEF Taking, InTx
          <6> QED BY <1>1, <5>5, <6>1 DEF Taking, OnlyOf
        <5> QED BY <3>2, <5>2, <5>4, <5>5 DEF WholeInv, Accounted
      <4>3. CASE ManifestOf[d].key \notin V
        BY <3>2, <4>3 DEF Accounted
      <4> QED BY <4>1, <4>2, <4>3
    <3> QED BY <3>4
  <2> QED BY <2>1, <2>2, <2>3
<1> QED BY <1>1, <1>3, <1>4, <1>5, WholeFrame

LEMMA WholeBegin ==
  ASSUME Isolation = "serializable", WholeInv, LinesHold', NEW c \in Clients,
         BeginAdd(c) \/ BeginDelete(c)
  PROVE  WholeInv'
<1>1. TypeInv /\ OnlyOf(c)
  BY WholeTypes, OnlyMine
<1>2. call[c] = Idle /\ UNCHANGED <<db, crashed>>
  BY DEF BeginAdd, BeginDelete, BeginCall
<1>3. \A d \in Docs : ~Taking(c, d)
  BY <1>2 DEF Taking, Idle
<1>4. \A d \in Docs : Accounted(d)'
  BY <1>1, <1>2, <1>3, AccountedStays
<1>5. Aims(prog'[c], call'[c].id) /\ Kept(c)'
  <2>1. CASE BeginAdd(c)
    <3>1. PICK d \in Docs : BeginCall(c, "add", IdOf[d], AddBytes(d))
                            /\ tx' = [tx EXCEPT ![c].snap =
                                        IF Isolation = "serializable" THEN db ELSE Empty]
      BY <2>1 DEF BeginAdd
    <3>2. prog'[c] = AddBytes(d) /\ call'[c].id = IdOf[d]
      BY <1>1, <3>1 DEF BeginCall, TypeInv
    <3>3. Aims(prog'[c], call'[c].id)
      <4>1. Aims(AddBytes(d), IdOf[d])
        BY AimsAdd
      <4> QED BY <3>2, <4>1, Zenon
    <3>4. VisibleKeys(c)' = Keys
      BY <1>1, <2>1, BeginView DEF VisibleKeys, Keys
    <3>5. SnapKeys(c)' = Keys
      <4>1. tx'[c].snap = db
        <5>1. tx[c] \in Transactions
          BY <1>1 DEF TypeInv, ClientType
        <5> QED BY <1>1, <3>1, <5>1 DEF TypeInv, Transactions
      <4> QED BY <4>1 DEF SnapKeys, Keys
    <3> QED BY <3>3, <3>4, <3>5 DEF Kept
  <2>2. CASE BeginDelete(c)
    <3>1. PICK id : BeginCall(c, "delete", id, <<[do |-> "loadManifest", id |-> id]>>)
      BY <2>2 DEF BeginDelete
    <3>2. /\ prog'[c] = <<[do |-> "loadManifest", id |-> id]>>
          /\ call'[c] = [op |-> "delete", id |-> id]
      BY <1>1, <3>1 DEF BeginCall, TypeInv
    <3>3. call'[c].id = id /\ call'[c].op = "delete"
      BY <3>2
    <3>4. Aims(prog'[c], call'[c].id)
      <4>1. Aims(<<[do |-> "loadManifest", id |-> id]>>, id)
        BY AimsDeletion
      <4> QED BY <3>2, <3>3, <4>1, Zenon
    <3> QED BY <3>3, <3>4 DEF Kept, InTx
  <2> QED BY <2>1, <2>2
<1> QED BY <1>1, <1>4, <1>5, WholeFrame
-----------------------------------------------------------------------------
LEMMA WholeInit == Init => WholeInv
<1> SUFFICES ASSUME Init PROVE WholeInv
  OBVIOUS
<1>1. LinesHold
  BY LinesInit
<1>2. Keys = {} /\ \A c \in Clients : prog[c] = <<>> /\ ~InTx(c)
  BY DEF Init, Keys, Empty, InTx, Idle
<1>3. \A c \in Clients : Aims(prog[c], call[c].id) /\ Kept(c)
  BY <1>2, AimsNothing DEF Kept
<1>4. \A d \in Docs : Accounted(d)
  BY <1>2 DEF Accounted
<1> QED BY <1>1, <1>3, <1>4 DEF WholeInv

LEMMA WholeStep ==
  ASSUME Isolation = "serializable", WholeInv, [Next]_vars
  PROVE  WholeInv'
<1>1. LinesHold'
  BY LinesHoldStep DEF WholeInv
<1>2. CASE UNCHANGED vars
  <2>1. \A c \in Clients : /\ (InTx(c)' <=> InTx(c)) /\ VisibleKeys(c)' = VisibleKeys(c)
                           /\ SnapKeys(c)' = SnapKeys(c) /\ prog'[c] = prog[c] /\ call'[c] = call[c]
    BY <1>2, ReadView DEF vars, VisibleKeys, SnapKeys
  <2>2. Keys' = Keys /\ RowsOf' = RowsOf /\ crashed' = crashed
    BY <1>2 DEF vars, Keys, RowsOf
  <2>3. \A c \in Clients : Aims(prog'[c], call'[c].id) /\ Kept(c)'
    BY <2>1, <2>2 DEF WholeInv, Kept
  <2>4. \A d \in Docs : Accounted(d)'
    BY <2>1, <2>2 DEF WholeInv, Accounted, Taking
  <2> QED BY <1>1, <2>3, <2>4 DEF WholeInv
<1>3. ASSUME NEW c \in Clients,
             \/ BeginAdd(c) \/ BeginDelete(c) \/ Fail(c) \/ Finish(c) \/ Commit(c)
             \/ LoadToken(c) \/ LoadManifest(c) \/ InsertRow(c) \/ DeleteRow(c)
             \/ ReuseEnv(c) \/ InsertEnv(c) \/ SkipOwners(c) \/ CheckOwners(c)
             \/ CheckNextOwners(c) \/ DropEnv(c)
      PROVE  WholeInv'
  BY <1>1, <1>3, WholeBegin, WholeEnd, WholeToken, WholeManifest, WholeInsert, WholeDelete,
     WholeEnv, WholeChecks
<1> QED BY <1>2, <1>3 DEF Next

\* Documents that nobody has begun to delete have all their rows, which are read back
\* but for those of the tables NotLoaded.
LEMMA WholeManifests == ASSUME WholeInv PROVE FullyPopulated
<1> SUFFICES ASSUME NEW d \in Docs, ~crashed,
                    \A c \in Clients : call[c].op = "delete" => call[c].id # IdOf[d],
                    ManifestOf[d].key \in Keys
             PROVE  RowsOf[d] \subseteq
                      Inserted(InsertManifest(SelectManifest(ManifestOf[d], Keys)))
                      \cup InsertedInto(InsertManifest(ManifestOf[d]), NotLoaded)
  BY DEF FullyPopulated
<1>1. RowsOf[d] \subseteq Keys
  BY DEF WholeInv, Accounted, Taking
<1>2. PICK n \in Manifests : n = ManifestOf[d]
  BY RowStoreAssumption
<1>3. RowsOf[d] = Inserted(InsertManifest(n)) /\ Has(Keys, InsertManifest(n))
  BY <1>1, <1>2 DEF RowsOf, Has
<1>4. Back(InsertManifest(n), InsertManifest(SelectManifest(n, Keys)))
  BY <1>3, ManifestReached
<1> QED BY <1>2, <1>3, <1>4 DEF Back

\* Under serializable transactions loading a document that nobody has begun to delete
\* gives every row that was added but those of the tables NotLoaded (store.go:389,
\* 466-469: "fully populate"), for documents of any shape, whatever the others add,
\* delete or replace meanwhile, and whatever calls have failed.
THEOREM DocumentsAreWhole ==
  ASSUME Isolation = "serializable"
  PROVE  Spec => []FullyPopulated
<1>1. Init => WholeInv
  BY WholeInit
<1>2. WholeInv /\ [Next]_vars => WholeInv'
  BY WholeStep
<1>3. WholeInv => FullyPopulated
  BY WholeManifests
<1> QED BY <1>1, <1>2, <1>3, PTL DEF Spec
-----------------------------------------------------------------------------
(* Environments that nobody refers to *)

\* The keys of the rows that refer to an environment.
EnvRowKeys == UNION {WithEnv(InsertManifest(ManifestOf[d])) : d \in Docs}

LEMMA EnvKeysOf ==
  ASSUME NEW d \in Docs
  PROVE  /\ EnvRowKeys \cap RowsOf[d] \subseteq WithEnv(InsertManifest(ManifestOf[d]))
         /\ EnvRowKeys \cap TokenRowsOf[d] = {}
<1>1. ASSUME NEW k \in EnvRowKeys
      PROVE  \E e \in Docs : k \in WithEnv(InsertManifest(ManifestOf[e])) /\ k \in RowsOf[e]
  <2>1. PICK e \in Docs : k \in WithEnv(InsertManifest(ManifestOf[e]))
    BY DEF EnvRowKeys
  <2>2. k \in Inserted(InsertManifest(ManifestOf[e]))
    BY <2>1, WithEnvInserted
  <2> QED BY <2>1, <2>2 DEF RowsOf
<1>2. ASSUME NEW k \in EnvRowKeys, k \in RowsOf[d] PROVE k \in WithEnv(InsertManifest(ManifestOf[d]))
  BY <1>1, <1>2, RowsApart
<1>3. ASSUME NEW k \in EnvRowKeys, k \in TokenRowsOf[d] PROVE FALSE
  <2>1. PICK e \in Docs : k \in RowsOf[e]
    BY <1>1
  <2>2. CASE e = d
    BY <1>3, <2>1, <2>2, DocRows
  <2>3. CASE e # d
    BY <1>3, <2>1, <2>3, DocsApart, DocRows
  <2> QED BY <2>2, <2>3
<1> QED BY <1>2, <1>3

\* What is left of a program: after the deletion of a row with an environment it looks
\* at the owners, and an environment it looks for is referred to at once.
Minded(p) == LooksAfter(p, EnvRowKeys) /\ Paired(p) /\ WithEnv(p) \subseteq EnvRowKeys

LEMMA LooksTail ==
  ASSUME NEW S, NEW p \in Seq(S), p # <<>>, NEW E, LooksAfter(p, E)
  PROVE  /\ LooksAfter(Tail(p), E)
         /\ Head(p).do = "delete" /\ Head(p).key \in E =>
              \E s \in ToSet(Tail(p)) : s.do = "owners" /\ s.key = Head(p).key
<1>1. ASSUME NEW k \in E, NEW i, Does(Tail(p), i, "delete", k)
      PROVE  \E j \in Nat : i < j /\ Does(Tail(p), j, "owners", k)
  <2>1. i \in Nat /\ i + 1 \in Nat /\ Does(p, i + 1, "delete", k) /\ 1 <= i
    BY <1>1, DoesTail, HeadTail DEF Does
  <2>2. PICK j \in Nat : i + 1 < j /\ Does(p, j, "owners", k)
    BY <2>1 DEF LooksAfter
  <2>3. j # 1
    BY <2>1, <2>2
  <2>4. j - 1 \in Nat /\ Does(Tail(p), j - 1, "owners", k)
    BY <2>2, <2>3, DoesTail
  <2>5. i < j - 1
    BY <2>1, <2>2
  <2> QED BY <2>4, <2>5
<1>2. ASSUME Head(p).do = "delete", Head(p).key \in E
      PROVE  \E s \in ToSet(Tail(p)) : s.do = "owners" /\ s.key = Head(p).key
  <2>1. PICK k : k = Head(p).key
    OBVIOUS
  <2>2. Does(p, 1, "delete", k)
    BY <1>2, <2>1, HeadTail DEF Does
  <2>3. PICK j \in Nat : 1 < j /\ Does(p, j, "owners", k)
    BY <1>2, <2>1, <2>2 DEF LooksAfter
  <2>4. j # 1
    BY <2>3
  <2>5. Does(Tail(p), j - 1, "owners", k)
    BY <2>3, <2>4, DoesTail
  <2>6. Tail(p)[j - 1] \in ToSet(Tail(p))
    BY <2>5, Zenon DEF Does, ToSet
  <2> QED BY <2>1, <2>5, <2>6 DEF Does
<1> QED BY <1>1, <1>2 DEF LooksAfter

LEMMA PairedTail ==
  ASSUME NEW S, NEW p \in Seq(S), p # <<>>, Paired(p)
  PROVE  /\ Paired(Tail(p))
         /\ Head(p).do = "findEnv" =>
              Tail(p) # <<>> /\ Head(Tail(p)).do = "insert" /\ Head(Tail(p)).hasEnv
<1>1. /\ Tail(p) \in Seq(S) /\ Head(p) = p[1] /\ 1 \in DOMAIN p
      /\ \A i \in DOMAIN Tail(p) :
           i \in Nat /\ 1 <= i /\ i + 1 \in DOMAIN p /\ Tail(p)[i] = p[i+1]
      /\ \A i \in DOMAIN p :
           i \in Nat /\ 1 <= i /\ (i # 1 => i - 1 \in DOMAIN Tail(p) /\ Tail(p)[i-1] = p[i])
  BY HeadTail
<1>2. ASSUME NEW i \in DOMAIN Tail(p), Tail(p)[i].do = "findEnv"
      PROVE  i + 1 \in DOMAIN Tail(p) /\ Tail(p)[i + 1].do = "insert" /\ Tail(p)[i + 1].hasEnv
  <2>1. PICK j \in Nat : j = i + 1 /\ j \in DOMAIN p /\ p[j].do = "findEnv" /\ 1 <= i
    <3>1. i \in Nat /\ 1 <= i /\ i + 1 \in DOMAIN p /\ Tail(p)[i] = p[i + 1]
      BY <1>1
    <3>2. p[i + 1].do = "findEnv"
      BY <1>2, <3>1
    <3>3. i + 1 \in Nat
      BY <3>1
    <3> QED BY <3>1, <3>2, <3>3, Zenon
  <2>2. j + 1 \in DOMAIN p /\ p[j + 1].do = "insert" /\ p[j + 1].hasEnv
    BY <2>1 DEF Paired
  <2>3. j + 1 # 1 /\ (j + 1) - 1 = i + 1
    BY <1>1, <2>1
  <2>4. i + 1 \in DOMAIN Tail(p) /\ Tail(p)[i + 1] = p[j + 1]
    BY <1>1, <2>2, <2>3
  <2> QED BY <2>2, <2>4
<1>3. ASSUME Head(p).do = "findEnv"
      PROVE  Tail(p) # <<>> /\ Head(Tail(p)).do = "insert" /\ Head(Tail(p)).hasEnv
  <2>1. 1 + 1 \in DOMAIN p /\ p[1 + 1].do = "insert" /\ p[1 + 1].hasEnv
    BY <1>1, <1>3 DEF Paired
  <2>2. (1 + 1) - 1 = 1 /\ 1 + 1 # 1
    OBVIOUS
  <2>3. 1 \in DOMAIN Tail(p) /\ Tail(p)[1] = p[1 + 1]
    BY <1>1, <2>1, <2>2
  <2>4. Tail(p) # <<>>
    BY <1>1, <2>3
  <2>5. Head(Tail(p)) = Tail(p)[1]
    BY <1>1, <2>4, HeadTail
  <2> QED BY <2>1, <2>3, <2>4, <2>5
<1> QED BY <1>2, <1>3 DEF Paired

LEMMA MindedTail ==
  ASSUME NEW S, NEW p \in Seq(S), p # <<>>, Minded(p)
  PROVE  /\ Minded(Tail(p))
         /\ Head(p).do = "delete" /\ Head(p).key \in EnvRowKeys =>
              \E s \in ToSet(Tail(p)) : s.do = "owners" /\ s.key = Head(p).key
         /\ Head(p).do = "findEnv" =>
              Tail(p) # <<>> /\ Head(Tail(p)).do = "insert" /\ Head(Tail(p)).hasEnv
         /\ Head(p).do = "insert" /\ Head(p).hasEnv => Head(p).key \in EnvRowKeys
<1>1. ToSet(p) = {Head(p)} \cup ToSet(Tail(p))
  BY HeadTail
<1>2. WithEnv(Tail(p)) \subseteq WithEnv(p)
  BY <1>1 DEF WithEnv
<1>3. Head(p).do = "insert" /\ Head(p).hasEnv => Head(p).key \in WithEnv(p)
  BY <1>1 DEF WithEnv
<1> QED BY <1>2, <1>3, LooksTail, PairedTail DEF Minded

LEMMA LooksJoin ==
  ASSUME NEW S, NEW p \in Seq(S), NEW q \in Seq(S), NEW E, LooksAfter(p, E), LooksAfter(q, E)
  PROVE  LooksAfter(p \o q, E)
<1>1. ASSUME NEW k \in E, NEW i, Does(p \o q, i, "delete", k)
      PROVE  \E j \in Nat : i < j /\ Does(p \o q, j, "owners", k)
  <2>1. CASE Does(p, i, "delete", k)
    <3>1. PICK j \in Nat : i < j /\ Does(p, j, "owners", k)
      BY <2>1 DEF LooksAfter
    <3>2. Does(p \o q, j, "owners", k)
      BY <3>1, DoesJoin
    <3> QED BY <3>1, <3>2
  <2>2. CASE ~Does(p, i, "delete", k)
    <3>1. i - Len(p) \in Nat /\ Does(q, i - Len(p), "delete", k)
      BY <1>1, <2>2, DoesJoin
    <3>2. PICK m \in Nat : m = i - Len(p) /\ Does(q, m, "delete", k)
      BY <3>1
    <3>3. PICK j \in Nat : m < j /\ Does(q, j, "owners", k)
      BY <3>2 DEF LooksAfter
    <3>4. Len(p) + j \in Nat /\ Does(p \o q, Len(p) + j, "owners", k)
      BY <3>3, DoesJoin
    <3>5. i \in Nat /\ Len(p) \in Nat
      <4>1. p \o q \in Seq(S)
        OBVIOUS
      <4>2. i \in Nat
        BY <1>1, <4>1, NumbersOf
      <4> QED BY <4>2
    <3>6. i < Len(p) + j
      BY <3>2, <3>3, <3>5
    <3> QED BY <3>4, <3>6
  <2> QED BY <2>1, <2>2
<1> QED BY <1>1 DEF LooksAfter

LEMMA MindedJoin ==
  ASSUME NEW S, NEW p \in Seq(S), NEW q \in Seq(S), Minded(p), Minded(q)
  PROVE  Minded(p \o q)
<1>1. WithEnv(p \o q) = WithEnv(p) \cup WithEnv(q)
  BY WithEnvJoin
<1> QED BY <1>1, LooksJoin, PairedJoin DEF Minded

\* Where nothing of a document is deleted, or inserted, there is nothing to mind.
LEMMA NoLooks ==
  ASSUME NEW p, NEW E, Deleted(p) \cap E = {}
  PROVE  LooksAfter(p, E)
BY DeletedDoes DEF LooksAfter

LEMMA MindedRemovals ==
  ASSUME NEW r \in Seq(Removals) \cup Seq(Checks), LooksAfter(r, EnvRowKeys)
  PROVE  Minded(r)
<1>1. \A s \in Removals \cup Checks : s.do \notin {"insert", "findEnv"}
  BY DEF Removals, Checks
<1>2. ToSet(r) \subseteq Removals \cup Checks
  BY DEF ToSet
<1>3. \A i \in DOMAIN r : r[i] \in ToSet(r)
  BY Zenon DEF ToSet
<1>4. Paired(r)
  BY <1>1, <1>2, <1>3 DEF Paired
<1>5. WithEnv(r) = {}
  BY <1>1, <1>2 DEF WithEnv
<1> QED BY <1>4, <1>5 DEF Minded

LEMMA MindedChecks == ASSUME NEW r \in Seq(Checks) PROVE Minded(r)
BY ChecksDelete, NoLooks, MindedRemovals

LEMMA MindedManifest ==
  ASSUME NEW d \in Docs, NEW K \in SUBSET RowKeys, ManifestOf[d].key \in K
  PROVE  Minded(Unloaded(d, K))
<1>1. PICK r : r = Unloaded(d, K)
  OBVIOUS
<1>2. r \in Seq(Removals) /\ LooksAfter(r, WithEnv(InsertManifest(ManifestOf[d])))
      /\ Deleted(r) = RowsIn(Standing(LinesOf(d), K))
  BY <1>1, UnloadedLines
<1>3. Deleted(r) \subseteq RowsOf[d]
  BY <1>2, DocLines DEF Along, RowsIn, Standing
<1>4. ASSUME NEW k \in EnvRowKeys, NEW i, Does(r, i, "delete", k)
      PROVE  \E j \in Nat : i < j /\ Does(r, j, "owners", k)
  <2>1. k \in Deleted(r)
    BY <1>4, DeletedDoes
  <2>2. k \in WithEnv(InsertManifest(ManifestOf[d]))
    BY <1>3, <2>1, EnvKeysOf
  <2> QED BY <1>2, <1>4, <2>2 DEF LooksAfter
<1>5. LooksAfter(r, EnvRowKeys)
  BY <1>4 DEF LooksAfter
<1> QED BY <1>1, <1>2, <1>5, MindedRemovals

LEMMA MindedQuiet ==
  ASSUME NEW r, \A s \in ToSet(r) : s.do \notin {"delete", "findEnv"} /\ (s.do = "insert" => ~s.hasEnv)
  PROVE  Minded(r)
<1>1. \A i \in DOMAIN r : r[i] \in ToSet(r)
  BY Zenon DEF ToSet
<1>2. Paired(r)
  BY <1>1 DEF Paired
<1>3. Deleted(r) = {} /\ WithEnv(r) = {}
  BY DEF Deleted, WithEnv
<1>4. LooksAfter(r, EnvRowKeys)
  BY <1>3, NoLooks
<1> QED BY <1>2, <1>3, <1>4 DEF Minded

LEMMA MindedToken ==
  ASSUME NEW d \in Docs
  PROVE  Minded(DeleteToken(SelectToken(TokenOf[d])))
<1>1. PICK r \in Seq(Removals) :
        /\ r = DeleteToken(SelectToken(TokenOf[d])) /\ Deleted(r) = {TokenOf[d].key}
        /\ TokenOf[d].key \in TokenRowsOf[d]
  BY TokenUnloaded
<1>2. Deleted(r) \cap EnvRowKeys = {}
  BY <1>1, EnvKeysOf
<1>3. LooksAfter(r, EnvRowKeys)
  BY <1>2, NoLooks
<1> QED BY <1>1, <1>3, MindedRemovals

LEMMA MindedInsertion ==
  ASSUME NEW d \in Docs
  PROVE  Minded(InsertManifest(ManifestOf[d]))
<1>1. PICK q : q = InsertManifest(ManifestOf[d])
  OBVIOUS
<1>2. q \in Seq(Additions(RowKeys)) /\ Paired(q)
  <2>1. InsertManifest(ManifestOf[d]) \in {p \in Seq(Additions(RowKeys)) : Paired(p)}
    <3>1. ManifestOf[d] \in Manifests
      BY RowStoreAssumption
    <3> QED BY <3>1, PairedAdds, ManifestInserted
  <2> QED BY <1>1, <2>1
<1>3. Deleted(q) = {}
  <2>1. \A s \in Additions(RowKeys) : s.do # "delete"
    BY DEF Additions
  <2>2. ToSet(q) \subseteq Additions(RowKeys)
    BY <1>2 DEF ToSet
  <2> QED BY <2>1, <2>2 DEF Deleted
<1>4. LooksAfter(q, EnvRowKeys)
  BY <1>3, NoLooks
<1>5. WithEnv(q) \subseteq EnvRowKeys
  BY <1>1 DEF EnvRowKeys
<1>6. Minded(q)
  BY <1>2, <1>4, <1>5 DEF Minded
<1> QED BY <1>1, <1>6

LEMMA MindedAdd ==
  ASSUME NEW d \in Docs
  PROVE  Minded(AddBytes(d))
<1>1. PICK p, q, x, y, z \in Seq(AddStatements) :
           /\ AddBytes(d) = x \o p \o y \o q \o z
           /\ p = InsertToken(TokenOf[d]) /\ p \in Seq(Additions(TokenRowsOf[d]))
           /\ q = InsertManifest(ManifestOf[d]) /\ q \in Seq(Additions(RowsOf[d]))
           /\ x = <<[do |-> "loadToken", id |-> IdOf[d]]>>
           /\ y = <<[do |-> "loadManifest", id |-> IdOf[d]]>> /\ z = <<[do |-> "commit"]>>
  BY AddShape
<1>2. /\ ToSet(x) = {[do |-> "loadToken", id |-> IdOf[d]]}
      /\ ToSet(y) = {[do |-> "loadManifest", id |-> IdOf[d]]} /\ ToSet(z) = {[do |-> "commit"]}
  BY <1>1, OneStatement
<1>3. Minded(x) /\ Minded(y) /\ Minded(z)
  <2>1. ASSUME NEW r, \A s \in ToSet(r) : s.do \in {"loadToken", "loadManifest", "commit"}
        PROVE  Minded(r)
    <3>1. \A s \in ToSet(r) : s.do \notin {"delete", "findEnv"} /\ (s.do = "insert" => ~s.hasEnv)
      BY <2>1
    <3> QED BY <3>1, MindedQuiet
  <2>2. /\ \A s \in ToSet(x) : s.do \in {"loadToken", "loadManifest", "commit"}
        /\ \A s \in ToSet(y) : s.do \in {"loadToken", "loadManifest", "commit"}
        /\ \A s \in ToSet(z) : s.do \in {"loadToken", "loadManifest", "commit"}
    BY <1>2
  <2> QED BY <2>1, <2>2
<1>4. Minded(p)
  <2>1. p \in Seq(WithoutEnv)
    BY <1>1, TokenWithoutEnv, Zenon
  <2>2. ToSet(p) \subseteq WithoutEnv
    BY <2>1 DEF ToSet
  <2>3. \A s \in WithoutEnv : s.do = "insert" /\ ~s.hasEnv
    BY DEF WithoutEnv
  <2>4. \A s \in ToSet(p) : s.do \notin {"delete", "findEnv"} /\ (s.do = "insert" => ~s.hasEnv)
    BY <2>2, <2>3
  <2> QED BY <2>4, MindedQuiet
<1>5. Minded(q)
  BY <1>1, MindedInsertion, Zenon
<1>6. PICK a \in Seq(AddStatements) : a = x \o p /\ Minded(a)
  <2>1. x \o p \in Seq(AddStatements)
    OBVIOUS
  <2> QED BY <1>3, <1>4, <2>1, MindedJoin, Zenon
<1>7. PICK b \in Seq(AddStatements) : b = a \o y /\ Minded(b)
  <2>1. a \o y \in Seq(AddStatements)
    OBVIOUS
  <2> QED BY <1>3, <1>6, <2>1, MindedJoin, Zenon
<1>8. PICK e \in Seq(AddStatements) : e = b \o q /\ Minded(e)
  <2>1. b \o q \in Seq(AddStatements)
    OBVIOUS
  <2> QED BY <1>5, <1>7, <2>1, MindedJoin, Zenon
<1>9. Minded(e \o z)
  BY <1>3, <1>8, MindedJoin
<1>10. AddBytes(d) = e \o z
  BY <1>1, <1>6, <1>7, <1>8, Zenon
<1> QED BY <1>9, <1>10, Zenon

LEMMA OnceTail ==
  ASSUME NEW S, NEW p \in Seq(S), p # <<>>, InsertsOnce(p)
  PROVE  /\ InsertsOnce(Tail(p))
         /\ Head(p).do = "insert" => Head(p).key \notin Inserted(Tail(p))
<1>1. ASSUME NEW i, NEW j, NEW k, Does(Tail(p), i, "insert", k), Does(Tail(p), j, "insert", k)
      PROVE  i = j
  <2>1. i \in Nat /\ Does(p, i + 1, "insert", k) /\ j \in Nat /\ Does(p, j + 1, "insert", k)
    BY <1>1, DoesTail
  <2>2. i + 1 = j + 1
    BY <2>1, OnceDoes
  <2> QED BY <2>1, <2>2
<1>2. ASSUME Head(p).do = "insert", Head(p).key \in Inserted(Tail(p)) PROVE FALSE
  <2>1. PICK k : k = Head(p).key
    OBVIOUS
  <2>2. PICK i : Does(Tail(p), i, "insert", k)
    BY <1>2, <2>1, InsertedDoes
  <2>3. i \in Nat /\ Does(p, i + 1, "insert", k)
    BY <2>2, DoesTail
  <2>4. 1 <= i
    <3>1. Tail(p) \in Seq(S)
      BY HeadTail
    <3> QED BY <2>2, <3>1, NumbersOf
  <2>5. Does(p, 1, "insert", k)
    BY <1>2, <2>1, HeadTail DEF Does
  <2>6. i + 1 = 1
    BY <2>3, <2>5, OnceDoes
  <2> QED BY <2>3, <2>4, <2>6
<1>3. InsertsOnce(Tail(p))
  BY <1>1, OnceDoes
<1> QED BY <1>2, <1>3
-----------------------------------------------------------------------------
(* Who is to look after an environment *)

\* An environment that nobody refers to.
Unowned(id, x) == (\E e \in x.envs : e.id = id) /\ \A r \in x.rows : r.env # id

\* The statement s of a call that holds the environments H looks at the owners of
\* the environment id, or drops it.
Looks(s, H, id) ==
  \/ s.do \in {"nextOwners", "dropEnv"} /\ s.id = id
  \/ s.do = "owners" /\ [key |-> s.key, id |-> id] \in H
Sees(c, id) == \E s \in ToSet(prog[c]) : Looks(s, held[c], id)

\* The next statement inserts a row that refers to it.
Binds(c, id) == bound[c] = id /\ AtStmt(c, "insert") /\ Stmt(c).hasEnv

\* The environment of a row to be deleted is in memory, and no other one is.
Holds(c) ==
  \A r \in View(c).rows, e \in View(c).envs :
    r.env = e.id /\ r.key \in Deleted(prog[c]) => [key |-> r.key, id |-> e.id] \in held[c]
Single(H) == \A h, g \in H : h.key = g.key => h.id = g.id

Shaped(x) ==
  /\ \A r \in x.rows : r.env # 0 => r.key \in EnvRowKeys
  /\ \A r, s \in x.rows : r.key = s.key => r = s

\* What an add is to insert is not there, and what it has inserted was not there when
\* it began, nor referred to.
Fresh(c) == InsertsOnce(prog[c]) /\ Inserted(prog[c]) \cap VisibleKeys(c) = {}
News(c) ==
  /\ \A r \in View(c).rows : r \in tx[c].snap.rows \/ r.key \notin SnapKeys(c)
  /\ \A e \in View(c).envs : e \in tx[c].snap.envs \/ \A r \in tx[c].snap.rows : r.env # e.id

\* An environment without owners was so before, or it is being looked at, or about to
\* be referred to.
OwnsTx(c) ==
  \A id : Unowned(id, View(c)) => Unowned(id, tx[c].snap) \/ Sees(c, id) \/ Binds(c, id)
OwnsDb ==
  \A id : Unowned(id, db) => crashed \/ \E c \in Clients : call[c].op = "delete" /\ Sees(c, id)

OwnTx(c) == Fresh(c) /\ News(c) /\ Shaped(View(c)) /\ OwnsTx(c)
OwnClient(c) == Minded(prog[c]) /\ Holds(c) /\ Single(held[c]) /\ (InTx(c) => OwnTx(c))
OwnInv == LinesHold /\ Shaped(db) /\ OwnsDb /\ \A c \in Clients : OwnClient(c)

LEMMA OwnTypes == ASSUME OwnInv PROVE TypeInv
BY DEF OwnInv, LinesHold, LinesInv

LEMMA HoldsStays ==
  ASSUME NEW c \in Clients, Holds(c), held'[c] = held[c],
         \A r \in View(c)'.rows, e \in View(c)'.envs :
           r.env = e.id /\ r.key \in Deleted(prog'[c]) =>
             r \in View(c).rows /\ e \in View(c).envs /\ r.key \in Deleted(prog[c])
  PROVE  Holds(c)'
BY DEF Holds

\* A step of c leaves what the others know alone.
LEMMA OwnFrame ==
  ASSUME Isolation = "serializable", OwnInv, LinesHold', NEW c \in Clients, OnlyOf(c),
         \A d \in Clients \ {c} : ~InTx(d) =>
           \A r \in db'.rows, e \in db'.envs :
             r.env = e.id /\ r.key \in Deleted(prog[d]) => r \in db.rows /\ e \in db.envs,
         Shaped(db)', OwnsDb', OwnClient(c)'
  PROVE  OwnInv'
<1>1. ASSUME NEW d \in Clients \ {c} PROVE OwnClient(d)'
  <2>1. OwnClient(d)
    BY DEF OwnInv
  <2>2. /\ call'[d] = call[d] /\ prog'[d] = prog[d] /\ bound'[d] = bound[d]
        /\ held'[d] = held[d] /\ tx'[d] = tx[d]
    BY DEF OnlyOf
  <2>3. /\ InTx(d)' <=> InTx(d)
        /\ InTx(d) => View(d)' = View(d)
        /\ ~InTx(d) => View(d) = db /\ View(d)' = db'
    BY ViewFrame
  <2>4. Minded(prog[d])' /\ Single(held[d])'
    BY <2>1, <2>2 DEF OwnClient
  <2>5. Holds(d)'
    <3>1. ASSUME NEW r \in View(d)'.rows, NEW e \in View(d)'.envs,
                 r.env = e.id /\ r.key \in Deleted(prog'[d])
          PROVE  r \in View(d).rows /\ e \in View(d).envs /\ r.key \in Deleted(prog[d])
      <4>1. CASE InTx(d)
        BY <2>2, <2>3, <3>1, <4>1
      <4>2. CASE ~InTx(d)
        <5>1. r \in db'.rows /\ e \in db'.envs /\ r.key \in Deleted(prog[d])
          BY <2>2, <2>3, <3>1, <4>2
        <5>2. r \in db.rows /\ e \in db.envs
          BY <3>1, <4>2, <5>1
        <5> QED BY <2>3, <4>2, <5>1, <5>2
      <4> QED BY <4>1, <4>2
    <3> QED BY <2>1, <2>2, <3>1, HoldsStays DEF OwnClient
  <2>6. ASSUME InTx(d) PROVE OwnTx(d)'
    <3>1. View(d)' = View(d) /\ VisibleKeys(d)' = VisibleKeys(d) /\ SnapKeys(d)' = SnapKeys(d)
      BY <2>2, <2>3, <2>6 DEF VisibleKeys, SnapKeys
    <3>2. OwnTx(d)
      BY <2>1, <2>6 DEF OwnClient
    <3>3. Fresh(d)' /\ News(d)' /\ Shaped(View(d))'
      BY <2>2, <3>1, <3>2 DEF OwnTx, Fresh, News
    <3>4. OwnsTx(d)'
      <4>1. \A id : (Sees(d, id)' <=> Sees(d, id)) /\ (Binds(d, id)' <=> Binds(d, id))
        BY <2>2 DEF Sees, Binds, AtStmt, Stmt
      <4>2. ASSUME NEW id, Unowned(id, View(d)')
            PROVE  Unowned(id, tx'[d].snap) \/ Sees(d, id)' \/ Binds(d, id)'
        <5>1. Unowned(id, View(d))
          BY <3>1, <4>2
        <5>2. Unowned(id, tx[d].snap) \/ Sees(d, id) \/ Binds(d, id)
          BY <3>2, <5>1 DEF OwnTx, OwnsTx
        <5> QED BY <2>2, <4>1, <5>2
      <4> QED BY <4>2 DEF OwnsTx
    <3> QED BY <3>3, <3>4 DEF OwnTx
  <2> QED BY <2>3, <2>4, <2>5, <2>6 DEF OwnClient
<1>2. \A d \in Clients : OwnClient(d)'
  BY <1>1
<1> QED BY <1>2 DEF OwnInv

\* A step after which an environment without owners is looked at, or about to be
\* referred to, or was without them, and nobody looked.
Onward(c) ==
  \A id : Unowned(id, View(c)') =>
    \/ Sees(c, id)' \/ Binds(c, id)'
    \/ Unowned(id, View(c)) /\ ~Sees(c, id) /\ ~Binds(c, id)

LEMMA Deleting ==
  ASSUME TypeInv, NEW c \in Clients, call[c] # Idle, ~InTx(c)
  PROVE  call[c].op = "delete"
BY DEF TypeInv, ClientType, Calls, InTx

\* A step within a call.
LEMMA OwnStep ==
  ASSUME Isolation = "serializable", OwnInv, LinesHold', NEW c \in Clients, OnlyOf(c),
         UNCHANGED <<call, crashed>>, call[c] # Idle, tx'[c].snap = tx[c].snap,
         InTx(c) => UNCHANGED db,
         ~InTx(c) => db'.rows \subseteq db.rows /\ db'.envs \subseteq db.envs,
         Minded(prog[c])', Holds(c)', Single(held[c])', Shaped(View(c))', Onward(c),
         InTx(c) => Fresh(c)' /\ News(c)'
  PROVE  OwnInv'
<1>1. TypeInv /\ OwnClient(c) /\ (InTx(c)' <=> InTx(c))
  BY OwnTypes DEF OwnInv, InTx
<1>2. ~InTx(c) => View(c) = db /\ View(c)' = db' /\ call[c].op = "delete"
  BY <1>1, Deleting DEF View
<1>3. Shaped(db)'
  BY <1>2 DEF OwnInv
<1>4. ASSUME NEW id, Unowned(id, db')
      PROVE  crashed' \/ \E d \in Clients : call'[d].op = "delete" /\ Sees(d, id)'
  <2>1. \A d \in Clients \ {c} : Sees(d, id)' <=> Sees(d, id)
    BY DEF OnlyOf, Sees
  <2>2. ASSUME Unowned(id, db), InTx(c) \/ ~Sees(c, id)
        PROVE  crashed' \/ \E d \in Clients : call'[d].op = "delete" /\ Sees(d, id)'
    <3>1. CASE crashed
      BY <3>1
    <3>2. CASE ~crashed
      <4>1. PICK d \in Clients : call[d].op = "delete" /\ Sees(d, id)
        BY <2>2, <3>2 DEF OwnInv, OwnsDb
      <4>2. d # c
        BY <2>2, <4>1 DEF InTx
      <4> QED BY <2>1, <4>1, <4>2
    <3> QED BY <3>1, <3>2
  <2>3. CASE InTx(c)
    BY <1>4, <2>2, <2>3
  <2>4. CASE ~InTx(c)
    <3>1. \/ Sees(c, id)' \/ Binds(c, id)'
          \/ Unowned(id, db) /\ ~Sees(c, id)
      BY <1>2, <1>4, <2>4 DEF Onward
    <3>2. ~Binds(c, id)'
      <4>1. TypeInv'
        BY DEF LinesHold, LinesInv
      <4>2. ASSUME AtStmt(c, "insert")' PROVE FALSE
        <5>1. Stmt(c)' \in DeleteStatements /\ Stmt(c)'.do = "insert"
          <6>1. prog'[c] \in Seq(DeleteStatements) /\ prog'[c] # <<>> /\ Head(prog'[c]).do = "insert"
            BY <1>1, <2>4, <4>1, <4>2 DEF AtStmt, TypeInv, ClientType
          <6> QED BY <6>1 DEF Stmt
        <5> QED BY <5>1 DEF DeleteStatements, Removals, Loads, Checks
      <4> QED BY <4>2 DEF Binds
    <3>3. CASE Sees(c, id)'
      BY <1>2, <2>4, <3>3
    <3>4. CASE Unowned(id, db) /\ ~Sees(c, id)
      BY <2>2, <3>4
    <3> QED BY <3>1, <3>2, <3>3, <3>4
  <2> QED BY <2>3, <2>4
<1>5. OwnsDb'
  BY <1>4 DEF OwnsDb
<1>6. ASSUME InTx(c) PROVE OwnTx(c)'
  <2>1. ASSUME NEW id, Unowned(id, View(c)')
        PROVE  Unowned(id, tx'[c].snap) \/ Sees(c, id)' \/ Binds(c, id)'
    <3>1. \/ Sees(c, id)' \/ Binds(c, id)'
          \/ Unowned(id, View(c)) /\ ~Sees(c, id) /\ ~Binds(c, id)
      BY <2>1 DEF Onward
    <3> QED BY <1>1, <1>6, <3>1 DEF OwnClient, OwnTx, OwnsTx
  <2>2. OwnsTx(c)'
    BY <2>1 DEF OwnsTx
  <2> QED BY <1>6, <2>2 DEF OwnTx
<1>7. OwnClient(c)'
  BY <1>1, <1>6 DEF OwnClient
<1>8. ASSUME NEW d \in Clients \ {c}, ~InTx(d)
      PROVE  \A r \in db'.rows, e \in db'.envs :
               r.env = e.id /\ r.key \in Deleted(prog[d]) => r \in db.rows /\ e \in db.envs
  <2>1. db'.rows \subseteq db.rows /\ db'.envs \subseteq db.envs
    OBVIOUS
  <2> QED BY <2>1
<1> QED BY <1>3, <1>5, <1>7, <1>8, OwnFrame
-----------------------------------------------------------------------------
(* The steps of a call *)

\* The statement of c has been executed: those of r come before the others.
Advances(c, r) ==
  /\ ToSet(prog[c]) = {Stmt(c)} \cup ToSet(Tail(prog[c])) /\ OfTail(prog[c])
  /\ ToSet(prog'[c]) = ToSet(r) \cup ToSet(Tail(prog[c]))
  /\ Deleted(prog'[c]) = Deleted(r) \cup Deleted(Tail(prog[c]))
  /\ Inserted(prog'[c]) = Inserted(Tail(prog[c]))
  /\ Minded(prog'[c]) /\ (InsertsOnce(prog[c]) => InsertsOnce(prog'[c]))

LEMMA Advance ==
  ASSUME TypeInv, NEW c \in Clients, NEW w, AtStmt(c, w), Minded(prog[c]),
         NEW r, r \in Seq(Removals) \/ r \in Seq(Checks), Minded(r), Then(c, r)
  PROVE  Advances(c, r)
<1>1. PICK S : S = Statements(AddedKeys)
  OBVIOUS
<1>2. PICK p \in Seq(S) : p = prog[c] /\ p # <<>>
  BY <1>1 DEF AtStmt, TypeInv, ClientType
<1>3. PICK q \in Seq(S) : q = Tail(p)
  <2>1. Tail(p) \in Seq(S)
    BY <1>2, HeadTail
  <2> QED BY <2>1, Zenon
<1>4. r \in Seq(S) /\ \A s \in ToSet(r) : s.do # "insert"
  <2>1. Removals \subseteq S /\ Checks \subseteq S
    BY <1>1 DEF Statements, DeleteStatements
  <2>2. r \in Seq(S)
    BY <2>1
  <2>3. \A s \in Removals \cup Checks : s.do # "insert"
    BY DEF Removals, Checks
  <2>4. ToSet(r) \subseteq Removals \cup Checks
    BY DEF ToSet
  <2> QED BY <2>2, <2>3, <2>4
<1>5. prog'[c] = r \o q
  BY <1>2, <1>3 DEF Then, TypeInv
<1>6. PICK s \in Seq(S) : s = r \o q
  <2>1. r \o q \in Seq(S)
    BY <1>4
  <2> QED BY <2>1, Zenon
<1>7. Minded(q)
  BY <1>2, <1>3, MindedTail, Zenon
<1>8. Minded(s)
  BY <1>4, <1>6, <1>7, MindedJoin, Zenon
<1>9. ToSet(p) = {Head(p)} \cup ToSet(q) /\ OfTail(p)
  BY <1>2, <1>3, HeadTail, RowsOfTail
<1>10. ToSet(s) = ToSet(r) \cup ToSet(q)
  BY <1>4, <1>6, ToSetJoin
<1>11. Deleted(s) = Deleted(r) \cup Deleted(q)
  BY <1>4, <1>6, DeletedJoin
<1>12. Inserted(r) = {} /\ InsertsOnce(r)
  <2>1. Inserted(r) = {}
    BY <1>4 DEF Inserted
  <2>2. \A i, k : ~Does(r, i, "insert", k)
    BY <2>1, InsertedDoes
  <2> QED BY <2>1, <2>2, OnceDoes
<1>13. Inserted(s) = Inserted(q)
  <2>1. Inserted(s) = Inserted(r) \cup Inserted(q)
    BY <1>4, <1>6, InsertedJoin
  <2> QED BY <1>12, <2>1
<1>14. InsertsOnce(p) => InsertsOnce(s)
  <2>1. ASSUME InsertsOnce(p) PROVE InsertsOnce(q)
    BY <1>2, <1>3, <2>1, OnceTail, Zenon
  <2>2. InsertsOnce(q) => InsertsOnce(r \o q)
    BY <1>4, <1>12, OnceJoin
  <2> QED BY <1>6, <2>1, <2>2, Zenon
<1>15. prog'[c] = s /\ prog[c] = p /\ Tail(prog[c]) = q /\ Stmt(c) = Head(p)
  BY <1>2, <1>3, <1>5, <1>6 DEF Stmt
<1> QED BY <1>8, <1>9, <1>10, <1>11, <1>13, <1>14, <1>15 DEF Advances

LEMMA NoStatements ==
  ASSUME NEW r, r = <<>>
  PROVE  /\ r \in Seq(Removals) /\ ToSet(r) = {}
         /\ Deleted(r) = {} /\ Minded(r)
<1>1. r \in Seq(Removals)
  OBVIOUS
<1>2. ToSet(r) = {}
  BY DEF ToSet
<1>3. Deleted(r) = {}
  BY <1>2 DEF Deleted
<1>4. Minded(r)
  BY <1>2, MindedQuiet
<1> QED BY <1>1, <1>2, <1>3, <1>4

\* The program that is left of c's.
LEMMA OwnHead ==
  ASSUME OwnInv, NEW c \in Clients, NEW w, AtStmt(c, w)
  PROVE  /\ TypeInv /\ Minded(prog[c]) /\ Minded(Tail(prog[c]))
         /\ w = "delete" /\ Stmt(c).key \in EnvRowKeys =>
              \E s \in ToSet(Tail(prog[c])) : s.do = "owners" /\ s.key = Stmt(c).key
         /\ w = "findEnv" =>
              Tail(prog[c]) # <<>> /\ Head(Tail(prog[c])).do = "insert" /\ Head(Tail(prog[c])).hasEnv
         /\ w = "insert" /\ Stmt(c).hasEnv => Stmt(c).key \in EnvRowKeys
         /\ \A y \in ToSet(Tail(prog[c])) :
              /\ w \in {"loadManifest", "loadToken"} => y.do # "delete"
              /\ w = "loadManifest" => y.do \notin {"owners", "nextOwners", "dropEnv"}
              /\ w # "commit"
<1>1. TypeInv /\ Minded(prog[c])
  BY OwnTypes DEF OwnInv, OwnClient
<1>2. PICK S : prog[c] \in Seq(S)
  BY <1>1 DEF TypeInv, ClientType
<1>3. PICK p \in Seq(S) : p = prog[c] /\ p # <<>> /\ Head(p).do = w /\ Minded(p)
  BY <1>1, <1>2 DEF AtStmt
<1>4. /\ Minded(Tail(p))
      /\ Head(p).do = "delete" /\ Head(p).key \in EnvRowKeys =>
           \E s \in ToSet(Tail(p)) : s.do = "owners" /\ s.key = Head(p).key
      /\ Head(p).do = "findEnv" =>
           Tail(p) # <<>> /\ Head(Tail(p)).do = "insert" /\ Head(Tail(p)).hasEnv
      /\ Head(p).do = "insert" /\ Head(p).hasEnv => Head(p).key \in EnvRowKeys
  BY <1>3, MindedTail
<1>5. PICK E : LinesInv(E)
  BY DEF OwnInv, LinesHold
<1>6. PICK e : e = E[c] /\ Ordered(p, e)
  BY <1>3, <1>5, LinesHere DEF Runs
<1>7. \A y \in ToSet(Tail(p)) : Pair(Head(p), y, e)
  BY <1>3, <1>6, OrderedTail
<1>8. \A y \in ToSet(Tail(p)) :
        /\ w \in {"loadManifest", "loadToken"} => y.do # "delete"
        /\ w = "loadManifest" => y.do \notin {"owners", "nextOwners", "dropEnv"}
        /\ w # "commit"
  BY <1>3, <1>7 DEF Pair
<1>9. Stmt(c) = Head(p)
  BY <1>3 DEF Stmt
<1> QED BY <1>1, <1>3, <1>4, <1>8, <1>9

\* Who looks goes on looking, if it is not the statement that is executed.
LEMMA SeesStays ==
  ASSUME NEW c \in Clients, NEW r, Advances(c, r), held'[c] = held[c], NEW id,
         Sees(c, id), ~Looks(Stmt(c), held[c], id)
  PROVE  Sees(c, id)'
<1>1. PICK s \in ToSet(prog[c]) : Looks(s, held[c], id)
  BY DEF Sees
<1>2. s \in ToSet(prog'[c])
  BY <1>1 DEF Advances
<1>3. Looks(s, held'[c], id)
  BY <1>1
<1> QED BY <1>2, <1>3 DEF Sees

LEMMA NotLooking ==
  ASSUME NEW c \in Clients, NEW w, w \notin {"owners", "nextOwners", "dropEnv"}, AtStmt(c, w)
  PROVE  \A id : ~Looks(Stmt(c), held[c], id)
BY DEF AtStmt, Stmt, Looks

LEMMA NotBinding ==
  ASSUME NEW c \in Clients, NEW w, w # "insert", AtStmt(c, w)
  PROVE  \A id : ~Binds(c, id)
BY DEF Binds, AtStmt

LEMMA LooksAtHeld ==
  ASSUME TypeInv, NEW c \in Clients, AtStmt(c, "owners"), NEW id
  PROVE  Looks(Stmt(c), held[c], id) <=> id \in HeldBy(c)
<1>1. held[c] \subseteq InMemory
  BY DEF TypeInv, ClientType
<1>2. PICK H, k : H = held[c] /\ k = Stmt(c).key
  OBVIOUS
<1>3. [key |-> k, id |-> id] \in H <=> \E h \in H : h.key = k /\ h.id = id
  BY <1>1, <1>2 DEF InMemory
<1>4. id \in HeldBy(c) <=> \E h \in H : h.key = k /\ h.id = id
  BY <1>2 DEF HeldBy
<1> QED BY <1>2, <1>3, <1>4 DEF Looks, AtStmt, Stmt

LEMMA ShapedView ==
  ASSUME Isolation = "serializable", OwnInv, NEW c \in Clients
  PROVE  Shaped(View(c))
BY DEF OwnInv, OwnClient, OwnTx, View

\* Where the view stays, those who looked look on.
LEMMA OnwardSame ==
  ASSUME TypeInv, NEW c \in Clients, NEW w, AtStmt(c, w), w # "insert", NEW r, Advances(c, r),
         View(c)' = View(c), held'[c] = held[c],
         \A id : Unowned(id, View(c)) /\ Looks(Stmt(c), held[c], id) => Sees(c, id)'
  PROVE  Onward(c)
<1>1. ASSUME NEW id, Unowned(id, View(c)')
      PROVE  \/ Sees(c, id)' \/ Binds(c, id)'
             \/ Unowned(id, View(c)) /\ ~Sees(c, id) /\ ~Binds(c, id)
  <2>1. Unowned(id, View(c)) /\ ~Binds(c, id)
    BY <1>1, NotBinding
  <2>2. CASE Looks(Stmt(c), held[c], id)
    BY <2>1, <2>2
  <2>3. CASE ~Looks(Stmt(c), held[c], id)
    <3>1. Sees(c, id) => Sees(c, id)'
      BY <2>3, SeesStays
    <3> QED BY <2>1, <3>1
  <2> QED BY <2>2, <2>3
<1> QED BY <1>1 DEF Onward

\* A step that reads.
LEMMA OwnRead ==
  ASSUME Isolation = "serializable", OwnInv, LinesHold', NEW c \in Clients, OnlyOf(c),
         UNCHANGED <<db, call, tx, crashed>>, NEW w, AtStmt(c, w), NEW r, Advances(c, r),
         Holds(c)', Single(held[c])', Onward(c)
  PROVE  OwnInv'
<1>1. TypeInv
  BY OwnTypes
<1>2. View(c)' = View(c) /\ VisibleKeys(c)' = VisibleKeys(c) /\ SnapKeys(c)' = SnapKeys(c)
  BY ReadView DEF VisibleKeys, SnapKeys
<1>3. call[c] # Idle
  BY <1>1, AtStatement
<1>4. Minded(prog[c])' /\ Shaped(View(c))'
  BY <1>2, ShapedView DEF Advances
<1>5. ASSUME InTx(c) PROVE Fresh(c)' /\ News(c)'
  <2>1. Fresh(c) /\ News(c)
    BY <1>5 DEF OwnInv, OwnClient, OwnTx
  <2>2. InsertsOnce(prog'[c]) /\ Inserted(prog'[c]) \subseteq Inserted(prog[c])
    BY <2>1 DEF Fresh, Advances, OfTail
  <2> QED BY <1>2, <2>1, <2>2 DEF Fresh, News
<1> QED BY <1>3, <1>4, <1>5, OwnStep

\* A step that reads, and deletes nothing of what is held.
LEMMA OwnSame ==
  ASSUME Isolation = "serializable", OwnInv, LinesHold', NEW c \in Clients, OnlyOf(c),
         UNCHANGED <<db, call, tx, crashed, held>>, NEW w, AtStmt(c, w), w # "insert",
         NEW r, Advances(c, r),
         \A id : Unowned(id, View(c)) /\ Looks(Stmt(c), held[c], id) => Sees(c, id)',
         \A x \in View(c).rows, e \in View(c).envs : x.env = e.id => x.key \notin Deleted(r)
  PROVE  OwnInv'
<1>1. TypeInv /\ OwnClient(c)
  BY OwnTypes DEF OwnInv
<1>2. View(c)' = View(c) /\ held'[c] = held[c]
  BY ReadView
<1>3. Onward(c)
  BY <1>1, <1>2, OnwardSame
<1>4. Holds(c)'
  <2>1. Deleted(prog'[c]) \subseteq Deleted(r) \cup Deleted(prog[c])
    BY DEF Advances, OfTail
  <2>2. ASSUME NEW x \in View(c)'.rows, NEW e \in View(c)'.envs,
               x.env = e.id /\ x.key \in Deleted(prog'[c])
        PROVE  x \in View(c).rows /\ e \in View(c).envs /\ x.key \in Deleted(prog[c])
    BY <1>2, <2>1, <2>2
  <2> QED BY <1>1, <1>2, <2>2, HoldsStays DEF OwnClient
<1>5. Single(held[c])'
  BY <1>1, <1>2 DEF OwnClient
<1> QED BY <1>3, <1>4, <1>5, OwnRead

LEMMA OwnToken ==
  ASSUME Isolation = "serializable", OwnInv, LinesHold', NEW c \in Clients, LoadToken(c)
  PROVE  OwnInv'
<1>1. TypeInv /\ Minded(prog[c]) /\ Shaped(View(c)) /\ Known(View(c))
  BY OwnTypes, ShapedView, ViewKnown DEF OwnInv, OwnClient
<1>2. /\ AtStmt(c, "loadToken") /\ OnlyOf(c) /\ UNCHANGED <<db, call, bound, held, tx, crashed>>
  BY <1>1, OnlyMine DEF LoadToken
<1>3. PICK r \in Seq(Removals) :
        /\ Then(c, r) /\ Minded(r)
        /\ \A k \in Deleted(r) : k \notin EnvRowKeys
  <2>1. CASE Then(c, <<>>)
    <3>1. PICK r : r = <<>>
      OBVIOUS
    <3>2. r \in Seq(Removals) /\ Then(c, r) /\ Minded(r) /\ Deleted(r) = {}
      BY <2>1, <3>1, NoStatements
    <3> QED BY <3>2
  <2>2. ASSUME NEW d \in Docs, Then(c, DeleteToken(SelectToken(TokenOf[d])))
        PROVE  \E r \in Seq(Removals) : /\ Then(c, r) /\ Minded(r)
                                        /\ \A k \in Deleted(r) : k \notin EnvRowKeys
    <3>1. PICK r \in Seq(Removals) :
            /\ r = DeleteToken(SelectToken(TokenOf[d])) /\ Deleted(r) = {TokenOf[d].key}
            /\ TokenOf[d].key \in TokenRowsOf[d]
      BY TokenUnloaded
    <3>2. Then(c, r) /\ Minded(r)
      BY <2>2, <3>1, MindedToken, Zenon
    <3>3. \A k \in Deleted(r) : k \notin EnvRowKeys
      BY <3>1, EnvKeysOf
    <3> QED BY <3>2, <3>3
  <2> QED BY <2>1, <2>2 DEF LoadToken, Existing
<1>4. Advances(c, r)
  BY <1>1, <1>2, <1>3, Advance
<1>5. ASSUME NEW x \in View(c).rows, NEW e \in View(c).envs, x.env = e.id
      PROVE  x.key \notin Deleted(r)
  <2>1. x.env # 0
    BY <1>1, <1>5 DEF Known, TypeInv
  <2> QED BY <1>1, <1>3, <2>1 DEF Shaped
<1>6. \A id : ~Looks(Stmt(c), held[c], id)
  BY <1>2, NotLooking
<1> QED BY <1>2, <1>4, <1>5, <1>6, OwnSame

\* What is loaded is held with its environment.
LEMMA HeldOnce ==
  ASSUME NEW c \in Clients, Shaped(View(c))
  PROVE  /\ Single(HeldEnvs(c))
         /\ \A r \in View(c).rows, e \in View(c).envs :
              r.env = e.id => [key |-> r.key, id |-> e.id] \in HeldEnvs(c)
<1>1. ASSUME NEW h \in HeldEnvs(c), NEW g \in HeldEnvs(c), h.key = g.key PROVE h.id = g.id
  <2>1. PICK r \in View(c).rows : h = [key |-> r.key, id |-> r.env]
    BY DEF HeldEnvs
  <2>2. PICK s \in View(c).rows : g = [key |-> s.key, id |-> s.env]
    BY DEF HeldEnvs
  <2>3. r = s
    BY <1>1, <2>1, <2>2 DEF Shaped
  <2> QED BY <2>1, <2>2, <2>3
<1>2. ASSUME NEW r \in View(c).rows, NEW e \in View(c).envs, r.env = e.id
      PROVE  [key |-> r.key, id |-> e.id] \in HeldEnvs(c)
  BY <1>2 DEF HeldEnvs
<1> QED BY <1>1, <1>2 DEF Single

LEMMA OwnManifest ==
  ASSUME Isolation = "serializable", OwnInv, LinesHold', NEW c \in Clients, LoadManifest(c)
  PROVE  OwnInv'
<1>1. TypeInv /\ Minded(prog[c]) /\ Shaped(View(c))
  BY OwnTypes, ShapedView DEF OwnInv, OwnClient
<1>2. /\ AtStmt(c, "loadManifest") /\ OnlyOf(c) /\ UNCHANGED <<db, call, bound, tx, crashed>>
  BY <1>1, OnlyMine DEF LoadManifest
<1>3. CASE Then(c, <<>>) /\ UNCHANGED held
  <2>1. PICK r : r = <<>>
    OBVIOUS
  <2>2. r \in Seq(Removals) /\ Then(c, r) /\ Minded(r) /\ Deleted(r) = {}
    BY <1>3, <2>1, NoStatements
  <2>3. Advances(c, r)
    BY <1>1, <1>2, <2>2, Advance
  <2>4. \A id : ~Looks(Stmt(c), held[c], id)
    BY <1>2, NotLooking
  <2> QED BY <1>2, <1>3, <2>2, <2>3, <2>4, OwnSame
<1>4. ASSUME NEW d \in Existing(c, ManifestOf),
             Then(c, DeleteManifest(SelectManifest(ManifestOf[d], VisibleKeys(c)))),
             held' = [held EXCEPT ![c] = HeldEnvs(c)]
      PROVE  OwnInv'
  <2>1. PICK x : x \in Docs /\ x = d /\ ManifestOf[x].key \in VisibleKeys(c)
    BY <1>4 DEF Existing
  <2>2. PICK V \in SUBSET RowKeys : V = VisibleKeys(c)
    <3>1. \A r \in View(c).rows : r.key \in RowKeys
      BY <1>1, ViewKnown DEF Content, Rows
    <3> QED BY <3>1 DEF VisibleKeys
  <2>3. PICK r \in Seq(Removals) : r = Unloaded(x, V)
    BY <2>1, <2>2, ManifestUnloaded
  <2>4. Then(c, r) /\ Minded(r)
    <3>1. Then(c, r)
      BY <1>4, <2>1, <2>2, <2>3 DEF Unloaded
    <3>2. Minded(Unloaded(x, V))
      BY <2>1, <2>2, MindedManifest
    <3> QED BY <2>3, <3>1, <3>2
  <2>5. Advances(c, r)
    BY <1>1, <1>2, <2>4, Advance
  <2>6. held'[c] = HeldEnvs(c) /\ View(c)' = View(c)
    BY <1>1, <1>2, <1>4, ReadView DEF TypeInv
  <2>7. Holds(c)' /\ Single(held[c])'
    BY <1>1, <2>6, HeldOnce DEF Holds
  <2>8. \A id : ~Sees(c, id) /\ ~Binds(c, id)
    <3>1. \A s \in ToSet(prog[c]) : s.do \notin {"owners", "nextOwners", "dropEnv"}
      <4>1. \A s \in ToSet(Tail(prog[c])) : s.do \notin {"owners", "nextOwners", "dropEnv"}
        BY <1>2, OwnHead
      <4>2. Stmt(c).do = "loadManifest"
        BY <1>2 DEF AtStmt, Stmt
      <4> QED BY <2>5, <4>1, <4>2 DEF Advances
    <3>2. \A id : ~Binds(c, id)
      BY <1>2, NotBinding
    <3> QED BY <3>1, <3>2 DEF Sees, Looks
  <2>9. Onward(c)
    BY <2>6, <2>8 DEF Onward
  <2> QED BY <1>2, <2>5, <2>7, <2>9, OwnRead
<1> QED BY <1>3, <1>4 DEF LoadManifest

LEMMA OwnSkip ==
  ASSUME Isolation = "serializable", OwnInv, LinesHold', NEW c \in Clients,
         SkipOwners(c) \/ ReuseEnv(c)
  PROVE  OwnInv'
<1>1. TypeInv /\ Minded(prog[c])
  BY OwnTypes DEF OwnInv, OwnClient
<1>2. OnlyOf(c) /\ UNCHANGED <<db, call, held, tx, crashed>> /\ Then(c, <<>>)
  BY <1>1, OnlyMine DEF SkipOwners, ReuseEnv
<1>3. PICK w : /\ AtStmt(c, w) /\ w # "insert"
               /\ \A id : ~Looks(Stmt(c), held[c], id)
  <2>1. CASE SkipOwners(c)
    <3>1. AtStmt(c, "owners") /\ HeldBy(c) = {}
      BY <2>1 DEF SkipOwners
    <3>2. \A id : Looks(Stmt(c), held[c], id) <=> id \in HeldBy(c)
      BY <1>1, <3>1, LooksAtHeld
    <3> QED BY <3>1, <3>2
  <2>2. CASE ReuseEnv(c)
    <3>1. \A id : ~Looks(Stmt(c), held[c], id)
      BY <2>2, NotLooking DEF ReuseEnv
    <3> QED BY <2>2, <3>1 DEF ReuseEnv
  <2> QED BY <2>1, <2>2
<1>4. PICK r : r = <<>>
  OBVIOUS
<1>5. r \in Seq(Removals) /\ Then(c, r) /\ Minded(r) /\ Deleted(r) = {}
  BY <1>2, <1>4, NoStatements
<1>6. Advances(c, r)
  BY <1>1, <1>3, <1>5, Advance
<1> QED BY <1>2, <1>3, <1>5, <1>6, OwnSame

LEMMA OwnCheck ==
  ASSUME Isolation = "serializable", OwnInv, LinesHold', NEW c \in Clients, OnlyOf(c),
         NEW w, AtStmt(c, w), w # "insert", NEW i \in Nat,
         NEW tables \in Seq(OwnerTable) \ {<<>>}, Check(c, i, tables),
         \A id : Looks(Stmt(c), held[c], id) => id = i
  PROVE  OwnInv'
<1>1. TypeInv /\ Minded(prog[c])
  BY OwnTypes DEF OwnInv, OwnClient
<1>2. UNCHANGED <<db, call, held, tx, crashed>>
  BY DEF Check
<1>3. PICK r \in Seq(Checks) :
        /\ Then(c, r)
        /\ OwnedIn(c, i, Head(tables)) \/ \E s \in Checks : r = <<s>> /\ s.id = i
  BY CheckProgram
<1>4. Minded(r) /\ Deleted(r) = {}
  BY MindedChecks, ChecksDelete
<1>5. Advances(c, r)
  BY <1>1, <1>3, <1>4, Advance
<1>6. ASSUME NEW id, Unowned(id, View(c)), Looks(Stmt(c), held[c], id)
      PROVE  Sees(c, id)'
  <2>1. id = i
    BY <1>6
  <2>2. ~OwnedIn(c, i, Head(tables))
    BY <1>6, <2>1 DEF Unowned, OwnedIn
  <2>3. PICK s \in Checks : r = <<s>> /\ s.id = i
    BY <1>3, <2>2
  <2>4. s \in ToSet(prog'[c])
    <3>1. ToSet(r) = {s}
      BY <2>3, OneStatement
    <3> QED BY <1>5, <3>1 DEF Advances
  <2>5. Looks(s, held'[c], id)
    BY <2>1, <2>3 DEF Looks, Checks
  <2> QED BY <2>4, <2>5 DEF Sees
<1> QED BY <1>2, <1>4, <1>5, <1>6, OwnSame

LEMMA OwnChecks ==
  ASSUME Isolation = "serializable", OwnInv, LinesHold', NEW c \in Clients,
         CheckOwners(c) \/ CheckNextOwners(c)
  PROVE  OwnInv'
<1>1. TypeInv /\ OnlyOf(c) /\ Single(held[c])
  BY OwnTypes, OnlyMine DEF OwnInv, OwnClient
<1>2. CASE CheckOwners(c)
  <2>1. PICK i \in HeldBy(c) : Check(c, i, environmentOwners)
    BY <1>2 DEF CheckOwners
  <2>2. i \in Nat
    BY <1>1 DEF HeldBy, TypeInv, ClientType, InMemory
  <2>3. ASSUME NEW id, Looks(Stmt(c), held[c], id) PROVE id = i
    <3>1. id \in HeldBy(c)
      BY <1>1, <1>2, <2>3, LooksAtHeld DEF CheckOwners
    <3> QED BY <1>1, <3>1 DEF HeldBy, Single
  <2>4. AtStmt(c, "owners")
    BY <1>2 DEF CheckOwners
  <2> QED BY <1>1, <2>1, <2>2, <2>3, <2>4, OwnersSequence, OwnCheck
<1>3. CASE CheckNextOwners(c)
  <2>1. AtStmt(c, "nextOwners") /\ Check(c, Stmt(c).id, Stmt(c).tables)
    BY <1>3 DEF CheckNextOwners
  <2>2. PICK i, tables : i = Stmt(c).id /\ tables = Stmt(c).tables
    OBVIOUS
  <2>3. i \in Nat /\ tables \in Seq(OwnerTable) \ {<<>>}
    BY <1>1, <2>1, <2>2, AtStatement, StatementFields
  <2>4. \A id : Looks(Stmt(c), held[c], id) => id = i
    BY <2>1, <2>2 DEF Looks, AtStmt, Stmt
  <2>5. Check(c, i, tables)
    BY <2>1, <2>2
  <2> QED BY <1>1, <2>1, <2>3, <2>4, <2>5, OwnCheck
<1> QED BY <1>2, <1>3

LEMMA OwnInsert ==
  ASSUME Isolation = "serializable", OwnInv, LinesHold', NEW c \in Clients, InsertRow(c)
  PROVE  OwnInv'
<1>1. TypeInv /\ OnlyOf(c) /\ OwnClient(c) /\ Shaped(View(c))
  BY OwnTypes, OnlyMine, ShapedView DEF OwnInv
<1>2. /\ AtStmt(c, "insert") /\ InTx(c) /\ Then(c, <<>>)
      /\ UNCHANGED <<call, bound, held, added, crashed, db>> /\ tx'[c].snap = tx[c].snap
      /\ View(c)'.rows = View(c).rows \cup {NewRow(c)} /\ View(c)'.envs = View(c).envs
  BY <1>1, InsertView
<1>3. PICK row \in Rows : /\ row = NewRow(c) /\ row.key = Stmt(c).key
                          /\ row.env = (IF Stmt(c).hasEnv THEN bound[c] ELSE 0)
  BY <1>1, <1>2, NewRowType
<1>4. PICK r : r = <<>>
  OBVIOUS
<1>5. r \in Seq(Removals) /\ Then(c, r) /\ Minded(r) /\ Deleted(r) = {}
  BY <1>2, <1>4, NoStatements
<1>6. Advances(c, r)
  BY <1>1, <1>2, <1>5, Advance DEF OwnClient
<1>7. /\ Inserted(prog[c]) = {row.key} \cup Inserted(prog'[c])
      /\ Deleted(prog'[c]) = Deleted(prog[c])
  <2>1. Stmt(c).do = "insert" /\ Head(prog[c]) = Stmt(c)
    BY <1>2 DEF AtStmt, Stmt
  <2> QED BY <1>3, <1>5, <1>6, <2>1 DEF Advances, OfTail
<1>8. Fresh(c) /\ News(c)
  BY <1>1, <1>2 DEF OwnClient, OwnTx
<1>9. row.key \notin VisibleKeys(c) /\ row.key \notin Inserted(prog'[c])
  <2>1. PICK S : prog[c] \in Seq(S)
    BY <1>1 DEF TypeInv, ClientType
  <2>2. Head(prog[c]).key \notin Inserted(Tail(prog[c]))
    BY <1>2, <1>8, <2>1, OnceTail DEF Fresh, AtStmt
  <2> QED BY <1>3, <1>6, <1>7, <1>8, <2>2 DEF Fresh, Advances, Stmt
<1>10. VisibleKeys(c)' = VisibleKeys(c) \cup {row.key}
  BY <1>2, <1>3 DEF VisibleKeys
<1>11. Fresh(c)'
  BY <1>6, <1>7, <1>8, <1>9, <1>10 DEF Fresh, Advances
<1>12. PICK E : LinesInv(E)
  BY DEF OwnInv, LinesHold
<1>13. row.key \in AddRows(E[c]) /\ row.key \notin Deleted(prog[c]) /\ row.key \notin SnapKeys(c)
  BY <1>2, <1>7, <1>12, LinesHere DEF Runs, Adding
<1>14. SnapKeys(c)' = SnapKeys(c)
  BY <1>2 DEF SnapKeys
<1>15. News(c)'
  <2>1. ASSUME NEW x \in View(c)'.rows
        PROVE  x \in tx'[c].snap.rows \/ x.key \notin SnapKeys(c)'
    BY <1>2, <1>3, <1>8, <1>13, <1>14, <2>1 DEF News
  <2>2. ASSUME NEW e \in View(c)'.envs
        PROVE  e \in tx'[c].snap.envs \/ \A x \in tx'[c].snap.rows : x.env # e.id
    BY <1>2, <1>8, <2>2 DEF News
  <2> QED BY <2>1, <2>2 DEF News
<1>16. Shaped(View(c))'
  <2>1. row.env # 0 => row.key \in EnvRowKeys
    BY <1>2, <1>3, OwnHead
  <2>2. \A x \in View(c).rows : x.key # row.key
    BY <1>9 DEF VisibleKeys
  <2> QED BY <1>1, <1>2, <1>3, <2>1, <2>2 DEF Shaped
<1>17. Holds(c)'
  <2>1. ASSUME NEW x \in View(c)'.rows, NEW e \in View(c)'.envs,
               x.env = e.id /\ x.key \in Deleted(prog'[c])
        PROVE  x \in View(c).rows /\ e \in View(c).envs /\ x.key \in Deleted(prog[c])
    BY <1>2, <1>3, <1>7, <1>13, <2>1
  <2> QED BY <1>1, <1>2, <2>1, HoldsStays DEF OwnClient
<1>18. Onward(c)
  <2>1. ASSUME NEW id, Unowned(id, View(c)')
        PROVE  \/ Sees(c, id)' \/ Binds(c, id)'
               \/ Unowned(id, View(c)) /\ ~Sees(c, id) /\ ~Binds(c, id)
    <3>1. Unowned(id, View(c)) /\ row.env # id
      BY <1>2, <1>3, <2>1 DEF Unowned
    <3>2. ~Binds(c, id)
      BY <1>3, <3>1 DEF Binds
    <3>3. ~Looks(Stmt(c), held[c], id)
      BY <1>2, NotLooking
    <3>4. Sees(c, id) => Sees(c, id)'
      BY <1>2, <1>6, <3>3, SeesStays
    <3> QED BY <3>1, <3>2, <3>4
  <2> QED BY <2>1 DEF Onward
<1>19. Minded(prog[c])' /\ Single(held[c])' /\ call[c] # Idle
  BY <1>1, <1>2, <1>6, AtStatement DEF Advances, OwnClient
<1> QED BY <1>1, <1>2, <1>11, <1>15, <1>16, <1>17, <1>18, <1>19, OwnStep

LEMMA OwnDelete ==
  ASSUME Isolation = "serializable", OwnInv, LinesHold', NEW c \in Clients, DeleteRow(c)
  PROVE  OwnInv'
<1>1. TypeInv /\ OnlyOf(c) /\ OwnClient(c) /\ Shaped(View(c)) /\ Known(View(c))
  BY OwnTypes, OnlyMine, ShapedView, ViewKnown DEF OwnInv
<1>2. /\ AtStmt(c, "delete") /\ Then(c, <<>>)
      /\ UNCHANGED <<call, bound, held, added, crashed>> /\ tx'[c].snap = tx[c].snap
      /\ IF InTx(c) THEN UNCHANGED db ELSE db = View(c) /\ db' = View(c)'
      /\ View(c)'.rows = {r \in View(c).rows : r.key # Stmt(c).key}
      /\ View(c)'.envs = View(c).envs
  BY <1>1, DeleteView
<1>3. PICK k : k = Stmt(c).key
  OBVIOUS
<1>4. PICK r : r = <<>>
  OBVIOUS
<1>5. r \in Seq(Removals) /\ Then(c, r) /\ Minded(r) /\ Deleted(r) = {}
  BY <1>2, <1>4, NoStatements
<1>6. Advances(c, r)
  BY <1>1, <1>2, <1>5, Advance DEF OwnClient
<1>7. /\ Inserted(prog'[c]) = Inserted(prog[c])
      /\ Deleted(prog[c]) = {k} \cup Deleted(prog'[c])
  <2>1. Stmt(c).do = "delete" /\ Head(prog[c]) = Stmt(c)
    BY <1>2 DEF AtStmt, Stmt
  <2> QED BY <1>3, <1>5, <1>6, <2>1 DEF Advances, OfTail
<1>8. View(c)'.rows \subseteq View(c).rows /\ VisibleKeys(c)' \subseteq VisibleKeys(c)
  BY <1>2 DEF VisibleKeys
<1>9. ASSUME InTx(c) PROVE Fresh(c)' /\ News(c)'
  <2>1. Fresh(c) /\ News(c) /\ SnapKeys(c)' = SnapKeys(c)
    BY <1>1, <1>2, <1>9 DEF OwnClient, OwnTx, SnapKeys
  <2>2. Fresh(c)'
    BY <1>6, <1>7, <1>8, <2>1 DEF Fresh, Advances
  <2>3. News(c)'
    BY <1>2, <1>8, <2>1 DEF News
  <2> QED BY <2>2, <2>3
<1>10. Shaped(View(c))'
  BY <1>1, <1>8 DEF Shaped
<1>11. Holds(c)'
  <2>1. ASSUME NEW x \in View(c)'.rows, NEW e \in View(c)'.envs,
               x.env = e.id /\ x.key \in Deleted(prog'[c])
        PROVE  x \in View(c).rows /\ e \in View(c).envs /\ x.key \in Deleted(prog[c])
    BY <1>2, <1>7, <1>8, <2>1
  <2> QED BY <1>1, <1>2, <2>1, HoldsStays DEF OwnClient
<1>12. Onward(c)
  <2>1. ASSUME NEW id, Unowned(id, View(c)')
        PROVE  \/ Sees(c, id)' \/ Binds(c, id)'
               \/ Unowned(id, View(c)) /\ ~Sees(c, id) /\ ~Binds(c, id)
    <3>1. PICK e \in View(c).envs : e.id = id
      BY <1>2, <2>1 DEF Unowned
    <3>2. CASE Unowned(id, View(c))
      <4>1. ~Binds(c, id) /\ ~Looks(Stmt(c), held[c], id)
        BY <1>2, NotBinding, NotLooking
      <4>2. Sees(c, id) => Sees(c, id)'
        BY <1>2, <1>6, <4>1, SeesStays
      <4> QED BY <3>2, <4>1, <4>2
    <3>3. CASE ~Unowned(id, View(c))
      <4>1. PICK x \in View(c).rows : x.env = id
        BY <3>1, <3>3 DEF Unowned
      <4>2. x.key = k
        BY <1>2, <1>3, <2>1, <4>1 DEF Unowned
      <4>3. k \in EnvRowKeys
        <5>1. x.env # 0
          BY <1>1, <3>1, <4>1 DEF Known, TypeInv
        <5> QED BY <1>1, <4>2, <5>1 DEF Shaped
      <4>4. PICK s \in ToSet(Tail(prog[c])) : s.do = "owners" /\ s.key = k
        BY <1>2, <1>3, <4>3, OwnHead
      <4>5. [key |-> k, id |-> id] \in held[c]
        BY <1>1, <1>7, <3>1, <4>1, <4>2 DEF OwnClient, Holds
      <4>6. s \in ToSet(prog'[c])
        BY <1>6, <4>4 DEF Advances
      <4>7. Looks(s, held'[c], id)
        BY <1>2, <4>4, <4>5 DEF Looks
      <4> QED BY <4>6, <4>7 DEF Sees
    <3> QED BY <3>2, <3>3
  <2> QED BY <2>1 DEF Onward
<1>13. Minded(prog[c])' /\ Single(held[c])' /\ call[c] # Idle
  BY <1>1, <1>2, <1>6, AtStatement DEF Advances, OwnClient
<1>14. /\ InTx(c) => UNCHANGED db
       /\ ~InTx(c) => db'.rows \subseteq db.rows /\ db'.envs \subseteq db.envs
  <2>1. CASE InTx(c)
    BY <1>2, <2>1
  <2>2. CASE ~InTx(c)
    <3>1. db = View(c) /\ db' = View(c)'
      BY <1>2, <2>2
    <3> QED BY <1>2, <1>8, <2>2, <3>1
  <2> QED BY <2>1, <2>2
<1> QED BY <1>1, <1>2, <1>9, <1>10, <1>11, <1>12, <1>13, <1>14, OwnStep

LEMMA OwnDrop ==
  ASSUME Isolation = "serializable", OwnInv, LinesHold', NEW c \in Clients, DropEnv(c)
  PROVE  OwnInv'
<1>1. TypeInv /\ OnlyOf(c) /\ OwnClient(c) /\ Shaped(View(c))
  BY OwnTypes, OnlyMine, ShapedView DEF OwnInv
<1>2. /\ AtStmt(c, "dropEnv") /\ Then(c, <<>>)
      /\ UNCHANGED <<call, bound, held, added, crashed>> /\ tx'[c].snap = tx[c].snap
      /\ IF InTx(c) THEN UNCHANGED db ELSE db = View(c) /\ db' = View(c)'
      /\ View(c)'.rows = View(c).rows
      /\ View(c)'.envs = {e \in View(c).envs : e.id # Stmt(c).id}
  BY <1>1, DropView
<1>3. PICK r : r = <<>>
  OBVIOUS
<1>4. r \in Seq(Removals) /\ Then(c, r) /\ Minded(r) /\ Deleted(r) = {}
  BY <1>2, <1>3, NoStatements
<1>5. Advances(c, r)
  BY <1>1, <1>2, <1>4, Advance DEF OwnClient
<1>6. Inserted(prog'[c]) \subseteq Inserted(prog[c]) /\ Deleted(prog'[c]) \subseteq Deleted(prog[c])
  BY <1>4, <1>5 DEF Advances, OfTail
<1>7. View(c)'.envs \subseteq View(c).envs /\ VisibleKeys(c)' = VisibleKeys(c)
  BY <1>2 DEF VisibleKeys
<1>8. ASSUME InTx(c) PROVE Fresh(c)' /\ News(c)'
  <2>1. Fresh(c) /\ News(c) /\ SnapKeys(c)' = SnapKeys(c)
    BY <1>1, <1>2, <1>8 DEF OwnClient, OwnTx, SnapKeys
  <2>2. Fresh(c)'
    BY <1>5, <1>6, <1>7, <2>1 DEF Fresh, Advances
  <2>3. News(c)'
    BY <1>2, <1>7, <2>1 DEF News
  <2> QED BY <2>2, <2>3
<1>9. Shaped(View(c))'
  BY <1>1, <1>2 DEF Shaped
<1>10. Holds(c)'
  <2>1. ASSUME NEW x \in View(c)'.rows, NEW e \in View(c)'.envs,
               x.env = e.id /\ x.key \in Deleted(prog'[c])
        PROVE  x \in View(c).rows /\ e \in View(c).envs /\ x.key \in Deleted(prog[c])
    BY <1>2, <1>6, <1>7, <2>1
  <2> QED BY <1>1, <1>2, <2>1, HoldsStays DEF OwnClient
<1>11. Onward(c)
  <2>1. ASSUME NEW id, Unowned(id, View(c)')
        PROVE  \/ Sees(c, id)' \/ Binds(c, id)'
               \/ Unowned(id, View(c)) /\ ~Sees(c, id) /\ ~Binds(c, id)
    <3>1. Unowned(id, View(c)) /\ id # Stmt(c).id
      BY <1>2, <2>1 DEF Unowned
    <3>2. ~Binds(c, id) /\ ~Looks(Stmt(c), held[c], id)
      BY <1>2, <3>1, NotBinding DEF Looks, AtStmt, Stmt
    <3>3. Sees(c, id) => Sees(c, id)'
      BY <1>2, <1>5, <3>2, SeesStays
    <3> QED BY <3>1, <3>2, <3>3
  <2> QED BY <2>1 DEF Onward
<1>12. Minded(prog[c])' /\ Single(held[c])' /\ call[c] # Idle
  BY <1>1, <1>2, <1>5, AtStatement DEF Advances, OwnClient
<1>13. /\ InTx(c) => UNCHANGED db
       /\ ~InTx(c) => db'.rows \subseteq db.rows /\ db'.envs \subseteq db.envs
  <2>1. CASE InTx(c)
    BY <1>2, <2>1
  <2>2. CASE ~InTx(c)
    <3>1. db = View(c) /\ db' = View(c)'
      BY <1>2, <2>2
    <3> QED BY <1>2, <1>7, <2>2, <3>1
  <2> QED BY <2>1, <2>2
<1> QED BY <1>1, <1>2, <1>8, <1>9, <1>10, <1>11, <1>12, <1>13, OwnStep

LEMMA OwnInsertEnv ==
  ASSUME Isolation = "serializable", OwnInv, LinesHold', NEW c \in Clients, InsertEnv(c)
  PROVE  OwnInv'
<1>1. TypeInv /\ OnlyOf(c) /\ OwnClient(c) /\ Shaped(View(c)) /\ Known(View(c)) /\ View(c) \in Content
  BY OwnTypes, OnlyMine, ShapedView, ViewKnown DEF OwnInv
<1>2. /\ AtStmt(c, "findEnv") /\ InTx(c) /\ Then(c, <<>>)
      /\ UNCHANGED <<call, held, added, crashed, db>> /\ tx'[c].snap = tx[c].snap
      /\ View(c)'.rows = View(c).rows
      /\ View(c)'.envs = View(c).envs \cup {[id |-> nextEnv, env |-> Stmt(c).env]}
      /\ bound'[c] = nextEnv /\ nextEnv' = nextEnv + 1
  BY <1>1, InsertEnvView
<1>3. PICK r : r = <<>>
  OBVIOUS
<1>4. r \in Seq(Removals) /\ Then(c, r) /\ Minded(r) /\ Deleted(r) = {}
  BY <1>2, <1>3, NoStatements
<1>5. Advances(c, r)
  BY <1>1, <1>2, <1>4, Advance DEF OwnClient
<1>6. Inserted(prog'[c]) \subseteq Inserted(prog[c]) /\ Deleted(prog'[c]) \subseteq Deleted(prog[c])
  BY <1>4, <1>5 DEF Advances, OfTail
<1>7. \A x \in View(c).rows \cup tx[c].snap.rows : x.env # nextEnv
  <2>1. \A x \in View(c).rows \cup tx[c].snap.rows : x.env \in Nat /\ x.env < nextEnv
    <3>1. View(c).rows \subseteq Rows /\ tx[c].snap.rows \subseteq Rows
      BY <1>1 DEF TypeInv, ClientType, Transactions, Content
    <3>2. \A x \in Rows : x.env \in Nat
      BY DEF Rows
    <3>3. \A x \in View(c).rows \cup tx[c].snap.rows : x.env < nextEnv
      BY <1>1 DEF TypeInv, ClientType, Known
    <3> QED BY <3>1, <3>2, <3>3
  <2> QED BY <1>1, <2>1 DEF TypeInv
<1>8. PICK new : new = [id |-> nextEnv, env |-> Stmt(c).env] /\ new.id = nextEnv
  <2>1. [id |-> nextEnv, env |-> Stmt(c).env].id = nextEnv
    OBVIOUS
  <2> QED BY <2>1, Zenon
<1>9. Fresh(c)' /\ News(c)'
  <2>1. Fresh(c) /\ News(c) /\ SnapKeys(c)' = SnapKeys(c) /\ VisibleKeys(c)' = VisibleKeys(c)
    BY <1>1, <1>2 DEF OwnClient, OwnTx, SnapKeys, VisibleKeys
  <2>2. Fresh(c)'
    BY <1>5, <1>6, <2>1 DEF Fresh, Advances
  <2>3. \A x \in View(c)'.rows : x \in tx'[c].snap.rows \/ x.key \notin SnapKeys(c)'
    BY <1>2, <2>1 DEF News
  <2>4. ASSUME NEW e \in View(c)'.envs
        PROVE  e \in tx'[c].snap.envs \/ \A x \in tx'[c].snap.rows : x.env # e.id
    BY <1>2, <1>7, <1>8, <2>1, <2>4 DEF News
  <2> QED BY <2>2, <2>3, <2>4 DEF News
<1>10. Shaped(View(c))'
  BY <1>1, <1>2 DEF Shaped
<1>11. Holds(c)'
  <2>1. ASSUME NEW x \in View(c)'.rows, NEW e \in View(c)'.envs,
               x.env = e.id /\ x.key \in Deleted(prog'[c])
        PROVE  x \in View(c).rows /\ e \in View(c).envs /\ x.key \in Deleted(prog[c])
    BY <1>2, <1>6, <1>7, <1>8, <2>1
  <2> QED BY <1>1, <1>2, <2>1, HoldsStays DEF OwnClient
<1>12. AtStmt(c, "insert")' /\ Stmt(c)'.hasEnv
  <2>1. prog'[c] = Tail(prog[c])
    BY <1>1, <1>2, NextStatement DEF AtStmt
  <2>2. Tail(prog[c]) # <<>> /\ Head(Tail(prog[c])).do = "insert" /\ Head(Tail(prog[c])).hasEnv
    BY <1>2, OwnHead
  <2> QED BY <2>1, <2>2 DEF AtStmt, Stmt
<1>13. Onward(c)
  <2>1. ASSUME NEW id, Unowned(id, View(c)')
        PROVE  \/ Sees(c, id)' \/ Binds(c, id)'
               \/ Unowned(id, View(c)) /\ ~Sees(c, id) /\ ~Binds(c, id)
    <3>1. CASE id = nextEnv
      BY <1>2, <1>12, <3>1 DEF Binds
    <3>2. CASE id # nextEnv
      <4>1. Unowned(id, View(c))
        BY <1>2, <1>8, <2>1, <3>2 DEF Unowned
      <4>2. ~Binds(c, id) /\ ~Looks(Stmt(c), held[c], id)
        BY <1>2, NotBinding, NotLooking
      <4>3. Sees(c, id) => Sees(c, id)'
        BY <1>2, <1>5, <4>2, SeesStays
      <4> QED BY <4>1, <4>2, <4>3
    <3> QED BY <3>1, <3>2
  <2> QED BY <2>1 DEF Onward
<1>14. Minded(prog[c])' /\ Single(held[c])' /\ call[c] # Idle
  BY <1>1, <1>2, <1>5, AtStatement DEF Advances, OwnClient
<1> QED BY <1>1, <1>2, <1>9, <1>10, <1>11, <1>13, <1>14, OwnStep
-----------------------------------------------------------------------------
(* The beginning and the end of a call *)

\* Who deletes and looks goes on, or has stopped halfway.
LEMMA OwnDbStays ==
  ASSUME OwnInv, NEW c \in Clients, OnlyOf(c), crashed => crashed',
         \A id : Unowned(id, db') => Unowned(id, db),
         \A id : call[c].op = "delete" /\ Sees(c, id) => crashed'
  PROVE  OwnsDb'
<1>1. ASSUME NEW id, Unowned(id, db')
      PROVE  crashed' \/ \E d \in Clients : call'[d].op = "delete" /\ Sees(d, id)'
  <2>1. Unowned(id, db)
    BY <1>1
  <2>2. CASE crashed
    BY <2>2
  <2>3. CASE ~crashed
    <3>1. PICK d \in Clients : call[d].op = "delete" /\ Sees(d, id)
      BY <2>1, <2>3 DEF OwnInv, OwnsDb
    <3>2. CASE d = c
      BY <3>1, <3>2
    <3>3. CASE d # c
      BY <3>1, <3>3 DEF OnlyOf, Sees
    <3> QED BY <3>2, <3>3
  <2> QED BY <2>2, <2>3
<1> QED BY <1>1 DEF OwnsDb

\* A call that has nothing to delete yet, or no longer.
LEMMA OwnNothing ==
  ASSUME NEW c \in Clients, held'[c] = {}, NEW p, p = prog'[c], Deleted(p) = {}, Minded(p),
         InTx(c)' => OwnTx(c)'
  PROVE  OwnClient(c)'
<1>1. Holds(c)' /\ Single(held[c])' /\ Minded(prog[c])'
  BY DEF Holds, Single
<1> QED BY <1>1 DEF OwnClient

LEMMA OwnBeginAdd ==
  ASSUME Isolation = "serializable", OwnInv, LinesHold', NEW c \in Clients, BeginAdd(c)
  PROVE  OwnInv'
<1>1. TypeInv /\ OnlyOf(c) /\ Shaped(db)
  BY OwnTypes, OnlyMine DEF OwnInv
<1>2. PICK d \in Docs \ added :
        /\ BeginCall(c, "add", IdOf[d], AddBytes(d))
        /\ tx' = [tx EXCEPT ![c].snap = IF Isolation = "serializable" THEN db ELSE Empty]
  BY DEF BeginAdd
<1>3. UNCHANGED db /\ InTx(c)' /\ View(c)'.rows = db.rows /\ View(c)'.envs = db.envs
  BY <1>1, BeginView
<1>4. /\ call[c] = Idle /\ prog'[c] = AddBytes(d) /\ held'[c] = {} /\ crashed' = crashed
      /\ tx'[c].snap = db
  <2>1. call[c] = Idle /\ prog'[c] = AddBytes(d) /\ held' = held /\ crashed' = crashed
    BY <1>1, <1>2 DEF BeginCall, TypeInv
  <2>2. held[c] = {} /\ tx[c] = NoTx
    BY <1>1, <2>1 DEF TypeInv, ClientType
  <2>3. tx'[c].snap = db
    BY <1>1, <1>2, <2>2 DEF NoTx, TypeInv
  <2> QED BY <2>1, <2>2, <2>3
<1>5. PICK p : p = AddBytes(d) /\ Minded(p) /\ Deleted(p) = {} /\ InsertsOnce(p) /\ Inserted(p) = AddRows(d)
  BY MindedAdd, DocRows, KeyAssumption DEF AddRows
<1>6. OwnTx(c)'
  <2>1. VisibleKeys(c)' = Keys
    BY <1>3 DEF VisibleKeys, Keys
  <2>2. Keys \cap AddRows(d) = {}
    BY <1>1, KnownKeys, NewApart DEF TypeInv
  <2>3. Fresh(c)'
    BY <1>4, <1>5, <2>1, <2>2 DEF Fresh
  <2>4. News(c)' /\ Shaped(View(c))'
    BY <1>1, <1>3, <1>4 DEF News, Shaped
  <2>5. OwnsTx(c)'
    BY <1>3, <1>4 DEF OwnsTx, Unowned
  <2> QED BY <2>3, <2>4, <2>5 DEF OwnTx
<1>7. OwnClient(c)'
  <2>1. p = prog'[c]
    BY <1>4, <1>5
  <2> QED BY <1>4, <1>5, <1>6, <2>1, OwnNothing
<1>8. OwnsDb'
  <2>1. \A id : Unowned(id, db') => Unowned(id, db)
    BY <1>3
  <2>2. call[c].op # "delete"
    BY <1>4 DEF Idle
  <2> QED BY <1>1, <1>4, <2>1, <2>2, OwnDbStays
<1>9. Shaped(db)'
  BY <1>1, <1>3
<1>10. ASSUME NEW b \in Clients \ {c}, ~InTx(b)
       PROVE  \A r \in db'.rows, e \in db'.envs :
                r.env = e.id /\ r.key \in Deleted(prog[b]) => r \in db.rows /\ e \in db.envs
  BY <1>3
<1> QED BY <1>1, <1>7, <1>8, <1>9, <1>10, OwnFrame

LEMMA OwnBeginDelete ==
  ASSUME Isolation = "serializable", OwnInv, LinesHold', NEW c \in Clients, BeginDelete(c)
  PROVE  OwnInv'
<1>1. TypeInv /\ OnlyOf(c) /\ Shaped(db)
  BY OwnTypes, OnlyMine DEF OwnInv
<1>2. PICK i \in Ids :
        /\ BeginCall(c, "delete", i, <<[do |-> "loadManifest", id |-> i]>>)
        /\ UNCHANGED <<added, tx>>
  BY DEF BeginDelete
<1>3. /\ call[c] = Idle /\ prog'[c] = <<[do |-> "loadManifest", id |-> i]>>
      /\ held' = held /\ crashed' = crashed /\ db' = db /\ call'[c].op = "delete"
  BY <1>1, <1>2 DEF BeginCall, TypeInv
<1>4. held'[c] = {} /\ ~InTx(c)'
  BY <1>1, <1>3 DEF TypeInv, ClientType, InTx
<1>5. PICK s : s = [do |-> "loadManifest", id |-> i] /\ s.do = "loadManifest"
  <2>1. [do |-> "loadManifest", id |-> i].do = "loadManifest"
    OBVIOUS
  <2> QED BY <2>1, Zenon
<1>6. PICK p : p = <<s>> /\ ToSet(p) = {s}
  BY OneStatement
<1>7. Deleted(p) = {} /\ Minded(p)
  <2>1. \A y \in ToSet(p) : y.do = "loadManifest"
    BY <1>5, <1>6
  <2>2. Deleted(p) = {}
    BY <2>1 DEF Deleted
  <2> QED BY <2>1, <2>2, MindedQuiet
<1>8. OwnClient(c)'
  <2>1. p = prog'[c]
    BY <1>3, <1>5, <1>6
  <2> QED BY <1>4, <1>7, <2>1, OwnNothing
<1>9. OwnsDb'
  <2>1. \A id : Unowned(id, db') => Unowned(id, db)
    BY <1>3
  <2>2. call[c].op # "delete"
    BY <1>3 DEF Idle
  <2> QED BY <1>1, <1>3, <2>1, <2>2, OwnDbStays
<1>10. Shaped(db)'
  BY <1>1, <1>3
<1>11. ASSUME NEW b \in Clients \ {c}, ~InTx(b)
       PROVE  \A r \in db'.rows, e \in db'.envs :
                r.env = e.id /\ r.key \in Deleted(prog[b]) => r \in db.rows /\ e \in db.envs
  BY <1>3
<1> QED BY <1>1, <1>8, <1>9, <1>10, <1>11, OwnFrame

LEMMA OwnReturn ==
  ASSUME TypeInv, NEW c \in Clients, Return(c)
  PROVE  OwnClient(c)'
<1>1. prog'[c] = <<>> /\ held'[c] = {} /\ call'[c] = Idle
  BY DEF Return, TypeInv
<1>2. ~InTx(c)'
  BY <1>1 DEF InTx, Idle
<1>3. PICK p : p = <<>>
  OBVIOUS
<1>4. Deleted(p) = {} /\ Minded(p) /\ p = prog'[c]
  BY <1>1, <1>3, NoStatements
<1> QED BY <1>1, <1>2, <1>4, OwnNothing

LEMMA OwnStop ==
  ASSUME Isolation = "serializable", OwnInv, LinesHold', NEW c \in Clients, Fail(c) \/ Finish(c)
  PROVE  OwnInv'
<1>1. TypeInv /\ OnlyOf(c) /\ Shaped(db)
  BY OwnTypes, OnlyMine DEF OwnInv
<1>2. Return(c) /\ UNCHANGED db /\ (crashed => crashed')
  <2>1. Return(c) /\ UNCHANGED db
    BY DEF Fail, Finish
  <2>2. crashed' = (crashed \/ (call[c].op = "delete" /\ ~AtStmt(c, "loadManifest"))) \/ crashed' = crashed
    BY DEF Fail, Finish
  <2>3. crashed \in BOOLEAN
    BY <1>1 DEF TypeInv
  <2>4. crashed => crashed'
    BY <2>2, <2>3, Zenon
  <2> QED BY <2>1, <2>4
<1>3. OwnClient(c)'
  BY <1>1, <1>2, OwnReturn
<1>4. ASSUME NEW id, call[c].op = "delete", Sees(c, id) PROVE crashed'
  <2>1. PICK s \in ToSet(prog[c]) : Looks(s, held[c], id)
    BY <1>4 DEF Sees
  <2>2. CASE Fail(c)
    <3>1. ASSUME AtStmt(c, "loadManifest") PROVE FALSE
      <4>1. PICK S : prog[c] \in Seq(S)
        BY <1>1 DEF TypeInv, ClientType
      <4>2. ToSet(prog[c]) = {Stmt(c)} \cup ToSet(Tail(prog[c]))
        BY <3>1, <4>1, HeadTail DEF AtStmt, Stmt
      <4>3. \A y \in ToSet(Tail(prog[c])) : y.do \notin {"owners", "nextOwners", "dropEnv"}
        BY <3>1, OwnHead
      <4>4. s \in ToSet(Tail(prog[c]))
        BY <2>1, <3>1, <4>2 DEF Looks, AtStmt, Stmt
      <4> QED BY <2>1, <4>3, <4>4 DEF Looks
    <3> QED BY <1>4, <2>2, <3>1 DEF Fail
  <2>3. CASE Finish(c)
    <3>1. ToSet(prog[c]) = {}
      BY <2>3 DEF Finish, ToSet
    <3> QED BY <2>1, <3>1
  <2> QED BY <2>2, <2>3
<1>5. OwnsDb'
  <2>1. \A id : Unowned(id, db') => Unowned(id, db)
    BY <1>2
  <2> QED BY <1>1, <1>2, <1>4, <2>1, OwnDbStays
<1>6. Shaped(db)'
  BY <1>1, <1>2
<1>7. ASSUME NEW b \in Clients \ {c}, ~InTx(b)
      PROVE  \A r \in db'.rows, e \in db'.envs :
               r.env = e.id /\ r.key \in Deleted(prog[b]) => r \in db.rows /\ e \in db.envs
  BY <1>2
<1> QED BY <1>1, <1>3, <1>5, <1>6, <1>7, OwnFrame

\* What is committed: those who delete at the same time delete nothing of it.
LEMMA OwnCommit ==
  ASSUME Isolation = "serializable", OwnInv, LinesHold', NEW c \in Clients, Commit(c)
  PROVE  OwnInv'
<1>1. TypeInv /\ OnlyOf(c) /\ OwnClient(c) /\ Shaped(View(c))
  BY OwnTypes, OnlyMine, ShapedView DEF OwnInv
<1>2. InTx(c) /\ db' = View(c) /\ tx[c].snap = db /\ Return(c) /\ crashed' = crashed /\ AtStmt(c, "commit")
  BY <1>1, CommitView DEF Commit
<1>3. News(c) /\ OwnsTx(c)
  BY <1>1, <1>2 DEF OwnClient, OwnTx
<1>4. OwnClient(c)'
  BY <1>1, <1>2, OwnReturn
<1>5. OwnsDb'
  <2>1. ASSUME NEW id, Unowned(id, db') PROVE Unowned(id, db)
    <3>1. Unowned(id, db) \/ Sees(c, id) \/ Binds(c, id)
      BY <1>2, <1>3, <2>1 DEF OwnsTx
    <3>2. ~Binds(c, id)
      BY <1>2, NotBinding
    <3>3. ASSUME Sees(c, id) PROVE FALSE
      <4>1. PICK s \in ToSet(prog[c]) : Looks(s, held[c], id)
        BY <3>3 DEF Sees
      <4>2. PICK S : prog[c] \in Seq(S)
        BY <1>1 DEF TypeInv, ClientType
      <4>3. ToSet(prog[c]) = {Stmt(c)} \cup ToSet(Tail(prog[c]))
        BY <1>2, <4>2, HeadTail DEF AtStmt, Stmt
      <4>4. ToSet(Tail(prog[c])) = {}
        BY <1>2, OwnHead
      <4> QED BY <1>2, <4>1, <4>3, <4>4 DEF Looks, AtStmt, Stmt
    <3> QED BY <3>1, <3>2, <3>3
  <2>2. call[c].op # "delete"
    BY <1>2 DEF InTx
  <2> QED BY <1>1, <1>2, <2>1, <2>2, OwnDbStays
<1>6. Shaped(db)'
  BY <1>1, <1>2
<1>7. PICK E : LinesInv(E)
  BY DEF OwnInv, LinesHold
<1>8. VisibleKeys(c) \subseteq SnapKeys(c) \cup AddRows(E[c])
  BY <1>2, <1>7, LinesHere DEF Runs, Adding
<1>9. ASSUME NEW b \in Clients \ {c}, ~InTx(b)
      PROVE  \A r \in db'.rows, e \in db'.envs :
               r.env = e.id /\ r.key \in Deleted(prog[b]) => r \in db.rows /\ e \in db.envs
  <2>1. AddRows(E[c]) \cap Deleted(prog[b]) = {}
    BY <1>2, <1>7, OthersStay
  <2>2. ASSUME NEW r \in db'.rows, NEW e \in db'.envs,
               r.env = e.id, r.key \in Deleted(prog[b])
        PROVE  r \in db.rows /\ e \in db.envs
    <3>1. r \in View(c).rows /\ e \in View(c).envs
      BY <1>2, <2>2
    <3>2. r.key \in SnapKeys(c)
      BY <1>8, <2>1, <2>2, <3>1 DEF VisibleKeys
    <3>3. r \in tx[c].snap.rows
      BY <1>3, <3>1, <3>2 DEF News
    <3>4. e \in tx[c].snap.envs
      BY <1>3, <2>2, <3>1, <3>3 DEF News
    <3> QED BY <1>2, <3>3, <3>4
  <2> QED BY <2>2
<1> QED BY <1>1, <1>4, <1>5, <1>6, <1>9, OwnFrame

LEMMA OwnInit == Init => OwnInv
<1> SUFFICES ASSUME Init PROVE OwnInv
  OBVIOUS
<1>1. LinesHold
  BY LinesInit
<1>2. Shaped(db) /\ OwnsDb
  BY EmptyContent DEF Init, Shaped, OwnsDb, Unowned
<1>3. ASSUME NEW c \in Clients PROVE OwnClient(c)
  <2>1. prog[c] = <<>> /\ held[c] = {} /\ ~InTx(c)
    BY DEF Init, InTx, Idle
  <2>2. PICK p : p = <<>>
    OBVIOUS
  <2>3. Deleted(p) = {} /\ Minded(p)
    BY <2>2, NoStatements
  <2>4. Deleted(prog[c]) = {} /\ Minded(prog[c])
    BY <2>1, <2>2, <2>3
  <2> QED BY <2>1, <2>4 DEF OwnClient, Holds, Single
<1> QED BY <1>1, <1>2, <1>3 DEF OwnInv

LEMMA OwnInvStep ==
  ASSUME Isolation = "serializable", OwnInv, [Next]_vars
  PROVE  OwnInv'
<1>1. LinesHold'
  BY LinesHoldStep DEF OwnInv
<1>2. CASE UNCHANGED vars
  <2>1. \A c \in Clients :
          /\ View(c)' = View(c) /\ (InTx(c)' <=> InTx(c)) /\ prog'[c] = prog[c]
          /\ held'[c] = held[c] /\ tx'[c] = tx[c] /\ bound'[c] = bound[c]
    BY <1>2, ReadView DEF vars
  <2>2. ASSUME NEW c \in Clients PROVE OwnClient(c)'
    <3>1. OwnClient(c)
      BY DEF OwnInv
    <3>2. \A id : (Sees(c, id)' <=> Sees(c, id)) /\ (Binds(c, id)' <=> Binds(c, id))
      BY <2>1 DEF Sees, Binds, AtStmt, Stmt
    <3>3. Fresh(c)' = Fresh(c) /\ News(c)' = News(c) /\ Holds(c)' = Holds(c)
      BY <2>1 DEF Fresh, News, Holds, VisibleKeys, SnapKeys
    <3>4. OwnsTx(c) => OwnsTx(c)'
      BY <2>1, <3>2 DEF OwnsTx
    <3> QED BY <2>1, <3>1, <3>3, <3>4 DEF OwnClient, OwnTx
  <2>3. Shaped(db)' /\ OwnsDb'
    BY <1>2 DEF vars, OwnInv, OwnsDb, Sees
  <2> QED BY <1>1, <2>2, <2>3 DEF OwnInv
<1>3. ASSUME NEW c \in Clients,
             \/ BeginAdd(c) \/ BeginDelete(c) \/ Fail(c) \/ Finish(c) \/ Commit(c)
             \/ LoadToken(c) \/ LoadManifest(c)
      PROVE  OwnInv'
  BY <1>1, <1>3, OwnBeginAdd, OwnBeginDelete, OwnStop, OwnCommit, OwnToken, OwnManifest
<1>4. ASSUME NEW c \in Clients,
             \/ InsertRow(c) \/ DeleteRow(c) \/ ReuseEnv(c) \/ InsertEnv(c) \/ SkipOwners(c)
             \/ CheckOwners(c) \/ CheckNextOwners(c) \/ DropEnv(c)
      PROVE  OwnInv'
  BY <1>1, <1>4, OwnInsert, OwnDelete, OwnSkip, OwnInsertEnv, OwnChecks, OwnDrop
<1> QED BY <1>2, <1>3, <1>4 DEF Next

\* No environment outlives the last row that refers to it, on a serializable DBMS and
\* for documents of any shape, while others add, replace and delete at the same time:
\* whoever deletes such a row has its environment in memory and looks for other owners
\* afterwards (environment.go:297-316), unless it is stopped before.
THEOREM EnvironmentsAreOwned ==
  ASSUME Isolation = "serializable"
  PROVE  Spec => []EnvsAreOwned
<1>1. OwnInv => EnvsAreOwned
  <2> SUFFICES ASSUME OwnInv, Quiet PROVE \A e \in db.envs : \E r \in db.rows : r.env = e.id
    BY DEF EnvsAreOwned
  <2>1. \A id : ~Unowned(id, db)
    BY DEF OwnInv, OwnsDb, Quiet, Idle
  <2> QED BY <2>1 DEF Unowned
<1>2. OwnInv /\ [Next]_vars => OwnInv'
  BY OwnInvStep
<1> QED BY <1>1, <1>2, OwnInit, PTL DEF Spec
=============================================================================
