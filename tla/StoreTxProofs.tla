--------------------------- MODULE StoreTxProofs ---------------------------
(***************************************************************************)
(* Theorems about StoreTx, for any number of clients, documents, labels    *)
(* and calls.                                                              *)
(***************************************************************************)
EXTENDS StoreTx, TLAPS

\* Every step keeps the variables in their types.  That an active client has a
\* call (CallInv) is what types the arguments its statements use.
LEMMA TypeStep == TypeOK /\ TxInv /\ [Next]_vars => TypeOK'
<1> SUFFICES ASSUME TypeOK, TxInv, [Next]_vars PROVE TypeOK'
  OBVIOUS
<1> USE SchemaAssumption, TxAssumption
<1>0. \A c \in Clients : pc[c] # "idle" => call[c] \in CallRec
  BY DEF TypeOK, TxInv, LocalInv, CallInv
<1>a. ASSUME NEW c \in Clients, Return(c)
      PROVE  /\ pc' \in [Clients -> Steps]
             /\ call' \in [Clients -> CallRec \cup {NoCall}]
             /\ found' \in [Clients -> ManifestRow \cup TokenRow \cup {NoRow}]
             /\ tx' \in [Clients -> Transaction]
  BY <1>a DEF TypeOK, Return, Goto, Steps, NoTx, Transaction
<1>1. ASSUME NEW c \in Clients, NEW op \in Ops, NEW doc \in Docs, NEW label \in Labels,
             Call(c, op, doc, label)
      PROVE  TypeOK'
  <2>1. calls + 1 \in 1..MaxCalls /\ FirstStep(op) \in Steps
    BY <1>1 DEF TypeOK, Call, FirstStep, Steps
  <2>2. QED
    BY <1>1, <2>1 DEF TypeOK, Call, Goto, tables, CallRec
<1>2. ASSUME NEW c \in Clients, Fail(c)
      PROVE  TypeOK'
  BY <1>0, <1>2, <1>a DEF TypeOK, Fail, tables, CallRec
<1>3. ASSUME NEW c \in Clients, SelectToken(c)
      PROVE  TypeOK'
  <2>1. tx' \in [Clients -> Transaction]
    <3>1. /\ manifests \in SUBSET ManifestRow /\ tokens \in SUBSET TokenRow
          /\ tx \in [Clients -> Transaction]
      BY DEF TypeOK
    <3>2. tx' = [tx EXCEPT ![c].snapM = manifests, ![c].snapT = tokens]
      BY <1>3 DEF SelectToken
    <3>3. QED
      BY <3>1, <3>2 DEF Transaction
  <2>2. found' \in [Clients -> ManifestRow \cup TokenRow \cup {NoRow}]
    BY <1>3 DEF TypeOK, SelectToken, Matching
  <2>3. QED
    BY <1>3, <2>1, <2>2 DEF TypeOK, SelectToken, Goto, tables, Steps
<1>4. ASSUME NEW c \in Clients, ReloadToken(c)
      PROVE  TypeOK'
  BY <1>4 DEF TypeOK, ReloadToken, Goto, tables, Steps
<1>5. ASSUME NEW c \in Clients, DropToken(c)
      PROVE  TypeOK'
  <2>1. found[c] \in TokenRow
    BY <1>5 DEF DropToken, TxInv, LocalInv, TokenWrites, Matching, TypeOK, Transaction
  <2>2. QED
    BY <1>5, <2>1 DEF TypeOK, DropToken, Goto, tables, Steps, Transaction
<1>6. ASSUME NEW c \in Clients, InsertToken(c)
      PROVE  TypeOK'
  <2>1. NewToken(c) \in TokenRow
    BY <1>0, <1>6 DEF InsertToken, NewToken, IsVerified, TokenRow, CallRec
  <2>2. QED
    BY <1>6, <2>1 DEF TypeOK, InsertToken, Goto, tables, Steps, Transaction
<1>7. ASSUME NEW c \in Clients, SelectManifest(c)
      PROVE  TypeOK'
  <2>1. tx' \in [Clients -> Transaction]
    BY <1>7 DEF TypeOK, SelectManifest, Transaction
  <2>2. tx[c].snapM \subseteq ManifestRow
    BY DEF TypeOK, Transaction
  <2>3. found' \in [Clients -> ManifestRow \cup TokenRow \cup {NoRow}]
    BY <1>7, <2>2 DEF TypeOK, SelectManifest, BaseManifests, Matching
  <2>4. QED
    BY <1>7, <2>1, <2>3 DEF TypeOK, SelectManifest, Goto, tables, Steps
<1>8. ASSUME NEW c \in Clients, ReloadManifest(c)
      PROVE  TypeOK'
  BY <1>8 DEF TypeOK, ReloadManifest, Goto, tables, Steps
<1>9. ASSUME NEW c \in Clients, DropManifest(c)
      PROVE  TypeOK'
  <2>1. found[c] \in ManifestRow
    BY <1>9 DEF DropManifest, TxInv, LocalInv, CallInv
  <2>2. QED
    <3>1. CASE InTx(c)
      BY <1>9, <2>1, <3>1 DEF TypeOK, DropManifest, Goto, tables, Steps, Transaction
    <3>2. CASE ~InTx(c)
      BY <1>9, <2>1, <3>2 DEF TypeOK, DropManifest, Goto, tables, Steps
    <3>3. QED
      BY <3>1, <3>2
<1>10. ASSUME NEW c \in Clients, InsertManifest(c) \/ InsertManifestAlone(c)
       PROVE  TypeOK'
  <2>1. NewManifest(c) \in ManifestRow
    BY <1>0, <1>10 DEF InsertManifest, InsertManifestAlone, NewManifest, ManifestRow, CallRec
  <2>2. QED
    <3>1. CASE InsertManifest(c)
      BY <2>1, <3>1 DEF TypeOK, InsertManifest, Goto, tables, Steps, Transaction
    <3>2. CASE InsertManifestAlone(c)
      BY <2>1, <3>2, <1>a DEF TypeOK, InsertManifestAlone
    <3>3. QED
      BY <1>10, <3>1, <3>2
<1>11. ASSUME NEW c \in Clients, Commit(c)
       PROVE  TypeOK'
  BY <1>11, <1>a DEF TypeOK, Commit, Transaction
<1>12. ASSUME NEW c \in Clients, GetManifest(c)
       PROVE  TypeOK'
  BY <1>12 DEF TypeOK, GetManifest, Selectable, Matching, Goto, tables, Steps
<1>13. ASSUME NEW c \in Clients, DeleteManifest(c)
       PROVE  TypeOK'
  BY <1>13, <1>a DEF TypeOK, DeleteManifest
<1>14. ASSUME NEW c \in Clients, DeleteContents(c)
       PROVE  TypeOK'
  BY <1>14 DEF TypeOK, DeleteContents, Goto, Steps
<1>15. CASE UNCHANGED vars
  BY <1>15 DEF TypeOK, vars, tables
<1>16. QED
  BY <1>1, <1>2, <1>3, <1>4, <1>5, <1>6, <1>7, <1>8, <1>9, <1>10, <1>11, <1>12, <1>13, <1>14,
     <1>15
  DEF Next, Statement
-----------------------------------------------------------------------------
\* The part of the invariant about one call mentions nothing another client's
\* step writes.
LEMMA LocalFrame ==
  ASSUME NEW b \in Clients, LocalInv(b),
         pc'[b] = pc[b], call'[b] = call[b], found'[b] = found[b], tx'[b] = tx[b]
  PROVE  LocalInv(b)'
BY DEF LocalInv, CallInv, TokenWrites, ManifestWrites, DeleteInv, HoldsRow, InTx, NewToken, NewManifest

\* A client whose call has returned holds nothing.
LEMMA ReturnStep ==
  ASSUME TypeOK, NEW c \in Clients, Return(c)
  PROVE  LocalInv(c)' /\ \A b \in Clients \ {c} : LocalInv(b) => LocalInv(b)'
<1>1. /\ pc'[c] = "idle" /\ call'[c] = NoCall /\ tx'[c] = NoTx
      /\ \A b \in Clients \ {c} : /\ pc'[b] = pc[b] /\ call'[b] = call[b]
                                 /\ found'[b] = found[b] /\ tx'[b] = tx[b]
  BY DEF TypeOK, Return, Goto
<1>2. LocalInv(c)'
  BY <1>1 DEF LocalInv, CallInv, TokenWrites, ManifestWrites, DeleteInv, HoldsRow, NoTx
<1>3. QED
  BY <1>1, <1>2, LocalFrame

\* The statements of a call keep what it relies on; the first of them all is Call.
LEMMA CallStep ==
  ASSUME TypeOK, NEW c \in Clients, LocalInv(c),
         NEW op \in Ops, NEW doc \in Docs, NEW label \in Labels, Call(c, op, doc, label)
  PROVE  LocalInv(c)'
<1> USE TxAssumption
<1>1. /\ pc'[c] = FirstStep(op)
      /\ call'[c] = [op |-> op, doc |-> doc, label |-> label, id |-> calls + 1]
      /\ tx'[c] = tx[c]
  BY DEF Call, TypeOK, Goto
<1>2. call'[c] # NoCall
  BY <1>1 DEF Call, TypeOK, CallRec
<1>3. tx[c].insT = {} /\ tx[c].delT = {} /\ tx[c].insM = {} /\ tx[c].delM = {}
  BY DEF LocalInv, TokenWrites, ManifestWrites, Call
<1>4. Accepted(op, doc)
  BY DEF Call
<1>5. QED
  BY <1>1, <1>2, <1>3, <1>4
  DEF LocalInv, CallInv, TokenWrites, ManifestWrites, DeleteInv, HoldsRow, FirstStep, InTx

\* What an add may remove: nothing if its manifest ID is new, and with Force the
\* row it found.
LEMMA NoEviction ==
  ASSUME NEW rows, NEW mid, Matching(rows, mid) = {}
  PROVE  {} \in Abstract!Evictions(rows, mid)
BY DEF Abstract!Evictions, Abstract!Matching, Matching

LEMMA OneEviction ==
  ASSUME NEW rows, NEW mid, CfgForce, NEW r \in Matching(rows, mid)
  PROVE  {r} \in Abstract!Evictions(rows, mid)
<1>1. Abstract!Matching(rows, mid) = Matching(rows, mid)
  BY DEF Abstract!Matching, Matching
<1>2. Abstract!Evictions(rows, mid) = {{x} : x \in Matching(rows, mid)}
  BY <1>1 DEF Abstract!Evictions
<1>3. QED
  BY <1>2

LEMMA SelectTokenStep ==
  ASSUME TypeOK, NEW c \in Clients, LocalInv(c), SelectToken(c)
  PROVE  LocalInv(c)'
<1>1. /\ pc[c] = "selectToken" /\ call'[c] = call[c] /\ call[c].op = "AddBytes"
      /\ call[c] # NoCall
  BY DEF SelectToken, LocalInv, CallInv
<1>2. /\ tx[c].insT = {} /\ tx[c].delT = {} /\ tx[c].insM = {} /\ tx[c].delM = {}
      /\ Accepted(call[c].op, call[c].doc)
  BY <1>1 DEF LocalInv, CallInv, TokenWrites, ManifestWrites
<1>3. /\ tx'[c].snapT = tokens /\ tx'[c].insT = {} /\ tx'[c].delT = {}
      /\ tx'[c].insM = {} /\ tx'[c].delM = {}
  BY <1>2 DEF SelectToken, TypeOK, Transaction
<1>4. \/ pc'[c] = "insertToken" /\ Matching(tokens, DocID[call[c].doc]) = {}
      \/ /\ pc'[c] = "reloadToken" /\ CfgForce
         /\ found'[c] \in Matching(tokens, DocID[call[c].doc])
  BY DEF SelectToken, TypeOK, Goto
<1>5. CallInv(c)' /\ ManifestWrites(c)' /\ DeleteInv(c)'
  BY <1>1, <1>2, <1>3, <1>4
  DEF CallInv, ManifestWrites, DeleteInv, HoldsRow, InTx
<1>6. TokenWrites(c)'
  BY <1>1, <1>3, <1>4, NoEviction DEF TokenWrites, InTx
<1>7. QED
  BY <1>5, <1>6 DEF LocalInv

LEMMA ReloadTokenStep ==
  ASSUME TypeOK, NEW c \in Clients, LocalInv(c), ReloadToken(c)
  PROVE  LocalInv(c)'
<1>1. /\ pc[c] = "reloadToken" /\ pc'[c] = "dropToken" /\ call'[c] = call[c]
      /\ found'[c] = found[c] /\ tx'[c] = tx[c]
  BY DEF ReloadToken, TypeOK, Goto
<1>2. QED
  BY <1>1 DEF LocalInv, CallInv, TokenWrites, ManifestWrites, DeleteInv, HoldsRow, InTx

LEMMA DropTokenStep ==
  ASSUME TypeOK, NEW c \in Clients, LocalInv(c), DropToken(c)
  PROVE  LocalInv(c)'
<1>1. /\ pc[c] = "dropToken" /\ pc'[c] = "insertToken" /\ call'[c] = call[c]
      /\ found'[c] = found[c]
  BY DEF DropToken, TypeOK, Goto
<1>2. /\ call[c].op = "AddBytes" /\ CfgForce
      /\ found[c] \in Matching(tx[c].snapT, DocID[call[c].doc])
      /\ tx[c].insT = {} /\ tx[c].delT = {} /\ tx[c].insM = {} /\ tx[c].delM = {}
  BY <1>1 DEF LocalInv, CallInv, TokenWrites, ManifestWrites
<1>3. /\ tx'[c].snapT = tx[c].snapT /\ tx'[c].insT = {} /\ tx'[c].delT = {found[c]}
      /\ tx'[c].insM = {} /\ tx'[c].delM = {}
  <2>1. tx \in [Clients -> Transaction] /\ tx' = [tx EXCEPT ![c].delT = @ \cup {found[c]}]
    BY DEF DropToken, TypeOK
  <2>2. QED
    BY <1>2, <2>1 DEF Transaction
<1>4. {found[c]} \in Abstract!Evictions(tx[c].snapT, DocID[call[c].doc])
  BY <1>2, OneEviction
<1>5. QED
  BY <1>1, <1>2, <1>3, <1>4
  DEF LocalInv, CallInv, TokenWrites, ManifestWrites, DeleteInv, HoldsRow, InTx

LEMMA InsertTokenStep ==
  ASSUME TypeOK, NEW c \in Clients, LocalInv(c), InsertToken(c)
  PROVE  LocalInv(c)'
<1>1. /\ pc[c] = "insertToken" /\ pc'[c] = "selectManifest" /\ call'[c] = call[c]
      /\ found'[c] = found[c]
  BY DEF InsertToken, TypeOK, Goto
<1>2. InTx(c) /\ tx[c].insT = {} /\ tx[c].insM = {} /\ tx[c].delM = {}
  BY <1>1 DEF LocalInv, CallInv, TokenWrites, ManifestWrites
<1>3. /\ tx'[c].snapT = tx[c].snapT /\ tx'[c].insT = {NewToken(c)}
      /\ tx'[c].delT = tx[c].delT /\ tx'[c].insM = {} /\ tx'[c].delM = {}
  BY <1>2 DEF InsertToken, TypeOK, Transaction
<1>4. QED
  BY <1>1, <1>2, <1>3
  DEF LocalInv, CallInv, TokenWrites, ManifestWrites, DeleteInv, HoldsRow, InTx, NewToken

LEMMA SelectManifestStep ==
  ASSUME TypeOK, NEW c \in Clients, LocalInv(c), SelectManifest(c)
  PROVE  LocalInv(c)'
<1> DEFINE mid == DocID[call[c].doc]
           rows == Matching(IF call[c].op = "AddBytes" THEN BaseManifests(c) ELSE manifests, mid)
<1>1. /\ pc[c] = "selectManifest" /\ call'[c] = call[c] /\ LabelOK(call[c].label)
      /\ call[c].op # "DeleteManifest" /\ call[c] # NoCall
      /\ Accepted(call[c].op, call[c].doc)
  BY DEF SelectManifest, LocalInv, CallInv
<1>2. tx[c].insM = {} /\ tx[c].delM = {}
  BY <1>1 DEF LocalInv, ManifestWrites
<1>3. /\ tx'[c].insT = tx[c].insT /\ tx'[c].delT = tx[c].delT
      /\ tx'[c].insM = {} /\ tx'[c].delM = {}
      /\ call[c].op # "VerifyAndAddBytes" => tx'[c] = tx[c]
      /\ call[c].op = "VerifyAndAddBytes" => tx'[c].snapM = manifests
  BY <1>2 DEF SelectManifest, TypeOK, Transaction
<1>4. \/ pc'[c] = "insertManifest" /\ rows = {}
      \/ pc'[c] = "reloadManifest" /\ CfgForce /\ found'[c] \in rows
  BY DEF SelectManifest, TypeOK, Goto
<1>5. InTx(c) /\ Isolation # "read_committed" => rows = Matching(tx'[c].snapM, mid)
  BY <1>3 DEF InTx, BaseManifests
<1>6. rows \subseteq ManifestRow
  BY DEF BaseManifests, Matching, TypeOK, Transaction
<1>7. CallInv(c)' /\ DeleteInv(c)'
  BY <1>1, <1>4, <1>6 DEF CallInv, DeleteInv, HoldsRow, InTx
<1>8. TokenWrites(c)'
  BY <1>1, <1>3, <1>4 DEF LocalInv, TokenWrites, InTx, NewToken
<1>9. ManifestWrites(c)'
  BY <1>1, <1>3, <1>4, <1>5, NoEviction DEF ManifestWrites, InTx
<1>10. QED
  BY <1>7, <1>8, <1>9 DEF LocalInv

LEMMA ReloadManifestStep ==
  ASSUME TypeOK, NEW c \in Clients, LocalInv(c), ReloadManifest(c)
  PROVE  LocalInv(c)'
<1>1. /\ pc[c] = "reloadManifest" /\ call'[c] = call[c]
      /\ pc'[c] = IF call[c].op = "DeleteManifest" THEN "dropContents" ELSE "dropManifest"
      /\ found'[c] = found[c] /\ tx'[c] = tx[c]
  BY DEF ReloadManifest, TypeOK, Goto
<1>2. QED
  BY <1>1 DEF LocalInv, CallInv, TokenWrites, ManifestWrites, DeleteInv, HoldsRow, InTx, NewToken

LEMMA DeleteContentsStep ==
  ASSUME TypeOK, NEW c \in Clients, LocalInv(c), DeleteContents(c)
  PROVE  LocalInv(c)'
<1>1. /\ pc[c] = "dropContents" /\ pc'[c] = "dropManifest" /\ call'[c] = call[c]
      /\ found'[c] = found[c] /\ tx'[c] = tx[c] /\ call[c].op = "DeleteManifest"
  BY DEF DeleteContents, TypeOK, Goto, LocalInv, CallInv
<1>2. QED
  BY <1>1 DEF LocalInv, CallInv, TokenWrites, ManifestWrites, DeleteInv, HoldsRow, InTx, NewToken

LEMMA DropManifestStep ==
  ASSUME TypeOK, NEW c \in Clients, LocalInv(c), DropManifest(c)
  PROVE  LocalInv(c)'
<1> DEFINE mid == DocID[call[c].doc]
<1>1. /\ pc[c] = "dropManifest" /\ pc'[c] = "insertManifest" /\ call'[c] = call[c]
      /\ found'[c] = found[c] /\ call[c].op # "DeleteManifest"
  BY DEF DropManifest, TypeOK, Goto
<1>2. tx[c].insM = {} /\ tx[c].delM = {}
  BY <1>1 DEF LocalInv, ManifestWrites
<1>3. /\ tx'[c].snapM = tx[c].snapM /\ tx'[c].snapT = tx[c].snapT
      /\ tx'[c].insT = tx[c].insT /\ tx'[c].delT = tx[c].delT /\ tx'[c].insM = {}
      /\ InTx(c) => tx'[c].delM = {found[c]}
  <2>1. tx \in [Clients -> Transaction]
    BY DEF TypeOK
  <2>2. \/ tx' = [tx EXCEPT ![c].delM = @ \cup {found[c]}] /\ InTx(c)
        \/ tx' = tx /\ ~InTx(c)
    BY DEF DropManifest
  <2>3. QED
    BY <1>2, <2>1, <2>2 DEF Transaction
<1>4. InTx(c) /\ Isolation # "read_committed" =>
        {found[c]} \in Abstract!Evictions(tx[c].snapM, mid)
  BY <1>1, OneEviction DEF LocalInv, ManifestWrites
<1>5. CallInv(c)' /\ DeleteInv(c)'
  BY <1>1 DEF LocalInv, CallInv, DeleteInv, HoldsRow, InTx
<1>6. TokenWrites(c)'
  BY <1>1, <1>3 DEF LocalInv, TokenWrites, InTx, NewToken
<1>7. ManifestWrites(c)'
  BY <1>1, <1>3, <1>4 DEF ManifestWrites, InTx
<1>8. QED
  BY <1>5, <1>6, <1>7 DEF LocalInv

LEMMA InsertManifestStep ==
  ASSUME TypeOK, NEW c \in Clients, LocalInv(c), InsertManifest(c)
  PROVE  LocalInv(c)'
<1>1. /\ pc[c] = "insertManifest" /\ pc'[c] = "commit" /\ call'[c] = call[c]
      /\ found'[c] = found[c] /\ InTx(c)
  BY DEF InsertManifest, TypeOK, Goto
<1>2. tx[c].insM = {}
  BY <1>1 DEF LocalInv, ManifestWrites
<1>3. /\ tx'[c].snapM = tx[c].snapM /\ tx'[c].snapT = tx[c].snapT
      /\ tx'[c].insT = tx[c].insT /\ tx'[c].delT = tx[c].delT
      /\ tx'[c].insM = {NewManifest(c)} /\ tx'[c].delM = tx[c].delM
  BY <1>2 DEF InsertManifest, TypeOK, Transaction
<1>4. CallInv(c)' /\ DeleteInv(c)'
  BY <1>1 DEF LocalInv, CallInv, DeleteInv, HoldsRow, InTx
<1>5. TokenWrites(c)'
  BY <1>1, <1>3 DEF LocalInv, TokenWrites, InTx, NewToken
<1>6. ManifestWrites(c)'
  BY <1>1, <1>3 DEF LocalInv, ManifestWrites, InTx, NewManifest
<1>7. QED
  BY <1>4, <1>5, <1>6 DEF LocalInv

LEMMA GetManifestStep ==
  ASSUME TypeOK, NEW c \in Clients, LocalInv(c), GetManifest(c)
  PROVE  LocalInv(c)'
<1>1. /\ pc[c] = "getManifest" /\ pc'[c] = "reloadManifest" /\ call'[c] = call[c]
      /\ tx'[c] = tx[c] /\ call[c].op = "DeleteManifest" /\ LabelOK(call[c].label)
      /\ found'[c] \in Selectable(manifests, DocID[call[c].doc], call[c].label)
  BY DEF GetManifest, TypeOK, Goto, LocalInv, CallInv
<1>2. /\ found'[c] \in ManifestRow
      /\ found'[c] \in Selectable({found'[c]}, DocID[call[c].doc], call[c].label)
  BY <1>1 DEF Selectable, Matching, TypeOK
<1>3. QED
  BY <1>1, <1>2 DEF LocalInv, CallInv, TokenWrites, ManifestWrites, DeleteInv, HoldsRow, InTx
-----------------------------------------------------------------------------
\* Steps that publish nothing keep the keys apart.
LEMMA KeysFrame ==
  ASSUME KeysInv, calls' = calls, failed' = failed, call' = call,
         manifests' \subseteq manifests, tokens' \subseteq tokens,
         \A b \in Clients : pc'[b] # "idle" => pc[b] # "idle"
  PROVE  KeysInv'
BY DEF KeysInv

\* A call that ends either publishes rows that carry its key or fails, in
\* which case it publishes none.
LEMMA KeysReturn ==
  ASSUME TypeOK, KeysInv, NEW c \in Clients, pc[c] # "idle", Return(c), calls' = calls,
         \A r \in (manifests' \cup tokens') \ (manifests \cup tokens) : r.id = call[c].id,
         \/ failed' = failed
         \/ failed' = failed \cup {call[c].id} /\ UNCHANGED tables
  PROVE  KeysInv'
<1>1. /\ pc'[c] = "idle"
      /\ \A b \in Clients \ {c} : pc'[b] = pc[b] /\ call'[b] = call[b]
  BY DEF Return, Goto, TypeOK
<1>2. calls \in Nat /\ call[c].id \in (1..calls) \ failed
  BY DEF KeysInv, TypeOK
<1>3. failed' \subseteq 1..calls'
  BY <1>2 DEF KeysInv
<1>4. ASSUME NEW r \in manifests' \cup tokens'
      PROVE  r.id \in 1..calls' /\ r.id \notin failed'
  <2>1. CASE r \in manifests \cup tokens
    BY <1>2, <2>1 DEF KeysInv
  <2>2. CASE r \notin manifests \cup tokens
    BY <1>2, <2>2 DEF tables
  <2>3. QED
    BY <2>1, <2>2
<1>5. ASSUME NEW b \in Clients, pc'[b] # "idle"
      PROVE  /\ call'[b].id \in (1..calls') \ failed'
             /\ \A r \in manifests' \cup tokens' : r.id # call'[b].id
             /\ \A a \in Clients \ {b} : pc'[a] # "idle" => call'[a].id # call'[b].id
  <2>1. b # c /\ call'[b] = call[b] /\ pc[b] # "idle"
    BY <1>1, <1>5
  <2>2. call[b].id # call[c].id
    BY <2>1 DEF KeysInv
  <2>3. \A r \in manifests' \cup tokens' : r.id # call[b].id
    BY <2>1, <2>2 DEF KeysInv
  <2>4. QED
    BY <1>1, <2>1, <2>2, <2>3 DEF KeysInv
<1>6. QED
  BY <1>3, <1>4, <1>5 DEF KeysInv

\* A new call gets a key nobody has had.
LEMMA KeysCall ==
  ASSUME TypeOK, KeysInv, NEW c \in Clients,
         NEW op \in Ops, NEW doc \in Docs, NEW label \in Labels, Call(c, op, doc, label)
  PROVE  KeysInv'
<1>1. /\ calls \in Nat /\ calls' = calls + 1 /\ failed' = failed
      /\ manifests' = manifests /\ tokens' = tokens
      /\ call'[c].id = calls + 1
      /\ \A b \in Clients \ {c} : pc'[b] = pc[b] /\ call'[b] = call[b]
  BY DEF Call, TypeOK, Goto, tables
<1>2. calls + 1 \notin 1..calls /\ 1..calls \subseteq 1..(calls + 1) /\ calls + 1 \in 1..(calls + 1)
  BY <1>1
<1>3. /\ \A r \in manifests' \cup tokens' : r.id \in 1..calls' /\ r.id \notin failed'
      /\ failed' \subseteq 1..calls'
  BY <1>1, <1>2 DEF KeysInv
<1>4. ASSUME NEW b \in Clients, pc'[b] # "idle"
      PROVE  /\ call'[b].id \in (1..calls') \ failed'
             /\ \A r \in manifests' \cup tokens' : r.id # call'[b].id
             /\ \A a \in Clients \ {b} : pc'[a] # "idle" => call'[a].id # call'[b].id
  <2>1. CASE b = c
    <3>1. \A a \in Clients \ {c} : pc'[a] # "idle" => call'[a].id \in 1..calls
      BY <1>1 DEF KeysInv
    <3>2. \A r \in manifests' \cup tokens' : r.id \in 1..calls
      BY <1>1 DEF KeysInv
    <3>3. call'[c].id \notin failed
      BY <1>1, <1>2 DEF KeysInv
    <3>4. QED
      BY <1>1, <1>2, <2>1, <3>1, <3>2, <3>3
  <2>2. CASE b # c
    <3>1. pc[b] # "idle" /\ call'[b].id = call[b].id
      BY <1>1, <1>4, <2>2
    <3>2. /\ call[b].id \in (1..calls) \ failed
          /\ \A r \in manifests \cup tokens : r.id # call[b].id
          /\ \A a \in Clients \ {b} : pc[a] # "idle" => call[a].id # call[b].id
      BY <3>1 DEF KeysInv
    <3>3. QED
      BY <1>1, <1>2, <3>1, <3>2
  <2>3. QED
    BY <2>1, <2>2
<1>5. QED
  BY <1>3, <1>4 DEF KeysInv

\* A row that is held stays out of the hands of later calls: what a step adds to
\* the manifests carries the key of a call in progress, and what it takes out of
\* "partial" it takes out of the manifests.
LEMMA HeldFrame ==
  ASSUME HeldRows, NEW b \in Clients, HoldsRow(b), found'[b] = found[b],
         calls \in Nat, calls' = calls \/ calls' = calls + 1,
         \A a \in Clients : pc'[a] # "idle" =>
            (pc[a] # "idle" /\ call'[a] = call[a]) \/ call'[a].id = calls + 1,
         \A r \in manifests' \ manifests :
            \E a \in Clients : pc[a] # "idle" /\ call[a].id = r.id,
         partial \cap manifests' \subseteq partial',
         pc'[b] = "dropManifest" =>
           pc[b] = "dropManifest" \/ (found[b] \in manifests' => found[b] \in partial')
  PROVE  /\ found'[b].id \in 1..calls'
         /\ \A a \in Clients : pc'[a] # "idle" => call'[a].id # found'[b].id
         /\ pc'[b] = "dropManifest" /\ found'[b] \in manifests' => found'[b] \in partial'
<1>1. /\ found[b].id \in 1..calls
      /\ \A a \in Clients : pc[a] # "idle" => call[a].id # found[b].id
      /\ pc[b] = "dropManifest" /\ found[b] \in manifests => found[b] \in partial
  BY DEF HeldRows
<1>2. found'[b].id \in 1..calls' /\ found[b].id # calls + 1
  BY <1>1
<1>3. \A a \in Clients : pc'[a] # "idle" => call'[a].id # found'[b].id
  BY <1>1, <1>2
<1>4. found[b] \in manifests' => found[b] \in manifests
  BY <1>1
<1>5. QED
  BY <1>1, <1>2, <1>3, <1>4

LEMMA HeldStep ==
  ASSUME TypeOK, KeysInv, HeldRows, \A c \in Clients : LocalInv(c), [Next]_vars
  PROVE  HeldRows'
<1> DEFINE Held(b) ==
      /\ found[b].id \in 1..calls
      /\ \A a \in Clients : pc[a] # "idle" => call[a].id # found[b].id
      /\ pc[b] = "dropManifest" /\ found[b] \in manifests => found[b] \in partial
<1> SUFFICES ASSUME NEW b \in Clients, HoldsRow(b)' PROVE Held(b)'
  BY DEF HeldRows
<1>0. calls \in Nat
  BY TxAssumption DEF TypeOK
<1>1. CASE UNCHANGED vars
  BY <1>0, <1>1, HeldFrame DEF vars, tables, HoldsRow
<1>2. ASSUME NEW c \in Clients, pc[c] # "idle", Return(c), calls' = calls,
             \A r \in manifests' \ manifests : r.id = call[c].id,
             partial \cap manifests' \subseteq partial'
      PROVE  Held(b)'
  <2>1. /\ pc'[c] = "idle"
        /\ \A a \in Clients \ {c} :
             pc'[a] = pc[a] /\ call'[a] = call[a] /\ found'[a] = found[a]
    BY <1>2 DEF Return, Goto, TypeOK
  <2>2. b # c /\ HoldsRow(b)
    BY <2>1 DEF HoldsRow
  <2>3. QED
    BY <1>0, <1>2, <2>1, <2>2, HeldFrame
<1>3. ASSUME NEW c \in Clients, Fail(c) \/ InsertManifestAlone(c) \/ DeleteManifest(c)
      PROVE  Held(b)'
  BY <1>2, <1>3 DEF Fail, InsertManifestAlone, DeleteManifest, NewManifest, tables
<1>4. ASSUME NEW c \in Clients, Commit(c)
      PROVE  Held(b)'
  <2>1. pc[c] = "commit" /\ tx[c].insM = {NewManifest(c)}
    BY <1>4 DEF Commit, LocalInv, ManifestWrites
  <2>2. \A r \in manifests' \ manifests : r.id = call[c].id
    BY <1>4, <2>1 DEF Commit, NewManifest
  <2>3. partial \cap manifests' \subseteq partial'
    <3> SUFFICES ASSUME NEW r \in partial, r \in manifests', r \in tx[c].delM PROVE FALSE
      BY <1>4 DEF Commit
    <3>1. r = NewManifest(c) /\ r \in manifests
      BY <1>4, <2>1 DEF Commit, TypeOK
    <3>2. r.id # call[c].id
      BY <2>1, <3>1 DEF KeysInv
    <3>3. QED
      BY <3>1, <3>2 DEF NewManifest
  <2>4. QED
    BY <1>2, <1>4, <2>1, <2>2, <2>3 DEF Commit
<1>5. ASSUME NEW c \in Clients, NEW op \in Ops, NEW doc \in Docs, NEW label \in Labels,
             Call(c, op, doc, label)
      PROVE  Held(b)'
  <2>1. /\ calls' = calls + 1 /\ call'[c].id = calls + 1 /\ found' = found
        /\ manifests' = manifests /\ partial' = partial /\ pc'[c] = FirstStep(op)
        /\ \A a \in Clients \ {c} : pc'[a] = pc[a] /\ call'[a] = call[a]
    BY <1>5 DEF Call, Goto, TypeOK, tables
  <2>2. b # c
    BY <2>1, TxAssumption DEF FirstStep, HoldsRow
  <2>3. HoldsRow(b)
    BY <2>1, <2>2 DEF HoldsRow
  <2>4. QED
    BY <1>0, <2>1, <2>2, <2>3, HeldFrame
<1>6. ASSUME NEW c \in Clients, call' = call, calls' = calls, pc[c] # "idle",
             manifests' \subseteq manifests, partial \cap manifests' \subseteq partial',
             \A a \in Clients \ {c} : pc'[a] = pc[a] /\ found'[a] = found[a],
             b = c => /\ HoldsRow(c) /\ found'[c] = found[c]
                      /\ pc'[c] = "dropManifest" =>
                           (found[c] \in manifests' => found[c] \in partial')
      PROVE  Held(b)'
  <2>1. HoldsRow(b) /\ found'[b] = found[b]
    BY <1>6 DEF HoldsRow
  <2>2. \A a \in Clients : pc'[a] # "idle" => pc[a] # "idle" /\ call'[a] = call[a]
    BY <1>6
  <2>3. pc'[b] = "dropManifest" =>
          pc[b] = "dropManifest" \/ (found[b] \in manifests' => found[b] \in partial')
    BY <1>6
  <2>4. QED
    BY <1>0, <1>6, <2>1, <2>2, <2>3, HeldFrame
<1>7. ASSUME NEW c \in Clients,
             SelectToken(c) \/ ReloadToken(c) \/ DropToken(c) \/ InsertToken(c)
      PROVE  Held(b)'
  <2>1. pc'[c] \notin {"reloadManifest", "dropContents", "dropManifest"}
    BY <1>7 DEF SelectToken, ReloadToken, DropToken, InsertToken, Goto, TypeOK
  <2>2. QED
    BY <1>6, <1>7, <2>1
    DEF SelectToken, ReloadToken, DropToken, InsertToken, Goto, TypeOK, tables, HoldsRow
<1>8. ASSUME NEW c \in Clients,
             SelectManifest(c) \/ DropManifest(c) \/ InsertManifest(c)
      PROVE  Held(b)'
  <2>1. call' = call /\ call[c].op # "DeleteManifest"
    BY <1>8, TxAssumption
    DEF SelectManifest, DropManifest, InsertManifest, LocalInv, CallInv, InTx
  <2>2. QED
    BY <1>6, <1>8, <2>1
    DEF SelectManifest, DropManifest, InsertManifest, Goto, TypeOK, tables, HoldsRow
<1>9. ASSUME NEW c \in Clients, ReloadManifest(c)
      PROVE  Held(b)'
  <2>1. /\ call' = call /\ found' = found /\ pc[c] = "reloadManifest"
        /\ call[c].op = "DeleteManifest" => pc'[c] = "dropContents"
    BY <1>9 DEF ReloadManifest, Goto, TypeOK
  <2>2. QED
    BY <1>6, <1>9, <2>1 DEF ReloadManifest, Goto, TypeOK, tables, HoldsRow
<1>10. ASSUME NEW c \in Clients, DeleteContents(c)
       PROVE  Held(b)'
  <2>1. pc[c] = "dropContents" /\ call[c].op = "DeleteManifest"
    BY <1>10 DEF DeleteContents, LocalInv, CallInv
  <2>2. QED
    BY <1>6, <1>10, <2>1 DEF DeleteContents, Goto, TypeOK, HoldsRow
<1>11. ASSUME NEW c \in Clients, GetManifest(c)
       PROVE  Held(b)'
  <2>1. CASE b = c
    <3>1. found'[c] \in manifests /\ pc'[c] = "reloadManifest" /\ pc[c] # "idle"
      BY <1>11 DEF GetManifest, Goto, TypeOK, Selectable, Matching
    <3>2. \A a \in Clients : pc'[a] # "idle" => pc[a] # "idle" /\ call'[a] = call[a]
      BY <1>11 DEF GetManifest, Goto, TypeOK
    <3>3. calls' = calls
      BY <1>11 DEF GetManifest
    <3>4. QED
      BY <2>1, <3>1, <3>2, <3>3 DEF KeysInv
  <2>2. CASE b # c
    BY <1>6, <1>11, <2>2 DEF GetManifest, Goto, TypeOK, tables
  <2>3. QED
    BY <2>1, <2>2
<1>12. QED
  BY <1>1, <1>3, <1>4, <1>5, <1>7, <1>8, <1>9, <1>10, <1>11 DEF Next, Statement

LEMMA TxStep == TypeOK /\ TxInv /\ [Next]_vars => TxInv'
<1> SUFFICES ASSUME TypeOK, TxInv, [Next]_vars PROVE TxInv'
  OBVIOUS
<1>1. KeysInv /\ HeldRows' /\ \A c \in Clients : LocalInv(c)
  BY HeldStep DEF TxInv
<1>2. ASSUME NEW c \in Clients, NEW op \in Ops, NEW doc \in Docs, NEW label \in Labels,
             Call(c, op, doc, label)
      PROVE  TxInv'
  <2>1. \A b \in Clients \ {c} : /\ pc'[b] = pc[b] /\ call'[b] = call[b]
                                 /\ found'[b] = found[b] /\ tx'[b] = tx[b]
    BY <1>2 DEF Call, TypeOK, Goto
  <2>2. QED
    BY <1>1, <1>2, <2>1, KeysCall, CallStep, LocalFrame DEF TxInv
<1>3. ASSUME NEW c \in Clients, pc[c] # "idle", Return(c), calls' = calls,
             \A r \in (manifests' \cup tokens') \ (manifests \cup tokens) : r.id = call[c].id,
             \/ failed' = failed
             \/ failed' = failed \cup {call[c].id} /\ UNCHANGED tables
      PROVE  TxInv'
  BY <1>1, <1>3, KeysReturn, ReturnStep DEF TxInv
<1>4. ASSUME NEW c \in Clients, Fail(c)
      PROVE  TxInv'
  BY <1>3, <1>4 DEF Fail, tables
<1>5. ASSUME NEW c \in Clients, InsertManifestAlone(c)
      PROVE  TxInv'
  BY <1>3, <1>5 DEF InsertManifestAlone, NewManifest
<1>6. ASSUME NEW c \in Clients, Commit(c)
      PROVE  TxInv'
  <2>1. tx[c].insT = {NewToken(c)} /\ tx[c].insM = {NewManifest(c)}
    BY <1>1, <1>6 DEF Commit, LocalInv, CallInv, TokenWrites, ManifestWrites
  <2>2. \A r \in (manifests' \cup tokens') \ (manifests \cup tokens) : r.id = call[c].id
    BY <1>6, <2>1 DEF Commit, NewToken, NewManifest
  <2>3. QED
    BY <1>3, <1>6, <2>2 DEF Commit
<1>7. ASSUME NEW c \in Clients, DeleteManifest(c)
      PROVE  TxInv'
  BY <1>3, <1>7 DEF DeleteManifest
<1>8. ASSUME NEW c \in Clients, LocalInv(c)', pc[c] # "idle",
             UNCHANGED <<call, calls, failed, tokens>>, manifests' \subseteq manifests,
             \A b \in Clients \ {c} : pc'[b] = pc[b] /\ found'[b] = found[b] /\ tx'[b] = tx[b]
      PROVE  TxInv'
  BY <1>1, <1>8, KeysFrame, LocalFrame DEF TxInv
<1>9. ASSUME NEW c \in Clients,
             SelectToken(c) \/ ReloadToken(c) \/ DropToken(c) \/ InsertToken(c)
      PROVE  TxInv'
  <2>1. LocalInv(c)'
    BY <1>1, <1>9, SelectTokenStep, ReloadTokenStep, DropTokenStep, InsertTokenStep
  <2>2. QED
    BY <1>8, <1>9, <2>1
    DEF SelectToken, ReloadToken, DropToken, InsertToken, Goto, TypeOK, tables
<1>10. ASSUME NEW c \in Clients,
              SelectManifest(c) \/ ReloadManifest(c) \/ DropManifest(c) \/ InsertManifest(c)
       PROVE  TxInv'
  <2>1. LocalInv(c)'
    BY <1>1, <1>10, SelectManifestStep, ReloadManifestStep, DropManifestStep, InsertManifestStep
  <2>2. QED
    BY <1>8, <1>10, <2>1
    DEF SelectManifest, ReloadManifest, DropManifest, InsertManifest, Goto, TypeOK, tables
<1>11. ASSUME NEW c \in Clients, GetManifest(c) \/ DeleteContents(c)
       PROVE  TxInv'
  <2>1. LocalInv(c)'
    BY <1>1, <1>11, GetManifestStep, DeleteContentsStep
  <2>2. QED
    BY <1>8, <1>11, <2>1 DEF GetManifest, DeleteContents, Goto, TypeOK, tables
<1>12. CASE UNCHANGED vars
  <2>1. \A c \in Clients : LocalInv(c)'
    BY <1>1, <1>12, LocalFrame DEF vars
  <2>2. KeysInv'
    BY <1>1, <1>12, KeysFrame DEF vars, tables
  <2>3. QED
    BY <1>1, <2>1, <2>2 DEF TxInv
<1>13. QED
  BY <1>2, <1>4, <1>5, <1>6, <1>7, <1>9, <1>10, <1>11, <1>12 DEF Next, Statement

LEMMA TxInit == Init => TypeOK /\ TxInv
<1> SUFFICES ASSUME Init PROVE TypeOK /\ TxInv
  OBVIOUS
<1> USE TxAssumption
<1>1. TypeOK
  BY DEF Init, TypeOK, Steps, NoTx, Transaction
<1>2. KeysInv /\ HeldRows
  BY DEF Init, KeysInv, HeldRows, HoldsRow
<1>3. \A c \in Clients : LocalInv(c)
  BY DEF Init, LocalInv, CallInv, TokenWrites, ManifestWrites, DeleteInv, HoldsRow, NoTx
<1>4. QED
  BY <1>1, <1>2, <1>3 DEF TxInv

\* The variables keep their types, and whatever other clients do, a call in
\* progress keeps what it relies on: the steps it takes, the rows it has found
\* and written, and the key nobody else has.
THEOREM TxCorrect == Spec => [](TypeOK /\ TxInv)
<1>1. Init => TypeOK /\ TxInv
  BY TxInit
<1>2. TypeOK /\ TxInv /\ [Next]_vars => (TypeOK /\ TxInv)'
  BY TypeStep, TxStep
<1>3. QED
  BY <1>1, <1>2, PTL DEF Spec

\* A call that failed or died has left no row, under every isolation level.
THEOREM FailureIsClean == Spec => []FailedLeavesNothing
<1>1. TypeOK /\ TxInv => FailedLeavesNothing
  BY DEF TxInv, KeysInv, FailedLeavesNothing
<1>2. QED
  BY <1>1, TxCorrect, PTL

\* No client ever sees a token without the manifest it was decoded into, under
\* every isolation level: only Commit publishes a token, and with it the
\* manifest of the same call.
THEOREM AddsAtomic == Spec => AddsAreAtomic
<1>1. TypeOK /\ TxInv /\ [Next]_vars =>
        [\A t \in tokens' \ tokens :
           \E m \in manifests' \ manifests : m.id = t.id /\ m.doc = t.doc]_vars
  <2> SUFFICES ASSUME TypeOK, TxInv, Next, NEW t \in tokens' \ tokens
               PROVE  \E m \in manifests' \ manifests : m.id = t.id /\ m.doc = t.doc
    BY DEF vars, tables
  <2>1. PICK c \in Clients : Commit(c)
    BY DEF Next, Statement, Call, Fail, SelectToken, ReloadToken, DropToken, InsertToken,
       SelectManifest, ReloadManifest, DropManifest, InsertManifest, InsertManifestAlone,
       GetManifest, DeleteContents, DeleteManifest, tables
  <2>2. tx[c].insT = {NewToken(c)} /\ tx[c].insM = {NewManifest(c)} /\ pc[c] # "idle"
    BY <2>1 DEF Commit, TxInv, LocalInv, CallInv, TokenWrites, ManifestWrites
  <2>3. t = NewToken(c) /\ NewManifest(c) \in manifests'
    BY <2>1, <2>2 DEF Commit
  <2>4. NewManifest(c) \notin manifests
    BY <2>2 DEF TxInv, KeysInv, NewManifest
  <2>5. QED
    BY <2>3, <2>4 DEF NewToken, NewManifest
<1>2. QED
  BY <1>1, TxCorrect, PTL DEF Spec, AddsAreAtomic
-----------------------------------------------------------------------------
\* On a serializable DBMS, a transaction that commits has the effect its call
\* has in StoreSpec, on the tables as they are when it commits.
LEMMA CommitImplements ==
  ASSUME TypeOK, TxInv, Isolation = "serializable", NEW c \in Clients, Commit(c)
  PROVE  Abstract!Next
<1> DEFINE doc == call[c].doc
           mid == DocID[doc]
           id == call[c].id
           label == call[c].label
<1>1. /\ KeysInv /\ CallInv(c) /\ TokenWrites(c) /\ ManifestWrites(c)
      /\ pc[c] = "commit" /\ InTx(c) /\ Accepted(call[c].op, doc) /\ LabelOK(label)
  BY DEF Commit, TxInv, LocalInv, CallInv
<1>2. tx[c].snapM = manifests /\ tx[c].snapT = tokens
  BY DEF Commit, CanCommit
<1>3. /\ tx[c].insT = {NewToken(c)} /\ tx[c].insM = {NewManifest(c)}
      /\ tx[c].delM \in Abstract!Evictions(manifests, mid)
      /\ call[c].op = "AddBytes" => tx[c].delT \in Abstract!Evictions(tokens, mid)
      /\ call[c].op = "VerifyAndAddBytes" => tx[c].delT = {}
  BY <1>1, <1>2 DEF TokenWrites, ManifestWrites
<1>4. id \in 1..MaxCalls /\ doc \in Docs /\ label \in Labels
  BY <1>1, TxAssumption DEF CallInv, TypeOK, CallRec
<1>5. Abstract!Fresh(id)
  BY <1>1 DEF KeysInv, Abstract!Fresh
<1>6. Abstract!PutManifest(id, doc, label)
  <2>1. /\ manifests' = (manifests \ tx[c].delM) \cup {[id |-> id, doc |-> doc, label |-> label]}
        /\ partial' = partial \ tx[c].delM
    BY <1>3 DEF Commit, NewManifest
  <2>2. QED
    BY <1>1, <1>3, <2>1 DEF Abstract!PutManifest, Abstract!LabelOK, LabelOK
<1>7. CASE call[c].op = "AddBytes"
  <2>1. tokens' = (tokens \ tx[c].delT) \cup {[id |-> id, doc |-> doc, verified |-> FALSE]}
    BY <1>3, <1>7 DEF Commit, NewToken, IsVerified
  <2>2. Abstract!AddBytes(id, doc, label)
    BY <1>1, <1>3, <1>6, <1>7, <2>1 DEF Abstract!AddBytes, Accepted
  <2>3. QED
    BY <1>4, <1>5, <2>2 DEF Abstract!Next
<1>8. CASE call[c].op = "VerifyAndAddBytes"
  <2>1. tokens' = tokens \cup {[id |-> id, doc |-> doc, verified |-> TRUE]}
    BY <1>3, <1>8 DEF Commit, NewToken, IsVerified
  <2>2. Abstract!VerifyAndAddBytes(id, doc, label)
    BY <1>1, <1>6, <1>8, <2>1 DEF Abstract!VerifyAndAddBytes, Accepted
  <2>3. QED
    BY <1>4, <1>5, <2>2 DEF Abstract!Next
<1>9. QED
  BY <1>1, <1>7, <1>8 DEF InTx

\* Each half of DeleteManifest is about a row its arguments select, or finds that
\* another call has removed it already.
LEMMA DeleteImplements ==
  ASSUME TypeOK, TxInv, NEW c \in Clients, DeleteContents(c) \/ DeleteManifest(c)
  PROVE  Abstract!Next \/ UNCHANGED tables
<1> DEFINE mid == DocID[call[c].doc]
           label == call[c].label
<1>1. /\ CallInv(c) /\ DeleteInv(c) /\ HoldsRow(c) /\ LabelOK(label)
      /\ partial \subseteq manifests
  BY DEF DeleteContents, DeleteManifest, TxInv, LocalInv, CallInv, HoldsRow, TypeOK
<1>2. call[c].doc \in Docs /\ label \in Labels /\ mid \in ManifestIDs
  BY <1>1, SchemaAssumption DEF CallInv, TypeOK, CallRec, HoldsRow
<1>3. \A rows : found[c] \in rows => found[c] \in Abstract!Selectable(rows, mid, label)
  BY <1>1 DEF DeleteInv, Selectable, Matching, Abstract!Selectable, Abstract!Matching
<1>4. CASE DeleteContents(c) /\ found[c] \in manifests
  <2>1. partial' = partial \cup {found[c]} /\ manifests' = manifests /\ tokens' = tokens
    BY <1>4 DEF DeleteContents
  <2>2. Abstract!BeginDelete(mid, label)
    BY <1>1, <1>3, <1>4, <2>1 DEF Abstract!BeginDelete, Abstract!LabelOK, LabelOK
  <2>3. QED
    BY <1>2, <2>2 DEF Abstract!Next
<1>5. CASE DeleteManifest(c) /\ found[c] \in manifests
  <2>1. /\ manifests' = manifests \ {found[c]} /\ partial' = partial \ {found[c]}
        /\ tokens' = tokens /\ found[c] \in partial
    BY <1>1, <1>5 DEF DeleteManifest, TxInv, HeldRows
  <2>2. Abstract!EndDelete(mid, label)
    BY <1>1, <1>3, <2>1 DEF Abstract!EndDelete, Abstract!LabelOK, LabelOK
  <2>3. QED
    BY <1>2, <2>2 DEF Abstract!Next
<1>6. CASE found[c] \notin manifests
  BY <1>1, <1>6 DEF DeleteContents, DeleteManifest, tables
<1>7. QED
  BY <1>4, <1>5, <1>6

LEMMA StepImplements ==
  ASSUME Isolation = "serializable", "AddCoRIM" \notin Ops
  PROVE  TypeOK /\ TxInv /\ [Next]_vars => [Abstract!Next]_(Abstract!tables)
<1> SUFFICES ASSUME TypeOK, TxInv, [Next]_vars
             PROVE  Abstract!Next \/ UNCHANGED tables
  BY DEF Abstract!tables, tables
<1>1. \A c \in Clients : pc[c] # "idle" => call[c] \in CallRec
  BY DEF TypeOK, TxInv, LocalInv, CallInv
<1>2. ASSUME NEW c \in Clients, pc[c] \in {"insertManifest", "dropManifest"},
             call[c].op # "DeleteManifest"
      PROVE  InTx(c)
  BY <1>1, <1>2, TxAssumption DEF CallRec, InTx
<1>3. ASSUME NEW c \in Clients, DropManifest(c)
      PROVE  UNCHANGED tables
  BY <1>2, <1>3 DEF DropManifest, tables
<1>4. ASSUME NEW c \in Clients
      PROVE  ~InsertManifestAlone(c)
  BY <1>2 DEF InsertManifestAlone, TxInv, LocalInv, CallInv
<1>5. CASE UNCHANGED vars
  BY <1>5 DEF vars, tables
<1>6. CASE Next
  <2>1. PICK c \in Clients :
          \/ \E op \in Ops, doc \in Docs, label \in Labels : Call(c, op, doc, label)
          \/ Statement(c)
          \/ Fail(c)
    BY <1>6 DEF Next
  <2>2. CASE Commit(c) \/ DeleteContents(c) \/ DeleteManifest(c)
    BY <2>2, CommitImplements, DeleteImplements
  <2>3. CASE ~(Commit(c) \/ DeleteContents(c) \/ DeleteManifest(c))
    BY <1>3, <1>4, <2>1, <2>3
    DEF Statement, Call, Fail, SelectToken, ReloadToken, DropToken, InsertToken,
        SelectManifest, ReloadManifest, InsertManifest, GetManifest
  <2>4. QED
    BY <2>2, <2>3
<1>7. QED
  BY <1>5, <1>6

\* Where the DBMS serializes transactions and nothing is added outside one, the
\* store keeps the promise of StoreSpec: however the statements of its clients
\* interleave and wherever they fail, each add has its whole effect at once, and
\* only a DeleteManifest, in one of its two halves, is ever seen half done.
THEOREM StoreImplementsSpec ==
  ASSUME Isolation = "serializable", "AddCoRIM" \notin Ops
  PROVE  Spec => ImplementsStoreSpec
<1>1. Init => Abstract!Init
  BY DEF Init, Abstract!Init
<1>2. TypeOK /\ TxInv /\ [Next]_vars => [Abstract!Next]_(Abstract!tables)
  BY StepImplements
<1>3. QED
  BY <1>1, <1>2, TxCorrect, PTL DEF Spec, ImplementsStoreSpec, Abstract!Spec

\* What an add puts in the place of what it evicts leaves the ID with one row.
LEMMA EvictionKeepsUnique ==
  ASSUME NEW rows, NEW doc, NEW row, row.doc = doc,
         NEW old \in Abstract!Evictions(rows, DocID[doc]),
         \A m, n \in rows : DocID[m.doc] = DocID[n.doc] => m = n
  PROVE  \A m, n \in (rows \ old) \cup {row} : DocID[m.doc] = DocID[n.doc] => m = n
<1>1. \A m \in rows \ old : DocID[m.doc] # DocID[doc]
  BY DEF Abstract!Evictions, Abstract!Matching
<1>2. QED
  BY <1>1

\* A step of StoreSpec keeps at most one manifest per ID, and the token each
\* manifest was decoded from: the token an add evicts belongs to the one manifest
\* it evicts as well.
LEMMA SpecStepKeepsPairs ==
  ASSUME UniqueManifests, EveryManifestHasToken, Abstract!Next
  PROVE  UniqueManifests' /\ EveryManifestHasToken'
<1>1. ASSUME NEW id, NEW doc, NEW label, NEW verified,
             NEW old \in Abstract!Evictions(manifests, DocID[doc]),
             manifests' = (manifests \ old) \cup {[id |-> id, doc |-> doc, label |-> label]},
             NEW gone,
             gone = {} \/ gone \in Abstract!Evictions(tokens, DocID[doc]),
             tokens' = (tokens \ gone) \cup {[id |-> id, doc |-> doc, verified |-> verified]}
      PROVE  UniqueManifests' /\ EveryManifestHasToken'
  <2>1. UniqueManifests'
    BY <1>1, EvictionKeepsUnique DEF UniqueManifests
  <2>2. ASSUME NEW m \in manifests'
        PROVE  \E t \in tokens' : t.doc = m.doc
    <3>1. CASE m = [id |-> id, doc |-> doc, label |-> label]
      <4>1. PICK t \in tokens' : t = [id |-> id, doc |-> doc, verified |-> verified]
        BY <1>1
      <4>2. t.doc = doc
        BY <4>1
      <4>3. m.doc = doc
        BY <3>1
      <4>4. QED
        BY <4>2, <4>3
    <3>2. CASE m \in manifests \ old
      <4>1. DocID[m.doc] # DocID[doc]
        BY <1>1, <3>2 DEF Abstract!Evictions, Abstract!Matching, UniqueManifests
      <4>2. PICK t \in tokens : t.doc = m.doc
        BY <3>2 DEF EveryManifestHasToken
      <4>3. t \notin gone
        BY <1>1, <4>1, <4>2 DEF Abstract!Evictions, Abstract!Matching
      <4>4. QED
        BY <1>1, <4>2, <4>3
    <3>3. QED
      BY <1>1, <3>1, <3>2
  <2>3. QED
    BY <2>1, <2>2 DEF EveryManifestHasToken
<1>2. ASSUME NEW id, NEW doc, NEW label, Abstract!AddBytes(id, doc, label)
      PROVE  UniqueManifests' /\ EveryManifestHasToken'
  BY <1>1, <1>2 DEF Abstract!AddBytes, Abstract!PutManifest
<1>3. ASSUME NEW id, NEW doc, NEW label, Abstract!VerifyAndAddBytes(id, doc, label)
      PROVE  UniqueManifests' /\ EveryManifestHasToken'
  <2>1. tokens' = (tokens \ {}) \cup {[id |-> id, doc |-> doc, verified |-> TRUE]}
    BY <1>3 DEF Abstract!VerifyAndAddBytes
  <2>2. QED
    BY <1>1, <1>3, <2>1 DEF Abstract!VerifyAndAddBytes, Abstract!PutManifest
<1>4. ASSUME NEW mid, NEW label,
             Abstract!BeginDelete(mid, label) \/ Abstract!EndDelete(mid, label)
      PROVE  UniqueManifests' /\ EveryManifestHasToken'
  BY <1>4 DEF Abstract!BeginDelete, Abstract!EndDelete, UniqueManifests, EveryManifestHasToken
<1>5. QED
  BY <1>2, <1>3, <1>4 DEF Abstract!Next

LEMMA PairsAreKept ==
  ASSUME Isolation = "serializable", "AddCoRIM" \notin Ops
  PROVE  Spec => [](UniqueManifests /\ EveryManifestHasToken)
<1>1. Init => UniqueManifests /\ EveryManifestHasToken
  BY DEF Init, UniqueManifests, EveryManifestHasToken
<1>2. UniqueManifests /\ EveryManifestHasToken /\ [Abstract!Next]_(Abstract!tables)
        => (UniqueManifests /\ EveryManifestHasToken)'
  BY SpecStepKeepsPairs DEF Abstract!tables, UniqueManifests, EveryManifestHasToken
<1>3. QED
  BY <1>1, <1>2, StoreImplementsSpec, PTL DEF Spec, ImplementsStoreSpec, Abstract!Spec

\* On a serializable DBMS a manifest ID names at most one manifest.
THEOREM ManifestsAreUnique ==
  ASSUME Isolation = "serializable", "AddCoRIM" \notin Ops
  PROVE  Spec => []UniqueManifests
BY PairsAreKept, PTL

\* What each manifest was decoded from is among the tokens: an add evicts the token of
\* the manifest it evicts, which uniqueness says is the only one of that ID.
THEOREM ManifestsHaveTokens ==
  ASSUME Isolation = "serializable", "AddCoRIM" \notin Ops
  PROVE  Spec => []EveryManifestHasToken
BY PairsAreKept, PTL
-----------------------------------------------------------------------------
\* A call that adds evicts manifests of the ID it adds, whatever it sees of others.
EvictsOwnID(c) ==
  /\ pc[c] \in {"reloadManifest", "dropManifest"} /\ call[c].op # "DeleteManifest" =>
       DocID[found[c].doc] = DocID[call[c].doc]
  /\ \A m \in tx[c].delM : DocID[m.doc] = DocID[call[c].doc]

LEMMA EvictsFrame ==
  ASSUME NEW b \in Clients, EvictsOwnID(b),
         pc'[b] = pc[b], call'[b] = call[b], found'[b] = found[b], tx'[b] = tx[b]
  PROVE  EvictsOwnID(b)'
BY DEF EvictsOwnID

LEMMA EvictsStep ==
  ASSUME TypeOK, TxInv, \A c \in Clients : EvictsOwnID(c), [Next]_vars
  PROVE  \A c \in Clients : EvictsOwnID(c)'
<1> SUFFICES ASSUME NEW b \in Clients PROVE EvictsOwnID(b)'
  OBVIOUS
<1>1. CASE UNCHANGED vars
  BY <1>1, EvictsFrame DEF vars
<1>2. ASSUME NEW c \in Clients, Return(c)
      PROVE  EvictsOwnID(b)'
  <2>1. CASE b = c
    BY <1>2, <2>1 DEF Return, Goto, TypeOK, NoTx, EvictsOwnID
  <2>2. CASE b # c
    BY <1>2, <2>2, EvictsFrame DEF Return, Goto, TypeOK
  <2> QED BY <2>1, <2>2
<1>3. ASSUME NEW c \in Clients, NEW op \in Ops, NEW doc \in Docs, NEW label \in Labels,
             Call(c, op, doc, label)
      PROVE  EvictsOwnID(b)'
  <2>1. CASE b = c
    <3>1. tx[c].delM = {} /\ tx'[c] = tx[c]
      BY <1>3 DEF Call, TxInv, LocalInv, ManifestWrites
    <3>2. pc'[c] \in {"selectToken", "insertToken", "selectManifest", "getManifest"}
      BY <1>3, TxAssumption DEF Call, Goto, TypeOK, FirstStep
    <3> QED BY <2>1, <3>1, <3>2 DEF EvictsOwnID
  <2>2. CASE b # c
    BY <1>3, <2>2, EvictsFrame DEF Call, Goto, TypeOK
  <2> QED BY <2>1, <2>2
<1>4. ASSUME NEW c \in Clients, SelectManifest(c)
      PROVE  EvictsOwnID(b)'
  <2>1. CASE b = c
    <3>1. tx'[c].delM = tx[c].delM /\ call' = call
      BY <1>4 DEF SelectManifest, TypeOK, Transaction
    <3>2. pc'[c] = "reloadManifest" => DocID[found'[c].doc] = DocID[call[c].doc]
      BY <1>4 DEF SelectManifest, Goto, TypeOK, Matching
    <3>3. pc'[c] # "dropManifest"
      BY <1>4 DEF SelectManifest, Goto, TypeOK
    <3> QED BY <2>1, <3>1, <3>2, <3>3 DEF EvictsOwnID
  <2>2. CASE b # c
    BY <1>4, <2>2, EvictsFrame DEF SelectManifest, Goto, TypeOK
  <2> QED BY <2>1, <2>2
<1>5. ASSUME NEW c \in Clients, DropManifest(c)
      PROVE  EvictsOwnID(b)'
  <2>1. CASE b = c
    <3>1. \A m \in tx'[c].delM : m \in tx[c].delM \/ m = found[c]
      BY <1>5 DEF DropManifest, TypeOK, Transaction
    <3>2. pc[c] = "dropManifest" /\ call[c].op # "DeleteManifest" /\ call' = call
          /\ pc'[c] = "insertManifest"
      BY <1>5 DEF DropManifest, Goto, TypeOK
    <3> QED BY <2>1, <3>1, <3>2 DEF EvictsOwnID
  <2>2. CASE b # c
    BY <1>5, <2>2, EvictsFrame DEF DropManifest, Goto, TypeOK
  <2> QED BY <2>1, <2>2
<1>6. ASSUME NEW c \in Clients,
             \/ SelectToken(c) \/ ReloadToken(c) \/ DropToken(c) \/ InsertToken(c)
             \/ ReloadManifest(c) \/ InsertManifest(c) \/ GetManifest(c) \/ DeleteContents(c)
      PROVE  EvictsOwnID(b)'
  <2>1. CASE b = c
    <3>1. tx'[c].delM = tx[c].delM /\ call' = call
      BY <1>6 DEF SelectToken, ReloadToken, DropToken, InsertToken, ReloadManifest,
         InsertManifest, GetManifest, DeleteContents, TypeOK, Transaction
    <3>2. \/ pc'[c] \notin {"reloadManifest", "dropManifest"}
          \/ pc[c] = "reloadManifest" /\ found' = found
          \/ pc[c] \in {"getManifest", "dropContents"}
      BY <1>6 DEF SelectToken, ReloadToken, DropToken, InsertToken, ReloadManifest,
         InsertManifest, GetManifest, DeleteContents, TypeOK, Goto
    <3>3. pc[c] \in {"getManifest", "dropContents"} => call[c].op = "DeleteManifest"
      BY DEF TxInv, LocalInv, CallInv
    <3> QED BY <2>1, <3>1, <3>2, <3>3 DEF EvictsOwnID
  <2>2. CASE b # c
    <3>1. pc'[b] = pc[b] /\ call'[b] = call[b] /\ found'[b] = found[b] /\ tx'[b] = tx[b]
      BY <1>6, <2>2 DEF SelectToken, ReloadToken, DropToken, InsertToken, ReloadManifest,
         InsertManifest, GetManifest, DeleteContents, TypeOK, Goto
    <3> QED BY <3>1, EvictsFrame
  <2> QED BY <2>1, <2>2
<1>7. CASE Next
  BY <1>2, <1>3, <1>4, <1>5, <1>6, <1>7
  DEF Next, Statement, Fail, InsertManifestAlone, Commit, DeleteManifest
<1> QED BY <1>1, <1>7

\* If nothing is added outside a transaction, an add that overwrites puts the new
\* value in the place of the old one, under every isolation level: only
\* DeleteManifest takes a manifest ID out of the store.
THEOREM OverwritesKeepAValue ==
  ASSUME "AddCoRIM" \notin Ops PROVE Spec => OverwriteKeepsAValue
<1> DEFINE A == \A m \in manifests \ manifests' :
                  \/ Matching(manifests', DocID[m.doc]) # {}
                  \/ \E c \in Clients : pc'[c] # pc[c] /\ call[c].op = "DeleteManifest"
<1>1. ASSUME TypeOK, TxInv, \A c \in Clients : EvictsOwnID(c), Next PROVE A
  <2> SUFFICES ASSUME NEW m \in manifests \ manifests'
               PROVE  \/ Matching(manifests', DocID[m.doc]) # {}
                      \/ \E c \in Clients : pc'[c] # pc[c] /\ call[c].op = "DeleteManifest"
    OBVIOUS
  <2>1. PICK c \in Clients : Commit(c) \/ DeleteManifest(c) \/ (DropManifest(c) /\ ~InTx(c))
    BY <1>1 DEF Next, Statement, Call, Fail, SelectToken, ReloadToken, DropToken, InsertToken,
       SelectManifest, ReloadManifest, DropManifest, InsertManifest, InsertManifestAlone,
       GetManifest, DeleteContents, tables
  <2>2. CASE Commit(c)
    <3>1. m \in tx[c].delM /\ NewManifest(c) \in manifests'
      BY <1>1, <2>2 DEF Commit, TxInv, LocalInv, ManifestWrites
    <3>2. DocID[m.doc] = DocID[NewManifest(c).doc]
      BY <1>1, <3>1 DEF EvictsOwnID, NewManifest
    <3> QED BY <3>1, <3>2 DEF Matching
  <2>3. CASE DeleteManifest(c)
    BY <1>1, <2>3 DEF DeleteManifest, Return, Goto, TypeOK
  <2>4. ~(DropManifest(c) /\ ~InTx(c))
    <3>1. DropManifest(c) => call[c] \in CallRec /\ call[c].op # "DeleteManifest"
      BY <1>1 DEF DropManifest, TxInv, LocalInv, CallInv, TypeOK
    <3> QED BY <3>1, TxAssumption DEF CallRec, InTx
  <2> QED BY <2>1, <2>2, <2>3, <2>4
<1>2. TypeOK /\ TxInv /\ (\A c \in Clients : EvictsOwnID(c)) /\ [Next]_vars => [A]_vars
  BY <1>1
<1>3. Init => \A c \in Clients : EvictsOwnID(c)
  BY DEF Init, EvictsOwnID, NoTx
<1>4. TypeOK /\ TxInv /\ (\A c \in Clients : EvictsOwnID(c)) /\ [Next]_vars
        => (\A c \in Clients : EvictsOwnID(c))'
  BY EvictsStep
<1> QED BY <1>2, <1>3, <1>4, TxCorrect, PTL DEF Spec, OverwriteKeepsAValue
-----------------------------------------------------------------------------
\* Only Commit writes the table of tokens, and what it adds is its call's token.
LEMMA OnlyCommitWritesTokens ==
  ASSUME TypeOK, TxInv, [Next]_vars
  PROVE  \/ UNCHANGED tokens
         \/ \E c \in Clients :
              /\ Commit(c) /\ call[c] \in CallRec /\ InTx(c)
              /\ Accepted(call[c].op, call[c].doc) /\ TokenWrites(c) /\ pc[c] = "commit"
              /\ tokens' = (tokens \ tx[c].delT) \cup {NewToken(c)}
<1>1. CASE UNCHANGED vars
  BY <1>1 DEF vars, tables
<1>2. ASSUME NEW c \in Clients, Commit(c)
      PROVE  /\ call[c] \in CallRec /\ InTx(c)
             /\ Accepted(call[c].op, call[c].doc) /\ TokenWrites(c) /\ pc[c] = "commit"
             /\ tokens' = (tokens \ tx[c].delT) \cup {NewToken(c)}
  <2>1. pc[c] = "commit" /\ CallInv(c) /\ TokenWrites(c)
    BY <1>2 DEF Commit, TxInv, LocalInv
  <2>2. call[c] \in CallRec /\ InTx(c) /\ Accepted(call[c].op, call[c].doc)
    BY <2>1 DEF CallInv, TypeOK
  <2>3. tx[c].insT = {NewToken(c)}
    BY <2>1, <2>2 DEF TokenWrites
  <2>4. QED
    BY <1>2, <2>1, <2>2, <2>3 DEF Commit
<1>3. CASE Next
  BY <1>2, <1>3
  DEF Next, Statement, Call, Fail, SelectToken, ReloadToken, DropToken, InsertToken,
      SelectManifest, ReloadManifest, DropManifest, InsertManifest, InsertManifestAlone,
      GetManifest, DeleteContents, DeleteManifest, tables
<1>4. QED
  BY <1>1, <1>3

\* Unless insecure operations are allowed, a signed CoRIM is in the store only if
\* its signature verified, under every isolation level.
THEOREM SignedAreVerified == Spec => []SignedTokensVerified
<1>1. Init => SignedTokensVerified
  BY DEF Init, SignedTokensVerified
<1>2. TypeOK /\ TxInv /\ SignedTokensVerified /\ [Next]_vars => SignedTokensVerified'
  <2> SUFFICES ASSUME TypeOK, TxInv, SignedTokensVerified, [Next]_vars, ~CfgInsecure,
                      NEW t \in tokens', t.doc \in Signed
               PROVE  t.verified /\ t.doc \in Genuine
    BY DEF SignedTokensVerified
  <2>1. CASE t \in tokens
    BY <2>1 DEF SignedTokensVerified
  <2>2. CASE t \notin tokens
    <3>1. PICK c \in Clients : /\ InTx(c) /\ Accepted(call[c].op, call[c].doc)
                               /\ t = NewToken(c)
      BY <2>2, OnlyCommitWritesTokens
    <3>2. t.doc = call[c].doc /\ t.verified = IsVerified(call[c].op)
      BY <3>1 DEF NewToken
    <3>3. call[c].op = "VerifyAndAddBytes"
      BY <3>1, <3>2 DEF InTx, Accepted
    <3>4. QED
      BY <3>1, <3>2, <3>3 DEF Accepted, IsVerified
  <2>3. QED
    BY <2>1, <2>2
<1>3. QED
  BY <1>1, <1>2, TxCorrect, PTL DEF Spec

\* As long as all adds go through AddBytes, a serializable DBMS also keeps the
\* tokens of one manifest ID down to one.
THEOREM TokensAreUnique ==
  ASSUME Isolation = "serializable", "VerifyAndAddBytes" \notin Ops
  PROVE  Spec => []UniqueTokens
<1>1. Init => UniqueTokens
  BY DEF Init, UniqueTokens
<1>2. TypeOK /\ TxInv /\ UniqueTokens /\ [Next]_vars => UniqueTokens'
  <2> SUFFICES ASSUME TypeOK, TxInv, UniqueTokens, [Next]_vars
               PROVE  UniqueTokens'
    OBVIOUS
  <2>1. CASE UNCHANGED tokens
    BY <2>1 DEF UniqueTokens
  <2>2. ASSUME NEW c \in Clients,
               Commit(c), call[c] \in CallRec, InTx(c), TokenWrites(c), pc[c] = "commit",
               tokens' = (tokens \ tx[c].delT) \cup {NewToken(c)}
        PROVE  UniqueTokens'
    <3>1. call[c].op = "AddBytes" /\ tx[c].snapT = tokens
      BY <2>2 DEF Commit, CanCommit, CallRec, InTx
    <3>2. tx[c].delT \in Abstract!Evictions(tokens, DocID[call[c].doc])
      BY <2>2, <3>1 DEF TokenWrites
    <3>3. NewToken(c).doc = call[c].doc
      BY DEF NewToken
    <3>4. QED
      BY <2>2, <3>2, <3>3, EvictionKeepsUnique DEF UniqueTokens
  <2>3. QED
    BY <2>1, <2>2, OnlyCommitWritesTokens
<1>3. QED
  BY <1>1, <1>2, TxCorrect, PTL DEF Spec
=============================================================================
