------------------------------ MODULE StoreTx ------------------------------
(***************************************************************************)
(* The calls of pkg/store/store.go that change what the store holds, at    *)
(* the granularity of the SQL statements and transactions they execute,    *)
(* run by several clients on one database.                                 *)
(*                                                                         *)
(* AddBytes and VerifyAndAddBytes run inside one transaction (Store.BeginTx*)
(* ... Commit); the transactions AddToken, AddManifest, Token.Insert and   *)
(* Token.Delete begin inside it are savepoints and publish nothing.        *)
(* AddCoRIM, called on a Store that is not a transaction, looks up the     *)
(* manifest in a statement of its own, removes the old one in one          *)
(* transaction and inserts the new one in another.  DeleteManifest runs    *)
(* its statements without a transaction: first those that remove what the  *)
(* manifest contains, one row after the other (RowStore models them one by *)
(* one), and last the one that removes the manifest.                       *)
(*                                                                         *)
(* Every call leaves with an error as soon as a statement fails: the DBMS  *)
(* reports a conflict or an I/O error, or the context is cancelled.  The   *)
(* rollback this causes is also what the DBMS does when the process dies,  *)
(* so one action, Fail, stands for every error return and for a crash.     *)
(***************************************************************************)
EXTENDS StoreSchema

CONSTANTS
  Clients,    \* the processes and goroutines that use the store
  Ops,        \* the calls they make
  Isolation,  \* what the DBMS isolates transactions by (BeginTx(nil): its default)
  MaxCalls,   \* bound on the number of calls made
  NoRow, NoCall

CallRec == [op : Ops, doc : Docs, label : Labels, id : 1..MaxCalls]

ASSUME TxAssumption ==
  /\ Ops \subseteq {"AddBytes", "VerifyAndAddBytes", "AddCoRIM", "DeleteManifest"}
  /\ Isolation \in {"serializable", "repeatable_read", "read_committed"}
  /\ MaxCalls \in Nat
  /\ NoRow \notin ManifestRow \cup TokenRow
  /\ NoCall \notin CallRec

VARIABLES
  manifests,  \* committed rows of the table "manifests"
  tokens,     \* committed rows of the table "tokens"
  partial,    \* manifests that DeleteManifest has begun to empty
  pc,         \* the next statement of each client's call
  call,       \* the call each client is in: operation, arguments, and the
              \* primary key of the rows it inserts
  found,      \* the row "existing" (or "manifest", in DeleteManifest) holds
  tx,         \* each client's open transaction
  calls,      \* number of calls made so far: the autoincrement counter
  failed      \* keys of the calls that returned an error

tables == <<manifests, tokens, partial>>
vars == <<manifests, tokens, partial, pc, call, found, tx, calls, failed>>

Steps == {"idle", "selectToken", "reloadToken", "dropToken", "insertToken",
          "selectManifest", "reloadManifest", "dropManifest", "insertManifest",
          "commit", "getManifest", "dropContents"}

\* A transaction: the committed tables as of its first read, and its writes.
Transaction == [snapM : SUBSET ManifestRow, snapT : SUBSET TokenRow,
                insM : SUBSET ManifestRow, insT : SUBSET TokenRow,
                delM : SUBSET ManifestRow, delT : SUBSET TokenRow]

NoTx == [snapM |-> {}, snapT |-> {}, insM |-> {}, insT |-> {}, delM |-> {}, delT |-> {}]

Init ==
  /\ manifests = {} /\ tokens = {} /\ partial = {}
  /\ pc = [c \in Clients |-> "idle"]
  /\ call = [c \in Clients |-> NoCall]
  /\ found = [c \in Clients |-> NoRow]
  /\ tx = [c \in Clients |-> NoTx]
  /\ calls = 0
  /\ failed = {}
-----------------------------------------------------------------------------
InTx(c) == call[c].op \in {"AddBytes", "VerifyAndAddBytes"}

\* What a statement of c's call reads.  Under read_committed every statement
\* sees the latest commits; otherwise a transaction sees its snapshot.
BaseManifests(c) ==
  IF InTx(c) /\ Isolation # "read_committed" THEN tx[c].snapM ELSE manifests
BaseTokens(c) ==
  IF InTx(c) /\ Isolation # "read_committed" THEN tx[c].snapT ELSE tokens

VisibleManifests(c) == (BaseManifests(c) \ tx[c].delM) \cup tx[c].insM
VisibleTokens(c) == (BaseTokens(c) \ tx[c].delT) \cup tx[c].insT

\* Fault: a commit that ignores what others have committed meanwhile.
CommitAnyway(c) == TRUE

\* A serializable DBMS (SQLite) lets a transaction commit only if nobody else
\* has committed since its first read; PostgreSQL's and MySQL's defaults do not
\* look, and the tables have no unique constraint that would.  (A commit of
\* DeleteManifest that only empties a manifest is not counted: the model lets
\* more transactions commit than the DBMS does.)
CanCommit(c) ==
  Isolation = "serializable" => tx[c].snapM = manifests /\ tx[c].snapT = tokens

Goto(c, step) == pc' = [pc EXCEPT ![c] = step]

\* Fault: the rollback is forgotten.
ReturnNoRollback(c) ==
  /\ Goto(c, "idle")
  /\ call' = [call EXCEPT ![c] = NoCall]
  /\ found' = [found EXCEPT ![c] = NoRow]
  /\ UNCHANGED tx

Return(c) ==
  /\ Goto(c, "idle")
  /\ call' = [call EXCEPT ![c] = NoCall]
  /\ found' = [found EXCEPT ![c] = NoRow]
  /\ tx' = [tx EXCEPT ![c] = NoTx]

\* Fault: VerifyAndAddBytes ignores the outcome of the verification.
AcceptedUnverified(op, doc) == op = "AddBytes" => (doc \in Signed => CfgInsecure)

\* The checks made before any statement is executed.
Accepted(op, doc) ==
  /\ op = "AddBytes" => (doc \in Signed => CfgInsecure)
  /\ op = "VerifyAndAddBytes" => doc \in Genuine

FirstStep(op) ==
  CASE op = "AddBytes" -> "selectToken"
    [] op = "VerifyAndAddBytes" -> "insertToken"
    [] op = "AddCoRIM" -> "selectManifest"
    [] op = "DeleteManifest" -> "getManifest"

Call(c, op, doc, label) ==
  /\ pc[c] = "idle" /\ calls < MaxCalls
  /\ Accepted(op, doc)
  /\ calls' = calls + 1
  /\ call' = [call EXCEPT ![c] = [op |-> op, doc |-> doc, label |-> label, id |-> calls + 1]]
  /\ Goto(c, FirstStep(op))
  /\ UNCHANGED <<tables, found, tx, failed>>

Fail(c) ==
  /\ pc[c] # "idle"
  /\ failed' = failed \cup {call[c].id}
  /\ Return(c)
  /\ UNCHANGED <<tables, calls>>
-----------------------------------------------------------------------------
(* AddToken *)

\* Fault: with Force, deletes "existing" without looking whether there is one.
SelectTokenBlindly(c) ==
  /\ pc[c] = "selectToken"
  /\ tx' = [tx EXCEPT ![c].snapM = manifests, ![c].snapT = tokens]
  /\ Goto(c, IF CfgForce THEN "dropToken" ELSE "insertToken")
  /\ UNCHANGED <<tables, call, found, calls, failed>>

\* The first read of AddBytes's transaction, which fixes its snapshot.  A token
\* that is found is an error (Fail) unless Force is set.
SelectToken(c) ==
  LET rows == Matching(tokens, DocID[call[c].doc])
  IN /\ pc[c] = "selectToken"
     /\ tx' = [tx EXCEPT ![c].snapM = manifests, ![c].snapT = tokens]
     /\ \/ rows = {} /\ Goto(c, "insertToken") /\ UNCHANGED found
        \/ /\ CfgForce
           /\ \E t \in rows : found' = [found EXCEPT ![c] = t]
           /\ Goto(c, "reloadToken")
     /\ UNCHANGED <<tables, call, calls, failed>>

\* existing.Select: no row is an error (Fail).
ReloadToken(c) ==
  /\ pc[c] = "reloadToken"
  /\ found[c] \in VisibleTokens(c)
  /\ Goto(c, "dropToken")
  /\ UNCHANGED <<tables, call, found, tx, calls, failed>>

\* Fault: the existing token is not deleted.
KeepToken(c) ==
  /\ pc[c] = "dropToken"
  /\ Goto(c, "insertToken")
  /\ UNCHANGED <<tables, call, found, tx, calls, failed>>

\* existing.Delete, WherePK.  A row another transaction has removed meanwhile
\* is no error.
DropToken(c) ==
  /\ pc[c] = "dropToken"
  /\ tx' = [tx EXCEPT ![c].delT = @ \cup {found[c]}]
  /\ Goto(c, "insertToken")
  /\ UNCHANGED <<tables, call, found, calls, failed>>

NewToken(c) ==
  [id |-> call[c].id, doc |-> call[c].doc, verified |-> IsVerified(call[c].op)]

\* Fault: the token is inserted through the store's own handle, not the transaction's.
InsertTokenOutside(c) ==
  /\ pc[c] = "insertToken"
  /\ tokens' = tokens \cup {NewToken(c)}
  /\ Goto(c, "selectManifest")
  /\ UNCHANGED <<manifests, partial, call, found, tx, calls, failed>>

\* Fault: a token with the manifest ID is taken for this one.
InsertTokenIfNew(c) ==
  /\ pc[c] = "insertToken"
  /\ IF Matching(VisibleTokens(c) \cup tokens, DocID[call[c].doc]) = {}
       THEN tx' = [tx EXCEPT ![c].insT = @ \cup {NewToken(c)}]
       ELSE UNCHANGED tx
  /\ Goto(c, "selectManifest")
  /\ UNCHANGED <<tables, call, found, calls, failed>>

InsertToken(c) ==
  /\ pc[c] = "insertToken"
  /\ tx' = [tx EXCEPT ![c].insT = @ \cup {NewToken(c)}]
  /\ Goto(c, "selectManifest")
  /\ UNCHANGED <<tables, call, found, calls, failed>>
-----------------------------------------------------------------------------
(* AddManifest *)

\* VerifyAndAddBytes reads here for the first time.
SelectManifest(c) ==
  LET base == IF call[c].op = "AddBytes" THEN BaseManifests(c) ELSE manifests
      rows == Matching(base, DocID[call[c].doc])
  IN /\ pc[c] = "selectManifest"
     /\ LabelOK(call[c].label)
     /\ IF call[c].op = "VerifyAndAddBytes"
          THEN tx' = [tx EXCEPT ![c].snapM = manifests, ![c].snapT = tokens]
          ELSE UNCHANGED tx
     /\ \/ rows = {} /\ Goto(c, "insertManifest") /\ UNCHANGED found
        \/ /\ CfgForce
           /\ \E m \in rows : found' = [found EXCEPT ![c] = m]
           /\ Goto(c, "reloadManifest")
     /\ UNCHANGED <<tables, call, calls, failed>>

\* existing.Select, and in DeleteManifest the Select that populates the model.
ReloadManifest(c) ==
  /\ pc[c] = "reloadManifest"
  /\ found[c] \in VisibleManifests(c)
  /\ Goto(c, IF call[c].op = "DeleteManifest" THEN "dropContents" ELSE "dropManifest")
  /\ UNCHANGED <<tables, call, found, tx, calls, failed>>

\* Fault: the existing manifest is not deleted.
KeepManifest(c) ==
  /\ pc[c] = "dropManifest" /\ call[c].op # "DeleteManifest"
  /\ Goto(c, "insertManifest")
  /\ UNCHANGED <<tables, call, found, tx, calls, failed>>

\* Fault: the existing manifest is deleted through the store's own handle.
DropManifestOutside(c) ==
  /\ pc[c] = "dropManifest" /\ call[c].op # "DeleteManifest"
  /\ manifests' = manifests \ {found[c]}
  /\ partial' = partial \ {found[c]}
  /\ Goto(c, "insertManifest")
  /\ UNCHANGED <<tokens, call, found, tx, calls, failed>>

\* existing.Delete: a savepoint in a transaction, a transaction of its own otherwise.
DropManifest(c) ==
  /\ pc[c] = "dropManifest"
  /\ call[c].op # "DeleteManifest"
  /\ Goto(c, "insertManifest")
  /\ IF InTx(c)
       THEN /\ tx' = [tx EXCEPT ![c].delM = @ \cup {found[c]}]
            /\ UNCHANGED <<manifests, partial>>
       ELSE /\ manifests' = manifests \ {found[c]}
            /\ partial' = partial \ {found[c]}
            /\ UNCHANGED tx
  /\ UNCHANGED <<tokens, call, found, calls, failed>>

NewManifest(c) == [id |-> call[c].id, doc |-> call[c].doc, label |-> call[c].label]

\* m.Insert, inside the transaction of AddBytes or VerifyAndAddBytes ...
InsertManifest(c) ==
  /\ pc[c] = "insertManifest" /\ InTx(c)
  /\ tx' = [tx EXCEPT ![c].insM = @ \cup {NewManifest(c)}]
  /\ Goto(c, "commit")
  /\ UNCHANGED <<tables, call, found, calls, failed>>

\* ... or in a second transaction of AddCoRIM's own, whose commit ends the call.
InsertManifestAlone(c) ==
  /\ pc[c] = "insertManifest" /\ ~InTx(c)
  /\ manifests' = manifests \cup {NewManifest(c)}
  /\ Return(c)
  /\ UNCHANGED <<tokens, partial, calls, failed>>

Commit(c) ==
  /\ pc[c] = "commit"
  /\ CanCommit(c)
  /\ manifests' = (manifests \ tx[c].delM) \cup tx[c].insM
  /\ tokens' = (tokens \ tx[c].delT) \cup tx[c].insT
  /\ partial' = partial \ tx[c].delM
  /\ Return(c)
  /\ UNCHANGED <<calls, failed>>
-----------------------------------------------------------------------------
(* DeleteManifest *)

GetManifest(c) ==
  /\ pc[c] = "getManifest"
  /\ LabelOK(call[c].label)
  /\ \E m \in Selectable(manifests, DocID[call[c].doc], call[c].label) :
       found' = [found EXCEPT ![c] = m]
  /\ Goto(c, "reloadManifest")
  /\ UNCHANGED <<tables, call, tx, calls, failed>>

\* manifest.Delete(ctx, o.DB) up to its last statement: each statement commits
\* by itself, and a failure (Fail) between two of them leaves the manifest in
\* the store without part of what it contained.  They change nothing once
\* somebody else has removed the manifest.
DeleteContents(c) ==
  /\ pc[c] = "dropContents"
  /\ partial' = partial \cup ({found[c]} \cap manifests)
  /\ Goto(c, "dropManifest")
  /\ UNCHANGED <<manifests, tokens, call, found, tx, calls, failed>>

\* The last statement of manifest.Delete.
DeleteManifest(c) ==
  /\ pc[c] = "dropManifest"
  /\ call[c].op = "DeleteManifest"
  /\ manifests' = manifests \ {found[c]}
  /\ partial' = partial \ {found[c]}
  /\ Return(c)
  /\ UNCHANGED <<tokens, calls, failed>>
-----------------------------------------------------------------------------
Statement(c) ==
  \/ SelectToken(c) \/ ReloadToken(c) \/ DropToken(c) \/ InsertToken(c)
  \/ SelectManifest(c) \/ ReloadManifest(c) \/ DropManifest(c)
  \/ InsertManifest(c) \/ InsertManifestAlone(c) \/ Commit(c)
  \/ GetManifest(c) \/ DeleteContents(c) \/ DeleteManifest(c)

Next ==
  \E c \in Clients :
    \/ \E op \in Ops, doc \in Docs, label \in Labels : Call(c, op, doc, label)
    \/ Statement(c)
    \/ Fail(c)

Spec == Init /\ [][Next]_vars
-----------------------------------------------------------------------------
(* Properties *)

TypeOK ==
  /\ manifests \subseteq ManifestRow /\ tokens \subseteq TokenRow
  /\ partial \subseteq manifests
  /\ pc \in [Clients -> Steps]
  /\ call \in [Clients -> CallRec \cup {NoCall}]
  /\ found \in [Clients -> ManifestRow \cup TokenRow \cup {NoRow}]
  /\ tx \in [Clients -> Transaction]
  /\ calls \in 0..MaxCalls
  /\ failed \subseteq 1..MaxCalls

\* A manifest ID names at most one manifest: AddManifest refuses an ID that is
\* already in the store, or replaces what it finds there (store.go:307-365).
UniqueManifests ==
  \A m, n \in manifests : DocID[m.doc] = DocID[n.doc] => m = n

\* A manifest ID names at most one token; token.go:16 marks the column unique
\* and GetTokenBytes (store.go:1057-1069) gives up when there are two.
UniqueTokens ==
  \A t, u \in tokens : DocID[t.doc] = DocID[u.doc] => t = u

\* What a manifest was decoded from can be dumped: the bytes of its own
\* document, not of an earlier one with the same ID, are among the tokens.
EveryManifestHasToken ==
  \A m \in manifests : \E t \in tokens : t.doc = m.doc

\* Unless insecure operations are allowed, a signed CoRIM is in the store only
\* if its signature verified, and its token records the authority.
SignedTokensVerified ==
  ~CfgInsecure => \A t \in tokens : t.doc \in Signed => t.verified /\ t.doc \in Genuine

\* A call that returned an error, or died, left no row behind, whichever
\* statement stopped it (the rollbacks of store.go:164-181 and 205-248).
FailedLeavesNothing ==
  \A r \in manifests \cup tokens : r.id \notin failed

\* A token becomes visible only together with the manifest it was decoded
\* into: no other client ever reads one half of an add.
AddsAreAtomic ==
  [][\A t \in tokens' \ tokens :
       \E m \in manifests' \ manifests : m.id = t.id /\ m.doc = t.doc]_vars

\* Only DeleteManifest takes a manifest ID out of the store: an add that
\* overwrites puts the new value in the place of the old one, in one step.
OverwriteKeepsAValue ==
  [][\A m \in manifests \ manifests' :
       \/ Matching(manifests', DocID[m.doc]) # {}
       \/ \E c \in Clients : pc'[c] # pc[c] /\ call[c].op = "DeleteManifest"]_vars

\* The store the clients see behaves as StoreSpec: whatever is committed is the
\* whole effect of one add, or one of the two halves of a DeleteManifest, which
\* alone may leave a manifest without part of what it contained.
Abstract == INSTANCE StoreSpec WITH RowIDs <- 1..MaxCalls
ImplementsStoreSpec == Abstract!Spec
-----------------------------------------------------------------------------
(* The inductive invariant behind the theorems of StoreTxProofs *)

\* Keys are handed out once: no two calls in progress share one, and none of
\* them is the key of a committed row or of a failed call.
KeysInv ==
  /\ \A r \in manifests \cup tokens : r.id \in 1..calls /\ r.id \notin failed
  /\ failed \subseteq 1..calls
  /\ \A c \in Clients : pc[c] # "idle" =>
       /\ call[c].id \in (1..calls) \ failed
       /\ \A r \in manifests \cup tokens : r.id # call[c].id
       /\ \A b \in Clients \ {c} : pc[b] # "idle" => call[b].id # call[c].id

\* DeleteManifest has selected its row.
HoldsRow(c) ==
  /\ pc[c] \in {"reloadManifest", "dropContents", "dropManifest"}
  /\ call[c].op = "DeleteManifest"

\* Somebody else may remove the row DeleteManifest has selected, but nobody
\* brings it back; and what it contains goes before the row itself.
HeldRows ==
  \A c \in Clients : HoldsRow(c) =>
    /\ found[c].id \in 1..calls
    /\ \A b \in Clients : pc[b] # "idle" => call[b].id # found[c].id
    /\ pc[c] = "dropManifest" /\ found[c] \in manifests => found[c] \in partial

\* Which calls can be at which step.
CallInv(c) ==
  /\ pc[c] = "idle" <=> call[c] = NoCall
  /\ pc[c] # "idle" => Accepted(call[c].op, call[c].doc)
  /\ pc[c] \in {"selectToken", "reloadToken", "dropToken"} => call[c].op = "AddBytes"
  /\ pc[c] \in {"insertToken", "commit"} => InTx(c)
  /\ pc[c] \in {"getManifest", "dropContents"} => call[c].op = "DeleteManifest"
  /\ pc[c] \in {"selectManifest", "insertManifest"} => call[c].op # "DeleteManifest"
  /\ pc[c] \in {"reloadManifest", "dropContents", "dropManifest", "insertManifest",
               "commit"} => LabelOK(call[c].label)
  /\ pc[c] \in {"reloadManifest", "dropContents", "dropManifest"} => found[c] \in ManifestRow

\* What a transaction has written to the tokens: nothing before the insert, and
\* then its token, in the place of one the snapshot held.
TokenWrites(c) ==
  LET mid == DocID[call[c].doc]
  IN /\ pc[c] \in {"idle", "selectToken", "reloadToken", "dropToken", "insertToken"} =>
          tx[c].insT = {}
     /\ pc[c] \in {"idle", "selectToken", "reloadToken", "dropToken"} => tx[c].delT = {}
     /\ pc[c] \in {"reloadToken", "dropToken"} =>
          CfgForce /\ found[c] \in Matching(tx[c].snapT, mid)
     /\ pc[c] \in {"insertToken", "selectManifest", "reloadManifest", "dropManifest",
                   "insertManifest", "commit"} /\ InTx(c) =>
          /\ call[c].op = "AddBytes" => tx[c].delT \in Abstract!Evictions(tx[c].snapT, mid)
          /\ call[c].op = "VerifyAndAddBytes" => tx[c].delT = {}
          /\ pc[c] # "insertToken" => tx[c].insT = {NewToken(c)}

\* The same of the manifests; they are read from the snapshot only if the DBMS
\* isolates transactions.
ManifestWrites(c) ==
  LET mid == DocID[call[c].doc]
  IN /\ pc[c] # "commit" => tx[c].insM = {}
     /\ pc[c] \notin {"insertManifest", "commit"} => tx[c].delM = {}
     /\ pc[c] \in {"reloadManifest", "dropManifest"} /\ InTx(c)
          /\ Isolation # "read_committed" =>
          CfgForce /\ found[c] \in Matching(tx[c].snapM, mid)
     /\ pc[c] \in {"insertManifest", "commit"} /\ InTx(c)
          /\ Isolation # "read_committed" =>
          tx[c].delM \in Abstract!Evictions(tx[c].snapM, mid)
     /\ pc[c] = "commit" => tx[c].insM = {NewManifest(c)}

\* DeleteManifest holds a row its arguments select.
DeleteInv(c) ==
  HoldsRow(c) => found[c] \in Selectable({found[c]}, DocID[call[c].doc], call[c].label)

LocalInv(c) == CallInv(c) /\ TokenWrites(c) /\ ManifestWrites(c) /\ DeleteInv(c)

\* Everything a call in progress relies on, whatever other clients do.
TxInv == KeysInv /\ HeldRows /\ \A c \in Clients : LocalInv(c)
=============================================================================
