----------------------------- MODULE Lifecycle -----------------------------
(***************************************************************************)
(* The life cycle of triples: inactive when added (unless the add asks for *)
(* activation), then activated and deactivated by the commands "activate"  *)
(* and "deactivate" (cmd/corim-store/cmd/lifecycle.go) and by the          *)
(* Set...TriplesActive methods of the store (pkg/store/store.go), and gone *)
(* when their manifest is deleted.                                         *)
(*                                                                         *)
(* Neither the commands nor the methods use a transaction: every statement *)
(* takes effect on its own, and a failed one leaves the earlier ones in    *)
(* place.                                                                  *)
(***************************************************************************)
EXTENDS Naturals, Sequences

CONSTANTS
  Clients,
  Triples,       \* the triples that may be added; each gets one row in its life
  KindOf,        \* the table a triple is in: "key", "value", or one of the others
  Tags, TagOf,   \* the module tags, and the one each triple belongs to
  OwnerColumn,   \* TRUE once 0003_rev10 has renamed value_triples.module_id
  Commands,      \* the commands clients give
  MaxCommands    \* bound on the number of commands given

Kinds == {"key", "value", "other"}

\* A command of the CLI names triples by database ID and, through --module-tag
\* and --manifest, module tags; a call of the API names the triples of one kind
\* that a query selects.
CliCommand ==
  [from : {"cli"}, value : BOOLEAN, keys : SUBSET Triples, values : SUBSET Triples,
   tags : Seq(Tags)]
ApiCall == [from : {"api"}, value : BOOLEAN, kind : Kinds, query : SUBSET Triples]

ASSUME LifecycleAssumption ==
  /\ KindOf \in [Triples -> Kinds]
  /\ TagOf \in [Triples -> Tags]
  /\ OwnerColumn \in BOOLEAN
  /\ Commands \subseteq CliCommand \cup ApiCall
  /\ MaxCommands \in Nat

VARIABLES
  added,    \* the module tags added so far
  rows,     \* the triples in the store
  active,   \* those with is_active set
  pc,       \* the next statement of each client's command
  cmd,      \* the command each client is executing; the tags it still has to look up
  tagIDs,   \* the module tags a command has found and not yet worked through
  ids,      \* the triple IDs the last SELECT of a command returned
  entries,  \* the entries a Set...TriplesActive call will return
  given     \* number of commands given

vars == <<added, rows, active, pc, cmd, tagIDs, ids, entries, given>>

Idle == [from |-> "none"]

Init ==
  /\ added = {} /\ rows = {} /\ active = {}
  /\ pc = [c \in Clients |-> "idle"]
  /\ cmd = [c \in Clients |-> Idle]
  /\ tagIDs = [c \in Clients |-> <<>>]
  /\ ids = [c \in Clients |-> {}]
  /\ entries = [c \in Clients |-> {}]
  /\ given = 0

\* Fault: the IDs of one kind of triple are used for another.
AnyKind(ts, kind) == ts

OfKind(ts, kind) == {t \in ts : KindOf[t] = kind}
-----------------------------------------------------------------------------
\* A module tag is added in one transaction; activation is of all its triples,
\* whatever their kind.
Add(tag, activate) ==
  /\ tag \notin added
  /\ added' = added \cup {tag}
  /\ rows' = rows \cup {t \in Triples : TagOf[t] = tag}
  /\ active' = IF activate THEN active \cup {t \in Triples : TagOf[t] = tag} ELSE active
  /\ UNCHANGED <<pc, cmd, tagIDs, ids, entries, given>>

\* DeleteManifest removes the triples one by one.
DeleteRow(t) ==
  /\ t \in rows
  /\ rows' = rows \ {t} /\ active' = active \ {t}
  /\ UNCHANGED <<added, pc, cmd, tagIDs, ids, entries, given>>
-----------------------------------------------------------------------------
\* Fault: is_active is set whatever the value asked for.
AssignTrue(ts, value) == active' = active \cup (ts \cap rows)

\* Fault: rows that are gone are written back.
AssignGone(ts, value) == active' = IF value THEN active \cup ts ELSE active \ ts

\* UPDATE ... SET is_active = value WHERE id IN ts: rows that are gone are no error.
Assign(ts, value) ==
  active' = IF value THEN active \cup (ts \cap rows) ELSE active \ ts

Goto(c, step) == pc' = [pc EXCEPT ![c] = step]

Return(c) ==
  /\ Goto(c, "idle")
  /\ cmd' = [cmd EXCEPT ![c] = Idle]
  /\ tagIDs' = [tagIDs EXCEPT ![c] = <<>>]
  /\ ids' = [ids EXCEPT ![c] = {}]

Begin(c) ==
  /\ pc[c] = "idle" /\ given < MaxCommands
  /\ given' = given + 1
  /\ \E x \in Commands :
       /\ cmd' = [cmd EXCEPT ![c] = x]
       /\ Goto(c, IF x.from = "cli" THEN "keys" ELSE "query")
  /\ UNCHANGED <<added, rows, active, tagIDs, ids, entries>>

\* A statement fails, or the process dies: what has been updated stays so.
Fail(c) ==
  /\ pc[c] # "idle"
  /\ Return(c)
  /\ UNCHANGED <<added, rows, active, entries, given>>

SetKeys(c) ==
  /\ pc[c] = "keys"
  /\ Assign(OfKind(cmd[c].keys, "key"), cmd[c].value)
  /\ Goto(c, "values")
  /\ UNCHANGED <<added, rows, cmd, tagIDs, ids, entries, given>>

SetValues(c) ==
  /\ pc[c] = "values"
  /\ Assign(OfKind(cmd[c].values, "value"), cmd[c].value)
  /\ Goto(c, "resolve")
  /\ UNCHANGED <<added, rows, cmd, tagIDs, ids, entries, given>>

\* One name of --module-tag or --manifest is looked up: a tag that is not in the
\* store is passed over without an error.  The row of a tag that is being deleted
\* goes some time after its last triple.
ResolveTag(c) ==
  LET tag == Head(cmd[c].tags)
  IN /\ pc[c] = "resolve" /\ cmd[c].tags # <<>>
     /\ \/ tag \in added /\ tagIDs' = [tagIDs EXCEPT ![c] = Append(@, tag)]
        \/ {t \in rows : TagOf[t] = tag} = {} /\ UNCHANGED tagIDs
     /\ cmd' = [cmd EXCEPT ![c].tags = Tail(@)]
     /\ UNCHANGED <<added, rows, active, pc, ids, entries, given>>

Resolved(c) ==
  /\ pc[c] = "resolve" /\ cmd[c].tags = <<>>
  /\ Goto(c, "tags")
  /\ UNCHANGED <<added, rows, active, cmd, tagIDs, ids, entries, given>>
-----------------------------------------------------------------------------
(* moduleTagsSetActive *)

TagTriples(c, kind) == {t \in OfKind(rows, kind) : TagOf[t] = Head(tagIDs[c])}

Done(c) ==
  /\ pc[c] = "tags" /\ tagIDs[c] = <<>>
  /\ Return(c)
  /\ UNCHANGED <<added, rows, active, entries, given>>

ScanKeyTriples(c) ==
  /\ pc[c] = "tags" /\ tagIDs[c] # <<>>
  /\ ids' = [ids EXCEPT ![c] = TagTriples(c, "key")]
  /\ Goto(c, IF TagTriples(c, "key") = {} THEN "noKeys" ELSE "tagKeys")
  /\ UNCHANGED <<added, rows, active, cmd, tagIDs, entries, given>>

\* Fault: the key triples of a tag are found and then left alone.
SkipTagKeys(c) ==
  /\ pc[c] = "tagKeys"
  /\ Goto(c, "tagValues")
  /\ UNCHANGED <<added, rows, active, cmd, tagIDs, ids, entries, given>>

\* keyTriplesSetActive(store, keyTripleIDs, true)
SetTagKeys(c) ==
  /\ pc[c] = "tagKeys"
  /\ Assign(ids[c], TRUE)
  /\ Goto(c, "tagValues")
  /\ UNCHANGED <<added, rows, cmd, tagIDs, ids, entries, given>>

\* The command ends in an error of its own: the query names value_triples.module_id,
\* which no longer exists once 0003_rev10 has renamed it, or the tag turns out to
\* have triples of neither kind.
Refuse(c) ==
  /\ \/ pc[c] \in {"noKeys", "tagValues"} /\ OwnerColumn
     \/ pc[c] = "noKeys" /\ TagTriples(c, "value") = {}
  /\ Return(c)
  /\ UNCHANGED <<added, rows, active, entries, given>>

ScanValueTriples(c) ==
  /\ pc[c] \in {"noKeys", "tagValues"} /\ ~OwnerColumn
  /\ pc[c] = "noKeys" => TagTriples(c, "value") # {}
  /\ ids' = [ids EXCEPT ![c] = TagTriples(c, "value")]
  /\ Goto(c, "setTagValues")
  /\ UNCHANGED <<added, rows, active, cmd, tagIDs, entries, given>>

\* valueTriplesSetActive(store, valueTripleIDs, true), and on to the next tag
SetTagValues(c) ==
  /\ pc[c] = "setTagValues"
  /\ Assign(ids[c], TRUE)
  /\ tagIDs' = [tagIDs EXCEPT ![c] = Tail(@)]
  /\ Goto(c, "tags")
  /\ UNCHANGED <<added, rows, cmd, ids, entries, given>>
-----------------------------------------------------------------------------
(* SetKeyTriplesActive and the five methods like it *)

Entry(t) == [id |-> t, wasActive |-> t \in active]

\* A query without a match is an error (Fail).
QueryEntries(c) ==
  LET match == OfKind(cmd[c].query \cap rows, cmd[c].kind)
  IN /\ pc[c] = "query"
     /\ match # {}
     /\ ids' = [ids EXCEPT ![c] = match]
     /\ entries' = [entries EXCEPT ![c] = {Entry(t) : t \in match}]
     /\ Goto(c, "update")
     /\ UNCHANGED <<added, rows, active, cmd, tagIDs, given>>

Update(c) ==
  /\ pc[c] = "update"
  /\ Assign(ids[c], cmd[c].value)
  /\ Return(c)
  /\ UNCHANGED <<added, rows, entries, given>>

Next ==
  \/ \E tag \in Tags, activate \in BOOLEAN : Add(tag, activate)
  \/ \E t \in Triples : DeleteRow(t)
  \/ \E c \in Clients :
       \/ Begin(c) \/ SetKeys(c) \/ SetValues(c) \/ ResolveTag(c) \/ Resolved(c) \/ Done(c)
       \/ ScanKeyTriples(c) \/ SetTagKeys(c) \/ Refuse(c) \/ ScanValueTriples(c)
       \/ SetTagValues(c) \/ QueryEntries(c) \/ Update(c) \/ Fail(c)

Spec == Init /\ [][Next]_vars
-----------------------------------------------------------------------------
(* Properties *)

TypeOK ==
  /\ added \subseteq Tags
  /\ active \subseteq rows /\ rows \subseteq {t \in Triples : TagOf[t] \in added}
  /\ pc \in [Clients -> {"idle", "keys", "values", "resolve", "tags", "noKeys", "tagKeys", "tagValues",
                         "setTagValues", "query", "update"}]
  /\ \A c \in Clients :
       /\ (pc[c] = "idle") = (cmd[c] = Idle)
       /\ tagIDs[c] \in Seq(added) /\ ids[c] \subseteq Triples
       /\ entries[c] \subseteq [id : Triples, wasActive : BOOLEAN]
  /\ given \in 0..MaxCommands

\* Triples become available to the verifier by an activation and unavailable by
\* a deactivation (lifecycle.go:14-32, README.md:222-226): a step of a command
\* never changes a triple to what the command did not ask for.
ChangesAsAsked ==
  [][\A c \in Clients : pc'[c] # pc[c] /\ pc[c] # "idle" =>
       /\ (active' \ active) # {} => cmd[c].value
       /\ (active \ active') # {} => ~cmd[c].value]_vars

\* A call touches the triples it was asked for and no others, in spite of what
\* is added and removed between its query and its update.
OnlyTargetsChange ==
  [][\A c \in Clients : pc'[c] # pc[c] /\ pc[c] # "idle" =>
       \A t \in (active \ active') \cup (active' \ active) :
         IF cmd[c].from = "api" THEN t \in cmd[c].query /\ KindOf[t] = cmd[c].kind
         ELSE \/ t \in cmd[c].keys \cup cmd[c].values
              \/ tagIDs[c] # <<>> /\ TagOf[t] = Head(tagIDs[c])]_vars

\* A command that is through with a module tag, or gives it up although no
\* statement has failed, has made all its key and value triples available, or all
\* unavailable, as it was asked to (lifecycle.go:16, 26).
TagsEndAsAsked ==
  [][\A c \in Clients : SetTagValues(c) \/ Refuse(c) =>
       \A t \in OfKind(rows, "key") \cup OfKind(rows, "value") :
         TagOf[t] = Head(tagIDs[c]) => (t \in active') = cmd[c].value]_vars

\* A command that names module tags sets all their key triples, then all their
\* value triples: none that is there is left as it was, and a tag is done with
\* its key triples before its value triples are looked up.
TagsAreWhole ==
  [][\A c \in Clients :
       LET kind == IF pc[c] = "tagKeys" THEN "key" ELSE "value"
       IN <<pc[c], pc'[c]>> \in {<<"tagKeys", "tagValues">>, <<"setTagValues", "tags">>} =>
            \A t \in OfKind(rows, kind) :
              TagOf[t] = Head(tagIDs[c]) => (t \in active') = cmd[c].value]_vars
=============================================================================
