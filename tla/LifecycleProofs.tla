-------------------------- MODULE LifecycleProofs --------------------------
(* What activation changes, for any number of clients, triples, tags and    *)
(* commands, on either schema.                                              *)
EXTENDS Lifecycle, TLAPS

Steps == {"idle", "keys", "values", "resolve", "tags", "noKeys", "tagKeys", "tagValues",
          "setTagValues", "query", "update"}
CliSteps == {"keys", "values", "resolve", "tags", "noKeys", "tagKeys", "tagValues",
             "setTagValues"}

\* A command of the CLI, whatever is left of its tags.
Cli(x) ==
  x = [from |-> "cli", value |-> x.value, keys |-> x.keys, values |-> x.values, tags |-> x.tags]

KindAt(step) == IF step = "tagKeys" THEN "key" ELSE "value"

\* What a client has found belongs to what it was asked for, and is all of it:
\* the IDs of a tag's triples stay complete, because a tag is only added once and
\* only what is added is looked up.
ClientInv(c) ==
  /\ (pc[c] = "idle") = (cmd[c] = Idle)
  /\ pc[c] \in CliSteps => Cli(cmd[c]) /\ cmd[c].value \in BOOLEAN
  /\ pc[c] \in {"query", "update"} => cmd[c] \in ApiCall
  /\ pc[c] \in {"noKeys", "tagKeys", "tagValues", "setTagValues"} => tagIDs[c] # <<>>
  /\ pc[c] \in {"tagKeys", "setTagValues"} =>
       /\ \A t \in ids[c] : TagOf[t] = Head(tagIDs[c])
       /\ \A t \in OfKind(rows, KindAt(pc[c])) : TagOf[t] = Head(tagIDs[c]) => t \in ids[c]
  /\ pc[c] \in {"idle", "query", "update"} => tagIDs[c] = <<>>
  /\ tagIDs[c] \in Seq(added)
  /\ pc[c] = "update" => \A t \in ids[c] : t \in cmd[c].query /\ KindOf[t] = cmd[c].kind
  /\ ids[c] \subseteq Triples
  /\ entries[c] \subseteq [id : Triples, wasActive : BOOLEAN]

LifeInv ==
  /\ added \subseteq Tags
  /\ active \subseteq rows /\ rows \subseteq {t \in Triples : TagOf[t] \in added}
  /\ pc \in [Clients -> Steps]
  /\ DOMAIN cmd = Clients /\ DOMAIN tagIDs = Clients
  /\ DOMAIN ids = Clients /\ DOMAIN entries = Clients
  /\ \A c \in Clients : ClientInv(c)
  /\ given \in 0..MaxCommands

\* No statement of a client adds rows.
RowsStay == UNCHANGED <<added, rows>>

\* A step of c that leaves the other clients' variables alone.
Others(c) ==
  \A d \in Clients \ {c} :
    /\ pc'[d] = pc[d] /\ cmd'[d] = cmd[d] /\ tagIDs'[d] = tagIDs[d]
    /\ ids'[d] = ids[d] /\ entries'[d] = entries[d]

LEMMA ClientKeeps ==
  ASSUME LifeInv, NEW c \in Clients, RowsStay, Others(c), ClientInv(c)', active' \subseteq rows,
         pc' \in [Clients -> Steps], DOMAIN cmd' = Clients,
         DOMAIN tagIDs' = Clients, DOMAIN ids' = Clients, DOMAIN entries' = Clients, given' \in 0..MaxCommands
  PROVE  LifeInv'
<1>1. ASSUME NEW d \in Clients \ {c} PROVE ClientInv(d)'
  BY <1>1 DEF LifeInv, Others, ClientInv, RowsStay, OfKind, KindAt, CliSteps
<1> QED BY <1>1 DEF LifeInv, RowsStay

LEMMA AssignKeeps ==
  ASSUME LifeInv, NEW ts, NEW value \in BOOLEAN, Assign(ts, value)
  PROVE  active' \subseteq rows
BY DEF Assign, LifeInv

LEMMA ReturnKeeps ==
  ASSUME LifeInv, NEW c \in Clients, Return(c), RowsStay, active' \subseteq rows,
         UNCHANGED <<entries, given>>
  PROVE  LifeInv'
<1>1. /\ pc' = [pc EXCEPT ![c] = "idle"] /\ cmd' = [cmd EXCEPT ![c] = Idle]
      /\ tagIDs' = [tagIDs EXCEPT ![c] = <<>>] /\ ids' = [ids EXCEPT ![c] = {}]
  BY DEF Return, Goto
<1>2. /\ pc' \in [Clients -> Steps] /\ DOMAIN cmd' = Clients /\ DOMAIN tagIDs' = Clients
      /\ DOMAIN ids' = Clients /\ DOMAIN entries' = Clients /\ Others(c) /\ given' \in 0..MaxCommands
  BY <1>1 DEF LifeInv, Steps, Others
<1>3. ClientInv(c)'
  BY <1>1 DEF ClientInv, LifeInv, CliSteps
<1> QED BY <1>2, <1>3, ClientKeeps

LEMMA LifeInit == Init => LifeInv
BY LifecycleAssumption DEF Init, LifeInv, ClientInv, Steps, CliSteps

\* A row that appears belongs to a tag nobody has found anything of.
LEMMA AddKeeps ==
  ASSUME LifeInv, NEW tag \in Tags, NEW activate \in BOOLEAN, Add(tag, activate)
  PROVE  LifeInv'
<1>1. ASSUME NEW c \in Clients PROVE ClientInv(c)'
  <2>1. tagIDs[c] \in Seq(added) /\ added' = added \cup {tag} /\ tag \notin added
    BY DEF LifeInv, ClientInv, Add
  <2>2. tagIDs[c] \in Seq(added') /\ (tagIDs[c] # <<>> => Head(tagIDs[c]) \in added)
    BY <2>1
  <2> QED BY <2>1, <2>2, LifecycleAssumption
          DEF LifeInv, ClientInv, Add, OfKind, KindAt, CliSteps
<1> QED BY <1>1 DEF LifeInv, Add

LEMMA DeleteKeeps ==
  ASSUME LifeInv, NEW t \in Triples, DeleteRow(t)
  PROVE  LifeInv'
<1>1. ASSUME NEW c \in Clients PROVE ClientInv(c)'
  BY <1>1 DEF LifeInv, ClientInv, DeleteRow, OfKind, KindAt, CliSteps
<1> QED BY <1>1 DEF LifeInv, DeleteRow

\* The steps that go on to another statement.
LEMMA BeginKeeps ==
  ASSUME LifeInv, NEW c \in Clients, Begin(c) PROVE LifeInv'
<1>1. PICK x \in Commands :
         /\ cmd' = [cmd EXCEPT ![c] = x]
         /\ Goto(c, IF x.from = "cli" THEN "keys" ELSE "query")
  BY DEF Begin
<1>2. \/ x \in CliCommand /\ Cli(x) /\ x.value \in BOOLEAN /\ x.from = "cli"
      \/ x \in ApiCall /\ x.from = "api"
  BY LifecycleAssumption DEF CliCommand, ApiCall, Cli
<1>3. x # Idle
  BY <1>2 DEF Idle
<1>4. RowsStay /\ UNCHANGED <<active, tagIDs, ids, entries>> /\ given' = given + 1 /\ given < MaxCommands
  BY DEF Begin, RowsStay
<1>5. given' \in 0..MaxCommands
  BY <1>4, LifecycleAssumption DEF LifeInv
<1>6. ClientInv(c)'
  <2>0. /\ tagIDs'[c] = <<>> /\ tagIDs'[c] \in Seq(added') /\ cmd'[c] = x
        /\ ids'[c] \subseteq Triples /\ entries'[c] \subseteq [id : Triples, wasActive : BOOLEAN]
    BY <1>1, <1>4 DEF Begin, LifeInv, ClientInv, RowsStay
  <2>1. CASE x.from = "cli"
    <3>1. pc'[c] = "keys"
      BY <1>1, <2>1 DEF LifeInv, Goto
    <3> QED BY <1>2, <1>3, <2>0, <2>1, <3>1 DEF ClientInv, CliSteps, ApiCall
  <2>2. CASE x.from # "cli"
    <3>1. pc'[c] = "query"
      BY <1>1, <2>2 DEF LifeInv, Goto
    <3> QED BY <1>2, <1>3, <2>0, <2>2, <3>1 DEF ClientInv, CliSteps
  <2> QED BY <2>1, <2>2
<1>7. pc' \in [Clients -> Steps] /\ Others(c) /\ DOMAIN cmd' = Clients /\ active' \subseteq rows
  BY <1>1, <1>4 DEF LifeInv, Goto, Steps, Others
<1> QED BY <1>4, <1>5, <1>6, <1>7, ClientKeeps DEF LifeInv

LEMMA IdKeeps ==
  ASSUME LifeInv, NEW c \in Clients, SetKeys(c) \/ SetValues(c) PROVE LifeInv'
<1>1. pc[c] \in {"keys", "values"} /\ UNCHANGED <<added, rows, cmd, tagIDs, ids, entries, given>>
  BY DEF SetKeys, SetValues
<1>2. PICK l \in {"values", "resolve"} : pc' = [pc EXCEPT ![c] = l]
  BY DEF SetKeys, SetValues, Goto
<1>3. active' \subseteq rows
  <2>1. cmd[c].value \in BOOLEAN
    BY <1>1 DEF LifeInv, ClientInv, CliSteps
  <2> QED BY <2>1, AssignKeeps DEF SetKeys, SetValues
<1>4. ClientInv(c)' /\ Others(c) /\ pc' \in [Clients -> Steps]
  BY <1>1, <1>2 DEF LifeInv, ClientInv, Others, Steps, CliSteps
<1> QED BY <1>1, <1>3, <1>4, ClientKeeps DEF RowsStay, LifeInv

LEMMA ResolveKeeps ==
  ASSUME LifeInv, NEW c \in Clients, ResolveTag(c) PROVE LifeInv'
<1>1. /\ pc[c] = "resolve" /\ cmd' = [cmd EXCEPT ![c].tags = Tail(@)]
      /\ UNCHANGED <<added, rows, active, pc, ids, entries, given>>
      /\ \/ tagIDs' = tagIDs
         \/ \E tag \in added : tagIDs' = [tagIDs EXCEPT ![c] = Append(@, tag)]
  BY DEF ResolveTag
<1>2. PICK ts : cmd' = [cmd EXCEPT ![c].tags = ts]
  BY <1>1
<1>3. Cli(cmd[c]) /\ cmd[c].value \in BOOLEAN /\ tagIDs[c] \in Seq(added)
  BY <1>1 DEF LifeInv, ClientInv, CliSteps
<1>4. Cli(cmd'[c]) /\ cmd'[c].value = cmd[c].value /\ cmd'[c] # Idle
  BY <1>2, <1>3 DEF Cli, LifeInv, Idle
<1>5. tagIDs'[c] \in Seq(added) /\ DOMAIN tagIDs' = Clients
  BY <1>1, <1>3 DEF LifeInv
<1>6. ClientInv(c)' /\ Others(c) /\ pc' \in [Clients -> Steps] /\ DOMAIN cmd' = Clients
  BY <1>1, <1>2, <1>3, <1>4, <1>5 DEF LifeInv, ClientInv, Others, Steps, CliSteps
<1> QED BY <1>1, <1>5, <1>6, ClientKeeps DEF RowsStay, LifeInv

LEMMA ResolvedKeeps ==
  ASSUME LifeInv, NEW c \in Clients, Resolved(c) PROVE LifeInv'
<1>1. pc[c] = "resolve" /\ pc' = [pc EXCEPT ![c] = "tags"]
      /\ UNCHANGED <<added, rows, active, cmd, tagIDs, ids, entries, given>>
  BY DEF Resolved, Goto
<1>2. ClientInv(c)' /\ Others(c) /\ pc' \in [Clients -> Steps]
  BY <1>1 DEF LifeInv, ClientInv, Others, Steps, CliSteps
<1> QED BY <1>1, <1>2, ClientKeeps DEF RowsStay, LifeInv

\* The triples of the first tag are looked up.
LEMMA ScanKeeps ==
  ASSUME LifeInv, NEW c \in Clients, ScanKeyTriples(c) \/ ScanValueTriples(c) PROVE LifeInv'
<1>1. pc[c] \in {"tags", "noKeys", "tagValues"} /\ tagIDs[c] # <<>>
      /\ UNCHANGED <<added, rows, active, cmd, tagIDs, entries, given>>
  BY DEF ScanKeyTriples, ScanValueTriples, LifeInv, ClientInv
<1>2. PICK kind \in {"key", "value"} :
         /\ ids' = [ids EXCEPT ![c] = TagTriples(c, kind)]
         /\ \/ kind = "key" /\ TagTriples(c, kind) = {} /\ pc' = [pc EXCEPT ![c] = "noKeys"]
            \/ kind = "key" /\ TagTriples(c, kind) # {} /\ pc' = [pc EXCEPT ![c] = "tagKeys"]
            \/ kind = "value" /\ pc' = [pc EXCEPT ![c] = "setTagValues"]
  BY DEF ScanKeyTriples, ScanValueTriples, Goto
<1>3. \A t \in TagTriples(c, kind) :
        t \in Triples /\ TagOf[t] = Head(tagIDs[c])
  BY DEF TagTriples, OfKind, LifeInv
<1>4. \A t \in OfKind(rows, kind) : TagOf[t] = Head(tagIDs[c]) => t \in TagTriples(c, kind)
  BY DEF TagTriples
<1>5. /\ ids'[c] = TagTriples(c, kind) /\ cmd'[c] = cmd[c] /\ entries'[c] = entries[c]
      /\ tagIDs'[c] = tagIDs[c]
      /\ pc'[c] \in {"noKeys", "tagKeys", "setTagValues"}
      /\ pc'[c] = "tagKeys" => kind = "key"
      /\ pc'[c] = "setTagValues" => kind = "value"
  BY <1>1, <1>2 DEF LifeInv
<1>6. ClientInv(c)'
  BY <1>1, <1>3, <1>4, <1>5 DEF LifeInv, ClientInv, KindAt, CliSteps, OfKind
<1>7. Others(c) /\ pc' \in [Clients -> Steps] /\ DOMAIN ids' = Clients
  BY <1>1, <1>2 DEF LifeInv, Others, Steps
<1> QED BY <1>1, <1>6, <1>7, ClientKeeps DEF RowsStay, LifeInv

LEMMA TagKeysKeep ==
  ASSUME LifeInv, NEW c \in Clients, SetTagKeys(c) PROVE LifeInv'
<1>1. pc[c] = "tagKeys" /\ pc' = [pc EXCEPT ![c] = "tagValues"]
      /\ UNCHANGED <<added, rows, cmd, tagIDs, ids, entries, given>>
  BY DEF SetTagKeys, Goto
<1>2. active' \subseteq rows
  BY AssignKeeps DEF SetTagKeys
<1>3. ClientInv(c)' /\ Others(c) /\ pc' \in [Clients -> Steps]
  BY <1>1 DEF LifeInv, ClientInv, Others, Steps, CliSteps
<1> QED BY <1>1, <1>2, <1>3, ClientKeeps DEF RowsStay, LifeInv

LEMMA TagValuesKeep ==
  ASSUME LifeInv, NEW c \in Clients, SetTagValues(c) PROVE LifeInv'
<1>1. pc[c] = "setTagValues" /\ pc' = [pc EXCEPT ![c] = "tags"]
      /\ tagIDs' = [tagIDs EXCEPT ![c] = Tail(@)]
      /\ UNCHANGED <<added, rows, cmd, ids, entries, given>>
  BY DEF SetTagValues, Goto
<1>2. active' \subseteq rows
  BY AssignKeeps DEF SetTagValues
<1>3. tagIDs[c] \in Seq(added) /\ tagIDs[c] # <<>>
  BY <1>1 DEF LifeInv, ClientInv
<1>4. tagIDs'[c] \in Seq(added) /\ DOMAIN tagIDs' = Clients
  BY <1>1, <1>3 DEF LifeInv
<1>5. ClientInv(c)' /\ Others(c) /\ pc' \in [Clients -> Steps]
  BY <1>1, <1>4 DEF LifeInv, ClientInv, Others, Steps, CliSteps
<1> QED BY <1>1, <1>2, <1>4, <1>5, ClientKeeps DEF RowsStay, LifeInv

LEMMA QueryKeeps ==
  ASSUME LifeInv, NEW c \in Clients, QueryEntries(c) PROVE LifeInv'
<1> DEFINE match == OfKind(cmd[c].query \cap rows, cmd[c].kind)
<1>1. /\ pc[c] = "query" /\ ids' = [ids EXCEPT ![c] = match]
      /\ entries' = [entries EXCEPT ![c] = {Entry(t) : t \in match}]
      /\ pc' = [pc EXCEPT ![c] = "update"] /\ UNCHANGED <<added, rows, active, cmd, tagIDs, given>>
  BY DEF QueryEntries, Goto
<1>2. \A t \in match : t \in cmd[c].query /\ KindOf[t] = cmd[c].kind /\ t \in Triples
  BY DEF OfKind, LifeInv
<1>3. {Entry(t) : t \in match} \subseteq [id : Triples, wasActive : BOOLEAN]
  <2>1. \A t \in match : Entry(t) \in [id : Triples, wasActive : BOOLEAN]
    <3>1. \A t : (t \in active) \in BOOLEAN
      OBVIOUS
    <3> QED BY <1>2, <3>1, Zenon DEF Entry
  <2> QED BY <2>1
<1>4. ClientInv(c)'
  <2>1. /\ ids'[c] = match /\ entries'[c] = {Entry(t) : t \in match}
        /\ pc'[c] = "update" /\ cmd'[c] = cmd[c]
    BY <1>1 DEF LifeInv
  <2> HIDE DEF match
  <2> QED BY <1>1, <1>2, <1>3, <2>1 DEF LifeInv, ClientInv, CliSteps
<1>5. Others(c) /\ pc' \in [Clients -> Steps] /\ DOMAIN ids' = Clients /\ DOMAIN entries' = Clients
  BY <1>1 DEF LifeInv, Others, Steps
<1> QED BY <1>1, <1>4, <1>5, ClientKeeps DEF RowsStay, LifeInv

LEMMA EndKeeps ==
  ASSUME LifeInv, NEW c \in Clients, Fail(c) \/ Done(c) \/ Refuse(c) \/ Update(c) PROVE LifeInv'
<1>1. Return(c) /\ RowsStay /\ UNCHANGED <<entries, given>>
  BY DEF Fail, Done, Refuse, Update, RowsStay
<1>2. active' \subseteq rows
  <2>1. CASE Update(c)
    <3>1. cmd[c].value \in BOOLEAN
      BY <2>1 DEF Update, LifeInv, ClientInv, ApiCall
    <3> QED BY <2>1, <3>1, AssignKeeps DEF Update
  <2>2. CASE Fail(c) \/ Done(c) \/ Refuse(c)
    BY <2>2 DEF Fail, Done, Refuse, LifeInv
  <2> QED BY <2>1, <2>2
<1> QED BY <1>1, <1>2, ReturnKeeps

LEMMA LifeStep == LifeInv /\ [Next]_vars => LifeInv'
<1> SUFFICES ASSUME LifeInv, [Next]_vars PROVE LifeInv'
  OBVIOUS
<1>1. CASE UNCHANGED vars
  BY <1>1 DEF vars, LifeInv, ClientInv, OfKind
<1> QED
  BY <1>1, AddKeeps, DeleteKeeps, BeginKeeps, IdKeeps, ResolveKeeps, ResolvedKeeps, ScanKeeps, TagKeysKeep,
     TagValuesKeep, QueryKeeps, EndKeeps DEF Next

\* The types, for every set of clients, triples and commands; the strengthening
\* says of every client what it has found and for whom.
THEOREM TypeCorrect == Spec => []TypeOK
<1>1. LifeInv => TypeOK
  BY DEF LifeInv, ClientInv, TypeOK, Steps
<1> QED BY <1>1, LifeInit, LifeStep, PTL DEF Spec
-----------------------------------------------------------------------------
(* What a step changes *)

LEMMA AssignChanges ==
  ASSUME NEW ts, NEW value \in BOOLEAN, Assign(ts, value)
  PROVE  /\ \A t \in active' \ active : t \in ts /\ value
         /\ \A t \in active \ active' : t \in ts /\ ~value
BY DEF Assign

\* The statements of a client that write is_active.
Writes(c) == SetKeys(c) \/ SetValues(c) \/ SetTagKeys(c) \/ SetTagValues(c) \/ Update(c)

LEMMA MoverOf ==
  ASSUME LifeInv, NEW c \in Clients, Next, pc'[c] # pc[c]
  PROVE  \/ Begin(c) \/ Fail(c) \/ SetKeys(c) \/ SetValues(c) \/ ResolveTag(c) \/ Resolved(c)
         \/ Done(c)
         \/ ScanKeyTriples(c) \/ SetTagKeys(c) \/ Refuse(c) \/ ScanValueTriples(c)
         \/ SetTagValues(c) \/ QueryEntries(c) \/ Update(c)
<1>1. PICK d \in Clients :
         \/ Begin(d) \/ Fail(d) \/ SetKeys(d) \/ SetValues(d) \/ ResolveTag(d) \/ Resolved(d)
         \/ Done(d)
         \/ ScanKeyTriples(d) \/ SetTagKeys(d) \/ Refuse(d) \/ ScanValueTriples(d)
         \/ SetTagValues(d) \/ QueryEntries(d) \/ Update(d)
  <2>1. ~\E tag \in Tags, activate \in BOOLEAN : Add(tag, activate)
    BY DEF Add
  <2>2. ~\E t \in Triples : DeleteRow(t)
    BY DEF DeleteRow
  <2> QED BY <2>1, <2>2 DEF Next
<1>2. PICK l : pc' = [pc EXCEPT ![d] = l]
  BY <1>1 DEF Begin, Fail, SetKeys, SetValues, ResolveTag, Resolved, Done, ScanKeyTriples, SetTagKeys,
     Refuse, ScanValueTriples, SetTagValues, QueryEntries, Update, Return, Goto
<1>3. d = c
  BY <1>2 DEF LifeInv
<1> QED BY <1>1, <1>3

LEMMA Movers ==
  ASSUME LifeInv, NEW c \in Clients, Next, pc'[c] # pc[c], pc[c] # "idle"
  PROVE  active' = active \/ Writes(c)
BY MoverOf DEF Writes, Begin, Fail, ResolveTag, Resolved, Done, ScanKeyTriples, Refuse,
   ScanValueTriples, QueryEntries

LEMMA Wholes ==
  ASSUME LifeInv, NEW c \in Clients, Next, pc[c] \in {"tagKeys", "setTagValues"},
         pc'[c] \in {"tagValues", "tags"}
  PROVE  SetTagKeys(c) \/ SetTagValues(c)
BY MoverOf DEF Begin, Fail, SetKeys, SetValues, ResolveTag, Resolved, Done, ScanKeyTriples, Refuse,
   ScanValueTriples, QueryEntries, Update, Return, Goto, LifeInv

Target(c, t) ==
  IF cmd[c].from = "api" THEN t \in cmd[c].query /\ KindOf[t] = cmd[c].kind
  ELSE \/ t \in cmd[c].keys \cup cmd[c].values
       \/ tagIDs[c] # <<>> /\ TagOf[t] = Head(tagIDs[c])

LEMMA WritesTargets ==
  ASSUME LifeInv, NEW c \in Clients, Writes(c),
         NEW t \in (active \ active') \cup (active' \ active)
  PROVE  Target(c, t)
<1>1. CASE SetKeys(c) \/ SetValues(c)
  <2>1. pc[c] \in {"keys", "values"} /\ cmd[c].value \in BOOLEAN /\ cmd[c].from = "cli"
    BY <1>1 DEF SetKeys, SetValues, LifeInv, ClientInv, CliSteps, Cli
  <2>2. CASE SetKeys(c)
    <3>1. Assign(OfKind(cmd[c].keys, "key"), cmd[c].value)
      BY <2>2 DEF SetKeys
    <3>2. t \in OfKind(cmd[c].keys, "key")
      BY <2>1, <3>1, AssignChanges
    <3> QED BY <2>1, <3>2 DEF Target, OfKind
  <2>3. CASE SetValues(c)
    <3>1. Assign(OfKind(cmd[c].values, "value"), cmd[c].value)
      BY <2>3 DEF SetValues
    <3>2. t \in OfKind(cmd[c].values, "value")
      BY <2>1, <3>1, AssignChanges
    <3> QED BY <2>1, <3>2 DEF Target, OfKind
  <2> QED BY <1>1, <2>2, <2>3
<1>2. CASE SetTagKeys(c) \/ SetTagValues(c)
  <2>1. pc[c] \in {"tagKeys", "setTagValues"} /\ Assign(ids[c], TRUE)
    BY <1>2 DEF SetTagKeys, SetTagValues
  <2>2. Cli(cmd[c]) /\ tagIDs[c] # <<>> /\ \A u \in ids[c] : TagOf[u] = Head(tagIDs[c])
    BY <2>1 DEF LifeInv, ClientInv, CliSteps
  <2>3. cmd[c].from # "api"
    BY <2>2 DEF Cli
  <2>4. t \in ids[c]
    BY <2>1, AssignChanges
  <2> QED BY <2>2, <2>3, <2>4 DEF Target
<1>3. CASE Update(c)
  <2>1. pc[c] = "update" /\ cmd[c].value \in BOOLEAN /\ cmd[c].from = "api"
    BY <1>3 DEF Update, LifeInv, ClientInv, ApiCall
  <2>2. t \in ids[c]
    BY <1>3, <2>1, AssignChanges DEF Update
  <2> QED BY <2>1, <2>2 DEF Target, LifeInv, ClientInv
<1> QED BY <1>1, <1>2, <1>3 DEF Writes

\* A command changes what it was asked for and nothing else, whatever is added,
\* removed or updated between its statements.
THEOREM TargetsOnly == Spec => OnlyTargetsChange
<1> DEFINE A == \A c \in Clients : pc'[c] # pc[c] /\ pc[c] # "idle" =>
                  \A t \in (active \ active') \cup (active' \ active) :
                    IF cmd[c].from = "api" THEN t \in cmd[c].query /\ KindOf[t] = cmd[c].kind
                    ELSE \/ t \in cmd[c].keys \cup cmd[c].values
                         \/ tagIDs[c] # <<>> /\ TagOf[t] = Head(tagIDs[c])
<1>1. LifeInv /\ Next => A
  BY Movers, WritesTargets DEF Target
<1>2. LifeInv /\ [Next]_vars => [A]_vars
  BY <1>1
<1> QED BY <1>2, LifeInit, LifeStep, PTL DEF Spec, OnlyTargetsChange
-----------------------------------------------------------------------------
(* Commands that deactivate module tags set them active instead (the run   *)
(* lifecycle_tags), so what follows is about stores where none is given.   *)

NoTagDeactivation == \A x \in Commands : x.from = "cli" /\ x.tags # <<>> => x.value

\* Whoever works on module tags activates them.
TagsAreActivated ==
  \A c \in Clients :
    pc[c] \in CliSteps /\ (cmd[c].tags # <<>> \/ tagIDs[c] # <<>>) => cmd[c].value

LEMMA TagsAreActivatedStep ==
  ASSUME NoTagDeactivation, LifeInv, TagsAreActivated, [Next]_vars
  PROVE  TagsAreActivated'
<1> SUFFICES ASSUME NEW c \in Clients, pc'[c] \in CliSteps,
                    cmd'[c].tags # <<>> \/ tagIDs'[c] # <<>>
             PROVE  cmd'[c].value
  BY DEF TagsAreActivated
<1>1. CASE UNCHANGED <<pc, cmd, tagIDs>>
  BY <1>1 DEF TagsAreActivated
<1>2. CASE \E d \in Clients : Begin(d)
  <2>1. PICK d \in Clients : Begin(d)
    BY <1>2
  <2>2. PICK x \in Commands : /\ cmd' = [cmd EXCEPT ![d] = x] /\ tagIDs' = tagIDs
                              /\ Goto(d, IF x.from = "cli" THEN "keys" ELSE "query")
                              /\ pc[d] = "idle"
    BY <2>1 DEF Begin
  <2>3. tagIDs[d] = <<>>
    BY <2>2 DEF LifeInv, ClientInv
  <2>4. CASE c = d
    <3>1. pc'[c] = (IF x.from = "cli" THEN "keys" ELSE "query") /\ cmd'[c] = x
      BY <2>2, <2>4 DEF Goto, LifeInv
    <3> QED BY <2>2, <2>3, <2>4, <3>1 DEF NoTagDeactivation, CliSteps
  <2>5. CASE c # d
    BY <2>2, <2>5 DEF Goto, TagsAreActivated, LifeInv
  <2> QED BY <2>4, <2>5
<1>3. CASE \E d \in Clients : ResolveTag(d)
  <2>1. PICK d \in Clients : ResolveTag(d)
    BY <1>3
  <2>2. /\ pc[d] = "resolve" /\ pc' = pc /\ cmd[d].tags # <<>>
        /\ \/ tagIDs' = tagIDs
           \/ tagIDs' = [tagIDs EXCEPT ![d] = Append(@, Head(cmd[d].tags))]
    BY <2>1 DEF ResolveTag
  <2>3. PICK ts : cmd' = [cmd EXCEPT ![d].tags = ts]
    BY <2>1 DEF ResolveTag
  <2>4. Cli(cmd[d])
    BY <2>2 DEF LifeInv, ClientInv, CliSteps
  <2> QED BY <2>2, <2>3, <2>4 DEF TagsAreActivated, LifeInv, CliSteps, Cli
<1>4. CASE \E d \in Clients : SetTagValues(d)
  <2>1. PICK d \in Clients : /\ pc[d] = "setTagValues" /\ pc' = [pc EXCEPT ![d] = "tags"]
                             /\ tagIDs' = [tagIDs EXCEPT ![d] = Tail(@)] /\ cmd' = cmd
    BY <1>4 DEF SetTagValues, Goto
  <2>2. tagIDs[d] # <<>>
    BY <2>1 DEF LifeInv, ClientInv
  <2> QED BY <2>1, <2>2 DEF TagsAreActivated, LifeInv, CliSteps
<1>5. CASE \E d \in Clients : \/ SetKeys(d) \/ SetValues(d) \/ Resolved(d) \/ ScanKeyTriples(d)
                              \/ SetTagKeys(d) \/ ScanValueTriples(d) \/ QueryEntries(d)
  <2>1. PICK d \in Clients : \/ SetKeys(d) \/ SetValues(d) \/ Resolved(d) \/ ScanKeyTriples(d)
                             \/ SetTagKeys(d) \/ ScanValueTriples(d) \/ QueryEntries(d)
    BY <1>5
  <2>2. PICK l : /\ cmd' = cmd /\ tagIDs' = tagIDs /\ pc' = [pc EXCEPT ![d] = l]
                 /\ pc[d] \in CliSteps \/ l = "update"
    BY <2>1 DEF SetKeys, SetValues, Resolved, ScanKeyTriples, SetTagKeys, ScanValueTriples,
       QueryEntries, Goto, CliSteps
  <2> QED BY <2>2 DEF TagsAreActivated, LifeInv, CliSteps
<1>6. CASE \E d \in Clients : Return(d)
  <2>1. PICK d \in Clients : /\ pc' = [pc EXCEPT ![d] = "idle"] /\ cmd' = [cmd EXCEPT ![d] = Idle]
                             /\ tagIDs' = [tagIDs EXCEPT ![d] = <<>>]
    BY <1>6 DEF Return, Goto
  <2> QED BY <2>1 DEF TagsAreActivated, LifeInv, CliSteps
<1> QED
  BY <1>1, <1>2, <1>3, <1>4, <1>5, <1>6
  DEF Next, vars, Add, DeleteRow, Fail, Done, Refuse, Update

LEMMA AsAskedStep ==
  ASSUME LifeInv, TagsAreActivated, NEW c \in Clients, Writes(c)
  PROVE  /\ (active' \ active) # {} => cmd[c].value
         /\ (active \ active') # {} => ~cmd[c].value
<1>1. CASE SetKeys(c) \/ SetValues(c) \/ Update(c)
  <2>1. cmd[c].value \in BOOLEAN
    BY <1>1 DEF SetKeys, SetValues, Update, LifeInv, ClientInv, CliSteps, ApiCall
  <2>2. PICK ts : Assign(ts, cmd[c].value)
    BY <1>1 DEF SetKeys, SetValues, Update
  <2> QED BY <2>1, <2>2, AssignChanges
<1>2. CASE SetTagKeys(c) \/ SetTagValues(c)
  <2>1. cmd[c].value
    BY <1>2 DEF SetTagKeys, SetTagValues, LifeInv, ClientInv, TagsAreActivated, CliSteps
  <2>2. PICK ts : Assign(ts, TRUE)
    BY <1>2 DEF SetTagKeys, SetTagValues
  <2>3. active \ active' = {}
    BY <2>2, AssignChanges
  <2> QED BY <2>1, <2>3
<1> QED BY <1>1, <1>2 DEF Writes

\* A command activates or deactivates, as asked, and never the opposite.
THEOREM AsAsked ==
  ASSUME NoTagDeactivation PROVE Spec => ChangesAsAsked
<1> DEFINE A == \A c \in Clients : pc'[c] # pc[c] /\ pc[c] # "idle" =>
                  /\ (active' \ active) # {} => cmd[c].value
                  /\ (active \ active') # {} => ~cmd[c].value
<1>1. LifeInv /\ TagsAreActivated /\ Next => A
  BY Movers, AsAskedStep
<1>2. LifeInv /\ TagsAreActivated /\ [Next]_vars => [A]_vars
  BY <1>1
<1>3. Init => TagsAreActivated
  BY DEF Init, TagsAreActivated, CliSteps
<1>4. LifeInv /\ TagsAreActivated /\ [Next]_vars => TagsAreActivated'
  BY TagsAreActivatedStep
<1> QED BY <1>2, <1>3, <1>4, LifeInit, LifeStep, PTL DEF Spec, ChangesAsAsked

\* When the step that sets the triples of a tag is over, every triple of that kind
\* the tag has is as the command asks, those deleted since they were looked up aside.
THEOREM WholeTags ==
  ASSUME NoTagDeactivation PROVE Spec => TagsAreWhole
<1> DEFINE kind(c) == IF pc[c] = "tagKeys" THEN "key" ELSE "value"
<1> DEFINE A == \A c \in Clients :
       LET k == IF pc[c] = "tagKeys" THEN "key" ELSE "value"
       IN <<pc[c], pc'[c]>> \in {<<"tagKeys", "tagValues">>, <<"setTagValues", "tags">>} =>
            \A t \in OfKind(rows, k) :
              TagOf[t] = Head(tagIDs[c]) => (t \in active') = cmd[c].value
<1>1. ASSUME LifeInv, TagsAreActivated, Next PROVE A
  <2> SUFFICES ASSUME NEW c \in Clients,
                      <<pc[c], pc'[c]>> \in {<<"tagKeys", "tagValues">>, <<"setTagValues", "tags">>},
                      NEW t \in OfKind(rows, kind(c)), TagOf[t] = Head(tagIDs[c])
               PROVE  (t \in active') = cmd[c].value
    OBVIOUS
  <2>1. pc[c] \in {"tagKeys", "setTagValues"} /\ pc'[c] \in {"tagValues", "tags"}
    OBVIOUS
  <2>2. SetTagKeys(c) \/ SetTagValues(c)
    BY <1>1, <2>1, Wholes
  <2>3. t \in ids[c] /\ t \in rows /\ cmd[c].value = TRUE
    BY <1>1, <2>1 DEF LifeInv, ClientInv, KindAt, TagsAreActivated, CliSteps, OfKind
  <2>4. t \in active'
    BY <2>2, <2>3 DEF SetTagKeys, SetTagValues, Assign
  <2> QED BY <2>3, <2>4
<1>2. LifeInv /\ TagsAreActivated /\ [Next]_vars => [A]_vars
  BY <1>1
<1>3. Init => TagsAreActivated
  BY DEF Init, TagsAreActivated, CliSteps
<1>4. LifeInv /\ TagsAreActivated /\ [Next]_vars => TagsAreActivated'
  BY TagsAreActivatedStep
<1> QED BY <1>2, <1>3, <1>4, LifeInit, LifeStep, PTL DEF Spec, TagsAreWhole
=============================================================================
