------------------------- MODULE MigrationSteps -------------------------
(***************************************************************************)
(* The four migrations of pkg/migrations as sequences of statements, up and*)
(* down, and what a statement does to the schema and to the rows.  A schema*)
(* is the set of its columns, pairs of a table and a name, of which every  *)
(* table has "id" and otherwise those that a migration changes, and the    *)
(* views with the columns each reads.  A row has an owner, the type of the *)
(* owner and one value.                                                    *)
(***************************************************************************)
EXTENDS Integers, Sequences, SequencesExt

None == "none"  \* NULL, or a column that the schema does not have

Row(tbl, id, own, typ, val) == [tbl |-> tbl, id |-> id, own |-> own, typ |-> typ, val |-> val]

EmptySchema == [columns |-> {}, views |-> {}]
HasTable(s, t) == <<t, "id">> \in s.columns
TableColumns(s, t) == {c \in s.columns : c[1] = t}
View(name, needs) == [name |-> name, needs |-> needs]
-----------------------------------------------------------------------------
(* Statements.  Of the databases supported PostgreSQL is the strictest:    *)
(* what a view reads cannot be dropped, and a view follows a column that is *)
(* renamed.  "tx" stands for all statements of an ExecTx.                   *)

Create(t, cols) == [do |-> "create", table |-> t, cols |-> cols]
DropTable(t) == [do |-> "drop", table |-> t]
AddColumn(t, c) == [do |-> "add column", column |-> <<t, c>>]
DropColumn(t, c) == [do |-> "drop column", column |-> <<t, c>>]
Rename(t, c, d) == [do |-> "rename", column |-> <<t, c>>, to |-> <<t, d>>]
CreateView(v) == [do |-> "create views", views |-> {v}]
DropView(name) == [do |-> "drop views", names |-> {name}]
Data(name, needs) == [do |-> "data", name |-> name, needs |-> needs]
Truncate(t) == [do |-> "truncate", table |-> t]

\* Whether the DBMS accepts the statement.
Accepts(st, s) ==
  \/ st.do = "create"
  \/ /\ st.do = "drop"
     /\ \A v \in s.views : v.needs \cap TableColumns(s, st.table) = {}
  \/ /\ st.do = "add column"
     /\ HasTable(s, st.column[1]) /\ st.column \notin s.columns
  \/ /\ st.do = "drop column"
     /\ st.column \in s.columns /\ \A v \in s.views : st.column \notin v.needs
  \/ /\ st.do = "rename"
     /\ st.column \in s.columns /\ st.to \notin s.columns
  \/ /\ st.do = "create views"
     /\ \A v \in st.views : v.needs \subseteq s.columns /\ \A w \in s.views : w.name # v.name
  \/ st.do = "drop views" /\ st.names \subseteq {v.name : v \in s.views}
  \/ st.do = "data" /\ st.needs \subseteq s.columns
  \/ st.do = "truncate" /\ HasTable(s, st.table)

RenamedIn(cols, a, b) == {IF c = a THEN b ELSE c : c \in cols}

SchemaAfter(st, s) ==
  CASE st.do = "create" ->
         IF HasTable(s, st.table) THEN s
         ELSE [s EXCEPT !.columns = @ \cup ({st.table} \X ({"id"} \cup st.cols))]
    [] st.do = "drop" -> [s EXCEPT !.columns = @ \ TableColumns(s, st.table)]
    [] st.do = "add column" -> [s EXCEPT !.columns = @ \cup {st.column}]
    [] st.do = "drop column" -> [s EXCEPT !.columns = @ \ {st.column}]
    [] st.do = "rename" ->
         [columns |-> RenamedIn(s.columns, st.column, st.to),
          views |-> {[v EXCEPT !.needs = RenamedIn(@, st.column, st.to)] : v \in s.views}]
    [] st.do = "create views" -> [s EXCEPT !.views = @ \cup st.views]
    [] st.do = "drop views" -> [s EXCEPT !.views = {v \in @ : v.name \notin st.names}]
    [] OTHER -> s
-----------------------------------------------------------------------------
(* What the statements do to the rows.                                     *)

RowsOf(rows, t) == {r \in rows : r.tbl = t}

\* UPDATE t SET owner_type = to WHERE owner_type IN from.
UpdateTypes(rows, t, from, to) ==
  {IF r.tbl = t /\ r.typ \in from THEN [r EXCEPT !.typ = to] ELSE r : r \in rows}

\* INSERT INTO hrefs SELECT ... FROM locators: one row each, in any order.
HrefsInserted(rows) ==
  LET last == IF RowsOf(rows, "hrefs") = {} THEN 0
              ELSE CHOOSE n \in {r.id : r \in RowsOf(rows, "hrefs")} :
                     \A r \in RowsOf(rows, "hrefs") : r.id <= n
  IN rows \cup {Row("hrefs", last + l.id, l.id, None, l.val) : l \in RowsOf(rows, "locators")}

\* UPDATE locators SET href = hrefs.value FROM hrefs: one of the hrefs of
\* each locator, whichever the DBMS meets.
HrefChoices(rows) ==
  {f \in [RowsOf(rows, "locators") -> {None} \cup {h.val : h \in RowsOf(rows, "hrefs")}] :
     \A l \in RowsOf(rows, "locators") :
        LET mine == {h.val : h \in {x \in RowsOf(rows, "hrefs") : x.own = l.id}}
        IN IF mine = {} THEN f[l] = l.val ELSE f[l] \in mine}

LocatorsUpdated(rows) ==
  {{IF r.tbl = "locators" THEN [r EXCEPT !.val = f[r]] ELSE r : r \in rows} : f \in HrefChoices(rows)}

DataAfter(name, rows) ==
  CASE name = "insert hrefs" -> {HrefsInserted(rows)}
    [] name = "value triples owned by module tags" ->
         {UpdateTypes(rows, "value_triples", {r.typ : r \in rows}, "module_tag")}
    [] name = "rename authority" ->
         {UpdateTypes(rows, "cryptokeys", {"measurement"}, "measurement_auth")}
    [] name = "delete keys of values" ->
         {rows \ {r \in RowsOf(rows, "cryptokeys") : r.typ = "measurement"}}
    [] name = "restore authority" ->
         {UpdateTypes(rows, "cryptokeys", {"measurement_auth"}, "measurement")}
    [] name = "update locators" -> LocatorsUpdated(rows)
    [] name = "delete values of others" ->
         {rows \ {r \in RowsOf(rows, "value_triples") : r.typ \notin {"module_tag", None}}}

\* The rows there may be after a statement.
RowsAfter(st, rows) ==
  CASE st.do \in {"drop", "truncate"} -> {rows \ RowsOf(rows, st.table)}
    [] st.do = "data" -> DataAfter(st.name, rows)
    [] st.do = "drop column" /\ st.column = <<"locators", "href">> ->
         {{IF r.tbl = "locators" THEN [r EXCEPT !.val = None] ELSE r : r \in rows}}
    [] st.do = "drop column" /\ st.column = <<"value_triples", "owner_type">> ->
         {{IF r.tbl = "value_triples" THEN [r EXCEPT !.typ = None] ELSE r : r \in rows}}
    [] OTHER -> {rows}
-----------------------------------------------------------------------------
(* 0000_initial, 0001_entry_views and 0002_token.                          *)

\* "others" stands for entities, roles, linked_tags, environments, flags, extensions,
\* measurement_value_entries and integrity_registers, of which nothing is told apart.
InitialTables ==
  << <<"manifests", {}>>, <<"locators", {"href"}>>, <<"module_tags", {}>>,
     <<"value_triples", {"module_id"}>>, <<"key_triples", {}>>, <<"cryptokeys", {}>>,
     <<"measurements", {}>>, <<"digests", {"alg_id"}>>, <<"others", {}>> >>

Up0000 == [i \in DOMAIN InitialTables |-> Create(InitialTables[i][1], InitialTables[i][2])]
Down0000 == [i \in DOMAIN InitialTables |-> DropTable(InitialTables[i][1])]

Ids(tables) == {<<t, "id">> : t \in tables}

ManifestView == View("manifest_entries", Ids({"manifests"}))
ModuleTagView == View("module_tag_entries", Ids({"module_tags", "manifests"}))
\* The view of the triples of table t with the further columns cols of t.
TripleView(name, t, cols) ==
  View(name, Ids({t, "module_tags", "manifests"}) \cup ({t} \X cols))

KeyView == TripleView("key_triple_entries", "key_triples", {})
ValueView == TripleView("value_triple_entries", "value_triples", {"module_id"})
FirstViews == {ManifestView, ModuleTagView, KeyView, ValueView}

\* ExecTx: all of them or none.
Up0001 == <<[do |-> "create views", views |-> FirstViews]>>
Down0001 == <<[do |-> "drop views", names |-> {v.name : v \in FirstViews}]>>

Up0002 == <<Create("tokens", {})>>
Down0002 == <<DropTable("tokens")>>
-----------------------------------------------------------------------------
(* 0003_rev10.                                                             *)

\* "domain_entries" stands for conditional_endorsement_series_records too.
NewTables ==
  << "hrefs", "stateful_environments", "conditional_endorsement_triples",
     "conditional_endorsement_series_triples", "domain_entries",
     "domain_dependency_triples", "domain_membership_triples" >>

KeyViewRev10 ==
  TripleView("key_triple_entries", "key_triples", {"cond_key_type", "cond_key_bytes"})
ValueViewRev10 ==
  TripleView("value_triple_entries", "value_triples", {"owner_id", "owner_type"})
NewViews ==
  << TripleView("conditional_endorsement_triple_entries", "conditional_endorsement_triples", {}),
     TripleView("conditional_endorsement_series_triple_entries",
                "conditional_endorsement_series_triples", {}),
     TripleView("domain_dependency_triple_entries", "domain_dependency_triples", {}),
     TripleView("domain_membership_triple_entries", "domain_membership_triples", {}) >>

Up0003 ==
  [i \in DOMAIN NewTables |-> Create(NewTables[i], {})]
  \o << Data("insert hrefs", {<<"hrefs", "id">>, <<"locators", "href">>}),
        DropColumn("locators", "href"),
        Rename("digests", "alg_id", "alg_id_int"),
        AddColumn("digests", "alg_id_text"),
        AddColumn("key_triples", "cond_key_type"),
        AddColumn("key_triples", "cond_key_bytes"),
        DropView(KeyView.name), CreateView(KeyViewRev10),
        AddColumn("value_triples", "owner_type"),
        Data("value triples owned by module tags", {<<"value_triples", "owner_type">>}),
        Rename("value_triples", "module_id", "owner_id"),
        DropView(ValueView.name), CreateView(ValueViewRev10) >>
  \o [i \in DOMAIN NewViews |-> CreateView(NewViews[i])]
  \o << Data("rename authority", Ids({"cryptokeys"})) >>

\* Fault: after the second statement the first does not see what to spare.
KeysBackSwapped ==
  << Data("restore authority", Ids({"cryptokeys"})),
     Data("delete keys of values", Ids({"cryptokeys"})) >>
KeysBack ==
  << Data("delete keys of values", Ids({"cryptokeys"})),
     Data("restore authority", Ids({"cryptokeys"})) >>

\* Fault: the columns go before the view that shows them.
KeyTriplesBackColumnsFirst ==
  << DropColumn("key_triples", "cond_key_bytes"), DropColumn("key_triples", "cond_key_type"),
     DropView(KeyView.name), CreateView(KeyView) >>
KeyTriplesBack ==
  << DropView(KeyView.name), CreateView(KeyView),
     DropColumn("key_triples", "cond_key_bytes"), DropColumn("key_triples", "cond_key_type") >>

\* Fault: the new column is forgotten.
DigestsBackHalf == << Rename("digests", "alg_id_int", "alg_id") >>
DigestsBack == << DropColumn("digests", "alg_id_text"), Rename("digests", "alg_id_int", "alg_id") >>

LocatorsBack ==
  << AddColumn("locators", "href"),
     Data("update locators", {<<"locators", "href">>, <<"hrefs", "id">>}) >>

ValueTriplesBack ==
  << Rename("value_triples", "owner_id", "module_id"),
     Data("delete values of others", {<<"value_triples", "owner_type">>}),
     DropView(ValueView.name), CreateView(ValueView),
     DropColumn("value_triples", "owner_type") >>

Down0003 ==
  KeysBack \o KeyTriplesBack \o DigestsBack \o LocatorsBack \o ValueTriplesBack
  \o [i \in DOMAIN NewViews |-> DropView(NewViews[i].name)]
  \o Reverse([i \in DOMAIN NewTables |-> DropTable(NewTables[i])])
-----------------------------------------------------------------------------
Migrations == 1..4
Up == <<Up0000, Up0001, Up0002, Up0003>>
Down == <<Down0000, Down0001, Down0002, Down0003>>

\* ResetModels, in the order of tableModels.
ClearTables ==
  << "conditional_endorsement_triples", "conditional_endorsement_series_triples", "cryptokeys",
     "digests", "domain_entries", "domain_dependency_triples", "domain_membership_triples",
     "others", "hrefs", "key_triples", "locators", "manifests", "measurements", "module_tags",
     "stateful_environments", "value_triples", "tokens" >>

ResetModels == [i \in DOMAIN ClearTables |-> Truncate(ClearTables[i])]
=============================================================================
