-------------------------- MODULE MigratorProofs --------------------------
(***************************************************************************)
(* What the programs of the migrations do, whoever executes them: from the *)
(* schema the marks stand for, each statement is accepted, and the last one*)
(* leaves the schema of the marks there are then; and the rows of documents*)
(* go through stages that lose nothing the schema can hold.                *)
(***************************************************************************)
EXTENDS Migrator, SequenceFacts, TLAPS

(* What the statements do to the rows of documents.  The rows go through stages: *)
(* where the hrefs of locators are ("column" or "table" or "both"), whether the  *)
(* type of the owner of a value triple is written ("none", "tag"), and what the  *)
(* keys of authorities are called ("plain", "auth").                             *)

IsRow(r) == r = Row(r.tbl, r.id, r.own, r.typ, r.val) /\ r.id \in Nat
AreRows(R) == \A r \in R : IsRow(r)
Typ(r, t) == [r EXCEPT !.typ = t]
Val(r, v) == [r EXCEPT !.val = v]
HrefValues(H, id) == {h.val : h \in {x \in H : x.own = id}}

OldOf(t) == RowsOf(OldRows, t)
NewOf(t) == RowsOf(NewRows, t)
Has(H, l) == HrefValues(H, l.id) # {} /\ HrefValues(H, l.id) \subseteq HrefValues(NewOf("hrefs"), l.id)

\* The locators L with the hrefs they have, or without.
Full(s, L) ==
  /\ "old" \in s => \A l \in OldOf("locators") : l \in L
  /\ "new" \in s => \A l \in NewOf("locators") :
       \E k \in L : k.id = l.id /\ k.val \in HrefValues(NewOf("hrefs"), l.id)
Bare(s, L) ==
  /\ "old" \in s => \A l \in OldOf("locators") : Val(l, None) \in L
  /\ "new" \in s => \A l \in NewOf("locators") : \E k \in L : k.id = l.id
\* The hrefs H of the locators.
Listed(s, H) ==
  /\ "old" \in s => \A l \in OldOf("locators") :
       Row("hrefs", l.id, l.id, None, l.val) \in H /\ HrefValues(H, l.id) = {l.val}
  /\ "new" \in s => \A l \in NewOf("locators") : Has(H, l)

HrefPart(h, s, L, H) ==
  \/ h = "column" /\ Full(s, L) /\ H = {}
  \/ h = "both" /\ Full(s, L) /\ Listed(s, H)
  \/ h = "table" /\ Bare(s, L) /\ Listed(s, H)

ValuePart(v, s, V) ==
  \/ /\ v = "none"
     /\ "old" \in s => \A r \in OldOf("value_triples") : r \in V
     /\ "new" \in s => \A r \in NewOf("value_triples") :
                         r.typ = "module_tag" => Typ(r, None) \in V
  \/ /\ v = "tag"
     /\ "old" \in s => \A r \in OldOf("value_triples") : Typ(r, "module_tag") \in V
     /\ "new" \in s => \A r \in NewOf("value_triples") : r.typ = "module_tag" => r \in V

KeyPart(k, s, C) ==
  \/ /\ k = "plain"
     /\ "old" \in s => \A r \in OldOf("cryptokeys") : r \in C
     /\ "new" \in s => \A r \in NewOf("cryptokeys") :
                         r.typ = "measurement_auth" => Typ(r, "measurement") \in C
  \/ /\ k = "auth"
     /\ "old" \in s => \A r \in OldOf("cryptokeys") :
                         /\ r.typ = "measurement" => Typ(r, "measurement_auth") \in C
                         /\ r.typ # "measurement" => r \in C
     /\ "new" \in s => \A r \in NewOf("cryptokeys") : r.typ = "measurement_auth" => r \in C

OneEach(L) == \A a, b \in L : a.id = b.id => a = b
Told == {"locators", "value_triples", "cryptokeys"}
RestPart(s, R) == "old" \in s => \A r \in OldRows : r.tbl \notin Told => r \in RowsOf(R, r.tbl)

Stage(h, v, k) == [h |-> h, v |-> v, k |-> k]
Gone == Stage("gone", "gone", "gone")
Older == Stage("column", "none", "plain")
Newer == Stage("table", "tag", "auth")
StageOf(n) == IF n = 0 THEN Gone ELSE IF n = 4 THEN Newer ELSE Older

\* The rows R of the documents s, if any are stored, are at stage x.
Kept(x, s, R) ==
  \/ s = {}
  \/ /\ AreRows(R)
     /\ OneEach(RowsOf(R, "locators"))
     /\ HrefPart(x.h, s, RowsOf(R, "locators"), RowsOf(R, "hrefs"))
     /\ ValuePart(x.v, s, RowsOf(R, "value_triples"))
     /\ KeyPart(x.k, s, RowsOf(R, "cryptokeys"))
     /\ RestPart(s, R)

Moves(st, x, y) ==
  \A s \in SUBSET {"old", "new"} : \A R : Kept(x, s, R) => \A Q \in RowsAfter(st, R) : Kept(y, s, Q)
-----------------------------------------------------------------------------
(* Programs.                                                               *)

IsMark(st) == st.do \in {"mark", "unmark"}

\* A number of marks with a schema, or with a stage of the rows.
At(n, s) == [n |-> n, s |-> s]
With(n, x) == [n |-> n, stage |-> x]

\* What a statement makes of either.  A mark is set or removed only where the schema, or
\* the stage, is that of the marks.
Step(st, x, y) ==
  \/ /\ x = At(x.n, x.s)
     /\ \/ st.do = "mark" /\ st.m = x.n + 1 /\ x.s = SchemaOf(x.n) /\ y = At(x.n + 1, x.s)
        \/ st.do = "unmark" /\ st.m = x.n /\ x.s = SchemaOf(x.n) /\ y = At(x.n - 1, x.s)
        \/ ~IsMark(st) /\ Accepts(st, x.s) /\ y = At(x.n, SchemaAfter(st, x.s))
  \/ /\ x = With(x.n, x.stage)
     /\ \/ /\ st.do = "mark" /\ st.m = x.n + 1 /\ x.stage = StageOf(x.n)
           /\ y = With(x.n + 1, x.stage)
        \/ /\ st.do = "unmark" /\ st.m = x.n /\ x.stage = StageOf(x.n)
           /\ y = With(x.n - 1, IF x.n = 1 THEN Gone ELSE x.stage)
        \/ ~IsMark(st) /\ \E z : y = With(x.n, z) /\ Moves(st, x.stage, z)

IsSequence(p) == \E S : p \in Seq(S)

\* f has what there is before each statement of p, and in the end.
Passes(f, p, x, y) ==
  /\ f[1] = x /\ f[Len(p) + 1] = y
  /\ \A i \in 1..Len(p) : Step(p[i], f[i], f[i + 1])

Leads(p, x, y) == IsSequence(p) /\ \E f : Passes(f, p, x, y)

LEMMA LeadsNowhere == ASSUME NEW x PROVE Leads(<<>>, x, x)
<1>1. Passes([i \in 1..1 |-> x], <<>>, x, x)
  BY DEF Passes
<1> QED BY <1>1 DEF Leads, IsSequence

LEMMA LeadsEmpty == ASSUME NEW x, NEW y, Leads(<<>>, x, y) PROVE x = y
BY DEF Leads, Passes

LEMMA LeadsOne ==
  ASSUME NEW st, NEW x, NEW y, Step(st, x, y)
  PROVE  Leads(<<st>>, x, y)
<1>1. Passes([i \in 1..2 |-> IF i = 1 THEN x ELSE y], <<st>>, x, y)
  BY DEF Passes
<1>2. <<st>> \in Seq({st})
  OBVIOUS
<1> QED BY <1>1, <1>2 DEF Leads, IsSequence

LEMMA LeadsFirst ==
  ASSUME NEW p, NEW x, NEW y, Leads(p, x, y), p # <<>>
  PROVE  \E z : Step(Head(p), x, z) /\ Leads(Tail(p), z, y)
<1>1. PICK S, f : p \in Seq(S) /\ Passes(f, p, x, y)
  BY DEF Leads, IsSequence
<1>2. Len(p) \in Nat \ {0} /\ Tail(p) \in Seq(S) /\ Len(Tail(p)) = Len(p) - 1
      /\ \A i \in 1..(Len(p) - 1) : Tail(p)[i] = p[i + 1]
  BY <1>1
<1>3. Step(Head(p), x, f[2])
  BY <1>1, <1>2 DEF Passes
<1>4. Passes([i \in 1..Len(p) |-> f[i + 1]], Tail(p), f[2], y)
  <2> DEFINE g == [i \in 1..Len(p) |-> f[i + 1]]
  <2>1. g[1] = f[2] /\ g[Len(Tail(p)) + 1] = y
    BY <1>1, <1>2 DEF Passes
  <2>2. ASSUME NEW i \in 1..Len(Tail(p)) PROVE Step(Tail(p)[i], g[i], g[i + 1])
    <3>1. Step(p[i + 1], f[i + 1], f[i + 2])
      BY <1>1, <1>2 DEF Passes
    <3> QED BY <1>2, <3>1
  <2> QED BY <2>1, <2>2 DEF Passes
<1> QED BY <1>2, <1>3, <1>4 DEF Leads, IsSequence

LEMMA LeadsJoin ==
  ASSUME NEW p, NEW q, NEW x, NEW y, NEW z, Leads(p, x, y), Leads(q, y, z)
  PROVE  Leads(p \o q, x, z)
<1>1. PICK S, f : p \in Seq(S) /\ Passes(f, p, x, y)
  BY DEF Leads, IsSequence
<1>2. PICK T, g : q \in Seq(T) /\ Passes(g, q, y, z)
  BY DEF Leads, IsSequence
<1> DEFINE r == p \o q
           h == [i \in 1..(Len(p) + Len(q) + 1) |->
                   IF i <= Len(p) THEN f[i] ELSE g[i - Len(p)]]
<1>3. p \in Seq(S \cup T) /\ q \in Seq(S \cup T)
  BY <1>1, <1>2
<1>4. /\ r \in Seq(S \cup T) /\ Len(p) \in Nat /\ Len(q) \in Nat /\ Len(r) = Len(p) + Len(q)
      /\ \A i \in 1..Len(p) : r[i] = p[i]
      /\ \A i \in 1..Len(q) : r[Len(p) + i] = q[i]
  BY <1>3
<1>5. h[1] = x /\ h[Len(r) + 1] = z
  BY <1>1, <1>2, <1>4 DEF Passes
<1>6. ASSUME NEW i \in 1..Len(r) PROVE Step(r[i], h[i], h[i + 1])
  <2>1. CASE i < Len(p)
    <3>1. Step(p[i], f[i], f[i + 1])
      BY <1>1, <1>4, <2>1 DEF Passes
    <3>2. h[i] = f[i] /\ h[i + 1] = f[i + 1] /\ r[i] = p[i]
      BY <1>4, <2>1
    <3> QED BY <3>1, <3>2
  <2>2. CASE i = Len(p)
    <3>1. Step(p[i], f[i], f[i + 1])
      BY <1>1, <1>4, <2>2 DEF Passes
    <3>2. h[i] = f[i] /\ h[i + 1] = g[1] /\ r[i] = p[i]
      BY <1>4, <2>2
    <3>3. f[i + 1] = g[1]
      BY <1>1, <1>2, <2>2 DEF Passes
    <3> QED BY <3>1, <3>2, <3>3
  <2>3. CASE i > Len(p)
    <3> DEFINE j == i - Len(p)
    <3>1. j \in 1..Len(q)
      BY <1>4, <2>3
    <3>2. Step(q[j], g[j], g[j + 1])
      BY <1>2, <3>1 DEF Passes
    <3>3. h[i] = g[j] /\ h[i + 1] = g[j + 1] /\ r[i] = q[j]
      BY <1>4, <2>3, <3>1
    <3> QED BY <3>2, <3>3
  <2> QED BY <1>4, <2>1, <2>2, <2>3
<1>7. Passes(h, r, x, z)
  BY <1>5, <1>6 DEF Passes
<1> QED BY <1>4, <1>7 DEF Leads, IsSequence
-----------------------------------------------------------------------------
(* Statements other than marks, on a schema given by its tables T, its other *)
(* columns E and its views V.                                              *)

Goes(p, s, t) ==
  /\ \A i \in 1..Len(p) : ~IsMark(p[i])
  /\ \A n : Leads(p, At(n, s), At(n, t))

Schema(T, E, V) == [columns |-> HasColumns(T, E), views |-> V]
And(E, t, cols) == E \cup ({t} \X cols)
Without(E, t) == {c \in E : c[1] # t}
Columns(E) == \A c \in E : c = <<c[1], c[2]>> /\ c[2] # "id"

LEMMA GoesNowhere == ASSUME NEW s PROVE Goes(<<>>, s, s)
BY LeadsNowhere DEF Goes

LEMMA GoesJoin ==
  ASSUME NEW p, NEW q, NEW s, NEW t, NEW u, Goes(p, s, t), Goes(q, t, u)
  PROVE  Goes(p \o q, s, u)
<1>1. \A n : Leads(p \o q, At(n, s), At(n, u))
  BY LeadsJoin DEF Goes
<1>2. IsSequence(p) /\ IsSequence(q)
  BY DEF Goes, Leads
<1>3. PICK S : p \in Seq(S)
  BY <1>2 DEF IsSequence
<1>4. PICK T : q \in Seq(T)
  BY <1>2 DEF IsSequence
<1>5. p \in Seq(S \cup T) /\ q \in Seq(S \cup T)
  BY <1>3, <1>4
<1>6. ASSUME NEW i \in 1..Len(p \o q) PROVE ~IsMark((p \o q)[i])
  <2>1. CASE i <= Len(p)
    <3>1. (p \o q)[i] = p[i] /\ i \in 1..Len(p)
      BY <1>5, <2>1
    <3> QED BY <3>1 DEF Goes
  <2>2. CASE i > Len(p)
    <3>1. (p \o q)[i] = q[i - Len(p)] /\ i - Len(p) \in 1..Len(q)
      BY <1>5, <2>2
    <3> QED BY <3>1 DEF Goes
  <2> QED BY <1>5, <2>1, <2>2
<1> QED BY <1>1, <1>6 DEF Goes

\* A statement that is no mark, in a schema that has what it needs.
Does(st, s, t) == ~IsMark(st) /\ Accepts(st, s) /\ t = SchemaAfter(st, s)

LEMMA GoesOne == ASSUME NEW st, NEW s, NEW t, Does(st, s, t) PROVE Goes(<<st>>, s, t)
BY LeadsOne DEF Goes, Does, Step, At

\* Statements given by a sequence, each of which leads from one of the schemas of a
\* sequence to the next.
LEMMA GoesThrough ==
  ASSUME NEW p, NEW S, p \in Seq(S), NEW f,
         \A i \in 1..Len(p) : Does(p[i], f[i], f[i + 1])
  PROVE  Goes(p, f[1], f[Len(p) + 1])
<1> SUFFICES ASSUME NEW n PROVE Leads(p, At(n, f[1]), At(n, f[Len(p) + 1]))
  BY DEF Goes, Does
<1> DEFINE g == [i \in 1..(Len(p) + 1) |-> At(n, f[i])]
<1>1. Len(p) \in Nat
  OBVIOUS
<1>2. ASSUME NEW i \in 1..Len(p) PROVE Step(p[i], g[i], g[i + 1])
  <2>1. g[i] = At(n, f[i]) /\ g[i + 1] = At(n, f[i + 1])
    BY <1>1
  <2> QED BY <2>1 DEF Does, Step, At
<1>3. g[1] = At(n, f[1]) /\ g[Len(p) + 1] = At(n, f[Len(p) + 1])
  BY <1>1
<1> HIDE DEF g
<1>4. Passes(g, p, At(n, f[1]), At(n, f[Len(p) + 1]))
  BY <1>2, <1>3 DEF Passes
<1> QED BY <1>4 DEF Leads, IsSequence

LEMMA CreateGoes ==
  ASSUME NEW T, NEW E, NEW V, NEW t, NEW cols, t \notin T, Columns(E),
         NEW U, NEW F, U = T \cup {t}, F = And(E, t, cols)
  PROVE  Does(Create(t, cols), Schema(T, E, V), Schema(U, F, V))
<1>1. ~HasTable(Schema(T, E, V), t)
  BY DEF HasTable, Schema, HasColumns, Ids, Columns
<1>2. {t} \X ({"id"} \cup cols) = {<<t, "id">>} \cup ({t} \X cols)
  OBVIOUS
<1>3. Ids(T \cup {t}) = Ids(T) \cup {<<t, "id">>}
  BY DEF Ids
<1> QED
  BY <1>1, <1>2, <1>3
     DEF Does, IsMark, And, Accepts, SchemaAfter, Create, Schema, HasColumns

LEMMA DropTableGoes ==
  ASSUME NEW T, NEW E, NEW V, NEW t, Columns(E),
         \A v \in V : \A c \in v.needs : c[1] # t,
         NEW U, NEW F, U = T \ {t}, F = Without(E, t)
  PROVE  Does(DropTable(t), Schema(T, E, V), Schema(U, F, V))
<1>1. TableColumns(Schema(T, E, V), t) = {c \in HasColumns(T, E) : c[1] = t}
  BY DEF TableColumns, Schema
<1>2. HasColumns(T, E) \ {c \in HasColumns(T, E) : c[1] = t}
        = HasColumns(T \ {t}, {c \in E : c[1] # t})
  BY DEF HasColumns, Ids
<1> QED BY <1>1, <1>2 DEF Does, IsMark, Without, Accepts, SchemaAfter, DropTable, Schema

LEMMA AddColumnGoes ==
  ASSUME NEW T, NEW E, NEW V, NEW t \in T, NEW c, c # "id", <<t, c>> \notin E,
         NEW F, F = E \cup {<<t, c>>}
  PROVE  Does(AddColumn(t, c), Schema(T, E, V), Schema(T, F, V))
BY DEF Does, IsMark, Accepts, SchemaAfter, AddColumn, Schema, HasColumns, Ids, HasTable

LEMMA DropColumnGoes ==
  ASSUME NEW T, NEW E, NEW V, NEW t, NEW c, c # "id", <<t, c>> \in E,
         \A v \in V : <<t, c>> \notin v.needs,
         NEW F, F = E \ {<<t, c>>}
  PROVE  Does(DropColumn(t, c), Schema(T, E, V), Schema(T, F, V))
<1>1. HasColumns(T, E) \ {<<t, c>>} = HasColumns(T, E \ {<<t, c>>})
  BY DEF HasColumns, Ids
<1>2. <<t, c>> \in HasColumns(T, E)
  BY DEF HasColumns
<1> QED BY <1>1, <1>2 DEF Does, IsMark, Accepts, SchemaAfter, DropColumn, Schema

RenamedViews(V, a, b) == {[v EXCEPT !.needs = RenamedIn(@, a, b)] : v \in V}
Apart(V, a) == \A v \in V : v = View(v.name, v.needs) /\ a \notin v.needs

LEMMA RenamesNoView ==
  ASSUME NEW V, NEW a, NEW b, Apart(V, a)
  PROVE  V = RenamedViews(V, a, b)
<1>1. ASSUME NEW v \in V PROVE [v EXCEPT !.needs = RenamedIn(@, a, b)] = v
  <2>1. RenamedIn(v.needs, a, b) = v.needs
    BY DEF Apart, RenamedIn
  <2>2. v = [name |-> v.name, needs |-> v.needs]
    BY DEF Apart, View
  <2> QED BY <2>1, <2>2
<1> QED BY <1>1 DEF RenamedViews

LEMMA RenamesOneView ==
  ASSUME NEW V, NEW a, NEW b, Apart(V, a), NEW w, w = View(w.name, w.needs),
         NEW x, x = View(w.name, RenamedIn(w.needs, a, b))
  PROVE  V \cup {x} = RenamedViews(V \cup {w}, a, b)
<1>1. V = RenamedViews(V, a, b)
  BY RenamesNoView
<1>2. [w EXCEPT !.needs = RenamedIn(@, a, b)] = x
  BY DEF View
<1> QED BY <1>1, <1>2 DEF RenamedViews

LEMMA RenameGoes ==
  ASSUME NEW T, NEW E, NEW V, NEW t, NEW c, NEW d, c # "id", d # "id",
         <<t, c>> \in E, <<t, d>> \notin E,
         NEW F, F = (E \ {<<t, c>>}) \cup {<<t, d>>},
         NEW W, W = RenamedViews(V, <<t, c>>, <<t, d>>)
  PROVE  Does(Rename(t, c, d), Schema(T, E, V), Schema(T, F, W))
<1>1. RenamedIn(HasColumns(T, E), <<t, c>>, <<t, d>>)
        = HasColumns(T, (E \ {<<t, c>>}) \cup {<<t, d>>})
  BY DEF RenamedIn, HasColumns, Ids
<1>2. <<t, c>> \in HasColumns(T, E) /\ <<t, d>> \notin HasColumns(T, E)
  BY DEF HasColumns, Ids
<1> QED BY <1>1, <1>2 DEF RenamedViews, Does, IsMark, Accepts, SchemaAfter, Rename, Schema

LEMMA DataGoes ==
  ASSUME NEW T, NEW E, NEW V, NEW name, NEW needs, needs \subseteq HasColumns(T, E)
  PROVE  Does(Data(name, needs), Schema(T, E, V), Schema(T, E, V))
BY DEF Does, IsMark, Accepts, SchemaAfter, Data, Schema

LEMMA CreateViewGoes ==
  ASSUME NEW T, NEW E, NEW V, NEW v, v.needs \subseteq HasColumns(T, E),
         \A w \in V : w.name # v.name, NEW W, W = V \cup {v}
  PROVE  Does(CreateView(v), Schema(T, E, V), Schema(T, E, W))
BY DEF Does, IsMark, Accepts, SchemaAfter, CreateView, Schema

LEMMA DropViewGoes ==
  ASSUME NEW T, NEW E, NEW V, NEW name, \E v \in V : v.name = name,
         NEW W, W = {w \in V : w.name # name}
  PROVE  Does(DropView(name), Schema(T, E, V), Schema(T, E, W))
BY DEF Does, IsMark, Accepts, SchemaAfter, DropView, Schema
-----------------------------------------------------------------------------
(* Sequences of statements of one kind.                                    *)

AllOf(t, k) == {t[i] : i \in 1..k}
AllColumns(t, cols, k) == UNION {{t[i]} \X cols[i] : i \in 1..k}
Outside(E, t, k) == {c \in E : \A i \in 1..k : c[1] # t[i]}

LEMMA CreatesGo ==
  ASSUME NEW p, NEW S, p \in Seq(S), NEW t, NEW cols, NEW T, NEW E, NEW V, Columns(E),
         \A i \in 1..Len(p) :
           /\ p[i] = Create(t[i], cols[i]) /\ t[i] \notin T /\ "id" \notin cols[i]
           /\ \A j \in 1..Len(p) : t[j] = t[i] => j = i
  PROVE  Goes(p, Schema(T, E, V),
              Schema(T \cup AllOf(t, Len(p)), E \cup AllColumns(t, cols, Len(p)), V))
<1> DEFINE Tables(k) == T \cup AllOf(t, k)
           Others(k) == E \cup AllColumns(t, cols, k)
           f == [i \in 1..(Len(p) + 1) |-> Schema(Tables(i - 1), Others(i - 1), V)]
<1>1. Len(p) \in Nat
  OBVIOUS
<1>2. ASSUME NEW i \in 1..Len(p)
      PROVE  Does(p[i], f[i], f[i + 1])
  <2>1. Tables(i) = Tables(i - 1) \cup {t[i]} /\ t[i] \notin Tables(i - 1)
    BY DEF AllOf
  <2>2. Others(i) = And(Others(i - 1), t[i], cols[i])
    BY DEF And, AllColumns
  <2>3. Columns(Others(i - 1))
    BY DEF Columns, AllColumns
  <2>4. f[i] = Schema(Tables(i - 1), Others(i - 1), V) /\ f[i + 1] = Schema(Tables(i), Others(i), V)
    <3>1. i \in 1..(Len(p) + 1) /\ i + 1 \in 1..(Len(p) + 1) /\ (i + 1) - 1 = i
      BY <1>1
    <3> HIDE DEF Tables, Others
    <3>2. ASSUME NEW k \in 1..(Len(p) + 1) PROVE f[k] = Schema(Tables(k - 1), Others(k - 1), V)
      BY DEF f
    <3> HIDE DEF f
    <3>3. f[i + 1] = Schema(Tables((i + 1) - 1), Others((i + 1) - 1), V)
      BY <3>1, <3>2
    <3> QED BY <3>1, <3>2, <3>3
  <2> HIDE DEF Tables, Others, f
  <2>5. Does(Create(t[i], cols[i]), Schema(Tables(i - 1), Others(i - 1), V),
             Schema(Tables(i), Others(i), V))
    BY <2>1, <2>2, <2>3, CreateGoes
  <2>6. p[i] = Create(t[i], cols[i])
    OBVIOUS
  <2> QED BY <2>1, <2>2, <2>4, <2>5, <2>6
<1>3. f[1] = Schema(T, E, V) /\ f[Len(p) + 1] = Schema(Tables(Len(p)), Others(Len(p)), V)
  <2>1. Tables(0) = T /\ Others(0) = E
    BY DEF AllOf, AllColumns
  <2>2. f[1] = Schema(Tables(0), Others(0), V) /\ f[Len(p) + 1] = Schema(Tables(Len(p)), Others(Len(p)), V)
    BY <1>1
  <2> HIDE DEF Tables, Others, f
  <2> QED BY <2>1, <2>2
<1> HIDE DEF f
<1>4. Goes(p, f[1], f[Len(p) + 1])
  BY <1>2, GoesThrough
<1> QED BY <1>3, <1>4

LEMMA DropTablesGo ==
  ASSUME NEW p, NEW S, p \in Seq(S), NEW t, NEW T, NEW E, NEW V, Columns(E),
         \A i \in 1..Len(p) :
           p[i] = DropTable(t[i]) /\ \A v \in V : \A c \in v.needs : c[1] # t[i]
  PROVE  Goes(p, Schema(T, E, V), Schema(T \ AllOf(t, Len(p)), Outside(E, t, Len(p)), V))
<1> DEFINE Tables(k) == T \ AllOf(t, k)
           Others(k) == Outside(E, t, k)
           f == [i \in 1..(Len(p) + 1) |-> Schema(Tables(i - 1), Others(i - 1), V)]
<1>1. Len(p) \in Nat
  OBVIOUS
<1>2. ASSUME NEW i \in 1..Len(p)
      PROVE  Does(p[i], f[i], f[i + 1])
  <2>1. Tables(i) = Tables(i - 1) \ {t[i]}
    BY DEF AllOf
  <2>2. Others(i) = Without(Others(i - 1), t[i])
    BY DEF Without, Outside
  <2>3. Columns(Others(i - 1))
    BY DEF Columns, Outside
  <2>4. f[i] = Schema(Tables(i - 1), Others(i - 1), V) /\ f[i + 1] = Schema(Tables(i), Others(i), V)
    <3>1. i \in 1..(Len(p) + 1) /\ i + 1 \in 1..(Len(p) + 1) /\ (i + 1) - 1 = i
      BY <1>1
    <3> HIDE DEF Tables, Others
    <3>2. ASSUME NEW k \in 1..(Len(p) + 1) PROVE f[k] = Schema(Tables(k - 1), Others(k - 1), V)
      BY DEF f
    <3> HIDE DEF f
    <3>3. f[i + 1] = Schema(Tables((i + 1) - 1), Others((i + 1) - 1), V)
      BY <3>1, <3>2
    <3> QED BY <3>1, <3>2, <3>3
  <2> HIDE DEF Tables, Others, f
  <2>5. Does(DropTable(t[i]), Schema(Tables(i - 1), Others(i - 1), V),
             Schema(Tables(i), Others(i), V))
    BY <2>1, <2>2, <2>3, DropTableGoes
  <2>6. p[i] = DropTable(t[i])
    OBVIOUS
  <2> QED BY <2>1, <2>2, <2>4, <2>5, <2>6
<1>3. f[1] = Schema(T, E, V) /\ f[Len(p) + 1] = Schema(Tables(Len(p)), Others(Len(p)), V)
  <2>1. Tables(0) = T /\ Others(0) = E
    BY DEF AllOf, Outside
  <2>2. f[1] = Schema(Tables(0), Others(0), V) /\ f[Len(p) + 1] = Schema(Tables(Len(p)), Others(Len(p)), V)
    BY <1>1
  <2> HIDE DEF Tables, Others, f
  <2> QED BY <2>1, <2>2
<1> HIDE DEF f
<1>4. Goes(p, f[1], f[Len(p) + 1])
  BY <1>2, GoesThrough
<1> QED BY <1>3, <1>4

LEMMA CreateViewsGo ==
  ASSUME NEW p, NEW S, p \in Seq(S), NEW v, NEW T, NEW E, NEW V,
         \A i \in 1..Len(p) :
           /\ p[i] = CreateView(v[i]) /\ v[i].needs \subseteq HasColumns(T, E)
           /\ \A w \in V : w.name # v[i].name
           /\ \A j \in 1..Len(p) : v[j].name = v[i].name => j = i
  PROVE  Goes(p, Schema(T, E, V), Schema(T, E, V \cup AllOf(v, Len(p))))
<1> DEFINE Views(k) == V \cup AllOf(v, k)
           f == [i \in 1..(Len(p) + 1) |-> Schema(T, E, Views(i - 1))]
<1>1. Len(p) \in Nat
  OBVIOUS
<1>2. ASSUME NEW i \in 1..Len(p)
      PROVE  Does(p[i], f[i], f[i + 1])
  <2>1. Views(i) = Views(i - 1) \cup {v[i]} /\ \A w \in Views(i - 1) : w.name # v[i].name
    BY DEF AllOf
  <2>2. f[i] = Schema(T, E, Views(i - 1)) /\ f[i + 1] = Schema(T, E, Views(i))
    <3>1. i \in 1..(Len(p) + 1) /\ i + 1 \in 1..(Len(p) + 1) /\ (i + 1) - 1 = i
      BY <1>1
    <3> HIDE DEF Views
    <3>2. ASSUME NEW k \in 1..(Len(p) + 1) PROVE f[k] = Schema(T, E, Views(k - 1))
      BY DEF f
    <3> HIDE DEF f
    <3>3. f[i + 1] = Schema(T, E, Views((i + 1) - 1))
      BY <3>1, <3>2
    <3> QED BY <3>1, <3>2, <3>3
  <2> HIDE DEF Views, f
  <2>3. Does(CreateView(v[i]), Schema(T, E, Views(i - 1)), Schema(T, E, Views(i)))
    BY <2>1, CreateViewGoes
  <2>4. p[i] = CreateView(v[i])
    OBVIOUS
  <2> QED BY <2>1, <2>2, <2>3, <2>4
<1>3. f[1] = Schema(T, E, V) /\ f[Len(p) + 1] = Schema(T, E, Views(Len(p)))
  <2>1. Views(0) = V
    BY DEF AllOf
  <2> HIDE DEF Views
  <2>2. f[1] = Schema(T, E, Views(0)) /\ f[Len(p) + 1] = Schema(T, E, Views(Len(p)))
    <3>1. 1 \in 1..(Len(p) + 1) /\ Len(p) + 1 \in 1..(Len(p) + 1)
      BY <1>1
    <3>2. 1 - 1 = 0 /\ (Len(p) + 1) - 1 = Len(p)
      BY <1>1
    <3>3. ASSUME NEW k \in 1..(Len(p) + 1) PROVE f[k] = Schema(T, E, Views(k - 1))
      BY DEF f
    <3> HIDE DEF f
    <3> QED BY <3>1, <3>2, <3>3
  <2> HIDE DEF f
  <2> QED BY <2>1, <2>2
<1> HIDE DEF f
<1>4. Goes(p, f[1], f[Len(p) + 1])
  BY <1>2, GoesThrough
<1> QED BY <1>3, <1>4

LEMMA DropViewsGo ==
  ASSUME NEW p, NEW S, p \in Seq(S), NEW v, NEW T, NEW E, NEW V,
         \A i \in 1..Len(p) :
           /\ p[i] = DropView(v[i].name) /\ v[i] \in V
           /\ \A w \in V : w.name = v[i].name => w = v[i]
           /\ \A j \in 1..Len(p) : v[j] = v[i] => j = i
  PROVE  Goes(p, Schema(T, E, V), Schema(T, E, V \ AllOf(v, Len(p))))
<1> DEFINE Views(k) == V \ AllOf(v, k)
           f == [i \in 1..(Len(p) + 1) |-> Schema(T, E, Views(i - 1))]
<1>1. Len(p) \in Nat
  OBVIOUS
<1>2. ASSUME NEW i \in 1..Len(p)
      PROVE  Does(p[i], f[i], f[i + 1])
  <2>1. v[i] \in Views(i - 1)
    BY DEF AllOf
  <2>2. Views(i) = {w \in Views(i - 1) : w.name # v[i].name}
    BY DEF AllOf
  <2>3. f[i] = Schema(T, E, Views(i - 1)) /\ f[i + 1] = Schema(T, E, Views(i))
    BY <1>1
  <2> HIDE DEF Views, f
  <2>4. Does(DropView(v[i].name), Schema(T, E, Views(i - 1)), Schema(T, E, Views(i)))
    BY <2>1, <2>2, DropViewGoes
  <2>5. p[i] = DropView(v[i].name)
    OBVIOUS
  <2> QED BY <2>2, <2>3, <2>4, <2>5
<1>3. f[1] = Schema(T, E, V) /\ f[Len(p) + 1] = Schema(T, E, Views(Len(p)))
  <2>1. Views(0) = V
    BY DEF AllOf
  <2> HIDE DEF Views
  <2>2. f[1] = Schema(T, E, Views(0)) /\ f[Len(p) + 1] = Schema(T, E, Views(Len(p)))
    <3>1. 1 \in 1..(Len(p) + 1) /\ Len(p) + 1 \in 1..(Len(p) + 1)
      BY <1>1
    <3>2. 1 - 1 = 0 /\ (Len(p) + 1) - 1 = Len(p)
      BY <1>1
    <3>3. ASSUME NEW k \in 1..(Len(p) + 1) PROVE f[k] = Schema(T, E, Views(k - 1))
      BY DEF f
    <3> HIDE DEF f
    <3> QED BY <3>1, <3>2, <3>3
  <2> HIDE DEF f
  <2> QED BY <2>1, <2>2
<1> HIDE DEF f
<1>4. Goes(p, f[1], f[Len(p) + 1])
  BY <1>2, GoesThrough
<1> QED BY <1>3, <1>4
-----------------------------------------------------------------------------
(* The migrations.                                                         *)

First == {"manifests", "locators", "module_tags", "value_triples", "key_triples", "cryptokeys",
          "measurements", "digests", "others"}
FirstColumns == {<<"locators", "href">>, <<"digests", "alg_id">>, <<"value_triples", "module_id">>}

LEMMA InitialTablesList ==
  /\ Len(InitialTables) = 9 /\ DOMAIN InitialTables = 1..9
  /\ FirstTables = First /\ FirstTables = {InitialTables[i][1] : i \in 1..9}
  /\ \A i \in 1..9 : \A j \in 1..9 : InitialTables[j][1] = InitialTables[i][1] => j = i
  /\ \A i \in 1..9 : "id" \notin InitialTables[i][2]
  /\ FirstColumns = UNION {{InitialTables[i][1]} \X InitialTables[i][2] : i \in 1..9}
<1>1. DOMAIN InitialTables = 1..9 /\ Len(InitialTables) = 9
  BY DEF InitialTables
<1>2. /\ InitialTables[1] = <<"manifests", {}>> /\ InitialTables[2] = <<"locators", {"href"}>>
      /\ InitialTables[3] = <<"module_tags", {}>>
      /\ InitialTables[4] = <<"value_triples", {"module_id"}>>
      /\ InitialTables[5] = <<"key_triples", {}>> /\ InitialTables[6] = <<"cryptokeys", {}>>
      /\ InitialTables[7] = <<"measurements", {}>> /\ InitialTables[8] = <<"digests", {"alg_id"}>>
      /\ InitialTables[9] = <<"others", {}>>
  BY DEF InitialTables
<1>3. \A i \in 1..9 : i \in {1, 2, 3, 4, 5, 6, 7, 8, 9}
  OBVIOUS
<1> HIDE DEF InitialTables
<1>4. FirstTables = {InitialTables[i][1] : i \in 1..9}
  BY <1>1 DEF FirstTables
<1>5. FirstTables = First
  <2>1. First \subseteq FirstTables
    <3>1. /\ 1 \in 1..9 /\ 2 \in 1..9 /\ 3 \in 1..9 /\ 4 \in 1..9 /\ 5 \in 1..9 /\ 6 \in 1..9
          /\ 7 \in 1..9 /\ 8 \in 1..9 /\ 9 \in 1..9
      OBVIOUS
    <3> QED BY <1>2, <1>4, <3>1 DEF First
  <2>2. FirstTables \subseteq First
    BY <1>2, <1>3, <1>4 DEF First
  <2> QED BY <2>1, <2>2
<1>6. \A i \in 1..9 : \A j \in 1..9 : InitialTables[j][1] = InitialTables[i][1] => j = i
  BY <1>2, <1>3
<1>7. \A i \in 1..9 : "id" \notin InitialTables[i][2]
  BY <1>2, <1>3
<1>8. FirstColumns = UNION {{InitialTables[i][1]} \X InitialTables[i][2] : i \in 1..9}
  <2>1. FirstColumns \subseteq UNION {{InitialTables[i][1]} \X InitialTables[i][2] : i \in 1..9}
    <3>1. /\ <<"locators", "href">> \in {InitialTables[2][1]} \X InitialTables[2][2]
          /\ <<"digests", "alg_id">> \in {InitialTables[8][1]} \X InitialTables[8][2]
          /\ <<"value_triples", "module_id">> \in {InitialTables[4][1]} \X InitialTables[4][2]
      BY <1>2
    <3>2. 2 \in 1..9 /\ 8 \in 1..9 /\ 4 \in 1..9
      OBVIOUS
    <3> QED BY <3>1, <3>2 DEF FirstColumns
  <2>2. ASSUME NEW i \in 1..9 PROVE {InitialTables[i][1]} \X InitialTables[i][2] \subseteq FirstColumns
    BY <1>2, <1>3 DEF FirstColumns
  <2> QED BY <2>1, <2>2
<1> QED BY <1>1, <1>4, <1>5, <1>6, <1>7, <1>8

\* A sequence given by its length and its elements.
LEMMA ListBy ==
  ASSUME NEW n \in Nat, NEW p, p = [i \in 1..n |-> p[i]]
  PROVE  p \in Seq({p[i] : i \in 1..n}) /\ Len(p) = n
OBVIOUS

LEMMA Goes0000 ==
  /\ Goes(Up0000, Schema({}, {}, {}), Schema(FirstTables, FirstColumns, {}))
  /\ Goes(Down0000, Schema(FirstTables, FirstColumns, {}), Schema({}, {}, {}))
<1> DEFINE t == [i \in 1..9 |-> InitialTables[i][1]]
           cols == [i \in 1..9 |-> InitialTables[i][2]]
<1>1. /\ Up0000 \in Seq({Up0000[i] : i \in 1..9}) /\ Len(Up0000) = 9
      /\ \A i \in 1..9 : Up0000[i] = Create(t[i], cols[i])
  <2>1. Up0000 = [i \in 1..9 |-> Create(t[i], cols[i])]
    BY InitialTablesList DEF Up0000
  <2>2. \A i \in 1..9 : Up0000[i] = Create(t[i], cols[i])
    BY <2>1
  <2>3. Up0000 = [i \in 1..9 |-> Up0000[i]]
    BY <2>1
  <2> QED BY <2>2, <2>3, ListBy
<1>2. /\ Down0000 \in Seq({Down0000[i] : i \in 1..9}) /\ Len(Down0000) = 9
      /\ \A i \in 1..9 : Down0000[i] = DropTable(t[i])
  <2>1. Down0000 = [i \in 1..9 |-> DropTable(t[i])]
    BY InitialTablesList DEF Down0000
  <2>2. \A i \in 1..9 : Down0000[i] = DropTable(t[i])
    BY <2>1
  <2>3. Down0000 = [i \in 1..9 |-> Down0000[i]]
    BY <2>1
  <2> QED BY <2>2, <2>3, ListBy
<1>3. /\ \A i \in 1..9 : \A j \in 1..9 : t[j] = t[i] => j = i
      /\ \A i \in 1..9 : "id" \notin cols[i]
      /\ FirstTables = {t[i] : i \in 1..9} /\ FirstColumns = UNION {{t[i]} \X cols[i] : i \in 1..9}
  BY InitialTablesList
<1>4. Columns({}) /\ Columns(FirstColumns)
  BY DEF Columns, FirstColumns
<1> HIDE DEF t, cols
<1>5. Goes(Up0000, Schema({}, {}, {}), Schema(FirstTables, FirstColumns, {}))
  <2>1. FirstTables = {} \cup AllOf(t, 9) /\ FirstColumns = {} \cup AllColumns(t, cols, 9)
    BY <1>3 DEF AllOf, AllColumns
  <2>2. Goes(Up0000, Schema({}, {}, {}),
             Schema({} \cup AllOf(t, Len(Up0000)), {} \cup AllColumns(t, cols, Len(Up0000)), {}))
    BY <1>1, <1>3, <1>4, CreatesGo
  <2> QED BY <1>1, <2>1, <2>2
<1>6. {} = Outside(FirstColumns, t, 9)
  <2>1. \A c \in FirstColumns : c[1] \in First
    BY DEF FirstColumns, First
  <2> QED BY <2>1, <1>3, InitialTablesList DEF Outside
<1>7. Goes(Down0000, Schema(FirstTables, FirstColumns, {}), Schema({}, {}, {}))
  <2>1. {} = FirstTables \ AllOf(t, 9)
    BY <1>3 DEF AllOf
  <2>2. Goes(Down0000, Schema(FirstTables, FirstColumns, {}),
             Schema(FirstTables \ AllOf(t, Len(Down0000)), Outside(FirstColumns, t, Len(Down0000)), {}))
    BY <1>2, <1>4, DropTablesGo
  <2> QED BY <1>2, <1>6, <2>1, <2>2
<1> QED BY <1>5, <1>7

Tripled(t) == {<<t, "id">>, <<"module_tags", "id">>, <<"manifests", "id">>}

LEMMA Views ==
  /\ \A name, t, cols : /\ TripleView(name, t, cols).name = name
                        /\ TripleView(name, t, cols).needs = Tripled(t) \cup ({t} \X cols)
  /\ ManifestView.name = "manifest_entries" /\ ManifestView.needs = {<<"manifests", "id">>}
  /\ ModuleTagView.name = "module_tag_entries"
  /\ ModuleTagView.needs = {<<"module_tags", "id">>, <<"manifests", "id">>}
  /\ KeyView.name = "key_triple_entries" /\ KeyView.needs = Tripled("key_triples")
  /\ ValueView.name = "value_triple_entries"
  /\ ValueView.needs = Tripled("value_triples") \cup {<<"value_triples", "module_id">>}
  /\ KeyViewRev10.name = "key_triple_entries"
  /\ KeyViewRev10.needs = Tripled("key_triples")
       \cup {<<"key_triples", "cond_key_type">>, <<"key_triples", "cond_key_bytes">>}
  /\ ValueViewRev10.name = "value_triple_entries"
  /\ ValueViewRev10.needs = Tripled("value_triples")
       \cup {<<"value_triples", "owner_id">>, <<"value_triples", "owner_type">>}
<1>1. \A name, t, cols : /\ TripleView(name, t, cols).name = name
                         /\ TripleView(name, t, cols).needs = Tripled(t) \cup ({t} \X cols)
  BY DEF TripleView, View, Ids, Tripled
<1>2. {"key_triples"} \X {} = {}
      /\ {"value_triples"} \X {"module_id"} = {<<"value_triples", "module_id">>}
      /\ {"key_triples"} \X {"cond_key_type", "cond_key_bytes"}
           = {<<"key_triples", "cond_key_type">>, <<"key_triples", "cond_key_bytes">>}
      /\ {"value_triples"} \X {"owner_id", "owner_type"}
           = {<<"value_triples", "owner_id">>, <<"value_triples", "owner_type">>}
  OBVIOUS
<1>3. /\ ManifestView.name = "manifest_entries" /\ ManifestView.needs = {<<"manifests", "id">>}
      /\ ModuleTagView.name = "module_tag_entries"
      /\ ModuleTagView.needs = {<<"module_tags", "id">>, <<"manifests", "id">>}
  BY DEF ManifestView, ModuleTagView, View, Ids
<1>4. /\ KeyView.name = "key_triple_entries"
      /\ KeyView.needs = Tripled("key_triples") \cup ({"key_triples"} \X {})
      /\ ValueView.name = "value_triple_entries"
      /\ ValueView.needs = Tripled("value_triples") \cup ({"value_triples"} \X {"module_id"})
  BY <1>1 DEF KeyView, ValueView
<1>5. /\ KeyViewRev10.name = "key_triple_entries"
      /\ KeyViewRev10.needs = Tripled("key_triples")
           \cup ({"key_triples"} \X {"cond_key_type", "cond_key_bytes"})
      /\ ValueViewRev10.name = "value_triple_entries"
      /\ ValueViewRev10.needs = Tripled("value_triples")
           \cup ({"value_triples"} \X {"owner_id", "owner_type"})
  BY <1>1 DEF KeyViewRev10, ValueViewRev10
<1> QED BY <1>1, <1>2, <1>3, <1>4, <1>5

LEMMA Goes0001 ==
  /\ Goes(Up0001, Schema(FirstTables, FirstColumns, {}),
                  Schema(FirstTables, FirstColumns, FirstViews))
  /\ Goes(Down0001, Schema(FirstTables, FirstColumns, FirstViews),
                    Schema(FirstTables, FirstColumns, {}))
<1> DEFINE up == [do |-> "create views", views |-> FirstViews]
           down == [do |-> "drop views", names |-> {v.name : v \in FirstViews}]
           s == Schema(FirstTables, FirstColumns, {})
           t == Schema(FirstTables, FirstColumns, FirstViews)
<1>1. \A v \in FirstViews : v.needs \subseteq s.columns
  BY Views, InitialTablesList
     DEF FirstViews, Schema, HasColumns, Ids, FirstColumns, First, Tripled
<1>2. Does(up, s, t)
  BY <1>1 DEF Does, Schema, IsMark, Accepts, SchemaAfter
<1>3. Does(down, t, s)
  BY DEF Does, Schema, IsMark, Accepts, SchemaAfter
<1>4. Up0001 = <<up>> /\ Down0001 = <<down>>
  BY DEF Up0001, Down0001
<1> HIDE DEF up, down, s, t
<1> QED BY <1>2, <1>3, <1>4, GoesOne DEF s, t

BeforeTables == FirstTables \cup {"tokens"}

LEMMA Goes0002 ==
  /\ Goes(Up0002, Schema(FirstTables, FirstColumns, FirstViews),
                  Schema(BeforeTables, FirstColumns, FirstViews))
  /\ Goes(Down0002, Schema(BeforeTables, FirstColumns, FirstViews),
                    Schema(FirstTables, FirstColumns, FirstViews))
<1>1. "tokens" \notin FirstTables /\ Columns(FirstColumns)
  BY InitialTablesList DEF First, Columns, FirstColumns
<1>2. FirstColumns = And(FirstColumns, "tokens", {}) /\ FirstColumns = Without(FirstColumns, "tokens")
      /\ FirstTables = BeforeTables \ {"tokens"} /\ BeforeTables = FirstTables \cup {"tokens"}
  BY <1>1 DEF And, Without, FirstColumns, BeforeTables
<1>3. \A v \in FirstViews : \A c \in v.needs : c[1] # "tokens"
  BY Views DEF FirstViews, Tripled
<1>4. Does(Create("tokens", {}), Schema(FirstTables, FirstColumns, FirstViews),
           Schema(BeforeTables, FirstColumns, FirstViews))
  BY <1>1, <1>2, CreateGoes
<1>5. Does(DropTable("tokens"), Schema(BeforeTables, FirstColumns, FirstViews),
           Schema(FirstTables, FirstColumns, FirstViews))
  BY <1>1, <1>2, <1>3, DropTableGoes
<1> QED BY <1>4, <1>5, GoesOne DEF Up0002, Down0002

AfterTables == BeforeTables \cup {NewTables[i] : i \in 1..7}
AfterColumns ==
  {<<"digests", "alg_id_int">>, <<"digests", "alg_id_text">>,
   <<"key_triples", "cond_key_type">>, <<"key_triples", "cond_key_bytes">>,
   <<"value_triples", "owner_id">>, <<"value_triples", "owner_type">>}
ViewsOfNew == {NewViews[i] : i \in 1..4}
OldNames == {"manifest_entries", "module_tag_entries", "key_triple_entries", "value_triple_entries"}

LEMMA NewTablesList ==
  /\ DOMAIN NewTables = 1..7 /\ Len(NewTables) = 7
  /\ \A i \in 1..7 : NewTables[i] \notin BeforeTables
  /\ \A i \in 1..7 : \A j \in 1..7 : NewTables[j] = NewTables[i] => j = i
<1>1. DOMAIN NewTables = 1..7 /\ Len(NewTables) = 7
  BY DEF NewTables
<1>2. /\ NewTables[1] = "hrefs" /\ NewTables[2] = "stateful_environments"
      /\ NewTables[3] = "conditional_endorsement_triples"
      /\ NewTables[4] = "conditional_endorsement_series_triples"
      /\ NewTables[5] = "domain_entries" /\ NewTables[6] = "domain_dependency_triples"
      /\ NewTables[7] = "domain_membership_triples"
  BY DEF NewTables
<1>3. \A i \in 1..7 : i \in {1, 2, 3, 4, 5, 6, 7}
  OBVIOUS
<1> HIDE DEF NewTables
<1> QED BY <1>1, <1>2, <1>3, InitialTablesList DEF BeforeTables, First

LEMMA NewViewsList ==
  /\ DOMAIN NewViews = 1..4 /\ Len(NewViews) = 4
  /\ \A i \in 1..4 : \A j \in 1..4 : NewViews[j].name = NewViews[i].name => j = i
  /\ \A v \in ViewsOfNew : /\ v = View(v.name, v.needs) /\ v.name \notin OldNames
                           /\ v.needs \subseteq Ids(AfterTables)
<1>1. DOMAIN NewViews = 1..4 /\ Len(NewViews) = 4
  BY DEF NewViews
<1>2. /\ NewViews[1] = TripleView("conditional_endorsement_triple_entries",
                                  "conditional_endorsement_triples", {})
      /\ NewViews[2] = TripleView("conditional_endorsement_series_triple_entries",
                                  "conditional_endorsement_series_triples", {})
      /\ NewViews[3] = TripleView("domain_dependency_triple_entries", "domain_dependency_triples", {})
      /\ NewViews[4] = TripleView("domain_membership_triple_entries", "domain_membership_triples", {})
  BY DEF NewViews
<1>3. \A i \in 1..4 : i \in {1, 2, 3, 4}
  OBVIOUS
<1> HIDE DEF NewViews
<1>4. \A i \in 1..4 : \A j \in 1..4 : NewViews[j].name = NewViews[i].name => j = i
  BY <1>2, <1>3, Views
<1>5. /\ "conditional_endorsement_triples" \in AfterTables
      /\ "conditional_endorsement_series_triples" \in AfterTables
      /\ "domain_dependency_triples" \in AfterTables /\ "domain_membership_triples" \in AfterTables
      /\ "module_tags" \in AfterTables /\ "manifests" \in AfterTables
  <2>1. NewTables[3] \in AfterTables /\ NewTables[4] \in AfterTables /\ NewTables[6] \in AfterTables
        /\ NewTables[7] \in AfterTables
    BY DEF AfterTables
  <2> QED BY <2>1, InitialTablesList DEF NewTables, AfterTables, BeforeTables, First
<1>6. ASSUME NEW t \in AfterTables, NEW name
      PROVE  LET v == TripleView(name, t, {})
             IN v = View(v.name, v.needs) /\ v.needs \subseteq Ids(AfterTables)
  BY <1>5 DEF TripleView, View, Ids
<1>7. ASSUME NEW v \in ViewsOfNew
      PROVE  v = View(v.name, v.needs) /\ v.name \notin OldNames /\ v.needs \subseteq Ids(AfterTables)
  <2>1. \/ v = TripleView("conditional_endorsement_triple_entries",
                          "conditional_endorsement_triples", {})
        \/ v = TripleView("conditional_endorsement_series_triple_entries",
                          "conditional_endorsement_series_triples", {})
        \/ v = TripleView("domain_dependency_triple_entries", "domain_dependency_triples", {})
        \/ v = TripleView("domain_membership_triple_entries", "domain_membership_triples", {})
    BY <1>2, <1>3 DEF ViewsOfNew
  <2>2. v.name \notin OldNames
    BY <2>1, Views DEF OldNames
  <2> QED BY <2>1, <2>2, <1>5, <1>6
<1> QED BY <1>1, <1>4, <1>7

\* The view of the value triples as the database rewrites it when module_id becomes
\* owner_id, and when owner_id becomes module_id.
ValueViewRenamed == TripleView("value_triple_entries", "value_triples", {"owner_id"})
ValueViewRenamedBack ==
  TripleView("value_triple_entries", "value_triples", {"module_id", "owner_type"})

LEMMA RenamedValueViews ==
  /\ ValueViewRenamed = View(ValueView.name, RenamedIn(ValueView.needs,
       <<"value_triples", "module_id">>, <<"value_triples", "owner_id">>))
  /\ ValueViewRenamedBack = View(ValueViewRev10.name, RenamedIn(ValueViewRev10.needs,
       <<"value_triples", "owner_id">>, <<"value_triples", "module_id">>))
  /\ ValueView = View(ValueView.name, ValueView.needs)
  /\ ValueViewRev10 = View(ValueViewRev10.name, ValueViewRev10.needs)
  /\ Apart({ManifestView, ModuleTagView, KeyViewRev10}, <<"value_triples", "module_id">>)
  /\ Apart({ManifestView, ModuleTagView, KeyView} \cup ViewsOfNew, <<"value_triples", "owner_id">>)
  /\ Apart(FirstViews, <<"digests", "alg_id">>)
  /\ Apart({ManifestView, ModuleTagView, KeyView, ValueViewRev10} \cup ViewsOfNew,
           <<"digests", "alg_id_int">>)
<1>1. ValueViewRenamed.needs = Tripled("value_triples") \cup {<<"value_triples", "owner_id">>}
  <2>1. {"value_triples"} \X {"owner_id"} = {<<"value_triples", "owner_id">>}
    OBVIOUS
  <2> QED BY <2>1, Views DEF ValueViewRenamed
<1>2. ValueViewRenamedBack.needs = Tripled("value_triples")
        \cup {<<"value_triples", "module_id">>, <<"value_triples", "owner_type">>}
  <2>1. {"value_triples"} \X {"module_id", "owner_type"}
          = {<<"value_triples", "module_id">>, <<"value_triples", "owner_type">>}
    OBVIOUS
  <2> QED BY <2>1, Views DEF ValueViewRenamedBack
<1>3. \A v \in {ManifestView, ModuleTagView, KeyView, ValueView, KeyViewRev10, ValueViewRev10,
                ValueViewRenamed, ValueViewRenamedBack} : v = View(v.name, v.needs)
  BY DEF ManifestView, ModuleTagView, KeyView, ValueView, KeyViewRev10, ValueViewRev10,
         ValueViewRenamed, ValueViewRenamedBack, TripleView, View
<1>4. RenamedIn(ValueView.needs, <<"value_triples", "module_id">>, <<"value_triples", "owner_id">>)
        = ValueViewRenamed.needs
  BY <1>1, Views DEF RenamedIn, Tripled
<1>5. RenamedIn(ValueViewRev10.needs, <<"value_triples", "owner_id">>, <<"value_triples", "module_id">>)
        = ValueViewRenamedBack.needs
  BY <1>2, Views DEF RenamedIn, Tripled
<1>6. ValueViewRenamed.name = ValueView.name /\ ValueViewRenamedBack.name = ValueViewRev10.name
  BY Views DEF ValueViewRenamed, ValueViewRenamedBack
<1>7. \A v \in ViewsOfNew : \A c \in v.needs : c[2] = "id"
  BY NewViewsList DEF Ids
<1>8. /\ Apart({ManifestView, ModuleTagView, KeyViewRev10}, <<"value_triples", "module_id">>)
      /\ Apart({ManifestView, ModuleTagView, KeyView}, <<"value_triples", "owner_id">>)
      /\ Apart(FirstViews, <<"digests", "alg_id">>)
      /\ Apart({ManifestView, ModuleTagView, KeyView, ValueViewRev10}, <<"digests", "alg_id_int">>)
  BY <1>3, Views DEF Apart, FirstViews, Tripled
<1>9. Apart(ViewsOfNew, <<"value_triples", "owner_id">>) /\ Apart(ViewsOfNew, <<"digests", "alg_id_int">>)
  BY <1>7, NewViewsList DEF Apart
<1>10. \A U, V, a : Apart(U, a) /\ Apart(V, a) => Apart(U \cup V, a)
  BY DEF Apart
<1> QED BY <1>3, <1>4, <1>5, <1>6, <1>8, <1>9, <1>10

\* From the second statement of Up0003 that changes no table to the last but one.
UpMiddle ==
  << Data("insert hrefs", {<<"hrefs", "id">>, <<"locators", "href">>}),
     DropColumn("locators", "href"),
     Rename("digests", "alg_id", "alg_id_int"),
     AddColumn("digests", "alg_id_text"),
     AddColumn("key_triples", "cond_key_type"),
     AddColumn("key_triples", "cond_key_bytes"),
     DropView(KeyView.name), CreateView(KeyViewRev10),
     AddColumn("value_triples", "owner_type"),
     Data("value triples owned by module tags", {<<"value_triples", "owner_type">>}),
     Rename("value_triples", "module_id", "owner_id"),
     DropView(ValueView.name), CreateView(ValueViewRev10) >>

LEMMA UpMiddleLength == Len(UpMiddle) = 13 /\ UpMiddle \in Seq({UpMiddle[i] : i \in 1..13})
<1>1. UpMiddle = [i \in 1..13 |-> UpMiddle[i]]
  BY DEF UpMiddle
<1> QED BY <1>1, ListBy

LEMMA UpMiddleList ==
  /\ UpMiddle[1] = Data("insert hrefs", {<<"hrefs", "id">>, <<"locators", "href">>})
  /\ UpMiddle[2] = DropColumn("locators", "href")
  /\ UpMiddle[3] = Rename("digests", "alg_id", "alg_id_int")
  /\ UpMiddle[4] = AddColumn("digests", "alg_id_text")
  /\ UpMiddle[5] = AddColumn("key_triples", "cond_key_type")
  /\ UpMiddle[6] = AddColumn("key_triples", "cond_key_bytes")
  /\ UpMiddle[7] = DropView(KeyView.name)
  /\ UpMiddle[8] = CreateView(KeyViewRev10)
  /\ UpMiddle[9] = AddColumn("value_triples", "owner_type")
  /\ UpMiddle[10] = Data("value triples owned by module tags", {<<"value_triples", "owner_type">>})
  /\ UpMiddle[11] = Rename("value_triples", "module_id", "owner_id")
  /\ UpMiddle[12] = DropView(ValueView.name)
  /\ UpMiddle[13] = CreateView(ValueViewRev10)
BY DEF UpMiddle

LEMMA SomeTables ==
  /\ "locators" \in AfterTables /\ "digests" \in AfterTables /\ "key_triples" \in AfterTables
  /\ "value_triples" \in AfterTables /\ "manifests" \in AfterTables
  /\ "module_tags" \in AfterTables /\ "cryptokeys" \in AfterTables /\ "hrefs" \in AfterTables
<1>1. NewTables[1] \in AfterTables /\ NewTables[1] = "hrefs"
  BY DEF AfterTables, NewTables
<1> QED BY <1>1, InitialTablesList DEF AfterTables, BeforeTables, First

LEMMA UpMiddleGoes ==
  Goes(UpMiddle, Schema(AfterTables, FirstColumns, FirstViews),
       Schema(AfterTables, AfterColumns, {ManifestView, ModuleTagView, KeyViewRev10, ValueViewRev10}))
<1> DEFINE
     e0 == {<<"locators", "href">>, <<"digests", "alg_id">>, <<"value_triples", "module_id">>}
     e1 == {<<"digests", "alg_id">>, <<"value_triples", "module_id">>}
     e2 == {<<"digests", "alg_id_int">>, <<"value_triples", "module_id">>}
     e3 == {<<"digests", "alg_id_int">>, <<"value_triples", "module_id">>,
            <<"digests", "alg_id_text">>}
     e4 == {<<"digests", "alg_id_int">>, <<"value_triples", "module_id">>,
            <<"digests", "alg_id_text">>, <<"key_triples", "cond_key_type">>}
     e5 == {<<"digests", "alg_id_int">>, <<"value_triples", "module_id">>,
            <<"digests", "alg_id_text">>, <<"key_triples", "cond_key_type">>,
            <<"key_triples", "cond_key_bytes">>}
     e6 == {<<"digests", "alg_id_int">>, <<"value_triples", "module_id">>,
            <<"digests", "alg_id_text">>, <<"key_triples", "cond_key_type">>,
            <<"key_triples", "cond_key_bytes">>, <<"value_triples", "owner_type">>}
     e7 == {<<"digests", "alg_id_int">>, <<"value_triples", "owner_id">>,
            <<"digests", "alg_id_text">>, <<"key_triples", "cond_key_type">>,
            <<"key_triples", "cond_key_bytes">>, <<"value_triples", "owner_type">>}
     v0 == {ManifestView, ModuleTagView, KeyView, ValueView}
     v1 == {ManifestView, ModuleTagView, ValueView}
     v2 == {ManifestView, ModuleTagView, ValueView, KeyViewRev10}
     v3 == {ManifestView, ModuleTagView, ValueViewRenamed, KeyViewRev10}
     v4 == {ManifestView, ModuleTagView, KeyViewRev10}
     v5 == {ManifestView, ModuleTagView, KeyViewRev10, ValueViewRev10}
     s0 == Schema(AfterTables, e0, v0)
     s1 == Schema(AfterTables, e0, v0)
     s2 == Schema(AfterTables, e1, v0)
     s3 == Schema(AfterTables, e2, v0)
     s4 == Schema(AfterTables, e3, v0)
     s5 == Schema(AfterTables, e4, v0)
     s6 == Schema(AfterTables, e5, v0)
     s7 == Schema(AfterTables, e5, v1)
     s8 == Schema(AfterTables, e5, v2)
     s9 == Schema(AfterTables, e6, v2)
     s10 == Schema(AfterTables, e6, v2)
     s11 == Schema(AfterTables, e7, v3)
     s12 == Schema(AfterTables, e7, v4)
     s13 == Schema(AfterTables, e7, v5)
<1>0. /\ "locators" \in AfterTables /\ "digests" \in AfterTables /\ "key_triples" \in AfterTables
      /\ "value_triples" \in AfterTables /\ "manifests" \in AfterTables
      /\ "module_tags" \in AfterTables /\ "cryptokeys" \in AfterTables /\ "hrefs" \in AfterTables
  BY SomeTables
<1>1. Does(Data("insert hrefs", {<<"hrefs", "id">>, <<"locators", "href">>}), s0, s1)
  <2>1. {<<"hrefs", "id">>, <<"locators", "href">>} \subseteq HasColumns(AfterTables, e0)
    BY <1>0 DEF HasColumns, Ids
  <2> QED BY <2>1, DataGoes
<1>2. Does(DropColumn("locators", "href"), s1, s2)
  <2>1. /\ <<"locators", "href">> \in e0 /\ e1 = e0 \ {<<"locators", "href">>}
        /\ \A v \in v0 : <<"locators", "href">> \notin v.needs
    BY Views, <1>0 DEF Tripled
  <2> HIDE DEF e0, e1, v0
  <2> QED BY <2>1, DropColumnGoes
<1>3. Does(Rename("digests", "alg_id", "alg_id_int"), s2, s3)
  <2>1. <<"digests", "alg_id">> \in e1 /\ <<"digests", "alg_id_int">> \notin e1
        /\ e2 = (e1 \ {<<"digests", "alg_id">>}) \cup {<<"digests", "alg_id_int">>}
    OBVIOUS
  <2>2. v0 = RenamedViews(v0, <<"digests", "alg_id">>, <<"digests", "alg_id_int">>)
    BY RenamesNoView, RenamedValueViews DEF FirstViews
  <2> HIDE DEF e1, e2, v0, v0
  <2> QED BY <2>1, <2>2, RenameGoes
<1>4. Does(AddColumn("digests", "alg_id_text"), s3, s4)
  <2>1. <<"digests", "alg_id_text">> \notin e2 /\ e3 = e2 \cup {<<"digests", "alg_id_text">>}
    OBVIOUS
  <2> HIDE DEF e2, e3, v0
  <2> QED BY <1>0, <2>1, AddColumnGoes
<1>5. Does(AddColumn("key_triples", "cond_key_type"), s4, s5)
  <2>1. <<"key_triples", "cond_key_type">> \notin e3 /\ e4 = e3 \cup {<<"key_triples", "cond_key_type">>}
    OBVIOUS
  <2> HIDE DEF e3, e4, v0
  <2> QED BY <1>0, <2>1, AddColumnGoes
<1>6. Does(AddColumn("key_triples", "cond_key_bytes"), s5, s6)
  <2>1. <<"key_triples", "cond_key_bytes">> \notin e4 /\ e5 = e4 \cup {<<"key_triples", "cond_key_bytes">>}
    OBVIOUS
  <2> HIDE DEF e4, e5, v0
  <2> QED BY <1>0, <2>1, AddColumnGoes
<1>7. Does(DropView(KeyView.name), s6, s7)
  <2>1. /\ \E v \in v0 : v.name = KeyView.name
        /\ v1 = {v \in v0 : v.name # KeyView.name}
    BY Views, <1>0 DEF ValueViewRenamed, ValueViewRenamedBack, OldNames
  <2> HIDE DEF e5, v0, v1
  <2> QED BY <2>1, DropViewGoes
<1>8. Does(CreateView(KeyViewRev10), s7, s8)
  <2>1. KeyViewRev10.needs \subseteq HasColumns(AfterTables, e5)
    BY Views, <1>0 DEF HasColumns, Ids, Tripled
  <2>2. (\A w \in v1 : w.name # KeyViewRev10.name) /\ v2 = v1 \cup {KeyViewRev10}
    BY Views, <1>0 DEF OldNames
  <2> HIDE DEF e5, v1, v2
  <2> QED BY <2>1, <2>2, CreateViewGoes
<1>9. Does(AddColumn("value_triples", "owner_type"), s8, s9)
  <2>1. <<"value_triples", "owner_type">> \notin e5 /\ e6 = e5 \cup {<<"value_triples", "owner_type">>}
    OBVIOUS
  <2> HIDE DEF e5, e6, v2
  <2> QED BY <1>0, <2>1, AddColumnGoes
<1>10. Does(Data("value triples owned by module tags", {<<"value_triples", "owner_type">>}), s9, s10)
  <2>1. {<<"value_triples", "owner_type">>} \subseteq HasColumns(AfterTables, e6)
    BY <1>0 DEF HasColumns, Ids
  <2> QED BY <2>1, DataGoes
<1>11. Does(Rename("value_triples", "module_id", "owner_id"), s10, s11)
  <2>1. <<"value_triples", "module_id">> \in e6 /\ <<"value_triples", "owner_id">> \notin e6
        /\ e7 = (e6 \ {<<"value_triples", "module_id">>}) \cup {<<"value_triples", "owner_id">>}
    OBVIOUS
  <2>2. v3 = RenamedViews(v2, <<"value_triples", "module_id">>, <<"value_triples", "owner_id">>)
    <3> DEFINE u == {ManifestView, ModuleTagView, KeyViewRev10}
    <3>1. v2 = u \cup {ValueView} /\ v3 = u \cup {ValueViewRenamed}
      OBVIOUS
    <3>2. Apart(u, <<"value_triples", "module_id">>)
      BY RenamedValueViews
    <3> HIDE DEF u, v2, v3
    <3> QED BY <3>1, <3>2, RenamesOneView, RenamedValueViews
  <2> HIDE DEF e6, e7, v2, v3
  <2> QED BY <2>1, <2>2, RenameGoes
<1>12. Does(DropView(ValueView.name), s11, s12)
  <2>1. /\ \E v \in v3 : v.name = ValueView.name
        /\ v4 = {v \in v3 : v.name # ValueView.name}
    BY Views, <1>0 DEF ValueViewRenamed, ValueViewRenamedBack, OldNames
  <2> HIDE DEF e7, v3, v4
  <2> QED BY <2>1, DropViewGoes
<1>13. Does(CreateView(ValueViewRev10), s12, s13)
  <2>1. ValueViewRev10.needs \subseteq HasColumns(AfterTables, e7)
    BY Views, <1>0 DEF HasColumns, Ids, Tripled
  <2>2. (\A w \in v4 : w.name # ValueViewRev10.name) /\ v5 = v4 \cup {ValueViewRev10}
    BY Views, <1>0 DEF OldNames
  <2> HIDE DEF e7, v4, v5
  <2> QED BY <2>1, <2>2, CreateViewGoes
<1> DEFINE f == <<s0, s1, s2, s3, s4, s5, s6, s7, s8, s9, s10, s11, s12, s13>>
<1> HIDE DEF s0, s1, s2, s3, s4, s5, s6, s7, s8, s9, s10, s11, s12, s13
<1>14. Goes(UpMiddle, f[1], f[Len(UpMiddle) + 1])
  <2>1. Len(UpMiddle) = 13 /\ \A i \in 1..13 : i \in {1, 2, 3, 4, 5, 6, 7, 8, 9, 10, 11, 12, 13}
    BY UpMiddleLength
  <2>3. /\ f[1] = s0 /\ f[2] = s1 /\ f[3] = s2 /\ f[4] = s3 /\ f[5] = s4 /\ f[6] = s5
        /\ f[7] = s6 /\ f[8] = s7 /\ f[9] = s8 /\ f[10] = s9 /\ f[11] = s10 /\ f[12] = s11
        /\ f[13] = s12 /\ f[14] = s13
    OBVIOUS
  <2>4. UpMiddle \in Seq({UpMiddle[i] : i \in 1..13})
    BY UpMiddleLength
  <2> HIDE DEF f
  <2>5. ASSUME NEW i \in 1..13 PROVE Does(UpMiddle[i], f[i], f[i + 1])
    <3>1. Does(UpMiddle[1], s0, s1)
      BY <1>1, UpMiddleList, Zenon
    <3>2. Does(UpMiddle[2], s1, s2)
      BY <1>2, UpMiddleList, Zenon
    <3>3. Does(UpMiddle[3], s2, s3)
      BY <1>3, UpMiddleList, Zenon
    <3>4. Does(UpMiddle[4], s3, s4)
      BY <1>4, UpMiddleList, Zenon
    <3>5. Does(UpMiddle[5], s4, s5)
      BY <1>5, UpMiddleList, Zenon
    <3>6. Does(UpMiddle[6], s5, s6)
      BY <1>6, UpMiddleList, Zenon
    <3>7. Does(UpMiddle[7], s6, s7)
      BY <1>7, UpMiddleList, Zenon
    <3>8. Does(UpMiddle[8], s7, s8)
      BY <1>8, UpMiddleList, Zenon
    <3>9. Does(UpMiddle[9], s8, s9)
      BY <1>9, UpMiddleList, Zenon
    <3>10. Does(UpMiddle[10], s9, s10)
      BY <1>10, UpMiddleList, Zenon
    <3>11. Does(UpMiddle[11], s10, s11)
      BY <1>11, UpMiddleList, Zenon
    <3>12. Does(UpMiddle[12], s11, s12)
      BY <1>12, UpMiddleList, Zenon
    <3>13. Does(UpMiddle[13], s12, s13)
      BY <1>13, UpMiddleList, Zenon
    <3> QED
      BY <2>1, <2>3, <3>1, <3>2, <3>3, <3>4, <3>5, <3>6, <3>7, <3>8, <3>9, <3>10, <3>11, <3>12, <3>13
  <2> QED BY <2>1, <2>4, <2>5, GoesThrough
<1>15. f[1] = s0 /\ f[14] = s13 /\ Len(UpMiddle) + 1 = 14
  BY UpMiddleLength
<1> HIDE DEF f
<1> QED BY <1>14, <1>15 DEF s0, s13, FirstColumns, AfterColumns, FirstViews

LEMMA GoesTwo ==
  ASSUME NEW a, NEW b, NEW s, NEW t, NEW u,
         Does(a, s, t), Does(b, t, u)
  PROVE  Goes(<<a, b>>, s, u)
<1> DEFINE p == <<a, b>>
           f == <<s, t, u>>
<1>1. p \in Seq({a, b}) /\ Len(p) = 2
  OBVIOUS
<1>2. ASSUME NEW i \in 1..2 PROVE Does(p[i], f[i], f[i + 1])
  <2>1. i \in {1, 2}
    OBVIOUS
  <2> QED BY <2>1
<1>3. f[1] = s /\ f[2 + 1] = u
  OBVIOUS
<1> HIDE DEF p, f
<1>4. Goes(p, f[1], f[Len(p) + 1])
  BY <1>1, <1>2, GoesThrough
<1>5. Goes(p, s, u)
  BY <1>1, <1>3, <1>4
<1> QED BY <1>5 DEF p

LEMMA GoesFour ==
  ASSUME NEW a, NEW b, NEW c, NEW d, NEW s, NEW t, NEW u, NEW v, NEW w,
         Does(a, s, t), Does(b, t, u), Does(c, u, v), Does(d, v, w)
  PROVE  Goes(<<a, b, c, d>>, s, w)
<1> DEFINE p == <<a, b, c, d>>
           f == <<s, t, u, v, w>>
<1>1. p \in Seq({a, b, c, d}) /\ Len(p) = 4
  OBVIOUS
<1>2. ASSUME NEW i \in 1..4 PROVE Does(p[i], f[i], f[i + 1])
  <2>1. i \in {1, 2, 3, 4}
    OBVIOUS
  <2> QED BY <2>1
<1>3. f[1] = s /\ f[4 + 1] = w
  OBVIOUS
<1> HIDE DEF p, f
<1>4. Goes(p, f[1], f[Len(p) + 1])
  BY <1>1, <1>2, GoesThrough
<1>5. Goes(p, s, w)
  BY <1>1, <1>3, <1>4
<1> QED BY <1>5 DEF p

LEMMA GoesFive ==
  ASSUME NEW a, NEW b, NEW c, NEW d, NEW e, NEW s, NEW t, NEW u, NEW v, NEW w, NEW x,
         Does(a, s, t), Does(b, t, u), Does(c, u, v), Does(d, v, w), Does(e, w, x)
  PROVE  Goes(<<a, b, c, d, e>>, s, x)
<1> DEFINE p == <<a, b, c, d, e>>
           f == <<s, t, u, v, w, x>>
<1>1. p \in Seq({a, b, c, d, e}) /\ Len(p) = 5
  OBVIOUS
<1>2. ASSUME NEW i \in 1..5 PROVE Does(p[i], f[i], f[i + 1])
  <2>1. i \in {1, 2, 3, 4, 5}
    OBVIOUS
  <2> QED BY <2>1
<1>3. f[1] = s /\ f[5 + 1] = x
  OBVIOUS
<1> HIDE DEF p, f
<1>4. Goes(p, f[1], f[Len(p) + 1])
  BY <1>1, <1>2, GoesThrough
<1>5. Goes(p, s, x)
  BY <1>1, <1>3, <1>4
<1> QED BY <1>5 DEF p

\* The statements of Down0003 that drop no table and no view for good.
DownMiddle ==
  KeysBack \o KeyTriplesBack \o DigestsBack \o LocatorsBack \o ValueTriplesBack

LEMMA DownMiddleGoes ==
  Goes(DownMiddle, Schema(AfterTables, AfterColumns, {ManifestView, ModuleTagView, KeyViewRev10, ValueViewRev10} \cup ViewsOfNew),
       Schema(AfterTables, FirstColumns, FirstViews \cup ViewsOfNew))
<1> DEFINE
     e0 == {<<"digests", "alg_id_int">>, <<"digests", "alg_id_text">>,
            <<"key_triples", "cond_key_type">>, <<"key_triples", "cond_key_bytes">>,
            <<"value_triples", "owner_id">>, <<"value_triples", "owner_type">>}
     e1 == {<<"digests", "alg_id_int">>, <<"digests", "alg_id_text">>,
            <<"key_triples", "cond_key_type">>, <<"value_triples", "owner_id">>,
            <<"value_triples", "owner_type">>}
     e2 == {<<"digests", "alg_id_int">>, <<"digests", "alg_id_text">>,
            <<"value_triples", "owner_id">>, <<"value_triples", "owner_type">>}
     e3 == {<<"digests", "alg_id_int">>, <<"value_triples", "owner_id">>,
            <<"value_triples", "owner_type">>}
     e4 == {<<"digests", "alg_id">>, <<"value_triples", "owner_id">>,
            <<"value_triples", "owner_type">>}
     e5 == {<<"digests", "alg_id">>, <<"value_triples", "owner_id">>,
            <<"value_triples", "owner_type">>, <<"locators", "href">>}
     e6 == {<<"digests", "alg_id">>, <<"value_triples", "module_id">>,
            <<"value_triples", "owner_type">>, <<"locators", "href">>}
     e7 == {<<"digests", "alg_id">>, <<"value_triples", "module_id">>, <<"locators", "href">>}
     v0 == {ManifestView, ModuleTagView, KeyViewRev10, ValueViewRev10} \cup ViewsOfNew
     v1 == {ManifestView, ModuleTagView, ValueViewRev10} \cup ViewsOfNew
     v2 == {ManifestView, ModuleTagView, ValueViewRev10, KeyView} \cup ViewsOfNew
     v3 == {ManifestView, ModuleTagView, ValueViewRenamedBack, KeyView} \cup ViewsOfNew
     v4 == {ManifestView, ModuleTagView, KeyView} \cup ViewsOfNew
     v5 == {ManifestView, ModuleTagView, KeyView, ValueView} \cup ViewsOfNew
     s0 == Schema(AfterTables, e0, v0)
     s1 == Schema(AfterTables, e0, v0)
     s2 == Schema(AfterTables, e0, v0)
     s3 == Schema(AfterTables, e0, v1)
     s4 == Schema(AfterTables, e0, v2)
     s5 == Schema(AfterTables, e1, v2)
     s6 == Schema(AfterTables, e2, v2)
     s7 == Schema(AfterTables, e3, v2)
     s8 == Schema(AfterTables, e4, v2)
     s9 == Schema(AfterTables, e5, v2)
     s10 == Schema(AfterTables, e5, v2)
     s11 == Schema(AfterTables, e6, v3)
     s12 == Schema(AfterTables, e6, v3)
     s13 == Schema(AfterTables, e6, v4)
     s14 == Schema(AfterTables, e6, v5)
     s15 == Schema(AfterTables, e7, v5)
<1>0. /\ "locators" \in AfterTables /\ "digests" \in AfterTables /\ "key_triples" \in AfterTables
      /\ "value_triples" \in AfterTables /\ "manifests" \in AfterTables
      /\ "module_tags" \in AfterTables /\ "cryptokeys" \in AfterTables /\ "hrefs" \in AfterTables
      /\ \A v \in ViewsOfNew : v.name \notin OldNames /\ \A c \in v.needs : c[2] = "id"
  BY SomeTables, NewViewsList DEF Ids
<1>1. Does(Data("delete keys of values", Ids({"cryptokeys"})), s0, s1)
  <2>1. Ids({"cryptokeys"}) \subseteq HasColumns(AfterTables, e0)
    BY <1>0 DEF HasColumns, Ids
  <2> QED BY <2>1, DataGoes
<1>2. Does(Data("restore authority", Ids({"cryptokeys"})), s1, s2)
  <2>1. Ids({"cryptokeys"}) \subseteq HasColumns(AfterTables, e0)
    BY <1>0 DEF HasColumns, Ids
  <2> QED BY <2>1, DataGoes
<1>3. Does(DropView(KeyView.name), s2, s3)
  <2>1. /\ \E v \in v0 : v.name = KeyView.name
        /\ v1 = {v \in v0 : v.name # KeyView.name}
    BY Views, <1>0 DEF ValueViewRenamed, ValueViewRenamedBack, OldNames
  <2> HIDE DEF e0, v0, v1
  <2> QED BY <2>1, DropViewGoes
<1>4. Does(CreateView(KeyView), s3, s4)
  <2>1. KeyView.needs \subseteq HasColumns(AfterTables, e0)
    BY Views, <1>0 DEF HasColumns, Ids, Tripled
  <2>2. (\A w \in v1 : w.name # KeyView.name) /\ v2 = v1 \cup {KeyView}
    BY Views, <1>0 DEF OldNames
  <2> HIDE DEF e0, v1, v2
  <2> QED BY <2>1, <2>2, CreateViewGoes
<1>5. Does(DropColumn("key_triples", "cond_key_bytes"), s4, s5)
  <2>1. /\ <<"key_triples", "cond_key_bytes">> \in e0 /\ e1 = e0 \ {<<"key_triples", "cond_key_bytes">>}
        /\ \A v \in v2 : <<"key_triples", "cond_key_bytes">> \notin v.needs
    BY Views, <1>0 DEF Tripled
  <2> HIDE DEF e0, e1, v2
  <2> QED BY <2>1, DropColumnGoes
<1>6. Does(DropColumn("key_triples", "cond_key_type"), s5, s6)
  <2>1. /\ <<"key_triples", "cond_key_type">> \in e1 /\ e2 = e1 \ {<<"key_triples", "cond_key_type">>}
        /\ \A v \in v2 : <<"key_triples", "cond_key_type">> \notin v.needs
    BY Views, <1>0 DEF Tripled
  <2> HIDE DEF e1, e2, v2
  <2> QED BY <2>1, DropColumnGoes
<1>7. Does(DropColumn("digests", "alg_id_text"), s6, s7)
  <2>1. /\ <<"digests", "alg_id_text">> \in e2 /\ e3 = e2 \ {<<"digests", "alg_id_text">>}
        /\ \A v \in v2 : <<"digests", "alg_id_text">> \notin v.needs
    BY Views, <1>0 DEF Tripled
  <2> HIDE DEF e2, e3, v2
  <2> QED BY <2>1, DropColumnGoes
<1>8. Does(Rename("digests", "alg_id_int", "alg_id"), s7, s8)
  <2>1. <<"digests", "alg_id_int">> \in e3 /\ <<"digests", "alg_id">> \notin e3
        /\ e4 = (e3 \ {<<"digests", "alg_id_int">>}) \cup {<<"digests", "alg_id">>}
    OBVIOUS
  <2>2. v2 = RenamedViews(v2, <<"digests", "alg_id_int">>, <<"digests", "alg_id">>)
    BY RenamesNoView, RenamedValueViews DEF FirstViews
  <2> HIDE DEF e3, e4, v2, v2
  <2> QED BY <2>1, <2>2, RenameGoes
<1>9. Does(AddColumn("locators", "href"), s8, s9)
  <2>1. <<"locators", "href">> \notin e4 /\ e5 = e4 \cup {<<"locators", "href">>}
    OBVIOUS
  <2> HIDE DEF e4, e5, v2
  <2> QED BY <1>0, <2>1, AddColumnGoes
<1>10. Does(Data("update locators", {<<"locators", "href">>, <<"hrefs", "id">>}), s9, s10)
  <2>1. {<<"locators", "href">>, <<"hrefs", "id">>} \subseteq HasColumns(AfterTables, e5)
    BY <1>0 DEF HasColumns, Ids
  <2> QED BY <2>1, DataGoes
<1>11. Does(Rename("value_triples", "owner_id", "module_id"), s10, s11)
  <2>1. <<"value_triples", "owner_id">> \in e5 /\ <<"value_triples", "module_id">> \notin e5
        /\ e6 = (e5 \ {<<"value_triples", "owner_id">>}) \cup {<<"value_triples", "module_id">>}
    OBVIOUS
  <2>2. v3 = RenamedViews(v2, <<"value_triples", "owner_id">>, <<"value_triples", "module_id">>)
    <3> DEFINE u == {ManifestView, ModuleTagView, KeyView} \cup ViewsOfNew
    <3>1. v2 = u \cup {ValueViewRev10} /\ v3 = u \cup {ValueViewRenamedBack}
      OBVIOUS
    <3>2. Apart(u, <<"value_triples", "owner_id">>)
      BY RenamedValueViews
    <3> HIDE DEF u, v2, v3
    <3> QED BY <3>1, <3>2, RenamesOneView, RenamedValueViews
  <2> HIDE DEF e5, e6, v2, v3
  <2> QED BY <2>1, <2>2, RenameGoes
<1>12. Does(Data("delete values of others", {<<"value_triples", "owner_type">>}), s11, s12)
  <2>1. {<<"value_triples", "owner_type">>} \subseteq HasColumns(AfterTables, e6)
    BY <1>0 DEF HasColumns, Ids
  <2> QED BY <2>1, DataGoes
<1>13. Does(DropView(ValueView.name), s12, s13)
  <2>1. /\ \E v \in v3 : v.name = ValueView.name
        /\ v4 = {v \in v3 : v.name # ValueView.name}
    BY Views, <1>0 DEF ValueViewRenamed, ValueViewRenamedBack, OldNames
  <2> HIDE DEF e6, v3, v4
  <2> QED BY <2>1, DropViewGoes
<1>14. Does(CreateView(ValueView), s13, s14)
  <2>1. ValueView.needs \subseteq HasColumns(AfterTables, e6)
    BY Views, <1>0 DEF HasColumns, Ids, Tripled
  <2>2. (\A w \in v4 : w.name # ValueView.name) /\ v5 = v4 \cup {ValueView}
    BY Views, <1>0 DEF OldNames
  <2> HIDE DEF e6, v4, v5
  <2> QED BY <2>1, <2>2, CreateViewGoes
<1>15. Does(DropColumn("value_triples", "owner_type"), s14, s15)
  <2>1. /\ <<"value_triples", "owner_type">> \in e6 /\ e7 = e6 \ {<<"value_triples", "owner_type">>}
        /\ \A v \in v5 : <<"value_triples", "owner_type">> \notin v.needs
    BY Views, <1>0 DEF Tripled
  <2> HIDE DEF e6, e7, v5
  <2> QED BY <2>1, DropColumnGoes
<1> HIDE DEF s0, s1, s2, s3, s4, s5, s6, s7, s8, s9, s10, s11, s12, s13, s14, s15
<1>16. Goes(KeysBack, s0, s2)
  BY <1>1, <1>2, GoesTwo, Zenon DEF KeysBack
<1>17. Goes(KeyTriplesBack, s2, s6)
  BY <1>3, <1>4, <1>5, <1>6, GoesFour, Zenon DEF KeyTriplesBack
<1>18. Goes(DigestsBack, s6, s8)
  BY <1>7, <1>8, GoesTwo, Zenon DEF DigestsBack
<1>19. Goes(LocatorsBack, s8, s10)
  BY <1>9, <1>10, GoesTwo, Zenon DEF LocatorsBack
<1>20. Goes(ValueTriplesBack, s10, s15)
  BY <1>11, <1>12, <1>13, <1>14, <1>15, GoesFive, Zenon DEF ValueTriplesBack
<1> QED
  BY <1>16, <1>17, <1>18, <1>19, <1>20, GoesJoin
     DEF DownMiddle, s0, s15, FirstColumns, AfterColumns, FirstViews

LastViews == {ManifestView, ModuleTagView, KeyViewRev10, ValueViewRev10}

LEMMA Up0003Goes ==
  Goes(Up0003, Schema(BeforeTables, FirstColumns, FirstViews),
       Schema(AfterTables, AfterColumns, LastViews \cup ViewsOfNew))
<1> DEFINE creates == [i \in DOMAIN NewTables |-> Create(NewTables[i], {})]
           views == [i \in DOMAIN NewViews |-> CreateView(NewViews[i])]
           cols == [i \in 1..7 |-> {}]
<1>1. Goes(creates, Schema(BeforeTables, FirstColumns, FirstViews),
           Schema(AfterTables, FirstColumns, FirstViews))
  <2>1. creates \in Seq({creates[i] : i \in 1..7}) /\ Len(creates) = 7
    <3>1. creates = [i \in 1..7 |-> creates[i]]
      BY NewTablesList
    <3> HIDE DEF creates
    <3> QED BY <3>1, ListBy
  <2>2. \A i \in 1..7 : creates[i] = Create(NewTables[i], cols[i])
    BY NewTablesList
  <2>3. AfterTables = BeforeTables \cup AllOf(NewTables, 7)
        /\ FirstColumns = FirstColumns \cup AllColumns(NewTables, cols, 7)
    BY DEF AfterTables, AllOf, AllColumns
  <2>4. Columns(FirstColumns) /\ \A i \in 1..7 : "id" \notin cols[i]
    BY DEF Columns, FirstColumns
  <2> HIDE DEF creates, cols
  <2>5. Goes(creates, Schema(BeforeTables, FirstColumns, FirstViews),
             Schema(BeforeTables \cup AllOf(NewTables, Len(creates)),
                    FirstColumns \cup AllColumns(NewTables, cols, Len(creates)), FirstViews))
    BY <2>1, <2>2, <2>4, NewTablesList, CreatesGo
  <2> QED BY <2>1, <2>3, <2>5
<1>2. Goes(views, Schema(AfterTables, AfterColumns, LastViews),
           Schema(AfterTables, AfterColumns, LastViews \cup ViewsOfNew))
  <2>1. views \in Seq({views[i] : i \in 1..4}) /\ Len(views) = 4
    <3>1. views = [i \in 1..4 |-> views[i]]
      BY NewViewsList
    <3> HIDE DEF views
    <3> QED BY <3>1, ListBy
  <2>2. \A i \in 1..4 : views[i] = CreateView(NewViews[i])
    BY NewViewsList
  <2>3. ViewsOfNew = AllOf(NewViews, 4)
    BY DEF ViewsOfNew, AllOf
  <2>4. \A i \in 1..4 : /\ NewViews[i].needs \subseteq HasColumns(AfterTables, AfterColumns)
                        /\ \A w \in LastViews : w.name # NewViews[i].name
    <3>1. \A w \in LastViews : w.name \in OldNames
      BY Views DEF LastViews, OldNames
    <3> QED BY <3>1, NewViewsList DEF ViewsOfNew, HasColumns
  <2> HIDE DEF views
  <2> QED BY <2>1, <2>2, <2>3, <2>4, NewViewsList, CreateViewsGo
<1>3. Goes(<< Data("rename authority", Ids({"cryptokeys"})) >>,
           Schema(AfterTables, AfterColumns, LastViews \cup ViewsOfNew),
           Schema(AfterTables, AfterColumns, LastViews \cup ViewsOfNew))
  <2>1. Ids({"cryptokeys"}) \subseteq HasColumns(AfterTables, AfterColumns)
    BY SomeTables DEF Ids, HasColumns
  <2> QED BY <2>1, DataGoes, GoesOne
<1>4. Up0003 = creates \o UpMiddle \o views \o << Data("rename authority", Ids({"cryptokeys"})) >>
  BY DEF Up0003, UpMiddle
<1> HIDE DEF creates, views
<1> QED BY <1>1, <1>2, <1>3, <1>4, UpMiddleGoes, GoesJoin DEF LastViews

LEMMA Down0003Goes ==
  Goes(Down0003, Schema(AfterTables, AfterColumns, LastViews \cup ViewsOfNew),
       Schema(BeforeTables, FirstColumns, FirstViews))
<1> DEFINE views == [i \in DOMAIN NewViews |-> DropView(NewViews[i].name)]
           drops == [i \in DOMAIN NewTables |-> DropTable(NewTables[i])]
           t == [i \in 1..7 |-> NewTables[8 - i]]
<1>1. Goes(views, Schema(AfterTables, FirstColumns, FirstViews \cup ViewsOfNew),
           Schema(AfterTables, FirstColumns, FirstViews))
  <2>1. views \in Seq({views[i] : i \in 1..4}) /\ Len(views) = 4
    <3>1. views = [i \in 1..4 |-> views[i]]
      BY NewViewsList
    <3> HIDE DEF views
    <3> QED BY <3>1, ListBy
  <2>2. \A i \in 1..4 : views[i] = DropView(NewViews[i].name)
    BY NewViewsList
  <2>3. \A w \in FirstViews : w.name \in OldNames
    BY Views DEF FirstViews, OldNames
  <2>4. \A i \in 1..4 : /\ NewViews[i] \in FirstViews \cup ViewsOfNew
                        /\ \A w \in FirstViews \cup ViewsOfNew :
                             w.name = NewViews[i].name => w = NewViews[i]
    BY <2>3, NewViewsList DEF ViewsOfNew
  <2>5. FirstViews = (FirstViews \cup ViewsOfNew) \ AllOf(NewViews, 4)
    BY <2>3, NewViewsList DEF ViewsOfNew, AllOf
  <2> HIDE DEF views
  <2>6. Goes(views, Schema(AfterTables, FirstColumns, FirstViews \cup ViewsOfNew),
             Schema(AfterTables, FirstColumns,
                    (FirstViews \cup ViewsOfNew) \ AllOf(NewViews, Len(views))))
    BY <2>1, <2>2, <2>4, NewViewsList, DropViewsGo
  <2> QED BY <2>1, <2>5, <2>6
<1>2. Goes(Reverse(drops), Schema(AfterTables, FirstColumns, FirstViews),
           Schema(BeforeTables, FirstColumns, FirstViews))
  <2> DEFINE p == Reverse(drops)
  <2>1. drops \in Seq({drops[i] : i \in 1..7}) /\ Len(drops) = 7
    <3>1. drops = [i \in 1..7 |-> drops[i]]
      BY NewTablesList
    <3> HIDE DEF drops
    <3> QED BY <3>1, ListBy
  <2>2. p = [i \in 1..7 |-> drops[8 - i]]
    <3>1. p = [i \in 1..7 |-> drops[(7 - i) + 1]]
      BY <2>1 DEF Reverse
    <3>2. \A i \in 1..7 : (7 - i) + 1 = 8 - i
      OBVIOUS
    <3> QED BY <3>1, <3>2
  <2>3. \A i \in 1..7 : p[i] = DropTable(t[i])
    BY <2>2, NewTablesList
  <2>4. p \in Seq({p[i] : i \in 1..7}) /\ Len(p) = 7
    <3>1. p = [i \in 1..7 |-> p[i]]
      BY <2>2
    <3> HIDE DEF p
    <3> QED BY <3>1, ListBy
  <2>5. AllOf(t, 7) = {NewTables[i] : i \in 1..7}
    <3>1. \A i \in 1..7 : 8 - i \in 1..7 /\ 8 - (8 - i) = i
      OBVIOUS
    <3> QED BY <3>1 DEF AllOf
  <2>6. BeforeTables = AfterTables \ AllOf(t, 7)
    BY <2>5, NewTablesList DEF AfterTables
  <2>7. \A v \in FirstViews : \A c \in v.needs : c[1] \in BeforeTables
    BY Views, InitialTablesList DEF FirstViews, Tripled, BeforeTables, First
  <2>8. \A i \in 1..7 : t[i] \notin BeforeTables
    BY NewTablesList
  <2>9. FirstColumns = Outside(FirstColumns, t, 7)
    <3>1. \A c \in FirstColumns : c[1] \in BeforeTables
      BY InitialTablesList DEF FirstColumns, BeforeTables, First
    <3> QED BY <2>8, <3>1 DEF Outside
  <2>10. Columns(FirstColumns)
    BY DEF Columns, FirstColumns
  <2> HIDE DEF p, t
  <2>11. Goes(p, Schema(AfterTables, FirstColumns, FirstViews),
              Schema(AfterTables \ AllOf(t, Len(p)), Outside(FirstColumns, t, Len(p)), FirstViews))
    BY <2>3, <2>4, <2>7, <2>8, <2>10, DropTablesGo
  <2>12. Goes(p, Schema(AfterTables, FirstColumns, FirstViews),
              Schema(BeforeTables, FirstColumns, FirstViews))
    BY <2>4, <2>6, <2>9, <2>11
  <2> QED BY <2>12 DEF p
<1>3. Down0003 = DownMiddle \o views \o Reverse(drops)
  BY DEF Down0003, DownMiddle
<1> HIDE DEF views, drops
<1> QED BY <1>1, <1>2, <1>3, DownMiddleGoes, GoesJoin DEF LastViews
-----------------------------------------------------------------------------
LEMMA Schemas ==
  /\ SchemaOf(0) = Schema({}, {}, {})
  /\ SchemaOf(1) = Schema(FirstTables, FirstColumns, {})
  /\ SchemaOf(2) = Schema(FirstTables, FirstColumns, FirstViews)
  /\ SchemaOf(3) = Schema(BeforeTables, FirstColumns, FirstViews)
  /\ SchemaOf(4) = Schema(AfterTables, AfterColumns, LastViews \cup ViewsOfNew)
  /\ SchemaOf(3) = SchemaBefore0003 /\ SchemaOf(4) = CurrentSchema
<1>1. SchemaOf(0) = Schema({}, {}, {})
  BY DEF SchemaOf, Schema, EmptySchema, HasColumns, Ids
<1>2. SchemaBefore0003 = Schema(BeforeTables, FirstColumns, FirstViews)
  BY DEF SchemaBefore0003, Schema, BeforeTables, FirstColumns
<1>3. HasColumns(BeforeTables, FirstColumns) \ Ids({"tokens"}) = HasColumns(FirstTables, FirstColumns)
  BY InitialTablesList DEF HasColumns, Ids, BeforeTables, FirstColumns, First
<1>4. CurrentSchema = Schema(AfterTables, AfterColumns, LastViews \cup ViewsOfNew)
  <2>1. {NewTables[i] : i \in DOMAIN NewTables} = {NewTables[i] : i \in 1..7}
        /\ {NewViews[i] : i \in DOMAIN NewViews} = ViewsOfNew
    BY NewTablesList, NewViewsList DEF ViewsOfNew
  <2> QED
    BY <2>1 DEF CurrentSchema, Schema, AfterTables, BeforeTables, AfterColumns, LastViews
<1>5. SchemaOf(4) = CurrentSchema /\ SchemaOf(3) = SchemaBefore0003
  BY DEF SchemaOf
<1>6. SchemaOf(2) = [SchemaBefore0003 EXCEPT !.columns = @ \ Ids({"tokens"})]
      /\ SchemaOf(1) = [SchemaBefore0003 EXCEPT !.columns = @ \ Ids({"tokens"}), !.views = {}]
  BY DEF SchemaOf
<1>7. SchemaOf(2) = Schema(FirstTables, FirstColumns, FirstViews)
      /\ SchemaOf(1) = Schema(FirstTables, FirstColumns, {})
  BY <1>2, <1>3, <1>6 DEF Schema
<1> QED BY <1>1, <1>2, <1>4, <1>5, <1>7

\* Up and down: every migration leads from the schema of its predecessors to the next.
LEMMA MigrationsGo ==
  \A m \in 1..4 : /\ Goes(Up[m], SchemaOf(m - 1), SchemaOf(m))
                  /\ Goes(Down[m], SchemaOf(m), SchemaOf(m - 1))
<1>1. /\ Up[1] = Up0000 /\ Up[2] = Up0001 /\ Up[3] = Up0002 /\ Up[4] = Up0003
      /\ Down[1] = Down0000 /\ Down[2] = Down0001 /\ Down[3] = Down0002 /\ Down[4] = Down0003
  BY DEF Up, Down
<1>2. \A m \in 1..4 : m \in {1, 2, 3, 4}
  OBVIOUS
<1>3. Goes(Up0000, SchemaOf(0), SchemaOf(1)) /\ Goes(Down0000, SchemaOf(1), SchemaOf(0))
  BY Goes0000, Schemas
<1>4. Goes(Up0001, SchemaOf(1), SchemaOf(2)) /\ Goes(Down0001, SchemaOf(2), SchemaOf(1))
  BY Goes0001, Schemas
<1>5. Goes(Up0002, SchemaOf(2), SchemaOf(3)) /\ Goes(Down0002, SchemaOf(3), SchemaOf(2))
  BY Goes0002, Schemas
<1>6. Goes(Up0003, SchemaOf(3), SchemaOf(4)) /\ Goes(Down0003, SchemaOf(4), SchemaOf(3))
  BY Up0003Goes, Down0003Goes, Schemas
<1> QED BY <1>1, <1>2, <1>3, <1>4, <1>5, <1>6
-----------------------------------------------------------------------------
(* What each kind of statement does to the rows.                           *)

\* Nobody has what is gone.
LEMMA GoneMoves == ASSUME NEW st, NEW y PROVE Moves(st, Gone, y)
BY DEF Moves, Kept, Gone, Stage, HrefPart

\* A statement that changes no row.
Still(st) ==
  \/ st.do \in {"create", "add column", "rename", "create views", "drop views"}
  \/ st.do = "drop column" /\ st.column \notin {<<"locators", "href">>, <<"value_triples", "owner_type">>}

LEMMA StillMoves == ASSUME NEW st, Still(st), NEW x PROVE Moves(st, x, x)
<1>1. \A R : RowsAfter(st, R) = {R}
  BY DEF Still, RowsAfter
<1> QED BY <1>1 DEF Moves

\* A row with another type or value.
OtherColumns(r) ==
  /\ \A a : /\ Typ(r, a).typ = a /\ Typ(r, a).tbl = r.tbl
           /\ Typ(r, a).id = r.id /\ Typ(r, a).val = r.val /\ IsRow(Typ(r, a))
           /\ Val(r, a).val = a /\ Val(r, a).tbl = r.tbl /\ Val(r, a).id = r.id
           /\ IsRow(Val(r, a))
  /\ \A a, b : Typ(Typ(r, a), b) = Typ(r, b) /\ Val(Val(r, a), b) = Val(r, b)
  /\ Typ(r, r.typ) = r /\ Val(r, r.val) = r

LEMMA ColumnsChange == ASSUME NEW r, IsRow(r) PROVE OtherColumns(r)
<1> DEFINE row(typ, val) == [tbl |-> r.tbl, id |-> r.id, own |-> r.own, typ |-> typ, val |-> val]
<1>1. r = row(r.typ, r.val)
  BY DEF IsRow, Row
<1>2. \A b, c, d : [row(b, c) EXCEPT !.typ = d] = row(d, c) /\ [row(b, c) EXCEPT !.val = d] = row(b, d)
  OBVIOUS
<1>3. \A b, c : /\ row(b, c).tbl = r.tbl /\ row(b, c).id = r.id /\ row(b, c).own = r.own
                /\ row(b, c).typ = b /\ row(b, c).val = c
                /\ row(b, c) = Row(r.tbl, r.id, r.own, b, c)
  BY DEF Row
<1>4. r.id \in Nat
  BY DEF IsRow
<1> HIDE DEF row
<1>5. \A b : Typ(r, b) = row(b, r.val) /\ Val(r, b) = row(r.typ, b)
  BY <1>1, <1>2 DEF Typ, Val
<1>6. \A a, b : Typ(row(a, r.val), b) = row(b, r.val) /\ Val(row(r.typ, a), b) = row(r.typ, b)
  BY <1>2 DEF Typ, Val
<1>7. \A b, c : IsRow(row(b, c))
  BY <1>3, <1>4 DEF IsRow
<1> QED BY <1>1, <1>3, <1>5, <1>6, <1>7 DEF OtherColumns

\* What the rows of documents are like, of either age.
LEMMA RowsFacts ==
  /\ \A t : \A r \in OldOf(t) \cup NewOf(t) : IsRow(r)
  /\ \A r \in OldRows : r.tbl # "tokens" /\ \A i \in 1..7 : r.tbl # NewTables[i]
  /\ \A r \in OldOf("value_triples") : r.typ = None
  /\ \A r \in OldOf("cryptokeys") : r.typ # "measurement_auth"
<1>1. \A i \in 1..7 : NewTables[i] \in ToSet(NewTables)
  BY NewTablesList DEF ToSet
<1> QED BY <1>1, RowsAssumption DEF OldOf, NewOf, RowsOf, IsRow

LEMMA DropMoves ==
  ASSUME NEW t, t \notin Told, t # "hrefs", \A r \in OldRows : r.tbl # t, NEW x
  PROVE  Moves(DropTable(t), x, x)
<1> SUFFICES ASSUME NEW s, s # {}, NEW R, Kept(x, s, R), NEW Q \in RowsAfter(DropTable(t), R)
             PROVE  Kept(x, s, Q)
  BY DEF Moves, Kept
<1>1. Q = R \ RowsOf(R, t)
  BY DEF RowsAfter, DropTable
<1>2. \A u : u # t => RowsOf(Q, u) = RowsOf(R, u)
  BY <1>1 DEF RowsOf
<1>3. /\ RowsOf(Q, "locators") = RowsOf(R, "locators") /\ RowsOf(Q, "hrefs") = RowsOf(R, "hrefs")
      /\ RowsOf(Q, "value_triples") = RowsOf(R, "value_triples")
      /\ RowsOf(Q, "cryptokeys") = RowsOf(R, "cryptokeys")
  BY <1>2 DEF Told
<1>4. RestPart(s, Q)
  BY <1>2 DEF Kept, RestPart
<1>5. AreRows(Q)
  BY <1>1 DEF Kept, AreRows
<1> QED BY <1>3, <1>4, <1>5 DEF Kept

LEMMA DropHrefsMoves ==
  ASSUME \A r \in OldRows : r.tbl # "hrefs", NEW v, NEW k
  PROVE  Moves(DropTable("hrefs"), Stage("both", v, k), Stage("column", v, k))
<1> SUFFICES ASSUME NEW s, s # {}, NEW R, Kept(Stage("both", v, k), s, R),
                    NEW Q \in RowsAfter(DropTable("hrefs"), R)
             PROVE  Kept(Stage("column", v, k), s, Q)
  BY DEF Moves, Kept
<1>1. Q = R \ RowsOf(R, "hrefs")
  BY DEF RowsAfter, DropTable
<1>2. \A u : u # "hrefs" => RowsOf(Q, u) = RowsOf(R, u)
  BY <1>1 DEF RowsOf
<1>3. /\ RowsOf(Q, "locators") = RowsOf(R, "locators") /\ RowsOf(Q, "hrefs") = {}
      /\ RowsOf(Q, "value_triples") = RowsOf(R, "value_triples")
      /\ RowsOf(Q, "cryptokeys") = RowsOf(R, "cryptokeys")
  BY <1>1, <1>2 DEF RowsOf, AreRows
<1>4. RestPart(s, Q)
  BY <1>2 DEF Kept, RestPart
<1>5. AreRows(Q)
  BY <1>1 DEF Kept, AreRows
<1>6. HrefPart("column", s, RowsOf(R, "locators"), {})
  BY DEF Kept, Stage, HrefPart
<1> QED BY <1>3, <1>4, <1>5, <1>6 DEF Kept, Stage

\* Changes of one column of the rows of one table.
Retypes(R, Q, t, from, to) ==
  /\ AreRows(Q)
  /\ \A u : u # t => RowsOf(Q, u) = RowsOf(R, u)
  /\ \A r \in RowsOf(R, t) :
       /\ r.typ \in from => Typ(r, to) \in RowsOf(Q, t)
       /\ r.typ \notin from => r \in RowsOf(Q, t)

LEMMA Retyped ==
  ASSUME NEW R, AreRows(R), NEW t, NEW from, NEW to,
         NEW Q, Q = UpdateTypes(R, t, from, to)
  PROVE  Retypes(R, Q, t, from, to)
<1> DEFINE g(r) == IF r.tbl = t /\ r.typ \in from THEN Typ(r, to) ELSE r
<1>1. Q = {g(r) : r \in R}
  BY DEF UpdateTypes, Typ
<1>2. ASSUME NEW r \in R PROVE IsRow(g(r)) /\ g(r).tbl = r.tbl
  <2>1. IsRow(r)
    BY DEF AreRows
  <2> QED BY <2>1, ColumnsChange DEF OtherColumns
<1>3. \A r \in R : r.tbl # t => g(r) = r
  OBVIOUS
<1>4. \A r \in R : r.tbl = t => g(r) = IF r.typ \in from THEN Typ(r, to) ELSE r
  OBVIOUS
<1> HIDE DEF g
<1>5. ASSUME NEW u, u # t PROVE RowsOf(Q, u) = RowsOf(R, u)
  BY <1>1, <1>2, <1>3, <1>5 DEF RowsOf
<1>6. ASSUME NEW r \in RowsOf(R, t)
      PROVE  /\ r.typ \in from => Typ(r, to) \in RowsOf(Q, t)
             /\ r.typ \notin from => r \in RowsOf(Q, t)
  <2>1. g(r) \in Q /\ g(r).tbl = t
    BY <1>1, <1>2 DEF RowsOf, AreRows
  <2> QED BY <1>4, <2>1 DEF RowsOf
<1>7. AreRows(Q)
  BY <1>1, <1>2 DEF AreRows
<1> QED BY <1>5, <1>6, <1>7 DEF Retypes

\* A statement that changes the rows of one table leaves the rest.
LEMMA KeptButValues ==
  ASSUME NEW x, NEW s, NEW R, s # {}, Kept(x, s, R),
         NEW Q, AreRows(Q), \A u : u # "value_triples" => RowsOf(Q, u) = RowsOf(R, u),
         NEW y, y.h = x.h, y.k = x.k, ValuePart(y.v, s, RowsOf(Q, "value_triples"))
  PROVE  Kept(y, s, Q)
<1>1. /\ RowsOf(Q, "locators") = RowsOf(R, "locators") /\ RowsOf(Q, "hrefs") = RowsOf(R, "hrefs")
      /\ RowsOf(Q, "cryptokeys") = RowsOf(R, "cryptokeys")
  OBVIOUS
<1>2. RestPart(s, Q)
  BY DEF Kept, RestPart, Told
<1> QED BY <1>1, <1>2 DEF Kept

LEMMA KeptButKeys ==
  ASSUME NEW x, NEW s, NEW R, s # {}, Kept(x, s, R),
         NEW Q, AreRows(Q), \A u : u # "cryptokeys" => RowsOf(Q, u) = RowsOf(R, u),
         NEW y, y.h = x.h, y.v = x.v, KeyPart(y.k, s, RowsOf(Q, "cryptokeys"))
  PROVE  Kept(y, s, Q)
<1>1. /\ RowsOf(Q, "locators") = RowsOf(R, "locators") /\ RowsOf(Q, "hrefs") = RowsOf(R, "hrefs")
      /\ RowsOf(Q, "value_triples") = RowsOf(R, "value_triples")
  OBVIOUS
<1>2. RestPart(s, Q)
  BY DEF Kept, RestPart, Told
<1> QED BY <1>1, <1>2 DEF Kept

LEMMA OwnedMoves ==
  ASSUME NEW needs, NEW h, NEW k
  PROVE  Moves(Data("value triples owned by module tags", needs), Stage(h, "none", k), Stage(h, "tag", k))
<1> DEFINE st == Data("value triples owned by module tags", needs)
           x == Stage(h, "none", k)
           y == Stage(h, "tag", k)
<1> SUFFICES ASSUME NEW s, s # {}, NEW R, Kept(x, s, R), NEW Q \in RowsAfter(st, R)
             PROVE  Kept(y, s, Q)
  BY DEF Moves, Kept
<1>1. Q = UpdateTypes(R, "value_triples", {r.typ : r \in R}, "module_tag")
  BY DEF RowsAfter, Data, DataAfter
<1>2. AreRows(R) /\ ValuePart("none", s, RowsOf(R, "value_triples"))
  BY DEF Kept, Stage
<1>3. /\ AreRows(Q)
      /\ \A u : u # "value_triples" => RowsOf(Q, u) = RowsOf(R, u)
      /\ \A r \in RowsOf(R, "value_triples") : Typ(r, "module_tag") \in RowsOf(Q, "value_triples")
  <2> PICK from : from = {q.typ : q \in R}
    OBVIOUS
  <2>1. \A r \in RowsOf(R, "value_triples") : r.typ \in from
    BY DEF RowsOf
  <2>3. Q = UpdateTypes(R, "value_triples", from, "module_tag")
    BY <1>1, Zenon
  <2>4. Retypes(R, Q, "value_triples", from, "module_tag")
    BY <1>2, <2>3, Retyped
  <2> QED BY <2>1, <2>4 DEF Retypes
<1>4. ASSUME NEW r \in NewOf("value_triples"), r.typ = "module_tag"
      PROVE  Typ(Typ(r, None), "module_tag") = r
  <2>1. IsRow(r)
    BY RowsFacts
  <2>2. OtherColumns(r)
    BY <2>1, ColumnsChange
  <2> QED BY <1>4, <2>2 DEF OtherColumns
<1>5. ValuePart("tag", s, RowsOf(Q, "value_triples"))
  BY <1>2, <1>3, <1>4 DEF ValuePart
<1>6. /\ y.h = x.h /\ y.k = x.k /\ y.v = "tag"
  BY DEF Stage
<1> HIDE DEF x, y
<1> QED BY <1>3, <1>5, <1>6, KeptButValues

LEMMA AuthorityMoves ==
  ASSUME NEW needs, NEW h, NEW v
  PROVE  Moves(Data("rename authority", needs), Stage(h, v, "plain"), Stage(h, v, "auth"))
<1> DEFINE st == Data("rename authority", needs)
           x == Stage(h, v, "plain")
           y == Stage(h, v, "auth")
<1> SUFFICES ASSUME NEW s, s # {}, NEW R, Kept(x, s, R), NEW Q \in RowsAfter(st, R)
             PROVE  Kept(y, s, Q)
  BY DEF Moves, Kept
<1>1. Q = UpdateTypes(R, "cryptokeys", {"measurement"}, "measurement_auth")
  BY DEF RowsAfter, Data, DataAfter
<1>2. AreRows(R) /\ KeyPart("plain", s, RowsOf(R, "cryptokeys"))
  BY DEF Kept, Stage
<1>3. /\ AreRows(Q)
      /\ \A u : u # "cryptokeys" => RowsOf(Q, u) = RowsOf(R, u)
      /\ \A r \in RowsOf(R, "cryptokeys") :
           /\ r.typ = "measurement" => Typ(r, "measurement_auth") \in RowsOf(Q, "cryptokeys")
           /\ r.typ # "measurement" => r \in RowsOf(Q, "cryptokeys")
  <2> PICK from : from = {"measurement"}
    OBVIOUS
  <2>2. Q = UpdateTypes(R, "cryptokeys", from, "measurement_auth")
    BY <1>1
  <2>3. \A r : r.typ \in from <=> r.typ = "measurement"
    OBVIOUS
  <2>4. Retypes(R, Q, "cryptokeys", from, "measurement_auth")
    BY <1>2, <2>2, Retyped
  <2> QED BY <2>3, <2>4 DEF Retypes
<1>4. ASSUME NEW r \in NewOf("cryptokeys"), r.typ = "measurement_auth"
      PROVE  /\ Typ(r, "measurement").typ = "measurement"
             /\ Typ(Typ(r, "measurement"), "measurement_auth") = r
  <2>1. IsRow(r)
    BY RowsFacts
  <2>2. OtherColumns(r)
    BY <2>1, ColumnsChange
  <2> QED BY <1>4, <2>2 DEF OtherColumns
<1>5. KeyPart("auth", s, RowsOf(Q, "cryptokeys"))
  BY <1>2, <1>3, <1>4 DEF KeyPart
<1>6. y.h = x.h /\ y.v = x.v /\ y.k = "auth"
  BY DEF Stage
<1> HIDE DEF x, y
<1> QED BY <1>3, <1>5, <1>6, KeptButKeys

LEMMA RestoreMoves ==
  ASSUME NEW needs, NEW h, NEW v
  PROVE  Moves(Data("restore authority", needs), Stage(h, v, "auth"), Stage(h, v, "plain"))
<1> DEFINE st == Data("restore authority", needs)
           x == Stage(h, v, "auth")
           y == Stage(h, v, "plain")
<1> SUFFICES ASSUME NEW s, s # {}, NEW R, Kept(x, s, R), NEW Q \in RowsAfter(st, R)
             PROVE  Kept(y, s, Q)
  BY DEF Moves, Kept
<1>1. Q = UpdateTypes(R, "cryptokeys", {"measurement_auth"}, "measurement")
  BY DEF RowsAfter, Data, DataAfter
<1>2. AreRows(R) /\ KeyPart("auth", s, RowsOf(R, "cryptokeys"))
  BY DEF Kept, Stage
<1>3. /\ AreRows(Q)
      /\ \A u : u # "cryptokeys" => RowsOf(Q, u) = RowsOf(R, u)
      /\ \A r \in RowsOf(R, "cryptokeys") :
           /\ r.typ = "measurement_auth" => Typ(r, "measurement") \in RowsOf(Q, "cryptokeys")
           /\ r.typ # "measurement_auth" => r \in RowsOf(Q, "cryptokeys")
  <2> PICK from : from = {"measurement_auth"}
    OBVIOUS
  <2>2. Q = UpdateTypes(R, "cryptokeys", from, "measurement")
    BY <1>1
  <2>3. \A r : r.typ \in from <=> r.typ = "measurement_auth"
    OBVIOUS
  <2>4. Retypes(R, Q, "cryptokeys", from, "measurement")
    BY <1>2, <2>2, Retyped
  <2> QED BY <2>3, <2>4 DEF Retypes
<1>4. ASSUME NEW r \in OldOf("cryptokeys")
      PROVE  /\ r.typ # "measurement_auth"
             /\ Typ(r, "measurement_auth").typ = "measurement_auth"
             /\ r.typ = "measurement" => Typ(Typ(r, "measurement_auth"), "measurement") = r
  <2>1. IsRow(r)
    BY RowsFacts
  <2>2. OtherColumns(r)
    BY <2>1, ColumnsChange
  <2> QED BY <1>4, <2>2, RowsFacts DEF OtherColumns
<1>5. KeyPart("plain", s, RowsOf(Q, "cryptokeys"))
  BY <1>2, <1>3, <1>4 DEF KeyPart
<1>6. y.h = x.h /\ y.v = x.v /\ y.k = "plain"
  BY DEF Stage
<1> HIDE DEF x, y
<1> QED BY <1>3, <1>5, <1>6, KeptButKeys

LEMMA DeleteKeysMoves ==
  ASSUME NEW needs, NEW h, NEW v
  PROVE  Moves(Data("delete keys of values", needs), Stage(h, v, "auth"), Stage(h, v, "auth"))
<1> DEFINE st == Data("delete keys of values", needs)
           x == Stage(h, v, "auth")
<1> SUFFICES ASSUME NEW s, s # {}, NEW R, Kept(x, s, R), NEW Q \in RowsAfter(st, R)
             PROVE  Kept(x, s, Q)
  BY DEF Moves, Kept
<1>1. Q = R \ {r \in RowsOf(R, "cryptokeys") : r.typ = "measurement"}
  BY DEF RowsAfter, Data, DataAfter
<1>2. AreRows(R) /\ KeyPart("auth", s, RowsOf(R, "cryptokeys"))
  BY DEF Kept, Stage
<1>3. /\ AreRows(Q)
      /\ \A u : u # "cryptokeys" => RowsOf(Q, u) = RowsOf(R, u)
      /\ \A r \in RowsOf(R, "cryptokeys") : r.typ # "measurement" => r \in RowsOf(Q, "cryptokeys")
  BY <1>1, <1>2 DEF RowsOf, AreRows
<1>4. ASSUME NEW r \in OldOf("cryptokeys")
      PROVE  Typ(r, "measurement_auth").typ # "measurement"
  <2>1. IsRow(r)
    BY RowsFacts
  <2>2. OtherColumns(r)
    BY <2>1, ColumnsChange
  <2> QED BY <1>4, <2>2, RowsFacts DEF OtherColumns
<1>5. KeyPart("auth", s, RowsOf(Q, "cryptokeys"))
  BY <1>2, <1>3, <1>4 DEF KeyPart
<1>6. x.k = "auth"
  BY DEF Stage
<1> HIDE DEF x
<1> QED BY <1>3, <1>5, <1>6, KeptButKeys

LEMMA DeleteOthersMoves ==
  ASSUME NEW needs, NEW h, NEW k
  PROVE  Moves(Data("delete values of others", needs), Stage(h, "tag", k), Stage(h, "tag", k))
<1> DEFINE st == Data("delete values of others", needs)
           x == Stage(h, "tag", k)
<1> SUFFICES ASSUME NEW s, s # {}, NEW R, Kept(x, s, R), NEW Q \in RowsAfter(st, R)
             PROVE  Kept(x, s, Q)
  BY DEF Moves, Kept
<1>1. Q = R \ {r \in RowsOf(R, "value_triples") : r.typ \notin {"module_tag", None}}
  BY DEF RowsAfter, Data, DataAfter
<1>2. AreRows(R) /\ ValuePart("tag", s, RowsOf(R, "value_triples"))
  BY DEF Kept, Stage
<1>3. /\ AreRows(Q)
      /\ \A u : u # "value_triples" => RowsOf(Q, u) = RowsOf(R, u)
      /\ \A r \in RowsOf(R, "value_triples") : r.typ = "module_tag" => r \in RowsOf(Q, "value_triples")
  BY <1>1, <1>2 DEF RowsOf, AreRows
<1>4. ASSUME NEW r \in OldOf("value_triples")
      PROVE  Typ(r, "module_tag").typ = "module_tag"
  <2>1. IsRow(r)
    BY RowsFacts
  <2>2. OtherColumns(r)
    BY <2>1, ColumnsChange
  <2> QED BY <1>4, <2>2, RowsFacts DEF OtherColumns
<1>5. ValuePart("tag", s, RowsOf(Q, "value_triples"))
  BY <1>2, <1>3, <1>4 DEF ValuePart
<1>6. x.v = "tag"
  BY DEF Stage
<1> HIDE DEF x
<1> QED BY <1>3, <1>5, <1>6, KeptButValues

LEMMA OwnerTypeMoves ==
  ASSUME NEW h, NEW k
  PROVE  Moves(DropColumn("value_triples", "owner_type"), Stage(h, "tag", k), Stage(h, "none", k))
<1> DEFINE st == DropColumn("value_triples", "owner_type")
           x == Stage(h, "tag", k)
           y == Stage(h, "none", k)
<1> SUFFICES ASSUME NEW s, s # {}, NEW R, Kept(x, s, R), NEW Q \in RowsAfter(st, R)
             PROVE  Kept(y, s, Q)
  BY DEF Moves, Kept
<1>1. Q = UpdateTypes(R, "value_triples", {r.typ : r \in R}, None)
  <2>1. Q = {IF r.tbl = "value_triples" THEN Typ(r, None) ELSE r : r \in R}
    BY DEF RowsAfter, DropColumn, Typ
  <2>2. \A r \in R : r.typ \in {q.typ : q \in R}
    OBVIOUS
  <2> QED BY <2>1, <2>2 DEF UpdateTypes, Typ
<1>2. AreRows(R) /\ ValuePart("tag", s, RowsOf(R, "value_triples"))
  BY DEF Kept, Stage
<1>3. /\ AreRows(Q)
      /\ \A u : u # "value_triples" => RowsOf(Q, u) = RowsOf(R, u)
      /\ \A r \in RowsOf(R, "value_triples") : Typ(r, None) \in RowsOf(Q, "value_triples")
  <2> PICK from : from = {q.typ : q \in R}
    OBVIOUS
  <2>1. \A r \in RowsOf(R, "value_triples") : r.typ \in from
    BY DEF RowsOf
  <2>3. Q = UpdateTypes(R, "value_triples", from, None)
    BY <1>1, Zenon
  <2>4. Retypes(R, Q, "value_triples", from, None)
    BY <1>2, <2>3, Retyped
  <2> QED BY <2>1, <2>4 DEF Retypes
<1>4. ASSUME NEW r \in OldOf("value_triples")
      PROVE  Typ(Typ(r, "module_tag"), None) = r
  <2>1. IsRow(r)
    BY RowsFacts
  <2>2. OtherColumns(r)
    BY <2>1, ColumnsChange
  <2> QED BY <1>4, <2>2, RowsFacts DEF OtherColumns
<1>5. ValuePart("none", s, RowsOf(Q, "value_triples"))
  BY <1>2, <1>3, <1>4 DEF ValuePart
<1>6. y.h = x.h /\ y.k = x.k /\ y.v = "none"
  BY DEF Stage
<1> HIDE DEF x, y
<1> QED BY <1>3, <1>5, <1>6, KeptButValues

LEMMA NoOldHrefs == \A r \in OldRows : r.tbl # "hrefs"
<1>1. NewTables[1] = "hrefs" /\ 1 \in 1..7
  BY DEF NewTables
<1> QED BY <1>1, RowsFacts

LEMMA KeptButHrefs ==
  ASSUME NEW x, NEW s, NEW R, s # {}, Kept(x, s, R),
         NEW Q, AreRows(Q), \A u : u \notin {"locators", "hrefs"} => RowsOf(Q, u) = RowsOf(R, u),
         NEW y, y.v = x.v, y.k = x.k, OneEach(RowsOf(Q, "locators")),
         HrefPart(y.h, s, RowsOf(Q, "locators"), RowsOf(Q, "hrefs"))
  PROVE  Kept(y, s, Q)
<1>1. /\ RowsOf(Q, "value_triples") = RowsOf(R, "value_triples")
      /\ RowsOf(Q, "cryptokeys") = RowsOf(R, "cryptokeys")
  OBVIOUS
<1>2. RestPart(s, Q)
  BY NoOldHrefs DEF Kept, RestPart, Told
<1> QED BY <1>1, <1>2 DEF Kept

\* Each locator gets the value that f has for it.
Revalues(R, Q, f) ==
  /\ AreRows(Q)
  /\ \A u : u # "locators" => RowsOf(Q, u) = RowsOf(R, u)
  /\ \A r \in RowsOf(R, "locators") : Val(r, f[r]) \in RowsOf(Q, "locators")
  /\ OneEach(RowsOf(R, "locators")) => OneEach(RowsOf(Q, "locators"))

LEMMA Revalued ==
  ASSUME NEW R, AreRows(R), NEW f,
         NEW Q, Q = {IF r.tbl = "locators" THEN Val(r, f[r]) ELSE r : r \in R}
  PROVE  Revalues(R, Q, f)
<1> DEFINE g(r) == IF r.tbl = "locators" THEN Val(r, f[r]) ELSE r
<1>1. Q = {g(r) : r \in R}
  OBVIOUS
<1>2. ASSUME NEW r \in R PROVE IsRow(g(r)) /\ g(r).tbl = r.tbl /\ g(r).id = r.id
  <2>1. IsRow(r)
    BY DEF AreRows
  <2> QED BY <2>1, ColumnsChange DEF OtherColumns
<1>3. \A r \in R : r.tbl # "locators" => g(r) = r
  OBVIOUS
<1>4. \A r \in R : r.tbl = "locators" => g(r) = Val(r, f[r])
  OBVIOUS
<1> HIDE DEF g
<1>5. ASSUME NEW u, u # "locators" PROVE RowsOf(Q, u) = RowsOf(R, u)
  BY <1>1, <1>2, <1>3, <1>5 DEF RowsOf
<1>6. ASSUME NEW r \in RowsOf(R, "locators") PROVE Val(r, f[r]) \in RowsOf(Q, "locators")
  <2>1. g(r) \in Q /\ g(r).tbl = "locators"
    BY <1>1, <1>2 DEF RowsOf
  <2> QED BY <1>4, <2>1 DEF RowsOf
<1>7. ASSUME OneEach(RowsOf(R, "locators")) PROVE OneEach(RowsOf(Q, "locators"))
  <2> SUFFICES ASSUME NEW a \in RowsOf(Q, "locators"), NEW b \in RowsOf(Q, "locators"), a.id = b.id
               PROVE  a = b
    BY DEF OneEach
  <2>1. PICK c \in R : a = g(c)
    BY <1>1 DEF RowsOf
  <2>2. PICK d \in R : b = g(d)
    BY <1>1 DEF RowsOf
  <2>3. c \in RowsOf(R, "locators") /\ d \in RowsOf(R, "locators") /\ c.id = d.id
    BY <1>2, <2>1, <2>2 DEF RowsOf
  <2> QED BY <1>7, <2>1, <2>2, <2>3 DEF OneEach
<1>8. AreRows(Q)
  BY <1>1, <1>2 DEF AreRows
<1> QED BY <1>5, <1>6, <1>7, <1>8 DEF Revalues

LEMMA DropHrefMoves ==
  ASSUME NEW v, NEW k
  PROVE  Moves(DropColumn("locators", "href"), Stage("both", v, k), Stage("table", v, k))
<1> DEFINE st == DropColumn("locators", "href")
           x == Stage("both", v, k)
           y == Stage("table", v, k)
<1> SUFFICES ASSUME NEW s, s # {}, NEW R, Kept(x, s, R), NEW Q \in RowsAfter(st, R)
             PROVE  Kept(y, s, Q)
  BY DEF Moves, Kept
<1>1. PICK f : f = [r \in R |-> None]
  OBVIOUS
<1>2. Q = {IF r.tbl = "locators" THEN Val(r, f[r]) ELSE r : r \in R}
  <2>1. Q = {IF r.tbl = "locators" THEN Val(r, None) ELSE r : r \in R}
    BY DEF RowsAfter, DropColumn, Val
  <2>2. \A r \in R : f[r] = None
    BY <1>1
  <2> QED BY <2>1, <2>2
<1>3. /\ AreRows(R) /\ OneEach(RowsOf(R, "locators"))
      /\ HrefPart("both", s, RowsOf(R, "locators"), RowsOf(R, "hrefs"))
  BY DEF Kept, Stage
<1>4. Revalues(R, Q, f)
  BY <1>2, <1>3, Revalued
<1>5. /\ AreRows(Q) /\ \A u : u # "locators" => RowsOf(Q, u) = RowsOf(R, u)
      /\ \A r \in RowsOf(R, "locators") : Val(r, None) \in RowsOf(Q, "locators")
      /\ OneEach(RowsOf(Q, "locators"))
  <2>1. \A r \in RowsOf(R, "locators") : f[r] = None
    BY <1>1 DEF RowsOf
  <2> QED BY <1>3, <1>4, <2>1 DEF Revalues
<1>6. Full(s, RowsOf(R, "locators")) /\ Listed(s, RowsOf(R, "hrefs"))
  BY <1>3 DEF HrefPart
<1>7. Bare(s, RowsOf(Q, "locators"))
  <2>1. ASSUME NEW l \in RowsOf(R, "locators") PROVE Val(l, None).id = l.id
    <3>1. IsRow(l)
      BY <1>3 DEF AreRows, RowsOf
    <3> QED BY <3>1, ColumnsChange DEF OtherColumns
  <2> QED BY <1>5, <1>6, <2>1 DEF Full, Bare
<1>8. HrefPart("table", s, RowsOf(Q, "locators"), RowsOf(Q, "hrefs"))
  BY <1>5, <1>6, <1>7 DEF HrefPart
<1>9. y.v = x.v /\ y.k = x.k /\ y.h = "table"
  BY DEF Stage
<1> HIDE DEF x, y
<1> QED BY <1>5, <1>8, <1>9, KeptButHrefs

LEMMA UpdateLocatorsMoves ==
  ASSUME NEW needs, NEW v, NEW k
  PROVE  Moves(Data("update locators", needs), Stage("table", v, k), Stage("both", v, k))
<1> DEFINE st == Data("update locators", needs)
           x == Stage("table", v, k)
           y == Stage("both", v, k)
<1> SUFFICES ASSUME NEW s, s # {}, NEW R, Kept(x, s, R), NEW Q \in RowsAfter(st, R)
             PROVE  Kept(y, s, Q)
  BY DEF Moves, Kept
<1> DEFINE L == RowsOf(R, "locators")
           H == RowsOf(R, "hrefs")
<1>1. PICK f \in HrefChoices(R) : Q = {IF r.tbl = "locators" THEN Val(r, f[r]) ELSE r : r \in R}
  BY DEF RowsAfter, Data, DataAfter, LocatorsUpdated, Val
<1>2. \A l \in L : HrefValues(H, l.id) # {} => f[l] \in HrefValues(H, l.id)
  BY DEF HrefChoices, HrefValues
<1>3. AreRows(R) /\ OneEach(L) /\ HrefPart("table", s, L, H)
  BY DEF Kept, Stage
<1>4. Revalues(R, Q, f)
  BY <1>1, <1>3, Revalued
<1>5. /\ AreRows(Q) /\ \A u : u # "locators" => RowsOf(Q, u) = RowsOf(R, u)
      /\ \A r \in L : Val(r, f[r]) \in RowsOf(Q, "locators")
      /\ OneEach(RowsOf(Q, "locators"))
  BY <1>3, <1>4 DEF Revalues
<1>6. Bare(s, L) /\ Listed(s, H)
  BY <1>3 DEF HrefPart
<1> HIDE DEF L, H
<1>7. ASSUME "old" \in s, NEW l \in OldOf("locators") PROVE l \in RowsOf(Q, "locators")
  <2>1. IsRow(l)
    BY RowsFacts
  <2>2. OtherColumns(l)
    BY <2>1, ColumnsChange
  <2>3. Val(l, None) \in L /\ HrefValues(H, l.id) = {l.val}
    BY <1>6, <1>7 DEF Bare, Listed
  <2>4. Val(l, None).id = l.id
    BY <2>2 DEF OtherColumns
  <2>5. f[Val(l, None)] = l.val
    BY <1>2, <2>3, <2>4
  <2>6. Val(Val(l, None), l.val) = l
    BY <2>2 DEF OtherColumns
  <2> QED BY <1>5, <2>3, <2>5, <2>6
<1>8. ASSUME "new" \in s, NEW l \in NewOf("locators")
      PROVE  \E m \in RowsOf(Q, "locators") : m.id = l.id /\ m.val \in HrefValues(NewOf("hrefs"), l.id)
  <2>1. PICK m \in L : m.id = l.id
    BY <1>6, <1>8 DEF Bare
  <2>2. IsRow(m)
    BY <1>3, <2>1 DEF AreRows, RowsOf, L
  <2>3. OtherColumns(m)
    BY <2>2, ColumnsChange
  <2>4. HrefValues(H, l.id) # {} /\ HrefValues(H, l.id) \subseteq HrefValues(NewOf("hrefs"), l.id)
    BY <1>6, <1>8 DEF Listed, Has
  <2>5. f[m] \in HrefValues(NewOf("hrefs"), l.id)
    BY <1>2, <2>1, <2>4
  <2>6. Val(m, f[m]).id = l.id /\ Val(m, f[m]).val = f[m]
    BY <2>1, <2>3 DEF OtherColumns
  <2> QED BY <1>5, <2>1, <2>5, <2>6
<1>9. Full(s, RowsOf(Q, "locators")) /\ RowsOf(Q, "hrefs") = H
  BY <1>5, <1>7, <1>8 DEF Full, H
<1>10. HrefPart("both", s, RowsOf(Q, "locators"), RowsOf(Q, "hrefs"))
  BY <1>6, <1>9 DEF HrefPart
<1>11. y.v = x.v /\ y.k = x.k /\ y.h = "both"
  BY DEF Stage
<1> HIDE DEF x, y
<1> QED BY <1>5, <1>10, <1>11, KeptButHrefs

HrefRowsOf(L) == {Row("hrefs", l.id, l.id, None, l.val) : l \in L}

LEMMA ZeroPlus == \A n \in Nat : 0 + n = n
OBVIOUS

LEMMA HrefOfOne ==
  ASSUME NEW L, \A l \in L : l.id \in Nat
  PROVE  /\ \A h \in HrefRowsOf(L) : IsRow(h) /\ h.tbl = "hrefs"
         /\ \A l \in L : Row("hrefs", l.id, l.id, None, l.val) \in HrefRowsOf(L)
         /\ OneEach(L) => \A l \in L : HrefValues(HrefRowsOf(L), l.id) = {l.val}
<1>1. ASSUME NEW l \in L
      PROVE  /\ IsRow(Row("hrefs", l.id, l.id, None, l.val))
             /\ Row("hrefs", l.id, l.id, None, l.val).tbl = "hrefs"
             /\ Row("hrefs", l.id, l.id, None, l.val).own = l.id
             /\ Row("hrefs", l.id, l.id, None, l.val).val = l.val
  BY DEF IsRow, Row
<1>2. \A h : h \in HrefRowsOf(L) <=> \E l \in L : h = Row("hrefs", l.id, l.id, None, l.val)
  BY DEF HrefRowsOf
<1>3. ASSUME OneEach(L), NEW l \in L PROVE HrefValues(HrefRowsOf(L), l.id) = {l.val}
  <2>1. \A h \in HrefRowsOf(L) : h.own = l.id => h.val = l.val
    <3> SUFFICES ASSUME NEW h \in HrefRowsOf(L), h.own = l.id PROVE h.val = l.val
      OBVIOUS
    <3>1. PICK m \in L : h = Row("hrefs", m.id, m.id, None, m.val)
      BY <1>2
    <3>2. m.id = l.id /\ h.val = m.val
      BY <1>1, <3>1
    <3> QED BY <1>3, <3>2 DEF OneEach
  <2>2. \E h \in HrefRowsOf(L) : h.own = l.id /\ h.val = l.val
    BY <1>1, <1>2
  <2> QED BY <2>1, <2>2 DEF HrefValues
<1> QED BY <1>1, <1>2, <1>3

LEMMA InsertHrefsMoves ==
  ASSUME NEW needs, NEW v, NEW k
  PROVE  Moves(Data("insert hrefs", needs), Stage("column", v, k), Stage("both", v, k))
<1> DEFINE st == Data("insert hrefs", needs)
           x == Stage("column", v, k)
           y == Stage("both", v, k)
<1> SUFFICES ASSUME NEW s, s # {}, NEW R, Kept(x, s, R), NEW Q \in RowsAfter(st, R)
             PROVE  Kept(y, s, Q)
  BY DEF Moves, Kept
<1>0. Q = HrefsInserted(R)
  BY DEF RowsAfter, Data, DataAfter
<1>1. AreRows(R) /\ OneEach(RowsOf(R, "locators")) /\ Full(s, RowsOf(R, "locators"))
      /\ RowsOf(R, "hrefs") = {}
  BY DEF Kept, Stage, HrefPart
<1>2. y.v = x.v /\ y.k = x.k /\ y.h = "both"
  BY DEF Stage
<1> HIDE DEF st, x, y
<1>3. PICK L : L = RowsOf(R, "locators")
  OBVIOUS
<1>4. PICK H : H = HrefRowsOf(L)
  OBVIOUS
<1>5. \A l \in L : l.id \in Nat
  BY <1>1, <1>3 DEF AreRows, IsRow, RowsOf
<1>6. Q = R \cup H
  <2>1. \A l \in L : 0 + l.id = l.id
    BY <1>5, ZeroPlus
  <2> QED BY <1>0, <1>1, <1>3, <1>4, <2>1 DEF HrefsInserted, HrefRowsOf
<1>7. /\ \A h \in H : IsRow(h) /\ h.tbl = "hrefs"
      /\ \A l \in L : Row("hrefs", l.id, l.id, None, l.val) \in H
      /\ \A l \in L : HrefValues(H, l.id) = {l.val}
  BY <1>1, <1>3, <1>4, <1>5, HrefOfOne
<1>8. /\ AreRows(Q) /\ \A u : u \notin {"locators", "hrefs"} => RowsOf(Q, u) = RowsOf(R, u)
      /\ RowsOf(Q, "locators") = L /\ RowsOf(Q, "hrefs") = H
  BY <1>1, <1>3, <1>6, <1>7 DEF AreRows, RowsOf
<1>9. Listed(s, H)
  <2>1. ASSUME "new" \in s, NEW l \in NewOf("locators") PROVE Has(H, l)
    <3>1. PICK m \in L : m.id = l.id /\ m.val \in HrefValues(NewOf("hrefs"), l.id)
      BY <1>1, <1>3, <2>1 DEF Full
    <3>2. HrefValues(H, l.id) = {m.val}
      BY <1>7, <3>1
    <3> QED BY <3>1, <3>2 DEF Has
  <2> QED BY <1>1, <1>3, <1>7, <2>1 DEF Full, Listed
<1>10. HrefPart("both", s, RowsOf(Q, "locators"), RowsOf(Q, "hrefs"))
  BY <1>1, <1>3, <1>8, <1>9 DEF HrefPart
<1> QED BY <1>1, <1>2, <1>3, <1>8, <1>10, KeptButHrefs
-----------------------------------------------------------------------------
(* What the migrations do to the rows.                                     *)

RowsGo(p, x, y) == \A n : Leads(p, With(n, x), With(n, y))

LEMMA RowsJoin ==
  ASSUME NEW p, NEW q, NEW x, NEW y, NEW z, RowsGo(p, x, y), RowsGo(q, y, z)
  PROVE  RowsGo(p \o q, x, z)
BY LeadsJoin DEF RowsGo

LEMMA StepWith ==
  ASSUME NEW st, ~IsMark(st), NEW x, NEW y, Moves(st, x, y), NEW n
  PROVE  Step(st, With(n, x), With(n, y))
BY DEF Step, With

LEMMA RowsThrough ==
  ASSUME NEW p, NEW S, p \in Seq(S), NEW f,
         \A i \in 1..Len(p) : ~IsMark(p[i]) /\ Moves(p[i], f[i], f[i + 1])
  PROVE  RowsGo(p, f[1], f[Len(p) + 1])
<1> SUFFICES ASSUME NEW n PROVE Leads(p, With(n, f[1]), With(n, f[Len(p) + 1]))
  BY DEF RowsGo
<1> DEFINE g == [i \in 1..(Len(p) + 1) |-> With(n, f[i])]
<1>1. Len(p) \in Nat
  OBVIOUS
<1>2. ASSUME NEW i \in 1..Len(p) PROVE Step(p[i], g[i], g[i + 1])
  <2>1. g[i] = With(n, f[i]) /\ g[i + 1] = With(n, f[i + 1])
    BY <1>1
  <2>2. ~IsMark(p[i]) /\ Moves(p[i], f[i], f[i + 1])
    OBVIOUS
  <2> HIDE DEF g
  <2> QED BY <2>1, <2>2, StepWith
<1>3. g[1] = With(n, f[1]) /\ g[Len(p) + 1] = With(n, f[Len(p) + 1])
  BY <1>1
<1> HIDE DEF g
<1>4. Passes(g, p, With(n, f[1]), With(n, f[Len(p) + 1]))
  BY <1>2, <1>3 DEF Passes
<1> QED BY <1>4 DEF Leads, IsSequence

LEMMA RowsStay ==
  ASSUME NEW p, NEW S, p \in Seq(S), NEW x,
         \A i \in 1..Len(p) : ~IsMark(p[i]) /\ Moves(p[i], x, x)
  PROVE  RowsGo(p, x, x)
<1> DEFINE f == [i \in 1..(Len(p) + 1) |-> x]
<1>1. Len(p) \in Nat
  OBVIOUS
<1>2. \A i \in 1..(Len(p) + 1) : f[i] = x
  OBVIOUS
<1> HIDE DEF f
<1>3. \A i \in 1..Len(p) : ~IsMark(p[i]) /\ Moves(p[i], f[i], f[i + 1])
  BY <1>1, <1>2
<1>4. RowsGo(p, f[1], f[Len(p) + 1])
  BY <1>3, RowsThrough
<1>5. f[1] = x /\ f[Len(p) + 1] = x
  BY <1>1, <1>2
<1> QED BY <1>4, <1>5

LEMMA RowsStill ==
  ASSUME NEW p, NEW S, p \in Seq(S), \A i \in 1..Len(p) : Still(p[i]), NEW x
  PROVE  RowsGo(p, x, x)
<1>1. \A i \in 1..Len(p) : ~IsMark(p[i]) /\ Moves(p[i], x, x)
  BY StillMoves DEF Still, IsMark
<1> QED BY <1>1, RowsStay

\* The tables of 0000_initial come with nothing in them, and nobody misses what goes
\* with them.
LEMMA Rows0000 == RowsGo(Up0000, Gone, Older) /\ RowsGo(Down0000, Gone, Gone)
<1>1. /\ Up0000 \in Seq({Up0000[i] : i \in 1..9}) /\ Len(Up0000) = 9
      /\ \A i \in 1..9 : Still(Up0000[i]) /\ ~IsMark(Up0000[i])
  <2>1. Up0000 = [i \in 1..9 |-> Up0000[i]]
    BY InitialTablesList DEF Up0000
  <2>2. \A i \in 1..9 : Up0000[i].do = "create"
    BY InitialTablesList DEF Up0000, Create
  <2> QED BY <2>1, <2>2, ListBy DEF Still, IsMark
<1>2. /\ Down0000 \in Seq({Down0000[i] : i \in 1..9}) /\ Len(Down0000) = 9
      /\ \A i \in 1..9 : ~IsMark(Down0000[i])
  <2>1. Down0000 = [i \in 1..9 |-> Down0000[i]]
    BY InitialTablesList DEF Down0000
  <2>2. \A i \in 1..9 : Down0000[i].do = "drop"
    BY InitialTablesList DEF Down0000, DropTable
  <2> QED BY <2>1, <2>2, ListBy DEF IsMark
<1>3. RowsGo(Down0000, Gone, Gone)
  BY <1>2, GoneMoves, RowsStay
<1> DEFINE f == [i \in 1..10 |-> IF i = 1 THEN Gone ELSE Older]
<1>4. f[1] = Gone /\ f[9 + 1] = Older /\ \A i \in 1..9 : f[i] \in {Gone, Older} /\ f[i + 1] = Older
  OBVIOUS
<1> HIDE DEF f
<1>5. \A i \in 1..9 : Moves(Up0000[i], f[i], f[i + 1])
  BY <1>1, <1>4, GoneMoves, StillMoves
<1>6. RowsGo(Up0000, f[1], f[Len(Up0000) + 1])
  BY <1>1, <1>5, RowsThrough
<1> QED BY <1>1, <1>3, <1>4, <1>6

LEMMA RowsOne ==
  ASSUME NEW st, NEW x, NEW y, ~IsMark(st), Moves(st, x, y)
  PROVE  RowsGo(<<st>>, x, y)
BY LeadsOne, StepWith DEF RowsGo

LEMMA Rows0001 == RowsGo(Up0001, Older, Older) /\ RowsGo(Down0001, Older, Older)
<1>1. PICK up : up = [do |-> "create views", views |-> FirstViews]
  OBVIOUS
<1>2. PICK down : down = [do |-> "drop views", names |-> {v.name : v \in FirstViews}]
  OBVIOUS
<1>3. Up0001 = <<up>> /\ Down0001 = <<down>>
  BY <1>1, <1>2 DEF Up0001, Down0001
<1>4. Still(up) /\ Still(down) /\ ~IsMark(up) /\ ~IsMark(down)
  BY <1>1, <1>2 DEF Still, IsMark
<1> QED BY <1>3, <1>4, StillMoves, RowsOne

LEMMA Rows0002 == RowsGo(Up0002, Older, Older) /\ RowsGo(Down0002, Older, Older)
<1>1. Still(Create("tokens", {})) /\ ~IsMark(Create("tokens", {}))
  BY DEF Still, IsMark, Create
<1>2. ~IsMark(DropTable("tokens"))
  BY DEF IsMark, DropTable
<1>3. Moves(DropTable("tokens"), Older, Older)
  BY RowsFacts, DropMoves DEF Told
<1> QED BY <1>1, <1>2, <1>3, StillMoves, RowsOne DEF Up0002, Down0002

LEMMA UpMiddleRows ==
  RowsGo(UpMiddle, Older, Stage("table", "tag", "plain"))
<1> DEFINE f == [i \in 1..14 |-> IF i = 1 THEN Stage("column", "none", "plain")
                                 ELSE IF i = 2 THEN Stage("both", "none", "plain")
                                 ELSE IF i < 11 THEN Stage("table", "none", "plain")
                                 ELSE Stage("table", "tag", "plain")]
<1>1. /\ f[1] = Stage("column", "none", "plain") /\ f[2] = Stage("both", "none", "plain")
      /\ \A i \in 3..10 : f[i] = Stage("table", "none", "plain")
      /\ \A i \in 11..14 : f[i] = Stage("table", "tag", "plain")
  OBVIOUS
<1> HIDE DEF f
<1>2. /\ UpMiddle[1] = Data("insert hrefs", {<<"hrefs", "id">>, <<"locators", "href">>})
      /\ UpMiddle[2] = DropColumn("locators", "href")
      /\ UpMiddle[10] = Data("value triples owned by module tags", {<<"value_triples", "owner_type">>})
  BY UpMiddleList
<1>3. \A i \in {3, 4, 5, 6, 7, 8, 9, 11, 12, 13} : Still(UpMiddle[i])
  <2>1. \A t, c, d : /\ Still(Rename(t, c, d)) /\ Still(AddColumn(t, c))
                     /\ Still(DropView(t)) /\ Still(CreateView(t))
    BY DEF Still, Rename, AddColumn, DropView, CreateView
  <2> QED BY <2>1, UpMiddleList
<1>4. \A i \in 1..13 : ~IsMark(UpMiddle[i])
  BY UpMiddleGoes, UpMiddleLength DEF Goes
<1>5. Moves(UpMiddle[1], f[1], f[2])
  <2>1. \A needs : Moves(Data("insert hrefs", needs), f[1], f[2])
    BY <1>1, InsertHrefsMoves
  <2> QED BY <1>2, <2>1
<1>6. Moves(UpMiddle[2], f[2], f[3])
  <2>1. f[3] = Stage("table", "none", "plain")
    BY <1>1
  <2>2. Moves(DropColumn("locators", "href"), f[2], f[3])
    BY <1>1, <2>1, DropHrefMoves
  <2> QED BY <1>2, <2>2
<1>7. Moves(UpMiddle[10], f[10], f[11])
  <2>1. f[10] = Stage("table", "none", "plain") /\ f[11] = Stage("table", "tag", "plain")
    BY <1>1
  <2>2. \A needs : Moves(Data("value triples owned by module tags", needs), f[10], f[11])
    BY <2>1, OwnedMoves
  <2> QED BY <1>2, <2>2
<1>8. ASSUME NEW i \in {3, 4, 5, 6, 7, 8, 9, 11, 12, 13} PROVE Moves(UpMiddle[i], f[i], f[i + 1])
  <2>1. Still(UpMiddle[i])
    BY <1>3
  <2>2. f[i + 1] = f[i]
    BY <1>1
  <2> QED BY <2>1, <2>2, StillMoves
<1>9. \A i \in 1..13 : Moves(UpMiddle[i], f[i], f[i + 1])
  <2>1. \A i \in 1..13 : i \in {1, 2, 10} \/ i \in {3, 4, 5, 6, 7, 8, 9, 11, 12, 13}
    OBVIOUS
  <2>2. 1 + 1 = 2 /\ 2 + 1 = 3 /\ 10 + 1 = 11
    OBVIOUS
  <2> QED BY <1>5, <1>6, <1>7, <1>8, <2>1, <2>2
<1>10. RowsGo(UpMiddle, f[1], f[13 + 1])
  BY <1>4, <1>9, UpMiddleLength, RowsThrough
<1>11. f[1] = Older /\ f[13 + 1] = Stage("table", "tag", "plain")
  BY <1>1 DEF Older
<1> QED BY <1>10, <1>11

LEMMA Up0003Rows == RowsGo(Up0003, Older, Newer)
<1> DEFINE creates == [i \in DOMAIN NewTables |-> Create(NewTables[i], {})]
           views == [i \in DOMAIN NewViews |-> CreateView(NewViews[i])]
<1>1. \A x : RowsGo(creates, x, x)
  <2>1. creates = [i \in 1..7 |-> creates[i]] /\ \A i \in 1..7 : creates[i].do = "create"
    BY NewTablesList DEF Create
  <2> HIDE DEF creates
  <2>2. creates \in Seq({creates[i] : i \in 1..7}) /\ Len(creates) = 7
    BY <2>1, ListBy
  <2> QED BY <2>1, <2>2, RowsStill DEF Still
<1>2. \A x : RowsGo(views, x, x)
  <2>1. views = [i \in 1..4 |-> views[i]] /\ \A i \in 1..4 : views[i].do = "create views"
    BY NewViewsList DEF CreateView
  <2> HIDE DEF views
  <2>2. views \in Seq({views[i] : i \in 1..4}) /\ Len(views) = 4
    BY <2>1, ListBy
  <2> QED BY <2>1, <2>2, RowsStill DEF Still
<1>3. RowsGo(<< Data("rename authority", Ids({"cryptokeys"})) >>, Stage("table", "tag", "plain"), Newer)
  <2>1. ~IsMark(Data("rename authority", Ids({"cryptokeys"})))
    BY DEF IsMark, Data
  <2> QED BY <2>1, AuthorityMoves, RowsOne DEF Newer
<1>4. Up0003 = creates \o UpMiddle \o views \o << Data("rename authority", Ids({"cryptokeys"})) >>
  BY DEF Up0003, UpMiddle
<1> HIDE DEF creates, views
<1>5. PICK last : last = << Data("rename authority", Ids({"cryptokeys"})) >>
  OBVIOUS
<1>6. Up0003 = creates \o UpMiddle \o views \o last /\ RowsGo(last, Stage("table", "tag", "plain"), Newer)
  BY <1>3, <1>4, <1>5
<1> QED BY <1>1, <1>2, <1>6, UpMiddleRows, RowsJoin

LEMMA RowsTwo ==
  ASSUME NEW a, NEW b, ~IsMark(a), ~IsMark(b), NEW x, NEW y, NEW z, Moves(a, x, y), Moves(b, y, z)
  PROVE  RowsGo(<<a, b>>, x, z)
<1> DEFINE p == <<a, b>>
           f == <<x, y, z>>
<1>1. p \in Seq({a, b}) /\ Len(p) = 2
  OBVIOUS
<1>2. ASSUME NEW i \in 1..2 PROVE ~IsMark(p[i]) /\ Moves(p[i], f[i], f[i + 1])
  <2>1. i \in {1, 2}
    OBVIOUS
  <2> QED BY <2>1
<1>3. f[1] = x /\ f[2 + 1] = z
  OBVIOUS
<1> HIDE DEF p, f
<1>4. RowsGo(p, f[1], f[Len(p) + 1])
  BY <1>1, <1>2, RowsThrough
<1>5. RowsGo(p, x, z)
  BY <1>1, <1>3, <1>4
<1> QED BY <1>5 DEF p

LEMMA DownMiddleRows ==
  RowsGo(DownMiddle, Newer, Stage("both", "none", "plain"))
<1>0. \A t, c, d : /\ Still(Rename(t, c, d)) /\ Still(AddColumn(t, c))
                   /\ Still(DropView(t)) /\ Still(CreateView(t))
                   /\ ~IsMark(DropColumn(t, c)) /\ ~IsMark(Data(t, c))
  BY DEF Still, IsMark, Rename, AddColumn, DropColumn, DropView, CreateView, Data
<1>00. \A st : Still(st) => ~IsMark(st) /\ \A x : Moves(st, x, x)
  BY StillMoves DEF Still, IsMark
<1>1. RowsGo(KeysBack, Newer, Stage("table", "tag", "plain"))
  <2>1. \A needs : /\ Moves(Data("delete keys of values", needs), Newer, Newer)
                   /\ Moves(Data("restore authority", needs), Newer, Stage("table", "tag", "plain"))
    BY DeleteKeysMoves, RestoreMoves DEF Newer
  <2>2. PICK needs : needs = Ids({"cryptokeys"})
    OBVIOUS
  <2>3. KeysBack = <<Data("delete keys of values", needs), Data("restore authority", needs)>>
    BY <2>2 DEF KeysBack
  <2> QED BY <1>0, <2>1, <2>3, RowsTwo
<1>2. \A x : RowsGo(KeyTriplesBack, x, x)
  <2>1. KeyTriplesBack = [i \in 1..4 |-> KeyTriplesBack[i]]
    BY DEF KeyTriplesBack
  <2>2. /\ KeyTriplesBack[1] = DropView(KeyView.name) /\ KeyTriplesBack[2] = CreateView(KeyView)
        /\ KeyTriplesBack[3] = DropColumn("key_triples", "cond_key_bytes")
        /\ KeyTriplesBack[4] = DropColumn("key_triples", "cond_key_type")
    BY DEF KeyTriplesBack
  <2>3. /\ Still(DropColumn("key_triples", "cond_key_bytes"))
        /\ Still(DropColumn("key_triples", "cond_key_type"))
    BY DEF Still, DropColumn
  <2>4. \A i \in 1..4 : Still(KeyTriplesBack[i])
    <3>1. \A i \in 1..4 : i \in {1, 2, 3, 4}
      OBVIOUS
    <3> QED BY <1>0, <2>2, <2>3, <3>1
  <2>5. KeyTriplesBack \in Seq({KeyTriplesBack[i] : i \in 1..4}) /\ Len(KeyTriplesBack) = 4
    BY <2>1, ListBy
  <2> QED BY <2>4, <2>5, RowsStill
<1>3. \A x : RowsGo(DigestsBack, x, x)
  <2>1. Still(DropColumn("digests", "alg_id_text"))
    BY DEF Still, DropColumn
  <2> QED BY <1>0, <1>00, <2>1, RowsTwo DEF DigestsBack
<1>4. RowsGo(LocatorsBack, Stage("table", "tag", "plain"), Stage("both", "tag", "plain"))
  <2>1. PICK needs : needs = {<<"locators", "href">>, <<"hrefs", "id">>}
    OBVIOUS
  <2>2. LocatorsBack = <<AddColumn("locators", "href"), Data("update locators", needs)>>
    BY <2>1 DEF LocatorsBack
  <2>3. Moves(Data("update locators", needs), Stage("table", "tag", "plain"), Stage("both", "tag", "plain"))
    BY UpdateLocatorsMoves
  <2> QED BY <1>0, <1>00, <2>2, <2>3, RowsTwo
<1>5. RowsGo(ValueTriplesBack, Stage("both", "tag", "plain"), Stage("both", "none", "plain"))
  <2> DEFINE f == [i \in 1..6 |-> IF i < 6 THEN Stage("both", "tag", "plain")
                                  ELSE Stage("both", "none", "plain")]
  <2>1. (\A i \in 1..5 : f[i] = Stage("both", "tag", "plain")) /\ f[6] = Stage("both", "none", "plain")
    OBVIOUS
  <2> HIDE DEF f
  <2>2. ValueTriplesBack = [i \in 1..5 |-> ValueTriplesBack[i]]
    BY DEF ValueTriplesBack
  <2>3. PICK needs : needs = {<<"value_triples", "owner_type">>}
    OBVIOUS
  <2>4. /\ ValueTriplesBack[1] = Rename("value_triples", "owner_id", "module_id")
        /\ ValueTriplesBack[2] = Data("delete values of others", needs)
        /\ ValueTriplesBack[3] = DropView(ValueView.name) /\ ValueTriplesBack[4] = CreateView(ValueView)
        /\ ValueTriplesBack[5] = DropColumn("value_triples", "owner_type")
    BY <2>3 DEF ValueTriplesBack
  <2>5. \A i \in {1, 3, 4} : Still(ValueTriplesBack[i])
    BY <1>0, <2>4
  <2>6. Moves(ValueTriplesBack[2], f[2], f[3])
    <3>1. f[2] = Stage("both", "tag", "plain") /\ f[3] = Stage("both", "tag", "plain")
      BY <2>1
    <3>2. Moves(Data("delete values of others", needs), f[2], f[3])
      BY <3>1, DeleteOthersMoves
    <3> QED BY <2>4, <3>2
  <2>7. Moves(ValueTriplesBack[5], f[5], f[6])
    <3>1. f[5] = Stage("both", "tag", "plain") /\ f[6] = Stage("both", "none", "plain")
      BY <2>1
    <3>2. Moves(DropColumn("value_triples", "owner_type"), f[5], f[6])
      BY <3>1, OwnerTypeMoves
    <3> QED BY <2>4, <3>2
  <2>8. \A i \in 1..5 : ~IsMark(ValueTriplesBack[i]) /\ Moves(ValueTriplesBack[i], f[i], f[i + 1])
    <3>1. \A i \in {1, 3, 4} : i \in 1..5 /\ i + 1 \in 1..5
      OBVIOUS
    <3>2. \A i \in {1, 3, 4} : ~IsMark(ValueTriplesBack[i]) /\ Moves(ValueTriplesBack[i], f[i], f[i + 1])
      BY <1>00, <2>1, <2>5, <3>1
    <3>3. ~IsMark(ValueTriplesBack[2]) /\ ~IsMark(ValueTriplesBack[5])
      BY <1>0, <2>4
    <3>4. \A i \in 1..5 : i \in {1, 3, 4} \/ i = 2 \/ i = 5
      OBVIOUS
    <3>5. 2 + 1 = 3 /\ 5 + 1 = 6
      OBVIOUS
    <3> QED BY <2>6, <2>7, <3>2, <3>3, <3>4, <3>5
  <2>9. ValueTriplesBack \in Seq({ValueTriplesBack[i] : i \in 1..5}) /\ Len(ValueTriplesBack) = 5
    BY <2>2, ListBy
  <2>10. RowsGo(ValueTriplesBack, f[1], f[5 + 1])
    BY <2>8, <2>9, RowsThrough
  <2>11. f[1] = Stage("both", "tag", "plain") /\ f[5 + 1] = Stage("both", "none", "plain")
    BY <2>1
  <2> QED BY <2>10, <2>11
<1>6. RowsGo(KeysBack \o KeyTriplesBack, Newer, Stage("table", "tag", "plain"))
  BY <1>1, <1>2, RowsJoin
<1>7. RowsGo(KeysBack \o KeyTriplesBack \o DigestsBack, Newer, Stage("table", "tag", "plain"))
  BY <1>3, <1>6, RowsJoin
<1>8. RowsGo(KeysBack \o KeyTriplesBack \o DigestsBack \o LocatorsBack, Newer,
             Stage("both", "tag", "plain"))
  BY <1>4, <1>7, RowsJoin
<1> QED BY <1>5, <1>8, RowsJoin DEF DownMiddle

LEMMA Down0003Rows == RowsGo(Down0003, Newer, Older)
<1> DEFINE views == [i \in DOMAIN NewViews |-> DropView(NewViews[i].name)]
           drops == [i \in DOMAIN NewTables |-> DropTable(NewTables[i])]
<1>1. \A x : RowsGo(views, x, x)
  <2>1. views = [i \in 1..4 |-> views[i]] /\ \A i \in 1..4 : views[i].do = "drop views"
    BY NewViewsList DEF DropView
  <2> HIDE DEF views
  <2>2. views \in Seq({views[i] : i \in 1..4}) /\ Len(views) = 4
    BY <2>1, ListBy
  <2> QED BY <2>1, <2>2, RowsStill DEF Still
<1>2. RowsGo(Reverse(drops), Stage("both", "none", "plain"), Older)
  <2> DEFINE p == Reverse(drops)
             f == [i \in 1..8 |-> IF i < 8 THEN Stage("both", "none", "plain") ELSE Older]
  <2>1. drops \in Seq({drops[i] : i \in 1..7}) /\ Len(drops) = 7
    <3>1. drops = [i \in 1..7 |-> drops[i]]
      BY NewTablesList
    <3> HIDE DEF drops
    <3> QED BY <3>1, ListBy
  <2>2. p = [i \in 1..7 |-> drops[8 - i]]
    <3>1. p = [i \in 1..7 |-> drops[(7 - i) + 1]]
      BY <2>1 DEF Reverse
    <3>2. \A i \in 1..7 : (7 - i) + 1 = 8 - i
      OBVIOUS
    <3> QED BY <3>1, <3>2
  <2>3. \A i \in 1..7 : p[i] = DropTable(NewTables[8 - i]) /\ 8 - i \in 1..7
    BY <2>2, NewTablesList
  <2>4. p \in Seq({p[i] : i \in 1..7}) /\ Len(p) = 7
    <3>1. p = [i \in 1..7 |-> p[i]]
      BY <2>2
    <3> HIDE DEF p
    <3> QED BY <3>1, ListBy
  <2>5. (\A i \in 1..7 : f[i] = Stage("both", "none", "plain")) /\ f[8] = Older
    OBVIOUS
  <2> HIDE DEF p, f
  <2>6. NewTables[1] = "hrefs"
    BY DEF NewTables
  <2>7. ASSUME NEW i \in 1..6 PROVE Moves(p[i], f[i], f[i + 1])
    <3>1. PICK k \in 1..7 : k = 8 - i /\ k # 1
      OBVIOUS
    <3>2. p[i] = DropTable(NewTables[k])
      BY <2>3, <3>1
    <3>3. f[i] = f[i + 1]
      BY <2>5
    <3>4. NewTables[k] # "hrefs" /\ 1 \in 1..7
      BY <2>6, <3>1, NewTablesList
    <3>5. NewTables[k] \notin BeforeTables
      BY NewTablesList
    <3>6. NewTables[k] \notin Told
      BY <3>5, InitialTablesList DEF BeforeTables, First, Told
    <3>7. \A r \in OldRows : r.tbl # NewTables[k]
      BY RowsFacts
    <3>8. Moves(DropTable(NewTables[k]), f[i], f[i])
      BY <3>4, <3>6, <3>7, DropMoves
    <3> QED BY <3>2, <3>3, <3>8
  <2>8. Moves(p[7], f[7], f[8])
    <3>1. p[7] = DropTable("hrefs")
      <4>1. 7 \in 1..7 /\ 8 - 7 = 1
        OBVIOUS
      <4> QED BY <2>3, <2>6, <4>1
    <3>2. f[7] = Stage("both", "none", "plain") /\ f[8] = Stage("column", "none", "plain")
      BY <2>5 DEF Older
    <3> QED BY <3>1, <3>2, NoOldHrefs, DropHrefsMoves
  <2>9. \A i \in 1..7 : ~IsMark(p[i])
    BY <2>3 DEF IsMark, DropTable
  <2>10. \A i \in 1..7 : ~IsMark(p[i]) /\ Moves(p[i], f[i], f[i + 1])
    <3>1. \A i \in 1..7 : i \in 1..6 \/ i = 7
      OBVIOUS
    <3>2. 7 + 1 = 8
      OBVIOUS
    <3> QED BY <2>7, <2>8, <2>9, <3>1, <3>2
  <2>11. RowsGo(p, f[1], f[7 + 1])
    BY <2>4, <2>10, RowsThrough
  <2>12. f[1] = Stage("both", "none", "plain") /\ f[7 + 1] = Older
    BY <2>5
  <2> QED BY <2>11, <2>12 DEF p
<1>3. Down0003 = DownMiddle \o views \o Reverse(drops)
  BY DEF Down0003, DownMiddle
<1> HIDE DEF views, drops
<1> QED BY <1>1, <1>2, <1>3, DownMiddleRows, RowsJoin

LEMMA RowsOfMigrations ==
  \A m \in 1..4 :
    /\ RowsGo(Up[m], StageOf(m - 1), StageOf(m))
    /\ RowsGo(Down[m], IF m = 1 THEN Gone ELSE StageOf(m), StageOf(m - 1))
<1>1. /\ Up[1] = Up0000 /\ Up[2] = Up0001 /\ Up[3] = Up0002 /\ Up[4] = Up0003
      /\ Down[1] = Down0000 /\ Down[2] = Down0001 /\ Down[3] = Down0002 /\ Down[4] = Down0003
  BY DEF Up, Down
<1>2. StageOf(0) = Gone /\ StageOf(1) = Older /\ StageOf(2) = Older /\ StageOf(3) = Older
      /\ StageOf(4) = Newer
  BY DEF StageOf
<1>3. \A m \in 1..4 : m \in {1, 2, 3, 4}
  OBVIOUS
<1>4. 1 - 1 = 0 /\ 2 - 1 = 1 /\ 3 - 1 = 2 /\ 4 - 1 = 3
  OBVIOUS
<1> QED BY <1>1, <1>2, <1>3, <1>4, Rows0000, Rows0001, Rows0002, Up0003Rows, Down0003Rows
-----------------------------------------------------------------------------

Places == {"idle", "meta", "lock", "unlock early", "plan", "run", "unlock"}
Names == {"Store.Init", "Store.Migrate", "init", "migrate", "rollback", "clear", None}

\* A process that has inserted the row of the lock table and not removed it.
HasLock(p) == Holding(p) \/ pc[p] = "unlock early"

\* MigratesAlone says nothing of the moment between the Lock and the early Unlock
\* of "db migrate", at which that process must not delete the row of another.
LockInv ==
  /\ pc \in [Procs -> Places] /\ cmd \in [Procs -> Names]
  /\ \A p, q \in Procs : HasLock(p) /\ HasLock(q) => p = q
  /\ \A p \in Procs : HasLock(p) => locked
  /\ \A p \in Procs : pc[p] = "unlock early" => cmd[p] = "migrate"
  /\ \A p \in Procs : pc[p] = "unlock" => Holding(p)

\* A step of p that leaves the lock row and every other process alone.
LEMMA KeepsLock ==
  ASSUME LockInv, NEW p \in Procs, UNCHANGED locked,
         NEW l \in Places, NEW c \in Names,
         pc' = [pc EXCEPT ![p] = l], cmd' = [cmd EXCEPT ![p] = c],
         HasLock(p)' => HasLock(p),
         l = "unlock early" => c = "migrate",
         l = "unlock" => c \in Locking \ {"migrate"}
  PROVE  LockInv'
BY DEF LockInv, HasLock, Holding, Places, Names

LEMMA ReturnKeepsLock ==
  ASSUME LockInv, NEW p \in Procs, UNCHANGED locked, Return(p)
  PROVE  LockInv'
<1>1. pc' = [pc EXCEPT ![p] = "idle"] /\ cmd' = [cmd EXCEPT ![p] = None]
  BY DEF Return, Goto
<1>2. ~HasLock(p)'
  BY <1>1 DEF LockInv, HasLock, Holding
<1>3. "idle" \in Places /\ None \in Names /\ "idle" # "unlock" /\ "idle" # "unlock early"
  BY DEF Places, Names
<1> QED BY <1>1, <1>2, <1>3, KeepsLock

LEMMA AbortKeepsLock ==
  ASSUME LockInv, NEW p \in Procs, UNCHANGED locked, Abort(p)
  PROVE  LockInv'
<1>1. CASE ~(Holding(p) /\ cmd[p] \in UnlockAfterError)
  BY <1>1, ReturnKeepsLock DEF Places, Abort
<1>2. CASE Holding(p) /\ cmd[p] \in UnlockAfterError
  <2>1. pc' = [pc EXCEPT ![p] = "unlock"] /\ cmd' = [cmd EXCEPT ![p] = cmd[p]]
    BY <1>2 DEF Abort, Goto, LockInv
  <2> QED BY <1>2, <2>1, KeepsLock DEF Places, Holding, HasLock, LockInv
<1> QED BY <1>1, <1>2

\* Releasing the row: nobody else has the lock.
LEMMA ReleaseKeepsLock ==
  ASSUME LockInv, NEW p \in Procs, HasLock(p), locked' = FALSE,
         NEW l \in {"idle", "plan"}, NEW c \in Names,
         pc' = [pc EXCEPT ![p] = l], cmd' = [cmd EXCEPT ![p] = c],
         ~HasLock(p)'
  PROVE  LockInv'
BY DEF LockInv, HasLock, Holding, Places, Names

LEMMA TakeKeepsLock ==
  ASSUME LockInv, NEW p \in Procs, Lock(p)
  PROVE  LockInv'
<1>1. CASE ~CanLock /\ Return(p) /\ UNCHANGED locked
  BY <1>1, ReturnKeepsLock
<1>2. CASE CanLock /\ locked' = TRUE /\ Goto(p, AfterLock(cmd[p])) /\ UNCHANGED <<todo, cmd>>
  <2>1. \A q \in Procs : ~HasLock(q)
    BY <1>2 DEF CanLock, LockInv
  <2>2. pc' = [pc EXCEPT ![p] = AfterLock(cmd[p])] /\ cmd' = cmd /\ locked' = TRUE
    BY <1>2 DEF Goto
  <2>3. AfterLock(cmd[p]) \in {"unlock early", "plan"}
        /\ (AfterLock(cmd[p]) = "unlock early" => cmd[p] = "migrate")
    BY DEF AfterLock
  <2> QED BY <2>1, <2>2, <2>3 DEF Places, LockInv, HasLock, Holding
<1> QED BY <1>1, <1>2 DEF Lock

LEMMA LockInit == Init => LockInv
BY DEF Init, LockInv, HasLock, Holding, Places, Names, None

LEMMA LockStep == LockInv /\ [Next]_vars => LockInv'
<1> SUFFICES ASSUME LockInv, [Next]_vars PROVE LockInv'
  OBVIOUS
<1>1. CASE UNCHANGED vars
  BY <1>1 DEF vars, LockInv, HasLock, Holding
<1>2. ASSUME NEW p \in Procs, Give(p) PROVE LockInv'
  <2>1. PICK c \in CommandsOf[p] :
           cmd' = [cmd EXCEPT ![p] = c] /\
           Goto(p, CASE c \in {"init", "Store.Init"} -> "meta"
                     [] c \in Locking \ {"init", "Store.Init"} -> "lock"
                     [] c = "clear" -> "run")
    BY <1>2 DEF Give
  <2>2. c \in All /\ UNCHANGED locked
    BY <1>2, MigratorAssumption DEF Give
  <2>3. PICK l \in {"meta", "lock", "run"} :
           pc' = [pc EXCEPT ![p] = l] /\ (l = "run" => c = "clear")
    BY <2>1, <2>2 DEF Goto, All, Locking, Migrating, StoreCalls
  <2>4. ~HasLock(p)'
    BY <2>1, <2>3 DEF LockInv, HasLock, Holding, Locking, Migrating, StoreCalls
  <2>5. c \in Names
    BY <2>2 DEF Names, All, Locking, Migrating, StoreCalls
  <2> QED BY <2>1, <2>2, <2>3, <2>4, <2>5, KeepsLock DEF Places
<1>3. ASSUME NEW p \in Procs, CreateMeta(p) PROVE LockInv'
  <2>1. pc' = [pc EXCEPT ![p] = "lock"] /\ cmd' = [cmd EXCEPT ![p] = cmd[p]] /\ UNCHANGED locked
    BY <1>3 DEF CreateMeta, Goto, LockInv
  <2> QED BY <2>1, KeepsLock DEF Places, LockInv, HasLock, Holding
<1>4. ASSUME NEW p \in Procs, Lock(p) PROVE LockInv'
  BY <1>4, TakeKeepsLock
<1>5. ASSUME NEW p \in Procs, UnlockEarly(p) PROVE LockInv'
  <2>1. HasLock(p) /\ cmd[p] = "migrate" /\ locked' = FALSE
    BY <1>5 DEF UnlockEarly, HasLock, LockInv
  <2>2. pc' = [pc EXCEPT ![p] = "plan"] /\ cmd' = [cmd EXCEPT ![p] = cmd[p]]
    BY <1>5 DEF UnlockEarly, Goto, LockInv
  <2> QED BY <2>1, <2>2, ReleaseKeepsLock DEF Places, LockInv, HasLock, Holding
<1>6. ASSUME NEW p \in Procs, Plan(p) PROVE LockInv'
  <2>1. pc[p] = "plan" /\ pc' = [pc EXCEPT ![p] = "run"]
        /\ cmd' = [cmd EXCEPT ![p] = cmd[p]] /\ UNCHANGED locked
    BY <1>6 DEF Plan, Goto, LockInv
  <2> QED BY <2>1, KeepsLock DEF Places, LockInv, HasLock, Holding
<1>7. ASSUME NEW p \in Procs, MarkApplied(p) \/ MarkUnapplied(p) \/ Execute(p) PROVE LockInv'
  <2>1. UNCHANGED <<pc, cmd, locked>>
    BY <1>7 DEF MarkApplied, MarkUnapplied, Execute
  <2> QED BY <2>1 DEF LockInv, HasLock, Holding
<1>8. ASSUME NEW p \in Procs, Refused(p) \/ Fail(p) PROVE LockInv'
  BY <1>8, AbortKeepsLock DEF Places, Refused, Fail
<1>9. ASSUME NEW p \in Procs, Finish(p) PROVE LockInv'
  <2>1. CASE ~Holding(p)
    BY <1>9, <2>1, ReturnKeepsLock DEF Places, Finish
  <2>2. CASE Holding(p)
    <3>1. pc' = [pc EXCEPT ![p] = "unlock"] /\ cmd' = [cmd EXCEPT ![p] = cmd[p]]
          /\ UNCHANGED locked
      BY <1>9, <2>2 DEF Finish, Goto, LockInv
    <3> QED BY <2>2, <3>1, KeepsLock DEF Places, LockInv, HasLock, Holding
  <2> QED BY <2>1, <2>2
<1>10. ASSUME NEW p \in Procs, Unlock(p) PROVE LockInv'
  <2>1. HasLock(p) /\ locked' = FALSE /\ pc' = [pc EXCEPT ![p] = "idle"]
        /\ cmd' = [cmd EXCEPT ![p] = None]
    BY <1>10 DEF Unlock, Return, Goto, LockInv, HasLock
  <2> QED BY <2>1, ReleaseKeepsLock DEF Places, Names, LockInv, HasLock, Holding, None
<1>11. ASSUME NEW p \in Procs, Die(p) PROVE LockInv'
  BY <1>11, ReturnKeepsLock DEF Places, Die
<1> QED
  BY <1>1, <1>2, <1>3, <1>4, <1>5, <1>6, <1>7, <1>8, <1>9, <1>10, <1>11 DEF Next, Works

\* Whatever fails or dies, two commands never migrate at the same time unless one
\* of them has given its lock up, as "db migrate" does (db.go:62).
THEOREM LockExcludes == Spec => []MigratesAlone
<1>1. LockInv => MigratesAlone
  BY DEF LockInv, MigratesAlone, HasLock
<1> QED BY <1>1, LockInit, LockStep, PTL DEF Spec
-----------------------------------------------------------------------------
(* What Migrate and Rollback read in the migrations table.                 *)

MarkRows == [migration : Migrations, group : Nat]

InOrder(ms) ==
  /\ Len(ms) <= 4 /\ \A i \in 1..Len(ms) : ms[i].migration = i
  /\ \A i \in 1..Len(ms) : \A j \in i..Len(ms) : ms[i].group <= ms[j].group

LEMMA OrderedMarks ==
  ASSUME marks \in Seq(MarkRows), InOrder(marks), NEW n, n = Len(marks)
  PROVE  /\ n \in 0..4 /\ Marked = 1..n
         /\ \A m \in 1..n : FirstMark(m) = m /\ GroupOf(m) = marks[m].group
         /\ LastGroup \in Nat
         /\ n > 0 => LastGroup = marks[n].group
         /\ \A m \in 1..n : GroupOf(m) <= LastGroup
<1>1. n \in 0..4 /\ DOMAIN marks = 1..n /\ \A i \in 1..n : marks[i].group \in Nat
  <2>1. n \in Nat /\ DOMAIN marks = 1..n /\ \A i \in 1..n : marks[i] \in MarkRows
    OBVIOUS
  <2>2. n <= 4
    BY DEF InOrder
  <2>3. \A r \in MarkRows : r.group \in Nat
    BY DEF MarkRows
  <2> QED BY <2>1, <2>2, <2>3
<1>2. Marked = 1..n
  <2>1. \A i \in DOMAIN marks : marks[i].migration = i
    BY <1>1 DEF InOrder
  <2>2. Marked = {i : i \in DOMAIN marks}
    BY <2>1 DEF Marked
  <2> QED BY <1>1, <2>2
<1>3. ASSUME NEW m \in 1..n PROVE FirstMark(m) = m /\ GroupOf(m) = marks[m].group
  <2>1. \A i \in DOMAIN marks :
          (marks[i].migration = m /\ \A j \in 1..(i - 1) : marks[j].migration # m) <=> i = m
    BY <1>1 DEF InOrder
  <2>2. m \in DOMAIN marks
    BY <1>1
  <2>3. FirstMark(m) = m
    BY <2>1, <2>2 DEF FirstMark
  <2> QED BY <2>3 DEF GroupOf
<1>4. Groups = {marks[m].group : m \in 1..n}
  BY <1>2, <1>3 DEF Groups
<1>5. CASE n = 0
  <2>1. Groups = {}
    BY <1>1, <1>4, <1>5
  <2> QED BY <1>1, <1>2, <1>5, <2>1 DEF LastGroup
<1>6. CASE n > 0
  <2>1. n \in 1..n /\ marks[n].group \in Groups /\ Groups # {}
    BY <1>1, <1>4, <1>6
  <2>2. \A h \in Groups : h <= marks[n].group
    BY <1>1, <1>4, <1>6 DEF InOrder
  <2>3. \A g \in Groups : (\A h \in Groups : h <= g) => g = marks[n].group
    <3>1. \A g \in Groups : g \in Nat
      BY <1>1, <1>4
    <3> QED BY <2>1, <2>2, <3>1
  <2>4. LastGroup = marks[n].group
    BY <2>1, <2>2, <2>3 DEF LastGroup
  <2> QED BY <1>1, <1>2, <1>3, <2>1, <2>4 DEF InOrder
<1> QED BY <1>1, <1>5, <1>6
-----------------------------------------------------------------------------
(* What they make of it.                                                   *)

\* The marks with the schema and with the stage of the rows when the first n migrations
\* are applied.
Now(n) == At(n, SchemaOf(n))
RowsNow(n) == With(n, StageOf(n))

Reaches(p, m, n) == Leads(p, Now(m), Now(n)) /\ Leads(p, RowsNow(m), RowsNow(n))

LEMMA ReachesNowhere == ASSUME NEW n PROVE Reaches(<<>>, n, n)
BY LeadsNowhere DEF Reaches

LEMMA ReachesJoin ==
  ASSUME NEW p, NEW q, NEW k, NEW m, NEW n, Reaches(p, k, m), Reaches(q, m, n)
  PROVE  Reaches(p \o q, k, n)
BY LeadsJoin DEF Reaches

\* The marks in a list of statements are of migrations, and of one group.
Good(p, g) ==
  /\ IsSequence(p)
  /\ \A i \in 1..Len(p) :
       IsMark(p[i]) => p[i].m \in Migrations /\ (p[i].do = "mark" => p[i].group = g)

LEMMA GoodNothing == ASSUME NEW g PROVE Good(<<>>, g)
BY DEF Good, IsSequence

LEMMA GoodOne ==
  ASSUME NEW st, NEW g, IsMark(st) => st.m \in Migrations /\ (st.do = "mark" => st.group = g)
  PROVE  Good(<<st>>, g)
<1>1. <<st>> \in Seq({st}) /\ Len(<<st>>) = 1 /\ <<st>>[1] = st
  OBVIOUS
<1>2. \A i \in 1..1 : i = 1
  OBVIOUS
<1> QED BY <1>1, <1>2 DEF Good, IsSequence

LEMMA GoodJoin ==
  ASSUME NEW p, NEW q, NEW g, Good(p, g), Good(q, g)
  PROVE  Good(p \o q, g)
<1>1. PICK S : p \in Seq(S)
  BY DEF Good, IsSequence
<1>2. PICK T : q \in Seq(T)
  BY DEF Good, IsSequence
<1>3. p \in Seq(S \cup T) /\ q \in Seq(S \cup T)
  BY <1>1, <1>2
<1>4. ASSUME NEW i \in 1..Len(p \o q)
      PROVE  (\E j \in 1..Len(p) : (p \o q)[i] = p[j]) \/ \E j \in 1..Len(q) : (p \o q)[i] = q[j]
  <2>1. CASE i <= Len(p)
    BY <1>3, <2>1
  <2>2. CASE i > Len(p)
    <3>1. (p \o q)[i] = q[i - Len(p)] /\ i - Len(p) \in 1..Len(q)
      BY <1>3, <2>2
    <3> QED BY <3>1
  <2> QED BY <1>3, <2>1, <2>2
<1>5. p \o q \in Seq(S \cup T)
  BY <1>3
<1> QED BY <1>4, <1>5 DEF Good, IsSequence

LEMMA GoodTail ==
  ASSUME NEW p, NEW g, Good(p, g), p # <<>>
  PROVE  /\ Good(Tail(p), g)
         /\ IsMark(Head(p)) => /\ Head(p).m \in Migrations
                               /\ Head(p).do = "mark" => Head(p).group = g
<1>1. PICK S : p \in Seq(S)
  BY DEF Good, IsSequence
<1>2. /\ Tail(p) \in Seq(S) /\ Len(Tail(p)) = Len(p) - 1 /\ Len(p) \in Nat \ {0} /\ Head(p) = p[1]
      /\ \A i \in 1..Len(Tail(p)) : Tail(p)[i] = p[i + 1] /\ i + 1 \in 1..Len(p)
  BY <1>1
<1> QED BY <1>2 DEF Good, IsSequence

LEMMA MarkThenUp ==
  ASSUME NEW m \in 1..4, NEW g
  PROVE  /\ Reaches(<<Mark(m, g)>> \o Up[m], m - 1, m)
         /\ Good(<<Mark(m, g)>> \o Up[m], g)
<1>0. Mark(m, g).do = "mark" /\ Mark(m, g).m = m /\ (m - 1) + 1 = m
  BY DEF Mark
<1>1. Step(Mark(m, g), Now(m - 1), At(m, SchemaOf(m - 1)))
  BY <1>0 DEF Step, Now, At
<1>2. Step(Mark(m, g), RowsNow(m - 1), With(m, StageOf(m - 1)))
  BY <1>0 DEF Step, RowsNow, With
<1>3. /\ Leads(<<Mark(m, g)>>, Now(m - 1), At(m, SchemaOf(m - 1)))
      /\ Leads(<<Mark(m, g)>>, RowsNow(m - 1), With(m, StageOf(m - 1)))
  BY <1>1, <1>2, LeadsOne
<1>4. Goes(Up[m], SchemaOf(m - 1), SchemaOf(m)) /\ RowsGo(Up[m], StageOf(m - 1), StageOf(m))
  BY MigrationsGo, RowsOfMigrations
<1>5. /\ Leads(Up[m], At(m, SchemaOf(m - 1)), Now(m)) /\ \A i \in 1..Len(Up[m]) : ~IsMark(Up[m][i])
      /\ Leads(Up[m], With(m, StageOf(m - 1)), RowsNow(m))
  BY <1>4 DEF Goes, RowsGo, Now, RowsNow
<1>6. Good(Up[m], g)
  BY <1>5 DEF Good, Leads
<1>7. Good(<<Mark(m, g)>>, g)
  BY GoodOne DEF Mark, Migrations
<1> QED BY <1>3, <1>5, <1>6, <1>7, LeadsJoin, GoodJoin DEF Reaches

LEMMA UnmarkThenDown ==
  ASSUME NEW m \in 1..4, NEW g
  PROVE  /\ Reaches(<<Unmark(m)>> \o Down[m], m, m - 1)
         /\ Good(<<Unmark(m)>> \o Down[m], g)
<1> DEFINE x == IF m = 1 THEN Gone ELSE StageOf(m)
<1>0. Unmark(m).do = "unmark" /\ Unmark(m).m = m
  BY DEF Unmark
<1>1. Step(Unmark(m), Now(m), At(m - 1, SchemaOf(m)))
  BY <1>0 DEF Step, Now, At
<1>2. Step(Unmark(m), RowsNow(m), With(m - 1, x))
  BY <1>0 DEF Step, RowsNow, With
<1>3. /\ Leads(<<Unmark(m)>>, Now(m), At(m - 1, SchemaOf(m)))
      /\ Leads(<<Unmark(m)>>, RowsNow(m), With(m - 1, x))
  BY <1>1, <1>2, LeadsOne
<1>4. Goes(Down[m], SchemaOf(m), SchemaOf(m - 1)) /\ RowsGo(Down[m], x, StageOf(m - 1))
  BY MigrationsGo, RowsOfMigrations
<1> HIDE DEF x
<1>5. /\ Leads(Down[m], At(m - 1, SchemaOf(m)), Now(m - 1))
      /\ \A i \in 1..Len(Down[m]) : ~IsMark(Down[m][i])
      /\ Leads(Down[m], With(m - 1, x), RowsNow(m - 1))
  BY <1>4 DEF Goes, RowsGo, Now, RowsNow
<1>6. Good(Down[m], g)
  BY <1>5 DEF Good, Leads
<1>7. Good(<<Unmark(m)>>, g)
  BY GoodOne DEF Unmark, Migrations
<1> QED BY <1>3, <1>5, <1>6, <1>7, LeadsJoin, GoodJoin DEF Reaches

\* Whatever is marked, the marks a migration makes are of migrations, and of one group.
LEMMA PlansAreGood ==
  /\ Good(MigrateSteps, LastGroup + 1)
  /\ \A g : Good(RollbackSteps, g)
<1>1. \A m \in 1..4 : Good(UpSteps(m), LastGroup + 1)
  BY MarkThenUp, GoodNothing DEF UpSteps
<1>2. \A m \in 1..4 : \A g : Good(DownSteps(m), g)
  BY UnmarkThenDown, GoodNothing DEF DownSteps
<1>3. 1 \in 1..4 /\ 2 \in 1..4 /\ 3 \in 1..4 /\ 4 \in 1..4
  OBVIOUS
<1> QED BY <1>1, <1>2, <1>3, GoodJoin DEF MigrateSteps, RollbackSteps

\* Up: from the migrations that are marked to all of them.
LEMMA MigrateLeads ==
  ASSUME marks \in Seq(MarkRows), InOrder(marks)
  PROVE  Reaches(MigrateSteps, Len(marks), 4)
<1> DEFINE n == Len(marks)
           Reached(m) == IF m <= n THEN n ELSE m
<1>1. n \in 0..4 /\ Marked = 1..n
  BY OrderedMarks
<1> HIDE DEF n
<1>2. ASSUME NEW m \in 1..4
      PROVE  Reaches(UpSteps(m), Reached(m - 1), Reached(m))
  <2>1. CASE m <= n
    <3>1. m \in Marked /\ Reached(m - 1) = n /\ Reached(m) = n
      BY <1>1, <2>1
    <3> QED BY <3>1, ReachesNowhere DEF UpSteps
  <2>2. CASE m > n
    <3>1. m \notin Marked /\ Reached(m - 1) = m - 1 /\ Reached(m) = m
      BY <1>1, <2>2
    <3> QED BY <3>1, MarkThenUp DEF UpSteps
  <2> QED BY <1>1, <2>1, <2>2
<1>3. Reached(0) = n /\ Reached(4) = 4
  BY <1>1
<1>4. /\ Reaches(UpSteps(1), Reached(0), Reached(1))
      /\ Reaches(UpSteps(2), Reached(1), Reached(2))
      /\ Reaches(UpSteps(3), Reached(2), Reached(3))
      /\ Reaches(UpSteps(4), Reached(3), Reached(4))
  <2>1. 1 \in 1..4 /\ 2 \in 1..4 /\ 3 \in 1..4 /\ 4 \in 1..4
        /\ 1 - 1 = 0 /\ 2 - 1 = 1 /\ 3 - 1 = 2 /\ 4 - 1 = 3
    OBVIOUS
  <2> HIDE DEF Reached
  <2> QED BY <1>2, <2>1
<1> HIDE DEF Reached
<1>5. Reaches(MigrateSteps, Reached(0), Reached(4))
  BY <1>4, ReachesJoin DEF MigrateSteps
<1> QED BY <1>3, <1>5 DEF n

\* Down: to the migrations of earlier groups.
LEMMA RollbackLeads ==
  ASSUME marks \in Seq(MarkRows), InOrder(marks)
  PROVE  \E t \in 0..4 : Reaches(RollbackSteps, Len(marks), t)
<1> DEFINE n == Len(marks)
           InLast(m) == m \in Marked /\ GroupOf(m) = LastGroup
           Reached(m, x) == x \in 0..4 /\ (InLast(m) => x = m - 1) /\ (m > n => x = n)
<1>1. /\ n \in 0..4 /\ Marked = 1..n
      /\ \A m \in 1..n : GroupOf(m) = marks[m].group /\ marks[m].group \in Nat
      /\ n > 0 => LastGroup = marks[n].group
  <2>1. \A m \in 1..Len(marks) : marks[m] \in MarkRows
    OBVIOUS
  <2> QED BY <2>1, OrderedMarks DEF MarkRows
<1>2. ASSUME NEW m \in 1..4, InLast(m), m < n PROVE InLast(m + 1)
  <2>1. m \in 1..n /\ m + 1 \in 1..n /\ n > 0 /\ n \in 1..n
    BY <1>1, <1>2
  <2>2. marks[m].group = marks[n].group
    BY <1>1, <1>2, <2>1
  <2>3. marks[m].group <= marks[m + 1].group /\ marks[m + 1].group <= marks[n].group
    BY <1>1, <2>1 DEF InOrder
  <2>4. marks[m + 1].group = marks[n].group
    BY <1>1, <2>1, <2>2, <2>3
  <2> QED BY <1>1, <2>1, <2>4
<1>3. ASSUME NEW m \in 1..4, NEW x, Reached(m + 1, x)
      PROVE  \E y : Reached(m, y) /\ Reaches(DownSteps(m), x, y)
  <2>1. CASE InLast(m)
    <3>1. m <= n
      BY <1>1, <2>1
    <3>2. x = m
      BY <1>1, <1>2, <1>3, <2>1, <3>1
    <3>3. Reached(m, m - 1)
      BY <2>1, <3>1, <1>1
    <3>4. DownSteps(m) = <<Unmark(m)>> \o Down[m]
      BY <2>1 DEF DownSteps
    <3> QED BY <3>2, <3>3, <3>4, UnmarkThenDown
  <2>2. CASE ~InLast(m)
    <3>1. Reached(m, x)
      BY <1>1, <1>3, <2>2
    <3>2. DownSteps(m) = <<>>
      BY <2>2 DEF DownSteps
    <3> QED BY <3>1, <3>2, ReachesNowhere
  <2> QED BY <2>1, <2>2
<1>4. Reached(5, n)
  BY <1>1
<1>5. 1 \in 1..4 /\ 2 \in 1..4 /\ 3 \in 1..4 /\ 4 \in 1..4
      /\ 1 + 1 = 2 /\ 2 + 1 = 3 /\ 3 + 1 = 4 /\ 4 + 1 = 5
  OBVIOUS
<1>6. \A x : Reached(1, x) => x \in 0..4
  OBVIOUS
<1> HIDE DEF n, Reached, InLast
<1>7. PICK x4 : Reached(4, x4) /\ Reaches(DownSteps(4), n, x4)
  BY <1>3, <1>4, <1>5
<1>8. PICK x3 : Reached(3, x3) /\ Reaches(DownSteps(3), x4, x3)
  BY <1>3, <1>5, <1>7
<1>9. PICK x2 : Reached(2, x2) /\ Reaches(DownSteps(2), x3, x2)
  BY <1>3, <1>5, <1>8
<1>10. PICK x1 : Reached(1, x1) /\ Reaches(DownSteps(1), x2, x1)
  BY <1>3, <1>5, <1>9
<1>11. Reaches(RollbackSteps, n, x1)
  BY <1>7, <1>8, <1>9, <1>10, ReachesJoin DEF RollbackSteps
<1> QED BY <1>6, <1>10, <1>11 DEF n
-----------------------------------------------------------------------------
(* Groups are numbers, however the table has come about: there is a first   *)
(* row of each migration and a last of the groups.                         *)

LEMMA FirstMarkIsThere ==
  ASSUME marks \in Seq(MarkRows), NEW m \in Marked
  PROVE  FirstMark(m) \in 1..Len(marks) /\ marks[FirstMark(m)].migration = m
<1> DEFINE N == {i \in 1..Len(marks) : marks[i].migration = m}
<1>1. DOMAIN marks = 1..Len(marks) /\ Len(marks) \in Nat
  OBVIOUS
<1>2. N # {} /\ N \subseteq Nat
  BY <1>1 DEF Marked
<1>3. PICK i \in N : \A k \in N : i <= k
  <2> HIDE DEF N
  <2> QED BY <1>2, LeastNumber
<1>4. i \in DOMAIN marks /\ marks[i].migration = m
      /\ \A j \in 1..(i - 1) : marks[j].migration # m
  BY <1>1, <1>3
<1>5. FirstMark(m) \in DOMAIN marks /\ marks[FirstMark(m)].migration = m
  BY <1>4 DEF FirstMark
<1> QED BY <1>1, <1>5

LEMMA LastGroupIsNumber ==
  ASSUME marks \in Seq(MarkRows)
  PROVE  LastGroup \in Nat
<1> DEFINE n == Len(marks)
<1>1. n \in Nat /\ DOMAIN marks = 1..n /\ \A i \in 1..n : marks[i].group \in Nat
  <2>1. \A i \in 1..n : marks[i] \in MarkRows
    OBVIOUS
  <2> QED BY <2>1 DEF MarkRows
<1> HIDE DEF n
<1>2. ASSUME NEW m \in Marked
      PROVE  GroupOf(m) \in Nat /\ \E i \in 1..n : GroupOf(m) = marks[i].group
  BY <1>1, FirstMarkIsThere DEF GroupOf, n
<1>3. \E b \in Nat : \A i \in 1..n : marks[i].group <= b
  <2> DEFINE S == {k \in Nat : \E b \in Nat : \A i \in 1..n : i <= k => marks[i].group <= b}
  <2>1. 0 \in S
    BY <1>1
  <2>2. ASSUME NEW k \in Nat, k \in S PROVE k + 1 \in S
    <3>1. PICK b \in Nat : \A i \in 1..n : i <= k => marks[i].group <= b
      BY <2>2
    <3>2. CASE k + 1 \in 1..n
      <4> DEFINE c == IF marks[k + 1].group <= b THEN b ELSE marks[k + 1].group
      <4>1. c \in Nat /\ b <= c /\ marks[k + 1].group <= c
        BY <1>1, <3>2
      <4>2. ASSUME NEW i \in 1..n, i <= k + 1 PROVE marks[i].group <= c
        <5>1. i = k + 1 \/ i <= k
          BY <1>1, <4>2
        <5> QED BY <1>1, <3>1, <4>1, <5>1
      <4> HIDE DEF c
      <4>3. \E d \in Nat : \A i \in 1..n : i <= k + 1 => marks[i].group <= d
        BY <4>1, <4>2, Zenon
      <4> QED BY <4>3
    <3>3. CASE k + 1 \notin 1..n
      <4>1. \A i \in 1..n : i <= k + 1 => i <= k
        BY <1>1, <3>3
      <4> QED BY <3>1, <4>1
    <3> QED BY <3>2, <3>3
  <2>3. n \in S
    <3> HIDE DEF S
    <3> QED BY <1>1, <2>1, <2>2, AllNumbers
  <2> QED BY <1>1, <2>3
<1>4. CASE Groups = {}
  BY <1>4 DEF LastGroup
<1>5. CASE Groups # {}
  <2>1. Groups \subseteq Nat
    BY <1>2 DEF Groups
  <2> DEFINE B == {b \in Nat : \A g \in Groups : g <= b}
  <2>2. B # {}
    <3>1. PICK b \in Nat : \A i \in 1..n : marks[i].group <= b
      BY <1>3
    <3>2. \A m \in Marked : GroupOf(m) <= b
      BY <1>2, <3>1
    <3> QED BY <3>2 DEF Groups
  <2>3. PICK b \in B : \A k \in B : b <= k
    BY <2>2, LeastNumber
  <2>4. b \in Groups
    <3> SUFFICES ASSUME b \notin Groups PROVE FALSE
      OBVIOUS
    <3>1. \A g \in Groups : g <= b /\ g # b
      BY <2>3
    <3>2. PICK g \in Groups : TRUE
      BY <1>5
    <3>3. b - 1 \in Nat /\ \A h \in Groups : h <= b - 1
      BY <2>1, <2>3, <3>1, <3>2
    <3> QED BY <2>3, <3>3
  <2>5. \E g \in Groups : \A h \in Groups : h <= g
    BY <2>3, <2>4
  <2>6. LastGroup \in Groups
    BY <1>5, <2>5 DEF LastGroup
  <2> QED BY <2>1, <2>6
<1> QED BY <1>4, <1>5
-----------------------------------------------------------------------------
(* Types.  They hold also when migrations overlap or stop halfway.         *)

\* What each process is at, and what it has left to do.
PlaceInv ==
  /\ todo = [p \in Procs |-> todo[p]]
  /\ \A p \in Procs :
       /\ pc[p] # "idle" => cmd[p] \in All
       /\ pc[p] \notin {"idle", "run"} => cmd[p] \in Locking
       /\ \E g \in Nat : Good(todo[p], g)
       /\ pc[p] = "run" /\ cmd[p] = "clear" =>
            \A i \in 1..Len(todo[p]) : todo[p][i].do = "truncate"

TypeInv ==
  /\ LockInv /\ PlaceInv
  /\ meta \in BOOLEAN /\ locked \in BOOLEAN /\ broken \in BOOLEAN /\ lost \in BOOLEAN
  /\ marks \in Seq(MarkRows) /\ stored \subseteq {"old", "new"}
  /\ given \in 0..MaxCommands /\ failures \in 0..MaxFailures

\* A step of p that leaves every other process where it is.
LEMMA KeepsPlaces ==
  ASSUME LockInv, PlaceInv, NEW p \in Procs, NEW l, NEW c, NEW t,
         pc' = [pc EXCEPT ![p] = l], cmd' = [cmd EXCEPT ![p] = c], todo' = [todo EXCEPT ![p] = t],
         l # "idle" => c \in All, l \notin {"idle", "run"} => c \in Locking,
         \E g \in Nat : Good(t, g),
         l = "run" /\ c = "clear" => \A i \in 1..Len(t) : t[i].do = "truncate"
  PROVE  PlaceInv'
<1>1. todo' = [q \in Procs |-> todo'[q]]
  BY DEF PlaceInv
<1>2. ASSUME NEW q \in Procs
      PROVE  /\ pc'[q] = IF q = p THEN l ELSE pc[q]
             /\ cmd'[q] = IF q = p THEN c ELSE cmd[q]
             /\ todo'[q] = IF q = p THEN t ELSE todo[q]
  BY DEF LockInv, PlaceInv
<1>3. ASSUME NEW q \in Procs
      PROVE  /\ pc'[q] # "idle" => cmd'[q] \in All
             /\ pc'[q] \notin {"idle", "run"} => cmd'[q] \in Locking
             /\ \E g \in Nat : Good(todo'[q], g)
             /\ pc'[q] = "run" /\ cmd'[q] = "clear" =>
                  \A i \in 1..Len(todo'[q]) : todo'[q][i].do = "truncate"
  <2>1. CASE q = p
    BY <1>2, <2>1
  <2>2. CASE q # p
    BY <1>2, <2>2 DEF PlaceInv
  <2> QED BY <2>1, <2>2
<1> QED BY <1>1, <1>3 DEF PlaceInv

LEMMA NothingLeft == \E g \in Nat : Good(<<>>, g)
BY GoodNothing

LEMMA ReturnKeepsPlaces ==
  ASSUME LockInv, PlaceInv, NEW p \in Procs, Return(p)
  PROVE  PlaceInv'
BY KeepsPlaces, NothingLeft DEF Return, Goto

LEMMA AbortKeepsPlaces ==
  ASSUME LockInv, PlaceInv, NEW p \in Procs, Abort(p)
  PROVE  PlaceInv'
<1>1. CASE ~(Holding(p) /\ cmd[p] \in UnlockAfterError)
  BY <1>1, ReturnKeepsPlaces DEF Abort
<1>2. CASE Holding(p) /\ cmd[p] \in UnlockAfterError
  <2>1. pc' = [pc EXCEPT ![p] = "unlock"] /\ cmd' = [cmd EXCEPT ![p] = cmd[p]]
        /\ todo' = [todo EXCEPT ![p] = <<>>]
    BY <1>2 DEF Abort, Goto, LockInv
  <2>2. cmd[p] \in Locking /\ cmd[p] \in All
    BY <1>2 DEF UnlockAfterError, Locking, Migrating, All
  <2> QED BY <2>1, <2>2, KeepsPlaces, NothingLeft
<1> QED BY <1>1, <1>2

\* The step from one statement to the next.
LEMMA AdvanceKeepsPlaces ==
  ASSUME LockInv, PlaceInv, NEW p \in Procs, pc[p] = "run", todo[p] # <<>>, Advance(p),
         UNCHANGED <<pc, cmd>>
  PROVE  PlaceInv'
<1>1. pc' = [pc EXCEPT ![p] = pc[p]] /\ cmd' = [cmd EXCEPT ![p] = cmd[p]]
      /\ todo' = [todo EXCEPT ![p] = Tail(todo[p])]
  BY DEF LockInv, Advance
<1>2. PICK g \in Nat : Good(todo[p], g)
  BY DEF PlaceInv
<1>3. Good(Tail(todo[p]), g)
  BY <1>2, GoodTail
<1>4. ASSUME cmd[p] = "clear", NEW i \in 1..Len(Tail(todo[p]))
      PROVE  Tail(todo[p])[i].do = "truncate"
  <2>1. PICK S : todo[p] \in Seq(S)
    BY <1>2 DEF Good, IsSequence
  <2>2. Tail(todo[p])[i] = todo[p][i + 1] /\ i + 1 \in 1..Len(todo[p])
    BY <1>4, <2>1
  <2> QED BY <1>4, <2>2 DEF PlaceInv
<1>5. cmd[p] \in All
  BY DEF PlaceInv
<1> QED BY <1>1, <1>3, <1>4, <1>5, KeepsPlaces

LEMMA ResetIsGood ==
  /\ \A i \in 1..Len(ResetModels) : ResetModels[i].do = "truncate"
  /\ Good(ResetModels, 0)
<1>1. DOMAIN ClearTables = 1..17
  BY DEF ClearTables
<1>2. ResetModels = [i \in 1..17 |-> ResetModels[i]]
      /\ \A i \in 1..17 : ResetModels[i].do = "truncate"
  BY <1>1 DEF ResetModels, Truncate
<1>3. ResetModels \in Seq({ResetModels[i] : i \in 1..17}) /\ Len(ResetModels) = 17
  <2> HIDE DEF ResetModels
  <2> QED BY <1>2, ListBy
<1> QED BY <1>2, <1>3 DEF Good, IsSequence, IsMark

LEMMA PlacesStep ==
  ASSUME LockInv, PlaceInv, marks \in Seq(MarkRows), [Next]_vars
  PROVE  PlaceInv'
<1>1. CASE UNCHANGED vars
  BY <1>1 DEF vars, PlaceInv
<1>2. ASSUME NEW p \in Procs, Give(p) PROVE PlaceInv'
  <2>1. PICK c \in CommandsOf[p] :
           /\ cmd' = [cmd EXCEPT ![p] = c]
           /\ Goto(p, CASE c \in {"init", "Store.Init"} -> "meta"
                        [] c \in Locking \ {"init", "Store.Init"} -> "lock"
                        [] c = "clear" -> "run")
           /\ todo' = [todo EXCEPT ![p] = IF c = "clear" THEN ResetModels ELSE <<>>]
    BY <1>2 DEF Give
  <2>2. c \in All
    BY MigratorAssumption DEF Give
  <2>3. PICK l \in {"meta", "lock", "run"} :
           pc' = [pc EXCEPT ![p] = l] /\ (l = "run" <=> c = "clear")
    BY <2>1, <2>2 DEF Goto, All, Locking, Migrating, StoreCalls
  <2>4. l # "run" => c \in Locking
    BY <2>2, <2>3 DEF All
  <2>5. CASE c = "clear"
    <3>1. todo' = [todo EXCEPT ![p] = ResetModels] /\ \E g \in Nat : Good(ResetModels, g)
      BY <2>1, <2>5, ResetIsGood
    <3> QED BY <2>1, <2>2, <2>3, <2>4, <3>1, ResetIsGood, KeepsPlaces
  <2>6. CASE c # "clear"
    <3>1. todo' = [todo EXCEPT ![p] = <<>>]
      BY <2>1, <2>6
    <3> QED BY <2>1, <2>2, <2>3, <2>4, <2>6, <3>1, NothingLeft, KeepsPlaces
  <2> QED BY <2>5, <2>6
<1>3. ASSUME NEW p \in Procs, CreateMeta(p) \/ UnlockEarly(p) PROVE PlaceInv'
  <2>1. PICK l \in {"lock", "plan"} : pc' = [pc EXCEPT ![p] = l] /\ UNCHANGED <<cmd, todo>>
    BY <1>3 DEF CreateMeta, UnlockEarly, Goto
  <2>2. pc[p] \notin {"idle", "run"}
    BY <1>3 DEF CreateMeta, UnlockEarly
  <2> QED BY <2>1, <2>2 DEF LockInv, PlaceInv
<1>4. ASSUME NEW p \in Procs, Lock(p) PROVE PlaceInv'
  <2>1. CASE ~CanLock /\ Return(p) /\ UNCHANGED locked
    BY <2>1, ReturnKeepsPlaces
  <2>2. CASE Goto(p, AfterLock(cmd[p])) /\ UNCHANGED <<todo, cmd>>
    <3>1. AfterLock(cmd[p]) # "idle" /\ AfterLock(cmd[p]) # "run" /\ pc[p] \notin {"idle", "run"}
      BY <1>4 DEF AfterLock, Lock
    <3> QED BY <2>2, <3>1 DEF Goto, LockInv, PlaceInv
  <2> QED BY <1>4, <2>1, <2>2 DEF Lock
<1>5. ASSUME NEW p \in Procs, Plan(p) PROVE PlaceInv'
  <2>1. pc' = [pc EXCEPT ![p] = "run"] /\ cmd' = [cmd EXCEPT ![p] = cmd[p]]
        /\ todo' = [todo EXCEPT ![p] = IF cmd[p] = "rollback" THEN RollbackSteps ELSE MigrateSteps]
    BY <1>5 DEF Plan, Goto, LockInv
  <2>2. cmd[p] \in All /\ cmd[p] # "clear"
    BY <1>5 DEF Plan, PlaceInv, All, Locking, Migrating, StoreCalls
  <2>3. LastGroup + 1 \in Nat
    BY LastGroupIsNumber
  <2>4. \E g \in Nat : Good(IF cmd[p] = "rollback" THEN RollbackSteps ELSE MigrateSteps, g)
    BY <2>3, PlansAreGood
  <2> QED BY <2>1, <2>2, <2>4, KeepsPlaces
<1>6. ASSUME NEW p \in Procs, MarkApplied(p) \/ MarkUnapplied(p) \/ Execute(p) PROVE PlaceInv'
  BY <1>6, AdvanceKeepsPlaces DEF MarkApplied, MarkUnapplied, Execute
<1>7. ASSUME NEW p \in Procs, Refused(p) \/ Fail(p) PROVE PlaceInv'
  BY <1>7, AbortKeepsPlaces DEF Refused, Fail
<1>8. ASSUME NEW p \in Procs, Finish(p) PROVE PlaceInv'
  <2>1. CASE ~Holding(p)
    BY <1>8, <2>1, ReturnKeepsPlaces DEF Finish
  <2>2. CASE Holding(p)
    <3>1. pc' = [pc EXCEPT ![p] = "unlock"] /\ cmd' = [cmd EXCEPT ![p] = cmd[p]]
          /\ todo' = [todo EXCEPT ![p] = todo[p]]
      BY <1>8, <2>2 DEF Finish, Goto, LockInv, PlaceInv
    <3>2. cmd[p] \in Locking /\ cmd[p] \in All
      BY <2>2 DEF Holding, All
    <3>3. \E g \in Nat : Good(todo[p], g)
      BY DEF PlaceInv
    <3> QED BY <3>1, <3>2, <3>3, KeepsPlaces
  <2> QED BY <2>1, <2>2
<1>9. ASSUME NEW p \in Procs, Unlock(p) \/ Die(p) PROVE PlaceInv'
  BY <1>9, ReturnKeepsPlaces DEF Unlock, Die
<1> QED
  BY <1>1, <1>2, <1>3, <1>4, <1>5, <1>6, <1>7, <1>8, <1>9 DEF Next, Works

LEMMA TypeInit == Init => TypeInv
<1> SUFFICES ASSUME Init PROVE TypeInv
  OBVIOUS
<1>1. LockInv
  BY LockInit
<1>2. PlaceInv
  BY NothingLeft DEF Init, PlaceInv
<1>3. meta \in BOOLEAN /\ locked \in BOOLEAN /\ broken \in BOOLEAN /\ lost \in BOOLEAN
  BY DEF Init
<1>4. marks \in Seq(MarkRows)
  <2>1. CASE marks = <<>>
    BY <2>1
  <2>2. CASE marks = [m \in 1..3 |-> MarkRow(m, 1)]
    <3>1. \A m \in 1..3 : MarkRow(m, 1) \in MarkRows
      BY DEF MarkRow, MarkRows, Migrations
    <3> QED BY <2>2, <3>1
  <2>3. CASE marks = [m \in 1..4 |-> MarkRow(m, IF m < 4 THEN 1 ELSE 2)]
    <3>1. \A m \in 1..4 : MarkRow(m, IF m < 4 THEN 1 ELSE 2) \in MarkRows
      BY DEF MarkRow, MarkRows, Migrations
    <3> QED BY <2>3, <3>1
  <2> QED BY <2>1, <2>2, <2>3 DEF Init
<1>5. stored \subseteq {"old", "new"}
  BY DEF Init
<1>6. given \in 0..MaxCommands /\ failures \in 0..MaxFailures
  BY MigratorAssumption DEF Init
<1> QED BY <1>1, <1>2, <1>3, <1>4, <1>5, <1>6 DEF TypeInv

LEMMA RemovedMark ==
  ASSUME NEW ms \in Seq(MarkRows), NEW i \in 1..Len(ms)
  PROVE  /\ RemoveAt(ms, i) \in Seq(MarkRows)
         /\ i = Len(ms) => /\ Len(RemoveAt(ms, i)) = i - 1
                           /\ \A j \in 1..(i - 1) : RemoveAt(ms, i)[j] = ms[j]
<1>1. SubSeq(ms, 1, i - 1) \in Seq(MarkRows) /\ SubSeq(ms, i + 1, Len(ms)) \in Seq(MarkRows)
  OBVIOUS
<1>2. ASSUME i = Len(ms) PROVE SubSeq(ms, i + 1, Len(ms)) = <<>>
  BY <1>2
<1>3. \A s \in Seq(MarkRows) : s \o <<>> = s
  OBVIOUS
<1>4. \A s, t \in Seq(MarkRows) : s \o t \in Seq(MarkRows)
  OBVIOUS
<1>5. RemoveAt(ms, i) = SubSeq(ms, 1, i - 1) \o SubSeq(ms, i + 1, Len(ms))
  BY DEF RemoveAt
<1>6. Len(SubSeq(ms, 1, i - 1)) = i - 1 /\ \A j \in 1..(i - 1) : SubSeq(ms, 1, i - 1)[j] = ms[j]
  OBVIOUS
<1> QED BY <1>1, <1>2, <1>3, <1>4, <1>5, <1>6

LEMMA TypeStep == TypeInv /\ [Next]_vars => TypeInv'
<1> SUFFICES ASSUME TypeInv, [Next]_vars PROVE TypeInv'
  OBVIOUS
<1>1. LockInv'
  BY LockStep DEF TypeInv
<1>2. PlaceInv'
  BY PlacesStep DEF TypeInv
<1>3. meta' \in BOOLEAN /\ locked' \in BOOLEAN
  BY DEF TypeInv, vars, Next, Works, Give, CreateMeta, Lock, UnlockEarly, Plan, MarkApplied,
     MarkUnapplied, Execute, Refused, Finish, Unlock, Fail, Die
<1>7. broken' \in BOOLEAN
  <2>1. broken' = broken \/ \E x \in BOOLEAN : broken' = (broken \/ x)
    <3>1. CASE UNCHANGED broken
      BY <3>1
    <3>2. ASSUME NEW p \in Procs, Plan(p) PROVE \E x \in BOOLEAN : broken' = (broken \/ x)
      BY <3>2, Zenon DEF Plan
    <3>3. ASSUME NEW p \in Procs, Refused(p) \/ Fail(p) \/ Die(p)
          PROVE  \E x \in BOOLEAN : broken' = (broken \/ x)
      BY <3>3, Zenon DEF Refused, Fail, Die
    <3> QED
      BY <3>1, <3>2, <3>3 DEF vars, Next, Works, Give, CreateMeta, Lock, UnlockEarly,
         MarkApplied, MarkUnapplied, Execute, Finish, Unlock
  <2> QED BY <2>1 DEF TypeInv
<1>8. lost' \in BOOLEAN
  <2>1. lost' = lost \/ \E x \in BOOLEAN : lost' = (lost \/ x)
    <3>1. CASE UNCHANGED lost
      BY <3>1
    <3>2. ASSUME NEW p \in Procs, Fail(p) \/ Die(p)
          PROVE  \E x \in BOOLEAN : lost' = (lost \/ x)
      BY <3>2, Zenon DEF Fail, Die
    <3> QED
      BY <3>1, <3>2 DEF vars, Next, Works, Give, CreateMeta, Lock, UnlockEarly, Plan,
         MarkApplied, MarkUnapplied, Execute, Refused, Finish, Unlock
  <2> QED BY <2>1 DEF TypeInv
<1>4. given' \in 0..MaxCommands /\ failures' \in 0..MaxFailures
  <2>1. given' = given \/ (given < MaxCommands /\ given' = given + 1)
    BY DEF vars, Next, Works, Give, CreateMeta, Lock, UnlockEarly, Plan, MarkApplied,
       MarkUnapplied, Execute, Refused, Finish, Unlock, Fail, Die
  <2>2. failures' = failures \/ (failures < MaxFailures /\ failures' = failures + 1)
    BY DEF vars, Next, Works, Give, CreateMeta, Lock, UnlockEarly, Plan, MarkApplied,
       MarkUnapplied, Execute, Refused, Finish, Unlock, Fail, Die
  <2> QED BY <2>1, <2>2, MigratorAssumption DEF TypeInv
<1>5. stored' \subseteq {"old", "new"}
  BY DEF TypeInv, vars, Next, Works, Give, CreateMeta, Lock, UnlockEarly,
     Plan, MarkApplied, MarkUnapplied, Execute, Refused, Finish, Unlock, Fail, Die
<1>6. marks' \in Seq(MarkRows)
  <2>1. CASE UNCHANGED marks
    BY <2>1 DEF TypeInv
  <2>2. ASSUME NEW p \in Procs, MarkApplied(p) PROVE marks' \in Seq(MarkRows)
    <3>1. PICK g \in Nat : Good(todo[p], g)
      BY DEF TypeInv, PlaceInv
    <3>2. Next1(p).m \in Migrations /\ Next1(p).group \in Nat
      BY <2>2, <3>1, GoodTail DEF MarkApplied, Next1, IsMark
    <3>3. MarkRow(Next1(p).m, Next1(p).group) \in MarkRows
      BY <3>2 DEF MarkRow, MarkRows
    <3> QED BY <2>2, <3>3 DEF MarkApplied, TypeInv
  <2>3. ASSUME NEW p \in Procs, MarkUnapplied(p) PROVE marks' \in Seq(MarkRows)
    <3>1. marks' = IF Next1(p).m \in Marked THEN RemoveAt(marks, FirstMark(Next1(p).m)) ELSE marks
      BY <2>3 DEF MarkUnapplied
    <3> QED BY <3>1, FirstMarkIsThere, RemovedMark DEF TypeInv
  <2> QED
    BY <2>1, <2>2, <2>3 DEF vars, Next, Works, Give, CreateMeta, Lock, UnlockEarly,
       Plan, Execute, Refused, Finish, Unlock, Fail, Die
<1> QED BY <1>1, <1>2, <1>3, <1>4, <1>5, <1>6, <1>7, <1>8 DEF TypeInv

\* The state of the database and of the processes has its type, whatever is refused,
\* fails or overlaps: what the migrator reads in its table is always a migration and a
\* number, so that the group of the next migration is one.
THEOREM TypeCorrect == Spec => []TypeOK
<1>1. TypeInv => TypeOK
  <2> SUFFICES ASSUME TypeInv PROVE TypeOK
    OBVIOUS
  <2>1. \A i \in DOMAIN marks : marks[i] \in [migration : Migrations, group : Nat]
    <3>1. marks \in Seq(MarkRows)
      BY DEF TypeInv
    <3>2. \A i \in DOMAIN marks : marks[i] \in MarkRows
      BY <3>1
    <3> QED BY <3>2 DEF MarkRows
  <2>2. cmd \in [Procs -> All \cup {None}]
    <3>1. Names = All \cup {None}
      BY DEF Names, All, Locking, Migrating, StoreCalls
    <3> QED BY <3>1 DEF TypeInv, LockInv
  <2>3. pc \in [Procs -> {"idle", "meta", "lock", "unlock early", "plan", "run", "unlock"}]
    BY DEF TypeInv, LockInv, Places
  <2> QED BY <2>1, <2>2, <2>3 DEF TypeInv, TypeOK
<1> QED BY <1>1, TypeInit, TypeStep, PTL DEF Spec
-----------------------------------------------------------------------------
(* Undisturbed migrations.                                                 *)

Running(p) == pc[p] = "run" /\ cmd[p] \in Locking

\* What a command has left to do leads to the schema of some marks; of all marks, for
\* one that migrates.
Pending(p) ==
  \E t \in 0..4 : /\ Leads(todo[p], At(Len(marks), schema), Now(t))
                  /\ cmd[p] \in Migrating => t = 4

\* It is going to make no mark of a group before those there are.
Grouped(p) ==
  \E g \in Nat : Good(todo[p], g) /\ \A i \in 1..Len(marks) : marks[i].group <= g

\* Neither NeverRefused nor SchemaFollowsMarks is inductive: they say nothing of the
\* statements after the next, nor of the schema halfway.
Undisturbed ==
  /\ InOrder(marks)
  /\ \A p, q \in Procs : Running(p) /\ Running(q) => p = q
  /\ \A p \in Procs : Running(p) => Pending(p) /\ Grouped(p)
  /\ (\A p \in Procs : ~Running(p)) => schema = SchemaOf(Len(marks))
UndisturbedInv == ~broken => Undisturbed

LEMMA AtIs == ASSUME NEW m, NEW n, NEW s, NEW t, At(m, s) = At(n, t) PROVE m = n /\ s = t
BY DEF At

LEMMA LeadsOnward ==
  ASSUME NEW p, NEW n, NEW s, NEW y, Leads(p, At(n, s), y), p # <<>>
  PROVE  \/ /\ Head(p).do = "mark" /\ Head(p).m = n + 1 /\ s = SchemaOf(n)
            /\ Leads(Tail(p), At(n + 1, s), y)
         \/ /\ Head(p).do = "unmark" /\ Head(p).m = n /\ s = SchemaOf(n)
            /\ Leads(Tail(p), At(n - 1, s), y)
         \/ /\ ~IsMark(Head(p)) /\ Accepts(Head(p), s)
            /\ Leads(Tail(p), At(n, SchemaAfter(Head(p), s)), y)
<1>1. PICK z : Step(Head(p), At(n, s), z) /\ Leads(Tail(p), z, y)
  BY LeadsFirst
<1> QED BY <1>1 DEF Step, At, With

LEMMA RowsOnward ==
  ASSUME NEW p, NEW n, NEW x, NEW y, Leads(p, With(n, x), y), p # <<>>
  PROVE  \/ /\ Head(p).do = "mark" /\ Head(p).m = n + 1 /\ x = StageOf(n)
            /\ Leads(Tail(p), With(n + 1, x), y)
         \/ /\ Head(p).do = "unmark" /\ Head(p).m = n /\ x = StageOf(n)
            /\ Leads(Tail(p), With(n - 1, IF n = 1 THEN Gone ELSE x), y)
         \/ /\ ~IsMark(Head(p))
            /\ \E z : Moves(Head(p), x, z) /\ Leads(Tail(p), With(n, z), y)
<1>1. PICK z : Step(Head(p), With(n, x), z) /\ Leads(Tail(p), z, y)
  BY LeadsFirst
<1> QED BY <1>1 DEF Step, At, With

\* Between two migrations, and when there is nothing left, the marks are those of the
\* schema.
LEMMA StopsInOrder ==
  ASSUME Undisturbed, NEW p \in Procs, Running(p), ~Midway(p)
  PROVE  schema = SchemaOf(Len(marks))
<1>1. PICK t \in 0..4 : Leads(todo[p], At(Len(marks), schema), Now(t))
  BY DEF Undisturbed, Pending
<1>2. CASE todo[p] = <<>>
  BY <1>1, <1>2, LeadsEmpty, AtIs DEF Now
<1>3. CASE todo[p] # <<>>
  <2>1. IsMark(Head(todo[p]))
    BY <1>3 DEF Midway, Running, Next1, IsMark
  <2> QED BY <1>1, <1>3, <2>1, LeadsOnward
<1> QED BY <1>2, <1>3

\* A step in which nobody starts to migrate, nobody stops halfway, and nothing is done but
\* that "db clear" gives up what is stored.
Aside ==
  /\ UNCHANGED <<marks, schema, rows>> /\ (stored' = stored \/ stored' = {})
  /\ \A p \in Procs :
       /\ Running(p)' => /\ Running(p) /\ todo'[p] = todo[p] /\ cmd'[p] = cmd[p]
       /\ Running(p) /\ ~Running(p)' => ~Midway(p)

\* What is given up with nothing done after the last mark.
LEMMA StopIsAside ==
  ASSUME TypeInv, NEW p \in Procs, UNCHANGED <<marks, schema, rows, stored>>,
         NEW l, l # "run", pc' = [pc EXCEPT ![p] = l],
         NEW c, cmd' = [cmd EXCEPT ![p] = c], NEW t, todo' = [todo EXCEPT ![p] = t],
         ~Midway(p)
  PROVE  Aside
<1>1. ASSUME NEW q \in Procs
      PROVE  /\ Running(q)' => Running(q) /\ todo'[q] = todo[q] /\ cmd'[q] = cmd[q]
             /\ Running(q) /\ ~Running(q)' => ~Midway(q)
  <2>1. CASE q = p
    BY <2>1 DEF TypeInv, LockInv, Running
  <2>2. CASE q # p
    BY <2>2 DEF TypeInv, LockInv, PlaceInv, Running
  <2> QED BY <2>1, <2>2
<1> QED BY <1>1 DEF Aside

LEMMA ReturnIsAside ==
  ASSUME TypeInv, NEW p \in Procs, UNCHANGED <<marks, schema, rows, stored>>, ~Midway(p), Return(p)
  PROVE  Aside
BY StopIsAside DEF Return, Goto

LEMMA AbortIsAside ==
  ASSUME TypeInv, NEW p \in Procs, UNCHANGED <<marks, schema, rows, stored>>, ~Midway(p), Abort(p)
  PROVE  Aside
<1>1. CASE ~(Holding(p) /\ cmd[p] \in UnlockAfterError)
  BY <1>1, ReturnIsAside DEF Abort
<1>2. CASE Holding(p) /\ cmd[p] \in UnlockAfterError
  <2>1. pc' = [pc EXCEPT ![p] = "unlock"] /\ cmd' = [cmd EXCEPT ![p] = cmd[p]]
        /\ todo' = [todo EXCEPT ![p] = <<>>]
    BY <1>2 DEF Abort, Goto, TypeInv, LockInv
  <2> QED BY <2>1, StopIsAside
<1> QED BY <1>1, <1>2

\* Unless it leaves a migration halfway or overlaps one, a step is one of a plan or aside.
LEMMA StepKinds ==
  ASSUME TypeInv, [Next]_vars, ~broken'
  PROVE  Aside \/ \E p \in Procs : Plan(p) \/ MarkApplied(p) \/ MarkUnapplied(p) \/ Execute(p)
<1>1. CASE UNCHANGED vars
  BY <1>1 DEF vars, Running, Aside
<1>2. ASSUME NEW p \in Procs, Give(p) PROVE Aside
  <2>1. UNCHANGED <<marks, schema, rows>> /\ (stored' = stored \/ stored' = {})
    BY <1>2 DEF Give
  <2>2. PICK c \in All :
           /\ cmd' = [cmd EXCEPT ![p] = c]
           /\ Goto(p, CASE c \in {"init", "Store.Init"} -> "meta"
                        [] c \in Locking \ {"init", "Store.Init"} -> "lock"
                        [] c = "clear" -> "run")
           /\ todo' = [todo EXCEPT ![p] = IF c = "clear" THEN ResetModels ELSE <<>>]
    BY <1>2, MigratorAssumption DEF Give
  <2>3. ~Running(p) /\ ~Running(p)'
    BY <1>2, <2>2 DEF Give, Goto, Running, TypeInv, LockInv, Locking, Migrating, StoreCalls, All
  <2>4. ASSUME NEW q \in Procs \ {p}
        PROVE  pc'[q] = pc[q] /\ cmd'[q] = cmd[q] /\ todo'[q] = todo[q]
    BY <2>2 DEF Goto, TypeInv, LockInv, PlaceInv
  <2> QED BY <2>1, <2>3, <2>4 DEF Running, Aside
<1>3. ASSUME NEW p \in Procs, CreateMeta(p) \/ UnlockEarly(p) PROVE Aside
  BY <1>3 DEF CreateMeta, UnlockEarly, Goto, Running, TypeInv, LockInv, Aside
<1>4. ASSUME NEW p \in Procs, Lock(p) PROVE Aside
  <2>1. UNCHANGED <<marks, schema, rows, stored>> /\ ~Midway(p)
    BY <1>4 DEF Lock, Midway
  <2>2. CASE Return(p)
    BY <2>1, <2>2, ReturnIsAside
  <2>3. CASE Goto(p, AfterLock(cmd[p])) /\ UNCHANGED <<todo, cmd>>
    BY <1>4, <2>1, <2>3 DEF Lock, AfterLock, Goto, Running, TypeInv, LockInv, Aside
  <2> QED BY <1>4, <2>2, <2>3 DEF Lock
<1>5. ASSUME NEW p \in Procs, Refused(p) \/ Fail(p) PROVE Aside
  <2>1. UNCHANGED <<marks, schema, rows, stored>> /\ ~Midway(p) /\ Abort(p)
    BY <1>5 DEF Refused, Fail
  <2> QED BY <2>1, AbortIsAside
<1>6. ASSUME NEW p \in Procs, Finish(p) PROVE Aside
  <2>1. UNCHANGED <<marks, schema, rows, stored>> /\ ~Midway(p)
    BY <1>6 DEF Finish, Midway
  <2>2. CASE ~Holding(p)
    BY <1>6, <2>1, <2>2, ReturnIsAside DEF Finish
  <2>3. CASE Holding(p)
    <3>1. pc' = [pc EXCEPT ![p] = "unlock"] /\ cmd' = [cmd EXCEPT ![p] = cmd[p]]
          /\ todo' = [todo EXCEPT ![p] = todo[p]]
      BY <1>6, <2>3 DEF Finish, Goto, TypeInv, LockInv, PlaceInv
    <3> QED BY <2>1, <3>1, StopIsAside
  <2> QED BY <2>2, <2>3
<1>7. ASSUME NEW p \in Procs, Unlock(p) \/ Die(p) PROVE Aside
  <2>1. UNCHANGED <<marks, schema, rows, stored>> /\ ~Midway(p) /\ Return(p)
    BY <1>7 DEF Unlock, Die, Midway
  <2> QED BY <2>1, ReturnIsAside
<1> QED BY <1>1, <1>2, <1>3, <1>4, <1>5, <1>6, <1>7 DEF Next, Works

LEMMA AsideKeeps ==
  ASSUME Undisturbed, Aside
  PROVE  Undisturbed'
<1>1. InOrder(marks)' /\ UNCHANGED <<marks, schema>>
  BY DEF Undisturbed, InOrder, Aside
<1>2. \A p, q \in Procs : Running(p)' /\ Running(q)' => p = q
  BY DEF Undisturbed, Aside
<1>3. ASSUME NEW p \in Procs, Running(p)' PROVE Pending(p)' /\ Grouped(p)'
  <2>1. Pending(p) /\ Grouped(p) /\ todo'[p] = todo[p] /\ cmd'[p] = cmd[p]
    BY <1>3 DEF Undisturbed, Aside
  <2> QED BY <1>1, <2>1 DEF Pending, Grouped
<1>4. ASSUME \A p \in Procs : ~Running(p)' PROVE schema' = SchemaOf(Len(marks'))
  <2>1. CASE \A p \in Procs : ~Running(p)
    BY <1>1, <2>1 DEF Undisturbed
  <2>2. ASSUME NEW p \in Procs, Running(p) PROVE schema' = SchemaOf(Len(marks'))
    BY <1>1, <1>4, <2>2, StopsInOrder DEF Aside
  <2> QED BY <2>1, <2>2
<1> QED BY <1>1, <1>2, <1>3, <1>4 DEF Undisturbed

\* A step from one statement to the next.
LEMMA OnwardKeeps ==
  ASSUME TypeInv, Undisturbed, NEW p \in Procs, Running(p), Advance(p), UNCHANGED <<pc, cmd>>,
         InOrder(marks)', Pending(p)', Grouped(p)'
  PROVE  Undisturbed'
<1>1. \A q \in Procs : Running(q)' <=> q = p
  BY DEF Undisturbed, Running
<1> QED BY <1>1 DEF Undisturbed

LEMMA Appended ==
  ASSUME NEW ms \in Seq(MarkRows), NEW r \in MarkRows
  PROVE  /\ Len(Append(ms, r)) = Len(ms) + 1 /\ Append(ms, r)[Len(ms) + 1] = r
         /\ \A i \in 1..Len(ms) : Append(ms, r)[i] = ms[i]
OBVIOUS

\* Only a command that migrates sets or removes marks.
LEMMA MarksAreOfMigrations ==
  ASSUME TypeInv, NEW p \in Procs, pc[p] = "run", todo[p] # <<>>, IsMark(Next1(p))
  PROVE  Running(p) /\ Next1(p).m \in Migrations
<1>1. PICK g \in Nat : Good(todo[p], g)
  BY DEF TypeInv, PlaceInv
<1>2. Next1(p).m \in Migrations
  BY <1>1, GoodTail DEF Next1
<1>3. PICK S : todo[p] \in Seq(S)
  BY <1>1 DEF Good, IsSequence
<1>4. Next1(p) = todo[p][1] /\ 1 \in 1..Len(todo[p])
  BY <1>3 DEF Next1
<1>5. cmd[p] # "clear"
  BY <1>4 DEF TypeInv, PlaceInv, IsMark
<1> QED BY <1>2, <1>5 DEF TypeInv, PlaceInv, All, Running

LEMMA MarkKeeps ==
  ASSUME TypeInv, Undisturbed, NEW p \in Procs, MarkApplied(p)
  PROVE  Undisturbed'
<1> DEFINE n == Len(marks)
           st == Next1(p)
<1>1. Running(p) /\ todo[p] # <<>> /\ IsMark(st) /\ st.do = "mark"
  BY MarksAreOfMigrations DEF MarkApplied, IsMark
<1>2. PICK t \in 0..4 : Leads(todo[p], At(n, schema), Now(t)) /\ (cmd[p] \in Migrating => t = 4)
  BY <1>1 DEF Undisturbed, Pending
<1>3. PICK g \in Nat : Good(todo[p], g) /\ \A i \in 1..n : marks[i].group <= g
  BY <1>1 DEF Undisturbed, Grouped
<1>4. st.m = n + 1 /\ Leads(Tail(todo[p]), At(n + 1, schema), Now(t))
  BY <1>1, <1>2, LeadsOnward DEF Next1
<1>5. st.m \in 1..4 /\ st.group = g /\ Good(Tail(todo[p]), g)
  BY <1>1, <1>3, GoodTail DEF Next1, Migrations
<1>6. MarkRow(st.m, g) \in MarkRows /\ marks' = Append(marks, MarkRow(st.m, g))
      /\ todo'[p] = Tail(todo[p]) /\ UNCHANGED <<schema, pc, cmd>> /\ marks \in Seq(MarkRows)
  BY <1>5 DEF MarkApplied, MarkRow, MarkRows, Migrations, Advance, TypeInv, PlaceInv
<1>7. /\ n \in Nat /\ Len(marks') = n + 1 /\ marks'[n + 1] = MarkRow(n + 1, g)
      /\ \A i \in 1..n : marks'[i] = marks[i]
  BY <1>4, <1>6, Appended
<1>8. InOrder(marks)'
  <2>1. Len(marks') <= 4
    BY <1>4, <1>5, <1>7
  <2>2. \A i \in 1..(n + 1) : i \in 1..n \/ i = n + 1
    BY <1>7
  <2>3. \A i \in 1..Len(marks') : marks'[i].migration = i
    BY <1>7, <2>2 DEF InOrder, Undisturbed, MarkRow
  <2>4. ASSUME NEW i \in 1..(n + 1), NEW j \in i..(n + 1)
        PROVE  marks'[i].group <= marks'[j].group
    <3>1. CASE j \in 1..n
      BY <1>7, <3>1 DEF InOrder, Undisturbed
    <3>2. CASE j = n + 1 /\ i \in 1..n
      BY <1>3, <1>7, <3>2 DEF MarkRow
    <3>3. CASE j = n + 1 /\ i = n + 1
      BY <1>3, <1>7, <3>3 DEF MarkRow
    <3> QED BY <1>7, <2>2, <3>1, <3>2, <3>3
  <2> QED BY <1>7, <2>1, <2>3, <2>4 DEF InOrder
<1>9. Pending(p)'
  BY <1>2, <1>4, <1>6, <1>7 DEF Pending
<1>10. Grouped(p)'
  <2>1. ASSUME NEW i \in 1..(n + 1) PROVE marks'[i].group <= g
    BY <1>3, <1>7 DEF MarkRow
  <2> QED BY <1>5, <1>6, <1>7, <2>1 DEF Grouped
<1> QED BY <1>1, <1>6, <1>8, <1>9, <1>10, OnwardKeeps DEF MarkApplied

LEMMA LastUnmarked ==
  ASSUME marks \in Seq(MarkRows), InOrder(marks), NEW p \in Procs, MarkUnapplied(p),
         NEW n \in 1..4, n = Len(marks), Next1(p).m = n
  PROVE  Len(marks') = n - 1 /\ \A i \in 1..(n - 1) : marks'[i] = marks[i]
<1>1. n \in Marked /\ FirstMark(n) = n
  BY OrderedMarks
<1>2. marks' = RemoveAt(marks, n)
  BY <1>1 DEF MarkUnapplied
<1>3. n \in 1..Len(marks)
  OBVIOUS
<1> QED BY <1>2, <1>3, RemovedMark

LEMMA UnmarkKeeps ==
  ASSUME TypeInv, Undisturbed, NEW p \in Procs, MarkUnapplied(p)
  PROVE  Undisturbed'
<1> DEFINE n == Len(marks)
           st == Next1(p)
<1>1. Running(p) /\ todo[p] # <<>> /\ IsMark(st) /\ st.do = "unmark"
  BY MarksAreOfMigrations DEF MarkUnapplied, IsMark
<1>2. PICK t \in 0..4 : Leads(todo[p], At(n, schema), Now(t)) /\ (cmd[p] \in Migrating => t = 4)
  BY <1>1 DEF Undisturbed, Pending
<1>3. PICK g \in Nat : Good(todo[p], g) /\ \A i \in 1..n : marks[i].group <= g
  BY <1>1 DEF Undisturbed, Grouped
<1>4. st.m = n /\ Leads(Tail(todo[p]), At(n - 1, schema), Now(t))
  BY <1>1, <1>2, LeadsOnward DEF Next1
<1>5. st.m \in 1..4 /\ Good(Tail(todo[p]), g)
  BY <1>1, <1>3, GoodTail DEF Next1, Migrations
<1>6. n \in 1..4 /\ marks \in Seq(MarkRows) /\ InOrder(marks)
  BY <1>4, <1>5 DEF TypeInv, Undisturbed
<1>7. Len(marks') = n - 1 /\ \A i \in 1..(n - 1) : marks'[i] = marks[i]
  BY <1>4, <1>6, LastUnmarked
<1>9. todo'[p] = Tail(todo[p]) /\ UNCHANGED <<schema, pc, cmd>>
  BY DEF MarkUnapplied, Advance, TypeInv, PlaceInv
<1>10. InOrder(marks)'
  BY <1>6, <1>7 DEF InOrder
<1>11. Pending(p)'
  BY <1>2, <1>4, <1>7, <1>9 DEF Pending
<1>12. Grouped(p)'
  BY <1>3, <1>5, <1>6, <1>7, <1>9 DEF Grouped
<1> QED BY <1>1, <1>9, <1>10, <1>11, <1>12, OnwardKeeps DEF MarkUnapplied

LEMMA ExecuteKeeps ==
  ASSUME TypeInv, Undisturbed, NEW p \in Procs, Execute(p)
  PROVE  Undisturbed'
<1> DEFINE n == Len(marks)
           st == Next1(p)
<1>1. /\ pc[p] = "run" /\ todo[p] # <<>> /\ ~IsMark(st) /\ schema' = SchemaAfter(st, schema)
      /\ UNCHANGED <<marks, pc, cmd>> /\ Advance(p) /\ todo'[p] = Tail(todo[p])
      /\ \A q \in Procs \ {p} : todo'[q] = todo[q]
  BY DEF Execute, IsMark, Advance, TypeInv, PlaceInv
<1>2. CASE Running(p)
  <2>1. PICK t \in 0..4 : Leads(todo[p], At(n, schema), Now(t)) /\ (cmd[p] \in Migrating => t = 4)
    BY <1>2 DEF Undisturbed, Pending
  <2>2. Leads(Tail(todo[p]), At(n, SchemaAfter(st, schema)), Now(t))
    BY <1>1, <2>1, LeadsOnward DEF Next1, IsMark
  <2>3. Pending(p)'
    BY <1>1, <2>1, <2>2 DEF Pending
  <2>4. PICK g \in Nat : Good(todo[p], g) /\ \A i \in 1..n : marks[i].group <= g
    BY <1>2 DEF Undisturbed, Grouped
  <2>5. Good(Tail(todo[p]), g)
    BY <1>1, <2>4, GoodTail
  <2>6. Grouped(p)'
    BY <1>1, <2>4, <2>5 DEF Grouped
  <2>7. InOrder(marks)'
    BY <1>1 DEF Undisturbed, InOrder
  <2> QED BY <1>1, <1>2, <2>3, <2>6, <2>7, OnwardKeeps
<1>3. CASE ~Running(p)
  <2>1. cmd[p] = "clear"
    BY <1>1, <1>3 DEF TypeInv, PlaceInv, Running, All
  <2>2. st.do = "truncate"
    <3>1. PICK S : todo[p] \in Seq(S)
      BY DEF TypeInv, PlaceInv, Good, IsSequence
    <3>2. st = todo[p][1] /\ 1 \in 1..Len(todo[p])
      BY <1>1, <3>1 DEF Next1
    <3> QED BY <1>1, <2>1, <3>2 DEF TypeInv, PlaceInv
  <2>3. UNCHANGED schema
    BY <1>1, <2>2 DEF SchemaAfter
  <2>4. \A q \in Procs : (Running(q)' <=> Running(q)) /\ (Running(q) => todo'[q] = todo[q])
    BY <1>1, <1>3 DEF Running
  <2>5. ASSUME NEW q \in Procs, Running(q) PROVE Pending(q)' /\ Grouped(q)'
    <3>1. Pending(q) /\ Grouped(q) /\ todo'[q] = todo[q]
      BY <2>4, <2>5 DEF Undisturbed
    <3> QED BY <1>1, <2>3, <3>1 DEF Pending, Grouped
  <2> QED BY <1>1, <2>3, <2>4, <2>5 DEF Undisturbed, InOrder
<1> QED BY <1>2, <1>3

LEMMA PlanKeeps ==
  ASSUME TypeInv, Undisturbed, NEW p \in Procs, Plan(p), ~broken'
  PROVE  Undisturbed'
<1> DEFINE n == Len(marks)
<1>1. \A q \in Procs : ~Running(q)
  BY DEF Plan, Running
<1>2. schema = SchemaOf(n) /\ marks \in Seq(MarkRows) /\ InOrder(marks)
  BY <1>1 DEF Undisturbed, TypeInv
<1>3. /\ UNCHANGED <<marks, schema, cmd>>
      /\ todo'[p] = IF cmd[p] = "rollback" THEN RollbackSteps ELSE MigrateSteps
      /\ \A q \in Procs : Running(q)' <=> q = p
  BY <1>1 DEF Plan, Goto, Running, TypeInv, LockInv, PlaceInv
<1>4. Pending(p)'
  <2>1. CASE cmd[p] = "rollback"
    <3>1. cmd[p] \notin Migrating
      BY <2>1 DEF Migrating, StoreCalls
    <3>2. PICK t \in 0..4 : Leads(RollbackSteps, Now(n), Now(t))
      BY <1>2, RollbackLeads DEF Reaches
    <3>3. Leads(todo'[p], At(Len(marks'), schema'), Now(t)) /\ cmd'[p] \notin Migrating
      BY <1>2, <1>3, <2>1, <3>1, <3>2 DEF Now
    <3> QED BY <3>3 DEF Pending
  <2>2. CASE cmd[p] # "rollback"
    <3>1. Leads(todo'[p], At(Len(marks'), schema'), Now(4))
      BY <1>2, <1>3, <2>2, MigrateLeads DEF Now, Reaches
    <3>2. 4 \in 0..4
      OBVIOUS
    <3> QED BY <3>1, <3>2 DEF Pending
  <2> QED BY <2>1, <2>2
<1>5. Grouped(p)'
  <2>1. LastGroup \in Nat /\ \A m \in 1..n : marks[m].group <= LastGroup
    BY <1>2, OrderedMarks
  <2>2. LastGroup + 1 \in Nat /\ \A m \in 1..n : marks[m].group <= LastGroup + 1
    <3>1. \A m \in 1..n : marks[m].group \in Nat
      <4>1. \A m \in 1..n : marks[m] \in MarkRows
        BY <1>2
      <4> QED BY <4>1 DEF MarkRows
    <3> QED BY <2>1, <3>1
  <2>3. Good(todo'[p], LastGroup + 1)
    BY <1>3, PlansAreGood
  <2> QED BY <1>3, <2>2, <2>3 DEF Grouped
<1>6. InOrder(marks)'
  BY <1>2, <1>3 DEF InOrder
<1> QED BY <1>3, <1>4, <1>5, <1>6 DEF Undisturbed

LEMMA UndisturbedInit == Init => UndisturbedInv
<1> SUFFICES ASSUME Init PROVE Undisturbed
  BY DEF UndisturbedInv
<1>1. \A p \in Procs : ~Running(p)
  BY DEF Init, Running
<1>2. CASE marks = <<>> /\ schema = EmptySchema
  BY <1>1, <1>2 DEF Undisturbed, InOrder, SchemaOf
<1>3. CASE marks = [m \in 1..3 |-> MarkRow(m, 1)] /\ schema = SchemaBefore0003
  <2>1. Len(marks) = 3 /\ \A i \in 1..3 : marks[i].migration = i /\ marks[i].group = 1
    BY <1>3 DEF MarkRow
  <2>2. InOrder(marks) /\ schema = SchemaOf(Len(marks))
    BY <1>3, <2>1 DEF InOrder, SchemaOf
  <2> QED BY <1>1, <2>2 DEF Undisturbed
<1>4. CASE /\ marks = [m \in 1..4 |-> MarkRow(m, IF m < 4 THEN 1 ELSE 2)]
           /\ schema = CurrentSchema
  <2>1. /\ Len(marks) = 4
        /\ \A i \in 1..4 : marks[i].migration = i /\ marks[i].group = IF i < 4 THEN 1 ELSE 2
    BY <1>4 DEF MarkRow
  <2>2. InOrder(marks) /\ schema = SchemaOf(Len(marks))
    BY <1>4, <2>1 DEF InOrder, SchemaOf
  <2> QED BY <1>1, <2>2 DEF Undisturbed
<1> QED BY <1>2, <1>3, <1>4 DEF Init

LEMMA StaysBroken == ASSUME [Next]_vars, ~broken' PROVE ~broken
BY DEF vars, Next, Works, Give, CreateMeta, Lock, UnlockEarly, Plan, MarkApplied, MarkUnapplied,
   Execute, Refused, Finish, Unlock, Fail, Die

LEMMA UndisturbedStep == TypeInv /\ UndisturbedInv /\ [Next]_vars => UndisturbedInv'
<1> SUFFICES ASSUME TypeInv, UndisturbedInv, [Next]_vars, ~broken' PROVE Undisturbed'
  BY DEF UndisturbedInv
<1>1. Undisturbed
  BY StaysBroken DEF UndisturbedInv
<1> QED BY <1>1, StepKinds, AsideKeeps, PlanKeeps, MarkKeeps, UnmarkKeeps, ExecuteKeeps

LEMMA UndisturbedAlways == Spec => [](TypeInv /\ UndisturbedInv)
<1>1. Init => TypeInv /\ UndisturbedInv
  BY TypeInit, UndisturbedInit
<1>2. TypeInv /\ UndisturbedInv /\ [Next]_vars => TypeInv' /\ UndisturbedInv'
  BY TypeStep, UndisturbedStep
<1> QED BY <1>1, <1>2, PTL DEF Spec

\* As long as no migration has been left halfway and none has overlapped another, the
\* marks say which schema the database has whenever nobody is in the middle of one: the
\* ways up and down fit, statement by statement, from whichever marks they set out.
THEOREM MarksTellTheSchema == Spec => []SchemaFollowsMarks
<1>1. TypeInv /\ UndisturbedInv => SchemaFollowsMarks
  <2> SUFFICES ASSUME TypeInv, Undisturbed, Quiet PROVE \E n \in 0..4 : Marked = 1..n /\ schema = SchemaOf(n)
    BY DEF UndisturbedInv, SchemaFollowsMarks
  <2>1. Len(marks) \in 0..4 /\ Marked = 1..Len(marks)
    BY OrderedMarks DEF TypeInv, Undisturbed
  <2>2. schema = SchemaOf(Len(marks))
    <3>1. CASE \A p \in Procs : ~Running(p)
      BY <3>1 DEF Undisturbed
    <3>2. ASSUME NEW p \in Procs, Running(p) PROVE schema = SchemaOf(Len(marks))
      BY <3>2, StopsInOrder DEF Quiet
    <3> QED BY <3>1, <3>2
  <2> QED BY <2>1, <2>2
<1> QED BY <1>1, UndisturbedAlways, PTL

\* Under the same condition the database accepts every statement of every migration.
THEOREM MigrationsAreAccepted == Spec => []NeverRefused
<1>1. TypeInv /\ UndisturbedInv => NeverRefused
  <2> SUFFICES ASSUME Undisturbed, NEW p \in Procs, Midway(p)
               PROVE  Accepts(Next1(p), schema)
    BY DEF UndisturbedInv, NeverRefused
  <2>1. Running(p) /\ todo[p] # <<>> /\ ~IsMark(Head(todo[p]))
    BY DEF Midway, Running, IsMark, Next1
  <2>2. PICK t \in 0..4 : Leads(todo[p], At(Len(marks), schema), Now(t))
    BY <2>1 DEF Undisturbed, Pending
  <2> QED BY <2>1, <2>2, LeadsOnward DEF Next1, IsMark
<1> QED BY <1>1, UndisturbedAlways, PTL

\* And a command that migrates and reports success leaves the current schema.
THEOREM MigrationsEndCurrent == Spec => UndisturbedIsCompatible
<1>1. TypeInv /\ UndisturbedInv /\ [Next]_vars
        => \A p \in Procs : Finish(p) /\ cmd[p] \in Migrating /\ ~broken => schema = CurrentSchema
  <2> SUFFICES ASSUME Undisturbed, NEW p \in Procs, Finish(p), cmd[p] \in Migrating
               PROVE  schema = CurrentSchema
    BY DEF UndisturbedInv
  <2>1. Running(p) /\ todo[p] = <<>>
    BY DEF Finish, Running, Locking
  <2>2. Leads(<<>>, At(Len(marks), schema), Now(4))
    BY <2>1 DEF Undisturbed, Pending
  <2>3. schema = SchemaOf(4)
    BY <2>2, LeadsEmpty, AtIs DEF Now
  <2> QED BY <2>3 DEF SchemaOf
<1> QED BY <1>1, UndisturbedAlways, PTL DEF Spec, UndisturbedIsCompatible
-----------------------------------------------------------------------------
(* The rows of documents.                                                  *)

\* What a command has left to do takes the rows, as they are, to the stage of some marks.
Carried(p) ==
  \E t \in 0..4 : \E x : Leads(todo[p], With(Len(marks), x), RowsNow(t)) /\ Kept(x, stored, rows)

\* DocumentsSurvive is not inductive either: it says nothing of the rows halfway.
Carrying ==
  /\ \A p \in Procs : Running(p) => Carried(p)
  /\ (\A p \in Procs : ~Running(p)) => Kept(StageOf(Len(marks)), stored, rows)
Clears == \A p \in Procs : cmd[p] = "clear" => stored = {}
RowsInv == Clears /\ (~broken => Carrying)

LEMMA NothingStored == ASSUME NEW x, NEW R PROVE Kept(x, {}, R)
BY DEF Kept

LEMMA WithIs == ASSUME NEW m, NEW n, NEW x, NEW y, With(m, x) = With(n, y) PROVE m = n /\ x = y
BY DEF With

LEMMA ClearsStep == ASSUME TypeInv, Clears, [Next]_vars PROVE Clears'
<1>1. stored' = stored \/ stored' = {}
  BY DEF vars, Next, Works, Give, CreateMeta, Lock, UnlockEarly, Plan, MarkApplied,
     MarkUnapplied, Execute, Refused, Finish, Unlock, Fail, Die
<1>2. CASE stored' = {}
  BY <1>2 DEF Clears
<1>3. CASE stored' # {}
  <2>1. ASSUME NEW p \in Procs, Return(p), NEW q \in Procs
        PROVE  cmd'[q] = cmd[q] \/ cmd'[q] # "clear"
    BY <2>1 DEF Return, TypeInv, LockInv, None
  <2>2. ASSUME NEW p \in Procs, Give(p), NEW q \in Procs
        PROVE  cmd'[q] = cmd[q] \/ cmd'[q] # "clear"
    BY <1>3, <2>2 DEF Give, TypeInv, LockInv
  <2>3. \A q \in Procs : cmd'[q] = cmd[q] \/ cmd'[q] # "clear"
    BY <2>1, <2>2 DEF vars, Next, Works, CreateMeta, Lock, UnlockEarly, Plan, MarkApplied,
       MarkUnapplied, Execute, Refused, Finish, Unlock, Fail, Die, Abort
  <2> QED BY <1>1, <1>3, <2>3 DEF Clears
<1> QED BY <1>2, <1>3

\* Between two migrations, and when there is nothing left, the rows are those of the marks.
LEMMA StopsAtStage ==
  ASSUME Carrying, NEW p \in Procs, Running(p), ~Midway(p)
  PROVE  Kept(StageOf(Len(marks)), stored, rows)
<1>1. PICK t, x : /\ t \in 0..4 /\ Kept(x, stored, rows)
                  /\ Leads(todo[p], With(Len(marks), x), RowsNow(t))
  BY DEF Carrying, Carried
<1>2. CASE todo[p] = <<>>
  <2>1. With(Len(marks), x) = With(t, StageOf(t))
    BY <1>1, <1>2, LeadsEmpty DEF RowsNow
  <2>2. Len(marks) = t /\ x = StageOf(t)
    BY <2>1, WithIs
  <2> QED BY <1>1, <2>2
<1>3. CASE todo[p] # <<>>
  <2>1. IsMark(Head(todo[p]))
    BY <1>3 DEF Midway, Running, Next1, IsMark
  <2>2. x = StageOf(Len(marks))
    BY <1>1, <1>3, <2>1, RowsOnward
  <2> QED BY <1>1, <2>2
<1> QED BY <1>2, <1>3

LEMMA AsideCarries ==
  ASSUME Carrying, Aside
  PROVE  Carrying'
<1>1. UNCHANGED <<marks, rows>> /\ (stored' = stored \/ stored' = {})
  BY DEF Aside
<1>2. ASSUME NEW x, Kept(x, stored, rows) PROVE Kept(x, stored', rows')
  BY <1>1, <1>2, NothingStored
<1>3. ASSUME NEW p \in Procs, Running(p)' PROVE Carried(p)'
  <2>1. Running(p) /\ todo'[p] = todo[p]
    BY <1>3 DEF Aside
  <2>2. PICK t, x : /\ t \in 0..4 /\ Kept(x, stored, rows)
                    /\ Leads(todo[p], With(Len(marks), x), RowsNow(t))
    BY <2>1 DEF Carrying, Carried
  <2> QED BY <1>1, <1>2, <2>1, <2>2 DEF Carried
<1>4. ASSUME \A p \in Procs : ~Running(p)' PROVE Kept(StageOf(Len(marks')), stored', rows')
  <2>1. Kept(StageOf(Len(marks)), stored, rows)
    <3>1. CASE \A p \in Procs : ~Running(p)
      BY <3>1 DEF Carrying
    <3>2. ASSUME NEW p \in Procs, Running(p) PROVE Kept(StageOf(Len(marks)), stored, rows)
      BY <1>4, <3>2, StopsAtStage DEF Aside
    <3> QED BY <3>1, <3>2
  <2> QED BY <1>1, <1>2, <2>1
<1> QED BY <1>3, <1>4 DEF Carrying

\* A step of the one that migrates.
LEMMA OnwardCarries ==
  ASSUME Undisturbed, NEW p \in Procs, Running(p), UNCHANGED <<pc, cmd>>, Carried(p)'
  PROVE  Carrying'
<1>1. \A q \in Procs : Running(q)' <=> q = p
  BY DEF Undisturbed, Running
<1> QED BY <1>1 DEF Carrying

LEMMA PlanCarries ==
  ASSUME TypeInv, Undisturbed, Carrying, NEW p \in Procs, Plan(p), ~broken'
  PROVE  Carrying'
<1> DEFINE n == Len(marks)
           x == StageOf(n)
<1>1. \A q \in Procs : ~Running(q)
  BY DEF Plan, Running
<1>2. Kept(x, stored, rows) /\ marks \in Seq(MarkRows) /\ InOrder(marks)
  BY <1>1 DEF Carrying, Undisturbed, TypeInv
<1>3. /\ UNCHANGED <<marks, stored, rows>>
      /\ todo'[p] = IF cmd[p] = "rollback" THEN RollbackSteps ELSE MigrateSteps
      /\ \A q \in Procs : Running(q)' <=> q = p
  BY <1>1 DEF Plan, Goto, Running, TypeInv, LockInv, PlaceInv
<1>4. PICK t \in 0..4 : Leads(todo'[p], With(n, x), RowsNow(t))
  <2>1. CASE cmd[p] = "rollback"
    <3>1. PICK t \in 0..4 : Leads(RollbackSteps, RowsNow(n), RowsNow(t))
      BY <1>2, RollbackLeads DEF Reaches
    <3> QED BY <1>3, <2>1, <3>1 DEF RowsNow
  <2>2. CASE cmd[p] # "rollback"
    <3>1. Leads(MigrateSteps, RowsNow(n), RowsNow(4)) /\ 4 \in 0..4
      BY <1>2, MigrateLeads DEF Reaches
    <3> QED BY <1>3, <2>2, <3>1 DEF RowsNow
  <2> QED BY <2>1, <2>2
<1>5. Carried(p)'
  BY <1>2, <1>3, <1>4 DEF Carried
<1> QED BY <1>3, <1>5 DEF Carrying

LEMMA MarkCarries ==
  ASSUME TypeInv, Undisturbed, Carrying, NEW p \in Procs, MarkApplied(p)
  PROVE  Carrying'
<1> DEFINE n == Len(marks)
<1>1. Running(p) /\ todo[p] # <<>> /\ Next1(p).do = "mark"
  BY MarksAreOfMigrations DEF MarkApplied, IsMark
<1>2. PICK t, x : /\ t \in 0..4 /\ Kept(x, stored, rows)
                  /\ Leads(todo[p], With(n, x), RowsNow(t))
  BY <1>1 DEF Carrying, Carried
<1>3. Leads(Tail(todo[p]), With(n + 1, x), RowsNow(t))
  BY <1>1, <1>2, RowsOnward DEF Next1, IsMark
<1>4. todo'[p] = Tail(todo[p]) /\ UNCHANGED <<pc, cmd, stored, rows>>
  BY DEF MarkApplied, Advance, TypeInv, PlaceInv
<1>5. Len(marks') = n + 1
  BY DEF MarkApplied, TypeInv
<1>6. Carried(p)'
  BY <1>2, <1>3, <1>4, <1>5 DEF Carried
<1> QED BY <1>1, <1>4, <1>6, OnwardCarries

LEMMA UnmarkCarries ==
  ASSUME TypeInv, Undisturbed, Carrying, NEW p \in Procs, MarkUnapplied(p)
  PROVE  Carrying'
<1> DEFINE n == Len(marks)
<1>1. Running(p) /\ todo[p] # <<>> /\ Next1(p).do = "unmark" /\ Next1(p).m \in 1..4
  BY MarksAreOfMigrations DEF MarkUnapplied, IsMark, Migrations
<1>2. PICK t, x : /\ t \in 0..4 /\ Kept(x, stored, rows)
                  /\ Leads(todo[p], With(n, x), RowsNow(t))
  BY <1>1 DEF Carrying, Carried
<1> PICK y : y = IF n = 1 THEN Gone ELSE x
  OBVIOUS
<1>3. Next1(p).m = n /\ Leads(Tail(todo[p]), With(n - 1, y), RowsNow(t))
  BY <1>1, <1>2, RowsOnward DEF Next1, IsMark
<1>4. todo'[p] = Tail(todo[p]) /\ UNCHANGED <<pc, cmd, rows>>
      /\ stored' = IF n = 1 THEN {} ELSE stored
  BY <1>3 DEF MarkUnapplied, Advance, TypeInv, PlaceInv
<1>5. Len(marks') = n - 1
  BY <1>1, <1>3, LastUnmarked DEF TypeInv, Undisturbed
<1>6. Kept(y, stored', rows')
  BY <1>2, <1>4, NothingStored
<1>7. Carried(p)'
  BY <1>2, <1>3, <1>4, <1>5, <1>6 DEF Carried
<1> QED BY <1>1, <1>4, <1>7, OnwardCarries

LEMMA ExecuteCarries ==
  ASSUME TypeInv, Undisturbed, Carrying, Clears, NEW p \in Procs, Execute(p)
  PROVE  Carrying'
<1> DEFINE n == Len(marks)
<1>1. /\ pc[p] = "run" /\ todo[p] # <<>> /\ ~IsMark(Next1(p)) /\ rows' \in RowsAfter(Next1(p), rows)
      /\ UNCHANGED <<marks, pc, cmd, stored>> /\ todo'[p] = Tail(todo[p])
      /\ \A q \in Procs \ {p} : todo'[q] = todo[q]
  BY DEF Execute, IsMark, Advance, TypeInv, PlaceInv
<1>2. CASE Running(p)
  <2>1. PICK t, x : /\ t \in 0..4 /\ Kept(x, stored, rows)
                    /\ Leads(todo[p], With(n, x), RowsNow(t))
    BY <1>2 DEF Carrying, Carried
  <2>2. PICK z : Moves(Next1(p), x, z) /\ Leads(Tail(todo[p]), With(n, z), RowsNow(t))
    BY <1>1, <2>1, RowsOnward DEF Next1, IsMark
  <2>3. stored \in SUBSET {"old", "new"}
    BY DEF TypeInv
  <2>4. Kept(z, stored, rows')
    BY <1>1, <2>1, <2>2, <2>3 DEF Moves
  <2>5. Carried(p)'
    BY <1>1, <2>1, <2>2, <2>4 DEF Carried
  <2> QED BY <1>1, <1>2, <2>5, OnwardCarries
<1>3. CASE ~Running(p)
  <2>1. stored = {}
    BY <1>1, <1>3 DEF TypeInv, PlaceInv, Running, All, Clears
  <2>2. \A q \in Procs : (Running(q)' <=> Running(q)) /\ (Running(q) => todo'[q] = todo[q])
    BY <1>1, <1>3 DEF Running
  <2>3. ASSUME NEW q \in Procs, Running(q) PROVE Carried(q)'
    <3>1. PICK t, x : /\ t \in 0..4 /\ Kept(x, stored, rows)
                      /\ Leads(todo[q], With(n, x), RowsNow(t))
      BY <2>3 DEF Carrying, Carried
    <3>2. Kept(x, stored', rows') /\ todo'[q] = todo[q]
      BY <1>1, <2>1, <2>2, <2>3, NothingStored
    <3> QED BY <1>1, <3>1, <3>2 DEF Carried
  <2>4. Kept(StageOf(Len(marks')), stored', rows')
    BY <1>1, <2>1, NothingStored
  <2> QED BY <2>2, <2>3, <2>4 DEF Carrying
<1> QED BY <1>2, <1>3

LEMMA RowsStep == TypeInv /\ UndisturbedInv /\ RowsInv /\ [Next]_vars => RowsInv'
<1> SUFFICES ASSUME TypeInv, UndisturbedInv, RowsInv, [Next]_vars PROVE RowsInv'
  OBVIOUS
<1>1. Clears /\ Clears'
  BY ClearsStep DEF RowsInv
<1>2. ASSUME ~broken' PROVE Carrying'
  <2>1. Undisturbed /\ Carrying
    BY <1>2, StaysBroken DEF UndisturbedInv, RowsInv
  <2> QED
    BY <1>1, <1>2, <2>1, StepKinds, AsideCarries, PlanCarries, MarkCarries, UnmarkCarries,
       ExecuteCarries
<1> QED BY <1>1, <1>2 DEF RowsInv
\* The documents a database can have when the first command is given.
LEMMA OldKept == Kept(Older, {"old"}, OldRows)
<1>1. AreRows(OldRows) /\ OneEach(RowsOf(OldRows, "locators"))
  BY RowsAssumption DEF AreRows, IsRow, OneEach
<1>2. RowsOf(OldRows, "hrefs") = {}
  BY NoOldHrefs DEF RowsOf
<1>3. HrefPart("column", {"old"}, RowsOf(OldRows, "locators"), {})
  BY DEF HrefPart, Full, OldOf
<1>4. ValuePart("none", {"old"}, RowsOf(OldRows, "value_triples"))
  BY DEF ValuePart, OldOf
<1>5. KeyPart("plain", {"old"}, RowsOf(OldRows, "cryptokeys"))
  BY DEF KeyPart, OldOf
<1>6. RestPart({"old"}, OldRows)
  BY DEF RestPart, RowsOf
<1> QED BY <1>1, <1>2, <1>3, <1>4, <1>5, <1>6 DEF Kept, Older, Stage

RowNow(r) ==
  CASE r.tbl = "locators" -> Val(r, None)
    [] r.tbl = "value_triples" -> Typ(r, "module_tag")
    [] r.tbl = "cryptokeys" /\ r.typ = "measurement" -> Typ(r, "measurement_auth")
    [] OTHER -> r
HrefRow(l) == Row("hrefs", l.id, l.id, None, l.val)

LEMMA RowsOfBoth ==
  ASSUME NEW t
  PROVE  \A r : r \in RowsOf(OldRowsNow \cup NewRows, t) <=>
           \/ \E o \in OldOf(t) : r = RowNow(o)
           \/ t = "hrefs" /\ \E l \in OldOf("locators") : r = HrefRow(l)
           \/ r \in NewOf(t)
<1>1. OldRowsNow = {RowNow(r) : r \in OldRows} \cup {HrefRow(l) : l \in OldOf("locators")}
  BY DEF OldRowsNow, RowNow, HrefRow, OldOf, Val, Typ
<1>2. ASSUME NEW o \in OldRows PROVE RowNow(o).tbl = o.tbl
  <2>1. OtherColumns(o)
    BY ColumnsChange, RowsAssumption DEF IsRow
  <2> QED BY <2>1 DEF RowNow, OtherColumns
<1>3. \A l : HrefRow(l).tbl = "hrefs"
  BY DEF HrefRow, Row
<1> QED BY <1>1, <1>2, <1>3 DEF RowsOf, OldOf, NewOf

LEMMA BothKept == Kept(Newer, {"old", "new"}, OldRowsNow \cup NewRows)
<1> DEFINE R == OldRowsNow \cup NewRows
           s == {"old", "new"}
<1>1. AreRows(R)
  <2>1. ASSUME NEW o \in OldRows PROVE IsRow(RowNow(o)) /\ IsRow(o)
    <3>1. OtherColumns(o) /\ IsRow(o)
      BY ColumnsChange, RowsAssumption DEF IsRow
    <3> QED BY <3>1 DEF RowNow, OtherColumns
  <2>2. ASSUME NEW l \in OldOf("locators") PROVE IsRow(HrefRow(l))
    BY <2>1 DEF HrefRow, OldOf, RowsOf, IsRow, Row
  <2>3. ASSUME NEW r \in NewRows PROVE IsRow(r)
    BY RowsAssumption DEF IsRow
  <2>4. OldRowsNow = {RowNow(r) : r \in OldRows} \cup {HrefRow(l) : l \in OldOf("locators")}
    BY DEF OldRowsNow, RowNow, HrefRow, OldOf, Val, Typ
  <2> QED BY <2>1, <2>2, <2>3, <2>4 DEF AreRows
<1>2. /\ \A l \in OldOf("locators") : RowNow(l) = Val(l, None) /\ Val(l, None).id = l.id
      /\ \A r \in OldOf("value_triples") : RowNow(r) = Typ(r, "module_tag")
      /\ \A r \in OldOf("cryptokeys") :
           RowNow(r) = IF r.typ = "measurement" THEN Typ(r, "measurement_auth") ELSE r
      /\ \A r \in OldRows : r.tbl \notin Told => RowNow(r) = r
  <2>1. \A o \in OldRows : OtherColumns(o)
    BY ColumnsChange, RowsAssumption DEF IsRow
  <2> QED BY <2>1 DEF OtherColumns, RowNow, OldOf, RowsOf, Told
<1>3. /\ \A k, l \in OldOf("locators") : k.id = l.id => k = l
      /\ \A k, l \in NewOf("locators") : k.id = l.id => k = l
      /\ \A k \in OldOf("locators") : \A l \in NewOf("locators") : k.id # l.id
      /\ \A h \in NewOf("hrefs") : \E l \in NewOf("locators") : l.id = h.own
      /\ \A l \in NewOf("locators") : \E h \in NewOf("hrefs") : h.own = l.id
  BY RowsAssumption DEF OldOf, NewOf
<1> DEFINE L == RowsOf(R, "locators")
           H == RowsOf(R, "hrefs")
<1>4. \A k : k \in L <=> (\E l \in OldOf("locators") : k = Val(l, None)) \/ k \in NewOf("locators")
  BY <1>2, RowsOfBoth
<1>5. \A h : h \in H <=> (\E l \in OldOf("locators") : h = HrefRow(l)) \/ h \in NewOf("hrefs")
  BY RowsOfBoth, NoOldHrefs DEF OldOf, RowsOf
<1>6. ValuePart("tag", s, RowsOf(R, "value_triples"))
  BY <1>2, RowsOfBoth DEF ValuePart
<1>7. KeyPart("auth", s, RowsOf(R, "cryptokeys"))
  BY <1>2, RowsOfBoth DEF KeyPart
<1>8. RestPart(s, R)
  <2>1. ASSUME NEW r \in OldRows, r.tbl \notin Told PROVE r \in RowsOf(R, r.tbl)
    BY <1>2, <2>1, RowsOfBoth DEF OldOf, RowsOf
  <2> QED BY <2>1 DEF RestPart
<1>9. OneEach(L)
  <2> HIDE DEF L
  <2> QED BY <1>2, <1>3, <1>4 DEF OneEach
<1>10. \A l : HrefRow(l).own = l.id /\ HrefRow(l).val = l.val
  BY DEF HrefRow, Row
<1>11. Bare(s, L)
  <2> HIDE DEF L
  <2> QED BY <1>4 DEF Bare
<1>12. Listed(s, H)
  <2> HIDE DEF H
  <2>1. ASSUME NEW l \in OldOf("locators") PROVE HrefRow(l) \in H /\ HrefValues(H, l.id) = {l.val}
    <3>1. HrefRow(l) \in H
      BY <1>5
    <3>2. \A h \in H : h.own = l.id => h.val = l.val
      BY <1>3, <1>5, <1>10
    <3> QED BY <1>10, <3>1, <3>2 DEF HrefValues
  <2>2. ASSUME NEW l \in NewOf("locators") PROVE Has(H, l)
    <3>1. PICK g \in NewOf("hrefs") : g.own = l.id
      BY <1>3
    <3>2. g \in H
      BY <1>5
    <3>3. \A h \in H : h.own = l.id => h \in NewOf("hrefs")
      BY <1>3, <1>5, <1>10
    <3> QED BY <3>1, <3>2, <3>3 DEF HrefValues, Has
  <2> QED BY <2>1, <2>2 DEF Listed, HrefRow
<1>13. HrefPart("table", s, L, H)
  BY <1>11, <1>12 DEF HrefPart
<1> HIDE DEF R
<1>14. s # {}
  OBVIOUS
<1> HIDE DEF s
<1>15. Kept(Newer, s, R)
  BY <1>1, <1>6, <1>7, <1>8, <1>9, <1>13 DEF Kept, Newer, Stage
<1> QED BY <1>15 DEF R, s

LEMMA RowsInit == Init => RowsInv
<1> SUFFICES ASSUME Init PROVE Clears /\ Carrying
  BY DEF RowsInv
<1>1. Clears /\ \A p \in Procs : ~Running(p)
  BY DEF Init, Clears, Running, None
<1>2. Kept(StageOf(Len(marks)), stored, rows)
  <2>1. CASE stored = {}
    BY <2>1, NothingStored
  <2>2. CASE marks = [m \in 1..3 |-> MarkRow(m, 1)] /\ rows = OldRows /\ stored = {"old"}
    <3>1. Len(marks) = 3
      BY <2>2
    <3>2. StageOf(Len(marks)) = Older
      BY <3>1 DEF StageOf
    <3> QED BY <2>2, <3>2, OldKept
  <2>3. CASE /\ marks = [m \in 1..4 |-> MarkRow(m, IF m < 4 THEN 1 ELSE 2)]
             /\ rows = OldRowsNow \cup NewRows /\ stored = {"old", "new"}
    <3>1. Len(marks) = 4
      BY <2>3
    <3>2. StageOf(Len(marks)) = Newer
      BY <3>1 DEF StageOf
    <3> QED BY <2>3, <3>2, BothKept
  <2> QED BY <2>1, <2>2, <2>3 DEF Init
<1> QED BY <1>1, <1>2 DEF Carrying

\* The two schemas differ from each other and from none.
LEMMA StageOfSchema ==
  ASSUME NEW n \in 0..4
  PROVE  /\ SchemaOf(n) = SchemaBefore0003 => StageOf(n) = Older
         /\ SchemaOf(n) = CurrentSchema => StageOf(n) = Newer
         /\ SchemaBefore0003 # CurrentSchema
<1> DEFINE hrefs == <<"hrefs", "id">>
           manifests == <<"manifests", "id">>
<1>1. /\ "manifests" \in FirstTables /\ "hrefs" \notin BeforeTables /\ "hrefs" \in AfterTables
  <2>1. "manifests" \in First /\ "hrefs" \notin First
    BY DEF First
  <2>2. NewTables[1] = "hrefs" /\ 1 \in 1..7
    BY DEF NewTables
  <2>3. FirstTables = First
    BY InitialTablesList
  <2> QED BY <2>1, <2>2, <2>3 DEF BeforeTables, AfterTables
<1>2. SchemaOf(0).columns = {}
  BY DEF SchemaOf, EmptySchema
<1>3. ASSUME NEW T, NEW E, NEW V
      PROVE  /\ \A t : t \in T => <<t, "id">> \in Schema(T, E, V).columns
             /\ <<"hrefs", "id">> \notin E /\ "hrefs" \notin T =>
                  <<"hrefs", "id">> \notin Schema(T, E, V).columns
  BY DEF Schema, HasColumns, Ids
<1>4. <<"hrefs", "id">> \notin FirstColumns
  BY DEF FirstColumns
<1>5. \A m \in 1..3 : /\ manifests \in SchemaOf(m).columns
                      /\ hrefs \notin SchemaOf(m).columns
  <2>1. "manifests" \in BeforeTables /\ "hrefs" \notin FirstTables
    BY <1>1 DEF BeforeTables
  <2>2. \A m \in 1..3 : m = 1 \/ m = 2 \/ m = 3
    OBVIOUS
  <2> QED BY <1>1, <1>3, <1>4, <2>1, <2>2, Schemas
<1>6. hrefs \in SchemaOf(4).columns
  BY <1>1, <1>3, Schemas
<1> HIDE DEF hrefs, manifests
<1>7. SchemaOf(n) = SchemaOf(3) => n \in 1..3
  BY <1>2, <1>5, <1>6
<1>8. SchemaOf(n) = SchemaOf(4) => n = 4
  BY <1>2, <1>5, <1>6
<1>9. SchemaOf(3) # SchemaOf(4)
  BY <1>5, <1>6
<1>10. n \in 1..3 => StageOf(n) = Older
  BY DEF StageOf
<1>11. StageOf(4) = Newer
  BY DEF StageOf
<1> QED BY <1>7, <1>8, <1>9, <1>10, <1>11, Schemas

\* Whatever commands are given, and wherever they fail between two migrations: locators
\* keep their hrefs, value triples their module tags and keys their owners, up and down
\* 0003_rev10, as far as either schema can hold them.  Each statement takes the rows from
\* one stage to the next, and whoever migrates is at the stage its next statement needs.
THEOREM DocumentsAreKept == Spec => []DocumentsSurvive
<1>1. TypeInv /\ UndisturbedInv /\ RowsInv => DocumentsSurvive
  <2> SUFFICES ASSUME TypeInv, Undisturbed, Carrying, Quiet
               PROVE  DocumentsSurvive
    BY DEF UndisturbedInv, RowsInv, DocumentsSurvive
  <2> DEFINE n == Len(marks)
  <2>1. n \in 0..4
    BY OrderedMarks DEF TypeInv, Undisturbed
  <2>2. schema = SchemaOf(n) /\ Kept(StageOf(n), stored, rows)
    <3>1. CASE \A p \in Procs : ~Running(p)
      BY <3>1 DEF Undisturbed, Carrying
    <3>2. ASSUME NEW p \in Procs, Running(p) PROVE schema = SchemaOf(n) /\ Kept(StageOf(n), stored, rows)
      BY <3>2, StopsInOrder, StopsAtStage DEF Quiet
    <3> QED BY <3>1, <3>2
  <2>3. CASE schema = SchemaBefore0003 /\ stored # {}
    <3>1. Kept(Older, stored, rows) /\ schema # CurrentSchema
      BY <2>1, <2>2, <2>3, StageOfSchema
    <3>2. /\ Full(stored, RowsOf(rows, "locators"))
          /\ ValuePart("none", stored, RowsOf(rows, "value_triples"))
          /\ KeyPart("plain", stored, RowsOf(rows, "cryptokeys"))
          /\ RestPart(stored, rows)
      BY <2>3, <3>1 DEF Kept, Older, Stage, HrefPart
    <3>3. ASSUME "old" \in stored, NEW r \in OldRows PROVE r \in rows
      BY <3>2, <3>3 DEF Full, ValuePart, KeyPart, RestPart, Told, OldOf, RowsOf
    <3>4. ASSUME "new" \in stored PROVE KeepsAnHref(NewRows)
      BY <3>2, <3>4 DEF Full, KeepsAnHref, NewOf, HrefValues
    <3>5. ASSUME "new" \in stored, NEW r \in NewRows
          PROVE  /\ r.tbl = "value_triples" /\ r.typ = "module_tag" => Typ(r, None) \in rows
                 /\ r.tbl = "cryptokeys" /\ r.typ = "measurement_auth" =>
                      Typ(r, "measurement") \in rows
      BY <3>2, <3>5 DEF ValuePart, KeyPart, NewOf, RowsOf
    <3> QED BY <3>1, <3>3, <3>4, <3>5 DEF DocumentsSurvive, Typ
  <2>4. CASE schema = CurrentSchema /\ stored # {}
    <3>1. Kept(Newer, stored, rows) /\ schema # SchemaBefore0003
      BY <2>1, <2>2, <2>4, StageOfSchema
    <3>2. /\ Bare(stored, RowsOf(rows, "locators"))
          /\ Listed(stored, RowsOf(rows, "hrefs"))
          /\ ValuePart("tag", stored, RowsOf(rows, "value_triples"))
          /\ KeyPart("auth", stored, RowsOf(rows, "cryptokeys"))
          /\ RestPart(stored, rows)
      BY <2>4, <3>1 DEF Kept, Newer, Stage, HrefPart
    <3>3. ASSUME "old" \in stored, NEW r \in OldRows PROVE RowNow(r) \in rows
      <4>1. CASE r.tbl = "locators"
        BY <3>2, <3>3, <4>1 DEF Bare, RowNow, OldOf, RowsOf
      <4>2. CASE r.tbl = "value_triples"
        BY <3>2, <3>3, <4>2 DEF ValuePart, RowNow, OldOf, RowsOf
      <4>3. CASE r.tbl = "cryptokeys"
        BY <3>2, <3>3, <4>3 DEF KeyPart, RowNow, OldOf, RowsOf
      <4>4. CASE r.tbl \notin Told
        BY <3>2, <3>3, <4>4 DEF RestPart, RowNow, Told, RowsOf
      <4> QED BY <4>1, <4>2, <4>3, <4>4 DEF Told
    <3>4. ASSUME "old" \in stored, NEW l \in OldOf("locators")
          PROVE  HrefRow(l) \in rows /\ HrefsOf(l) = {l.val}
      BY <3>2, <3>4 DEF Listed, HrefRow, HrefsOf, HrefValues, RowsOf
    <3>5. OldRowsNow = {RowNow(r) : r \in OldRows} \cup {HrefRow(l) : l \in OldOf("locators")}
      BY DEF OldRowsNow, RowNow, HrefRow, OldOf, Val, Typ
    <3>6. "old" \in stored =>
            OldRowsNow \subseteq rows /\ \A l \in RowsOf(OldRows, "locators") : HrefsOf(l) = {l.val}
      BY <3>3, <3>4, <3>5 DEF OldOf
    <3> QED BY <3>1, <3>6 DEF DocumentsSurvive
  <2> QED BY <2>3, <2>4 DEF DocumentsSurvive
<1>2. Init => TypeInv /\ UndisturbedInv /\ RowsInv
  BY TypeInit, UndisturbedInit, RowsInit
<1>3. TypeInv /\ UndisturbedInv /\ RowsInv /\ [Next]_vars
        => TypeInv' /\ UndisturbedInv' /\ RowsInv'
  BY TypeStep, UndisturbedStep, RowsStep
<1> QED BY <1>1, <1>2, <1>3, PTL DEF Spec
=============================================================================
