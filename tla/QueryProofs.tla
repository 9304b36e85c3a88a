---------------------------- MODULE QueryProofs ----------------------------
(***************************************************************************)
(* What a run of a query object reports, whatever the queries, the rows,   *)
(* the commits and the failures; and, for queries that are answered at all *)
(* (Asks), what it leaves of the object and which rows it returns.         *)
(***************************************************************************)
EXTENDS Query, SequenceFacts

Errors == {"none", "no match", "db error"}

IsMoment(m) ==
  /\ m = [next |-> m.next, before |-> m.before, after |-> m.after, at |-> m.at,
          fails |-> m.fails]
  /\ m.next \in Nat /\ m.fails \in Nat

\* From moment m0 to m: the error is that of the database if, and only if, one of the
\* statements in between has failed.
Reports(m0, m, err) ==
  /\ IsMoment(m0) /\ IsMoment(m)
  /\ m = [m0 EXCEPT !.next = m.next] /\ m0.next <= m.next
  /\ err \in Errors
  /\ err = "db error" <=> m0.next <= m0.fails /\ m0.fails < m.next

IsRun(s) == s = [q |-> s.q, m |-> s.m, err |-> s.err, rows |-> s.rows]

\* A run that has begun at moment m0, and one that is over.
Progress(m0, s) == IsRun(s) /\ s.rows = {} /\ Reports(m0, s.m, s.err)
Ends(m0, r) ==
  /\ IsRun(r) /\ Reports(m0, r.m, r.err)
  /\ r.err = "none" <=> r.rows # {}
  /\ r.rows \subseteq m0.before \cup m0.after

LEMMA ReportsSo ==
  ASSUME NEW m0, NEW m, NEW err, IsMoment(m0), IsMoment(m),
         m = [m0 EXCEPT !.next = m.next], m0.next <= m.next, err \in Errors,
         err = "db error" <=> m0.next <= m0.fails /\ m0.fails < m.next
  PROVE  Reports(m0, m, err)
BY Zenon DEF Reports

LEMMA WithinOneOf ==
  ASSUME NEW a \in Nat, NEW b \in Nat, NEW c \in Nat, NEW f \in Nat, a <= b, b <= c,
         ~(a <= f /\ f < b)
  PROVE  a <= c /\ ((b <= f /\ f < c) <=> (a <= f /\ f < c))
OBVIOUS

LEMMA ReportsMore ==
  ASSUME NEW m0, NEW m1, NEW e1, Reports(m0, m1, e1), e1 # "db error",
         NEW m2, NEW e2, Reports(m1, m2, e2)
  PROVE  Reports(m0, m2, e2)
<1>1. /\ m0.next \in Nat /\ m1.next \in Nat /\ m2.next \in Nat
      /\ m0.fails \in Nat /\ m1.fails = m0.fails
  BY DEF Reports, IsMoment
<1>2. m2 = [m0 EXCEPT !.next = m2.next]
  BY DEF Reports, IsMoment
<1>3. m0.next <= m1.next /\ m1.next <= m2.next
  BY DEF Reports
<1>4. m0.next <= m2.next /\ (e2 = "db error" <=> m0.next <= m0.fails /\ m0.fails < m2.next)
  <2>1. ~(m0.next <= m0.fails /\ m0.fails < m1.next)
    BY DEF Reports
  <2>2. e2 = "db error" <=> m1.next <= m0.fails /\ m0.fails < m2.next
    BY <1>1 DEF Reports
  <2>3. /\ m0.next <= m2.next
        /\ (m1.next <= m0.fails /\ m0.fails < m2.next)
             <=> (m0.next <= m0.fails /\ m0.fails < m2.next)
    BY <1>1, <1>3, <2>1, WithinOneOf
  <2> QED BY <2>2, <2>3
<1>5. IsMoment(m0) /\ IsMoment(m2) /\ e2 \in Errors
  BY DEF Reports
<1> QED BY <1>2, <1>4, <1>5, ReportsSo, Zenon

LEMMA MomentAt ==
  ASSUME NEW m, IsMoment(m), NEW n \in Nat
  PROVE  /\ IsMoment([m EXCEPT !.next = n]) /\ [m EXCEPT !.next = n].next = n
         /\ [m EXCEPT !.next = n].before = m.before /\ [m EXCEPT !.next = n].after = m.after
BY DEF IsMoment

LEMMA NothingYet ==
  ASSUME NEW m, IsMoment(m)
  PROVE  Reports(m, m, "none")
BY DEF Reports, IsMoment, Errors

LEMMA OutcomeEnds ==
  ASSUME NEW q, NEW m, IsMoment(m), NEW rows, rows \subseteq m.before \cup m.after
  PROVE  Ends(m, Outcome(q, m, rows)) /\ Outcome(q, m, rows).q = q
<1> DEFINE r == Outcome(q, m, rows)
<1>1. IsRun(r) /\ r.q = q
  BY DEF Outcome, IsRun
<1>2. r.m = [m EXCEPT !.next = m.next + 1]
  BY DEF Outcome
<1>3. IsMoment(r.m) /\ r.m.next = m.next + 1
  BY <1>2, MomentAt DEF IsMoment
<1>4. m.next \in Nat /\ m.fails \in Nat
  BY DEF IsMoment
<1>5. r.err = IF m.next = m.fails THEN "db error" ELSE IF rows = {} THEN "no match" ELSE "none"
  BY DEF Outcome
<1>6. r.rows = IF m.next = m.fails THEN {} ELSE rows
  BY DEF Outcome
<1> HIDE DEF r
<1>7. Reports(m, r.m, r.err)
  <2>1. r.err = "db error" <=> m.next <= m.fails /\ m.fails < r.m.next
    <3>1. m.next = m.fails <=> m.next <= m.fails /\ m.fails < m.next + 1
      BY <1>4
    <3>2. r.err = "db error" <=> m.next = m.fails
      BY <1>5
    <3> QED BY <1>3, <3>1, <3>2
  <2>2. r.err \in Errors
    BY <1>5 DEF Errors
  <2>3. r.m = [m EXCEPT !.next = r.m.next] /\ m.next <= r.m.next
    BY <1>2, <1>3, <1>4
  <2> QED BY <1>3, <2>1, <2>2, <2>3 DEF Reports
<1>8. r.rows \subseteq m.before \cup m.after /\ (r.err = "none" <=> r.rows # {})
  BY <1>5, <1>6
<1> QED BY <1>1, <1>7, <1>8 DEF Ends, r

LEMMA SeenRows ==
  ASSUME NEW tbl, NEW m
  PROVE  Table(Seen(m), tbl) \subseteq m.before \cup m.after
BY DEF Table, Seen

LEMMA WhereEnds ==
  ASSUME NEW tbl, NEW q, NEW m, IsMoment(m)
  PROVE  Ends(m, RunQuery(tbl, Where, q, m)) /\ RunQuery(tbl, Where, q, m).q = q
<1>1. {r \in Table(Seen(m), tbl) : Where(q, r)} \subseteq m.before \cup m.after
  BY SeenRows
<1> QED BY <1>1, OutcomeEnds DEF RunQuery

LEMMA EnvWhereEnds ==
  ASSUME NEW q, NEW m, IsMoment(m)
  PROVE  Ends(m, RunQuery("environments", EnvWhere, q, m))
<1>1. {r \in Table(Seen(m), "environments") : EnvWhere(q, r)} \subseteq m.before \cup m.after
  BY SeenRows
<1> QED BY <1>1, OutcomeEnds DEF RunQuery
-----------------------------------------------------------------------------
(* Objects, at rest or not.  What is known of one depends on k: nothing ("any"), its  *)
(* own shape ("shape"), or that of the members of its groups too ("deep").  Then it   *)
(* is the object of the client, and nothing is left of the lists that were saved      *)
(* unless i, for the IDs, or e, for the environments.                                 *)

IsObject(q) ==
  /\ q = [vals |-> q.vals, ids |-> q.ids, owners |-> q.owners, types |-> q.types,
          envs |-> q.envs, savedIDs |-> q.savedIDs, saved |-> q.saved,
          savedEnvs |-> q.savedEnvs, envSaved |-> q.envSaved, subs |-> q.subs]
  /\ q.saved \in BOOLEAN /\ q.envSaved \in BOOLEAN
  /\ q.subs = [name \in DOMAIN q.subs |-> q.subs[name]]

Shaped(q) == IsObject(q) /\ HasGroups(q)
Deep(q) == \A name \in Grouped : \A i \in DOMAIN Sub(q, name) : Shaped(q.subs[name][i])

Held(q, k, i, e) ==
  /\ k # "any" => Shaped(q)
  /\ k = "deep" => Deep(q) /\ (~i => q.saved = FALSE) /\ (~e => q.envSaved = FALSE)

Mid(m0, s, k, i, e) ==
  /\ Progress(m0, s) /\ Held(s.q, k, i, e)
  /\ s.err # "none" => Held(s.q, k, FALSE, FALSE)

Over(m0, r, k) == Ends(m0, r) /\ Held(r.q, k, FALSE, FALSE)

\* An object with the same subqueries.
LEMMA SameSubs ==
  ASSUME NEW q, NEW p, IsObject(p), p.subs = q.subs
  PROVE  (Shaped(q) => Shaped(p)) /\ (Deep(q) => Deep(p))
BY DEF Shaped, HasGroups, IsGroup, Deep, Sub

LEMMA SaveIDsObject ==
  ASSUME NEW q, IsObject(q)
  PROVE  /\ IsObject(saveIDs(q)) /\ saveIDs(q).subs = q.subs
         /\ saveIDs(q).envSaved = q.envSaved
BY DEF IsObject, saveIDs

LEMMA SaveEnvIDsObject ==
  ASSUME NEW q, IsObject(q)
  PROVE  /\ IsObject(saveEnvIDs(q)) /\ saveEnvIDs(q).subs = q.subs
         /\ saveEnvIDs(q).saved = q.saved
BY DEF IsObject, saveEnvIDs

LEMMA RestoreIDsObject ==
  ASSUME NEW q, IsObject(q)
  PROVE  /\ IsObject(restoreIDs(q)) /\ restoreIDs(q).subs = q.subs
         /\ restoreIDs(q).saved = FALSE /\ restoreIDs(q).envSaved = q.envSaved
BY DEF IsObject, restoreIDs

LEMMA RestoreEnvIDsObject ==
  ASSUME NEW q, IsObject(q)
  PROVE  /\ IsObject(restoreEnvIDs(q)) /\ restoreEnvIDs(q).subs = q.subs
         /\ restoreEnvIDs(q).envSaved = FALSE /\ restoreEnvIDs(q).saved = q.saved
BY DEF IsObject, restoreEnvIDs

LEMMA RestoreHeld ==
  ASSUME NEW q, NEW k, NEW i, NEW e, Held(q, k, i, e)
  PROVE  Held(Restore(q), k, FALSE, FALSE)
<1> SUFFICES ASSUME k # "any" PROVE Held(Restore(q), k, FALSE, FALSE)
  BY DEF Held
<1> DEFINE p == restoreIDs(q)
<1>1. IsObject(q)
  BY DEF Held, Shaped
<1>2. IsObject(p) /\ p.subs = q.subs /\ p.saved = FALSE
  BY <1>1, RestoreIDsObject
<1> HIDE DEF p
<1>3. /\ IsObject(restoreEnvIDs(p)) /\ restoreEnvIDs(p).subs = q.subs
      /\ restoreEnvIDs(p).envSaved = FALSE /\ restoreEnvIDs(p).saved = FALSE
  BY <1>2, RestoreEnvIDsObject
<1>4. Restore(q) = restoreEnvIDs(p)
  BY DEF Restore, p
<1> QED BY <1>3, <1>4, SameSubs DEF Held

LEMMA RestoreIDsHeld ==
  ASSUME NEW q, NEW k, NEW i, Held(q, k, i, FALSE)
  PROVE  Held(restoreIDs(q), k, FALSE, FALSE)
<1> SUFFICES ASSUME k # "any" PROVE Held(restoreIDs(q), k, FALSE, FALSE)
  BY DEF Held
<1> IsObject(q)
  BY DEF Held, Shaped
<1> QED BY RestoreIDsObject, SameSubs DEF Held

LEMMA RestoreEnvIDsHeld ==
  ASSUME NEW q, NEW k, NEW e, Held(q, k, FALSE, e)
  PROVE  Held(restoreEnvIDs(q), k, FALSE, FALSE)
<1> SUFFICES ASSUME k # "any" PROVE Held(restoreEnvIDs(q), k, FALSE, FALSE)
  BY DEF Held
<1> IsObject(q)
  BY DEF Held, Shaped
<1> QED BY RestoreEnvIDsObject, SameSubs DEF Held

LEMMA SaveIDsHeld ==
  ASSUME NEW q, NEW k, NEW i, NEW e, Held(q, k, i, e)
  PROVE  Held(saveIDs(q), k, TRUE, e)
<1> SUFFICES ASSUME k # "any" PROVE Held(saveIDs(q), k, TRUE, e)
  BY DEF Held
<1> IsObject(q)
  BY DEF Held, Shaped
<1> QED BY SaveIDsObject, SameSubs DEF Held

LEMMA SaveEnvIDsHeld ==
  ASSUME NEW q, NEW k, NEW i, NEW e, Held(q, k, i, e)
  PROVE  Held(saveEnvIDs(q), k, i, TRUE)
<1> SUFFICES ASSUME k # "any" PROVE Held(saveEnvIDs(q), k, i, TRUE)
  BY DEF Held
<1> IsObject(q)
  BY DEF Held, Shaped
<1> QED BY SaveEnvIDsObject, SameSubs DEF Held

\* The IDs are replaced; the environments are.
WithIDs(q, ids) == [q EXCEPT !.ids = ids]
WithEnvs(q, envs) == [q EXCEPT !.envs = envs]

LEMMA WithIDsHeld ==
  ASSUME NEW q, NEW k, NEW i, NEW e, Held(q, k, i, e), NEW ids
  PROVE  Held(WithIDs(q, ids), k, i, e)
<1> SUFFICES ASSUME k # "any" PROVE Held(WithIDs(q, ids), k, i, e)
  BY DEF Held
<1> IsObject(q)
  BY DEF Held, Shaped
<1>1. /\ IsObject(WithIDs(q, ids)) /\ WithIDs(q, ids).subs = q.subs
      /\ WithIDs(q, ids).saved = q.saved /\ WithIDs(q, ids).envSaved = q.envSaved
  BY DEF IsObject, WithIDs
<1> QED BY <1>1, SameSubs DEF Held

LEMMA WithEnvsHeld ==
  ASSUME NEW q, NEW k, NEW i, NEW e, Held(q, k, i, e), NEW envs
  PROVE  Held(WithEnvs(q, envs), k, i, e)
<1> SUFFICES ASSUME k # "any" PROVE Held(WithEnvs(q, envs), k, i, e)
  BY DEF Held
<1> IsObject(q)
  BY DEF Held, Shaped
<1>1. /\ IsObject(WithEnvs(q, envs)) /\ WithEnvs(q, envs).subs = q.subs
      /\ WithEnvs(q, envs).saved = q.saved /\ WithEnvs(q, envs).envSaved = q.envSaved
  BY DEF IsObject, WithEnvs
<1> QED BY <1>1, SameSubs DEF Held

\* A subquery that is no group is replaced.
WithSub(q, name, x) == [q EXCEPT !.subs[name] = x]

LEMMA WithSubHeld ==
  ASSUME NEW q, NEW k, NEW i, NEW e, Held(q, k, i, e), NEW name, name \notin Grouped, NEW x
  PROVE  Held(WithSub(q, name, x), k, i, e)
<1> SUFFICES ASSUME k # "any" PROVE Held(WithSub(q, name, x), k, i, e)
  BY DEF Held
<1> DEFINE p == WithSub(q, name, x)
<1>1. IsObject(q)
  BY DEF Held, Shaped
<1>2. p.subs = [q.subs EXCEPT ![name] = x] /\ p.saved = q.saved /\ p.envSaved = q.envSaved
  BY <1>1 DEF IsObject, WithSub
<1>3. DOMAIN p.subs = DOMAIN q.subs /\ p.subs = [n \in DOMAIN p.subs |-> p.subs[n]]
  BY <1>2
<1>4. IsObject(p)
  BY <1>1, <1>3 DEF IsObject, WithSub
<1>5. \A n \in Grouped : n \in DOMAIN q.subs => p.subs[n] = q.subs[n]
  BY <1>2
<1> HIDE DEF p
<1>6. HasGroups(q) => HasGroups(p)
  BY <1>3, <1>5 DEF HasGroups, IsGroup
<1>7. Deep(q) => Deep(p)
  <2>1. \A n \in Grouped : Sub(p, n) = Sub(q, n)
    BY <1>3, <1>5 DEF Sub
  <2>2. \A n \in Grouped : \A j \in DOMAIN Sub(q, n) : n \in DOMAIN q.subs
    BY DEF Sub
  <2> QED BY <2>1, <2>2, <1>5 DEF Deep
<1>8. Held(p, k, i, e)
  BY <1>2, <1>4, <1>6, <1>7 DEF Held, Shaped, p
<1> QED BY <1>8 DEF p
-----------------------------------------------------------------------------
(* The stages of a run. *)

LEMMA RunStarts ==
  ASSUME NEW q, NEW m, IsMoment(m), NEW k, Held(q, k, FALSE, FALSE)
  PROVE  Mid(m, MidRun(q, m), k, FALSE, FALSE)
<1> DEFINE s == MidRun(q, m)
<1>1. IsRun(s) /\ s.q = q /\ s.m = m /\ s.err = "none" /\ s.rows = {}
  BY DEF MidRun, IsRun
<1> HIDE DEF s
<1>2. Mid(m, s, k, FALSE, FALSE)
  BY <1>1, NothingYet DEF Mid, Progress
<1> QED BY <1>2 DEF s

\* Nothing is saved more than is said.
LEMMA Loosened ==
  ASSUME NEW m0, NEW s, NEW k, NEW i, NEW e, Mid(m0, s, k, i, e), NEW j, NEW f,
         i => j, e => f
  PROVE  Mid(m0, s, k, j, f)
BY DEF Mid, Held

LEMMA FinalEnds ==
  ASSUME NEW tbl, NEW m0, NEW s, NEW k, NEW i, NEW e, Mid(m0, s, k, i, e)
  PROVE  Over(m0, Final(tbl, s), k)
<1> DEFINE r == RunQuery(tbl, Where, s.q, s.m)
           t == [r EXCEPT !.q = Restore(r.q)]
<1>1. CASE s.err # "none"
  BY <1>1 DEF Final, Mid, Over, Progress, Ends
<1>2. CASE s.err = "none"
  <2>1. Reports(m0, s.m, s.err) /\ IsMoment(s.m) /\ Held(s.q, k, i, e)
    BY DEF Mid, Progress, Reports
  <2>2. Ends(s.m, r) /\ r.q = s.q
    BY <2>1, WhereEnds
  <2>3. Final(tbl, s) = t
    BY <1>2 DEF Final, Restored
  <2> HIDE DEF r
  <2>4. IsRun(t) /\ t.q = Restore(s.q) /\ t.m = r.m /\ t.err = r.err /\ t.rows = r.rows
    BY <2>2 DEF Ends, IsRun
  <2> HIDE DEF t
  <2>5. Reports(m0, t.m, t.err)
    BY <1>2, <2>1, <2>2, <2>4, ReportsMore DEF Ends
  <2>6. s.m.before = m0.before /\ s.m.after = m0.after
    BY <2>1 DEF Reports, IsMoment
  <2>7. Ends(m0, t)
    BY <2>2, <2>4, <2>5, <2>6 DEF Ends
  <2>8. Held(t.q, k, FALSE, FALSE)
    BY <2>1, <2>4, RestoreHeld
  <2> QED BY <2>3, <2>7, <2>8 DEF Over
<1> QED BY <1>1, <1>2

\* A subquery that has failed, and one that has not.
LEMMA FailsIs ==
  ASSUME NEW s, IsRun(s), NEW q, NEW r
  PROVE  Fails(s, q, r) = [q |-> q, m |-> r.m, err |-> r.err, rows |-> s.rows]
<1>1. PICK a, b, c, d : s = [q |-> a, m |-> b, err |-> c, rows |-> d]
  BY DEF IsRun
<1>2. PICK t : t = Fails(s, q, r)
  OBVIOUS
<1>3. t = [n \in {"q", "m", "err", "rows"} |-> t[n]]
  BY <1>1, <1>2 DEF Fails
<1>4. t.q = q /\ t.m = r.m /\ t.err = r.err /\ t.rows = s.rows
  BY <1>1, <1>2 DEF Fails
<1>5. t = [q |-> q, m |-> r.m, err |-> r.err, rows |-> s.rows]
  BY <1>3, <1>4
<1> QED BY <1>2, <1>5

GoesOn(s, q, m) == [s EXCEPT !.q = q, !.m = m]

LEMMA GoesOnIs ==
  ASSUME NEW s, IsRun(s), NEW q, NEW m
  PROVE  GoesOn(s, q, m) = [q |-> q, m |-> m, err |-> s.err, rows |-> s.rows]
<1>1. PICK a, b, c, d : s = [q |-> a, m |-> b, err |-> c, rows |-> d]
  BY DEF IsRun
<1>2. PICK t : t = GoesOn(s, q, m)
  OBVIOUS
<1>3. t = [n \in {"q", "m", "err", "rows"} |-> t[n]]
  BY <1>1, <1>2 DEF GoesOn
<1>4. t.q = q /\ t.m = m /\ t.err = s.err /\ t.rows = s.rows
  BY <1>1, <1>2 DEF GoesOn
<1>5. t = [q |-> q, m |-> m, err |-> s.err, rows |-> s.rows]
  BY <1>3, <1>4
<1> QED BY <1>2, <1>5

LEMMA FailsSo ==
  ASSUME NEW m0, NEW s, Progress(m0, s), s.err = "none", NEW r, Ends(s.m, r), r.err # "none",
         NEW q, NEW k, Held(q, k, FALSE, FALSE), NEW i, NEW e
  PROVE  Mid(m0, Fails(s, q, r), k, i, e)
<1> DEFINE t == Fails(s, q, r)
<1>1. IsRun(t) /\ t.q = q /\ t.m = r.m /\ t.err = r.err /\ t.rows = {}
  <2>1. t = [q |-> q, m |-> r.m, err |-> r.err, rows |-> s.rows] /\ s.rows = {}
    BY FailsIs DEF Progress
  <2> HIDE DEF t
  <2> QED BY <2>1 DEF IsRun
<1> HIDE DEF t
<1>2. Reports(m0, t.m, t.err)
  BY <1>1, ReportsMore DEF Progress, Ends
<1>3. Mid(m0, t, k, i, e)
  BY <1>1, <1>2 DEF Mid, Progress, Held
<1> QED BY <1>3 DEF t

LEMMA GoesOnSo ==
  ASSUME NEW m0, NEW s, Progress(m0, s), s.err = "none", NEW r, Ends(s.m, r), r.err = "none",
         NEW q, NEW k, NEW i, NEW e, Held(q, k, i, e)
  PROVE  Mid(m0, GoesOn(s, q, r.m), k, i, e)
<1> DEFINE t == GoesOn(s, q, r.m)
<1>1. IsRun(t) /\ t.q = q /\ t.m = r.m /\ t.err = "none" /\ t.rows = {}
  <2>1. t = [q |-> q, m |-> r.m, err |-> s.err, rows |-> s.rows] /\ s.rows = {}
    BY GoesOnIs DEF Progress
  <2> HIDE DEF t
  <2> QED BY <2>1 DEF IsRun
<1> HIDE DEF t
<1>2. Reports(m0, t.m, t.err)
  BY <1>1, ReportsMore DEF Progress, Ends
<1>3. Mid(m0, t, k, i, e)
  BY <1>1, <1>2 DEF Mid, Progress
<1> QED BY <1>3 DEF t

LEMMA OwnerNarrows ==
  ASSUME NEW m0, NEW s, NEW k, NEW i, NEW e, Mid(m0, s, k, i, e), s.err = "none",
         NEW name, name \notin Grouped, NEW r, Ends(s.m, r)
  PROVE  Mid(m0, NarrowByOwner(s, name, r), k, TRUE, e)
<1> DEFINE x == <<Disowned(r.q)>>
           p == saveIDs(s.q)
           q == WithSub(p, name, x)
<1>1. Progress(m0, s) /\ Held(s.q, k, i, e)
  BY DEF Mid
<1>2. Held(p, k, TRUE, e)
  BY <1>1, SaveIDsHeld
<1>a. NarrowByOwner(s, name, r) =
        IF r.err # "none" THEN Fails(s, Restore(q), r)
        ELSE GoesOn(s, WithIDs(q, Owners(r.rows)), r.m)
  BY DEF NarrowByOwner, GoesOn, WithIDs, WithSub
<1> HIDE DEF p, x
<1>3. Held(q, k, TRUE, e)
  BY <1>2, WithSubHeld
<1> HIDE DEF q
<1>4. CASE r.err # "none"
  <2>1. Held(Restore(q), k, FALSE, FALSE)
    BY <1>3, RestoreHeld
  <2>2. Mid(m0, Fails(s, Restore(q), r), k, TRUE, e)
    BY <1>1, <1>4, <2>1, FailsSo
  <2> QED BY <1>a, <1>4, <2>2
<1>5. CASE r.err = "none"
  <2>1. Held(WithIDs(q, Owners(r.rows)), k, TRUE, e)
    BY <1>3, WithIDsHeld
  <2>2. Mid(m0, GoesOn(s, WithIDs(q, Owners(r.rows)), r.m), k, TRUE, e)
    BY <1>1, <1>5, <2>1, GoesOnSo
  <2> QED BY <1>a, <1>5, <2>2
<1> QED BY <1>4, <1>5

LEMMA EnvironmentNarrows ==
  ASSUME NEW m0, NEW s, NEW k, NEW i, NEW e, Mid(m0, s, k, i, e), s.err = "none",
         k = "deep" => ~i /\ ~e, NEW r, Ends(s.m, r)
  PROVE  Mid(m0, NarrowByEnvironment(s, r), k, i, TRUE)
<1> DEFINE q == WithEnvs(saveEnvIDs(s.q), IDs(r.rows))
<1>1. Progress(m0, s) /\ Held(s.q, k, i, e) /\ Held(s.q, k, FALSE, FALSE)
  BY DEF Mid, Held
<1>2. NarrowByEnvironment(s, r) =
        IF r.err # "none" THEN Fails(s, s.q, r) ELSE GoesOn(s, q, r.m)
  BY DEF NarrowByEnvironment, GoesOn, WithEnvs
<1>3. Held(q, k, i, TRUE)
  BY <1>1, SaveEnvIDsHeld, WithEnvsHeld
<1> HIDE DEF q
<1>4. CASE r.err # "none"
  BY <1>1, <1>2, <1>4, FailsSo
<1>5. CASE r.err = "none"
  BY <1>1, <1>2, <1>3, <1>5, GoesOnSo
<1> QED BY <1>4, <1>5

LEMMA ByEnvironmentRuns ==
  ASSUME NEW m0, NEW s, NEW k, NEW i, NEW e, Mid(m0, s, k, i, e), k = "deep" => ~i /\ ~e
  PROVE  Mid(m0, ByEnvironment(s), k, i, TRUE)
<1> DEFINE r == RunQuery("environments", EnvWhere,
                         [s.q.subs["environment"][1] EXCEPT !.ids = @ \cup s.q.envs], s.m)
<1>1. IsMoment(s.m)
  BY DEF Mid, Progress, Reports
<1>2. Ends(s.m, r)
  BY <1>1, EnvWhereEnds
<1>3. ByEnvironment(s) = s \/ (s.err = "none" /\ ByEnvironment(s) = NarrowByEnvironment(s, r))
  BY DEF ByEnvironment, Skips
<1> HIDE DEF r
<1>4. Mid(m0, s, k, i, TRUE)
  BY DEF Mid, Held
<1>5. s.err = "none" => Mid(m0, NarrowByEnvironment(s, r), k, i, TRUE)
  BY <1>2, EnvironmentNarrows
<1> QED BY <1>3, <1>4, <1>5
-----------------------------------------------------------------------------
(* Each run: first those of the queries without groups. *)

LEMMA CryptoKeyEnds ==
  ASSUME NEW q, NEW m, IsMoment(m)
  PROVE  Ends(m, RunCryptoKey(q, m)) /\ RunCryptoKey(q, m).q = q
BY WhereEnds DEF RunCryptoKey

LEMMA DigestEnds ==
  ASSUME NEW q, NEW m, IsMoment(m)
  PROVE  Ends(m, RunDigest(q, m)) /\ RunDigest(q, m).q = q
BY WhereEnds DEF RunDigest

LEMMA MeasurementValueEnds ==
  ASSUME NEW q, NEW m, IsMoment(m)
  PROVE  Ends(m, RunMeasurementValue(q, m)) /\ RunMeasurementValue(q, m).q = q
BY WhereEnds DEF RunMeasurementValue

LEMMA FlagEnds ==
  ASSUME NEW q, NEW m, IsMoment(m)
  PROVE  Ends(m, RunFlag(q, m)) /\ RunFlag(q, m).q = q
BY WhereEnds DEF RunFlag

LEMMA HrefEnds ==
  ASSUME NEW q, NEW m, IsMoment(m)
  PROVE  Ends(m, RunHref(q, m)) /\ RunHref(q, m).q = q
BY WhereEnds DEF RunHref

LEMMA LinkedTagEnds ==
  ASSUME NEW q, NEW m, IsMoment(m)
  PROVE  Ends(m, RunLinkedTag(q, m)) /\ RunLinkedTag(q, m).q = q
BY WhereEnds DEF RunLinkedTag

LEMMA ByCryptoKey ==
  ASSUME NEW m0, NEW s, NEW k, NEW i, NEW e, Mid(m0, s, k, i, e),
         NEW name, name \notin Grouped, NEW types
  PROVE  Mid(m0, ByOwner(name, types, RunCryptoKey, s), k, TRUE, e)
<1> DEFINE r == RunCryptoKey(OwnedBy(s.q.subs[name][1], types, s.q.ids), s.m)
<1>1. IsMoment(s.m)
  BY DEF Mid, Progress, Reports
<1>2. Ends(s.m, r)
  BY <1>1, CryptoKeyEnds
<1>3. ByOwner(name, types, RunCryptoKey, s) = s
        \/ (s.err = "none" /\ ByOwner(name, types, RunCryptoKey, s) = NarrowByOwner(s, name, r))
  BY DEF ByOwner, Skips
<1> HIDE DEF r
<1>4. s.err = "none" => Mid(m0, NarrowByOwner(s, name, r), k, TRUE, e)
  BY <1>2, OwnerNarrows
<1>5. Mid(m0, s, k, TRUE, e)
  BY DEF Mid, Held
<1> QED BY <1>3, <1>4, <1>5

LEMMA ByDigest ==
  ASSUME NEW m0, NEW s, NEW k, NEW i, NEW e, Mid(m0, s, k, i, e),
         NEW name, name \notin Grouped, NEW types
  PROVE  Mid(m0, ByOwner(name, types, RunDigest, s), k, TRUE, e)
<1> DEFINE r == RunDigest(OwnedBy(s.q.subs[name][1], types, s.q.ids), s.m)
<1>1. IsMoment(s.m)
  BY DEF Mid, Progress, Reports
<1>2. Ends(s.m, r)
  BY <1>1, DigestEnds
<1>3. ByOwner(name, types, RunDigest, s) = s
        \/ (s.err = "none" /\ ByOwner(name, types, RunDigest, s) = NarrowByOwner(s, name, r))
  BY DEF ByOwner, Skips
<1> HIDE DEF r
<1>4. s.err = "none" => Mid(m0, NarrowByOwner(s, name, r), k, TRUE, e)
  BY <1>2, OwnerNarrows
<1>5. Mid(m0, s, k, TRUE, e)
  BY DEF Mid, Held
<1> QED BY <1>3, <1>4, <1>5

LEMMA ByMeasurementValue ==
  ASSUME NEW m0, NEW s, NEW k, NEW i, NEW e, Mid(m0, s, k, i, e),
         NEW name, name \notin Grouped, NEW types
  PROVE  Mid(m0, ByOwner(name, types, RunMeasurementValue, s), k, TRUE, e)
<1> DEFINE r == RunMeasurementValue(OwnedBy(s.q.subs[name][1], types, s.q.ids), s.m)
<1>1. IsMoment(s.m)
  BY DEF Mid, Progress, Reports
<1>2. Ends(s.m, r)
  BY <1>1, MeasurementValueEnds
<1>3. ByOwner(name, types, RunMeasurementValue, s) = s
        \/ (s.err = "none" /\ ByOwner(name, types, RunMeasurementValue, s) = NarrowByOwner(s, name, r))
  BY DEF ByOwner, Skips
<1> HIDE DEF r
<1>4. s.err = "none" => Mid(m0, NarrowByOwner(s, name, r), k, TRUE, e)
  BY <1>2, OwnerNarrows
<1>5. Mid(m0, s, k, TRUE, e)
  BY DEF Mid, Held
<1> QED BY <1>3, <1>4, <1>5

LEMMA ByFlag ==
  ASSUME NEW m0, NEW s, NEW k, NEW i, NEW e, Mid(m0, s, k, i, e),
         NEW name, name \notin Grouped, NEW types
  PROVE  Mid(m0, ByOwner(name, types, RunFlag, s), k, TRUE, e)
<1> DEFINE r == RunFlag(OwnedBy(s.q.subs[name][1], types, s.q.ids), s.m)
<1>1. IsMoment(s.m)
  BY DEF Mid, Progress, Reports
<1>2. Ends(s.m, r)
  BY <1>1, FlagEnds
<1>3. ByOwner(name, types, RunFlag, s) = s
        \/ (s.err = "none" /\ ByOwner(name, types, RunFlag, s) = NarrowByOwner(s, name, r))
  BY DEF ByOwner, Skips
<1> HIDE DEF r
<1>4. s.err = "none" => Mid(m0, NarrowByOwner(s, name, r), k, TRUE, e)
  BY <1>2, OwnerNarrows
<1>5. Mid(m0, s, k, TRUE, e)
  BY DEF Mid, Held
<1> QED BY <1>3, <1>4, <1>5

LEMMA ByHref ==
  ASSUME NEW m0, NEW s, NEW k, NEW i, NEW e, Mid(m0, s, k, i, e),
         NEW name, name \notin Grouped, NEW types
  PROVE  Mid(m0, ByOwner(name, types, RunHref, s), k, TRUE, e)
<1> DEFINE r == RunHref(OwnedBy(s.q.subs[name][1], types, s.q.ids), s.m)
<1>1. IsMoment(s.m)
  BY DEF Mid, Progress, Reports
<1>2. Ends(s.m, r)
  BY <1>1, HrefEnds
<1>3. ByOwner(name, types, RunHref, s) = s
        \/ (s.err = "none" /\ ByOwner(name, types, RunHref, s) = NarrowByOwner(s, name, r))
  BY DEF ByOwner, Skips
<1> HIDE DEF r
<1>4. s.err = "none" => Mid(m0, NarrowByOwner(s, name, r), k, TRUE, e)
  BY <1>2, OwnerNarrows
<1>5. Mid(m0, s, k, TRUE, e)
  BY DEF Mid, Held
<1> QED BY <1>3, <1>4, <1>5

LEMMA ByLinkedTag ==
  ASSUME NEW m0, NEW s, NEW k, NEW i, NEW e, Mid(m0, s, k, i, e),
         NEW name, name \notin Grouped, NEW types
  PROVE  Mid(m0, ByOwner(name, types, RunLinkedTag, s), k, TRUE, e)
<1> DEFINE r == RunLinkedTag(OwnedBy(s.q.subs[name][1], types, s.q.ids), s.m)
<1>1. IsMoment(s.m)
  BY DEF Mid, Progress, Reports
<1>2. Ends(s.m, r)
  BY <1>1, LinkedTagEnds
<1>3. ByOwner(name, types, RunLinkedTag, s) = s
        \/ (s.err = "none" /\ ByOwner(name, types, RunLinkedTag, s) = NarrowByOwner(s, name, r))
  BY DEF ByOwner, Skips
<1> HIDE DEF r
<1>4. s.err = "none" => Mid(m0, NarrowByOwner(s, name, r), k, TRUE, e)
  BY <1>2, OwnerNarrows
<1>5. Mid(m0, s, k, TRUE, e)
  BY DEF Mid, Held
<1> QED BY <1>3, <1>4, <1>5

LEMMA AnyHeld == \A q : Held(q, "any", FALSE, FALSE)
BY DEF Held

LEMMA IntegrityRegisterOver ==
  ASSUME NEW q, NEW m, IsMoment(m), NEW k, Held(q, k, FALSE, FALSE)
  PROVE  Over(m, RunIntegrityRegister(q, m), k)
<1> DEFINE digests == ByOwner("digests", {"integrity_register"}, RunDigest, MidRun(q, m))
<1>1. Mid(m, digests, k, TRUE, FALSE)
  BY RunStarts, ByDigest DEF Grouped
<1> HIDE DEF digests
<1>2. Over(m, Final("integrity_registers", digests), k)
  BY <1>1, FinalEnds
<1> QED BY <1>2 DEF RunIntegrityRegister, digests

LEMMA IntegrityRegisterEnds ==
  ASSUME NEW q, NEW m, IsMoment(m)
  PROVE  Ends(m, RunIntegrityRegister(q, m))
BY AnyHeld, IntegrityRegisterOver DEF Over

LEMMA ByIntegrityRegister ==
  ASSUME NEW m0, NEW s, NEW k, NEW i, NEW e, Mid(m0, s, k, i, e),
         NEW name, name \notin Grouped, NEW types
  PROVE  Mid(m0, ByOwner(name, types, RunIntegrityRegister, s), k, TRUE, e)
<1> DEFINE r == RunIntegrityRegister(OwnedBy(s.q.subs[name][1], types, s.q.ids), s.m)
<1>1. IsMoment(s.m)
  BY DEF Mid, Progress, Reports
<1>2. Ends(s.m, r)
  BY <1>1, IntegrityRegisterEnds
<1>3. ByOwner(name, types, RunIntegrityRegister, s) = s
        \/ (s.err = "none" /\ ByOwner(name, types, RunIntegrityRegister, s) = NarrowByOwner(s, name, r))
  BY DEF ByOwner, Skips
<1> HIDE DEF r
<1>4. s.err = "none" => Mid(m0, NarrowByOwner(s, name, r), k, TRUE, e)
  BY <1>2, OwnerNarrows
<1>5. Mid(m0, s, k, TRUE, e)
  BY DEF Mid, Held
<1> QED BY <1>3, <1>4, <1>5

LEMMA MeasurementOver ==
  ASSUME NEW q, NEW m, IsMoment(m), NEW k, Held(q, k, FALSE, FALSE)
  PROVE  Over(m, RunMeasurement(q, m), k)
<1> DEFINE start == MidRun(q, m)
           keys == ByOwner("authorizedBy", {"measurement"}, RunCryptoKey, start)
           digests == ByOwner("digests", {"measurement"}, RunDigest, keys)
           values == ByOwner("values", {}, RunMeasurementValue, digests)
           registers == ByOwner("registers", {}, RunIntegrityRegister, values)
           flags == ByOwner("flags", {}, RunFlag, registers)
<1> HIDE DEF start, keys, digests, values, registers, flags
<1>0. Mid(m, start, k, FALSE, FALSE)
  BY RunStarts DEF start
<1>1. Mid(m, keys, k, TRUE, FALSE)
  BY <1>0, ByCryptoKey DEF keys, Grouped
<1>2. Mid(m, digests, k, TRUE, FALSE)
  BY <1>1, ByDigest DEF digests, Grouped
<1>3. Mid(m, values, k, TRUE, FALSE)
  BY <1>2, ByMeasurementValue DEF values, Grouped
<1>4. Mid(m, registers, k, TRUE, FALSE)
  BY <1>3, ByIntegrityRegister DEF registers, Grouped
<1>5. Mid(m, flags, k, TRUE, FALSE)
  BY <1>4, ByFlag DEF flags, Grouped
<1>6. Over(m, Final("measurements", flags), k)
  BY <1>5, FinalEnds
<1> QED BY <1>6 DEF RunMeasurement, start, keys, digests, values, registers, flags

LEMMA MeasurementEnds ==
  ASSUME NEW q, NEW m, IsMoment(m)
  PROVE  Ends(m, RunMeasurement(q, m))
BY AnyHeld, MeasurementOver DEF Over

LEMMA LocatorOver ==
  ASSUME NEW q, NEW m, IsMoment(m), NEW k, Held(q, k, FALSE, FALSE)
  PROVE  Over(m, RunLocator(q, m), k)
<1> DEFINE start == MidRun(q, m)
           digests == ByOwner("digests", {"locator"}, RunDigest, start)
           hrefs == ByOwner("hrefs", {}, RunHref, digests)
<1> HIDE DEF start, digests, hrefs
<1>0. Mid(m, start, k, FALSE, FALSE)
  BY RunStarts DEF start
<1>1. Mid(m, digests, k, TRUE, FALSE)
  BY <1>0, ByDigest DEF digests, Grouped
<1>2. Mid(m, hrefs, k, TRUE, FALSE)
  BY <1>1, ByHref DEF hrefs, Grouped
<1>3. Over(m, Final("locators", hrefs), k)
  BY <1>2, FinalEnds
<1> QED BY <1>3 DEF RunLocator, start, digests, hrefs

LEMMA LocatorEnds ==
  ASSUME NEW q, NEW m, IsMoment(m)
  PROVE  Ends(m, RunLocator(q, m))
BY AnyHeld, LocatorOver DEF Over

LEMMA ByLocator ==
  ASSUME NEW m0, NEW s, NEW k, NEW i, NEW e, Mid(m0, s, k, i, e),
         NEW name, name \notin Grouped, NEW types
  PROVE  Mid(m0, ByOwner(name, types, RunLocator, s), k, TRUE, e)
<1> DEFINE r == RunLocator(OwnedBy(s.q.subs[name][1], types, s.q.ids), s.m)
<1>1. IsMoment(s.m)
  BY DEF Mid, Progress, Reports
<1>2. Ends(s.m, r)
  BY <1>1, LocatorEnds
<1>3. ByOwner(name, types, RunLocator, s) = s
        \/ (s.err = "none" /\ ByOwner(name, types, RunLocator, s) = NarrowByOwner(s, name, r))
  BY DEF ByOwner, Skips
<1> HIDE DEF r
<1>4. s.err = "none" => Mid(m0, NarrowByOwner(s, name, r), k, TRUE, e)
  BY <1>2, OwnerNarrows
<1>5. Mid(m0, s, k, TRUE, e)
  BY DEF Mid, Held
<1> QED BY <1>3, <1>4, <1>5
LEMMA EntityOver ==
  ASSUME NEW q, NEW m, IsMoment(m), NEW k, Held(q, k, FALSE, FALSE)
  PROVE  Over(m, RunEntity(q, m), k)
<1> DEFINE start == MidRun(q, m)
           saved == MidRun(saveIDs(q), m)
           r == RunQuery("roles", Where, q.subs["roles"][1], m)
           ids == saved.q.ids \cup Owners(r.rows)
           s == IF Sub(q, "roles") = <<>> THEN start ELSE JoinByRole(saved, r)
<1>1. Mid(m, start, k, TRUE, FALSE)
  BY RunStarts DEF Mid, Held
<1>2. Ends(m, r)
  BY WhereEnds
<1>3. saved.m = m /\ saved.err = "none" /\ Progress(m, saved) /\ Held(saved.q, k, TRUE, FALSE)
  <2>1. Progress(m, saved)
    BY NothingYet DEF MidRun, Progress, IsRun
  <2>2. Held(saved.q, k, TRUE, FALSE)
    BY SaveIDsHeld DEF MidRun
  <2> QED BY <2>1, <2>2 DEF MidRun
<1>4. JoinByRole(saved, r) = IF r.err # "none" THEN Fails(saved, Restore(saved.q), r)
                             ELSE GoesOn(saved, WithIDs(saved.q, ids), r.m)
  BY DEF JoinByRole, GoesOn, WithIDs
<1> HIDE DEF start, saved, r, ids
<1>5. Mid(m, JoinByRole(saved, r), k, TRUE, FALSE)
  <2>1. CASE r.err # "none"
    <3>1. Held(Restore(saved.q), k, FALSE, FALSE)
      BY <1>3, RestoreHeld
    <3> QED BY <1>2, <1>3, <1>4, <2>1, <3>1, FailsSo
  <2>2. CASE r.err = "none"
    <3>1. Held(WithIDs(saved.q, ids), k, TRUE, FALSE)
      BY <1>3, WithIDsHeld
    <3> QED BY <1>2, <1>3, <1>4, <2>2, <3>1, GoesOnSo
  <2> QED BY <2>1, <2>2
<1>6. Mid(m, s, k, TRUE, FALSE)
  BY <1>1, <1>5
<1> HIDE DEF s
<1>7. Over(m, Final("entities", s), k)
  BY <1>6, FinalEnds
<1>8. RunEntity(q, m) = Final("entities", s)
  BY DEF RunEntity, s, start, saved, r
<1> QED BY <1>7, <1>8

LEMMA EntityEnds ==
  ASSUME NEW q, NEW m, IsMoment(m)
  PROVE  Ends(m, RunEntity(q, m))
BY AnyHeld, EntityOver DEF Over

LEMMA ByEntity ==
  ASSUME NEW m0, NEW s, NEW k, NEW i, NEW e, Mid(m0, s, k, i, e),
         NEW name, name \notin Grouped, NEW types
  PROVE  Mid(m0, ByOwner(name, types, RunEntity, s), k, TRUE, e)
<1> DEFINE r == RunEntity(OwnedBy(s.q.subs[name][1], types, s.q.ids), s.m)
<1>1. IsMoment(s.m)
  BY DEF Mid, Progress, Reports
<1>2. Ends(s.m, r)
  BY <1>1, EntityEnds
<1>3. ByOwner(name, types, RunEntity, s) = s
        \/ (s.err = "none" /\ ByOwner(name, types, RunEntity, s) = NarrowByOwner(s, name, r))
  BY DEF ByOwner, Skips
<1> HIDE DEF r
<1>4. s.err = "none" => Mid(m0, NarrowByOwner(s, name, r), k, TRUE, e)
  BY <1>2, OwnerNarrows
<1>5. Mid(m0, s, k, TRUE, e)
  BY DEF Mid, Held
<1> QED BY <1>3, <1>4, <1>5

LEMMA ManifestOver ==
  ASSUME NEW q, NEW m, IsMoment(m), NEW k, Held(q, k, FALSE, FALSE)
  PROVE  Over(m, RunManifest(q, m), k)
<1> DEFINE start == MidRun(q, m)
           entities == ByOwner("entities", {"manifest"}, RunEntity, start)
           rims == ByOwner("dependentRIMs", {}, RunLocator, entities)
<1> HIDE DEF start, entities, rims
<1>0. Mid(m, start, k, FALSE, FALSE)
  BY RunStarts DEF start
<1>1. Mid(m, entities, k, TRUE, FALSE)
  BY <1>0, ByEntity DEF entities, Grouped
<1>2. Mid(m, rims, k, TRUE, FALSE)
  BY <1>1, ByLocator DEF rims, Grouped
<1>3. Over(m, Final("manifests", rims), k)
  BY <1>2, FinalEnds
<1> QED BY <1>3 DEF RunManifest, start, entities, rims

LEMMA ModuleTagOver ==
  ASSUME NEW q, NEW m, IsMoment(m), NEW k, Held(q, k, FALSE, FALSE)
  PROVE  Over(m, RunModuleTag(q, m), k)
<1> DEFINE start == MidRun(q, m)
           entities == ByOwner("entities", {"module_tag"}, RunEntity, start)
           tags == ByOwner("linkedTags", {}, RunLinkedTag, entities)
<1> HIDE DEF start, entities, tags
<1>0. Mid(m, start, k, FALSE, FALSE)
  BY RunStarts DEF start
<1>1. Mid(m, entities, k, TRUE, FALSE)
  BY <1>0, ByEntity DEF entities, Grouped
<1>2. Mid(m, tags, k, TRUE, FALSE)
  BY <1>1, ByLinkedTag DEF tags, Grouped
<1>3. Over(m, Final("module_tags", tags), k)
  BY <1>2, FinalEnds
<1> QED BY <1>3 DEF RunModuleTag, start, entities, tags

LEMMA TokenOver ==
  ASSUME NEW q, NEW m, IsMoment(m), NEW k, Held(q, k, FALSE, FALSE)
  PROVE  Over(m, RunToken(q, m), k)
<1> DEFINE start == MidRun(q, m)
           keys == ByOwner("authority", {"token"}, RunCryptoKey, start)
<1> HIDE DEF start, keys
<1>0. Mid(m, start, k, FALSE, FALSE)
  BY RunStarts DEF start
<1>1. Mid(m, keys, k, TRUE, FALSE)
  BY <1>0, ByCryptoKey DEF keys, Grouped
<1>2. Over(m, Final("tokens", keys), k)
  BY <1>1, FinalEnds
<1> QED BY <1>2 DEF RunToken, start, keys

LEMMA DomainEntryOver ==
  ASSUME NEW q, NEW m, IsMoment(m), NEW k, Held(q, k, FALSE, FALSE)
  PROVE  Over(m, RunDomainEntry(q, m), k)
<1> DEFINE start == MidRun(q, m)
           env == ByEnvironment(start)
<1> HIDE DEF start, env
<1>0. Mid(m, start, k, FALSE, FALSE)
  BY RunStarts DEF start
<1>1. Mid(m, env, k, FALSE, TRUE)
  BY <1>0, ByEnvironmentRuns DEF env, Grouped
<1>2. Over(m, Final("domain_entries", env), k)
  BY <1>1, FinalEnds
<1> QED BY <1>2 DEF RunDomainEntry, start, env

LEMMA DomainEntryEnds ==
  ASSUME NEW q, NEW m, IsMoment(m)
  PROVE  Ends(m, RunDomainEntry(q, m))
BY AnyHeld, DomainEntryOver DEF Over

LEMMA ByEntryRuns ==
  ASSUME NEW m0, NEW s, NEW k, NEW e, Mid(m0, s, k, FALSE, e), NEW type
  PROVE  Mid(m0, ByEntry(type, s), k, TRUE, e)
<1> DEFINE r == RunDomainEntry(OwnedBy(s.q.subs["entries"][1], {type}, s.q.ids), s.m)
           q == WithSub(s.q, "entries", <<Disowned(r.q)>>)
           ids == saveIDs(q).ids \cup Owners(r.rows)
<1>1. Progress(m0, s) /\ Held(s.q, k, FALSE, e) /\ IsMoment(s.m)
  BY DEF Mid, Progress, Reports
<1>2. Ends(s.m, r)
  BY <1>1, DomainEntryEnds
<1>3. ByEntry(type, s) = s \/ (s.err = "none" /\ ByEntry(type, s) = JoinByEntry(s, r))
  BY DEF ByEntry, Skips
<1>4. JoinByEntry(s, r) = IF r.err # "none" THEN Fails(s, restoreEnvIDs(q), r)
                          ELSE GoesOn(s, WithIDs(saveIDs(q), ids), r.m)
  BY DEF JoinByEntry, GoesOn, WithIDs, WithSub
<1>5. Held(q, k, FALSE, e)
  BY <1>1, WithSubHeld DEF Grouped
<1> HIDE DEF r, q, ids
<1>6. ASSUME s.err = "none" PROVE Mid(m0, JoinByEntry(s, r), k, TRUE, e)
  <2>1. CASE r.err # "none"
    <3>1. Held(restoreEnvIDs(q), k, FALSE, FALSE)
      BY <1>5, RestoreEnvIDsHeld
    <3> QED BY <1>1, <1>2, <1>4, <1>6, <2>1, <3>1, FailsSo
  <2>2. CASE r.err = "none"
    <3>1. Held(WithIDs(saveIDs(q), ids), k, TRUE, e)
      BY <1>5, SaveIDsHeld, WithIDsHeld
    <3> QED BY <1>1, <1>2, <1>4, <1>6, <2>2, <3>1, GoesOnSo
  <2> QED BY <2>1, <2>2
<1>7. Mid(m0, s, k, TRUE, e)
  BY DEF Mid, Held
<1> QED BY <1>3, <1>6, <1>7

LEMMA DomainTripleOver ==
  ASSUME NEW q, NEW m, IsMoment(m), NEW k, Held(q, k, FALSE, FALSE), NEW tbl, NEW type
  PROVE  Over(m, RunDomainTriple(tbl, type, q, m), k)
<1> DEFINE start == MidRun(q, m)
           env == ByEnvironment(start)
           entries == ByEntry(type, env)
<1> HIDE DEF start, env, entries
<1>0. Mid(m, start, k, FALSE, FALSE)
  BY RunStarts DEF start
<1>1. Mid(m, env, k, FALSE, TRUE)
  BY <1>0, ByEnvironmentRuns DEF env
<1>2. Mid(m, entries, k, TRUE, TRUE)
  BY <1>1, ByEntryRuns DEF entries
<1>3. Over(m, Final(tbl, entries), k)
  BY <1>2, FinalEnds
<1> QED BY <1>3 DEF RunDomainTriple, start, env, entries
-----------------------------------------------------------------------------
(* Groups: induction over the members. *)

RunsEnd(m0, n, run) == \A i \in 1..n, k \in Nat : Ends([m0 EXCEPT !.next = k], run[i][k])

\* What the i-th member may be afterwards.
Choice(members, run, i) == {members[i]} \cup {run[i][k].q : k \in Nat}
AnyChoice(members, run, n) == UNION {Choice(members, run, i) : i \in 1..n}
Found(m0) == (SUBSET (m0.before \cup m0.after)) \ {{}}

IsGroupRun(g) == g = [members |-> g.members, m |-> g.m, err |-> g.err, results |-> g.results]

\* A group after its first i members.
Gathers(m0, members, run, n, i, g) ==
  /\ IsGroupRun(g) /\ Reports(m0, g.m, g.err) /\ g.err # "no match"
  /\ g.members \in Seq(AnyChoice(members, run, n)) /\ Len(g.members) = i
  /\ \A j \in 1..i : g.members[j] \in Choice(members, run, j)
  /\ g.results \in Seq(Found(m0))

LEMMA ReportsAlike ==
  ASSUME NEW m0, NEW m, NEW e, Reports(m0, m, e), NEW f \in Errors,
         e = "db error" <=> f = "db error"
  PROVE  Reports(m0, m, f)
BY Zenon DEF Reports

LEMMA OneMore ==
  ASSUME NEW C, NEW p \in Seq(C), NEW x \in C, NEW i \in Nat, Len(p) = i
  PROVE  /\ Append(p, x) \in Seq(C) /\ Len(Append(p, x)) = i + 1
         /\ Append(p, x)[i + 1] = x /\ \A j \in 1..i : Append(p, x)[j] = p[j]
OBVIOUS

LEMMA AfterGathers ==
  ASSUME NEW m0, NEW members, NEW run, NEW n \in Nat, NEW i \in Nat, i + 1 \in 1..n,
         NEW g, Gathers(m0, members, run, n, i, g), g.err = "none",
         NEW r, Ends(g.m, r), r.q \in Choice(members, run, i + 1)
  PROVE  Gathers(m0, members, run, n, i + 1, After(g, r))
<1> DEFINE h == After(g, r)
<1>1. /\ IsGroupRun(h) /\ h.members = Append(g.members, r.q) /\ h.m = r.m
      /\ h.err = (IF r.err = "db error" THEN r.err ELSE "none")
      /\ h.results = (IF r.err = "none" THEN Append(g.results, r.rows) ELSE g.results)
  BY DEF After, IsGroupRun
<1> HIDE DEF h
<1>2. Reports(m0, h.m, h.err)
  <2>1. Reports(m0, r.m, r.err)
    BY ReportsMore DEF Gathers, Ends
  <2>2. h.err \in Errors /\ (r.err = "db error" <=> h.err = "db error")
    BY <1>1 DEF Errors
  <2> QED BY <1>1, <2>1, <2>2, ReportsAlike
<1>3. h.err # "no match"
  BY <1>1
<1>4. r.q \in AnyChoice(members, run, n)
  BY DEF AnyChoice
<1>5. /\ h.members \in Seq(AnyChoice(members, run, n)) /\ Len(h.members) = i + 1
      /\ h.members[i + 1] = r.q /\ \A j \in 1..i : h.members[j] = g.members[j]
  <2>1. PICK C : C = AnyChoice(members, run, n)
    OBVIOUS
  <2>2. PICK p \in Seq(C) : p = g.members /\ Len(p) = i
    BY <2>1 DEF Gathers
  <2>3. PICK y \in C : y = r.q
    BY <1>4, <2>1
  <2>4. /\ Append(p, y) \in Seq(C) /\ Len(Append(p, y)) = i + 1
        /\ Append(p, y)[i + 1] = y /\ \A j \in 1..i : Append(p, y)[j] = p[j]
    BY <2>2, OneMore
  <2> QED BY <1>1, <2>1, <2>2, <2>3, <2>4
<1>6. \A j \in 1..(i + 1) : h.members[j] \in Choice(members, run, j)
  <2> TAKE j \in 1..(i + 1)
  <2>1. j = i + 1 \/ j \in 1..i
    OBVIOUS
  <2> QED BY <1>5, <2>1 DEF Gathers
<1>7. h.results \in Seq(Found(m0))
  <2>1. g.m.before = m0.before /\ g.m.after = m0.after
    BY DEF Gathers, Reports, IsMoment
  <2>2. r.err = "none" => r.rows \in Found(m0)
    BY <2>1 DEF Ends, Found
  <2>3. g.results \in Seq(Found(m0))
    BY DEF Gathers
  <2>4. r.err = "none" => Append(g.results, r.rows) \in Seq(Found(m0))
    BY <2>2, <2>3
  <2> QED BY <1>1, <2>3, <2>4
<1>8. Gathers(m0, members, run, n, i + 1, h)
  BY <1>1, <1>2, <1>3, <1>5, <1>6, <1>7 DEF Gathers
<1> QED BY <1>8 DEF h

LeftOut(g, x) == [g EXCEPT !.members = Append(@, x)]

LEMMA LeftOutGathers ==
  ASSUME NEW m0, NEW members, NEW run, NEW n \in Nat, NEW i \in Nat, i + 1 \in 1..n,
         NEW g, Gathers(m0, members, run, n, i, g),
         NEW x, x \in Choice(members, run, i + 1)
  PROVE  Gathers(m0, members, run, n, i + 1, LeftOut(g, x))
<1> DEFINE h == LeftOut(g, x)
<1>1. /\ IsGroupRun(h) /\ h.members = Append(g.members, x) /\ h.m = g.m
      /\ h.err = g.err /\ h.results = g.results
  <2>1. PICK a, b, c, d : g = [members |-> a, m |-> b, err |-> c, results |-> d]
    BY DEF Gathers, IsGroupRun
  <2>2. PICK z : z = Append(g.members, x)
    OBVIOUS
  <2>3. h = [g EXCEPT !.members = z]
    BY <2>2 DEF LeftOut
  <2> HIDE DEF h
  <2>4. h = [members |-> z, m |-> b, err |-> c, results |-> d]
    BY <2>1, <2>3
  <2> QED BY <2>1, <2>2, <2>4 DEF IsGroupRun
<1> HIDE DEF h
<1>4. x \in AnyChoice(members, run, n)
  BY DEF AnyChoice
<1>5. /\ h.members \in Seq(AnyChoice(members, run, n)) /\ Len(h.members) = i + 1
      /\ h.members[i + 1] = x /\ \A j \in 1..i : h.members[j] = g.members[j]
  <2>1. PICK C : C = AnyChoice(members, run, n)
    OBVIOUS
  <2>2. PICK p \in Seq(C) : p = g.members /\ Len(p) = i
    BY <2>1 DEF Gathers
  <2>3. PICK y \in C : y = x
    BY <1>4, <2>1
  <2>4. /\ Append(p, y) \in Seq(C) /\ Len(Append(p, y)) = i + 1
        /\ Append(p, y)[i + 1] = y /\ \A j \in 1..i : Append(p, y)[j] = p[j]
    BY <2>2, OneMore
  <2> QED BY <1>1, <2>1, <2>2, <2>3, <2>4
<1>6. \A j \in 1..(i + 1) : h.members[j] \in Choice(members, run, j)
  <2> TAKE j \in 1..(i + 1)
  <2>1. j = i + 1 \/ j \in 1..i
    OBVIOUS
  <2> QED BY <1>5, <2>1 DEF Gathers
<1>8. Gathers(m0, members, run, n, i + 1, h)
  BY <1>1, <1>5, <1>6 DEF Gathers
<1> QED BY <1>8 DEF h

LEMMA NextGathers ==
  ASSUME NEW m0, NEW members, NEW run, NEW n \in Nat, RunsEnd(m0, n, run),
         NEW i \in Nat, i + 1 \in 1..n, NEW g, Gathers(m0, members, run, n, i, g)
  PROVE  Gathers(m0, members, run, n, i + 1, NextMember(g, members[i + 1], run, i + 1))
<1>1. CASE g.err = "none"
  <2>1. PICK k \in Nat : k = g.m.next
    BY DEF Gathers, Reports, IsMoment
  <2>2. g.m = [m0 EXCEPT !.next = k]
    BY <2>1 DEF Gathers, Reports
  <2>3. Ends(g.m, run[i + 1][k])
    BY <2>2 DEF RunsEnd
  <2>4. run[i + 1][k].q \in Choice(members, run, i + 1)
    BY DEF Choice
  <2>5. Gathers(m0, members, run, n, i + 1, After(g, run[i + 1][k]))
    BY <1>1, <2>3, <2>4, AfterGathers
  <2> QED BY <1>1, <2>1, <2>5 DEF NextMember
<1>2. CASE g.err # "none"
  <2>1. members[i + 1] \in Choice(members, run, i + 1)
    BY DEF Choice
  <2>2. Gathers(m0, members, run, n, i + 1, LeftOut(g, members[i + 1]))
    BY <2>1, LeftOutGathers
  <2> QED BY <1>2, <2>2 DEF NextMember, LeftOut
<1> QED BY <1>1, <1>2

\* The function RunGroup is defined with.
NoMember(m) == [members |-> <<>>, m |-> m, err |-> "none", results |-> <<>>]
IsFold(f, members, run, m, n) ==
  f = [i \in 0..n |-> IF i = 0 THEN NoMember(m) ELSE NextMember(f[i - 1], members[i], run, i)]

LEMMA FoldExists ==
  ASSUME NEW members, NEW run, NEW m, NEW n \in Nat
  PROVE  \E f : IsFold(f, members, run, m, n)
<1> DEFINE S == {k \in Nat : \E f : IsFold(f, members, run, m, k)}
<1>1. 0 \in S
  <2>1. PICK f : f = [i \in 0..0 |-> NoMember(m)]
    OBVIOUS
  <2>2. \A i \in 0..0 : i = 0
    OBVIOUS
  <2>3. f = [i \in 0..0 |-> IF i = 0 THEN NoMember(m) ELSE NextMember(f[i - 1], members[i], run, i)]
    BY <2>1, <2>2
  <2> QED BY <2>3 DEF IsFold
<1>2. ASSUME NEW k \in Nat, k \in S PROVE k + 1 \in S
  <2>1. PICK f : IsFold(f, members, run, m, k)
    BY <1>2
  <2> DEFINE g == [i \in 0..(k + 1) |-> IF i = 0 THEN NoMember(m)
                                        ELSE NextMember(f[i - 1], members[i], run, i)]
  <2>2. ASSUME NEW i \in 0..(k + 1), i # 0 PROVE g[i - 1] = f[i - 1]
    <3>1. i - 1 \in 0..k /\ i - 1 \in 0..(k + 1)
      BY <2>2
    <3>2. PICK j \in 0..k : j = i - 1
      BY <3>1
    <3> HIDE DEF g
    <3>3. f[j] = IF j = 0 THEN NoMember(m) ELSE NextMember(f[j - 1], members[j], run, j)
      BY <2>1 DEF IsFold
    <3>4. g[j] = IF j = 0 THEN NoMember(m) ELSE NextMember(f[j - 1], members[j], run, j)
      BY <3>1, <3>2 DEF g
    <3> QED BY <3>2, <3>3, <3>4
  <2>3. g = [i \in 0..(k + 1) |-> IF i = 0 THEN NoMember(m)
                                  ELSE NextMember(g[i - 1], members[i], run, i)]
    <3> HIDE DEF g
    <3>1. \A i \in 0..(k + 1) :
            (IF i = 0 THEN NoMember(m) ELSE NextMember(f[i - 1], members[i], run, i))
            = (IF i = 0 THEN NoMember(m) ELSE NextMember(g[i - 1], members[i], run, i))
      BY <2>2
    <3> QED BY <3>1 DEF g
  <2>4. IsFold(g, members, run, m, k + 1)
    BY <2>3 DEF IsFold
  <2> QED BY <2>4
<1> HIDE DEF S
<1>3. Nat \subseteq S
  BY <1>1, <1>2, AllNumbers
<1> QED BY <1>3 DEF S

LEMMA FoldGathers ==
  ASSUME NEW m0, IsMoment(m0), NEW members, NEW run, NEW n \in Nat, RunsEnd(m0, n, run),
         NEW f, IsFold(f, members, run, m0, n)
  PROVE  Gathers(m0, members, run, n, n, f[n])
<1> DEFINE S == {i \in Nat : i <= n => Gathers(m0, members, run, n, i, f[i])}
<1>0. \A i \in 0..n : f[i] = IF i = 0 THEN NoMember(m0)
                            ELSE NextMember(f[i - 1], members[i], run, i)
  BY DEF IsFold
<1>1. 0 \in S
  <2>1. 0 \in 0..n
    OBVIOUS
  <2>2. f[0] = NoMember(m0)
    BY <1>0, <2>1
  <2>3. Reports(m0, m0, "none")
    BY NothingYet
  <2>4. <<>> \in Seq(AnyChoice(members, run, n)) /\ <<>> \in Seq(Found(m0)) /\ Len(<<>>) = 0
    OBVIOUS
  <2>5. \A j \in 1..0 : FALSE
    OBVIOUS
  <2>6. Gathers(m0, members, run, n, 0, NoMember(m0))
    <3>1. PICK g : g = NoMember(m0)
      OBVIOUS
    <3>2. IsGroupRun(g) /\ g.members = <<>> /\ g.m = m0 /\ g.err = "none" /\ g.results = <<>>
      BY <3>1 DEF NoMember, IsGroupRun
    <3>3. Gathers(m0, members, run, n, 0, g)
      BY <2>3, <2>4, <2>5, <3>2 DEF Gathers
    <3> QED BY <3>1, <3>3
  <2> QED BY <2>2, <2>6
<1>2. ASSUME NEW i \in Nat, i \in S PROVE i + 1 \in S
  <2> SUFFICES ASSUME i + 1 <= n PROVE Gathers(m0, members, run, n, i + 1, f[i + 1])
    OBVIOUS
  <2>1. i <= n /\ i + 1 \in 1..n /\ i + 1 \in 0..n /\ i + 1 # 0 /\ (i + 1) - 1 = i
    OBVIOUS
  <2>2. Gathers(m0, members, run, n, i, f[i])
    BY <1>2, <2>1
  <2> HIDE DEF S
  <2>3. Gathers(m0, members, run, n, i + 1, NextMember(f[i], members[i + 1], run, i + 1))
    BY <2>1, <2>2, NextGathers
  <2>4. PICK j \in 0..n : j = i + 1
    BY <2>1
  <2>5. f[j] = NextMember(f[i], members[j], run, j)
    BY <1>0, <2>1, <2>4
  <2> QED BY <2>3, <2>4, <2>5
<1> HIDE DEF S
<1>3. Nat \subseteq S
  BY <1>1, <1>2, AllNumbers
<1> QED BY <1>3 DEF S

\* What RunGroup returns.
Gathered(m0, members, run, n, g) ==
  /\ Reports(m0, g.m, g.err) /\ (g.err = "none" => g.results # <<>>)
  /\ DOMAIN g.members = 1..n /\ Len(g.members) = n
  /\ \A j \in 1..n : g.members[j] \in Choice(members, run, j)
  /\ g.results \in Seq(Found(m0))

LEMMA GroupEnds ==
  ASSUME NEW m0, IsMoment(m0), NEW members, NEW run, NEW n \in Nat, Len(members) = n,
         RunsEnd(m0, n, run)
  PROVE  Gathered(m0, members, run, n, RunGroup(members, run, m0))
<1> DEFINE f == CHOOSE f : IsFold(f, members, run, m0, n)
           g == f[n]
<1>1. IsFold(f, members, run, m0, n)
  BY FoldExists
<1>2. RunGroup(members, run, m0) = GroupResult(f[n])
  BY DEF RunGroup, IsFold, NoMember
<1> HIDE DEF f
<1>3. Gathers(m0, members, run, n, n, g)
  BY <1>1, FoldGathers
<1> HIDE DEF g
<1>4. PICK h : h = GroupResult(g)
  OBVIOUS
<1>5. /\ h.members = g.members /\ h.m = g.m /\ h.results = g.results
      /\ h.err = IF g.err = "none" /\ g.results = <<>> THEN "no match" ELSE g.err
  <2>1. PICK a, b, c, d : g = [members |-> a, m |-> b, err |-> c, results |-> d]
    BY <1>3 DEF Gathers, IsGroupRun
  <2> QED BY <1>4, <2>1 DEF GroupResult
<1>6. Reports(m0, h.m, h.err)
  <2>1. Reports(m0, g.m, g.err)
    BY <1>3 DEF Gathers
  <2>2. h.err \in Errors /\ (g.err = "db error" <=> h.err = "db error")
    BY <1>5, <2>1 DEF Reports, Errors
  <2> QED BY <1>5, <2>1, <2>2, ReportsAlike
<1>7. h.err = "none" => h.results # <<>>
  BY <1>5
<1>8. DOMAIN h.members = 1..n /\ Len(h.members) = n
  <2>1. PICK C : C = AnyChoice(members, run, n)
    OBVIOUS
  <2>2. PICK p \in Seq(C) : p = g.members /\ Len(p) = n
    BY <1>3, <2>1 DEF Gathers
  <2>3. DOMAIN p = 1..n
    BY <2>2
  <2> QED BY <1>5, <2>2, <2>3, Zenon
<1>9. Gathered(m0, members, run, n, h)
  BY <1>3, <1>5, <1>6, <1>7, <1>8 DEF Gathered, Gathers
<1> QED BY <1>2, <1>4, <1>9 DEF g
-----------------------------------------------------------------------------
(* What the members of a group become. *)

WithoutOwners(x) == [x EXCEPT !.owners = {}]

LEMMA WithoutOwnersShaped ==
  ASSUME NEW x, Shaped(x)
  PROVE  Shaped(WithoutOwners(x))
<1>1. IsObject(WithoutOwners(x)) /\ WithoutOwners(x).subs = x.subs
  BY DEF WithoutOwners, Shaped, IsObject
<1> QED BY <1>1, SameSubs

LEMMA OwnedByShaped ==
  ASSUME NEW x, Shaped(x), NEW types, NEW ids
  PROVE  Shaped(OwnedBy(x, types, ids))
<1>1. PICK y : y = [x EXCEPT !.types = x.types \cup types]
  OBVIOUS
<1>2. IsObject(y) /\ y.subs = x.subs
  BY <1>1 DEF Shaped, IsObject
<1>3. OwnedBy(x, types, ids) = [y EXCEPT !.owners = y.owners \cup ids]
  BY <1>1 DEF OwnedBy
<1>4. IsObject(OwnedBy(x, types, ids)) /\ OwnedBy(x, types, ids).subs = x.subs
  BY <1>2, <1>3 DEF IsObject
<1> QED BY <1>4, SameSubs

LEMMA WithGroupHeld ==
  ASSUME NEW q, NEW k, NEW i, NEW e, Held(q, k, i, e), k # "any",
         NEW name, name \in DOMAIN q.subs,
         NEW n \in Nat, NEW new, Len(new) = n, DOMAIN new = 1..n,
         k = "deep" => \A j \in 1..n : Shaped(new[j])
  PROVE  Held(WithSub(q, name, new), k, i, e)
<1> DEFINE p == WithSub(q, name, new)
<1>1. Shaped(q) /\ IsObject(q)
  BY DEF Held, Shaped
<1>4. p = WithSub(q, name, new)
  OBVIOUS
<1> HIDE DEF p
<1>5. p.subs = [q.subs EXCEPT ![name] = new] /\ p.saved = q.saved /\ p.envSaved = q.envSaved
  BY <1>1, <1>4 DEF IsObject, WithSub
<1>6. DOMAIN p.subs = DOMAIN q.subs /\ p.subs = [x \in DOMAIN p.subs |-> p.subs[x]]
  BY <1>5
<1>7. IsObject(p)
  BY <1>1, <1>4, <1>6 DEF IsObject, WithSub
<1>8. p.subs[name] = new /\ \A x \in DOMAIN q.subs : x # name => p.subs[x] = q.subs[x]
  BY <1>5
<1>9. HasGroups(p)
  BY <1>1, <1>6, <1>8 DEF Shaped, HasGroups, IsGroup
<1>10. ASSUME k = "deep" PROVE Deep(p)
  <2>1. Deep(q)
    BY <1>10 DEF Held
  <2> SUFFICES ASSUME NEW x \in Grouped, NEW j \in DOMAIN Sub(p, x)
               PROVE  Shaped(p.subs[x][j])
    BY DEF Deep
  <2>2. x \in DOMAIN q.subs /\ Sub(p, x) = p.subs[x] /\ Sub(q, x) = q.subs[x]
    BY <1>6 DEF Sub
  <2>3. CASE x = name
    <3>1. j \in 1..n
      BY <1>8, <2>2, <2>3
    <3> QED BY <1>8, <1>10, <2>3, <3>1
  <2>4. CASE x # name
    BY <1>8, <2>1, <2>2, <2>4 DEF Deep
  <2> QED BY <2>3, <2>4
<1>11. Held(p, k, i, e)
  BY <1>5, <1>7, <1>9, <1>10 DEF Held, Shaped
<1> QED BY <1>11 DEF p

LEMMA WithMembersHeld ==
  ASSUME NEW q, NEW k, NEW i, NEW e, Held(q, k, i, e), k # "any",
         NEW name, name \in DOMAIN q.subs,
         NEW n \in Nat, NEW ms, DOMAIN ms = 1..n,
         k = "deep" => \A j \in 1..n : Shaped(ms[j])
  PROVE  Held(WithMembers(q, name, ms), k, i, e)
<1> DEFINE new == [j \in 1..n |-> WithoutOwners(ms[j])]
<1>1. Len(new) = n /\ DOMAIN new = 1..n
  OBVIOUS
<1>2. k = "deep" => \A j \in 1..n : Shaped(new[j])
  BY WithoutOwnersShaped
<1>3. WithMembers(q, name, ms) = WithSub(q, name, new)
  BY DEF WithMembers, WithSub, WithoutOwners
<1> HIDE DEF new
<1> QED BY <1>1, <1>2, <1>3, WithGroupHeld

LEMMA ConjunctionReports ==
  ASSUME NEW m0, NEW g, Reports(m0, g.m, g.err), NEW type
  PROVE  Reports(m0, g.m, OwnerConjunction(type, g).err)
<1> DEFINE o == OwnerConjunction(type, g)
<1>1. o.err = g.err \/ (g.err = "none" /\ o.err = "no match")
  BY DEF OwnerConjunction
<1> HIDE DEF o
<1>2. o.err \in Errors /\ (g.err = "db error" <=> o.err = "db error")
  BY <1>1 DEF Reports, Errors
<1>3. Reports(m0, g.m, o.err)
  BY <1>2, ReportsAlike
<1> QED BY <1>3 DEF o

LEMMA GroupNarrows ==
  ASSUME NEW m0, NEW s, NEW k, NEW i, NEW e, Mid(m0, s, k, i, e), s.err = "none",
         NEW g, Reports(s.m, g.m, g.err), NEW type,
         NEW q, Held(q, k, i, e), NEW p, Held(p, k, FALSE, FALSE)
  PROVE  Mid(m0, NarrowByGroup(s, q, p, OwnerConjunction(type, g), g.m), k, TRUE, e)
<1> DEFINE o == OwnerConjunction(type, g)
           t == NarrowByGroup(s, q, p, o, g.m)
           w == WithIDs(saveIDs(q), o.ids)
<1>1. Progress(m0, s) /\ IsRun(s) /\ s.rows = {}
  BY DEF Mid, Progress
<1>2. Reports(m0, g.m, o.err)
  BY <1>1, ConjunctionReports, ReportsMore DEF Progress
<1>3. Held(w, k, TRUE, e)
  BY SaveIDsHeld, WithIDsHeld
<1>4. t = IF o.err # "none" THEN Fails(s, p, [m |-> g.m, err |-> o.err]) ELSE GoesOn(s, w, g.m)
  BY DEF NarrowByGroup, Fails, GoesOn, WithIDs
<1> HIDE DEF o, w, t
<1>5. CASE o.err # "none"
  <2>1. t = [q |-> p, m |-> g.m, err |-> o.err, rows |-> {}]
    <3>1. PICK r : r = [m |-> g.m, err |-> o.err]
      OBVIOUS
    <3>2. r.m = g.m /\ r.err = o.err
      BY <3>1
    <3>3. t = [q |-> p, m |-> r.m, err |-> r.err, rows |-> s.rows]
      BY <1>1, <1>4, <1>5, <3>1, FailsIs
    <3> QED BY <1>1, <3>2, <3>3
  <2>2. IsRun(t) /\ t.q = p /\ t.m = g.m /\ t.err = o.err /\ t.rows = {}
    BY <2>1 DEF IsRun
  <2>3. Held(p, k, TRUE, e)
    BY DEF Held
  <2>4. Mid(m0, t, k, TRUE, e)
    BY <1>2, <2>2, <2>3 DEF Mid, Progress
  <2> QED BY <2>4 DEF t, o
<1>6. CASE o.err = "none"
  <2>1. t = [q |-> w, m |-> g.m, err |-> "none", rows |-> {}]
    BY <1>1, <1>4, <1>6, GoesOnIs
  <2>2. IsRun(t) /\ t.q = w /\ t.m = g.m /\ t.err = "none" /\ t.rows = {}
    BY <2>1 DEF IsRun
  <2>4. Mid(m0, t, k, TRUE, e)
    BY <1>2, <1>3, <1>6, <2>2 DEF Mid, Progress
  <2> QED BY <2>4 DEF t, o
<1> QED BY <1>5, <1>6

(* A group run by its owner. *)

IsListOf(q, name, n) == name \in DOMAIN q.subs /\ DOMAIN q.subs[name] = 1..n
Members(q, name) == [j \in DOMAIN q.subs[name] |-> OwnedBy(q.subs[name][j], {}, q.ids)]

LEMMA GroupLists ==
  ASSUME NEW q, NEW k, NEW i, NEW e, Held(q, k, i, e), k # "any",
         NEW name \in Grouped, Sub(q, name) # <<>>
  PROVE  \E n \in Nat : IsListOf(q, name, n)
<1>1. name \in DOMAIN q.subs
  BY DEF Sub
<1>2. Len(q.subs[name]) \in Nat /\ DOMAIN q.subs[name] = 1..Len(q.subs[name])
  BY <1>1 DEF Held, Shaped, HasGroups, IsGroup
<1> QED BY <1>1, <1>2 DEF IsListOf

LEMMA MembersListed ==
  ASSUME NEW q, NEW name, NEW n \in Nat, IsListOf(q, name, n)
  PROVE  Len(Members(q, name)) = n /\ DOMAIN Members(q, name) = 1..n
<1>1. PICK f : f = [j \in 1..n |-> OwnedBy(q.subs[name][j], {}, q.ids)]
  OBVIOUS
<1>2. Len(f) = n /\ DOMAIN f = 1..n
  BY <1>1
<1>3. Members(q, name) = f
  BY <1>1 DEF Members, IsListOf
<1> QED BY <1>2, <1>3

LEMMA MembersShaped ==
  ASSUME NEW q, NEW k, NEW i, NEW e, Held(q, k, i, e), k = "deep",
         NEW name \in Grouped, NEW n \in Nat, IsListOf(q, name, n), NEW j \in 1..n
  PROVE  Shaped(Members(q, name)[j])
<1>1. Shaped(q.subs[name][j])
  BY DEF Held, Deep, Sub, IsListOf
<1>2. Members(q, name)[j] = OwnedBy(q.subs[name][j], {}, q.ids)
  BY DEF Members, IsListOf
<1> QED BY <1>1, <1>2, OwnedByShaped

LEMMA GroupHolds ==
  ASSUME NEW m0, NEW s, NEW k, NEW i, NEW e, Mid(m0, s, k, i, e), k # "any",
         NEW name \in Grouped, NEW n \in Nat, IsListOf(s.q, name, n),
         NEW run, RunsEnd(s.m, n, run),
         k = "deep" => \A j \in 1..n, t \in Nat : Shaped(run[j][t].q),
         NEW g, g = RunGroup(Members(s.q, name), run, s.m)
  PROVE  Reports(s.m, g.m, g.err) /\ Held(WithMembers(s.q, name, g.members), k, i, e)
<1> DEFINE ms == Members(s.q, name)
<1>1. IsMoment(s.m) /\ Held(s.q, k, i, e)
  BY DEF Mid, Progress, Reports
<1>2. Len(ms) = n
  BY MembersListed
<1>3. k = "deep" => \A j \in 1..n : Shaped(ms[j])
  BY <1>1, MembersShaped
<1> HIDE DEF ms
<1>4. Gathered(s.m, ms, run, n, g)
  BY <1>1, <1>2, GroupEnds DEF ms
<1>5. ASSUME k = "deep", NEW j \in 1..n PROVE Shaped(g.members[j])
  <2>1. g.members[j] = ms[j] \/ \E t \in Nat : g.members[j] = run[j][t].q
    BY <1>4 DEF Gathered, Choice
  <2> QED BY <1>3, <1>5, <2>1
<1>6. DOMAIN g.members = 1..n /\ Reports(s.m, g.m, g.err)
  BY <1>4 DEF Gathered
<1>7. name \in DOMAIN s.q.subs
  BY DEF IsListOf
<1>8. Held(WithMembers(s.q, name, g.members), k, i, e)
  BY <1>1, <1>5, <1>6, <1>7, WithMembersHeld
<1> QED BY <1>6, <1>8

LEMMA GroupMeasurementRestore ==
  ASSUME NEW m0, NEW s, NEW k, NEW i, NEW e, Mid(m0, s, k, i, e),
         k # "any", NEW name \in Grouped, NEW type
  PROVE  Mid(m0, ByGroup(name, type, RunMeasurement, Restore, s), k, TRUE, e)
<1> DEFINE ms == Members(s.q, name)
           run == Runs(ms, RunMeasurement, s.m)
           g == RunGroup(ms, run, s.m)
           q == WithMembers(s.q, name, g.members)
           t == ByGroup(name, type, RunMeasurement, Restore, s)
<1>1. t = s \/ ( /\ s.err = "none" /\ Sub(s.q, name) # <<>>
                /\ t = NarrowByGroup(s, q, Restore(q), OwnerConjunction(type, g), g.m))
  BY DEF ByGroup, Skips, Members
<1>2. Mid(m0, s, k, TRUE, e)
  BY DEF Mid, Held
<1> HIDE DEF t
<1> SUFFICES ASSUME s.err = "none", Sub(s.q, name) # <<>>
             PROVE  Mid(m0, NarrowByGroup(s, q, Restore(q), OwnerConjunction(type, g), g.m), k, TRUE, e)
  BY <1>1, <1>2 DEF t
<1>3. Held(s.q, k, i, e) /\ IsMoment(s.m)
  BY DEF Mid, Progress, Reports
<1>4. PICK n \in Nat : IsListOf(s.q, name, n)
  BY <1>3, GroupLists
<1> HIDE DEF g, q
<1>5. Reports(s.m, g.m, g.err) /\ Held(q, k, i, e)
  <2>1. DOMAIN ms = 1..n
    BY <1>4, MembersListed
  <2>2. \A j \in 1..n : k = "deep" => Shaped(ms[j])
    BY <1>3, <1>4, MembersShaped
  <2> HIDE DEF ms
  <2>3. ASSUME NEW j \in 1..n, NEW n1 \in Nat
        PROVE  /\ Ends([s.m EXCEPT !.next = n1], run[j][n1])
               /\ k = "deep" => Shaped(run[j][n1].q)
    <3>1. run[j][n1] = RunMeasurement(ms[j], [s.m EXCEPT !.next = n1])
      BY <2>1 DEF Runs
    <3>2. IsMoment([s.m EXCEPT !.next = n1])
      BY <1>3, MomentAt
    <3>3. Ends([s.m EXCEPT !.next = n1], RunMeasurement(ms[j], [s.m EXCEPT !.next = n1]))
      BY <3>2, MeasurementEnds
    <3>4. ASSUME k = "deep" PROVE Shaped(run[j][n1].q)
      <4>1. Held(ms[j], "shape", FALSE, FALSE)
        BY <2>2, <3>4 DEF Held
      <4>2. Over([s.m EXCEPT !.next = n1], RunMeasurement(ms[j], [s.m EXCEPT !.next = n1]), "shape")
        BY <3>2, <4>1, MeasurementOver
      <4> QED BY <3>1, <4>2 DEF Over, Held
    <3> QED BY <3>1, <3>3, <3>4
  <2> HIDE DEF run
  <2>4. RunsEnd(s.m, n, run) /\ (k = "deep" => \A j \in 1..n, n1 \in Nat : Shaped(run[j][n1].q))
    BY <2>3 DEF RunsEnd
  <2> QED BY <1>4, <2>4, GroupHolds DEF g, q, ms
<1>6. Held(Restore(q), k, FALSE, FALSE)
  BY <1>5, RestoreHeld
<1> QED BY <1>5, <1>6, GroupNarrows

LEMMA GroupMeasurementRestoreEnvIDs ==
  ASSUME NEW m0, NEW s, NEW k, NEW e, Mid(m0, s, k, FALSE, e),
         k # "any", NEW name \in Grouped, NEW type
  PROVE  Mid(m0, ByGroup(name, type, RunMeasurement, restoreEnvIDs, s), k, TRUE, e)
<1> DEFINE ms == Members(s.q, name)
           run == Runs(ms, RunMeasurement, s.m)
           g == RunGroup(ms, run, s.m)
           q == WithMembers(s.q, name, g.members)
           t == ByGroup(name, type, RunMeasurement, restoreEnvIDs, s)
<1>1. t = s \/ ( /\ s.err = "none" /\ Sub(s.q, name) # <<>>
                /\ t = NarrowByGroup(s, q, restoreEnvIDs(q), OwnerConjunction(type, g), g.m))
  BY DEF ByGroup, Skips, Members
<1>2. Mid(m0, s, k, TRUE, e)
  BY DEF Mid, Held
<1> HIDE DEF t
<1> SUFFICES ASSUME s.err = "none", Sub(s.q, name) # <<>>
             PROVE  Mid(m0, NarrowByGroup(s, q, restoreEnvIDs(q), OwnerConjunction(type, g), g.m), k, TRUE, e)
  BY <1>1, <1>2 DEF t
<1>3. Held(s.q, k, FALSE, e) /\ IsMoment(s.m)
  BY DEF Mid, Progress, Reports
<1>4. PICK n \in Nat : IsListOf(s.q, name, n)
  BY <1>3, GroupLists
<1> HIDE DEF g, q
<1>5. Reports(s.m, g.m, g.err) /\ Held(q, k, FALSE, e)
  <2>1. DOMAIN ms = 1..n
    BY <1>4, MembersListed
  <2>2. \A j \in 1..n : k = "deep" => Shaped(ms[j])
    BY <1>3, <1>4, MembersShaped
  <2> HIDE DEF ms
  <2>3. ASSUME NEW j \in 1..n, NEW n1 \in Nat
        PROVE  /\ Ends([s.m EXCEPT !.next = n1], run[j][n1])
               /\ k = "deep" => Shaped(run[j][n1].q)
    <3>1. run[j][n1] = RunMeasurement(ms[j], [s.m EXCEPT !.next = n1])
      BY <2>1 DEF Runs
    <3>2. IsMoment([s.m EXCEPT !.next = n1])
      BY <1>3, MomentAt
    <3>3. Ends([s.m EXCEPT !.next = n1], RunMeasurement(ms[j], [s.m EXCEPT !.next = n1]))
      BY <3>2, MeasurementEnds
    <3>4. ASSUME k = "deep" PROVE Shaped(run[j][n1].q)
      <4>1. Held(ms[j], "shape", FALSE, FALSE)
        BY <2>2, <3>4 DEF Held
      <4>2. Over([s.m EXCEPT !.next = n1], RunMeasurement(ms[j], [s.m EXCEPT !.next = n1]), "shape")
        BY <3>2, <4>1, MeasurementOver
      <4> QED BY <3>1, <4>2 DEF Over, Held
    <3> QED BY <3>1, <3>3, <3>4
  <2> HIDE DEF run
  <2>4. RunsEnd(s.m, n, run) /\ (k = "deep" => \A j \in 1..n, n1 \in Nat : Shaped(run[j][n1].q))
    BY <2>3 DEF RunsEnd
  <2> QED BY <1>4, <2>4, GroupHolds DEF g, q, ms
<1>6. Held(restoreEnvIDs(q), k, FALSE, FALSE)
  BY <1>5, RestoreEnvIDsHeld
<1> QED BY <1>5, <1>6, GroupNarrows

LEMMA GroupMeasurementNoRecovery ==
  ASSUME NEW m0, NEW s, NEW k, NEW i, NEW e, Mid(m0, s, k, i, e),
         k # "any", NEW name \in Grouped, NEW type,
         k = "deep" => ~i /\ ~e
  PROVE  Mid(m0, ByGroup(name, type, RunMeasurement, NoRecovery, s), k, TRUE, e)
<1> DEFINE ms == Members(s.q, name)
           run == Runs(ms, RunMeasurement, s.m)
           g == RunGroup(ms, run, s.m)
           q == WithMembers(s.q, name, g.members)
           t == ByGroup(name, type, RunMeasurement, NoRecovery, s)
<1>1. t = s \/ ( /\ s.err = "none" /\ Sub(s.q, name) # <<>>
                /\ t = NarrowByGroup(s, q, NoRecovery(q), OwnerConjunction(type, g), g.m))
  BY DEF ByGroup, Skips, Members
<1>2. Mid(m0, s, k, TRUE, e)
  BY DEF Mid, Held
<1> HIDE DEF t
<1> SUFFICES ASSUME s.err = "none", Sub(s.q, name) # <<>>
             PROVE  Mid(m0, NarrowByGroup(s, q, NoRecovery(q), OwnerConjunction(type, g), g.m), k, TRUE, e)
  BY <1>1, <1>2 DEF t
<1>3. Held(s.q, k, i, e) /\ IsMoment(s.m)
  BY DEF Mid, Progress, Reports
<1>4. PICK n \in Nat : IsListOf(s.q, name, n)
  BY <1>3, GroupLists
<1> HIDE DEF g, q
<1>5. Reports(s.m, g.m, g.err) /\ Held(q, k, i, e)
  <2>1. DOMAIN ms = 1..n
    BY <1>4, MembersListed
  <2>2. \A j \in 1..n : k = "deep" => Shaped(ms[j])
    BY <1>3, <1>4, MembersShaped
  <2> HIDE DEF ms
  <2>3. ASSUME NEW j \in 1..n, NEW n1 \in Nat
        PROVE  /\ Ends([s.m EXCEPT !.next = n1], run[j][n1])
               /\ k = "deep" => Shaped(run[j][n1].q)
    <3>1. run[j][n1] = RunMeasurement(ms[j], [s.m EXCEPT !.next = n1])
      BY <2>1 DEF Runs
    <3>2. IsMoment([s.m EXCEPT !.next = n1])
      BY <1>3, MomentAt
    <3>3. Ends([s.m EXCEPT !.next = n1], RunMeasurement(ms[j], [s.m EXCEPT !.next = n1]))
      BY <3>2, MeasurementEnds
    <3>4. ASSUME k = "deep" PROVE Shaped(run[j][n1].q)
      <4>1. Held(ms[j], "shape", FALSE, FALSE)
        BY <2>2, <3>4 DEF Held
      <4>2. Over([s.m EXCEPT !.next = n1], RunMeasurement(ms[j], [s.m EXCEPT !.next = n1]), "shape")
        BY <3>2, <4>1, MeasurementOver
      <4> QED BY <3>1, <4>2 DEF Over, Held
    <3> QED BY <3>1, <3>3, <3>4
  <2> HIDE DEF run
  <2>4. RunsEnd(s.m, n, run) /\ (k = "deep" => \A j \in 1..n, n1 \in Nat : Shaped(run[j][n1].q))
    BY <2>3 DEF RunsEnd
  <2> QED BY <1>4, <2>4, GroupHolds DEF g, q, ms
<1>6. Held(NoRecovery(q), k, FALSE, FALSE)
  BY <1>5 DEF Held, NoRecovery
<1> QED BY <1>5, <1>6, GroupNarrows

LEMMA GroupMeasurementRestoreIDs ==
  ASSUME NEW m0, NEW s, NEW k, NEW i, Mid(m0, s, k, i, FALSE),
         k # "any", NEW name \in Grouped, NEW type
  PROVE  Mid(m0, ByGroup(name, type, RunMeasurement, restoreIDs, s), k, TRUE, FALSE)
<1> DEFINE ms == Members(s.q, name)
           run == Runs(ms, RunMeasurement, s.m)
           g == RunGroup(ms, run, s.m)
           q == WithMembers(s.q, name, g.members)
           t == ByGroup(name, type, RunMeasurement, restoreIDs, s)
<1>1. t = s \/ ( /\ s.err = "none" /\ Sub(s.q, name) # <<>>
                /\ t = NarrowByGroup(s, q, restoreIDs(q), OwnerConjunction(type, g), g.m))
  BY DEF ByGroup, Skips, Members
<1>2. Mid(m0, s, k, TRUE, FALSE)
  BY DEF Mid, Held
<1> HIDE DEF t
<1> SUFFICES ASSUME s.err = "none", Sub(s.q, name) # <<>>
             PROVE  Mid(m0, NarrowByGroup(s, q, restoreIDs(q), OwnerConjunction(type, g), g.m), k, TRUE, FALSE)
  BY <1>1, <1>2 DEF t
<1>3. Held(s.q, k, i, FALSE) /\ IsMoment(s.m)
  BY DEF Mid, Progress, Reports
<1>4. PICK n \in Nat : IsListOf(s.q, name, n)
  BY <1>3, GroupLists
<1> HIDE DEF g, q
<1>5. Reports(s.m, g.m, g.err) /\ Held(q, k, i, FALSE)
  <2>1. DOMAIN ms = 1..n
    BY <1>4, MembersListed
  <2>2. \A j \in 1..n : k = "deep" => Shaped(ms[j])
    BY <1>3, <1>4, MembersShaped
  <2> HIDE DEF ms
  <2>3. ASSUME NEW j \in 1..n, NEW n1 \in Nat
        PROVE  /\ Ends([s.m EXCEPT !.next = n1], run[j][n1])
               /\ k = "deep" => Shaped(run[j][n1].q)
    <3>1. run[j][n1] = RunMeasurement(ms[j], [s.m EXCEPT !.next = n1])
      BY <2>1 DEF Runs
    <3>2. IsMoment([s.m EXCEPT !.next = n1])
      BY <1>3, MomentAt
    <3>3. Ends([s.m EXCEPT !.next = n1], RunMeasurement(ms[j], [s.m EXCEPT !.next = n1]))
      BY <3>2, MeasurementEnds
    <3>4. ASSUME k = "deep" PROVE Shaped(run[j][n1].q)
      <4>1. Held(ms[j], "shape", FALSE, FALSE)
        BY <2>2, <3>4 DEF Held
      <4>2. Over([s.m EXCEPT !.next = n1], RunMeasurement(ms[j], [s.m EXCEPT !.next = n1]), "shape")
        BY <3>2, <4>1, MeasurementOver
      <4> QED BY <3>1, <4>2 DEF Over, Held
    <3> QED BY <3>1, <3>3, <3>4
  <2> HIDE DEF run
  <2>4. RunsEnd(s.m, n, run) /\ (k = "deep" => \A j \in 1..n, n1 \in Nat : Shaped(run[j][n1].q))
    BY <2>3 DEF RunsEnd
  <2> QED BY <1>4, <2>4, GroupHolds DEF g, q, ms
<1>6. Held(restoreIDs(q), k, FALSE, FALSE)
  BY <1>5, RestoreIDsHeld
<1> QED BY <1>5, <1>6, GroupNarrows

-----------------------------------------------------------------------------
(* The runs of the queries with groups. *)

LEMMA TripleOver ==
  ASSUME NEW q, NEW m, IsMoment(m), NEW k, Held(q, k, FALSE, FALSE), k # "any", NEW tbl
  PROVE  Over(m, RunTriple(tbl, q, m), k)
<1> DEFINE start == MidRun(q, m)
           env == ByEnvironment(start)
           keys == ByOwner("cryptoKeys", {"key_triple"}, RunCryptoKey, env)
           auth == ByOwner("authorizedBy", {"key_triple_auth"}, RunCryptoKey, keys)
           measurements == ByGroup("measurements", "value_triple", RunMeasurement, Restore, auth)
<1> HIDE DEF start, env, keys, auth, measurements
<1>0. Mid(m, start, k, FALSE, FALSE)
  BY RunStarts DEF start
<1>1. Mid(m, env, k, FALSE, TRUE)
  BY <1>0, ByEnvironmentRuns DEF env, Grouped
<1>2. Mid(m, keys, k, TRUE, TRUE)
  BY <1>1, ByCryptoKey DEF keys, Grouped
<1>3. Mid(m, auth, k, TRUE, TRUE)
  BY <1>2, ByCryptoKey DEF auth, Grouped
<1>4. Mid(m, measurements, k, TRUE, TRUE)
  BY <1>3, GroupMeasurementRestore DEF measurements, Grouped
<1>5. Over(m, Final(tbl, measurements), k)
  BY <1>4, FinalEnds
<1> QED BY <1>5 DEF RunTriple, start, env, keys, auth, measurements

LEMMA KeyTripleOver ==
  ASSUME NEW q, NEW m, IsMoment(m), NEW k, Held(q, k, FALSE, FALSE), k # "any"
  PROVE  Over(m, RunKeyTriple(q, m), k)
BY TripleOver DEF RunKeyTriple

LEMMA ValueTripleOver ==
  ASSUME NEW q, NEW m, IsMoment(m), NEW k, Held(q, k, FALSE, FALSE), k # "any"
  PROVE  Over(m, RunValueTriple(q, m), k)
BY TripleOver DEF RunValueTriple

LEMMA StatefulEnvironmentOver ==
  ASSUME NEW q, NEW m, IsMoment(m), NEW k, Held(q, k, FALSE, FALSE), k # "any"
  PROVE  Over(m, RunStatefulEnvironment(q, m), k)
<1> DEFINE start == MidRun(q, m)
           env == ByEnvironment(start)
           measurements == ByGroup("measurements", "stateful_environment", RunMeasurement, restoreEnvIDs, env)
<1> HIDE DEF start, env, measurements
<1>0. Mid(m, start, k, FALSE, FALSE)
  BY RunStarts DEF start
<1>1. Mid(m, env, k, FALSE, TRUE)
  BY <1>0, ByEnvironmentRuns DEF env, Grouped
<1>2. Mid(m, measurements, k, TRUE, TRUE)
  BY <1>1, GroupMeasurementRestoreEnvIDs DEF measurements, Grouped
<1>3. Over(m, Final("stateful_environments", measurements), k)
  BY <1>2, FinalEnds
<1> QED BY <1>3 DEF RunStatefulEnvironment, start, env, measurements

LEMMA EndorsementOver ==
  ASSUME NEW q, NEW m, IsMoment(m), NEW k, Held(q, k, FALSE, FALSE), k = "shape"
  PROVE  Over(m, RunEndorsement(q, m), k)
<1> DEFINE start == MidRun(q, m)
           env == ByEnvironment(start)
           measurements == ByGroup("measurements", "value_triple", RunMeasurement, NoRecovery, env)
<1> HIDE DEF start, env, measurements
<1>0. Mid(m, start, k, FALSE, FALSE)
  BY RunStarts DEF start
<1>1. Mid(m, env, k, FALSE, TRUE)
  BY <1>0, ByEnvironmentRuns DEF env, Grouped
<1>2. Mid(m, measurements, k, TRUE, TRUE)
  BY <1>1, GroupMeasurementNoRecovery DEF measurements, Grouped
<1>3. Over(m, Final("value_triples", measurements), k)
  BY <1>2, FinalEnds
<1> QED BY <1>3 DEF RunEndorsement, start, env, measurements

LEMMA GroupStatefulEnvironmentNoRecovery ==
  ASSUME NEW m0, NEW s, NEW k, NEW i, NEW e, Mid(m0, s, k, i, e),
         k = "deep", NEW name \in Grouped, NEW type,
         k = "deep" => ~i /\ ~e
  PROVE  Mid(m0, ByGroup(name, type, RunStatefulEnvironment, NoRecovery, s), k, TRUE, e)
<1> DEFINE ms == Members(s.q, name)
           run == Runs(ms, RunStatefulEnvironment, s.m)
           g == RunGroup(ms, run, s.m)
           q == WithMembers(s.q, name, g.members)
           t == ByGroup(name, type, RunStatefulEnvironment, NoRecovery, s)
<1>1. t = s \/ ( /\ s.err = "none" /\ Sub(s.q, name) # <<>>
                /\ t = NarrowByGroup(s, q, NoRecovery(q), OwnerConjunction(type, g), g.m))
  BY DEF ByGroup, Skips, Members
<1>2. Mid(m0, s, k, TRUE, e)
  BY DEF Mid, Held
<1> HIDE DEF t
<1> SUFFICES ASSUME s.err = "none", Sub(s.q, name) # <<>>
             PROVE  Mid(m0, NarrowByGroup(s, q, NoRecovery(q), OwnerConjunction(type, g), g.m), k, TRUE, e)
  BY <1>1, <1>2 DEF t
<1>3. Held(s.q, k, i, e) /\ IsMoment(s.m)
  BY DEF Mid, Progress, Reports
<1>4. PICK n \in Nat : IsListOf(s.q, name, n)
  BY <1>3, GroupLists
<1> HIDE DEF g, q
<1>5. Reports(s.m, g.m, g.err) /\ Held(q, k, i, e)
  <2>1. DOMAIN ms = 1..n
    BY <1>4, MembersListed
  <2>2. \A j \in 1..n : k = "deep" => Shaped(ms[j])
    BY <1>3, <1>4, MembersShaped
  <2> HIDE DEF ms
  <2>3. ASSUME NEW j \in 1..n, NEW n1 \in Nat
        PROVE  /\ Ends([s.m EXCEPT !.next = n1], run[j][n1])
               /\ k = "deep" => Shaped(run[j][n1].q)
    <3>1. run[j][n1] = RunStatefulEnvironment(ms[j], [s.m EXCEPT !.next = n1])
      BY <2>1 DEF Runs
    <3>2. IsMoment([s.m EXCEPT !.next = n1])
      BY <1>3, MomentAt
    <3>3. Held(ms[j], "shape", FALSE, FALSE)
      BY <2>2 DEF Held
    <3>4. Over([s.m EXCEPT !.next = n1], RunStatefulEnvironment(ms[j], [s.m EXCEPT !.next = n1]), "shape")
      BY <3>2, <3>3, StatefulEnvironmentOver
    <3> QED BY <3>1, <3>4 DEF Over, Held
  <2> HIDE DEF run
  <2>4. RunsEnd(s.m, n, run) /\ (k = "deep" => \A j \in 1..n, n1 \in Nat : Shaped(run[j][n1].q))
    BY <2>3 DEF RunsEnd
  <2> QED BY <1>4, <2>4, GroupHolds DEF g, q, ms
<1>6. Held(NoRecovery(q), k, FALSE, FALSE)
  BY <1>5 DEF Held, NoRecovery
<1> QED BY <1>5, <1>6, GroupNarrows

LEMMA GroupEndorsementRestoreIDs ==
  ASSUME NEW m0, NEW s, NEW k, NEW i, Mid(m0, s, k, i, FALSE),
         k = "deep", NEW name \in Grouped, NEW type
  PROVE  Mid(m0, ByGroup(name, type, RunEndorsement, restoreIDs, s), k, TRUE, FALSE)
<1> DEFINE ms == Members(s.q, name)
           run == Runs(ms, RunEndorsement, s.m)
           g == RunGroup(ms, run, s.m)
           q == WithMembers(s.q, name, g.members)
           t == ByGroup(name, type, RunEndorsement, restoreIDs, s)
<1>1. t = s \/ ( /\ s.err = "none" /\ Sub(s.q, name) # <<>>
                /\ t = NarrowByGroup(s, q, restoreIDs(q), OwnerConjunction(type, g), g.m))
  BY DEF ByGroup, Skips, Members
<1>2. Mid(m0, s, k, TRUE, FALSE)
  BY DEF Mid, Held
<1> HIDE DEF t
<1> SUFFICES ASSUME s.err = "none", Sub(s.q, name) # <<>>
             PROVE  Mid(m0, NarrowByGroup(s, q, restoreIDs(q), OwnerConjunction(type, g), g.m), k, TRUE, FALSE)
  BY <1>1, <1>2 DEF t
<1>3. Held(s.q, k, i, FALSE) /\ IsMoment(s.m)
  BY DEF Mid, Progress, Reports
<1>4. PICK n \in Nat : IsListOf(s.q, name, n)
  BY <1>3, GroupLists
<1> HIDE DEF g, q
<1>5. Reports(s.m, g.m, g.err) /\ Held(q, k, i, FALSE)
  <2>1. DOMAIN ms = 1..n
    BY <1>4, MembersListed
  <2>2. \A j \in 1..n : k = "deep" => Shaped(ms[j])
    BY <1>3, <1>4, MembersShaped
  <2> HIDE DEF ms
  <2>3. ASSUME NEW j \in 1..n, NEW n1 \in Nat
        PROVE  /\ Ends([s.m EXCEPT !.next = n1], run[j][n1])
               /\ k = "deep" => Shaped(run[j][n1].q)
    <3>1. run[j][n1] = RunEndorsement(ms[j], [s.m EXCEPT !.next = n1])
      BY <2>1 DEF Runs
    <3>2. IsMoment([s.m EXCEPT !.next = n1])
      BY <1>3, MomentAt
    <3>3. Held(ms[j], "shape", FALSE, FALSE)
      BY <2>2 DEF Held
    <3>4. Over([s.m EXCEPT !.next = n1], RunEndorsement(ms[j], [s.m EXCEPT !.next = n1]), "shape")
      BY <3>2, <3>3, EndorsementOver
    <3> QED BY <3>1, <3>4 DEF Over, Held
  <2> HIDE DEF run
  <2>4. RunsEnd(s.m, n, run) /\ (k = "deep" => \A j \in 1..n, n1 \in Nat : Shaped(run[j][n1].q))
    BY <2>3 DEF RunsEnd
  <2> QED BY <1>4, <2>4, GroupHolds DEF g, q, ms
<1>6. Held(restoreIDs(q), k, FALSE, FALSE)
  BY <1>5, RestoreIDsHeld
<1> QED BY <1>5, <1>6, GroupNarrows

LEMMA ConditionalEndorsementTripleOver ==
  ASSUME NEW q, NEW m, IsMoment(m), NEW k, Held(q, k, FALSE, FALSE), k = "deep"
  PROVE  Over(m, RunConditionalEndorsementTriple(q, m), k)
<1> DEFINE start == MidRun(q, m)
           conditions == ByGroup("conditions", "conditional_endorsement_triple", RunStatefulEnvironment, NoRecovery, start)
           endorsements == ByGroup("endorsements", "conditional_endorsement_triple", RunEndorsement, restoreIDs, conditions)
<1> HIDE DEF start, conditions, endorsements
<1>0. Mid(m, start, k, FALSE, FALSE)
  BY RunStarts DEF start
<1>1. Mid(m, conditions, k, TRUE, FALSE)
  BY <1>0, GroupStatefulEnvironmentNoRecovery DEF conditions, Grouped
<1>2. Mid(m, endorsements, k, TRUE, FALSE)
  BY <1>1, GroupEndorsementRestoreIDs DEF endorsements, Grouped
<1>3. Over(m, Final("conditional_endorsement_triples", endorsements), k)
  BY <1>2, FinalEnds
<1> QED BY <1>3 DEF RunConditionalEndorsementTriple, start, conditions, endorsements

LEMMA RecordOver ==
  ASSUME NEW q, NEW m, IsMoment(m), NEW k, Held(q, k, FALSE, FALSE), k # "any"
  PROVE  Over(m, RunRecord(q, m), k)
<1> DEFINE start == MidRun(q, m)
           selections == ByGroup("selections", "ces_record_selection", RunMeasurement, NoRecovery, start)
           additions == ByGroup("additions", "ces_record_addition", RunMeasurement, restoreIDs, selections)
<1> HIDE DEF start, selections, additions
<1>0. Mid(m, start, k, FALSE, FALSE)
  BY RunStarts DEF start
<1>1. Mid(m, selections, k, TRUE, FALSE)
  BY <1>0, GroupMeasurementNoRecovery DEF selections, Grouped
<1>2. Mid(m, additions, k, TRUE, FALSE)
  BY <1>1, GroupMeasurementRestoreIDs DEF additions, Grouped
<1>3. Over(m, Final("conditional_endorsement_series_records", additions), k)
  BY <1>2, FinalEnds
<1> QED BY <1>3 DEF RunRecord, start, selections, additions

LEMMA GroupRecordRestore ==
  ASSUME NEW m0, NEW s, NEW k, NEW i, NEW e, Mid(m0, s, k, i, e),
         k = "deep", NEW name \in Grouped, NEW type
  PROVE  Mid(m0, ByGroup(name, type, RunRecord, Restore, s), k, TRUE, e)
<1> DEFINE ms == Members(s.q, name)
           run == Runs(ms, RunRecord, s.m)
           g == RunGroup(ms, run, s.m)
           q == WithMembers(s.q, name, g.members)
           t == ByGroup(name, type, RunRecord, Restore, s)
<1>1. t = s \/ ( /\ s.err = "none" /\ Sub(s.q, name) # <<>>
                /\ t = NarrowByGroup(s, q, Restore(q), OwnerConjunction(type, g), g.m))
  BY DEF ByGroup, Skips, Members
<1>2. Mid(m0, s, k, TRUE, e)
  BY DEF Mid, Held
<1> HIDE DEF t
<1> SUFFICES ASSUME s.err = "none", Sub(s.q, name) # <<>>
             PROVE  Mid(m0, NarrowByGroup(s, q, Restore(q), OwnerConjunction(type, g), g.m), k, TRUE, e)
  BY <1>1, <1>2 DEF t
<1>3. Held(s.q, k, i, e) /\ IsMoment(s.m)
  BY DEF Mid, Progress, Reports
<1>4. PICK n \in Nat : IsListOf(s.q, name, n)
  BY <1>3, GroupLists
<1> HIDE DEF g, q
<1>5. Reports(s.m, g.m, g.err) /\ Held(q, k, i, e)
  <2>1. DOMAIN ms = 1..n
    BY <1>4, MembersListed
  <2>2. \A j \in 1..n : k = "deep" => Shaped(ms[j])
    BY <1>3, <1>4, MembersShaped
  <2> HIDE DEF ms
  <2>3. ASSUME NEW j \in 1..n, NEW n1 \in Nat
        PROVE  /\ Ends([s.m EXCEPT !.next = n1], run[j][n1])
               /\ k = "deep" => Shaped(run[j][n1].q)
    <3>1. run[j][n1] = RunRecord(ms[j], [s.m EXCEPT !.next = n1])
      BY <2>1 DEF Runs
    <3>2. IsMoment([s.m EXCEPT !.next = n1])
      BY <1>3, MomentAt
    <3>3. Held(ms[j], "shape", FALSE, FALSE)
      BY <2>2 DEF Held
    <3>4. Over([s.m EXCEPT !.next = n1], RunRecord(ms[j], [s.m EXCEPT !.next = n1]), "shape")
      BY <3>2, <3>3, RecordOver
    <3> QED BY <3>1, <3>4 DEF Over, Held
  <2> HIDE DEF run
  <2>4. RunsEnd(s.m, n, run) /\ (k = "deep" => \A j \in 1..n, n1 \in Nat : Shaped(run[j][n1].q))
    BY <2>3 DEF RunsEnd
  <2> QED BY <1>4, <2>4, GroupHolds DEF g, q, ms
<1>6. Held(Restore(q), k, FALSE, FALSE)
  BY <1>5, RestoreHeld
<1> QED BY <1>5, <1>6, GroupNarrows

LEMMA ConditionalEndorsementSeriesTripleOver ==
  ASSUME NEW q, NEW m, IsMoment(m), NEW k, Held(q, k, FALSE, FALSE), k = "deep"
  PROVE  Over(m, RunConditionalEndorsementSeriesTriple(q, m), k)
<1> DEFINE start == MidRun(q, m)
           env == ByEnvironment(start)
           auth == ByOwner("authorizedBy", {"ces_condition"}, RunCryptoKey, env)
           measurements == ByGroup("measurements", "ces_condition", RunMeasurement, Restore, auth)
           records == ByGroup("records", "conditional_endorsement_series_triple", RunRecord, Restore, measurements)
<1> HIDE DEF start, env, auth, measurements, records
<1>0. Mid(m, start, k, FALSE, FALSE)
  BY RunStarts DEF start
<1>1. Mid(m, env, k, FALSE, TRUE)
  BY <1>0, ByEnvironmentRuns DEF env, Grouped
<1>2. Mid(m, auth, k, TRUE, TRUE)
  BY <1>1, ByCryptoKey DEF auth, Grouped
<1>3. Mid(m, measurements, k, TRUE, TRUE)
  BY <1>2, GroupMeasurementRestore DEF measurements, Grouped
<1>4. Mid(m, records, k, TRUE, TRUE)
  BY <1>3, GroupRecordRestore DEF records, Grouped
<1>5. Over(m, Final("conditional_endorsement_series_triples", records), k)
  BY <1>4, FinalEnds
<1> QED BY <1>5 DEF RunConditionalEndorsementSeriesTriple, start, env, auth, measurements, records
LEMMA DisjunctionOver ==
  ASSUME NEW q, NEW m, IsMoment(m), Held(q, "deep", FALSE, FALSE), "members" \in DOMAIN q.subs
  PROVE  /\ Over(m, RunDisjunction(RunValueTriple, q, m), "deep")
         /\ "members" \in DOMAIN RunDisjunction(RunValueTriple, q, m).q.subs
<1> DEFINE ms == q.subs["members"]
           run == Runs(ms, RunValueTriple, m)
           g == RunGroup(ms, run, m)
           r == RunDisjunction(RunValueTriple, q, m)
<1>1. PICK n \in Nat : n = Len(ms) /\ DOMAIN ms = 1..n
  BY DEF Held, Shaped, HasGroups, IsGroup, Grouped
<1>2. \A j \in 1..n : Shaped(ms[j])
  BY <1>1 DEF Held, Deep, Sub, Grouped
<1>3. ASSUME NEW j \in 1..n, NEW t \in Nat
      PROVE  Ends([m EXCEPT !.next = t], run[j][t]) /\ Shaped(run[j][t].q)
  <2> HIDE DEF ms
  <2>1. run[j][t] = RunValueTriple(ms[j], [m EXCEPT !.next = t])
    BY <1>1 DEF Runs
  <2>2. IsMoment([m EXCEPT !.next = t]) /\ Held(ms[j], "shape", FALSE, FALSE)
    BY <1>2, MomentAt DEF Held
  <2>3. Over([m EXCEPT !.next = t], RunValueTriple(ms[j], [m EXCEPT !.next = t]), "shape")
    BY <2>2, ValueTripleOver
  <2> QED BY <2>1, <2>3 DEF Over, Held
<1> HIDE DEF run
<1>4. Gathered(m, ms, run, n, g)
  <2> HIDE DEF ms
  <2>1. RunsEnd(m, n, run)
    BY <1>3 DEF RunsEnd
  <2> QED BY <1>1, <2>1, GroupEnds
<1>5. /\ IsRun(r) /\ r.q = WithSub(q, "members", g.members) /\ r.m = g.m /\ r.err = g.err
      /\ r.rows = IF g.err = "none" THEN UNION {g.results[i] : i \in DOMAIN g.results} ELSE {}
  BY DEF RunDisjunction, Disjunction, Union, IsRun, WithSub, run
<1> HIDE DEF g, r
<1>6. \A j \in 1..n : Shaped(g.members[j])
  <2> TAKE j \in 1..n
  <2>1. g.members[j] = ms[j] \/ \E t \in Nat : g.members[j] = run[j][t].q
    BY <1>4 DEF Gathered, Choice
  <2> QED BY <1>2, <1>3, <2>1
<1>7. Held(r.q, "deep", FALSE, FALSE)
  <2> HIDE DEF ms
  <2>1. DOMAIN g.members = 1..n /\ Len(g.members) = n
    BY <1>4 DEF Gathered
  <2>2. PICK k, name, new : k = "deep" /\ name = "members" /\ new = g.members
    OBVIOUS
  <2>3. Held(WithSub(q, name, new), k, FALSE, FALSE)
    BY <1>6, <2>1, <2>2, WithGroupHeld
  <2> QED BY <1>5, <2>2, <2>3
<1>8. r.rows \subseteq m.before \cup m.after /\ (r.err = "none" <=> r.rows # {})
  <2>1. g.results \in Seq(Found(m)) /\ (g.err = "none" => g.results # <<>>)
    BY <1>4 DEF Gathered
  <2>2. \A i \in DOMAIN g.results : g.results[i] \in Found(m)
    BY <2>1
  <2>3. \A i \in DOMAIN g.results : g.results[i] \subseteq m.before \cup m.after /\ g.results[i] # {}
    BY <2>2 DEF Found
  <2>4. g.err = "none" => 1 \in DOMAIN g.results
    BY <2>1
  <2>5. CASE g.err = "none"
    BY <1>5, <2>3, <2>4, <2>5
  <2>6. CASE g.err # "none"
    BY <1>5, <2>6
  <2> QED BY <2>5, <2>6
<1>9. Ends(m, r)
  BY <1>4, <1>5, <1>8 DEF Ends, Gathered
<1>10. "members" \in DOMAIN r.q.subs
  <2>1. DOMAIN r.q.subs = DOMAIN q.subs
    BY <1>5 DEF WithSub, Held, Shaped, IsObject
  <2> QED BY <2>1
<1> QED BY <1>7, <1>9, <1>10 DEF Over, r
-----------------------------------------------------------------------------
(* The client. *)

\* The object of the client, between its runs.
Ready(k, q) ==
  /\ k \in Kinds /\ Held(q, "deep", FALSE, FALSE)
  /\ k = "ValueTripleQueryGroup" => "members" \in DOMAIN q.subs

LEMMA RunOfOver ==
  ASSUME NEW q, Ready(kind, q), NEW m, IsMoment(m)
  PROVE  Ends(m, RunOf(q, m)) /\ Ready(kind, RunOf(q, m).q)
<1>1. kind \in Kinds /\ Held(q, "deep", FALSE, FALSE)
  BY DEF Ready
<1>2. CASE kind = "ValueTripleQueryGroup"
  <2>1. RunOf(q, m) = RunDisjunction(RunValueTriple, q, m)
    BY <1>2 DEF RunOf
  <2> QED BY <1>1, <1>2, <2>1, DisjunctionOver DEF Ready, Over
<1>3. ASSUME kind # "ValueTripleQueryGroup", Over(m, RunOf(q, m), "deep")
      PROVE  Ends(m, RunOf(q, m)) /\ Ready(kind, RunOf(q, m).q)
  BY <1>1, <1>3 DEF Ready, Over
<1>4. CASE kind = "LocatorQuery"
  BY <1>1, <1>3, <1>4, LocatorOver DEF RunOf
<1>5. CASE kind = "EntityQuery"
  BY <1>1, <1>3, <1>5, EntityOver DEF RunOf
<1>6. CASE kind = "ManifestQuery"
  BY <1>1, <1>3, <1>6, ManifestOver DEF RunOf
<1>7. CASE kind = "ModuleTagQuery"
  BY <1>1, <1>3, <1>7, ModuleTagOver DEF RunOf
<1>8. CASE kind = "TokenQuery"
  BY <1>1, <1>3, <1>8, TokenOver DEF RunOf
<1>9. CASE kind = "KeyTripleQuery"
  BY <1>1, <1>3, <1>9, KeyTripleOver DEF RunOf
<1>10. CASE kind = "ValueTripleQuery"
  BY <1>1, <1>3, <1>10, ValueTripleOver DEF RunOf
<1>11. CASE kind = "ConditionalEndorsementTripleQuery"
  BY <1>1, <1>3, <1>11, ConditionalEndorsementTripleOver DEF RunOf
<1>12. CASE kind = "ConditionalEndorsementSeriesTripleQuery"
  BY <1>1, <1>3, <1>12, ConditionalEndorsementSeriesTripleOver DEF RunOf
<1>13. CASE kind = "DomainMembershipTripleQuery"
  BY <1>1, <1>3, <1>13, DomainTripleOver DEF RunOf
<1>14. CASE kind = "DomainDependencyTripleQuery"
  BY <1>1, <1>3, <1>14, DomainTripleOver DEF RunOf
<1> QED
  BY <1>1, <1>2, <1>4, <1>5, <1>6, <1>7, <1>8, <1>9, <1>10, <1>11, <1>12, <1>13, <1>14 DEF Kinds

Present(k, docs) == UNION {RowsOf[k][d] : d \in docs}

ResultOf(r) == [rows |-> r.rows, err |-> r.err, failed |-> r.m.fails \in 1 .. r.m.next - 1]

\* Between runs the object is ready for the next one, and the result is that of the last.
QueryInv ==
  /\ Ready(kind, query) /\ runs \in Nat
  /\ db \subseteq Present(kind, added)
  /\ result.err \in Errors /\ result.rows \subseteq Present(kind, added)
  /\ result.err = "none" <=> result.rows # {} \/ runs = 0
  /\ result.failed <=> result.err = "db error"

LEMMA BuiltReady ==
  ASSUME NEW k \in Kinds, NEW q, IsBuilt(q),
         k = "ValueTripleQueryGroup" => "members" \in DOMAIN q.subs
  PROVE  Ready(k, q)
<1>1. ASSUME NEW x, AtRest(x) PROVE IsObject(x) /\ x.saved = FALSE /\ x.envSaved = FALSE
  <2>1. PICK a, b, c, d, e, f :
          x = [vals |-> a, ids |-> b, owners |-> c, types |-> d, envs |-> e, savedIDs |-> {},
               saved |-> FALSE, savedEnvs |-> {}, envSaved |-> FALSE, subs |-> f]
    BY <1>1 DEF AtRest
  <2> QED BY <1>1, <2>1 DEF AtRest, IsObject
<1> QED BY <1>1 DEF IsBuilt, Ready, Held, Shaped, Deep

LEMMA InitReady == Init => QueryInv
<1> SUFFICES ASSUME Init PROVE QueryInv
  OBVIOUS
<1>1. PICK x \in Queries : kind = x.kind /\ query = x.query
  BY DEF Init
<1>2. Ready(kind, query)
  BY <1>1, QueryAssumption, BuiltReady
<1>3. result = NoResult /\ runs = 0 /\ db = {}
  BY DEF Init
<1> QED BY <1>2, <1>3 DEF QueryInv, NoResult, Errors

LEMMA RunReady ==
  ASSUME QueryInv, NEW at, NEW fails \in Nat, Run(at, fails), kind' = kind,
         added \subseteq added', db' \subseteq Present(kind, added')
  PROVE  QueryInv'
<1>1. PICK m : m = [next |-> 1, before |-> db, after |-> db', at |-> at, fails |-> fails]
  OBVIOUS
<1>2. PICK q : q = query
  OBVIOUS
<1>3. PICK r : r = RunOf(q, m)
  OBVIOUS
<1>4. IsMoment(m) /\ m.next = 1 /\ m.fails = fails /\ m.before = db /\ m.after = db'
  BY <1>1 DEF IsMoment
<1>5. Ends(m, r) /\ Ready(kind, r.q)
  BY <1>2, <1>3, <1>4, RunOfOver DEF QueryInv
<1>6. query' = r.q /\ result' = ResultOf(r) /\ runs' = runs + 1
  BY <1>1, <1>2, <1>3 DEF Run, Return, ResultOf
<1>7. result'.rows = r.rows /\ result'.err = r.err /\ result'.failed = (r.m.fails \in 1 .. r.m.next - 1)
  BY <1>6 DEF ResultOf
<1>8. r.rows \subseteq Present(kind, added')
  <2>1. Present(kind, added) \subseteq Present(kind, added')
    BY DEF Present
  <2> QED BY <1>4, <1>5, <2>1 DEF Ends, QueryInv
<1>9. r.m.fails \in 1 .. r.m.next - 1 <=> r.err = "db error"
  <2>1. r.m.fails = fails /\ r.m.next \in Nat
    BY <1>4, <1>5 DEF Ends, Reports, IsMoment
  <2>2. r.err = "db error" <=> m.next <= m.fails /\ m.fails < r.m.next
    BY <1>5 DEF Ends, Reports
  <2>3. r.err = "db error" <=> 1 <= fails /\ fails < r.m.next
    BY <1>4, <2>2
  <2>4. PICK f, n \in Nat : f = fails /\ n = r.m.next
    BY <2>1
  <2>5. f \in 1 .. n - 1 <=> 1 <= f /\ f < n
    OBVIOUS
  <2> QED BY <2>1, <2>3, <2>4, <2>5
<1>10. runs' # 0 /\ runs' \in Nat
  <2>1. runs \in Nat /\ runs' = runs + 1
    BY <1>6 DEF QueryInv
  <2> QED BY <2>1
<1>11. r.err \in Errors /\ (r.err = "none" <=> r.rows # {})
  BY <1>5 DEF Ends, Reports
<1>12. Ready(kind', query')
  BY <1>5, <1>6
<1> QED BY <1>7, <1>8, <1>9, <1>10, <1>11, <1>12 DEF QueryInv

LEMMA CommitPresent ==
  ASSUME QueryInv, Commit, kind' = kind
  PROVE  added \subseteq added' /\ db' \subseteq Present(kind, added')
<1>1. ASSUME NEW d \in Docs, Add(d) PROVE added \subseteq added' /\ db' \subseteq Present(kind, added')
  BY <1>1 DEF Add, QueryInv, Present
<1>2. ASSUME NEW r \in db, Delete(r) PROVE added \subseteq added' /\ db' \subseteq Present(kind, added')
  BY <1>2 DEF Delete, QueryInv, Present
<1> QED BY <1>1, <1>2 DEF Commit

LEMMA NextReady == QueryInv /\ [Next]_vars => QueryInv'
<1> SUFFICES ASSUME QueryInv, [Next]_vars PROVE QueryInv'
  OBVIOUS
<1>1. ASSUME OtherClient PROVE QueryInv'
  <2>1. Commit /\ UNCHANGED <<kind, query, result, runs>>
    BY <1>1 DEF OtherClient
  <2>2. added \subseteq added' /\ db' \subseteq Present(kind, added')
    BY <2>1, CommitPresent
  <2>3. Present(kind, added) \subseteq Present(kind, added')
    BY <2>2 DEF Present
  <2> QED BY <2>1, <2>2, <2>3 DEF QueryInv
<1>2. ASSUME NEW v \in Values, Builder(v) PROVE QueryInv'
  <2>1. PICK q, p : q = query /\ p = [q EXCEPT !.vals = q.vals \cup {v}]
    OBVIOUS
  <2>2. query' = p /\ UNCHANGED <<db, added, kind, result, runs, deletes>>
    BY <1>2, <2>1 DEF Builder
  <2>3. Ready(kind, q)
    BY <2>1 DEF QueryInv
  <2>4. IsObject(p) /\ p.subs = q.subs /\ p.saved = q.saved /\ p.envSaved = q.envSaved
    BY <2>1, <2>3 DEF Ready, Held, Shaped, IsObject
  <2>5. Ready(kind, p)
    BY <2>3, <2>4, SameSubs DEF Ready, Held
  <2> QED BY <2>2, <2>5 DEF QueryInv
<1>3. ASSUME NEW n \in 0 .. MaxStatements, RunAlone(n) PROVE QueryInv'
  <2>1. Run(0, n) /\ UNCHANGED <<db, added, kind>> /\ n \in Nat
    BY <1>3, QueryAssumption DEF RunAlone, Run
  <2>2. db' \subseteq Present(kind, added')
    BY <2>1 DEF QueryInv
  <2> QED BY <2>1, <2>2, RunReady
<1>4. ASSUME NEW n \in 1 .. MaxStatements, RunInterrupted(n) PROVE QueryInv'
  <2>1. Commit /\ Run(n, 0) /\ kind' = kind
    BY <1>4 DEF RunInterrupted, Run
  <2> QED BY <2>1, CommitPresent, RunReady
<1>5. CASE UNCHANGED vars
  BY <1>5 DEF vars, QueryInv
<1> QED BY <1>1, <1>2, <1>3, <1>4, <1>5 DEF Next

LEMMA AlwaysReady == Spec => []QueryInv
<1> QED BY InitReady, NextReady, PTL DEF Spec

\* Rows come with the outcome "no error" only, they are rows of documents that have been
\* added, and whatever happens to a run, and to the subqueries it runs, nothing is left
\* of the lists it saved in the object of the client (saveIDs and restoreIDs of query.go).
THEOREM QueriesTypeCorrect == Spec => []TypeOK
<1>1. QueryInv => TypeOK
  BY DEF QueryInv, TypeOK, Errors, Ready, Held, Present
<1> QED BY <1>1, AlwaysReady, PTL

\* A run fails if, and only if, one of the statements it has executed has failed, in
\* whichever subquery or group (RunGroup of querygroup.go goes on after a member without
\* a match, and must not after another error).
THEOREM ErrorsAreReported == Spec => []ErrorsSurface
<1>1. QueryInv => ErrorsSurface
  BY DEF QueryInv, ErrorsSurface
<1> QED BY <1>1, AlwaysReady, PTL
-----------------------------------------------------------------------------
(* What a run leaves of its object, and what it returns. *)

\* The rows that are there at some moment of the run, and those there throughout.
Ever(m) == m.before \cup m.after
Always(m) == m.before \cap m.after

\* The object q0 while it runs: only its IDs, if i, and its environments, if e, may have
\* been narrowed, and what they were is saved.
Narrowed(q0, q, i, e) ==
  /\ q = [vals |-> q0.vals, ids |-> q.ids, owners |-> q0.owners, types |-> q0.types,
          envs |-> q.envs, savedIDs |-> q.savedIDs, saved |-> q.saved,
          savedEnvs |-> q.savedEnvs, envSaved |-> q.envSaved, subs |-> q0.subs]
  /\ \/ q.saved = FALSE /\ q.savedIDs = {} /\ q.ids = q0.ids
     \/ i /\ q.saved = TRUE /\ q.savedIDs = q0.ids
  /\ \/ q.envSaved = FALSE /\ q.savedEnvs = {} /\ q.envs = q0.envs
     \/ e /\ q.envSaved = TRUE /\ q.savedEnvs = q0.envs

\* What an object narrows during a run.
Admits(q, x) == Column(x.id, q.ids, FALSE) /\ Column(x.env, q.envs, FALSE)

\* A run of q0 that has begun at m0: of the rows U it is going to select from, it admits
\* those of G only, and all of H.
Stage(q0, m0, s, U, G, H, i, e) ==
  /\ Progress(m0, s)
  /\ s.err # "none" => s.q = q0
  /\ s.err = "none" => /\ Narrowed(q0, s.q, i, e)
                       /\ \A x \in U : Admits(s.q, x) => x \in G /\ Admits(q0, x)
                       /\ \A x \in H : Admits(q0, x) => Admits(s.q, x)
  /\ s.err = "no match" => \A x \in H : ~Admits(q0, x)

\* A run of q is over, q is as before, and has returned rows of A only and all of B.
Answered(q, m, r, A, B) ==
  /\ Ends(m, r) /\ r.q = q /\ r.rows \subseteq A
  /\ r.err # "db error" => B \subseteq r.rows

LEMMA RestNarrowed ==
  ASSUME NEW q, AtRest(q)
  PROVE  Narrowed(q, q, FALSE, FALSE)
<1>1. PICK a, b, c, d, e, f :
        q = [vals |-> a, ids |-> b, owners |-> c, types |-> d, envs |-> e, savedIDs |-> {},
             saved |-> FALSE, savedEnvs |-> {}, envSaved |-> FALSE, subs |-> f]
  BY DEF AtRest
<1> QED BY <1>1 DEF Narrowed

LEMMA RestIs ==
  ASSUME NEW q, AtRest(q)
  PROVE  q = [vals |-> q.vals, ids |-> q.ids, owners |-> q.owners, types |-> q.types,
              envs |-> q.envs, savedIDs |-> {}, saved |-> FALSE, savedEnvs |-> {},
              envSaved |-> FALSE, subs |-> q.subs]
BY DEF AtRest

LEMMA NarrowedIs ==
  ASSUME NEW q0, NEW q, NEW i, NEW e, Narrowed(q0, q, i, e)
  PROVE  \E a, b, c, d, f, g :
           q = [vals |-> q0.vals, ids |-> a, owners |-> q0.owners, types |-> q0.types,
                envs |-> b, savedIDs |-> c, saved |-> d, savedEnvs |-> f, envSaved |-> g,
                subs |-> q0.subs]
BY DEF Narrowed

LEMMA NarrowedRestoreIDs ==
  ASSUME NEW q0, NEW q, NEW i, NEW e, Narrowed(q0, q, i, e)
  PROVE  Narrowed(q0, restoreIDs(q), FALSE, e)
<1>1. PICK a, b, c, d, f, g :
        q = [vals |-> q0.vals, ids |-> a, owners |-> q0.owners, types |-> q0.types,
             envs |-> b, savedIDs |-> c, saved |-> d, savedEnvs |-> f, envSaved |-> g,
             subs |-> q0.subs]
  BY NarrowedIs
<1>2. /\ (d = FALSE /\ c = {} /\ a = q0.ids) \/ (d = TRUE /\ c = q0.ids)
      /\ (g = FALSE /\ f = {} /\ b = q0.envs) \/ (e /\ g = TRUE /\ f = q0.envs)
  BY <1>1 DEF Narrowed
<1>3. PICK p : p = restoreIDs(q)
  OBVIOUS
<1>4. p = [vals |-> q0.vals, ids |-> q0.ids, owners |-> q0.owners, types |-> q0.types,
           envs |-> b, savedIDs |-> {}, saved |-> FALSE, savedEnvs |-> f, envSaved |-> g,
           subs |-> q0.subs]
  BY <1>1, <1>2, <1>3 DEF restoreIDs
<1>5. Narrowed(q0, p, FALSE, e)
  BY <1>2, <1>4 DEF Narrowed
<1> QED BY <1>3, <1>5

LEMMA NarrowedRestoreEnvIDs ==
  ASSUME NEW q0, NEW q, NEW i, NEW e, Narrowed(q0, q, i, e)
  PROVE  Narrowed(q0, restoreEnvIDs(q), i, FALSE)
<1>1. PICK a, b, c, d, f, g :
        q = [vals |-> q0.vals, ids |-> a, owners |-> q0.owners, types |-> q0.types,
             envs |-> b, savedIDs |-> c, saved |-> d, savedEnvs |-> f, envSaved |-> g,
             subs |-> q0.subs]
  BY NarrowedIs
<1>2. /\ (d = FALSE /\ c = {} /\ a = q0.ids) \/ (i /\ d = TRUE /\ c = q0.ids)
      /\ (g = FALSE /\ f = {} /\ b = q0.envs) \/ (g = TRUE /\ f = q0.envs)
  BY <1>1 DEF Narrowed
<1>3. PICK p : p = restoreEnvIDs(q)
  OBVIOUS
<1>4. p = [vals |-> q0.vals, ids |-> a, owners |-> q0.owners, types |-> q0.types,
           envs |-> q0.envs, savedIDs |-> c, saved |-> d, savedEnvs |-> {},
           envSaved |-> FALSE, subs |-> q0.subs]
  BY <1>1, <1>2, <1>3 DEF restoreEnvIDs
<1>5. Narrowed(q0, p, i, FALSE)
  BY <1>2, <1>4 DEF Narrowed
<1> QED BY <1>3, <1>5

LEMMA NotNarrowed ==
  ASSUME NEW q0, AtRest(q0), NEW q, Narrowed(q0, q, FALSE, FALSE)
  PROVE  q = q0
<1>1. q = [vals |-> q0.vals, ids |-> q0.ids, owners |-> q0.owners, types |-> q0.types,
           envs |-> q0.envs, savedIDs |-> {}, saved |-> FALSE, savedEnvs |-> {},
           envSaved |-> FALSE, subs |-> q0.subs]
  BY DEF Narrowed
<1> QED BY <1>1, RestIs

LEMMA RestoreIsWhole ==
  ASSUME NEW q0, AtRest(q0), NEW q, NEW i, NEW e, Narrowed(q0, q, i, e)
  PROVE  /\ Restore(q) = q0
         /\ e = FALSE => restoreIDs(q) = q0
         /\ i = FALSE => restoreEnvIDs(q) = q0
<1>1. Narrowed(q0, restoreIDs(q), FALSE, e) /\ Narrowed(q0, restoreEnvIDs(q), i, FALSE)
  BY NarrowedRestoreIDs, NarrowedRestoreEnvIDs
<1>2. Narrowed(q0, restoreEnvIDs(restoreIDs(q)), FALSE, FALSE)
  BY <1>1, NarrowedRestoreEnvIDs
<1>3. restoreEnvIDs(restoreIDs(q)) = q0
  BY <1>2, NotNarrowed
<1>4. ASSUME e = FALSE PROVE restoreIDs(q) = q0
  <2>1. Narrowed(q0, restoreIDs(q), FALSE, FALSE)
    BY <1>1, <1>4
  <2> QED BY <2>1, NotNarrowed
<1>5. ASSUME i = FALSE PROVE restoreEnvIDs(q) = q0
  <2>1. Narrowed(q0, restoreEnvIDs(q), FALSE, FALSE)
    BY <1>1, <1>5
  <2> QED BY <2>1, NotNarrowed
<1> QED BY <1>3, <1>4, <1>5 DEF Restore

LEMMA SaveIDsNarrowed ==
  ASSUME NEW q0, NEW q, NEW i, NEW e, Narrowed(q0, q, i, e), NEW ids
  PROVE  /\ Narrowed(q0, saveIDs(q), TRUE, e)
         /\ Narrowed(q0, WithIDs(saveIDs(q), ids), TRUE, e)
         /\ WithIDs(saveIDs(q), ids).ids = ids /\ WithIDs(saveIDs(q), ids).envs = q.envs
<1>1. PICK a, b, c, d, f, g :
        q = [vals |-> q0.vals, ids |-> a, owners |-> q0.owners, types |-> q0.types,
             envs |-> b, savedIDs |-> c, saved |-> d, savedEnvs |-> f, envSaved |-> g,
             subs |-> q0.subs]
  BY NarrowedIs
<1>2. /\ (d = FALSE /\ c = {} /\ a = q0.ids) \/ (d = TRUE /\ c = q0.ids)
      /\ (g = FALSE /\ f = {} /\ b = q0.envs) \/ (e /\ g = TRUE /\ f = q0.envs)
  BY <1>1 DEF Narrowed
<1>3. PICK p : p = saveIDs(q)
  OBVIOUS
<1>4. p = [vals |-> q0.vals, ids |-> a, owners |-> q0.owners, types |-> q0.types,
           envs |-> b, savedIDs |-> q0.ids, saved |-> TRUE, savedEnvs |-> f, envSaved |-> g,
           subs |-> q0.subs]
  BY <1>1, <1>2, <1>3 DEF saveIDs
<1>5. PICK w : w = WithIDs(p, ids)
  OBVIOUS
<1>6. w = [vals |-> q0.vals, ids |-> ids, owners |-> q0.owners, types |-> q0.types,
           envs |-> b, savedIDs |-> q0.ids, saved |-> TRUE, savedEnvs |-> f, envSaved |-> g,
           subs |-> q0.subs]
  BY <1>4, <1>5 DEF WithIDs
<1>7. Narrowed(q0, w, TRUE, e) /\ w.ids = ids /\ w.envs = q.envs
  BY <1>1, <1>2, <1>6 DEF Narrowed
<1>8. Narrowed(q0, p, TRUE, e)
  BY <1>2, <1>4 DEF Narrowed
<1> QED BY <1>3, <1>5, <1>7, <1>8

LEMMA SaveEnvIDsNarrowed ==
  ASSUME NEW q0, NEW q, NEW i, NEW e, Narrowed(q0, q, i, e), NEW envs
  PROVE  /\ Narrowed(q0, WithEnvs(saveEnvIDs(q), envs), i, TRUE)
         /\ WithEnvs(saveEnvIDs(q), envs).envs = envs
         /\ WithEnvs(saveEnvIDs(q), envs).ids = q.ids
<1>1. PICK a, b, c, d, f, g :
        q = [vals |-> q0.vals, ids |-> a, owners |-> q0.owners, types |-> q0.types,
             envs |-> b, savedIDs |-> c, saved |-> d, savedEnvs |-> f, envSaved |-> g,
             subs |-> q0.subs]
  BY NarrowedIs
<1>2. /\ (d = FALSE /\ c = {} /\ a = q0.ids) \/ (i /\ d = TRUE /\ c = q0.ids)
      /\ (g = FALSE /\ f = {} /\ b = q0.envs) \/ (g = TRUE /\ f = q0.envs)
  BY <1>1 DEF Narrowed
<1>3. PICK p : p = saveEnvIDs(q)
  OBVIOUS
<1>4. p = [vals |-> q0.vals, ids |-> a, owners |-> q0.owners, types |-> q0.types,
           envs |-> b, savedIDs |-> c, saved |-> d, savedEnvs |-> q0.envs, envSaved |-> TRUE,
           subs |-> q0.subs]
  BY <1>1, <1>2, <1>3 DEF saveEnvIDs
<1>5. PICK w : w = WithEnvs(p, envs)
  OBVIOUS
<1>6. w = [vals |-> q0.vals, ids |-> a, owners |-> q0.owners, types |-> q0.types,
           envs |-> envs, savedIDs |-> c, saved |-> d, savedEnvs |-> q0.envs, envSaved |-> TRUE,
           subs |-> q0.subs]
  BY <1>4, <1>5 DEF WithEnvs
<1>7. Narrowed(q0, w, i, TRUE) /\ w.envs = envs /\ w.ids = q.ids
  BY <1>1, <1>2, <1>6 DEF Narrowed
<1> QED BY <1>3, <1>5, <1>7

\* The same subqueries are put back.
LEMMA SameSub ==
  ASSUME NEW q0, AtRest(q0), NEW q, NEW i, NEW e, Narrowed(q0, q, i, e),
         NEW name \in DOMAIN q0.subs
  PROVE  WithSub(q, name, q0.subs[name]) = q
<1>1. PICK a, b, c, d, f, g :
        q = [vals |-> q0.vals, ids |-> a, owners |-> q0.owners, types |-> q0.types,
             envs |-> b, savedIDs |-> c, saved |-> d, savedEnvs |-> f, envSaved |-> g,
             subs |-> q0.subs]
  BY NarrowedIs
<1>2. PICK u : u = q0.subs
  OBVIOUS
<1>3. u = [n \in DOMAIN u |-> u[n]]
  BY <1>2 DEF AtRest
<1>4. [u EXCEPT ![name] = u[name]] = u
  BY <1>2, <1>3
<1>5. WithSub(q, name, u[name]) = [q EXCEPT !.subs = [u EXCEPT ![name] = u[name]]]
  BY <1>1, <1>2 DEF WithSub
<1>6. [q EXCEPT !.subs = u] = q
  BY <1>1, <1>2
<1> QED BY <1>2, <1>4, <1>5, <1>6

-----------------------------------------------------------------------------
(* The statements. *)

LEMMA SeenBetween ==
  ASSUME NEW m, NEW tbl
  PROVE  /\ Table(Seen(m), tbl) \subseteq Table(Ever(m), tbl)
         /\ Table(Always(m), tbl) \subseteq Table(Seen(m), tbl)
BY DEF Table, Seen, Ever, Always

LEMMA SameMoments ==
  ASSUME NEW m0, NEW m, NEW err, Reports(m0, m, err)
  PROVE  Ever(m) = Ever(m0) /\ Always(m) = Always(m0) /\ IsMoment(m)
<1>1. m.before = m0.before /\ m.after = m0.after /\ IsMoment(m)
  BY DEF Reports, IsMoment
<1> QED BY <1>1 DEF Ever, Always

\* A single SELECT.
LEMMA OutcomeAnswers ==
  ASSUME NEW q, NEW m, IsMoment(m), NEW rows, rows \subseteq Ever(m), NEW A, NEW B,
         B \subseteq rows, rows \subseteq A
  PROVE  Answered(q, m, Outcome(q, m, rows), A, B)
<1>1. Ends(m, Outcome(q, m, rows)) /\ Outcome(q, m, rows).q = q
  BY OutcomeEnds DEF Ever
<1>2. /\ Outcome(q, m, rows).rows = IF m.next = m.fails THEN {} ELSE rows
      /\ Outcome(q, m, rows).err # "db error" => m.next # m.fails
  BY DEF Outcome
<1> QED BY <1>1, <1>2 DEF Answered

LEMMA RowsAreThere ==
  ASSUME NEW m, NEW tbl
  PROVE  Table(Seen(m), tbl) \subseteq Ever(m)
BY DEF Table, Seen, Ever

LeafAnswer(tbl, q, d) == {x \in Table(d, tbl) : LeafAsked(q, x, d)}

LEMMA LeafAnswers ==
  ASSUME NEW tbl, NEW q, NEW m, IsMoment(m)
  PROVE  Answered(q, m, RunQuery(tbl, Where, q, m),
                  LeafAnswer(tbl, q, Ever(m)), LeafAnswer(tbl, q, Always(m)))
<1> DEFINE rows == {x \in Table(Seen(m), tbl) : Where(q, x)}
<1>1. rows \subseteq Ever(m)
  BY RowsAreThere
<1>2. LeafAnswer(tbl, q, Always(m)) \subseteq rows /\ rows \subseteq LeafAnswer(tbl, q, Ever(m))
  BY SeenBetween DEF LeafAnswer, LeafAsked
<1>3. RunQuery(tbl, Where, q, m) = Outcome(q, m, rows)
  BY DEF RunQuery
<1> HIDE DEF rows
<1> QED BY <1>1, <1>2, <1>3, OutcomeAnswers
-----------------------------------------------------------------------------
(* The stages. *)

LEMMA StageStarts ==
  ASSUME NEW q, AtRest(q), NEW m, IsMoment(m), NEW U, NEW H
  PROVE  Stage(q, m, MidRun(q, m), U, U, H, FALSE, FALSE)
<1> DEFINE s == MidRun(q, m)
<1>1. IsRun(s) /\ s.q = q /\ s.m = m /\ s.err = "none" /\ s.rows = {}
  BY DEF MidRun, IsRun
<1> HIDE DEF s
<1>2. Progress(m, s)
  BY <1>1, NothingYet DEF Progress
<1>3. Stage(q, m, s, U, U, H, FALSE, FALSE)
  BY <1>1, <1>2, RestNarrowed DEF Stage
<1> QED BY <1>3 DEF s

LEMMA StageLoosened ==
  ASSUME NEW q0, NEW m0, NEW s, NEW U, NEW G, NEW H, NEW i, NEW e,
         Stage(q0, m0, s, U, G, H, i, e),
         NEW G1, G \subseteq G1, NEW H1, H1 \subseteq H
  PROVE  Stage(q0, m0, s, U, G1, H1, TRUE, e) /\ Stage(q0, m0, s, U, G1, H1, i, TRUE)
BY DEF Stage, Narrowed

\* The rows the query itself selects.
Chosen(q, G) == {x \in G : Where(q, x)}

LEMMA StageEnds ==
  ASSUME NEW q0, AtRest(q0), NEW m0, NEW s, NEW tbl, NEW G, NEW H, NEW i, NEW e,
         Stage(q0, m0, s, Table(Ever(m0), tbl), G, H, i, e), H \subseteq Table(Always(m0), tbl)
  PROVE  Answered(q0, m0, Final(tbl, s), Chosen(q0, G), Chosen(q0, H))
<1>1. Progress(m0, s) /\ IsMoment(s.m) /\ IsRun(s) /\ s.rows = {} /\ s.err \in Errors
  BY DEF Stage, Progress, Reports
<1>2. Ends(m0, Final(tbl, s))
  <2>1. Held(s.q, "any", FALSE, FALSE)
    BY AnyHeld
  <2>2. Mid(m0, s, "any", FALSE, FALSE)
    BY <1>1, <2>1 DEF Mid
  <2> QED BY <2>2, FinalEnds DEF Over
<1>3. CASE s.err # "none"
  <2>1. Final(tbl, s) = s /\ s.q = q0 /\ s.rows = {}
    BY <1>1, <1>3 DEF Final, Stage
  <2>2. s.err # "db error" => \A x \in H : ~Admits(q0, x)
    BY <1>1, <1>3 DEF Stage, Errors
  <2>3. s.err # "db error" => Chosen(q0, H) = {}
    BY <2>2 DEF Chosen, Where, Admits
  <2> QED BY <1>2, <2>1, <2>3 DEF Answered
<1>4. CASE s.err = "none"
  <2> DEFINE r == RunQuery(tbl, Where, s.q, s.m)
             rows == LeafAnswer(tbl, s.q, Seen(s.m))
             t == Final(tbl, s)
  <2>1. Answered(s.q, s.m, r, LeafAnswer(tbl, s.q, Ever(s.m)), LeafAnswer(tbl, s.q, Always(s.m)))
    BY <1>1, LeafAnswers
  <2>2. t = [r EXCEPT !.q = Restore(r.q)]
    BY <1>4 DEF Final, Restored
  <2> HIDE DEF r
  <2>3. t.q = Restore(s.q) /\ t.err = r.err /\ t.rows = r.rows
    <3>1. IsRun(r) /\ r.q = s.q
      BY <2>1 DEF Answered, Ends
    <3> QED BY <2>2, <3>1 DEF IsRun
  <2> HIDE DEF t
  <2>4. Narrowed(q0, s.q, i, e)
    BY <1>4 DEF Stage
  <2>5. t.q = q0
    BY <2>3, <2>4, RestoreIsWhole
  <2>6. Ever(s.m) = Ever(m0) /\ Always(s.m) = Always(m0)
    BY SameMoments DEF Stage, Progress
  <2>7. \A x : Where(s.q, x) <=> /\ Column(x.val, q0.vals, FALSE)
                                 /\ Column(x.owner, q0.owners, FALSE)
                                 /\ Column(x.typ, q0.types, FALSE) /\ Admits(s.q, x)
    <3>1. s.q.vals = q0.vals /\ s.q.owners = q0.owners /\ s.q.types = q0.types
      BY <2>4 DEF Narrowed
    <3> QED BY <3>1 DEF Where, Admits
  <2>8. \A x : Where(q0, x) <=> /\ Column(x.val, q0.vals, FALSE)
                                /\ Column(x.owner, q0.owners, FALSE)
                                /\ Column(x.typ, q0.types, FALSE) /\ Admits(q0, x)
    BY DEF Where, Admits
  <2>9. t.rows \subseteq Chosen(q0, G)
    <3>1. t.rows \subseteq {x \in Table(Ever(m0), tbl) : Where(s.q, x)}
      BY <2>1, <2>3, <2>6 DEF Answered, LeafAnswer, LeafAsked
    <3>2. \A x \in Table(Ever(m0), tbl) : Admits(s.q, x) => x \in G /\ Admits(q0, x)
      BY <1>4 DEF Stage
    <3> QED BY <2>7, <2>8, <3>1, <3>2 DEF Chosen
  <2>10. t.err # "db error" => Chosen(q0, H) \subseteq t.rows
    <3>1. t.err # "db error" => {x \in Table(Always(m0), tbl) : Where(s.q, x)} \subseteq t.rows
      BY <2>1, <2>3, <2>6 DEF Answered, LeafAnswer, LeafAsked
    <3>2. \A x \in H : Admits(q0, x) => Admits(s.q, x)
      BY <1>4 DEF Stage
    <3> QED BY <2>7, <2>8, <3>1, <3>2 DEF Chosen
  <2> QED BY <1>2, <2>5, <2>9, <2>10 DEF Answered, t
<1> QED BY <1>3, <1>4

\* The rows of B below one of the IDs; the rows of G above one of B.
Owned(B, types, ids) == {y \in B : Column(y.typ, types, FALSE) /\ Column(y.owner, ids, FALSE)}
Heads(x, B, types) == \E y \in B : y.owner = x.id /\ Column(y.typ, types, FALSE)
Above(G, B, types) == {x \in G : Heads(x, B, types)}

LEMMA OwnersFound ==
  ASSUME NEW rows, NEW B, NEW types, NEW ids, rows \subseteq Owned(B, types, ids), rows # {},
         NEW x, Column(x.id, Owners(rows), FALSE)
  PROVE  Column(x.id, ids, FALSE) /\ Heads(x, B, types)
<1>1. Owners(rows) # {}
  BY DEF Owners
<1>2. PICK y \in rows : y.owner = x.id
  BY <1>1 DEF Column, Owners
<1> QED BY <1>2 DEF Owned, Heads

LEMMA OwnersMissed ==
  ASSUME NEW rows, NEW B, NEW types, NEW ids, Owned(B, types, ids) \subseteq rows,
         NEW x, Column(x.id, ids, FALSE), Heads(x, B, types)
  PROVE  rows # {} /\ Column(x.id, Owners(rows), FALSE)
<1>1. PICK y \in rows : y.owner = x.id
  BY DEF Owned, Heads
<1>2. x.id \in Owners(rows)
  BY <1>1 DEF Owners
<1> QED BY <1>1, <1>2 DEF Column

LEMMA OwnerStage ==
  ASSUME NEW q0, AtRest(q0), NEW m0, NEW s, NEW U, NEW G, NEW H, NEW i, NEW e,
         Stage(q0, m0, s, U, G, H, i, e), s.err = "none",
         NEW name \in DOMAIN q0.subs, name \notin Grouped, NEW x, q0.subs[name] = <<x>>,
         NEW B, NEW S, NEW types, NEW p, NEW r,
         Answered(p, s.m, r, Owned(B, types, s.q.ids), Owned(S, types, s.q.ids)),
         Disowned(p) = x
  PROVE  Stage(q0, m0, NarrowByOwner(s, name, r), U, Above(G, B, types), Above(H, S, types),
               TRUE, e)
<1> DEFINE t == NarrowByOwner(s, name, r)
<1>a. PICK q : q = saveIDs(s.q)
  OBVIOUS
<1>b. PICK ids : ids = Owners(r.rows)
  OBVIOUS
<1>1. Progress(m0, s) /\ IsRun(s) /\ Ends(s.m, r) /\ r.q = p /\ Narrowed(q0, s.q, i, e)
  BY DEF Stage, Progress, Answered
<1>2. Progress(m0, t)
  <2>1. Held(s.q, "any", FALSE, FALSE)
    BY AnyHeld
  <2>2. Mid(m0, s, "any", FALSE, FALSE)
    BY <1>1, <2>1 DEF Mid
  <2>3. Mid(m0, t, "any", TRUE, FALSE)
    BY <1>1, <2>2, OwnerNarrows
  <2> QED BY <2>3 DEF Mid
<1>3. /\ Narrowed(q0, q, TRUE, e) /\ Narrowed(q0, WithIDs(q, ids), TRUE, e)
      /\ WithIDs(q, ids).ids = ids /\ WithIDs(q, ids).envs = s.q.envs
  <2>1. Narrowed(q0, s.q, i, e)
    BY <1>1
  <2> HIDE DEF t
  <2>2. Narrowed(q0, q, TRUE, e)
    BY <2>1, <1>a, SaveIDsNarrowed
  <2>3. Narrowed(q0, WithIDs(q, ids), TRUE, e)
    BY <2>1, <1>a, SaveIDsNarrowed
  <2>4. WithIDs(q, ids).ids = ids /\ WithIDs(q, ids).envs = q.envs
    BY <2>2 DEF Narrowed, WithIDs
  <2>5. q.envs = s.q.envs
    BY <2>1, <1>a DEF Narrowed, saveIDs
  <2> QED BY <2>2, <2>3, <2>4, <2>5
<1>4. WithSub(q, name, <<Disowned(r.q)>>) = q
  BY <1>1, <1>3, SameSub
<1>5. t = IF r.err # "none" THEN Fails(s, Restore(q), r)
          ELSE GoesOn(s, WithIDs(q, ids), r.m)
  BY <1>4, <1>a, <1>b DEF NarrowByOwner, GoesOn, WithIDs, WithSub
<1>6. \A y \in U : Admits(s.q, y) => y \in G /\ Admits(q0, y)
  BY DEF Stage
<1>7. \A y \in H : Admits(q0, y) => Admits(s.q, y)
  BY DEF Stage
<1>8. r.err \in Errors /\ (r.err = "none" <=> r.rows # {})
  BY <1>1 DEF Ends, Reports
<1> HIDE DEF t
<1>9. CASE r.err # "none"
  <2>1. t.q = q0 /\ t.err = r.err
    <3>1. t = Fails(s, Restore(q), r) /\ Restore(q) = q0
      BY <1>3, <1>5, <1>9, RestoreIsWhole
    <3>2. t = [q |-> q0, m |-> r.m, err |-> r.err, rows |-> s.rows]
      BY <1>1, <3>1, FailsIs
    <3> QED BY <3>2
  <2>2. ASSUME r.err = "no match", NEW y \in Above(H, S, types), Admits(q0, y) PROVE FALSE
    <3>1. y \in H /\ Heads(y, S, types)
      BY <2>2 DEF Above
    <3>2. Column(y.id, s.q.ids, FALSE)
      BY <1>7, <2>2, <3>1 DEF Admits
    <3>3. Owned(S, types, s.q.ids) \subseteq r.rows
      BY <2>2 DEF Answered
    <3>4. r.rows # {}
      BY <3>1, <3>2, <3>3, OwnersMissed
    <3> QED BY <1>8, <2>2, <3>4
  <2> QED BY <1>2, <1>9, <2>1, <2>2 DEF Stage, t
<1>10. CASE r.err = "none"
  <2>1. t.q = WithIDs(q, ids) /\ t.err = "none"
    BY <1>1, <1>5, <1>10, GoesOnIs
  <2>2. Narrowed(q0, t.q, TRUE, e) /\ t.q.ids = ids /\ t.q.envs = s.q.envs
    BY <1>3, <2>1
  <2>3. ASSUME NEW y \in U, Admits(t.q, y) PROVE y \in Above(G, B, types) /\ Admits(q0, y)
    <3>1. Column(y.id, ids, FALSE) /\ Column(y.env, s.q.envs, FALSE)
      BY <2>2, <2>3 DEF Admits
    <3>2. /\ Column(y.id, s.q.ids, FALSE)
          /\ Heads(y, B, types)
      BY <1>8, <1>10, <1>b, <3>1, OwnersFound DEF Answered
    <3>3. Admits(s.q, y)
      BY <3>1, <3>2 DEF Admits
    <3> QED BY <1>6, <3>2, <3>3 DEF Above
  <2>4. ASSUME NEW y \in Above(H, S, types), Admits(q0, y) PROVE Admits(t.q, y)
    <3>1. y \in H /\ Heads(y, S, types)
      BY <2>4 DEF Above
    <3>2. Column(y.id, s.q.ids, FALSE) /\ Column(y.env, s.q.envs, FALSE)
      BY <1>7, <2>4, <3>1 DEF Admits
    <3>3. Owned(S, types, s.q.ids) \subseteq r.rows
      BY <1>10 DEF Answered
    <3>4. Column(y.id, ids, FALSE)
      BY <1>b, <3>1, <3>2, <3>3, OwnersMissed
    <3> QED BY <2>2, <3>2, <3>4 DEF Admits
  <2> QED BY <1>2, <2>1, <2>2, <2>3, <2>4 DEF Stage, t
<1> QED BY <1>9, <1>10
-----------------------------------------------------------------------------
(* A subquery while it runs: it has the owners, and owner types, of its caller. *)

LEMMA OwnedByIs ==
  ASSUME NEW x, AtRest(x), NEW types, NEW ids
  PROVE  OwnedBy(x, types, ids) =
           [vals |-> x.vals, ids |-> x.ids, owners |-> x.owners \cup ids,
            types |-> x.types \cup types, envs |-> x.envs, savedIDs |-> {}, saved |-> FALSE,
            savedEnvs |-> {}, envSaved |-> FALSE, subs |-> x.subs]
<1>1. PICK a, b, c, d, f, g :
        x = [vals |-> a, ids |-> b, owners |-> c, types |-> d, envs |-> f, savedIDs |-> {},
             saved |-> FALSE, savedEnvs |-> {}, envSaved |-> FALSE, subs |-> g]
  BY DEF AtRest
<1>2. PICK y : y = [x EXCEPT !.types = x.types \cup types]
  OBVIOUS
<1>3. y = [vals |-> a, ids |-> b, owners |-> c, types |-> d \cup types, envs |-> f,
           savedIDs |-> {}, saved |-> FALSE, savedEnvs |-> {}, envSaved |-> FALSE, subs |-> g]
  BY <1>1, <1>2
<1>4. OwnedBy(x, types, ids) = [y EXCEPT !.owners = y.owners \cup ids]
  BY <1>2 DEF OwnedBy
<1>5. OwnedBy(x, types, ids) =
        [vals |-> a, ids |-> b, owners |-> c \cup ids, types |-> d \cup types, envs |-> f,
         savedIDs |-> {}, saved |-> FALSE, savedEnvs |-> {}, envSaved |-> FALSE, subs |-> g]
  BY <1>3, <1>4
<1> QED BY <1>1, <1>5

LEMMA OwnedByRests ==
  ASSUME NEW x, AtRest(x), NEW types, NEW ids
  PROVE  /\ AtRest(OwnedBy(x, types, ids)) /\ OwnedBy(x, types, ids).subs = x.subs
         /\ OwnedBy(x, types, ids).ids = x.ids /\ OwnedBy(x, types, ids).envs = x.envs
<1>1. PICK p : p = OwnedBy(x, types, ids)
  OBVIOUS
<1>2. p = [vals |-> x.vals, ids |-> x.ids, owners |-> x.owners \cup ids,
           types |-> x.types \cup types, envs |-> x.envs, savedIDs |-> {}, saved |-> FALSE,
           savedEnvs |-> {}, envSaved |-> FALSE, subs |-> x.subs]
  BY <1>1, OwnedByIs
<1>3. p.subs = x.subs /\ p.ids = x.ids /\ p.envs = x.envs
  BY <1>2
<1>4. x.subs = [name \in DOMAIN x.subs |-> x.subs[name]]
  BY DEF AtRest
<1>5. AtRest(p)
  BY <1>2, <1>4 DEF AtRest
<1> QED BY <1>1, <1>3, <1>5

LEMMA OwnedByWhere ==
  ASSUME NEW x, AtRest(x), NEW types, NEW ids, x.owners = {}, x.types = {} \/ types = {}, NEW y
  PROVE  Where(OwnedBy(x, types, ids), y)
           <=> Where(x, y) /\ Column(y.typ, types, FALSE) /\ Column(y.owner, ids, FALSE)
<1>1. PICK p : p = OwnedBy(x, types, ids)
  OBVIOUS
<1>2. /\ p.vals = x.vals /\ p.ids = x.ids /\ p.owners = ids /\ p.envs = x.envs
      /\ p.types = x.types \cup types
  <2>1. p = [vals |-> x.vals, ids |-> x.ids, owners |-> x.owners \cup ids,
             types |-> x.types \cup types, envs |-> x.envs, savedIDs |-> {}, saved |-> FALSE,
             savedEnvs |-> {}, envSaved |-> FALSE, subs |-> x.subs]
    BY <1>1, OwnedByIs
  <2>2. x.owners \cup ids = ids
    OBVIOUS
  <2> QED BY <2>1, <2>2
<1>3. Column(y.typ, p.types, FALSE) <=> Column(y.typ, x.types, FALSE) /\ Column(y.typ, types, FALSE)
  BY <1>2 DEF Column
<1>4. Column(y.owner, x.owners, FALSE)
  BY DEF Column
<1>5. Where(p, y) <=> Where(x, y) /\ Column(y.typ, types, FALSE) /\ Column(y.owner, ids, FALSE)
  BY <1>2, <1>3, <1>4 DEF Where
<1> QED BY <1>1, <1>5

LEMMA OwnedByUndone ==
  ASSUME NEW x, AtRest(x), NEW types, NEW ids, x.owners = {}
  PROVE  /\ x.types = {} => Disowned(OwnedBy(x, types, ids)) = x
         /\ types = {} => WithoutOwners(OwnedBy(x, types, ids)) = x
<1>1. PICK p : p = OwnedBy(x, types, ids)
  OBVIOUS
<1>2. p = [vals |-> x.vals, ids |-> x.ids, owners |-> x.owners \cup ids,
           types |-> x.types \cup types, envs |-> x.envs, savedIDs |-> {}, saved |-> FALSE,
           savedEnvs |-> {}, envSaved |-> FALSE, subs |-> x.subs]
  BY <1>1, OwnedByIs
<1>3. ASSUME x.types = {} PROVE Disowned(p) = x
  <2>1. PICK y : y = [p EXCEPT !.types = {}]
    OBVIOUS
  <2>2. y = [vals |-> x.vals, ids |-> x.ids, owners |-> x.owners \cup ids,
             types |-> {}, envs |-> x.envs, savedIDs |-> {}, saved |-> FALSE,
             savedEnvs |-> {}, envSaved |-> FALSE, subs |-> x.subs]
    BY <1>2, <2>1
  <2>3. Disowned(p) = [y EXCEPT !.owners = {}]
    BY <2>1 DEF Disowned
  <2>4. Disowned(p) =
          [vals |-> x.vals, ids |-> x.ids, owners |-> x.owners, types |-> x.types,
           envs |-> x.envs, savedIDs |-> {}, saved |-> FALSE, savedEnvs |-> {},
           envSaved |-> FALSE, subs |-> x.subs]
    BY <1>3, <2>2, <2>3
  <2> QED BY <2>4, RestIs
<1>4. ASSUME types = {} PROVE WithoutOwners(p) = x
  <2>0. x.types \cup types = x.types
    BY <1>4
  <2>1. WithoutOwners(p) =
          [vals |-> x.vals, ids |-> x.ids, owners |-> {}, types |-> x.types \cup types,
           envs |-> x.envs, savedIDs |-> {}, saved |-> FALSE, savedEnvs |-> {},
           envSaved |-> FALSE, subs |-> x.subs]
    <3>1. PICK y : y = [p EXCEPT !.owners = {}]
      OBVIOUS
    <3>2. y = [vals |-> x.vals, ids |-> x.ids, owners |-> {}, types |-> x.types \cup types,
               envs |-> x.envs, savedIDs |-> {}, saved |-> FALSE, savedEnvs |-> {},
               envSaved |-> FALSE, subs |-> x.subs]
      BY <1>2, <3>1
    <3> QED BY <3>1, <3>2 DEF WithoutOwners
  <2>2. WithoutOwners(p) =
          [vals |-> x.vals, ids |-> x.ids, owners |-> x.owners, types |-> x.types,
           envs |-> x.envs, savedIDs |-> {}, saved |-> FALSE, savedEnvs |-> {},
           envSaved |-> FALSE, subs |-> x.subs]
    BY <2>0, <2>1
  <2> QED BY <2>2, RestIs
<1> QED BY <1>1, <1>3, <1>4

\* The subquery, if there is one; what it leaves of G if it finds the rows of B; and what
\* becomes of a run.
Sole(q, name, x) == name \in DOMAIN q.subs => q.subs[name] = <<x>> /\ Bare(x)
Kept(q, name, G, B, types) == IF name \in DOMAIN q.subs THEN Above(G, B, types) ELSE G
Narrowing(s, name, r) == IF Skips(s, name) THEN s ELSE NarrowByOwner(s, name, r)

LEMMA OwnerGoes ==
  ASSUME NEW q0, AtRest(q0), NEW m0, NEW s, NEW U, NEW G, NEW H, NEW i, NEW e,
         Stage(q0, m0, s, U, G, H, i, e), NEW name, name \notin Grouped, NEW x,
         Sole(q0, name, x), NEW types, NEW r, NEW B, NEW S,
         s.err = "none" /\ name \in DOMAIN q0.subs
           => Answered(OwnedBy(x, types, s.q.ids), s.m, r, Owned(B, types, s.q.ids),
                       Owned(S, types, s.q.ids))
  PROVE  Stage(q0, m0, Narrowing(s, name, r), U, Kept(q0, name, G, B, types),
               Kept(q0, name, H, S, types), TRUE, e)
<1>1. PICK t : t = Narrowing(s, name, r)
  OBVIOUS
<1>2. PICK G1 : G1 = Kept(q0, name, G, B, types)
  OBVIOUS
<1>3. PICK H1 : H1 = Kept(q0, name, H, S, types)
  OBVIOUS
<1>4. H1 \subseteq H
  BY <1>3 DEF Kept, Above
<1>5. CASE s.err # "none"
  <2>1. t = s
    BY <1>1, <1>5 DEF Skips, Narrowing
  <2>2. Stage(q0, m0, s, U, G1, H1, TRUE, e)
    BY <1>4, <1>5 DEF Stage
  <2> QED BY <1>1, <1>2, <1>3, <2>1, <2>2
<1>6. CASE s.err = "none" /\ name \notin DOMAIN q0.subs
  <2>1. s.q.subs = q0.subs
    BY <1>6 DEF Stage, Narrowed
  <2>2. t = s
    BY <1>1, <1>6, <2>1 DEF Skips, Sub, Narrowing
  <2>3. G \subseteq G1
    BY <1>2, <1>6 DEF Kept
  <2>4. Stage(q0, m0, s, U, G1, H1, TRUE, e)
    BY <1>4, <2>3, StageLoosened
  <2> QED BY <1>1, <1>2, <1>3, <2>2, <2>4
<1>7. CASE s.err = "none" /\ name \in DOMAIN q0.subs
  <2>1. s.q.subs = q0.subs
    BY <1>7 DEF Stage, Narrowed
  <2>2. q0.subs[name] # <<>>
    <3>1. DOMAIN <<x>> = {1} /\ DOMAIN <<>> = {}
      OBVIOUS
    <3> QED BY <1>7, <3>1 DEF Sole
  <2>3. t = NarrowByOwner(s, name, r)
    BY <1>1, <1>7, <2>1, <2>2 DEF Skips, Sub, Narrowing
  <2>4. PICK p : p = OwnedBy(x, types, s.q.ids)
    OBVIOUS
  <2>5. Disowned(p) = x /\ q0.subs[name] = <<x>>
    BY <1>7, <2>4, OwnedByUndone DEF Bare, Sole
  <2>6. Answered(p, s.m, r, Owned(B, types, s.q.ids), Owned(S, types, s.q.ids))
    BY <1>7, <2>4
  <2>7. Stage(q0, m0, t, U, Above(G, B, types), Above(H, S, types), TRUE, e)
    BY <1>7, <2>3, <2>5, <2>6, OwnerStage
  <2>8. Above(G, B, types) = G1 /\ Above(H, S, types) = H1
    BY <1>2, <1>3, <1>7 DEF Kept
  <2> QED BY <1>1, <1>2, <1>3, <2>7, <2>8
<1> QED BY <1>5, <1>6, <1>7

\* The rows of G with a row below them for the subquery, if there is one.
HasLeaf(q, name, tbl, types, G, d) == {x \in G : Has(q, name, tbl, types, x, d, LeafAsked)}

LEMMA LeafOwned ==
  ASSUME NEW tbl, NEW x, AtRest(x), x.owners = {}, NEW types, x.types = {} \/ types = {},
         NEW ids, NEW d
  PROVE  LeafAnswer(tbl, OwnedBy(x, types, ids), d) = Owned(LeafAnswer(tbl, x, d), types, ids)
BY OwnedByWhere DEF LeafAnswer, LeafAsked, Owned

LEMMA HasLeafIs ==
  ASSUME NEW q, NEW name, NEW x, Sole(q, name, x), NEW tbl, NEW types, NEW G, NEW d
  PROVE  HasLeaf(q, name, tbl, types, G, d) = Kept(q, name, G, LeafAnswer(tbl, x, d), types)
<1>1. CASE name \notin DOMAIN q.subs
  <2>1. DOMAIN Sub(q, name) = {}
    BY <1>1 DEF Sub
  <2> QED BY <1>1, <2>1 DEF HasLeaf, Has, Kept
<1>2. CASE name \in DOMAIN q.subs
  <2>1. DOMAIN Sub(q, name) = {1} /\ q.subs[name][1] = x
    BY <1>2 DEF Sub, Sole
  <2> QED BY <1>2, <2>1 DEF HasLeaf, Has, Kept, Above, Heads, LeafAnswer
<1> QED BY <1>1, <1>2

LEMMA LeafGoes ==
  ASSUME NEW q0, AtRest(q0), NEW m0, NEW s, NEW U, NEW G, NEW H, NEW i, NEW e,
         Stage(q0, m0, s, U, G, H, i, e), NEW name, name \notin Grouped,
         Single(q0, name, AsksLeaf), NEW tbl, NEW types,
         NEW r, r = RunQuery(tbl, Where, OwnedBy(s.q.subs[name][1], types, s.q.ids), s.m)
  PROVE  Stage(q0, m0, Narrowing(s, name, r), U, HasLeaf(q0, name, tbl, types, G, Ever(m0)),
               HasLeaf(q0, name, tbl, types, H, Always(m0)), TRUE, e)
<1>1. PICK x : x = q0.subs[name][1]
  OBVIOUS
<1>2. Sole(q0, name, x)
  BY <1>1 DEF Single, Sole
<1>3. PICK p : p = OwnedBy(x, types, s.q.ids)
  OBVIOUS
<1>4. IsMoment(s.m) /\ Ever(s.m) = Ever(m0) /\ Always(s.m) = Always(m0)
  BY SameMoments DEF Stage, Progress
<1>5. ASSUME s.err = "none", name \in DOMAIN q0.subs
      PROVE  Answered(p, s.m, r, Owned(LeafAnswer(tbl, x, Ever(m0)), types, s.q.ids),
                      Owned(LeafAnswer(tbl, x, Always(m0)), types, s.q.ids))
  <2>1. s.q.subs = q0.subs
    BY <1>5 DEF Stage, Narrowed
  <2>2. r = RunQuery(tbl, Where, p, s.m)
    BY <1>1, <1>3, <2>1
  <2>3. Answered(p, s.m, r, LeafAnswer(tbl, p, Ever(m0)), LeafAnswer(tbl, p, Always(m0)))
    BY <1>4, <2>2, LeafAnswers
  <2>4. AtRest(x) /\ x.owners = {} /\ x.types = {}
    BY <1>2, <1>5 DEF Bare, Sole
  <2>5. \A d : LeafAnswer(tbl, p, d) = Owned(LeafAnswer(tbl, x, d), types, s.q.ids)
    BY <1>3, <2>4, LeafOwned
  <2> QED BY <2>3, <2>5
<1>6. \A K, d : HasLeaf(q0, name, tbl, types, K, d)
                = Kept(q0, name, K, LeafAnswer(tbl, x, d), types)
  BY <1>2, HasLeafIs
<1>7. Stage(q0, m0, Narrowing(s, name, r), U, Kept(q0, name, G, LeafAnswer(tbl, x, Ever(m0)), types),
            Kept(q0, name, H, LeafAnswer(tbl, x, Always(m0)), types), TRUE, e)
  BY <1>2, <1>3, <1>5, OwnerGoes
<1> QED BY <1>6, <1>7

LEMMA CryptoKeyStage ==
  ASSUME NEW q0, AtRest(q0), NEW m0, NEW s, NEW U, NEW G, NEW H, NEW i, NEW e,
         Stage(q0, m0, s, U, G, H, i, e), NEW name, name \notin Grouped,
         Single(q0, name, AsksLeaf), NEW types
  PROVE  Stage(q0, m0, ByOwner(name, types, RunCryptoKey, s), U,
               HasLeaf(q0, name, "cryptokeys", types, G, Ever(m0)),
               HasLeaf(q0, name, "cryptokeys", types, H, Always(m0)), TRUE, e)
<1>1. PICK tbl : tbl = "cryptokeys"
  OBVIOUS
<1>2. PICK r : r = RunQuery(tbl, Where, OwnedBy(s.q.subs[name][1], types, s.q.ids), s.m)
  OBVIOUS
<1>3. ByOwner(name, types, RunCryptoKey, s) = Narrowing(s, name, r)
  BY <1>1, <1>2 DEF ByOwner, RunCryptoKey, Narrowing
<1> QED BY <1>1, <1>2, <1>3, LeafGoes

LEMMA DigestStage ==
  ASSUME NEW q0, AtRest(q0), NEW m0, NEW s, NEW U, NEW G, NEW H, NEW i, NEW e,
         Stage(q0, m0, s, U, G, H, i, e), NEW name, name \notin Grouped,
         Single(q0, name, AsksLeaf), NEW types
  PROVE  Stage(q0, m0, ByOwner(name, types, RunDigest, s), U,
               HasLeaf(q0, name, "digests", types, G, Ever(m0)),
               HasLeaf(q0, name, "digests", types, H, Always(m0)), TRUE, e)
<1>1. PICK tbl : tbl = "digests"
  OBVIOUS
<1>2. PICK r : r = RunQuery(tbl, Where, OwnedBy(s.q.subs[name][1], types, s.q.ids), s.m)
  OBVIOUS
<1>3. ByOwner(name, types, RunDigest, s) = Narrowing(s, name, r)
  BY <1>1, <1>2 DEF ByOwner, RunDigest, Narrowing
<1> QED BY <1>1, <1>2, <1>3, LeafGoes

LEMMA MeasurementValueStage ==
  ASSUME NEW q0, AtRest(q0), NEW m0, NEW s, NEW U, NEW G, NEW H, NEW i, NEW e,
         Stage(q0, m0, s, U, G, H, i, e), NEW name, name \notin Grouped,
         Single(q0, name, AsksLeaf), NEW types
  PROVE  Stage(q0, m0, ByOwner(name, types, RunMeasurementValue, s), U,
               HasLeaf(q0, name, "measurement_value_entries", types, G, Ever(m0)),
               HasLeaf(q0, name, "measurement_value_entries", types, H, Always(m0)), TRUE, e)
<1>1. PICK tbl : tbl = "measurement_value_entries"
  OBVIOUS
<1>2. PICK r : r = RunQuery(tbl, Where, OwnedBy(s.q.subs[name][1], types, s.q.ids), s.m)
  OBVIOUS
<1>3. ByOwner(name, types, RunMeasurementValue, s) = Narrowing(s, name, r)
  BY <1>1, <1>2 DEF ByOwner, RunMeasurementValue, Narrowing
<1> QED BY <1>1, <1>2, <1>3, LeafGoes

LEMMA FlagStage ==
  ASSUME NEW q0, AtRest(q0), NEW m0, NEW s, NEW U, NEW G, NEW H, NEW i, NEW e,
         Stage(q0, m0, s, U, G, H, i, e), NEW name, name \notin Grouped,
         Single(q0, name, AsksLeaf), NEW types
  PROVE  Stage(q0, m0, ByOwner(name, types, RunFlag, s), U,
               HasLeaf(q0, name, "flags", types, G, Ever(m0)),
               HasLeaf(q0, name, "flags", types, H, Always(m0)), TRUE, e)
<1>1. PICK tbl : tbl = "flags"
  OBVIOUS
<1>2. PICK r : r = RunQuery(tbl, Where, OwnedBy(s.q.subs[name][1], types, s.q.ids), s.m)
  OBVIOUS
<1>3. ByOwner(name, types, RunFlag, s) = Narrowing(s, name, r)
  BY <1>1, <1>2 DEF ByOwner, RunFlag, Narrowing
<1> QED BY <1>1, <1>2, <1>3, LeafGoes

LEMMA HrefStage ==
  ASSUME NEW q0, AtRest(q0), NEW m0, NEW s, NEW U, NEW G, NEW H, NEW i, NEW e,
         Stage(q0, m0, s, U, G, H, i, e), NEW name, name \notin Grouped,
         Single(q0, name, AsksLeaf), NEW types
  PROVE  Stage(q0, m0, ByOwner(name, types, RunHref, s), U,
               HasLeaf(q0, name, "hrefs", types, G, Ever(m0)),
               HasLeaf(q0, name, "hrefs", types, H, Always(m0)), TRUE, e)
<1>1. PICK tbl : tbl = "hrefs"
  OBVIOUS
<1>2. PICK r : r = RunQuery(tbl, Where, OwnedBy(s.q.subs[name][1], types, s.q.ids), s.m)
  OBVIOUS
<1>3. ByOwner(name, types, RunHref, s) = Narrowing(s, name, r)
  BY <1>1, <1>2 DEF ByOwner, RunHref, Narrowing
<1> QED BY <1>1, <1>2, <1>3, LeafGoes

LEMMA LinkedTagStage ==
  ASSUME NEW q0, AtRest(q0), NEW m0, NEW s, NEW U, NEW G, NEW H, NEW i, NEW e,
         Stage(q0, m0, s, U, G, H, i, e), NEW name, name \notin Grouped,
         Single(q0, name, AsksLeaf), NEW types
  PROVE  Stage(q0, m0, ByOwner(name, types, RunLinkedTag, s), U,
               HasLeaf(q0, name, "linked_tags", types, G, Ever(m0)),
               HasLeaf(q0, name, "linked_tags", types, H, Always(m0)), TRUE, e)
<1>1. PICK tbl : tbl = "linked_tags"
  OBVIOUS
<1>2. PICK r : r = RunQuery(tbl, Where, OwnedBy(s.q.subs[name][1], types, s.q.ids), s.m)
  OBVIOUS
<1>3. ByOwner(name, types, RunLinkedTag, s) = Narrowing(s, name, r)
  BY <1>1, <1>2 DEF ByOwner, RunLinkedTag, Narrowing
<1> QED BY <1>1, <1>2, <1>3, LeafGoes
-----------------------------------------------------------------------------
(* What each run returns: first the queries without groups. *)

IntegrityRegisterAnswer(q, d) == {x \in Table(d, "integrity_registers") : IntegrityRegisterAsked(q, x, d)}

LEMMA IntegrityRegisterAnswers ==
  ASSUME NEW q, AtRest(q), AsksRegister(q), NEW m, IsMoment(m)
  PROVE  Answered(q, m, RunIntegrityRegister(q, m), IntegrityRegisterAnswer(q, Ever(m)), IntegrityRegisterAnswer(q, Always(m)))
<1>1. PICK tbl : tbl = "integrity_registers"
  OBVIOUS
<1>2. PICK A0 : A0 = Table(Ever(m), tbl)
  OBVIOUS
<1>3. PICK B0 : B0 = Table(Always(m), tbl)
  OBVIOUS
<1>4. PICK s0 : s0 = MidRun(q, m)
  OBVIOUS
<1>5. Stage(q, m, s0, A0, A0, B0, FALSE, FALSE)
  BY <1>4, StageStarts
<1>6. PICK s1 : s1 = ByOwner("digests", {"integrity_register"}, RunDigest, s0)
  OBVIOUS
<1>7. PICK A1 : A1 = HasLeaf(q, "digests", "digests", {"integrity_register"}, A0, Ever(m))
  OBVIOUS
<1>8. PICK B1 : B1 = HasLeaf(q, "digests", "digests", {"integrity_register"}, B0, Always(m))
  OBVIOUS
<1>9. Single(q, "digests", AsksLeaf) /\ "digests" \notin Grouped
  BY DEF AsksRegister, Grouped, Single
<1>10. Stage(q, m, s1, A0, A1, B1, TRUE, FALSE)
  BY <1>5, <1>6, <1>7, <1>8, <1>9, DigestStage
<1>11. B1 \subseteq B0
  BY <1>7, <1>8 DEF HasLeaf
<1>12. Answered(q, m, Final(tbl, s1), Chosen(q, A1), Chosen(q, B1))
  BY <1>2, <1>3, <1>10, <1>11, StageEnds
<1>13. RunIntegrityRegister(q, m) = Final(tbl, s1)
  BY <1>1, <1>4, <1>6 DEF RunIntegrityRegister
<1>14. Chosen(q, A1) = IntegrityRegisterAnswer(q, Ever(m)) /\ Chosen(q, B1) = IntegrityRegisterAnswer(q, Always(m))
  BY <1>1, <1>2, <1>3, <1>7, <1>8 DEF Chosen, HasLeaf, IntegrityRegisterAnswer, IntegrityRegisterAsked, DigestsAsked
<1> QED BY <1>12, <1>13, <1>14

LEMMA IntegrityRegisterOwned ==
  ASSUME NEW x, AtRest(x), x.owners = {}, NEW types, x.types = {} \/ types = {}, NEW ids,
         AsksRegister(x)
  PROVE  /\ AtRest(OwnedBy(x, types, ids)) /\ AsksRegister(OwnedBy(x, types, ids))
         /\ \A d : IntegrityRegisterAnswer(OwnedBy(x, types, ids), d) = Owned(IntegrityRegisterAnswer(x, d), types, ids)
<1>1. PICK p : p = OwnedBy(x, types, ids)
  OBVIOUS
<1>2. AtRest(p) /\ p.subs = x.subs /\ p.ids = x.ids /\ p.envs = x.envs
  BY <1>1, OwnedByRests
<1>3. AsksRegister(p)
  BY <1>2 DEF AsksRegister, Single
<1>4. \A y : Where(p, y) <=> Where(x, y) /\ Column(y.typ, types, FALSE) /\ Column(y.owner, ids, FALSE)
  BY <1>1, OwnedByWhere
<1>5. ASSUME NEW y, NEW d
      PROVE  IntegrityRegisterAsked(p, y, d) <=> IntegrityRegisterAsked(x, y, d) /\ Column(y.typ, types, FALSE)
                                                 /\ Column(y.owner, ids, FALSE)
  BY <1>2, <1>4 DEF IntegrityRegisterAsked, DigestsAsked, Has, Sub, InEnv, MeasurementsAsked
<1>6. \A d : IntegrityRegisterAnswer(p, d) = Owned(IntegrityRegisterAnswer(x, d), types, ids)
  BY <1>5 DEF IntegrityRegisterAnswer, Owned
<1> QED BY <1>1, <1>2, <1>3, <1>6

HasIntegrityRegister(q, name, types, G, d) ==
  {x \in G : Has(q, name, "integrity_registers", types, x, d, IntegrityRegisterAsked)}

LEMMA HasIntegrityRegisterIs ==
  ASSUME NEW q, NEW name, NEW x, Sole(q, name, x), NEW types, NEW G, NEW d
  PROVE  HasIntegrityRegister(q, name, types, G, d) = Kept(q, name, G, IntegrityRegisterAnswer(x, d), types)
<1>1. CASE name \notin DOMAIN q.subs
  <2>1. DOMAIN Sub(q, name) = {}
    BY <1>1 DEF Sub
  <2> QED BY <1>1, <2>1 DEF HasIntegrityRegister, Has, Kept
<1>2. CASE name \in DOMAIN q.subs
  <2>1. DOMAIN Sub(q, name) = {1} /\ q.subs[name][1] = x
    BY <1>2 DEF Sub, Sole
  <2> QED BY <1>2, <2>1 DEF HasIntegrityRegister, Has, Kept, Above, Heads, IntegrityRegisterAnswer
<1> QED BY <1>1, <1>2

LEMMA IntegrityRegisterStage ==
  ASSUME NEW q0, AtRest(q0), NEW m0, NEW s, NEW U, NEW G, NEW H, NEW i, NEW e,
         Stage(q0, m0, s, U, G, H, i, e), NEW name, name \notin Grouped,
         Single(q0, name, AsksRegister), NEW types
  PROVE  Stage(q0, m0, ByOwner(name, types, RunIntegrityRegister, s), U,
               HasIntegrityRegister(q0, name, types, G, Ever(m0)), HasIntegrityRegister(q0, name, types, H, Always(m0)),
               TRUE, e)
<1>1. PICK x : x = q0.subs[name][1]
  OBVIOUS
<1>2. Sole(q0, name, x) /\ (name \in DOMAIN q0.subs => AsksRegister(x))
  BY <1>1 DEF Single, Sole
<1>3. PICK p : p = OwnedBy(x, types, s.q.ids)
  OBVIOUS
<1>4. IsMoment(s.m) /\ Ever(s.m) = Ever(m0) /\ Always(s.m) = Always(m0)
  BY SameMoments DEF Stage, Progress
<1>5. PICK r : r = RunIntegrityRegister(OwnedBy(s.q.subs[name][1], types, s.q.ids), s.m)
  OBVIOUS
<1>6. ASSUME s.err = "none", name \in DOMAIN q0.subs
      PROVE  Answered(p, s.m, r, Owned(IntegrityRegisterAnswer(x, Ever(m0)), types, s.q.ids),
                      Owned(IntegrityRegisterAnswer(x, Always(m0)), types, s.q.ids))
  <2>1. s.q.subs = q0.subs
    BY <1>6 DEF Stage, Narrowed
  <2>2. r = RunIntegrityRegister(p, s.m)
    BY <1>1, <1>3, <1>5, <2>1
  <2>3. AtRest(x) /\ x.owners = {} /\ x.types = {} /\ AsksRegister(x)
    BY <1>2, <1>6 DEF Bare, Sole
  <2>4. /\ AtRest(p) /\ AsksRegister(p)
        /\ \A d : IntegrityRegisterAnswer(p, d) = Owned(IntegrityRegisterAnswer(x, d), types, s.q.ids)
    BY <1>3, <2>3, IntegrityRegisterOwned
  <2>5. Answered(p, s.m, r, IntegrityRegisterAnswer(p, Ever(m0)), IntegrityRegisterAnswer(p, Always(m0)))
    BY <1>4, <2>2, <2>4, IntegrityRegisterAnswers
  <2> QED BY <2>4, <2>5
<1>7. \A K, d : HasIntegrityRegister(q0, name, types, K, d) = Kept(q0, name, K, IntegrityRegisterAnswer(x, d), types)
  BY <1>2, HasIntegrityRegisterIs
<1>8. ByOwner(name, types, RunIntegrityRegister, s) = Narrowing(s, name, r)
  BY <1>5 DEF ByOwner, Narrowing
<1>9. Stage(q0, m0, Narrowing(s, name, r), U, Kept(q0, name, G, IntegrityRegisterAnswer(x, Ever(m0)), types),
            Kept(q0, name, H, IntegrityRegisterAnswer(x, Always(m0)), types), TRUE, e)
  BY <1>2, <1>3, <1>6, OwnerGoes
<1> QED BY <1>7, <1>8, <1>9
MeasurementAnswer(q, d) == {x \in Table(d, "measurements") : MeasurementAsked(q, x, d)}

LEMMA MeasurementAnswers ==
  ASSUME NEW q, AtRest(q), AsksMeasurement(q), NEW m, IsMoment(m)
  PROVE  Answered(q, m, RunMeasurement(q, m), MeasurementAnswer(q, Ever(m)), MeasurementAnswer(q, Always(m)))
<1>1. PICK tbl : tbl = "measurements"
  OBVIOUS
<1>2. PICK A0 : A0 = Table(Ever(m), tbl)
  OBVIOUS
<1>3. PICK B0 : B0 = Table(Always(m), tbl)
  OBVIOUS
<1>4. PICK s0 : s0 = MidRun(q, m)
  OBVIOUS
<1>5. Stage(q, m, s0, A0, A0, B0, FALSE, FALSE)
  BY <1>4, StageStarts
<1>6. PICK s1 : s1 = ByOwner("authorizedBy", {"measurement"}, RunCryptoKey, s0)
  OBVIOUS
<1>7. PICK A1 : A1 = HasLeaf(q, "authorizedBy", "cryptokeys", {"measurement"}, A0, Ever(m))
  OBVIOUS
<1>8. PICK B1 : B1 = HasLeaf(q, "authorizedBy", "cryptokeys", {"measurement"}, B0, Always(m))
  OBVIOUS
<1>9. Single(q, "authorizedBy", AsksLeaf) /\ "authorizedBy" \notin Grouped
  BY DEF AsksMeasurement, Grouped, Single
<1>10. Stage(q, m, s1, A0, A1, B1, TRUE, FALSE)
  BY <1>5, <1>6, <1>7, <1>8, <1>9, CryptoKeyStage
<1>11. PICK s2 : s2 = ByOwner("digests", {"measurement"}, RunDigest, s1)
  OBVIOUS
<1>12. PICK A2 : A2 = HasLeaf(q, "digests", "digests", {"measurement"}, A1, Ever(m))
  OBVIOUS
<1>13. PICK B2 : B2 = HasLeaf(q, "digests", "digests", {"measurement"}, B1, Always(m))
  OBVIOUS
<1>14. Single(q, "digests", AsksLeaf) /\ "digests" \notin Grouped
  BY DEF AsksMeasurement, Grouped, Single
<1>15. Stage(q, m, s2, A0, A2, B2, TRUE, FALSE)
  BY <1>10, <1>11, <1>12, <1>13, <1>14, DigestStage
<1>16. PICK s3 : s3 = ByOwner("values", {}, RunMeasurementValue, s2)
  OBVIOUS
<1>17. PICK A3 : A3 = HasLeaf(q, "values", "measurement_value_entries", {}, A2, Ever(m))
  OBVIOUS
<1>18. PICK B3 : B3 = HasLeaf(q, "values", "measurement_value_entries", {}, B2, Always(m))
  OBVIOUS
<1>19. Single(q, "values", AsksLeaf) /\ "values" \notin Grouped
  BY DEF AsksMeasurement, Grouped, Single
<1>20. Stage(q, m, s3, A0, A3, B3, TRUE, FALSE)
  BY <1>15, <1>16, <1>17, <1>18, <1>19, MeasurementValueStage
<1>21. PICK s4 : s4 = ByOwner("registers", {}, RunIntegrityRegister, s3)
  OBVIOUS
<1>22. PICK A4 : A4 = HasIntegrityRegister(q, "registers", {}, A3, Ever(m))
  OBVIOUS
<1>23. PICK B4 : B4 = HasIntegrityRegister(q, "registers", {}, B3, Always(m))
  OBVIOUS
<1>24. Single(q, "registers", AsksRegister) /\ "registers" \notin Grouped
  BY DEF AsksMeasurement, Grouped, Single
<1>25. Stage(q, m, s4, A0, A4, B4, TRUE, FALSE)
  BY <1>20, <1>21, <1>22, <1>23, <1>24, IntegrityRegisterStage
<1>26. PICK s5 : s5 = ByOwner("flags", {}, RunFlag, s4)
  OBVIOUS
<1>27. PICK A5 : A5 = HasLeaf(q, "flags", "flags", {}, A4, Ever(m))
  OBVIOUS
<1>28. PICK B5 : B5 = HasLeaf(q, "flags", "flags", {}, B4, Always(m))
  OBVIOUS
<1>29. Single(q, "flags", AsksLeaf) /\ "flags" \notin Grouped
  BY DEF AsksMeasurement, Grouped, Single
<1>30. Stage(q, m, s5, A0, A5, B5, TRUE, FALSE)
  BY <1>25, <1>26, <1>27, <1>28, <1>29, FlagStage
<1>31. B5 \subseteq B0
  BY <1>7, <1>8, <1>12, <1>13, <1>17, <1>18, <1>22, <1>23, <1>27, <1>28 DEF HasIntegrityRegister, HasLeaf
<1>32. Answered(q, m, Final(tbl, s5), Chosen(q, A5), Chosen(q, B5))
  BY <1>2, <1>3, <1>30, <1>31, StageEnds
<1>33. RunMeasurement(q, m) = Final(tbl, s5)
  BY <1>1, <1>4, <1>6, <1>11, <1>16, <1>21, <1>26 DEF RunMeasurement
<1>a. DOMAIN Sub(q, "authorizedBy") = {}
  BY DEF AsksMeasurement, Sub
<1>b. A1 = A0 /\ B1 = B0
  BY <1>a, <1>7, <1>8 DEF HasLeaf, Has
<1>c. \A y, d : Has(q, "authorizedBy", "cryptokeys", {"measurement_auth"}, y, d, LeafAsked)
  BY <1>a DEF Has
<1>34. Chosen(q, A5) = MeasurementAnswer(q, Ever(m)) /\ Chosen(q, B5) = MeasurementAnswer(q, Always(m))
  BY <1>1, <1>2, <1>3, <1>b, <1>c, <1>12, <1>13, <1>17, <1>18, <1>22, <1>23, <1>27, <1>28 DEF Chosen, HasIntegrityRegister, HasLeaf, MeasurementAnswer, MeasurementAsked, DigestsAsked
<1> QED BY <1>32, <1>33, <1>34

LEMMA MeasurementOwned ==
  ASSUME NEW x, AtRest(x), x.owners = {}, NEW types, x.types = {} \/ types = {}, NEW ids,
         AsksMeasurement(x)
  PROVE  /\ AtRest(OwnedBy(x, types, ids)) /\ AsksMeasurement(OwnedBy(x, types, ids))
         /\ \A d : MeasurementAnswer(OwnedBy(x, types, ids), d) = Owned(MeasurementAnswer(x, d), types, ids)
<1>1. PICK p : p = OwnedBy(x, types, ids)
  OBVIOUS
<1>2. AtRest(p) /\ p.subs = x.subs /\ p.ids = x.ids /\ p.envs = x.envs
  BY <1>1, OwnedByRests
<1>3. AsksMeasurement(p)
  BY <1>2 DEF AsksMeasurement, Single
<1>4. \A y : Where(p, y) <=> Where(x, y) /\ Column(y.typ, types, FALSE) /\ Column(y.owner, ids, FALSE)
  BY <1>1, OwnedByWhere
<1>5. ASSUME NEW y, NEW d
      PROVE  MeasurementAsked(p, y, d) <=> MeasurementAsked(x, y, d) /\ Column(y.typ, types, FALSE)
                                                 /\ Column(y.owner, ids, FALSE)
  BY <1>2, <1>4 DEF MeasurementAsked, DigestsAsked, Has, Sub, InEnv, MeasurementsAsked
<1>6. \A d : MeasurementAnswer(p, d) = Owned(MeasurementAnswer(x, d), types, ids)
  BY <1>5 DEF MeasurementAnswer, Owned
<1> QED BY <1>1, <1>2, <1>3, <1>6

LocatorAnswer(q, d) == {x \in Table(d, "locators") : LocatorAsked(q, x, d)}

LEMMA LocatorAnswers ==
  ASSUME NEW q, AtRest(q), AsksLocator(q), NEW m, IsMoment(m)
  PROVE  Answered(q, m, RunLocator(q, m), LocatorAnswer(q, Ever(m)), LocatorAnswer(q, Always(m)))
<1>1. PICK tbl : tbl = "locators"
  OBVIOUS
<1>2. PICK A0 : A0 = Table(Ever(m), tbl)
  OBVIOUS
<1>3. PICK B0 : B0 = Table(Always(m), tbl)
  OBVIOUS
<1>4. PICK s0 : s0 = MidRun(q, m)
  OBVIOUS
<1>5. Stage(q, m, s0, A0, A0, B0, FALSE, FALSE)
  BY <1>4, StageStarts
<1>6. PICK s1 : s1 = ByOwner("digests", {"locator"}, RunDigest, s0)
  OBVIOUS
<1>7. PICK A1 : A1 = HasLeaf(q, "digests", "digests", {"locator"}, A0, Ever(m))
  OBVIOUS
<1>8. PICK B1 : B1 = HasLeaf(q, "digests", "digests", {"locator"}, B0, Always(m))
  OBVIOUS
<1>9. Single(q, "digests", AsksLeaf) /\ "digests" \notin Grouped
  BY DEF AsksLocator, Grouped, Single
<1>10. Stage(q, m, s1, A0, A1, B1, TRUE, FALSE)
  BY <1>5, <1>6, <1>7, <1>8, <1>9, DigestStage
<1>11. PICK s2 : s2 = ByOwner("hrefs", {}, RunHref, s1)
  OBVIOUS
<1>12. PICK A2 : A2 = HasLeaf(q, "hrefs", "hrefs", {}, A1, Ever(m))
  OBVIOUS
<1>13. PICK B2 : B2 = HasLeaf(q, "hrefs", "hrefs", {}, B1, Always(m))
  OBVIOUS
<1>14. Single(q, "hrefs", AsksLeaf) /\ "hrefs" \notin Grouped
  BY DEF AsksLocator, Grouped, Single
<1>15. Stage(q, m, s2, A0, A2, B2, TRUE, FALSE)
  BY <1>10, <1>11, <1>12, <1>13, <1>14, HrefStage
<1>16. B2 \subseteq B0
  BY <1>7, <1>8, <1>12, <1>13 DEF HasLeaf
<1>17. Answered(q, m, Final(tbl, s2), Chosen(q, A2), Chosen(q, B2))
  BY <1>2, <1>3, <1>15, <1>16, StageEnds
<1>18. RunLocator(q, m) = Final(tbl, s2)
  BY <1>1, <1>4, <1>6, <1>11 DEF RunLocator
<1>19. Chosen(q, A2) = LocatorAnswer(q, Ever(m)) /\ Chosen(q, B2) = LocatorAnswer(q, Always(m))
  BY <1>1, <1>2, <1>3, <1>7, <1>8, <1>12, <1>13 DEF Chosen, HasLeaf, LocatorAnswer, LocatorAsked, DigestsAsked
<1> QED BY <1>17, <1>18, <1>19

LEMMA LocatorOwned ==
  ASSUME NEW x, AtRest(x), x.owners = {}, NEW types, x.types = {} \/ types = {}, NEW ids,
         AsksLocator(x)
  PROVE  /\ AtRest(OwnedBy(x, types, ids)) /\ AsksLocator(OwnedBy(x, types, ids))
         /\ \A d : LocatorAnswer(OwnedBy(x, types, ids), d) = Owned(LocatorAnswer(x, d), types, ids)
<1>1. PICK p : p = OwnedBy(x, types, ids)
  OBVIOUS
<1>2. AtRest(p) /\ p.subs = x.subs /\ p.ids = x.ids /\ p.envs = x.envs
  BY <1>1, OwnedByRests
<1>3. AsksLocator(p)
  BY <1>2 DEF AsksLocator, Single
<1>4. \A y : Where(p, y) <=> Where(x, y) /\ Column(y.typ, types, FALSE) /\ Column(y.owner, ids, FALSE)
  BY <1>1, OwnedByWhere
<1>5. ASSUME NEW y, NEW d
      PROVE  LocatorAsked(p, y, d) <=> LocatorAsked(x, y, d) /\ Column(y.typ, types, FALSE)
                                                 /\ Column(y.owner, ids, FALSE)
  BY <1>2, <1>4 DEF LocatorAsked, DigestsAsked, Has, Sub, InEnv, MeasurementsAsked
<1>6. \A d : LocatorAnswer(p, d) = Owned(LocatorAnswer(x, d), types, ids)
  BY <1>5 DEF LocatorAnswer, Owned
<1> QED BY <1>1, <1>2, <1>3, <1>6

HasLocator(q, name, types, G, d) ==
  {x \in G : Has(q, name, "locators", types, x, d, LocatorAsked)}

LEMMA HasLocatorIs ==
  ASSUME NEW q, NEW name, NEW x, Sole(q, name, x), NEW types, NEW G, NEW d
  PROVE  HasLocator(q, name, types, G, d) = Kept(q, name, G, LocatorAnswer(x, d), types)
<1>1. CASE name \notin DOMAIN q.subs
  <2>1. DOMAIN Sub(q, name) = {}
    BY <1>1 DEF Sub
  <2> QED BY <1>1, <2>1 DEF HasLocator, Has, Kept
<1>2. CASE name \in DOMAIN q.subs
  <2>1. DOMAIN Sub(q, name) = {1} /\ q.subs[name][1] = x
    BY <1>2 DEF Sub, Sole
  <2> QED BY <1>2, <2>1 DEF HasLocator, Has, Kept, Above, Heads, LocatorAnswer
<1> QED BY <1>1, <1>2

LEMMA LocatorStage ==
  ASSUME NEW q0, AtRest(q0), NEW m0, NEW s, NEW U, NEW G, NEW H, NEW i, NEW e,
         Stage(q0, m0, s, U, G, H, i, e), NEW name, name \notin Grouped,
         Single(q0, name, AsksLocator), NEW types
  PROVE  Stage(q0, m0, ByOwner(name, types, RunLocator, s), U,
               HasLocator(q0, name, types, G, Ever(m0)), HasLocator(q0, name, types, H, Always(m0)),
               TRUE, e)
<1>1. PICK x : x = q0.subs[name][1]
  OBVIOUS
<1>2. Sole(q0, name, x) /\ (name \in DOMAIN q0.subs => AsksLocator(x))
  BY <1>1 DEF Single, Sole
<1>3. PICK p : p = OwnedBy(x, types, s.q.ids)
  OBVIOUS
<1>4. IsMoment(s.m) /\ Ever(s.m) = Ever(m0) /\ Always(s.m) = Always(m0)
  BY SameMoments DEF Stage, Progress
<1>5. PICK r : r = RunLocator(OwnedBy(s.q.subs[name][1], types, s.q.ids), s.m)
  OBVIOUS
<1>6. ASSUME s.err = "none", name \in DOMAIN q0.subs
      PROVE  Answered(p, s.m, r, Owned(LocatorAnswer(x, Ever(m0)), types, s.q.ids),
                      Owned(LocatorAnswer(x, Always(m0)), types, s.q.ids))
  <2>1. s.q.subs = q0.subs
    BY <1>6 DEF Stage, Narrowed
  <2>2. r = RunLocator(p, s.m)
    BY <1>1, <1>3, <1>5, <2>1
  <2>3. AtRest(x) /\ x.owners = {} /\ x.types = {} /\ AsksLocator(x)
    BY <1>2, <1>6 DEF Bare, Sole
  <2>4. /\ AtRest(p) /\ AsksLocator(p)
        /\ \A d : LocatorAnswer(p, d) = Owned(LocatorAnswer(x, d), types, s.q.ids)
    BY <1>3, <2>3, LocatorOwned
  <2>5. Answered(p, s.m, r, LocatorAnswer(p, Ever(m0)), LocatorAnswer(p, Always(m0)))
    BY <1>4, <2>2, <2>4, LocatorAnswers
  <2> QED BY <2>4, <2>5
<1>7. \A K, d : HasLocator(q0, name, types, K, d) = Kept(q0, name, K, LocatorAnswer(x, d), types)
  BY <1>2, HasLocatorIs
<1>8. ByOwner(name, types, RunLocator, s) = Narrowing(s, name, r)
  BY <1>5 DEF ByOwner, Narrowing
<1>9. Stage(q0, m0, Narrowing(s, name, r), U, Kept(q0, name, G, LocatorAnswer(x, Ever(m0)), types),
            Kept(q0, name, H, LocatorAnswer(x, Always(m0)), types), TRUE, e)
  BY <1>2, <1>3, <1>6, OwnerGoes
<1> QED BY <1>7, <1>8, <1>9

TokenAnswer(q, d) == {x \in Table(d, "tokens") : TokenAsked(q, x, d)}

LEMMA TokenAnswers ==
  ASSUME NEW q, AtRest(q), AsksToken(q), NEW m, IsMoment(m)
  PROVE  Answered(q, m, RunToken(q, m), TokenAnswer(q, Ever(m)), TokenAnswer(q, Always(m)))
<1>1. PICK tbl : tbl = "tokens"
  OBVIOUS
<1>2. PICK A0 : A0 = Table(Ever(m), tbl)
  OBVIOUS
<1>3. PICK B0 : B0 = Table(Always(m), tbl)
  OBVIOUS
<1>4. PICK s0 : s0 = MidRun(q, m)
  OBVIOUS
<1>5. Stage(q, m, s0, A0, A0, B0, FALSE, FALSE)
  BY <1>4, StageStarts
<1>6. PICK s1 : s1 = ByOwner("authority", {"token"}, RunCryptoKey, s0)
  OBVIOUS
<1>7. PICK A1 : A1 = HasLeaf(q, "authority", "cryptokeys", {"token"}, A0, Ever(m))
  OBVIOUS
<1>8. PICK B1 : B1 = HasLeaf(q, "authority", "cryptokeys", {"token"}, B0, Always(m))
  OBVIOUS
<1>9. Single(q, "authority", AsksLeaf) /\ "authority" \notin Grouped
  BY DEF AsksToken, Grouped, Single
<1>10. Stage(q, m, s1, A0, A1, B1, TRUE, FALSE)
  BY <1>5, <1>6, <1>7, <1>8, <1>9, CryptoKeyStage
<1>11. B1 \subseteq B0
  BY <1>7, <1>8 DEF HasLeaf
<1>12. Answered(q, m, Final(tbl, s1), Chosen(q, A1), Chosen(q, B1))
  BY <1>2, <1>3, <1>10, <1>11, StageEnds
<1>13. RunToken(q, m) = Final(tbl, s1)
  BY <1>1, <1>4, <1>6 DEF RunToken
<1>14. Chosen(q, A1) = TokenAnswer(q, Ever(m)) /\ Chosen(q, B1) = TokenAnswer(q, Always(m))
  BY <1>1, <1>2, <1>3, <1>7, <1>8 DEF Chosen, HasLeaf, TokenAnswer, TokenAsked
<1> QED BY <1>12, <1>13, <1>14

LEMMA OwnedByNone ==
  ASSUME NEW x, AtRest(x)
  PROVE  OwnedBy(x, {}, {}) = x
<1>1. PICK a : a = {}
  OBVIOUS
<1>2. OwnedBy(x, a, a) =
        [vals |-> x.vals, ids |-> x.ids, owners |-> x.owners \cup a,
         types |-> x.types \cup a, envs |-> x.envs, savedIDs |-> {}, saved |-> FALSE,
         savedEnvs |-> {}, envSaved |-> FALSE, subs |-> x.subs]
  BY OwnedByIs
<1>3. x.types \cup a = x.types /\ x.owners \cup a = x.owners
  BY <1>1
<1>4. OwnedBy(x, a, a) =
        [vals |-> x.vals, ids |-> x.ids, owners |-> x.owners,
         types |-> x.types, envs |-> x.envs, savedIDs |-> {}, saved |-> FALSE,
         savedEnvs |-> {}, envSaved |-> FALSE, subs |-> x.subs]
  BY <1>2, <1>3
<1> QED BY <1>1, <1>4, RestIs

\* Without IDs of the query, to join those of the owners is to be narrowed by them.
LEMMA RolesNarrow ==
  ASSUME NEW q, AtRest(q), NEW m, NEW name \in DOMAIN q.subs, name = "roles", NEW x,
         q.subs[name] = <<x>>, Bare(x), q.ids = {}, NEW r, IsRun(r), r.q = x
  PROVE  /\ JoinByRole(MidRun(saveIDs(q), m), r) = Narrowing(MidRun(q, m), name, r)
         /\ OwnedBy(x, {}, q.ids) = x
<1>1. PICK s : s = MidRun(q, m)
  OBVIOUS
<1>2. PICK p : p = saveIDs(q)
  OBVIOUS
<1>3. PICK s1 : s1 = MidRun(p, m)
  OBVIOUS
<1>4. /\ IsRun(s) /\ s.q = q /\ s.m = m /\ s.err = "none" /\ s.rows = {}
      /\ IsRun(s1) /\ s1.q = p /\ s1.m = m /\ s1.err = "none" /\ s1.rows = {}
  BY <1>1, <1>3 DEF MidRun, IsRun
<1>5. Narrowed(q, q, FALSE, FALSE)
  BY RestNarrowed
<1>6. Narrowed(q, p, TRUE, FALSE)
  BY <1>2, <1>5, SaveIDsNarrowed
<1>7. p.ids = {}
  BY <1>2 DEF saveIDs, AtRest
<1>8. WithSub(p, name, <<Disowned(r.q)>>) = p
  <2>1. x = OwnedBy(x, {}, {})
    BY OwnedByNone DEF Bare
  <2>2. Disowned(x) = x
    BY <2>1, OwnedByUndone DEF Bare
  <2> QED BY <1>6, <2>2, SameSub
<1>9. Narrowing(s, name, r) = NarrowByOwner(s, name, r)
  <2>1. <<x>> # <<>>
    <3>1. DOMAIN <<x>> = {1} /\ DOMAIN <<>> = {}
      OBVIOUS
    <3> QED BY <3>1
  <2> QED BY <1>4, <2>1 DEF Narrowing, Skips, Sub
<1>10. PICK ids : ids = Owners(r.rows)
  OBVIOUS
<1>11. NarrowByOwner(s, name, r) = IF r.err # "none" THEN Fails(s, Restore(p), r)
                                   ELSE GoesOn(s, WithIDs(p, ids), r.m)
  BY <1>2, <1>4, <1>8, <1>10 DEF NarrowByOwner, GoesOn, WithIDs, WithSub
<1>12. PICK w : w = WithIDs(p, ids)
  OBVIOUS
<1>13. JoinByRole(s1, r) = IF r.err # "none" THEN Fails(s1, Restore(p), r)
                           ELSE GoesOn(s1, w, r.m)
  <2>1. {} \cup ids = ids
    OBVIOUS
  <2>2. [s1 EXCEPT !.q.ids = s1.q.ids \cup ids] = [s1 EXCEPT !.q = [p EXCEPT !.ids = ids]]
    BY <1>4, <1>7, <2>1
  <2>3. PICK y : y = [s1 EXCEPT !.q.ids = s1.q.ids \cup ids]
    OBVIOUS
  <2>4. y = [s1 EXCEPT !.q = w]
    BY <1>12, <2>2, <2>3 DEF WithIDs
  <2>5. [y EXCEPT !.m = r.m] = GoesOn(s1, w, r.m)
    BY <2>4 DEF GoesOn
  <2> QED BY <1>4, <1>10, <2>3, <2>5 DEF JoinByRole
<1>14. JoinByRole(s1, r) = NarrowByOwner(s, name, r)
  <2>1. CASE r.err # "none"
    <3>a. PICK z : z = Restore(p)
      OBVIOUS
    <3>b. Fails(s, z, r) = [q |-> z, m |-> r.m, err |-> r.err, rows |-> {}]
      BY <1>4, FailsIs
    <3>c. Fails(s1, z, r) = [q |-> z, m |-> r.m, err |-> r.err, rows |-> {}]
      BY <1>4, FailsIs
    <3>1. Fails(s, Restore(p), r) = Fails(s1, Restore(p), r)
      BY <3>a, <3>b, <3>c
    <3> QED BY <1>11, <1>13, <2>1, <3>1
  <2>2. CASE r.err = "none"
    <3>b. GoesOn(s, w, r.m) = [q |-> w, m |-> r.m, err |-> "none", rows |-> {}]
      BY <1>4, GoesOnIs
    <3>c. GoesOn(s1, w, r.m) = [q |-> w, m |-> r.m, err |-> "none", rows |-> {}]
      BY <1>4, GoesOnIs
    <3>1. GoesOn(s, w, r.m) = GoesOn(s1, w, r.m)
      BY <3>b, <3>c
    <3> QED BY <1>11, <1>12, <1>13, <2>2, <3>1
  <2> QED BY <2>1, <2>2
<1>15. OwnedBy(x, {}, q.ids) = x
  BY OwnedByNone DEF Bare
<1> QED BY <1>1, <1>2, <1>3, <1>9, <1>14, <1>15

EntityAnswer(q, d) == {x \in Table(d, "entities") : EntityAsked(q, x, d)}

LEMMA EntityAnswers ==
  ASSUME NEW q, AtRest(q), AsksEntity(q), NEW m, IsMoment(m)
  PROVE  Answered(q, m, RunEntity(q, m), EntityAnswer(q, Ever(m)), EntityAnswer(q, Always(m)))
<1>1. PICK tbl : tbl = "entities"
  OBVIOUS
<1>2. PICK name : name = "roles"
  OBVIOUS
<1>3. PICK A0 : A0 = Table(Ever(m), tbl)
  OBVIOUS
<1>4. PICK B0 : B0 = Table(Always(m), tbl)
  OBVIOUS
<1>5. PICK s0 : s0 = MidRun(q, m)
  OBVIOUS
<1>6. Stage(q, m, s0, A0, A0, B0, FALSE, FALSE)
  BY <1>5, StageStarts
<1>7. PICK A1 : A1 = HasLeaf(q, name, "roles", {}, A0, Ever(m))
  OBVIOUS
<1>8. PICK B1 : B1 = HasLeaf(q, name, "roles", {}, B0, Always(m))
  OBVIOUS
<1>9. PICK s1 : s1 = IF Sub(q, name) = <<>> THEN s0
                     ELSE JoinByRole(MidRun(saveIDs(q), m), RunQuery("roles", Where, q.subs[name][1], m))
  OBVIOUS
<1>10. s0.q = q /\ s0.m = m /\ s0.err = "none"
  BY <1>5 DEF MidRun
<1>11. PICK x : x = q.subs[name][1]
  OBVIOUS
<1>12. name \in DOMAIN q.subs => q.subs[name] = <<x>> /\ Bare(x) /\ q.ids = {}
  BY <1>2, <1>11 DEF AsksEntity, Single
<1>13. PICK r : r = RunQuery("roles", Where, OwnedBy(s0.q.subs[name][1], {}, s0.q.ids), s0.m)
  OBVIOUS
<1>14. s1 = Narrowing(s0, name, r)
  <2>1. CASE name \notin DOMAIN q.subs
    BY <1>9, <1>10, <2>1 DEF Narrowing, Skips, Sub
  <2>2. CASE name \in DOMAIN q.subs
    <3>1. OwnedBy(x, {}, q.ids) = x
      BY <1>12, <2>2, OwnedByNone DEF Bare
    <3>2. r = RunQuery("roles", Where, x, m)
      BY <1>10, <1>11, <1>13, <3>1
    <3>3. IsRun(r) /\ r.q = x
      BY <3>2, WhereEnds DEF Ends
    <3>4. q.subs[name] = <<x>> /\ Bare(x) /\ q.ids = {}
      BY <1>12, <2>2
    <3>5. JoinByRole(MidRun(saveIDs(q), m), r) = Narrowing(MidRun(q, m), name, r)
      BY <1>2, <2>2, <3>3, <3>4, RolesNarrow
    <3>6. Sub(q, name) # <<>>
      <4>1. DOMAIN <<x>> = {1} /\ DOMAIN <<>> = {}
        OBVIOUS
      <4> QED BY <2>2, <3>4, <4>1 DEF Sub
    <3> QED BY <1>5, <1>9, <1>11, <3>2, <3>5, <3>6
  <2> QED BY <2>1, <2>2
<1>15. Single(q, name, AsksLeaf) /\ name \notin Grouped
  BY <1>2 DEF AsksEntity, Single, Grouped
<1>16. Stage(q, m, s1, A0, A1, B1, TRUE, FALSE)
  <2>1. PICK t, ty : t = "roles" /\ ty = {}
    OBVIOUS
  <2>2. r = RunQuery(t, Where, OwnedBy(s0.q.subs[name][1], ty, s0.q.ids), s0.m)
    BY <1>13, <2>1
  <2>3. Stage(q, m, Narrowing(s0, name, r), A0, HasLeaf(q, name, t, ty, A0, Ever(m)),
              HasLeaf(q, name, t, ty, B0, Always(m)), TRUE, FALSE)
    BY <1>6, <1>15, <2>2, LeafGoes
  <2> QED BY <1>7, <1>8, <1>14, <2>1, <2>3
<1>17. B1 \subseteq B0
  BY <1>8 DEF HasLeaf
<1>18. Answered(q, m, Final(tbl, s1), Chosen(q, A1), Chosen(q, B1))
  BY <1>3, <1>4, <1>16, <1>17, StageEnds
<1>19. RunEntity(q, m) = Final(tbl, s1)
  BY <1>1, <1>2, <1>5, <1>9 DEF RunEntity
<1>20. Chosen(q, A1) = EntityAnswer(q, Ever(m)) /\ Chosen(q, B1) = EntityAnswer(q, Always(m))
  BY <1>1, <1>2, <1>3, <1>4, <1>7, <1>8 DEF Chosen, HasLeaf, EntityAnswer, EntityAsked
<1> QED BY <1>18, <1>19, <1>20

LEMMA EntityOwned ==
  ASSUME NEW x, AtRest(x), x.owners = {}, NEW types, x.types = {} \/ types = {}, NEW ids,
         AsksEntity(x)
  PROVE  /\ AtRest(OwnedBy(x, types, ids)) /\ AsksEntity(OwnedBy(x, types, ids))
         /\ \A d : EntityAnswer(OwnedBy(x, types, ids), d) = Owned(EntityAnswer(x, d), types, ids)
<1>1. PICK p : p = OwnedBy(x, types, ids)
  OBVIOUS
<1>2. AtRest(p) /\ p.subs = x.subs /\ p.ids = x.ids /\ p.envs = x.envs
  BY <1>1, OwnedByRests
<1>3. AsksEntity(p)
  BY <1>2 DEF AsksEntity, Single
<1>4. \A y : Where(p, y) <=> Where(x, y) /\ Column(y.typ, types, FALSE) /\ Column(y.owner, ids, FALSE)
  BY <1>1, OwnedByWhere
<1>5. ASSUME NEW y, NEW d
      PROVE  EntityAsked(p, y, d) <=> EntityAsked(x, y, d) /\ Column(y.typ, types, FALSE)
                                                 /\ Column(y.owner, ids, FALSE)
  BY <1>2, <1>4 DEF EntityAsked, DigestsAsked, Has, Sub, InEnv, MeasurementsAsked
<1>6. \A d : EntityAnswer(p, d) = Owned(EntityAnswer(x, d), types, ids)
  BY <1>5 DEF EntityAnswer, Owned
<1> QED BY <1>1, <1>2, <1>3, <1>6

HasEntity(q, name, types, G, d) ==
  {x \in G : Has(q, name, "entities", types, x, d, EntityAsked)}

LEMMA HasEntityIs ==
  ASSUME NEW q, NEW name, NEW x, Sole(q, name, x), NEW types, NEW G, NEW d
  PROVE  HasEntity(q, name, types, G, d) = Kept(q, name, G, EntityAnswer(x, d), types)
<1>1. CASE name \notin DOMAIN q.subs
  <2>1. DOMAIN Sub(q, name) = {}
    BY <1>1 DEF Sub
  <2> QED BY <1>1, <2>1 DEF HasEntity, Has, Kept
<1>2. CASE name \in DOMAIN q.subs
  <2>1. DOMAIN Sub(q, name) = {1} /\ q.subs[name][1] = x
    BY <1>2 DEF Sub, Sole
  <2> QED BY <1>2, <2>1 DEF HasEntity, Has, Kept, Above, Heads, EntityAnswer
<1> QED BY <1>1, <1>2

LEMMA EntityStage ==
  ASSUME NEW q0, AtRest(q0), NEW m0, NEW s, NEW U, NEW G, NEW H, NEW i, NEW e,
         Stage(q0, m0, s, U, G, H, i, e), NEW name, name \notin Grouped,
         Single(q0, name, AsksEntity), NEW types
  PROVE  Stage(q0, m0, ByOwner(name, types, RunEntity, s), U,
               HasEntity(q0, name, types, G, Ever(m0)), HasEntity(q0, name, types, H, Always(m0)),
               TRUE, e)
<1>1. PICK x : x = q0.subs[name][1]
  OBVIOUS
<1>2. Sole(q0, name, x) /\ (name \in DOMAIN q0.subs => AsksEntity(x))
  BY <1>1 DEF Single, Sole
<1>3. PICK p : p = OwnedBy(x, types, s.q.ids)
  OBVIOUS
<1>4. IsMoment(s.m) /\ Ever(s.m) = Ever(m0) /\ Always(s.m) = Always(m0)
  BY SameMoments DEF Stage, Progress
<1>5. PICK r : r = RunEntity(OwnedBy(s.q.subs[name][1], types, s.q.ids), s.m)
  OBVIOUS
<1>6. ASSUME s.err = "none", name \in DOMAIN q0.subs
      PROVE  Answered(p, s.m, r, Owned(EntityAnswer(x, Ever(m0)), types, s.q.ids),
                      Owned(EntityAnswer(x, Always(m0)), types, s.q.ids))
  <2>1. s.q.subs = q0.subs
    BY <1>6 DEF Stage, Narrowed
  <2>2. r = RunEntity(p, s.m)
    BY <1>1, <1>3, <1>5, <2>1
  <2>3. AtRest(x) /\ x.owners = {} /\ x.types = {} /\ AsksEntity(x)
    BY <1>2, <1>6 DEF Bare, Sole
  <2>4. /\ AtRest(p) /\ AsksEntity(p)
        /\ \A d : EntityAnswer(p, d) = Owned(EntityAnswer(x, d), types, s.q.ids)
    BY <1>3, <2>3, EntityOwned
  <2>5. Answered(p, s.m, r, EntityAnswer(p, Ever(m0)), EntityAnswer(p, Always(m0)))
    BY <1>4, <2>2, <2>4, EntityAnswers
  <2> QED BY <2>4, <2>5
<1>7. \A K, d : HasEntity(q0, name, types, K, d) = Kept(q0, name, K, EntityAnswer(x, d), types)
  BY <1>2, HasEntityIs
<1>8. ByOwner(name, types, RunEntity, s) = Narrowing(s, name, r)
  BY <1>5 DEF ByOwner, Narrowing
<1>9. Stage(q0, m0, Narrowing(s, name, r), U, Kept(q0, name, G, EntityAnswer(x, Ever(m0)), types),
            Kept(q0, name, H, EntityAnswer(x, Always(m0)), types), TRUE, e)
  BY <1>2, <1>3, <1>6, OwnerGoes
<1> QED BY <1>7, <1>8, <1>9

ManifestAnswer(q, d) == {x \in Table(d, "manifests") : ManifestAsked(q, x, d)}

LEMMA ManifestAnswers ==
  ASSUME NEW q, AtRest(q), AsksManifest(q), NEW m, IsMoment(m)
  PROVE  Answered(q, m, RunManifest(q, m), ManifestAnswer(q, Ever(m)), ManifestAnswer(q, Always(m)))
<1>1. PICK tbl : tbl = "manifests"
  OBVIOUS
<1>2. PICK A0 : A0 = Table(Ever(m), tbl)
  OBVIOUS
<1>3. PICK B0 : B0 = Table(Always(m), tbl)
  OBVIOUS
<1>4. PICK s0 : s0 = MidRun(q, m)
  OBVIOUS
<1>5. Stage(q, m, s0, A0, A0, B0, FALSE, FALSE)
  BY <1>4, StageStarts
<1>6. PICK s1 : s1 = ByOwner("entities", {"manifest"}, RunEntity, s0)
  OBVIOUS
<1>7. PICK A1 : A1 = HasEntity(q, "entities", {"manifest"}, A0, Ever(m))
  OBVIOUS
<1>8. PICK B1 : B1 = HasEntity(q, "entities", {"manifest"}, B0, Always(m))
  OBVIOUS
<1>9. Single(q, "entities", AsksEntity) /\ "entities" \notin Grouped
  BY DEF AsksManifest, Grouped, Single
<1>10. Stage(q, m, s1, A0, A1, B1, TRUE, FALSE)
  BY <1>5, <1>6, <1>7, <1>8, <1>9, EntityStage
<1>11. PICK s2 : s2 = ByOwner("dependentRIMs", {}, RunLocator, s1)
  OBVIOUS
<1>12. PICK A2 : A2 = HasLocator(q, "dependentRIMs", {}, A1, Ever(m))
  OBVIOUS
<1>13. PICK B2 : B2 = HasLocator(q, "dependentRIMs", {}, B1, Always(m))
  OBVIOUS
<1>14. Single(q, "dependentRIMs", AsksLocator) /\ "dependentRIMs" \notin Grouped
  BY DEF AsksManifest, Grouped, Single
<1>15. Stage(q, m, s2, A0, A2, B2, TRUE, FALSE)
  BY <1>10, <1>11, <1>12, <1>13, <1>14, LocatorStage
<1>16. B2 \subseteq B0
  BY <1>7, <1>8, <1>12, <1>13 DEF HasEntity, HasLocator
<1>17. Answered(q, m, Final(tbl, s2), Chosen(q, A2), Chosen(q, B2))
  BY <1>2, <1>3, <1>15, <1>16, StageEnds
<1>18. RunManifest(q, m) = Final(tbl, s2)
  BY <1>1, <1>4, <1>6, <1>11 DEF RunManifest
<1>19. Chosen(q, A2) = ManifestAnswer(q, Ever(m)) /\ Chosen(q, B2) = ManifestAnswer(q, Always(m))
  BY <1>1, <1>2, <1>3, <1>7, <1>8, <1>12, <1>13 DEF Chosen, HasEntity, HasLocator, ManifestAnswer, ManifestAsked
<1> QED BY <1>17, <1>18, <1>19

ModuleTagAnswer(q, d) == {x \in Table(d, "module_tags") : ModuleTagAsked(q, x, d)}

LEMMA ModuleTagAnswers ==
  ASSUME NEW q, AtRest(q), AsksModuleTag(q), NEW m, IsMoment(m)
  PROVE  Answered(q, m, RunModuleTag(q, m), ModuleTagAnswer(q, Ever(m)), ModuleTagAnswer(q, Always(m)))
<1>1. PICK tbl : tbl = "module_tags"
  OBVIOUS
<1>2. PICK A0 : A0 = Table(Ever(m), tbl)
  OBVIOUS
<1>3. PICK B0 : B0 = Table(Always(m), tbl)
  OBVIOUS
<1>4. PICK s0 : s0 = MidRun(q, m)
  OBVIOUS
<1>5. Stage(q, m, s0, A0, A0, B0, FALSE, FALSE)
  BY <1>4, StageStarts
<1>6. PICK s1 : s1 = ByOwner("entities", {"module_tag"}, RunEntity, s0)
  OBVIOUS
<1>7. PICK A1 : A1 = HasEntity(q, "entities", {"module_tag"}, A0, Ever(m))
  OBVIOUS
<1>8. PICK B1 : B1 = HasEntity(q, "entities", {"module_tag"}, B0, Always(m))
  OBVIOUS
<1>9. Single(q, "entities", AsksEntity) /\ "entities" \notin Grouped
  BY DEF AsksModuleTag, Grouped, Single
<1>10. Stage(q, m, s1, A0, A1, B1, TRUE, FALSE)
  BY <1>5, <1>6, <1>7, <1>8, <1>9, EntityStage
<1>11. PICK s2 : s2 = ByOwner("linkedTags", {}, RunLinkedTag, s1)
  OBVIOUS
<1>12. PICK A2 : A2 = HasLeaf(q, "linkedTags", "linked_tags", {}, A1, Ever(m))
  OBVIOUS
<1>13. PICK B2 : B2 = HasLeaf(q, "linkedTags", "linked_tags", {}, B1, Always(m))
  OBVIOUS
<1>14. Single(q, "linkedTags", AsksLeaf) /\ "linkedTags" \notin Grouped
  BY DEF AsksModuleTag, Grouped, Single
<1>15. Stage(q, m, s2, A0, A2, B2, TRUE, FALSE)
  BY <1>10, <1>11, <1>12, <1>13, <1>14, LinkedTagStage
<1>16. B2 \subseteq B0
  BY <1>7, <1>8, <1>12, <1>13 DEF HasEntity, HasLeaf
<1>17. Answered(q, m, Final(tbl, s2), Chosen(q, A2), Chosen(q, B2))
  BY <1>2, <1>3, <1>15, <1>16, StageEnds
<1>18. RunModuleTag(q, m) = Final(tbl, s2)
  BY <1>1, <1>4, <1>6, <1>11 DEF RunModuleTag
<1>19. Chosen(q, A2) = ModuleTagAnswer(q, Ever(m)) /\ Chosen(q, B2) = ModuleTagAnswer(q, Always(m))
  BY <1>1, <1>2, <1>3, <1>7, <1>8, <1>12, <1>13 DEF Chosen, HasEntity, HasLeaf, ModuleTagAnswer, ModuleTagAsked
<1> QED BY <1>17, <1>18, <1>19
-----------------------------------------------------------------------------
(* The subquery for the environment. *)

\* What AsksEnv says of it, envs being the environments of the query itself.
AsksOneEnv(env, envs) ==
  /\ env = [exact |-> env.exact, ids |-> env.ids, classBytes |-> env.classBytes,
            classIDs |-> env.classIDs, classes |-> env.classes, vendors |-> env.vendors,
            instanceBytes |-> env.instanceBytes, instances |-> env.instances]
  /\ env.exact \in BOOLEAN
  /\ envs = {} \/ env.ids = {}
  /\ env.instanceBytes = {} \/ env.instances = {}
  /\ OneWay(env, env.exact /\ env.classes = {})
  /\ \A s \in env.classes : OneWay(s, env.exact)

WithEnvIDs(env, envs) == [env EXCEPT !.ids = @ \cup envs]

\* A class that is given in one way only.
LEMMA OneWayColumn ==
  ASSUME NEW x, NEW a, NEW b, NEW exact \in BOOLEAN, b = {} \/ (a = {} /\ ~exact)
  PROVE  Column(x, a \cup b, exact) <=> Column(x, a, exact) /\ Column(x, b, FALSE)
<1>1. CASE b = {}
  <2>1. a \cup b = a
    BY <1>1
  <2> QED BY <1>1, <2>1 DEF Column
<1>2. CASE a = {} /\ ~exact
  <2>1. a \cup b = b
    BY <1>2
  <2> QED BY <1>2, <2>1 DEF Column
<1> QED BY <1>1, <1>2

LEMMA OneWayClass ==
  ASSUME NEW c, NEW exact \in BOOLEAN, OneWay(c, exact), NEW x
  PROVE  Column(x, c.classBytes \cup c.classIDs, exact)
           <=> Column(x, c.classBytes, exact) /\ Column(x, c.classIDs, FALSE)
<1>1. CASE c.classIDs = {}
  <2>1. c.classBytes \cup c.classIDs = c.classBytes
    BY <1>1
  <2> QED BY <1>1, <2>1 DEF Column
<1>2. CASE c.classBytes = {} /\ ~exact
  <2>1. c.classBytes \cup c.classIDs = c.classIDs
    BY <1>2
  <2> QED BY <1>2, <2>1 DEF Column
<1> QED BY <1>1, <1>2 DEF OneWay

LEMMA EnvWhereAsked ==
  ASSUME NEW env, NEW envs, AsksOneEnv(env, envs), NEW x
  PROVE  EnvWhere(WithEnvIDs(env, envs), x) <=> EnvAsked(env, x) /\ Column(x.id, envs, FALSE)
<1>1. PICK w : w = WithEnvIDs(env, envs)
  OBVIOUS
<1>2. /\ w.exact = env.exact /\ w.ids = env.ids \cup envs /\ w.classBytes = env.classBytes
      /\ w.classIDs = env.classIDs /\ w.classes = env.classes /\ w.vendors = env.vendors
      /\ w.instanceBytes = env.instanceBytes /\ w.instances = env.instances
  <2>1. PICK a, b, c, d, f, g, h, i :
          env = [exact |-> a, ids |-> b, classBytes |-> c, classIDs |-> d, classes |-> f,
                 vendors |-> g, instanceBytes |-> h, instances |-> i]
    BY DEF AsksOneEnv
  <2>2. w = [exact |-> a, ids |-> b \cup envs, classBytes |-> c, classIDs |-> d, classes |-> f,
             vendors |-> g, instanceBytes |-> h, instances |-> i]
    BY <1>1, <2>1 DEF WithEnvIDs
  <2> QED BY <2>1, <2>2
<1>3. env.exact \in BOOLEAN
  BY DEF AsksOneEnv
<1>4. Column(x.id, w.ids, FALSE) <=> Column(x.id, env.ids, FALSE) /\ Column(x.id, envs, FALSE)
  <2>1. PICK no : no = FALSE
    OBVIOUS
  <2>2. Column(x.id, env.ids \cup envs, no) <=> Column(x.id, env.ids, no) /\ Column(x.id, envs, FALSE)
    BY <2>1, OneWayColumn DEF AsksOneEnv
  <2> QED BY <1>2, <2>1, <2>2
<1>5. /\ Column(x.val.instance, w.instanceBytes, w.exact /\ w.instances = {})
      /\ Column(x.val.instance, w.instances, FALSE)
      <=> Column(x.val.instance, env.instanceBytes \cup env.instances, env.exact)
  <2>1. CASE env.instances = {}
    <3>1. env.instanceBytes \cup env.instances = env.instanceBytes
      BY <2>1
    <3> QED BY <1>2, <2>1, <3>1 DEF Column
  <2>2. CASE env.instances # {}
    <3>1. env.instanceBytes = {} /\ env.instanceBytes \cup env.instances = env.instances
      BY <2>2 DEF AsksOneEnv
    <3> QED BY <1>2, <2>2, <3>1 DEF Column
  <2> QED BY <2>1, <2>2
<1>6. PICK exactClass : exactClass = (w.exact /\ w.classes = {} /\ w.classIDs = {})
  OBVIOUS
<1>7. PICK v : v = x.val
  OBVIOUS
<1>8. PICK ClassPart : ClassPart =
        (/\ Column(v.class, w.classBytes, exactClass) /\ Column(v.class, w.classIDs, FALSE)
         /\ Column(v.vendor, w.vendors, exactClass))
  OBVIOUS
<1>9. CASE env.classes = {}
  <2>1. OneWay(env, env.exact)
    BY <1>9 DEF AsksOneEnv, OneWay
  <2>2. Column(v.class, env.classBytes \cup env.classIDs, env.exact)
          <=> Column(v.class, env.classBytes, env.exact) /\ Column(v.class, env.classIDs, FALSE)
    BY <1>3, <2>1, OneWayClass
  <2>3. exactClass = env.exact
    BY <1>2, <1>3, <1>6, <1>9, <2>1 DEF OneWay
  <2>4. ClassPart <=> ClassAsked(env, env.exact, v)
    BY <1>2, <1>8, <2>2, <2>3 DEF ClassAsked
  <2>5. EnvAsked(env, x) <=> /\ Column(x.id, env.ids, FALSE) /\ ClassPart
                             /\ Column(x.val.instance, env.instanceBytes \cup env.instances, env.exact)
    BY <1>7, <1>9, <2>4 DEF EnvAsked
  <2>6. EnvWhere(w, x) <=> /\ Column(x.id, w.ids, FALSE) /\ ClassPart
                           /\ Column(x.val.instance, w.instanceBytes, w.exact /\ w.instances = {})
                           /\ Column(x.val.instance, w.instances, FALSE)
    BY <1>2, <1>6, <1>7, <1>8, <1>9 DEF EnvWhere
  <2> QED BY <1>1, <1>4, <1>5, <2>5, <2>6
<1>10. CASE env.classes # {}
  <2>1. exactClass = FALSE
    BY <1>2, <1>6, <1>10
  <2>2. OneWay(env, FALSE)
    BY <1>10 DEF AsksOneEnv, OneWay
  <2>3. Column(v.class, env.classBytes \cup env.classIDs, exactClass)
          <=> Column(v.class, env.classBytes, exactClass) /\ Column(v.class, env.classIDs, FALSE)
    BY <2>1, <2>2, OneWayColumn DEF OneWay
  <2>4. ClassPart <=> ClassAsked(env, FALSE, v)
    BY <1>2, <1>8, <2>1, <2>3 DEF ClassAsked
  <2>5. ASSUME NEW s \in env.classes
        PROVE  ClassAsked(s, env.exact, v)
                 <=> /\ Column(v.class, s.classBytes, env.exact) /\ Column(v.class, s.classIDs, FALSE)
                     /\ Column(v.vendor, s.vendors, env.exact)
    <3>1. OneWay(s, env.exact)
      BY DEF AsksOneEnv
    <3>2. Column(v.class, s.classBytes \cup s.classIDs, env.exact)
            <=> Column(v.class, s.classBytes, env.exact) /\ Column(v.class, s.classIDs, FALSE)
      BY <1>3, <3>1, OneWayClass
    <3> QED BY <3>2 DEF ClassAsked
  <2>6. EnvAsked(env, x) <=> /\ Column(x.id, env.ids, FALSE) /\ ClassPart
                             /\ \E s \in env.classes : ClassAsked(s, env.exact, v)
                             /\ Column(x.val.instance, env.instanceBytes \cup env.instances, env.exact)
    BY <1>7, <1>10, <2>4 DEF EnvAsked
  <2>7. EnvWhere(w, x) <=> /\ Column(x.id, w.ids, FALSE) /\ ClassPart
                           /\ \E s \in env.classes : ClassAsked(s, env.exact, v)
                           /\ Column(x.val.instance, w.instanceBytes, w.exact /\ w.instances = {})
                           /\ Column(x.val.instance, w.instances, FALSE)
    BY <1>2, <1>6, <1>7, <1>8, <1>10, <2>5 DEF EnvWhere
  <2> QED BY <1>1, <1>4, <1>5, <2>6, <2>7
<1> QED BY <1>9, <1>10

\* The rows of G in an environment that is asked for.
Within(q, G, d) == {x \in G : InEnv(q, x, d)}

EnvAnswer(env, d) == {e \in Table(d, "environments") : EnvAsked(env, e)}

LEMMA EnvironmentStage ==
  ASSUME NEW q0, AtRest(q0), AsksEnv(q0), NEW m0, IsMoment(m0), NEW U, NEW H
  PROVE  Stage(q0, m0, ByEnvironment(MidRun(q0, m0)), U, Within(q0, U, Ever(m0)),
               Within(q0, H, Always(m0)), FALSE, TRUE)
<1>1. PICK s : s = MidRun(q0, m0)
  OBVIOUS
<1>2. Stage(q0, m0, s, U, U, H, FALSE, FALSE)
  BY <1>1, StageStarts
<1>3. /\ IsRun(s) /\ s.q = q0 /\ s.m = m0 /\ s.err = "none" /\ s.rows = {}
      /\ Progress(m0, s)
  BY <1>1, <1>2 DEF MidRun, IsRun, Stage
<1>4. PICK env : env = q0.subs["environment"][1]
  OBVIOUS
<1>5. PICK t : t = ByEnvironment(s)
  OBVIOUS
<1>6. PICK G1 : G1 = Within(q0, U, Ever(m0))
  OBVIOUS
<1>7. PICK H1 : H1 = Within(q0, H, Always(m0))
  OBVIOUS
<1>8. H1 \subseteq H
  BY <1>7 DEF Within
<1>9. CASE "environment" \notin DOMAIN q0.subs \/ EnvIsEmpty(env)
  <2>1. t = s
    BY <1>3, <1>4, <1>5, <1>9 DEF ByEnvironment, Skips, Sub
  <2>2. \A x, d : InEnv(q0, x, d)
    <3>1. CASE "environment" \notin DOMAIN q0.subs
      BY <3>1 DEF InEnv, Sub
    <3>2. CASE "environment" \in DOMAIN q0.subs /\ EnvIsEmpty(env)
      <4>1. q0.subs["environment"] = <<env>>
        BY <1>4, <3>2 DEF AsksEnv
      <4>2. DOMAIN Sub(q0, "environment") = {1}
        BY <3>2, <4>1 DEF Sub
      <4> QED BY <1>4, <3>2, <4>2 DEF InEnv
    <3> QED BY <1>9, <3>1, <3>2
  <2>3. U \subseteq G1
    BY <1>6, <2>2 DEF Within
  <2>4. Stage(q0, m0, s, U, G1, H1, FALSE, TRUE)
    BY <1>2, <1>8, <2>3, StageLoosened
  <2> QED BY <1>1, <1>5, <1>6, <1>7, <2>1, <2>4
<1>10. CASE "environment" \in DOMAIN q0.subs /\ ~EnvIsEmpty(env)
  <2>1. q0.subs["environment"] = <<env>> /\ AsksOneEnv(env, q0.envs)
    BY <1>4, <1>10 DEF AsksEnv, AsksOneEnv
  <2>2. \A x, d : InEnv(q0, x, d) <=> \E y \in EnvAnswer(env, d) : y.id = x.env
    <3>1. DOMAIN Sub(q0, "environment") = {1}
      BY <1>10, <2>1 DEF Sub
    <3> QED BY <1>4, <1>10, <3>1 DEF InEnv, EnvAnswer
  <2>3. PICK rows : rows = {y \in Table(Seen(m0), "environments") :
                              EnvWhere(WithEnvIDs(env, q0.envs), y)}
    OBVIOUS
  <2>4. rows = {y \in Table(Seen(m0), "environments") :
                  EnvAsked(env, y) /\ Column(y.id, q0.envs, FALSE)}
    BY <2>1, <2>3, EnvWhereAsked
  <2>5. PICK w : w = WithEnvIDs(env, q0.envs)
    OBVIOUS
  <2>6. PICK r : r = Outcome(w, m0, rows)
    OBVIOUS
  <2>7. t = NarrowByEnvironment(s, r)
    <3>1. <<env>> # <<>>
      <4>1. DOMAIN <<env>> = {1} /\ DOMAIN <<>> = {}
        OBVIOUS
      <4> QED BY <4>1
    <3>2. r = RunQuery("environments", EnvWhere, w, m0)
      BY <2>3, <2>5, <2>6 DEF RunQuery
    <3> QED BY <1>3, <1>4, <1>5, <1>10, <2>1, <2>5, <3>1, <3>2
            DEF ByEnvironment, Skips, Sub, WithEnvIDs
  <2>8. rows \subseteq Ever(m0)
    BY <2>4, RowsAreThere
  <2>9. Answered(w, m0, r, rows, rows)
    BY <1>3, <2>6, <2>8, OutcomeAnswers DEF Progress, Reports
  <2>10. Progress(m0, t)
    <3>1. Held(s.q, "any", FALSE, FALSE)
      BY AnyHeld
    <3>2. Mid(m0, s, "any", FALSE, FALSE)
      BY <1>3, <3>1 DEF Mid
    <3>3. Ends(s.m, r)
      BY <1>3, <2>9 DEF Answered
    <3>4. Mid(m0, t, "any", FALSE, TRUE)
      BY <1>3, <2>7, <3>2, <3>3, EnvironmentNarrows
    <3> QED BY <3>4 DEF Mid
  <2>11. r.err \in Errors /\ (r.err = "none" <=> r.rows # {})
    BY <2>9 DEF Answered, Ends, Reports
  <2>12. PICK ids : ids = IDs(r.rows)
    OBVIOUS
  <2>13. t = IF r.err # "none" THEN Fails(s, q0, r)
             ELSE GoesOn(s, WithEnvs(saveEnvIDs(q0), ids), r.m)
    BY <1>3, <2>7, <2>12 DEF NarrowByEnvironment, GoesOn, WithEnvs
  <2>14. CASE r.err # "none"
    <3>1. t = [q |-> q0, m |-> r.m, err |-> r.err, rows |-> s.rows]
      BY <1>3, <2>13, <2>14, FailsIs
    <3>2. t.q = q0 /\ t.err = r.err
      BY <3>1
    <3>3. ASSUME r.err = "no match", NEW x \in H1, Admits(q0, x) PROVE FALSE
      <4>1. InEnv(q0, x, Always(m0)) /\ Column(x.env, q0.envs, FALSE)
        BY <1>7, <3>3 DEF Within, Admits
      <4>2. PICK y \in EnvAnswer(env, Always(m0)) : y.id = x.env
        BY <2>2, <4>1
      <4>3. y \in Table(Seen(m0), "environments") /\ EnvAsked(env, y)
        BY <4>2, SeenBetween DEF EnvAnswer
      <4>4. y \in rows
        BY <2>4, <4>1, <4>2, <4>3
      <4>5. rows \subseteq r.rows
        BY <2>9, <3>3 DEF Answered
      <4> QED BY <2>11, <3>3, <4>4, <4>5
    <3>4. Stage(q0, m0, t, U, G1, H1, FALSE, TRUE)
      BY <2>10, <2>14, <3>2, <3>3 DEF Stage
    <3> QED BY <1>1, <1>5, <1>6, <1>7, <3>4
  <2>15. CASE r.err = "none"
    <3>1. PICK q1 : q1 = WithEnvs(saveEnvIDs(q0), ids)
      OBVIOUS
    <3>2. Narrowed(q0, q1, FALSE, TRUE) /\ q1.envs = ids /\ q1.ids = q0.ids
      <4>1. PICK no : no = FALSE
        OBVIOUS
      <4>2. Narrowed(q0, q0, no, no)
        BY <4>1, RestNarrowed
      <4>3. Narrowed(q0, WithEnvs(saveEnvIDs(q0), ids), no, TRUE)
        BY <4>2, SaveEnvIDsNarrowed
      <4>4. /\ WithEnvs(saveEnvIDs(q0), ids).envs = ids
            /\ WithEnvs(saveEnvIDs(q0), ids).ids = q0.ids
        BY <1>1, RestIs DEF saveEnvIDs, WithEnvs
      <4> QED BY <3>1, <4>1, <4>3, <4>4
    <3>3. t = [q |-> q1, m |-> r.m, err |-> s.err, rows |-> s.rows]
      BY <1>3, <2>13, <2>15, <3>1, GoesOnIs
    <3>4. t.q = q1 /\ t.err = "none"
      BY <1>3, <3>3
    <3>5. r.rows \subseteq rows /\ rows \subseteq r.rows /\ r.rows # {}
      BY <2>9, <2>11, <2>15 DEF Answered
    <3>6. ASSUME NEW x \in U, Admits(q1, x) PROVE x \in G1 /\ Admits(q0, x)
      <4>1. Column(x.id, q0.ids, FALSE) /\ Column(x.env, ids, FALSE)
        BY <3>2, <3>6 DEF Admits
      <4>2. PICK y \in r.rows : y.id = x.env
        BY <2>12, <3>5, <4>1 DEF Column, IDs
      <4>3. /\ y \in Table(Seen(m0), "environments") /\ EnvAsked(env, y)
            /\ Column(y.id, q0.envs, FALSE)
        BY <2>4, <3>5, <4>2
      <4>4. y \in EnvAnswer(env, Ever(m0))
        BY <4>3, SeenBetween DEF EnvAnswer
      <4>5. InEnv(q0, x, Ever(m0))
        BY <2>2, <4>2, <4>4
      <4> QED BY <1>6, <4>1, <4>2, <4>3, <4>5 DEF Within, Admits
    <3>7. ASSUME NEW x \in H1, Admits(q0, x) PROVE Admits(q1, x)
      <4>1. /\ InEnv(q0, x, Always(m0)) /\ Column(x.env, q0.envs, FALSE)
            /\ Column(x.id, q0.ids, FALSE)
        BY <1>7, <3>7 DEF Within, Admits
      <4>2. PICK y \in EnvAnswer(env, Always(m0)) : y.id = x.env
        BY <2>2, <4>1
      <4>3. y \in Table(Seen(m0), "environments") /\ EnvAsked(env, y)
        BY <4>2, SeenBetween DEF EnvAnswer
      <4>4. y \in r.rows
        BY <2>4, <3>5, <4>1, <4>2, <4>3
      <4>5. Column(x.env, ids, FALSE)
        BY <2>12, <4>2, <4>4 DEF Column, IDs
      <4> QED BY <3>2, <4>1, <4>5 DEF Admits
    <3>8. Stage(q0, m0, t, U, G1, H1, FALSE, TRUE)
      BY <2>10, <3>2, <3>4, <3>6, <3>7 DEF Stage
    <3> QED BY <1>1, <1>5, <1>6, <1>7, <3>8
  <2> QED BY <2>14, <2>15
<1> QED BY <1>9, <1>10
-----------------------------------------------------------------------------
DomainEntryAnswer(q, d) == {x \in Table(d, "domain_entries") : DomainEntryAsked(q, x, d)}

LEMMA DomainEntryAnswers ==
  ASSUME NEW q, AtRest(q), AsksDomainEntry(q), NEW m, IsMoment(m)
  PROVE  Answered(q, m, RunDomainEntry(q, m), DomainEntryAnswer(q, Ever(m)), DomainEntryAnswer(q, Always(m)))
<1>1. PICK tbl : tbl = "domain_entries"
  OBVIOUS
<1>2. PICK A0 : A0 = Table(Ever(m), tbl)
  OBVIOUS
<1>3. PICK B0 : B0 = Table(Always(m), tbl)
  OBVIOUS
<1>4. PICK s0 : s0 = MidRun(q, m)
  OBVIOUS
<1>5. Stage(q, m, s0, A0, A0, B0, FALSE, FALSE)
  BY <1>4, StageStarts
<1>6. PICK s1 : s1 = ByEnvironment(s0)
  OBVIOUS
<1>7. PICK A1 : A1 = Within(q, A0, Ever(m))
  OBVIOUS
<1>8. PICK B1 : B1 = Within(q, B0, Always(m))
  OBVIOUS
<1>9. Stage(q, m, s1, A0, A1, B1, FALSE, TRUE)
  BY <1>4, <1>6, <1>7, <1>8, EnvironmentStage DEF AsksDomainEntry
<1>10. B1 \subseteq B0
  BY <1>7, <1>8 DEF Within
<1>11. Answered(q, m, Final(tbl, s1), Chosen(q, A1), Chosen(q, B1))
  BY <1>2, <1>3, <1>9, <1>10, StageEnds
<1>12. RunDomainEntry(q, m) = Final(tbl, s1)
  BY <1>1, <1>4, <1>6 DEF RunDomainEntry
<1>13. Chosen(q, A1) = DomainEntryAnswer(q, Ever(m)) /\ Chosen(q, B1) = DomainEntryAnswer(q, Always(m))
  BY <1>1, <1>2, <1>3, <1>7, <1>8 DEF Chosen, Within, DomainEntryAnswer, DomainEntryAsked
<1> QED BY <1>11, <1>12, <1>13

LEMMA DomainEntryOwned ==
  ASSUME NEW x, AtRest(x), x.owners = {}, NEW types, x.types = {} \/ types = {}, NEW ids,
         AsksDomainEntry(x)
  PROVE  /\ AtRest(OwnedBy(x, types, ids)) /\ AsksDomainEntry(OwnedBy(x, types, ids))
         /\ \A d : DomainEntryAnswer(OwnedBy(x, types, ids), d) = Owned(DomainEntryAnswer(x, d), types, ids)
<1>1. PICK p : p = OwnedBy(x, types, ids)
  OBVIOUS
<1>2. AtRest(p) /\ p.subs = x.subs /\ p.ids = x.ids /\ p.envs = x.envs
  BY <1>1, OwnedByRests
<1>3. AsksDomainEntry(p)
  BY <1>2 DEF AsksDomainEntry, AsksEnv
<1>4. \A y : Where(p, y) <=> Where(x, y) /\ Column(y.typ, types, FALSE) /\ Column(y.owner, ids, FALSE)
  BY <1>1, OwnedByWhere
<1>5. ASSUME NEW y, NEW d
      PROVE  DomainEntryAsked(p, y, d) <=> DomainEntryAsked(x, y, d) /\ Column(y.typ, types, FALSE)
                                                 /\ Column(y.owner, ids, FALSE)
  BY <1>2, <1>4 DEF DomainEntryAsked, DigestsAsked, Has, Sub, InEnv, MeasurementsAsked
<1>6. \A d : DomainEntryAnswer(p, d) = Owned(DomainEntryAnswer(x, d), types, ids)
  BY <1>5 DEF DomainEntryAnswer, Owned
<1> QED BY <1>1, <1>2, <1>3, <1>6

HasDomainEntry(q, name, types, G, d) ==
  {x \in G : Has(q, name, "domain_entries", types, x, d, DomainEntryAsked)}

LEMMA HasDomainEntryIs ==
  ASSUME NEW q, NEW name, NEW x, Sole(q, name, x), NEW types, NEW G, NEW d
  PROVE  HasDomainEntry(q, name, types, G, d) = Kept(q, name, G, DomainEntryAnswer(x, d), types)
<1>1. CASE name \notin DOMAIN q.subs
  <2>1. DOMAIN Sub(q, name) = {}
    BY <1>1 DEF Sub
  <2> QED BY <1>1, <2>1 DEF HasDomainEntry, Has, Kept
<1>2. CASE name \in DOMAIN q.subs
  <2>1. DOMAIN Sub(q, name) = {1} /\ q.subs[name][1] = x
    BY <1>2 DEF Sub, Sole
  <2> QED BY <1>2, <2>1 DEF HasDomainEntry, Has, Kept, Above, Heads, DomainEntryAnswer
<1> QED BY <1>1, <1>2

LEMMA DomainEntryStage ==
  ASSUME NEW q0, AtRest(q0), NEW m0, NEW s, NEW U, NEW G, NEW H, NEW i, NEW e,
         Stage(q0, m0, s, U, G, H, i, e), NEW name, name \notin Grouped,
         Single(q0, name, AsksDomainEntry), NEW types
  PROVE  Stage(q0, m0, ByOwner(name, types, RunDomainEntry, s), U,
               HasDomainEntry(q0, name, types, G, Ever(m0)), HasDomainEntry(q0, name, types, H, Always(m0)),
               TRUE, e)
<1>1. PICK x : x = q0.subs[name][1]
  OBVIOUS
<1>2. Sole(q0, name, x) /\ (name \in DOMAIN q0.subs => AsksDomainEntry(x))
  BY <1>1 DEF Single, Sole
<1>3. PICK p : p = OwnedBy(x, types, s.q.ids)
  OBVIOUS
<1>4. IsMoment(s.m) /\ Ever(s.m) = Ever(m0) /\ Always(s.m) = Always(m0)
  BY SameMoments DEF Stage, Progress
<1>5. PICK r : r = RunDomainEntry(OwnedBy(s.q.subs[name][1], types, s.q.ids), s.m)
  OBVIOUS
<1>6. ASSUME s.err = "none", name \in DOMAIN q0.subs
      PROVE  Answered(p, s.m, r, Owned(DomainEntryAnswer(x, Ever(m0)), types, s.q.ids),
                      Owned(DomainEntryAnswer(x, Always(m0)), types, s.q.ids))
  <2>1. s.q.subs = q0.subs
    BY <1>6 DEF Stage, Narrowed
  <2>2. r = RunDomainEntry(p, s.m)
    BY <1>1, <1>3, <1>5, <2>1
  <2>3. AtRest(x) /\ x.owners = {} /\ x.types = {} /\ AsksDomainEntry(x)
    BY <1>2, <1>6 DEF Bare, Sole
  <2>4. /\ AtRest(p) /\ AsksDomainEntry(p)
        /\ \A d : DomainEntryAnswer(p, d) = Owned(DomainEntryAnswer(x, d), types, s.q.ids)
    BY <1>3, <2>3, DomainEntryOwned
  <2>5. Answered(p, s.m, r, DomainEntryAnswer(p, Ever(m0)), DomainEntryAnswer(p, Always(m0)))
    BY <1>4, <2>2, <2>4, DomainEntryAnswers
  <2> QED BY <2>4, <2>5
<1>7. \A K, d : HasDomainEntry(q0, name, types, K, d) = Kept(q0, name, K, DomainEntryAnswer(x, d), types)
  BY <1>2, HasDomainEntryIs
<1>8. ByOwner(name, types, RunDomainEntry, s) = Narrowing(s, name, r)
  BY <1>5 DEF ByOwner, Narrowing
<1>9. Stage(q0, m0, Narrowing(s, name, r), U, Kept(q0, name, G, DomainEntryAnswer(x, Ever(m0)), types),
            Kept(q0, name, H, DomainEntryAnswer(x, Always(m0)), types), TRUE, e)
  BY <1>2, <1>3, <1>6, OwnerGoes
<1> QED BY <1>7, <1>8, <1>9

\* Without IDs of the query, to join those of the owners is to be narrowed by them.
LEMMA EntriesStage ==
  ASSUME NEW q0, AtRest(q0), AsksDomainTriple(q0), NEW m0, NEW s, NEW U, NEW G, NEW H, NEW e,
         Stage(q0, m0, s, U, G, H, FALSE, e), NEW type
  PROVE  Stage(q0, m0, ByEntry(type, s), U,
               HasDomainEntry(q0, "entries", {type}, G, Ever(m0)),
               HasDomainEntry(q0, "entries", {type}, H, Always(m0)), TRUE, e)
<1>1. PICK name : name = "entries"
  OBVIOUS
<1>2. PICK types : types = {type}
  OBVIOUS
<1>3. PICK no : no = FALSE
  OBVIOUS
<1>4. Stage(q0, m0, s, U, G, H, no, e)
  BY <1>3
<1>5. Single(q0, name, AsksDomainEntry) /\ name \notin Grouped
  BY <1>1 DEF AsksDomainTriple, Single, Grouped
<1>6. Stage(q0, m0, ByOwner(name, types, RunDomainEntry, s), U,
            HasDomainEntry(q0, name, types, G, Ever(m0)),
            HasDomainEntry(q0, name, types, H, Always(m0)), TRUE, e)
  BY <1>4, <1>5, DomainEntryStage
<1>7. ByEntry(type, s) = ByOwner(name, types, RunDomainEntry, s)
  <2>1. CASE Skips(s, name)
    BY <1>1, <2>1 DEF ByEntry, ByOwner
  <2>2. CASE ~Skips(s, name)
    <3>1. s.err = "none" /\ Narrowed(q0, s.q, no, e) /\ IsRun(s) /\ IsMoment(s.m)
      BY <1>4, <2>2 DEF Skips, Stage, Progress, Reports
    <3>2. s.q.subs = q0.subs /\ name \in DOMAIN q0.subs
      BY <2>2, <3>1 DEF Skips, Sub, Narrowed
    <3>3. PICK x : x = q0.subs[name][1]
      OBVIOUS
    <3>4. q0.subs[name] = <<x>> /\ Bare(x) /\ AsksDomainEntry(x) /\ q0.ids = {}
      BY <1>1, <3>2, <3>3 DEF AsksDomainTriple, Single
    <3>5. PICK p : p = OwnedBy(x, types, s.q.ids)
      OBVIOUS
    <3>6. AtRest(p) /\ AsksDomainEntry(p)
      BY <3>4, <3>5, DomainEntryOwned DEF Bare
    <3>7. PICK r : r = RunDomainEntry(p, s.m)
      OBVIOUS
    <3>8. r.q = p
      BY <3>1, <3>6, <3>7, DomainEntryAnswers DEF Answered
    <3>a. Disowned(r.q) = x
      BY <3>4, <3>5, <3>8, OwnedByUndone DEF Bare
    <3>c. PICK z : z = saveIDs(s.q)
      OBVIOUS
    <3>d. Narrowed(q0, z, TRUE, e)
      BY <3>1, <3>c, SaveIDsNarrowed
    <3>e. WithSub(s.q, name, <<Disowned(r.q)>>) = s.q /\ WithSub(z, name, <<Disowned(r.q)>>) = z
      <4>1. WithSub(s.q, name, <<Disowned(r.q)>>) = s.q
        BY <3>a, <3>1, <3>2, <3>4, SameSub
      <4>a. PICK yes : yes = TRUE
        OBVIOUS
      <4>b. Narrowed(q0, z, yes, e)
        BY <3>d, <4>a
      <4>c. WithSub(z, name, q0.subs[name]) = z
        BY <3>2, <4>b, SameSub
      <4>2. WithSub(z, name, <<Disowned(r.q)>>) = z
        BY <3>a, <3>4, <4>c
      <4> QED BY <4>1, <4>2
    <3>f. s.q.ids = {} /\ z.ids = {}
      <4>1. s.q.ids = {}
        BY <1>3, <3>1, <3>4 DEF Narrowed
      <4>2. z.ids = s.q.ids
        BY <3>1, <3>c DEF Narrowed, saveIDs
      <4> QED BY <4>1, <4>2
    <3>g. PICK ids : ids = Owners(r.rows)
      OBVIOUS
    <3>h. NarrowByOwner(s, name, r) = IF r.err # "none" THEN Fails(s, Restore(z), r)
                                      ELSE GoesOn(s, WithIDs(z, ids), r.m)
      BY <3>c, <3>e, <3>g DEF NarrowByOwner, GoesOn, WithIDs, WithSub
    <3>i. JoinByEntry(s, r) = IF r.err # "none" THEN Fails(s, restoreEnvIDs(s.q), r)
                              ELSE GoesOn(s, [z EXCEPT !.ids = z.ids \cup ids], r.m)
      BY <1>1, <3>c, <3>e, <3>g DEF JoinByEntry, GoesOn, WithSub
    <3>j. Restore(z) = q0 /\ restoreEnvIDs(s.q) = q0
      <4>1. Restore(z) = q0
        BY <3>d, RestoreIsWhole
      <4>2. restoreEnvIDs(s.q) = q0
        BY <1>3, <3>1, RestoreIsWhole
      <4> QED BY <4>1, <4>2
    <3>k. [z EXCEPT !.ids = z.ids \cup ids] = WithIDs(z, ids)
      <4>1. z.ids \cup ids = ids
        BY <3>f
      <4> QED BY <4>1 DEF WithIDs
    <3>9. JoinByEntry(s, r) = NarrowByOwner(s, name, r)
      BY <3>h, <3>i, <3>j, <3>k
    <3>10. s.q.subs[name][1] = x
      BY <3>2, <3>3
    <3> QED BY <1>1, <1>2, <2>2, <3>5, <3>7, <3>9, <3>10 DEF ByEntry, ByOwner
  <2> QED BY <2>1, <2>2
<1> QED BY <1>1, <1>2, <1>6, <1>7

DomainTripleAnswer(tbl, type, q, d) == {x \in Table(d, tbl) : DomainTripleAsked(type, q, x, d)}

LEMMA DomainTripleAnswers ==
  ASSUME NEW q, AtRest(q), AsksDomainTriple(q), NEW m, IsMoment(m), NEW tbl, NEW type
  PROVE  Answered(q, m, RunDomainTriple(tbl, type, q, m), DomainTripleAnswer(tbl, type, q, Ever(m)),
                  DomainTripleAnswer(tbl, type, q, Always(m)))
<1>1. PICK A0 : A0 = Table(Ever(m), tbl)
  OBVIOUS
<1>2. PICK B0 : B0 = Table(Always(m), tbl)
  OBVIOUS
<1>3. PICK s1 : s1 = ByEnvironment(MidRun(q, m))
  OBVIOUS
<1>4. PICK A1 : A1 = Within(q, A0, Ever(m))
  OBVIOUS
<1>5. PICK B1 : B1 = Within(q, B0, Always(m))
  OBVIOUS
<1>6. Stage(q, m, s1, A0, A1, B1, FALSE, TRUE)
  BY <1>3, <1>4, <1>5, EnvironmentStage DEF AsksDomainTriple
<1>7. PICK s2 : s2 = ByEntry(type, s1)
  OBVIOUS
<1>8. PICK A2 : A2 = HasDomainEntry(q, "entries", {type}, A1, Ever(m))
  OBVIOUS
<1>9. PICK B2 : B2 = HasDomainEntry(q, "entries", {type}, B1, Always(m))
  OBVIOUS
<1>10. Stage(q, m, s2, A0, A2, B2, TRUE, TRUE)
  BY <1>6, <1>7, <1>8, <1>9, EntriesStage
<1>11. B2 \subseteq B0
  BY <1>5, <1>9 DEF HasDomainEntry, Within
<1>12. Answered(q, m, Final(tbl, s2), Chosen(q, A2), Chosen(q, B2))
  BY <1>1, <1>2, <1>10, <1>11, StageEnds
<1>13. RunDomainTriple(tbl, type, q, m) = Final(tbl, s2)
  BY <1>3, <1>7 DEF RunDomainTriple
<1>14. /\ Chosen(q, A2) = DomainTripleAnswer(tbl, type, q, Ever(m))
       /\ Chosen(q, B2) = DomainTripleAnswer(tbl, type, q, Always(m))
  BY <1>1, <1>2, <1>4, <1>5, <1>8, <1>9
     DEF Chosen, HasDomainEntry, Within, DomainTripleAnswer, DomainTripleAsked
<1> QED BY <1>12, <1>13, <1>14
-----------------------------------------------------------------------------
(* Groups: what the members find.  B[j] and S[j] bound the result of the j-th.       *)

Finds(m0, members, run, B, S, n) ==
  \A j \in 1..n, k \in Nat :
    Answered(members[j], [m0 EXCEPT !.next = k], run[j][k], B[j], S[j])

\* The results are those of all members, or one of them has nothing to find.
Whole(B, S, i, rs) == Len(rs) = i /\ \A j \in 1..i : S[j] \subseteq rs[j] /\ rs[j] \subseteq B[j]
Partial(S, i, rs) == Len(rs) < i /\ \E j \in 1..i : S[j] = {}
Covers(B, S, i, rs) ==
  /\ \A k \in DOMAIN rs : \A x \in rs[k] : \E j \in 1..i : x \in B[j]
  /\ \A j \in 1..i : \A x \in S[j] : \E k \in DOMAIN rs : x \in rs[k]
Tells(B, S, i, rs) == (Whole(B, S, i, rs) \/ Partial(S, i, rs)) /\ Covers(B, S, i, rs)

LEMMA TellsNothing ==
  ASSUME NEW B, NEW S
  PROVE  Tells(B, S, 0, <<>>)
<1>1. Len(<<>>) = 0 /\ DOMAIN <<>> = {} /\ \A j \in 1..0 : FALSE
  OBVIOUS
<1> QED BY <1>1 DEF Tells, Whole, Covers

LEMMA TellsMore ==
  ASSUME NEW C, NEW rs \in Seq(C), NEW rows \in C, NEW i \in Nat, NEW B, NEW S,
         Tells(B, S, i, rs), S[i + 1] \subseteq rows, rows \subseteq B[i + 1]
  PROVE  Tells(B, S, i + 1, Append(rs, rows))
<1>1. PICK l \in Nat : l = Len(rs) /\ DOMAIN rs = 1..l
  OBVIOUS
<1>2. PICK new : new = Append(rs, rows)
  OBVIOUS
<1>3. /\ Len(new) = l + 1 /\ DOMAIN new = 1..(l + 1) /\ new[l + 1] = rows
      /\ \A k \in 1..l : new[k] = rs[k]
  BY <1>1, <1>2
<1>4. \A j \in 1..(i + 1) : j \in 1..i \/ j = i + 1
  OBVIOUS
<1>5. \A k \in 1..(l + 1) : k \in 1..l \/ k = l + 1
  OBVIOUS
<1>6. i + 1 \in 1..(i + 1) /\ l + 1 \in 1..(l + 1) /\ 1..i \subseteq 1..(i + 1) /\ 1..l \subseteq 1..(l + 1)
  OBVIOUS
<1>7. Covers(B, S, i + 1, new)
  <2>1. ASSUME NEW k \in DOMAIN new, NEW x \in new[k] PROVE \E j \in 1..(i + 1) : x \in B[j]
    <3>1. CASE k \in 1..l
      <4>1. x \in rs[k] /\ k \in DOMAIN rs
        BY <1>1, <1>3, <2>1, <3>1
      <4>2. \E j \in 1..i : x \in B[j]
        BY <4>1 DEF Tells, Covers
      <4> QED BY <1>6, <4>2
    <3>2. CASE k = l + 1
      BY <1>3, <1>6, <2>1, <3>2
    <3> QED BY <1>3, <1>5, <3>1, <3>2
  <2>2. ASSUME NEW j \in 1..(i + 1), NEW x \in S[j] PROVE \E k \in DOMAIN new : x \in new[k]
    <3>1. CASE j \in 1..i
      <4>1. PICK k \in DOMAIN rs : x \in rs[k]
        BY <2>2, <3>1 DEF Tells, Covers
      <4>2. k \in DOMAIN new /\ x \in new[k]
        BY <1>1, <1>3, <1>6, <4>1
      <4> QED BY <4>2
    <3>2. CASE j = i + 1
      <4>1. l + 1 \in DOMAIN new /\ x \in new[l + 1]
        BY <1>3, <1>6, <2>2, <3>2
      <4> QED BY <4>1
    <3> QED BY <1>4, <3>1, <3>2
  <2> QED BY <2>1, <2>2 DEF Covers
<1>8. CASE Whole(B, S, i, rs)
  <2>1. l = i
    BY <1>1, <1>8 DEF Whole
  <2>2. ASSUME NEW j \in 1..(i + 1) PROVE S[j] \subseteq new[j] /\ new[j] \subseteq B[j]
    <3>1. CASE j \in 1..i
      BY <1>3, <1>8, <2>1, <3>1 DEF Whole
    <3>2. CASE j = i + 1
      BY <1>3, <2>1, <3>2
    <3> QED BY <1>4, <3>1, <3>2
  <2>3. Whole(B, S, i + 1, new)
    BY <1>3, <2>1, <2>2 DEF Whole
  <2> QED BY <1>2, <1>7, <2>3 DEF Tells
<1>9. CASE Partial(S, i, rs)
  <2>1. l < i
    BY <1>1, <1>9 DEF Partial
  <2>2. l + 1 < i + 1
    BY <2>1
  <2>3. \E j \in 1..(i + 1) : S[j] = {}
    BY <1>6, <1>9 DEF Partial
  <2>4. Partial(S, i + 1, new)
    BY <1>3, <2>2, <2>3 DEF Partial
  <2> QED BY <1>2, <1>7, <2>4 DEF Tells
<1> QED BY <1>8, <1>9 DEF Tells

LEMMA TellsLess ==
  ASSUME NEW rs, Len(rs) \in Nat, NEW i \in Nat, NEW B, NEW S, Tells(B, S, i, rs), S[i + 1] = {}
  PROVE  Tells(B, S, i + 1, rs)
<1>1. \A j \in 1..(i + 1) : j \in 1..i \/ j = i + 1
  OBVIOUS
<1>2. i + 1 \in 1..(i + 1) /\ 1..i \subseteq 1..(i + 1)
  OBVIOUS
<1>3. Covers(B, S, i + 1, rs)
  <2>1. ASSUME NEW k \in DOMAIN rs, NEW x \in rs[k] PROVE \E j \in 1..(i + 1) : x \in B[j]
    BY <1>2, <2>1 DEF Tells, Covers
  <2>2. ASSUME NEW j \in 1..(i + 1), NEW x \in S[j] PROVE \E k \in DOMAIN rs : x \in rs[k]
    BY <1>1, <2>2 DEF Tells, Covers
  <2> QED BY <2>1, <2>2 DEF Covers
<1>4. Len(rs) <= i
  BY DEF Tells, Whole, Partial
<1>5. Len(rs) < i + 1
  BY <1>4
<1>6. Partial(S, i + 1, rs)
  BY <1>2, <1>5 DEF Partial
<1> QED BY <1>3, <1>6 DEF Tells

\* A group after its first i members: they are as before.
Shows(m0, members, B, S, i, g) ==
  /\ g.members = [j \in 1..i |-> members[j]]
  /\ g.err = "none" => Tells(B, S, i, g.results)

LEMMA OneMoreMember ==
  ASSUME NEW i \in Nat, NEW members, NEW f, f = [j \in 1..i |-> members[j]]
  PROVE  Append(f, members[i + 1]) = [j \in 1..(i + 1) |-> members[j]]
<1>1. Len(f) = i /\ DOMAIN f = 1..i
  OBVIOUS
<1>2. PICK x : x = members[i + 1]
  OBVIOUS
<1>3. Append(f, x) = [j \in 1..(i + 1) |-> IF j = i + 1 THEN x ELSE f[j]]
  BY <1>1
<1>4. \A j \in 1..(i + 1) : (IF j = i + 1 THEN x ELSE f[j]) = members[j]
  <2> TAKE j \in 1..(i + 1)
  <2>1. j = i + 1 \/ j \in 1..i
    OBVIOUS
  <2> QED BY <1>2, <2>1
<1> QED BY <1>2, <1>3, <1>4

LEMMA NextShows ==
  ASSUME NEW m0, NEW members, NEW run, NEW B, NEW S, NEW n \in Nat,
         Finds(m0, members, run, B, S, n), RunsEnd(m0, n, run), NEW i \in Nat, i + 1 \in 1..n,
         NEW g, Gathers(m0, members, run, n, i, g), Shows(m0, members, B, S, i, g)
  PROVE  Shows(m0, members, B, S, i + 1, NextMember(g, members[i + 1], run, i + 1))
<1>1. PICK h : h = NextMember(g, members[i + 1], run, i + 1)
  OBVIOUS
<1>2. PICK x : x = members[i + 1]
  OBVIOUS
<1>3. Append(g.members, x) = [j \in 1..(i + 1) |-> members[j]]
  BY <1>2, OneMoreMember DEF Shows
<1>4. CASE g.err = "none"
  <2>1. PICK k \in Nat : k = g.m.next
    BY DEF Gathers, Reports, IsMoment
  <2>2. PICK r : r = run[i + 1][k]
    OBVIOUS
  <2>3. Answered(x, [m0 EXCEPT !.next = k], r, B[i + 1], S[i + 1])
    BY <1>2, <2>2 DEF Finds
  <2>4. h = After(g, r)
    BY <1>1, <1>4, <2>1, <2>2 DEF NextMember
  <2>5. /\ h.members = Append(g.members, r.q)
        /\ h.err = (IF r.err = "db error" THEN r.err ELSE "none")
        /\ h.results = (IF r.err = "none" THEN Append(g.results, r.rows) ELSE g.results)
    BY <2>4 DEF After
  <2>6. r.q = x /\ r.rows \subseteq B[i + 1] /\ (r.err # "db error" => S[i + 1] \subseteq r.rows)
    BY <2>3 DEF Answered
  <2>7. r.err \in Errors /\ (r.err = "none" <=> r.rows # {})
    BY <2>3 DEF Answered, Ends, Reports
  <2>8. Tells(B, S, i, g.results) /\ g.results \in Seq(Found(m0))
    BY <1>4 DEF Shows, Gathers
  <2>9. CASE r.err = "none"
    <3>1. r.rows \in Found(m0)
      <4>1. Ends([m0 EXCEPT !.next = k], r)
        BY <2>3 DEF Answered
      <4>2. Ends(g.m, r) /\ g.m.before = m0.before /\ g.m.after = m0.after
        BY <2>1, <4>1 DEF Gathers, Reports, IsMoment
      <4> QED BY <2>7, <2>9, <4>2 DEF Ends, Found
    <3>2. Tells(B, S, i + 1, Append(g.results, r.rows))
      BY <2>6, <2>8, <2>9, <3>1, TellsMore
    <3>3. Shows(m0, members, B, S, i + 1, h)
      BY <1>3, <2>5, <2>6, <2>9, <3>2 DEF Shows
    <3> QED BY <1>1, <3>3
  <2>10. CASE r.err = "no match"
    <3>1. S[i + 1] = {}
      BY <2>6, <2>7, <2>10
    <3>2. Tells(B, S, i + 1, g.results)
      BY <2>8, <3>1, TellsLess
    <3>3. Shows(m0, members, B, S, i + 1, h)
      BY <1>3, <2>5, <2>6, <2>10, <3>2 DEF Shows
    <3> QED BY <1>1, <3>3
  <2>11. CASE r.err = "db error"
    <3>1. Shows(m0, members, B, S, i + 1, h)
      BY <1>3, <2>5, <2>6, <2>11 DEF Shows
    <3> QED BY <1>1, <3>1
  <2> QED BY <2>7, <2>9, <2>10, <2>11 DEF Errors
<1>5. CASE g.err # "none"
  <2>1. h = LeftOut(g, x)
    BY <1>1, <1>2, <1>5 DEF NextMember, LeftOut
  <2>2. PICK a, b, c, d : g = [members |-> a, m |-> b, err |-> c, results |-> d]
    BY DEF Gathers, IsGroupRun
  <2>3. h.members = Append(g.members, x) /\ h.err = g.err
    <3>1. PICK z : z = Append(g.members, x)
      OBVIOUS
    <3>2. h = [g EXCEPT !.members = z]
      BY <2>1, <3>1 DEF LeftOut
    <3> QED BY <2>2, <3>1, <3>2
  <2>4. Shows(m0, members, B, S, i + 1, h)
    BY <1>3, <1>5, <2>3 DEF Shows
  <2> QED BY <1>1, <2>4
<1> QED BY <1>4, <1>5

LEMMA FoldShows ==
  ASSUME NEW m0, IsMoment(m0), NEW members, NEW run, NEW B, NEW S, NEW n \in Nat,
         Finds(m0, members, run, B, S, n), NEW f, IsFold(f, members, run, m0, n)
  PROVE  Gathers(m0, members, run, n, n, f[n]) /\ Shows(m0, members, B, S, n, f[n])
<1> DEFINE T == {i \in Nat : i <= n => /\ Gathers(m0, members, run, n, i, f[i])
                                      /\ Shows(m0, members, B, S, i, f[i])}
<1>r. RunsEnd(m0, n, run)
  BY DEF RunsEnd, Finds, Answered
<1>0. \A i \in 0..n : f[i] = IF i = 0 THEN NoMember(m0)
                            ELSE NextMember(f[i - 1], members[i], run, i)
  BY DEF IsFold
<1>1. 0 \in T
  <2>1. 0 \in 0..n
    OBVIOUS
  <2>2. PICK g : g = NoMember(m0)
    OBVIOUS
  <2>3. f[0] = g
    BY <1>0, <2>1, <2>2
  <2>4. IsGroupRun(g) /\ g.members = <<>> /\ g.m = m0 /\ g.err = "none" /\ g.results = <<>>
    BY <2>2 DEF NoMember, IsGroupRun
  <2>5. Reports(m0, m0, "none")
    BY NothingYet
  <2>6. <<>> \in Seq(AnyChoice(members, run, n)) /\ <<>> \in Seq(Found(m0)) /\ Len(<<>>) = 0
    OBVIOUS
  <2>7. \A j \in 1..0 : FALSE
    OBVIOUS
  <2>8. Gathers(m0, members, run, n, 0, g)
    BY <2>4, <2>5, <2>6, <2>7 DEF Gathers
  <2>9. <<>> = [j \in 1..0 |-> members[j]]
    OBVIOUS
  <2>10. Shows(m0, members, B, S, 0, g)
    BY <2>4, <2>9, TellsNothing DEF Shows
  <2> QED BY <2>3, <2>8, <2>10
<1>2. ASSUME NEW i \in Nat, i \in T PROVE i + 1 \in T
  <2> SUFFICES ASSUME i + 1 <= n
               PROVE  /\ Gathers(m0, members, run, n, i + 1, f[i + 1])
                      /\ Shows(m0, members, B, S, i + 1, f[i + 1])
    OBVIOUS
  <2>1. i <= n /\ i + 1 \in 1..n /\ i + 1 \in 0..n /\ i + 1 # 0 /\ (i + 1) - 1 = i
    OBVIOUS
  <2>2. Gathers(m0, members, run, n, i, f[i]) /\ Shows(m0, members, B, S, i, f[i])
    BY <1>2, <2>1
  <2> HIDE DEF T
  <2>3. PICK g : g = f[i]
    OBVIOUS
  <2>4. Gathers(m0, members, run, n, i + 1, NextMember(g, members[i + 1], run, i + 1))
    BY <1>r, <2>1, <2>2, <2>3, NextGathers
  <2>5. Shows(m0, members, B, S, i + 1, NextMember(g, members[i + 1], run, i + 1))
    BY <1>r, <2>1, <2>2, <2>3, NextShows
  <2>6. PICK j \in 0..n : j = i + 1
    BY <2>1
  <2>7. f[j] = NextMember(g, members[j], run, j)
    BY <1>0, <2>1, <2>3, <2>6
  <2> QED BY <2>4, <2>5, <2>6, <2>7
<1> HIDE DEF T
<1>3. Nat \subseteq T
  BY <1>1, <1>2, AllNumbers
<1> QED BY <1>3 DEF T

LEMMA GroupResultIs ==
  ASSUME NEW g, IsGroupRun(g)
  PROVE  /\ GroupResult(g).members = g.members /\ GroupResult(g).m = g.m
         /\ GroupResult(g).results = g.results
         /\ GroupResult(g).err = IF g.err = "none" /\ g.results = <<>> THEN "no match" ELSE g.err
<1>1. PICK a, b, c, d : g = [members |-> a, m |-> b, err |-> c, results |-> d]
  BY DEF IsGroupRun
<1>2. PICK h : h = GroupResult(g)
  OBVIOUS
<1> QED BY <1>1, <1>2 DEF GroupResult

\* What RunGroup returns: the members as they were, and what they have found.
\* What a group has found, once it is over.
FoundBy(m0, members, B, S, n, g) ==
  /\ Reports(m0, g.m, g.err) /\ g.members = members
  /\ g.err # "db error" => Tells(B, S, n, g.results)
  /\ g.err = "no match" => g.results = <<>>
  /\ g.results \in Seq(Found(m0)) /\ (g.err = "none" => g.results # <<>>)

LEMMA GroupShows ==
  ASSUME NEW m0, IsMoment(m0), NEW members, NEW run, NEW B, NEW S, NEW n \in Nat,
         Len(members) = n, members = [j \in 1..n |-> members[j]],
         Finds(m0, members, run, B, S, n)
  PROVE  FoundBy(m0, members, B, S, n, RunGroup(members, run, m0))
<1>0. PICK h : h = RunGroup(members, run, m0)
  OBVIOUS
<1> DEFINE f == CHOOSE f : IsFold(f, members, run, m0, n)
<1>1. IsFold(f, members, run, m0, n)
  BY FoldExists
<1>2. h = GroupResult(f[n])
  BY <1>0 DEF RunGroup, IsFold, NoMember
<1> HIDE DEF f
<1>3. PICK g : g = f[n]
  OBVIOUS
<1>4. Gathers(m0, members, run, n, n, g) /\ Shows(m0, members, B, S, n, g)
  BY <1>1, <1>3, FoldShows
<1>5. /\ h.members = g.members /\ h.m = g.m /\ h.results = g.results
      /\ h.err = IF g.err = "none" /\ g.results = <<>> THEN "no match" ELSE g.err
  BY <1>2, <1>3, <1>4, GroupResultIs DEF Gathers
<1>6. Reports(m0, h.m, h.err)
  <2>1. RunsEnd(m0, n, run)
    BY DEF RunsEnd, Finds, Answered
  <2> QED BY <1>0, <2>1, GroupEnds DEF Gathered
<1>7. g.err # "no match" /\ h.err \in Errors
  BY <1>4, <1>6 DEF Gathers, Reports
<1>8. h.members = members /\ (g.err = "none" => Tells(B, S, n, g.results))
  BY <1>4, <1>5 DEF Shows
<1>9. g.err \in Errors /\ g.results \in Seq(Found(m0))
  BY <1>4 DEF Gathers, Reports
<1>10. /\ h.err # "db error" => Tells(B, S, n, h.results)
       /\ h.err = "no match" => h.results = <<>>
       /\ h.results \in Seq(Found(m0)) /\ (h.err = "none" => h.results # <<>>)
  BY <1>5, <1>7, <1>8, <1>9 DEF Errors
<1>11. FoundBy(m0, members, B, S, n, h)
  BY <1>6, <1>8, <1>10 DEF FoundBy
<1> QED BY <1>0, <1>11
-----------------------------------------------------------------------------
(* Groups: which owners match all members. *)

\* The rows of G above one of each of the B[j].
AboveAll(G, n, B, types) == {x \in G : \A j \in 1..n : Heads(x, B[j], types)}

\* What the members find of B when they belong to the IDs.
Yields(B, n, ids) == [j \in 1..n |-> Owned(B[j], {}, ids)]

\* The rows of B that have one of the types are those of the type.
Fits(type, types, n, B) == \A j \in 1..n : \A y \in B[j] : Column(y.typ, types, FALSE) <=> y.typ = type

\* There is a row of w in each of the B[j].
OwnsAll(w, n, B, type) == \A j \in 1..n : \E y \in B[j] : y.owner = w /\ y.typ = type

LEMMA FirstOf ==
  ASSUME NEW n \in Nat, n # 0, NEW C, NEW rs \in Seq(C), Len(rs) = n
  PROVE  DOMAIN rs = 1..n /\ 1 \in 1..n
OBVIOUS

LEMMA ConjunctionSound ==
  ASSUME NEW n \in Nat, n # 0, NEW m0, NEW members, Len(members) = n, NEW B, NEW S, NEW g,
         FoundBy(m0, members, B, S, n, g), NEW type, OwnerConjunction(type, g).err = "none"
  PROVE  /\ OwnerConjunction(type, g).ids # {}
         /\ \A w \in OwnerConjunction(type, g).ids : OwnsAll(w, n, B, type)
<1> DEFINE o == OwnerConjunction(type, g)
           owned == [k \in DOMAIN g.results |-> Owners({r \in g.results[k] : r.typ = type})]
           ids == {w \in UNION {owned[k] : k \in DOMAIN owned} : \A k \in DOMAIN owned : w \in owned[k]}
           err == IF g.err = "none" /\ (Len(g.results) # Len(g.members) \/ ids = {})
                  THEN "no match" ELSE g.err
<1>1. o.ids = ids /\ o.err = err
  BY DEF OwnerConjunction
<1>2. \A w \in ids : \A k \in DOMAIN g.results : w \in Owners({r \in g.results[k] : r.typ = type})
  OBVIOUS
<1> HIDE DEF ids
<1>3. err = "none" => g.err = "none" /\ Len(g.results) = Len(g.members) /\ ids # {}
  OBVIOUS
<1> HIDE DEF o, err
<1>4. g.err = "none" /\ Len(g.results) = Len(g.members) /\ ids # {}
  BY <1>1, <1>3 DEF o
<1>5. PICK rs \in Seq(Found(m0)) : rs = g.results
  BY DEF FoundBy
<1>6. DOMAIN rs = 1..n /\ Len(rs) = n
  BY <1>4, <1>5 DEF FoundBy
<1>7. Whole(B, S, n, rs)
  BY <1>4, <1>5, <1>6 DEF Tells, Partial, FoundBy
<1>8. ASSUME NEW w \in ids, NEW j \in 1..n PROVE \E y \in B[j] : y.owner = w /\ y.typ = type
  <2>1. w \in Owners({r \in rs[j] : r.typ = type})
    BY <1>2, <1>5, <1>6, <1>8
  <2>2. PICK y \in rs[j] : y.owner = w /\ y.typ = type
    BY <2>1 DEF Owners
  <2> QED BY <1>7, <2>2 DEF Whole
<1> QED BY <1>1, <1>4, <1>8 DEF OwnsAll, o

LEMMA ConjunctionComplete ==
  ASSUME NEW n \in Nat, n # 0, NEW m0, NEW members, Len(members) = n, NEW B, NEW S, NEW g,
         FoundBy(m0, members, B, S, n, g), NEW type, OwnerConjunction(type, g).err # "db error",
         NEW w, OwnsAll(w, n, S, type)
  PROVE  OwnerConjunction(type, g).err = "none" /\ w \in OwnerConjunction(type, g).ids
<1> DEFINE o == OwnerConjunction(type, g)
           owned == [k \in DOMAIN g.results |-> Owners({r \in g.results[k] : r.typ = type})]
           ids == {v \in UNION {owned[k] : k \in DOMAIN owned} : \A k \in DOMAIN owned : v \in owned[k]}
           err == IF g.err = "none" /\ (Len(g.results) # Len(g.members) \/ ids = {})
                  THEN "no match" ELSE g.err
<1>1. o.ids = ids /\ o.err = err
  BY DEF OwnerConjunction
<1>2. ASSUME 1 \in DOMAIN g.results,
             \A k \in DOMAIN g.results : w \in Owners({r \in g.results[k] : r.typ = type})
      PROVE  w \in ids
  <2>1. DOMAIN owned = DOMAIN g.results /\ \A k \in DOMAIN owned : w \in owned[k]
    BY <1>2
  <2> HIDE DEF owned
  <2> QED BY <1>2, <2>1
<1> HIDE DEF ids
<1>3. /\ err # "db error" => g.err # "db error"
      /\ g.err = "none" /\ Len(g.results) = Len(g.members) /\ ids # {} => err = "none"
  OBVIOUS
<1> HIDE DEF o, err
<1>4. g.err # "db error"
  BY <1>1, <1>3 DEF o
<1>5. PICK rs \in Seq(Found(m0)) : rs = g.results
  BY DEF FoundBy
<1>6. Whole(B, S, n, rs)
  <2>1. Tells(B, S, n, rs)
    BY <1>4, <1>5 DEF FoundBy
  <2>2. ~Partial(S, n, rs)
    BY DEF Partial, OwnsAll
  <2> QED BY <2>1, <2>2 DEF Tells
<1>7. Len(rs) = n
  BY <1>6 DEF Whole
<1>8. DOMAIN rs = 1..n /\ 1 \in 1..n
  BY <1>7, FirstOf
<1>9. g.err = "none"
  <2>1. Len(<<>>) = 0
    OBVIOUS
  <2>2. g.err # "no match"
    BY <1>5, <1>7, <2>1 DEF FoundBy
  <2>3. g.err \in Errors
    BY DEF FoundBy, Reports
  <2> QED BY <1>4, <2>2, <2>3 DEF Errors
<1>10. ASSUME NEW j \in 1..n PROVE w \in Owners({r \in rs[j] : r.typ = type})
  <2>1. PICK y \in S[j] : y.owner = w /\ y.typ = type
    BY DEF OwnsAll
  <2>2. y \in rs[j]
    BY <1>6, <2>1 DEF Whole
  <2> QED BY <2>1, <2>2 DEF Owners
<1>11. w \in ids
  BY <1>2, <1>5, <1>8, <1>10
<1>12. Len(g.results) = Len(g.members)
  BY <1>5, <1>7 DEF FoundBy
<1> QED BY <1>1, <1>3, <1>9, <1>11, <1>12 DEF o

LEMMA GroupStage ==
  ASSUME NEW q0, AtRest(q0), NEW m0, NEW s, NEW U, NEW G, NEW H, NEW i, NEW e,
         Stage(q0, m0, s, U, G, H, i, e), s.err = "none",
         NEW n \in Nat, n # 0, NEW members, Len(members) = n, NEW B, NEW S, NEW g,
         FoundBy(s.m, members, Yields(B, n, s.q.ids), Yields(S, n, s.q.ids), n, g),
         NEW type, NEW types, Fits(type, types, n, B), Fits(type, types, n, S)
  PROVE  Stage(q0, m0, NarrowByGroup(s, s.q, q0, OwnerConjunction(type, g), g.m), U,
               AboveAll(G, n, B, types), AboveAll(H, n, S, types), TRUE, e)
<1>1. PICK o : o = OwnerConjunction(type, g)
  OBVIOUS
<1>2. PICK t : t = NarrowByGroup(s, s.q, q0, o, g.m)
  OBVIOUS
<1>3. PICK ids : ids = o.ids
  OBVIOUS
<1>4. PICK q : q = WithIDs(saveIDs(s.q), ids)
  OBVIOUS
<1>5. PICK K : K = s.q.ids
  OBVIOUS
<1>6. Progress(m0, s) /\ IsRun(s) /\ Narrowed(q0, s.q, i, e)
  BY DEF Stage, Progress
<1>7. Progress(m0, t)
  <2>1. Held(s.q, "any", FALSE, FALSE) /\ Held(s.q, "any", i, e) /\ Held(q0, "any", FALSE, FALSE)
    BY DEF Held
  <2>2. Mid(m0, s, "any", i, e)
    BY <1>6, <2>1 DEF Mid
  <2>3. Reports(s.m, g.m, g.err)
    BY DEF FoundBy
  <2>4. Mid(m0, t, "any", TRUE, e)
    BY <1>1, <1>2, <2>1, <2>2, <2>3, GroupNarrows
  <2> QED BY <2>4 DEF Mid
<1>8. Narrowed(q0, q, TRUE, e) /\ q.ids = ids /\ q.envs = s.q.envs
  <2>1. Narrowed(q0, s.q, i, e)
    BY <1>6
  <2>2. PICK u : u = saveIDs(s.q)
    OBVIOUS
  <2>3. Narrowed(q0, u, TRUE, e)
    BY <2>1, <2>2, SaveIDsNarrowed
  <2>4. Narrowed(q0, WithIDs(u, ids), TRUE, e)
    BY <2>1, <2>2, SaveIDsNarrowed
  <2>5. WithIDs(u, ids).ids = ids /\ WithIDs(u, ids).envs = u.envs
    BY <2>3 DEF Narrowed, WithIDs
  <2>6. u.envs = s.q.envs
    BY <2>1, <2>2 DEF Narrowed, saveIDs
  <2> QED BY <1>4, <2>2, <2>4, <2>5, <2>6
<1>9. o.err # "none" => t.q = q0 /\ t.err = o.err
  BY <1>2, <1>6 DEF NarrowByGroup, IsRun
<1>10. o.err = "none" => t.q = q /\ t.err = "none"
  <2>1. PICK u : u = saveIDs(s.q)
    OBVIOUS
  <2>2. q = [u EXCEPT !.ids = ids]
    BY <1>4, <2>1 DEF WithIDs
  <2>3. o.err = "none" => t = [s EXCEPT !.q = q, !.m = g.m]
    BY <1>2, <1>3, <2>1, <2>2 DEF NarrowByGroup
  <2> QED BY <1>6, <2>3 DEF IsRun
<1>12. PICK B1, S1 : B1 = Yields(B, n, K) /\ S1 = Yields(S, n, K)
  OBVIOUS
<1>13. FoundBy(s.m, members, B1, S1, n, g)
  BY <1>5, <1>12
<1>14. ASSUME o.err = "none", NEW x \in U, Admits(q, x)
       PROVE  x \in AboveAll(G, n, B, types) /\ Admits(q0, x)
  <2>1. o.ids # {} /\ \A w \in o.ids : OwnsAll(w, n, B1, type)
    BY <1>1, <1>13, <1>14, ConjunctionSound
  <2>2. x.id \in ids
    BY <1>3, <1>8, <1>14, <2>1 DEF Admits, Column
  <2>3. ASSUME NEW j \in 1..n PROVE Heads(x, B[j], types) /\ Column(x.id, K, FALSE)
    <3>1. PICK y \in B1[j] : y.owner = x.id /\ y.typ = type
      BY <1>3, <2>1, <2>2 DEF OwnsAll
    <3>2. y \in B[j] /\ Column(y.owner, K, FALSE)
      BY <1>12, <3>1 DEF Yields, Owned
    <3> QED BY <3>1, <3>2 DEF Heads, Fits
  <2>4. 1 \in 1..n
    OBVIOUS
  <2>5. Admits(s.q, x)
    BY <1>5, <1>8, <1>14, <2>3, <2>4 DEF Admits
  <2>6. x \in G /\ Admits(q0, x)
    BY <2>5 DEF Stage
  <2> QED BY <2>3, <2>6 DEF AboveAll
<1>15. ASSUME o.err # "db error", NEW x \in AboveAll(H, n, S, types), Admits(q0, x)
       PROVE  o.err = "none" /\ Admits(q, x)
  <2>1. x \in H /\ \A j \in 1..n : Heads(x, S[j], types)
    BY DEF AboveAll
  <2>2. Admits(s.q, x)
    BY <1>15, <2>1 DEF Stage
  <2>3. ASSUME NEW j \in 1..n PROVE \E y \in S1[j] : y.owner = x.id /\ y.typ = type
    <3>1. PICK y \in S[j] : y.owner = x.id /\ Column(y.typ, types, FALSE)
      BY <2>1 DEF Heads
    <3>2. y.typ = type
      BY <3>1 DEF Fits
    <3>3. Column(y.owner, K, FALSE) /\ Column(y.typ, {}, FALSE)
      BY <1>5, <2>2, <3>1 DEF Admits, Column
    <3>4. y \in S1[j]
      BY <1>12, <3>1, <3>3 DEF Yields, Owned
    <3> QED BY <3>1, <3>2, <3>4
  <2>4. PICK w : w = x.id
    OBVIOUS
  <2>5. OwnsAll(w, n, S1, type)
    BY <2>3, <2>4 DEF OwnsAll
  <2>6. o.err = "none" /\ w \in o.ids
    BY <1>1, <1>13, <1>15, <2>5, ConjunctionComplete
  <2> QED BY <1>3, <1>8, <2>2, <2>4, <2>6 DEF Admits, Column
<1>16. PICK G1, H1 : G1 = AboveAll(G, n, B, types) /\ H1 = AboveAll(H, n, S, types)
  OBVIOUS
<1>17. Stage(q0, m0, t, U, G1, H1, TRUE, e)
  <2>1. CASE o.err = "none"
    <3>1. t.q = q /\ t.err = "none"
      BY <1>10, <2>1
    <3>2. \A x \in U : Admits(q, x) => x \in G1 /\ Admits(q0, x)
      BY <1>14, <1>16, <2>1
    <3>3. \A x \in H1 : Admits(q0, x) => Admits(q, x)
      BY <1>15, <1>16, <2>1
    <3> QED BY <1>7, <1>8, <3>1, <3>2, <3>3 DEF Stage
  <2>2. CASE o.err # "none"
    <3>1. t.q = q0 /\ t.err = o.err
      BY <1>9, <2>2
    <3>2. o.err = "no match" => \A x \in H1 : ~Admits(q0, x)
      BY <1>15, <1>16
    <3> QED BY <1>7, <2>2, <3>1, <3>2 DEF Stage
  <2> QED BY <2>1, <2>2
<1> QED BY <1>1, <1>2, <1>16, <1>17
-----------------------------------------------------------------------------
(* A group as a stage of a run. *)

\* The group, if there is one: n queries at rest, which belong to no one yet.
Listed(q, name, n) ==
  name \in DOMAIN q.subs =>
    /\ n \in Nat /\ Len(q.subs[name]) = n /\ q.subs[name] = [j \in 1..n |-> q.subs[name][j]]
    /\ \A j \in 1..n : AtRest(q.subs[name][j]) /\ q.subs[name][j].owners = {}

LEMMA MembersUndone ==
  ASSUME NEW q0, AtRest(q0), NEW q, NEW i, NEW e, Narrowed(q0, q, i, e),
         NEW name, name \in DOMAIN q0.subs, NEW n \in Nat, Listed(q0, name, n)
  PROVE  /\ WithMembers(q, name, Members(q, name)) = q
         /\ Len(Members(q, name)) = n
         /\ Members(q, name) = [j \in 1..n |-> OwnedBy(q0.subs[name][j], {}, q.ids)]
<1>1. PICK xs : xs = q0.subs[name]
  OBVIOUS
<1>2. xs = [j \in 1..n |-> xs[j]] /\ \A j \in 1..n : AtRest(xs[j]) /\ xs[j].owners = {}
  BY <1>1 DEF Listed
<1>3. q.subs = q0.subs
  BY DEF Narrowed
<1>4. DOMAIN xs = 1..n
  BY <1>2
<1>5. PICK ms : ms = [j \in 1..n |-> OwnedBy(xs[j], {}, q.ids)]
  OBVIOUS
<1>6. Members(q, name) = ms
  BY <1>1, <1>3, <1>4, <1>5 DEF Members
<1>7. Len(ms) = n
  BY <1>5
<1>8. PICK ys : ys = [j \in DOMAIN ms |-> WithoutOwners(ms[j])]
  OBVIOUS
<1>9. WithMembers(q, name, ms) = WithSub(q, name, ys)
  BY <1>8 DEF WithMembers, WithSub, WithoutOwners
<1>10. ys = [j \in 1..n |-> xs[j]]
  <2>1. DOMAIN ms = 1..n
    BY <1>5
  <2>2. \A j \in 1..n : WithoutOwners(ms[j]) = xs[j]
    <3> SUFFICES ASSUME NEW j \in 1..n PROVE WithoutOwners(ms[j]) = xs[j]
      OBVIOUS
    <3>1. PICK x : x = xs[j]
      OBVIOUS
    <3>2. AtRest(x) /\ x.owners = {} /\ ms[j] = OwnedBy(x, {}, q.ids)
      BY <1>2, <1>5, <3>1
    <3> QED BY <3>1, <3>2, OwnedByUndone
  <2> QED BY <1>8, <2>1, <2>2
<1>11. WithSub(q, name, xs) = q
  BY <1>1, SameSub
<1>12. ys = xs
  BY <1>2, <1>10
<1> QED BY <1>1, <1>5, <1>6, <1>7, <1>9, <1>11, <1>12

GroupOf(s, name, run) == RunGroup(Members(s.q, name), run, s.m)
GroupNarrowing(s, name, type, run, whole) ==
  IF Skips(s, name) THEN s
  ELSE NarrowByGroup(s, s.q, whole, OwnerConjunction(type, GroupOf(s, name, run)),
                     GroupOf(s, name, run).m)

\* What the members of the group find, when they belong to the IDs of the query.
Searches(s, name, n, run, B, S) ==
  Finds(s.m, Members(s.q, name), run, Yields(B, n, s.q.ids), Yields(S, n, s.q.ids), n)

LEMMA GroupFound ==
  ASSUME NEW q0, AtRest(q0), NEW m0, NEW s, NEW U, NEW G, NEW H, NEW i, NEW e,
         Stage(q0, m0, s, U, G, H, i, e), s.err = "none",
         NEW name, name \in DOMAIN q0.subs, NEW n \in Nat, Listed(q0, name, n),
         NEW run, NEW B, NEW S, Searches(s, name, n, run, B, S)
  PROVE  /\ FoundBy(s.m, Members(s.q, name), Yields(B, n, s.q.ids), Yields(S, n, s.q.ids), n,
                     GroupOf(s, name, run))
         /\ WithMembers(s.q, name, GroupOf(s, name, run).members) = s.q
         /\ Len(Members(s.q, name)) = n
<1>1. PICK ms : ms = Members(s.q, name)
  OBVIOUS
<1>2. Narrowed(q0, s.q, i, e) /\ IsMoment(s.m)
  BY DEF Stage, Progress, Reports
<1>3. /\ WithMembers(s.q, name, ms) = s.q /\ Len(ms) = n
      /\ ms = [j \in 1..n |-> OwnedBy(q0.subs[name][j], {}, s.q.ids)]
  BY <1>1, <1>2, MembersUndone
<1>4. ms = [j \in 1..n |-> ms[j]]
  BY <1>3
<1>5. PICK g : g = RunGroup(ms, run, s.m)
  OBVIOUS
<1>6. PICK B1, S1 : B1 = Yields(B, n, s.q.ids) /\ S1 = Yields(S, n, s.q.ids)
  OBVIOUS
<1>7. Finds(s.m, ms, run, B1, S1, n)
  BY <1>1, <1>6 DEF Searches
<1>8. FoundBy(s.m, ms, B1, S1, n, g)
  BY <1>2, <1>3, <1>4, <1>5, <1>7, GroupShows
<1>9. g.members = ms
  BY <1>8 DEF FoundBy
<1> QED BY <1>1, <1>3, <1>5, <1>6, <1>8, <1>9 DEF GroupOf

LEMMA GroupGoes ==
  ASSUME NEW q0, AtRest(q0), NEW m0, NEW s, NEW U, NEW G, NEW H, NEW i, NEW e,
         Stage(q0, m0, s, U, G, H, i, e), NEW name, NEW n \in Nat,
         Listed(q0, name, n), NEW type, NEW types, NEW run, NEW B, NEW S,
         Fits(type, types, n, B), Fits(type, types, n, S),
         s.err = "none" /\ name \in DOMAIN q0.subs => Searches(s, name, n, run, B, S),
         name \notin DOMAIN q0.subs => n = 0
  PROVE  Stage(q0, m0, GroupNarrowing(s, name, type, run, q0), U,
               AboveAll(G, n, B, types), AboveAll(H, n, S, types), TRUE, e)
<1>1. PICK t : t = GroupNarrowing(s, name, type, run, q0)
  OBVIOUS
<1>2. PICK G1, H1 : G1 = AboveAll(G, n, B, types) /\ H1 = AboveAll(H, n, S, types)
  OBVIOUS
<1>3. H1 \subseteq H
  BY <1>2 DEF AboveAll
<1>4. CASE s.err # "none"
  <2>1. t = s
    BY <1>1, <1>4 DEF Skips, GroupNarrowing
  <2>2. Stage(q0, m0, s, U, G1, H1, TRUE, e)
    BY <1>3, <1>4 DEF Stage
  <2> QED BY <1>1, <1>2, <2>1, <2>2
<1>5. CASE s.err = "none" /\ n = 0
  <2>1. s.q.subs = q0.subs
    BY <1>5 DEF Stage, Narrowed
  <2>2. Sub(s.q, name) = <<>>
    <3>1. CASE name \notin DOMAIN q0.subs
      BY <2>1, <3>1 DEF Sub
    <3>2. CASE name \in DOMAIN q0.subs
      <4>1. q0.subs[name] = [j \in 1..0 |-> q0.subs[name][j]]
        BY <1>5, <3>2 DEF Listed
      <4>2. PICK f : f = q0.subs[name]
        OBVIOUS
      <4>3. f = <<>>
        BY <4>1, <4>2
      <4> QED BY <2>1, <3>2, <4>2, <4>3 DEF Sub
    <3> QED BY <3>1, <3>2
  <2>3. t = s
    BY <1>1, <1>5, <2>2 DEF Skips, GroupNarrowing
  <2>4. 1..n = {}
    BY <1>5
  <2>5. G \subseteq G1
    BY <1>2, <2>4 DEF AboveAll
  <2>6. Stage(q0, m0, s, U, G1, H1, TRUE, e)
    BY <1>3, <2>5, StageLoosened
  <2> QED BY <1>1, <1>2, <2>3, <2>6
<1>6. CASE s.err = "none" /\ n # 0
  <2>1. s.q.subs = q0.subs /\ name \in DOMAIN q0.subs
    BY <1>6 DEF Stage, Narrowed
  <2>2. Sub(s.q, name) # <<>>
    <3>1. Len(q0.subs[name]) = n /\ Len(<<>>) = 0
      BY <2>1 DEF Listed
    <3> QED BY <1>6, <2>1, <3>1 DEF Sub
  <2>3. PICK ms : ms = Members(s.q, name)
    OBVIOUS
  <2>4. PICK g : g = GroupOf(s, name, run)
    OBVIOUS
  <2>5. FoundBy(s.m, ms, Yields(B, n, s.q.ids), Yields(S, n, s.q.ids), n, g) /\ Len(ms) = n
    BY <1>6, <2>1, <2>3, <2>4, GroupFound
  <2>6. t = NarrowByGroup(s, s.q, q0, OwnerConjunction(type, g), g.m)
    BY <1>1, <1>6, <2>2, <2>4 DEF Skips, GroupNarrowing
  <2>7. Stage(q0, m0, t, U, G1, H1, TRUE, e)
    BY <1>2, <1>6, <2>5, <2>6, GroupStage
  <2> QED BY <1>1, <1>2, <2>7
<1> QED BY <1>4, <1>5, <1>6
-----------------------------------------------------------------------------
(* The groups of measurements. *)

LEMMA NextMoment ==
  ASSUME NEW m, IsMoment(m), NEW k \in Nat
  PROVE  /\ IsMoment([m EXCEPT !.next = k])
         /\ Ever([m EXCEPT !.next = k]) = Ever(m) /\ Always([m EXCEPT !.next = k]) = Always(m)
<1>1. PICK a, b, c, d, f : m = [next |-> a, before |-> b, after |-> c, at |-> d, fails |-> f]
  BY DEF IsMoment
<1> QED BY <1>1, MomentAt DEF Ever, Always

\* A group, or none.
LEMMA GroupDomain ==
  ASSUME NEW q, NEW name, NEW n \in Nat,
         n = (IF name \in DOMAIN q.subs THEN Len(q.subs[name]) ELSE 0),
         name \in DOMAIN q.subs => q.subs[name] = [j \in 1..Len(q.subs[name]) |-> q.subs[name][j]]
  PROVE  DOMAIN Sub(q, name) = 1..n
<1>1. CASE name \in DOMAIN q.subs
  <2>1. PICK xs : xs = q.subs[name]
    OBVIOUS
  <2>2. xs = [j \in 1..n |-> xs[j]]
    BY <1>1, <2>1
  <2>3. DOMAIN xs = 1..n
    BY <2>2
  <2> QED BY <1>1, <2>1, <2>3 DEF Sub
<1>2. CASE name \notin DOMAIN q.subs
  <2>1. DOMAIN <<>> = 1..0
    OBVIOUS
  <2> QED BY <1>2, <2>1 DEF Sub
<1> QED BY <1>1, <1>2

LEMMA MeasurementSearches ==
  ASSUME NEW q0, AtRest(q0), NEW m0, NEW s, NEW U, NEW G, NEW H, NEW i, NEW e,
         Stage(q0, m0, s, U, G, H, i, e), s.err = "none", NEW name, name \in DOMAIN q0.subs,
         Group(q0, name, AsksMeasurement), NEW n \in Nat, n = Len(q0.subs[name]), NEW B, NEW S,
         B = [j \in 1..n |-> MeasurementAnswer(q0.subs[name][j], Ever(m0))],
         S = [j \in 1..n |-> MeasurementAnswer(q0.subs[name][j], Always(m0))]
  PROVE  Searches(s, name, n, Runs(Members(s.q, name), RunMeasurement, s.m), B, S)
<1>1. PICK xs : xs = q0.subs[name]
  OBVIOUS
<1>2. \A j \in 1..n : AtRest(xs[j]) /\ xs[j].owners = {} /\ AsksMeasurement(xs[j])
  <2>1. DOMAIN xs = 1..n
    BY <1>1 DEF Group
  <2> QED BY <1>1, <2>1 DEF Group
<1>3. Narrowed(q0, s.q, i, e) /\ IsMoment(s.m) /\ Ever(s.m) = Ever(m0) /\ Always(s.m) = Always(m0)
  BY SameMoments DEF Stage, Progress
<1>4. Listed(q0, name, n)
  BY <1>1, <1>2 DEF Listed, Group
<1>5. PICK ids : ids = s.q.ids
  OBVIOUS
<1>6. PICK ms : ms = Members(s.q, name)
  OBVIOUS
<1>7. ms = [j \in 1..n |-> OwnedBy(xs[j], {}, ids)]
  BY <1>1, <1>3, <1>4, <1>5, <1>6, MembersUndone
<1>8. PICK run : run = Runs(ms, RunMeasurement, s.m)
  OBVIOUS
<1>9. ASSUME NEW j \in 1..n, NEW k \in Nat
      PROVE  Answered(ms[j], [s.m EXCEPT !.next = k], run[j][k], Yields(B, n, ids)[j], Yields(S, n, ids)[j])
  <2>1. PICK x : x = xs[j]
    OBVIOUS
  <2>2. PICK p : p = OwnedBy(x, {}, ids)
    OBVIOUS
  <2>3. PICK m : m = [s.m EXCEPT !.next = k]
    OBVIOUS
  <2>4. ms[j] = p /\ DOMAIN ms = 1..n
    BY <1>7, <2>1, <2>2
  <2>5. run[j][k] = RunMeasurement(p, m)
    BY <1>8, <2>3, <2>4 DEF Runs
  <2>6. AtRest(x) /\ x.owners = {} /\ AsksMeasurement(x)
    BY <1>2, <2>1
  <2>7. /\ AtRest(p) /\ AsksMeasurement(p)
        /\ \A d : MeasurementAnswer(p, d) = Owned(MeasurementAnswer(x, d), {}, ids)
    BY <2>2, <2>6, MeasurementOwned
  <2>8. IsMoment(m) /\ Ever(m) = Ever(m0) /\ Always(m) = Always(m0)
    BY <1>3, <2>3, NextMoment
  <2>9. Answered(p, m, RunMeasurement(p, m), MeasurementAnswer(p, Ever(m0)), MeasurementAnswer(p, Always(m0)))
    BY <2>7, <2>8, MeasurementAnswers
  <2>10. B[j] = MeasurementAnswer(x, Ever(m0)) /\ S[j] = MeasurementAnswer(x, Always(m0))
    BY <1>1, <2>1
  <2>11. /\ Yields(B, n, ids)[j] = MeasurementAnswer(p, Ever(m0))
         /\ Yields(S, n, ids)[j] = MeasurementAnswer(p, Always(m0))
    BY <2>7, <2>10 DEF Yields
  <2> QED BY <2>3, <2>4, <2>5, <2>9, <2>11
<1> QED BY <1>5, <1>6, <1>8, <1>9 DEF Searches, Finds

HasAllMeasurement(q, name, type, G, d) ==
  {x \in G : Has(q, name, "measurements", {type}, x, d, MeasurementAsked)}

LEMMA HasAllMeasurementIs ==
  ASSUME NEW q, NEW name, NEW type, NEW n \in Nat, DOMAIN Sub(q, name) = 1..n, NEW G, NEW d, NEW B,
         B = [j \in 1..n |-> MeasurementAnswer(q.subs[name][j], d)]
  PROVE  HasAllMeasurement(q, name, type, G, d) = AboveAll(G, n, B, {type})
BY DEF HasAllMeasurement, Has, AboveAll, Heads, MeasurementAnswer

LEMMA MeasurementGroupRestore ==
  ASSUME NEW q0, AtRest(q0), NEW m0, NEW s, NEW U, NEW G, NEW H, NEW i, NEW e, 
         Stage(q0, m0, s, U, G, H, i, e), NEW name,
         Group(q0, name, AsksMeasurement), NEW type
  PROVE  Stage(q0, m0, ByGroup(name, type, RunMeasurement, Restore, s), U,
               HasAllMeasurement(q0, name, type, G, Ever(m0)),
               HasAllMeasurement(q0, name, type, H, Always(m0)), TRUE, e)
<1>1. PICK n \in Nat : n = (IF name \in DOMAIN q0.subs THEN Len(q0.subs[name]) ELSE 0)
  BY DEF Group
<1>2. DOMAIN Sub(q0, name) = 1..n
  BY <1>1, GroupDomain DEF Group
<1>3. Listed(q0, name, n)
  <2>1. CASE name \in DOMAIN q0.subs
    <3>1. \A j \in 1..n : AtRest(q0.subs[name][j]) /\ q0.subs[name][j].owners = {}
      BY <1>2, <2>1 DEF Sub, Group
    <3> QED BY <1>1, <2>1, <3>1 DEF Listed, Group
  <2>2. CASE name \notin DOMAIN q0.subs
    BY <2>2 DEF Listed
  <2> QED BY <2>1, <2>2
<1>4. PICK B : B = [j \in 1..n |-> MeasurementAnswer(q0.subs[name][j], Ever(m0))]
  OBVIOUS
<1>5. PICK S : S = [j \in 1..n |-> MeasurementAnswer(q0.subs[name][j], Always(m0))]
  OBVIOUS
<1>6. PICK run : run = Runs(Members(s.q, name), RunMeasurement, s.m)
  OBVIOUS
<1>7. s.err = "none" /\ name \in DOMAIN q0.subs => Searches(s, name, n, run, B, S)
  BY <1>1, <1>4, <1>5, <1>6, MeasurementSearches

<1>9. Fits(type, {type}, n, B) /\ Fits(type, {type}, n, S)
  BY DEF Fits, Column
<1>10. Stage(q0, m0, GroupNarrowing(s, name, type, run, q0), U,
             AboveAll(G, n, B, {type}), AboveAll(H, n, S, {type}), TRUE, e)
  BY <1>1, <1>3, <1>7, <1>9, GroupGoes
<1>11. ByGroup(name, type, RunMeasurement, Restore, s) = GroupNarrowing(s, name, type, run, q0)
  <2>1. CASE Skips(s, name)
    BY <2>1 DEF ByGroup, GroupNarrowing
  <2>2. CASE ~Skips(s, name)
    <3>1. s.err = "none" /\ Narrowed(q0, s.q, i, e)
      BY <2>2 DEF Skips, Stage
    <3>2. name \in DOMAIN q0.subs
      BY <2>2, <3>1 DEF Skips, Sub, Narrowed
    <3>3. PICK g : g = GroupOf(s, name, run)
      OBVIOUS
    <3>4. WithMembers(s.q, name, g.members) = s.q
      BY <1>3, <1>7, <3>1, <3>2, <3>3, GroupFound
    <3>5. Restore(s.q) = q0
      BY <3>1, RestoreIsWhole
    <3>6. ByGroup(name, type, RunMeasurement, Restore, s)
          = NarrowByGroup(s, WithMembers(s.q, name, g.members),
                          Restore(WithMembers(s.q, name, g.members)),
                          OwnerConjunction(type, g), g.m)
      BY <1>6, <2>2, <3>3 DEF ByGroup, GroupOf, Members
    <3> QED BY <2>2, <3>3, <3>4, <3>5, <3>6 DEF GroupNarrowing
  <2> QED BY <2>1, <2>2
<1>12. HasAllMeasurement(q0, name, type, G, Ever(m0)) = AboveAll(G, n, B, {type})
  BY <1>2, <1>4, HasAllMeasurementIs
<1>13. HasAllMeasurement(q0, name, type, H, Always(m0)) = AboveAll(H, n, S, {type})
  BY <1>2, <1>5, HasAllMeasurementIs
<1> QED BY <1>10, <1>11, <1>12, <1>13

LEMMA MeasurementGroupRestoreEnvIDs ==
  ASSUME NEW q0, AtRest(q0), NEW m0, NEW s, NEW U, NEW G, NEW H, NEW e, 
         Stage(q0, m0, s, U, G, H, FALSE, e), NEW name,
         Group(q0, name, AsksMeasurement), NEW type
  PROVE  Stage(q0, m0, ByGroup(name, type, RunMeasurement, restoreEnvIDs, s), U,
               HasAllMeasurement(q0, name, type, G, Ever(m0)),
               HasAllMeasurement(q0, name, type, H, Always(m0)), TRUE, e)
<1>1. PICK n \in Nat : n = (IF name \in DOMAIN q0.subs THEN Len(q0.subs[name]) ELSE 0)
  BY DEF Group
<1>2. DOMAIN Sub(q0, name) = 1..n
  BY <1>1, GroupDomain DEF Group
<1>3. Listed(q0, name, n)
  <2>1. CASE name \in DOMAIN q0.subs
    <3>1. \A j \in 1..n : AtRest(q0.subs[name][j]) /\ q0.subs[name][j].owners = {}
      BY <1>2, <2>1 DEF Sub, Group
    <3> QED BY <1>1, <2>1, <3>1 DEF Listed, Group
  <2>2. CASE name \notin DOMAIN q0.subs
    BY <2>2 DEF Listed
  <2> QED BY <2>1, <2>2
<1>4. PICK B : B = [j \in 1..n |-> MeasurementAnswer(q0.subs[name][j], Ever(m0))]
  OBVIOUS
<1>5. PICK S : S = [j \in 1..n |-> MeasurementAnswer(q0.subs[name][j], Always(m0))]
  OBVIOUS
<1>6. PICK run : run = Runs(Members(s.q, name), RunMeasurement, s.m)
  OBVIOUS
<1>7. s.err = "none" /\ name \in DOMAIN q0.subs => Searches(s, name, n, run, B, S)
  BY <1>1, <1>4, <1>5, <1>6, MeasurementSearches

<1>9. Fits(type, {type}, n, B) /\ Fits(type, {type}, n, S)
  BY DEF Fits, Column
<1>10. Stage(q0, m0, GroupNarrowing(s, name, type, run, q0), U,
             AboveAll(G, n, B, {type}), AboveAll(H, n, S, {type}), TRUE, e)
  BY <1>1, <1>3, <1>7, <1>9, GroupGoes
<1>11. ByGroup(name, type, RunMeasurement, restoreEnvIDs, s) = GroupNarrowing(s, name, type, run, q0)
  <2>1. CASE Skips(s, name)
    BY <2>1 DEF ByGroup, GroupNarrowing
  <2>2. CASE ~Skips(s, name)
    <3>1. s.err = "none" /\ Narrowed(q0, s.q, FALSE, e)
      BY <2>2 DEF Skips, Stage
    <3>2. name \in DOMAIN q0.subs
      BY <2>2, <3>1 DEF Skips, Sub, Narrowed
    <3>3. PICK g : g = GroupOf(s, name, run)
      OBVIOUS
    <3>4. WithMembers(s.q, name, g.members) = s.q
      BY <1>3, <1>7, <3>1, <3>2, <3>3, GroupFound
    <3>5. restoreEnvIDs(s.q) = q0
      BY <3>1, RestoreIsWhole
    <3>6. ByGroup(name, type, RunMeasurement, restoreEnvIDs, s)
          = NarrowByGroup(s, WithMembers(s.q, name, g.members),
                          restoreEnvIDs(WithMembers(s.q, name, g.members)),
                          OwnerConjunction(type, g), g.m)
      BY <1>6, <2>2, <3>3 DEF ByGroup, GroupOf, Members
    <3> QED BY <2>2, <3>3, <3>4, <3>5, <3>6 DEF GroupNarrowing
  <2> QED BY <2>1, <2>2
<1>12. HasAllMeasurement(q0, name, type, G, Ever(m0)) = AboveAll(G, n, B, {type})
  BY <1>2, <1>4, HasAllMeasurementIs
<1>13. HasAllMeasurement(q0, name, type, H, Always(m0)) = AboveAll(H, n, S, {type})
  BY <1>2, <1>5, HasAllMeasurementIs
<1> QED BY <1>10, <1>11, <1>12, <1>13

LEMMA MeasurementGroupNoRecovery ==
  ASSUME NEW q0, AtRest(q0), NEW m0, NEW s, NEW U, NEW G, NEW H, 
         Stage(q0, m0, s, U, G, H, FALSE, FALSE), NEW name,
         Group(q0, name, AsksMeasurement), NEW type
  PROVE  Stage(q0, m0, ByGroup(name, type, RunMeasurement, NoRecovery, s), U,
               HasAllMeasurement(q0, name, type, G, Ever(m0)),
               HasAllMeasurement(q0, name, type, H, Always(m0)), TRUE, FALSE)
<1>1. PICK n \in Nat : n = (IF name \in DOMAIN q0.subs THEN Len(q0.subs[name]) ELSE 0)
  BY DEF Group
<1>2. DOMAIN Sub(q0, name) = 1..n
  BY <1>1, GroupDomain DEF Group
<1>3. Listed(q0, name, n)
  <2>1. CASE name \in DOMAIN q0.subs
    <3>1. \A j \in 1..n : AtRest(q0.subs[name][j]) /\ q0.subs[name][j].owners = {}
      BY <1>2, <2>1 DEF Sub, Group
    <3> QED BY <1>1, <2>1, <3>1 DEF Listed, Group
  <2>2. CASE name \notin DOMAIN q0.subs
    BY <2>2 DEF Listed
  <2> QED BY <2>1, <2>2
<1>4. PICK B : B = [j \in 1..n |-> MeasurementAnswer(q0.subs[name][j], Ever(m0))]
  OBVIOUS
<1>5. PICK S : S = [j \in 1..n |-> MeasurementAnswer(q0.subs[name][j], Always(m0))]
  OBVIOUS
<1>6. PICK run : run = Runs(Members(s.q, name), RunMeasurement, s.m)
  OBVIOUS
<1>7. s.err = "none" /\ name \in DOMAIN q0.subs => Searches(s, name, n, run, B, S)
  BY <1>1, <1>4, <1>5, <1>6, MeasurementSearches

<1>9. Fits(type, {type}, n, B) /\ Fits(type, {type}, n, S)
  BY DEF Fits, Column
<1>10. Stage(q0, m0, GroupNarrowing(s, name, type, run, q0), U,
             AboveAll(G, n, B, {type}), AboveAll(H, n, S, {type}), TRUE, FALSE)
  BY <1>1, <1>3, <1>7, <1>9, GroupGoes
<1>11. ByGroup(name, type, RunMeasurement, NoRecovery, s) = GroupNarrowing(s, name, type, run, q0)
  <2>1. CASE Skips(s, name)
    BY <2>1 DEF ByGroup, GroupNarrowing
  <2>2. CASE ~Skips(s, name)
    <3>1. s.err = "none" /\ Narrowed(q0, s.q, FALSE, FALSE)
      BY <2>2 DEF Skips, Stage
    <3>2. name \in DOMAIN q0.subs
      BY <2>2, <3>1 DEF Skips, Sub, Narrowed
    <3>3. PICK g : g = GroupOf(s, name, run)
      OBVIOUS
    <3>4. WithMembers(s.q, name, g.members) = s.q
      BY <1>3, <1>7, <3>1, <3>2, <3>3, GroupFound
    <3>5. NoRecovery(s.q) = q0
      BY <3>1, NotNarrowed DEF NoRecovery
    <3>6. ByGroup(name, type, RunMeasurement, NoRecovery, s)
          = NarrowByGroup(s, WithMembers(s.q, name, g.members),
                          NoRecovery(WithMembers(s.q, name, g.members)),
                          OwnerConjunction(type, g), g.m)
      BY <1>6, <2>2, <3>3 DEF ByGroup, GroupOf, Members
    <3> QED BY <2>2, <3>3, <3>4, <3>5, <3>6 DEF GroupNarrowing
  <2> QED BY <2>1, <2>2
<1>12. HasAllMeasurement(q0, name, type, G, Ever(m0)) = AboveAll(G, n, B, {type})
  BY <1>2, <1>4, HasAllMeasurementIs
<1>13. HasAllMeasurement(q0, name, type, H, Always(m0)) = AboveAll(H, n, S, {type})
  BY <1>2, <1>5, HasAllMeasurementIs
<1> QED BY <1>10, <1>11, <1>12, <1>13

LEMMA MeasurementGroupRestoreIDs ==
  ASSUME NEW q0, AtRest(q0), NEW m0, NEW s, NEW U, NEW G, NEW H, NEW i, 
         Stage(q0, m0, s, U, G, H, i, FALSE), NEW name,
         Group(q0, name, AsksMeasurement), NEW type
  PROVE  Stage(q0, m0, ByGroup(name, type, RunMeasurement, restoreIDs, s), U,
               HasAllMeasurement(q0, name, type, G, Ever(m0)),
               HasAllMeasurement(q0, name, type, H, Always(m0)), TRUE, FALSE)
<1>1. PICK n \in Nat : n = (IF name \in DOMAIN q0.subs THEN Len(q0.subs[name]) ELSE 0)
  BY DEF Group
<1>2. DOMAIN Sub(q0, name) = 1..n
  BY <1>1, GroupDomain DEF Group
<1>3. Listed(q0, name, n)
  <2>1. CASE name \in DOMAIN q0.subs
    <3>1. \A j \in 1..n : AtRest(q0.subs[name][j]) /\ q0.subs[name][j].owners = {}
      BY <1>2, <2>1 DEF Sub, Group
    <3> QED BY <1>1, <2>1, <3>1 DEF Listed, Group
  <2>2. CASE name \notin DOMAIN q0.subs
    BY <2>2 DEF Listed
  <2> QED BY <2>1, <2>2
<1>4. PICK B : B = [j \in 1..n |-> MeasurementAnswer(q0.subs[name][j], Ever(m0))]
  OBVIOUS
<1>5. PICK S : S = [j \in 1..n |-> MeasurementAnswer(q0.subs[name][j], Always(m0))]
  OBVIOUS
<1>6. PICK run : run = Runs(Members(s.q, name), RunMeasurement, s.m)
  OBVIOUS
<1>7. s.err = "none" /\ name \in DOMAIN q0.subs => Searches(s, name, n, run, B, S)
  BY <1>1, <1>4, <1>5, <1>6, MeasurementSearches

<1>9. Fits(type, {type}, n, B) /\ Fits(type, {type}, n, S)
  BY DEF Fits, Column
<1>10. Stage(q0, m0, GroupNarrowing(s, name, type, run, q0), U,
             AboveAll(G, n, B, {type}), AboveAll(H, n, S, {type}), TRUE, FALSE)
  BY <1>1, <1>3, <1>7, <1>9, GroupGoes
<1>11. ByGroup(name, type, RunMeasurement, restoreIDs, s) = GroupNarrowing(s, name, type, run, q0)
  <2>1. CASE Skips(s, name)
    BY <2>1 DEF ByGroup, GroupNarrowing
  <2>2. CASE ~Skips(s, name)
    <3>1. s.err = "none" /\ Narrowed(q0, s.q, i, FALSE)
      BY <2>2 DEF Skips, Stage
    <3>2. name \in DOMAIN q0.subs
      BY <2>2, <3>1 DEF Skips, Sub, Narrowed
    <3>3. PICK g : g = GroupOf(s, name, run)
      OBVIOUS
    <3>4. WithMembers(s.q, name, g.members) = s.q
      BY <1>3, <1>7, <3>1, <3>2, <3>3, GroupFound
    <3>5. restoreIDs(s.q) = q0
      BY <3>1, RestoreIsWhole
    <3>6. ByGroup(name, type, RunMeasurement, restoreIDs, s)
          = NarrowByGroup(s, WithMembers(s.q, name, g.members),
                          restoreIDs(WithMembers(s.q, name, g.members)),
                          OwnerConjunction(type, g), g.m)
      BY <1>6, <2>2, <3>3 DEF ByGroup, GroupOf, Members
    <3> QED BY <2>2, <3>3, <3>4, <3>5, <3>6 DEF GroupNarrowing
  <2> QED BY <2>1, <2>2
<1>12. HasAllMeasurement(q0, name, type, G, Ever(m0)) = AboveAll(G, n, B, {type})
  BY <1>2, <1>4, HasAllMeasurementIs
<1>13. HasAllMeasurement(q0, name, type, H, Always(m0)) = AboveAll(H, n, S, {type})
  BY <1>2, <1>5, HasAllMeasurementIs
<1> QED BY <1>10, <1>11, <1>12, <1>13
-----------------------------------------------------------------------------
(* What the queries with one group, of measurements, return; and records, with two. *)

TripleAnswer(tbl, q, d) == {x \in Table(d, tbl) : TripleAsked(q, x, d)}

LEMMA TripleAnswers ==
  ASSUME NEW tbl, NEW q, AtRest(q), AsksTriple(q), NEW m, IsMoment(m)
  PROVE  Answered(q, m, RunTriple(tbl, q, m), TripleAnswer(tbl, q, Ever(m)), TripleAnswer(tbl, q, Always(m)))
<1>2. PICK A0 : A0 = Table(Ever(m), tbl)
  OBVIOUS
<1>3. PICK B0 : B0 = Table(Always(m), tbl)
  OBVIOUS
<1>4. PICK s0 : s0 = MidRun(q, m)
  OBVIOUS
<1>5. Stage(q, m, s0, A0, A0, B0, FALSE, FALSE)
  BY <1>4, StageStarts
<1>6. PICK s1 : s1 = ByEnvironment(s0)
  OBVIOUS
<1>7. PICK A1 : A1 = Within(q, A0, Ever(m))
  OBVIOUS
<1>8. PICK B1 : B1 = Within(q, B0, Always(m))
  OBVIOUS
<1>9. AsksEnv(q)
  BY DEF AsksTriple
<1>10. Stage(q, m, s1, A0, A1, B1, FALSE, TRUE)
  BY <1>5, <1>6, <1>7, <1>8, <1>4, <1>9, EnvironmentStage
<1>11. PICK s2 : s2 = ByOwner("cryptoKeys", {"key_triple"}, RunCryptoKey, s1)
  OBVIOUS
<1>12. PICK A2 : A2 = HasLeaf(q, "cryptoKeys", "cryptokeys", {"key_triple"}, A1, Ever(m))
  OBVIOUS
<1>13. PICK B2 : B2 = HasLeaf(q, "cryptoKeys", "cryptokeys", {"key_triple"}, B1, Always(m))
  OBVIOUS
<1>14. Single(q, "cryptoKeys", AsksLeaf) /\ "cryptoKeys" \notin Grouped
  BY DEF AsksTriple, Grouped, Single
<1>15. Stage(q, m, s2, A0, A2, B2, TRUE, TRUE)
  BY <1>10, <1>11, <1>12, <1>13, <1>14, CryptoKeyStage
<1>16. PICK s3 : s3 = ByOwner("authorizedBy", {"key_triple_auth"}, RunCryptoKey, s2)
  OBVIOUS
<1>17. PICK A3 : A3 = HasLeaf(q, "authorizedBy", "cryptokeys", {"key_triple_auth"}, A2, Ever(m))
  OBVIOUS
<1>18. PICK B3 : B3 = HasLeaf(q, "authorizedBy", "cryptokeys", {"key_triple_auth"}, B2, Always(m))
  OBVIOUS
<1>19. Single(q, "authorizedBy", AsksLeaf) /\ "authorizedBy" \notin Grouped
  BY DEF AsksTriple, Grouped, Single
<1>20. Stage(q, m, s3, A0, A3, B3, TRUE, TRUE)
  BY <1>15, <1>16, <1>17, <1>18, <1>19, CryptoKeyStage
<1>21. PICK s4 : s4 = ByGroup("measurements", "value_triple", RunMeasurement, Restore, s3)
  OBVIOUS
<1>22. PICK A4 : A4 = HasAllMeasurement(q, "measurements", "value_triple", A3, Ever(m))
  OBVIOUS
<1>23. PICK B4 : B4 = HasAllMeasurement(q, "measurements", "value_triple", B3, Always(m))
  OBVIOUS
<1>24. Group(q, "measurements", AsksMeasurement)
  BY DEF AsksTriple, Group
<1>25. Stage(q, m, s4, A0, A4, B4, TRUE, TRUE)
  BY <1>20, <1>21, <1>22, <1>23, <1>24, MeasurementGroupRestore
<1>26. B4 \subseteq B0
  BY <1>7, <1>8, <1>12, <1>13, <1>17, <1>18, <1>22, <1>23 DEF HasAllMeasurement, HasLeaf, Within
<1>27. Answered(q, m, Final(tbl, s4), Chosen(q, A4), Chosen(q, B4))
  BY <1>2, <1>3, <1>25, <1>26, StageEnds
<1>28. RunTriple(tbl, q, m) = Final(tbl, s4)
  BY <1>4, <1>6, <1>11, <1>16, <1>21 DEF RunTriple
<1>29. Chosen(q, A4) = TripleAnswer(tbl, q, Ever(m)) /\ Chosen(q, B4) = TripleAnswer(tbl, q, Always(m))
  BY <1>2, <1>3, <1>7, <1>8, <1>12, <1>13, <1>17, <1>18, <1>22, <1>23 DEF Chosen, HasAllMeasurement, HasLeaf, Within, TripleAnswer, TripleAsked, MeasurementsAsked
<1> QED BY <1>27, <1>28, <1>29

StatefulEnvironmentAnswer(q, d) == {x \in Table(d, "stateful_environments") : StatefulEnvironmentAsked(q, x, d)}

LEMMA StatefulEnvironmentAnswers ==
  ASSUME NEW q, AtRest(q), AsksStatefulEnvironment(q), NEW m, IsMoment(m)
  PROVE  Answered(q, m, RunStatefulEnvironment(q, m), StatefulEnvironmentAnswer(q, Ever(m)), StatefulEnvironmentAnswer(q, Always(m)))
<1>1. PICK tbl : tbl = "stateful_environments"
  OBVIOUS
<1>2. PICK A0 : A0 = Table(Ever(m), tbl)
  OBVIOUS
<1>3. PICK B0 : B0 = Table(Always(m), tbl)
  OBVIOUS
<1>4. PICK s0 : s0 = MidRun(q, m)
  OBVIOUS
<1>5. Stage(q, m, s0, A0, A0, B0, FALSE, FALSE)
  BY <1>4, StageStarts
<1>6. PICK s1 : s1 = ByEnvironment(s0)
  OBVIOUS
<1>7. PICK A1 : A1 = Within(q, A0, Ever(m))
  OBVIOUS
<1>8. PICK B1 : B1 = Within(q, B0, Always(m))
  OBVIOUS
<1>9. AsksEnv(q)
  BY DEF AsksStatefulEnvironment
<1>10. Stage(q, m, s1, A0, A1, B1, FALSE, TRUE)
  BY <1>5, <1>6, <1>7, <1>8, <1>4, <1>9, EnvironmentStage
<1>11. PICK s2 : s2 = ByGroup("measurements", "stateful_environment", RunMeasurement, restoreEnvIDs, s1)
  OBVIOUS
<1>12. PICK A2 : A2 = HasAllMeasurement(q, "measurements", "stateful_environment", A1, Ever(m))
  OBVIOUS
<1>13. PICK B2 : B2 = HasAllMeasurement(q, "measurements", "stateful_environment", B1, Always(m))
  OBVIOUS
<1>14. Group(q, "measurements", AsksMeasurement)
  BY DEF AsksStatefulEnvironment, Group
<1>15. Stage(q, m, s2, A0, A2, B2, TRUE, TRUE)
  BY <1>10, <1>11, <1>12, <1>13, <1>14, MeasurementGroupRestoreEnvIDs
<1>16. B2 \subseteq B0
  BY <1>7, <1>8, <1>12, <1>13 DEF HasAllMeasurement, Within
<1>17. Answered(q, m, Final(tbl, s2), Chosen(q, A2), Chosen(q, B2))
  BY <1>2, <1>3, <1>15, <1>16, StageEnds
<1>18. RunStatefulEnvironment(q, m) = Final(tbl, s2)
  BY <1>1, <1>4, <1>6, <1>11 DEF RunStatefulEnvironment
<1>19. Chosen(q, A2) = StatefulEnvironmentAnswer(q, Ever(m)) /\ Chosen(q, B2) = StatefulEnvironmentAnswer(q, Always(m))
  BY <1>1, <1>2, <1>3, <1>7, <1>8, <1>12, <1>13 DEF Chosen, HasAllMeasurement, Within, StatefulEnvironmentAnswer, StatefulEnvironmentAsked, MeasurementsAsked
<1> QED BY <1>17, <1>18, <1>19

LEMMA StatefulEnvironmentOwned ==
  ASSUME NEW x, AtRest(x), x.owners = {}, NEW types, x.types = {} \/ types = {}, NEW ids,
         AsksStatefulEnvironment(x)
  PROVE  /\ AtRest(OwnedBy(x, types, ids)) /\ AsksStatefulEnvironment(OwnedBy(x, types, ids))
         /\ \A d : StatefulEnvironmentAnswer(OwnedBy(x, types, ids), d) = Owned(StatefulEnvironmentAnswer(x, d), types, ids)
<1>1. PICK p : p = OwnedBy(x, types, ids)
  OBVIOUS
<1>2. AtRest(p) /\ p.subs = x.subs /\ p.ids = x.ids /\ p.envs = x.envs
  BY <1>1, OwnedByRests
<1>3. AsksStatefulEnvironment(p)
  BY <1>2 DEF AsksStatefulEnvironment, AsksEnv, Group
<1>4. \A y : Where(p, y) <=> Where(x, y) /\ Column(y.typ, types, FALSE) /\ Column(y.owner, ids, FALSE)
  BY <1>1, OwnedByWhere
<1>5. ASSUME NEW y, NEW d
      PROVE  StatefulEnvironmentAsked(p, y, d) <=> StatefulEnvironmentAsked(x, y, d) /\ Column(y.typ, types, FALSE)
                                                 /\ Column(y.owner, ids, FALSE)
  BY <1>2, <1>4 DEF StatefulEnvironmentAsked, DigestsAsked, Has, Sub, InEnv, MeasurementsAsked
<1>6. \A d : StatefulEnvironmentAnswer(p, d) = Owned(StatefulEnvironmentAnswer(x, d), types, ids)
  BY <1>5 DEF StatefulEnvironmentAnswer, Owned
<1> QED BY <1>1, <1>2, <1>3, <1>6

RecordAnswer(q, d) == {x \in Table(d, "conditional_endorsement_series_records") : RecordAsked(q, x, d)}

LEMMA RecordAnswers ==
  ASSUME NEW q, AtRest(q), AsksRecord(q), NEW m, IsMoment(m)
  PROVE  Answered(q, m, RunRecord(q, m), RecordAnswer(q, Ever(m)), RecordAnswer(q, Always(m)))
<1>1. PICK tbl : tbl = "conditional_endorsement_series_records"
  OBVIOUS
<1>2. PICK A0 : A0 = Table(Ever(m), tbl)
  OBVIOUS
<1>3. PICK B0 : B0 = Table(Always(m), tbl)
  OBVIOUS
<1>4. PICK s0 : s0 = MidRun(q, m)
  OBVIOUS
<1>5. Stage(q, m, s0, A0, A0, B0, FALSE, FALSE)
  BY <1>4, StageStarts
<1>6. PICK s1 : s1 = ByGroup("selections", "ces_record_selection", RunMeasurement, NoRecovery, s0)
  OBVIOUS
<1>7. PICK A1 : A1 = HasAllMeasurement(q, "selections", "ces_record_selection", A0, Ever(m))
  OBVIOUS
<1>8. PICK B1 : B1 = HasAllMeasurement(q, "selections", "ces_record_selection", B0, Always(m))
  OBVIOUS
<1>9. Group(q, "selections", AsksMeasurement)
  BY DEF AsksRecord, Group
<1>10. Stage(q, m, s1, A0, A1, B1, TRUE, FALSE)
  BY <1>5, <1>6, <1>7, <1>8, <1>4, <1>9, MeasurementGroupNoRecovery
<1>11. PICK s2 : s2 = ByGroup("additions", "ces_record_addition", RunMeasurement, restoreIDs, s1)
  OBVIOUS
<1>12. PICK A2 : A2 = HasAllMeasurement(q, "additions", "ces_record_addition", A1, Ever(m))
  OBVIOUS
<1>13. PICK B2 : B2 = HasAllMeasurement(q, "additions", "ces_record_addition", B1, Always(m))
  OBVIOUS
<1>14. Group(q, "additions", AsksMeasurement)
  BY DEF AsksRecord, Group
<1>15. Stage(q, m, s2, A0, A2, B2, TRUE, FALSE)
  BY <1>10, <1>11, <1>12, <1>13, <1>14, MeasurementGroupRestoreIDs
<1>16. B2 \subseteq B0
  BY <1>7, <1>8, <1>12, <1>13 DEF HasAllMeasurement
<1>17. Answered(q, m, Final(tbl, s2), Chosen(q, A2), Chosen(q, B2))
  BY <1>2, <1>3, <1>15, <1>16, StageEnds
<1>18. RunRecord(q, m) = Final(tbl, s2)
  BY <1>1, <1>4, <1>6, <1>11 DEF RunRecord
<1>19. Chosen(q, A2) = RecordAnswer(q, Ever(m)) /\ Chosen(q, B2) = RecordAnswer(q, Always(m))
  BY <1>1, <1>2, <1>3, <1>7, <1>8, <1>12, <1>13 DEF Chosen, HasAllMeasurement, RecordAnswer, RecordAsked, MeasurementsAsked
<1> QED BY <1>17, <1>18, <1>19

LEMMA RecordOwned ==
  ASSUME NEW x, AtRest(x), x.owners = {}, NEW types, x.types = {} \/ types = {}, NEW ids,
         AsksRecord(x)
  PROVE  /\ AtRest(OwnedBy(x, types, ids)) /\ AsksRecord(OwnedBy(x, types, ids))
         /\ \A d : RecordAnswer(OwnedBy(x, types, ids), d) = Owned(RecordAnswer(x, d), types, ids)
<1>1. PICK p : p = OwnedBy(x, types, ids)
  OBVIOUS
<1>2. AtRest(p) /\ p.subs = x.subs /\ p.ids = x.ids /\ p.envs = x.envs
  BY <1>1, OwnedByRests
<1>3. AsksRecord(p)
  BY <1>2 DEF AsksRecord, Group
<1>4. \A y : Where(p, y) <=> Where(x, y) /\ Column(y.typ, types, FALSE) /\ Column(y.owner, ids, FALSE)
  BY <1>1, OwnedByWhere
<1>5. ASSUME NEW y, NEW d
      PROVE  RecordAsked(p, y, d) <=> RecordAsked(x, y, d) /\ Column(y.typ, types, FALSE)
                                                 /\ Column(y.owner, ids, FALSE)
  BY <1>2, <1>4 DEF RecordAsked, DigestsAsked, Has, Sub, InEnv, MeasurementsAsked
<1>6. \A d : RecordAnswer(p, d) = Owned(RecordAnswer(x, d), types, ids)
  BY <1>5 DEF RecordAnswer, Owned
<1> QED BY <1>1, <1>2, <1>3, <1>6

LEMMA EndorsementStages ==
  ASSUME NEW q, AtRest(q), AsksEndorsement(q), NEW m, IsMoment(m), NEW U, NEW H, NEW type
  PROVE  Stage(q, m, ByGroup("measurements", type, RunMeasurement, NoRecovery,
                             ByEnvironment(MidRun(q, m))), U,
               HasAllMeasurement(q, "measurements", type, Within(q, U, Ever(m)), Ever(m)),
               HasAllMeasurement(q, "measurements", type, Within(q, H, Always(m)), Always(m)),
               TRUE, TRUE)
<1>1. PICK name : name = "measurements"
  OBVIOUS
<1>2. PICK s0 : s0 = MidRun(q, m)
  OBVIOUS
<1>3. PICK s1 : s1 = ByEnvironment(s0)
  OBVIOUS
<1>4. PICK s2 : s2 = ByGroup(name, type, RunMeasurement, NoRecovery, s1)
  OBVIOUS
<1>5. PICK U1, H1 : U1 = Within(q, U, Ever(m)) /\ H1 = Within(q, H, Always(m))
  OBVIOUS
<1>6. PICK U2 : U2 = HasAllMeasurement(q, name, type, U1, Ever(m))
  OBVIOUS
<1>7. PICK H2 : H2 = HasAllMeasurement(q, name, type, H1, Always(m))
  OBVIOUS
<1>8. Group(q, name, AsksMeasurement) /\ AsksEnv(q)
  BY <1>1 DEF AsksEndorsement, Group
<1>9. CASE "environment" \notin DOMAIN q.subs
  <2>1. Stage(q, m, s0, U, U, H, FALSE, FALSE)
    BY <1>2, StageStarts
  <2>2. s0.q = q /\ s0.err = "none"
    BY <1>2 DEF MidRun
  <2>3. s1 = s0
    BY <1>3, <1>9, <2>2 DEF ByEnvironment, Skips, Sub
  <2>4. DOMAIN Sub(q, "environment") = {}
    BY <1>9 DEF Sub
  <2>5. U1 = U /\ H1 = H
    BY <1>5, <2>4 DEF Within, InEnv
  <2>6. Stage(q, m, s1, U, U1, H1, FALSE, FALSE)
    BY <2>1, <2>3, <2>5
  <2>7. Stage(q, m, s2, U, U2, H2, TRUE, FALSE)
    BY <1>4, <1>6, <1>7, <1>8, <2>6, MeasurementGroupNoRecovery
  <2>8. Stage(q, m, s2, U, U2, H2, TRUE, TRUE)
    BY <2>7, StageLoosened
  <2> QED BY <1>1, <1>2, <1>3, <1>4, <1>5, <1>6, <1>7, <2>8
<1>10. CASE name \notin DOMAIN q.subs
  <2>1. Stage(q, m, s1, U, U1, H1, FALSE, TRUE)
    BY <1>2, <1>3, <1>5, <1>8, EnvironmentStage
  <2>2. s2 = s1
    <3>1. s1.err = "none" => s1.q.subs = q.subs
      BY <2>1 DEF Stage, Narrowed
    <3>2. Skips(s1, name)
      BY <1>10, <3>1 DEF Skips, Sub
    <3> QED BY <1>4, <3>2 DEF ByGroup
  <2>3. DOMAIN Sub(q, name) = {}
    BY <1>10 DEF Sub
  <2>4. U2 = U1 /\ H2 = H1
    BY <1>6, <1>7, <2>3 DEF HasAllMeasurement, Has
  <2>5. Stage(q, m, s2, U, U2, H2, TRUE, TRUE)
    BY <2>1, <2>2, <2>4, StageLoosened
  <2> QED BY <1>1, <1>2, <1>3, <1>4, <1>5, <1>6, <1>7, <2>5
<1> QED BY <1>1, <1>9, <1>10 DEF AsksEndorsement

EndorsementAnswer(q, d) == {x \in Table(d, "value_triples") : EndorsementAsked(q, x, d)}

LEMMA EndorsementAnswers ==
  ASSUME NEW q, AtRest(q), AsksEndorsement(q), NEW m, IsMoment(m)
  PROVE  Answered(q, m, RunEndorsement(q, m), EndorsementAnswer(q, Ever(m)), EndorsementAnswer(q, Always(m)))
<1>1. PICK tbl : tbl = "value_triples"
  OBVIOUS
<1>2. PICK A0 : A0 = Table(Ever(m), tbl)
  OBVIOUS
<1>3. PICK B0 : B0 = Table(Always(m), tbl)
  OBVIOUS
<1>4. PICK type : type = "value_triple"
  OBVIOUS
<1>5. PICK s : s = ByGroup("measurements", type, RunMeasurement, NoRecovery, ByEnvironment(MidRun(q, m)))
  OBVIOUS
<1>6. PICK A1 : A1 = HasAllMeasurement(q, "measurements", type, Within(q, A0, Ever(m)), Ever(m))
  OBVIOUS
<1>7. PICK B1 : B1 = HasAllMeasurement(q, "measurements", type, Within(q, B0, Always(m)), Always(m))
  OBVIOUS
<1>8. Stage(q, m, s, A0, A1, B1, TRUE, TRUE)
  BY <1>5, <1>6, <1>7, EndorsementStages
<1>9. B1 \subseteq B0
  BY <1>7 DEF HasAllMeasurement, Within
<1>10. Answered(q, m, Final(tbl, s), Chosen(q, A1), Chosen(q, B1))
  BY <1>2, <1>3, <1>8, <1>9, StageEnds
<1>11. RunEndorsement(q, m) = Final(tbl, s)
  BY <1>1, <1>4, <1>5 DEF RunEndorsement
<1>12. Chosen(q, A1) = EndorsementAnswer(q, Ever(m)) /\ Chosen(q, B1) = EndorsementAnswer(q, Always(m))
  BY <1>1, <1>2, <1>3, <1>4, <1>6, <1>7
     DEF Chosen, HasAllMeasurement, Within, EndorsementAnswer, EndorsementAsked, MeasurementsAsked
<1> QED BY <1>10, <1>11, <1>12

LEMMA EndorsementOwned ==
  ASSUME NEW x, AtRest(x), x.owners = {}, NEW types, x.types = {} \/ types = {}, NEW ids,
         AsksEndorsement(x)
  PROVE  /\ AtRest(OwnedBy(x, types, ids)) /\ AsksEndorsement(OwnedBy(x, types, ids))
         /\ \A d : EndorsementAnswer(OwnedBy(x, types, ids), d) = Owned(EndorsementAnswer(x, d), types, ids)
<1>1. PICK p : p = OwnedBy(x, types, ids)
  OBVIOUS
<1>2. AtRest(p) /\ p.subs = x.subs /\ p.ids = x.ids /\ p.envs = x.envs
  BY <1>1, OwnedByRests
<1>3. AsksEndorsement(p)
  BY <1>2 DEF AsksEndorsement, AsksEnv, Group
<1>4. \A y : Where(p, y) <=> Where(x, y) /\ Column(y.typ, types, FALSE) /\ Column(y.owner, ids, FALSE)
  BY <1>1, OwnedByWhere
<1>5. ASSUME NEW y, NEW d
      PROVE  EndorsementAsked(p, y, d) <=> EndorsementAsked(x, y, d) /\ Column(y.typ, types, FALSE)
                                                 /\ Column(y.owner, ids, FALSE)
  BY <1>2, <1>4 DEF EndorsementAsked, DigestsAsked, Has, Sub, InEnv, MeasurementsAsked
<1>6. \A d : EndorsementAnswer(p, d) = Owned(EndorsementAnswer(x, d), types, ids)
  BY <1>5 DEF EndorsementAnswer, Owned
<1> QED BY <1>1, <1>2, <1>3, <1>6

-----------------------------------------------------------------------------
(* The groups of conditions, endorsements and records, and the triples that hold them. *)

LEMMA StatefulEnvironmentSearches ==
  ASSUME NEW q0, AtRest(q0), NEW m0, NEW s, NEW U, NEW G, NEW H, NEW i, NEW e,
         Stage(q0, m0, s, U, G, H, i, e), s.err = "none", NEW name, name \in DOMAIN q0.subs,
         Group(q0, name, AsksStatefulEnvironment), NEW n \in Nat, n = Len(q0.subs[name]), NEW B, NEW S,
         B = [j \in 1..n |-> StatefulEnvironmentAnswer(q0.subs[name][j], Ever(m0))],
         S = [j \in 1..n |-> StatefulEnvironmentAnswer(q0.subs[name][j], Always(m0))]
  PROVE  Searches(s, name, n, Runs(Members(s.q, name), RunStatefulEnvironment, s.m), B, S)
<1>1. PICK xs : xs = q0.subs[name]
  OBVIOUS
<1>2. \A j \in 1..n : AtRest(xs[j]) /\ xs[j].owners = {} /\ AsksStatefulEnvironment(xs[j])
  <2>1. DOMAIN xs = 1..n
    BY <1>1 DEF Group
  <2> QED BY <1>1, <2>1 DEF Group
<1>3. Narrowed(q0, s.q, i, e) /\ IsMoment(s.m) /\ Ever(s.m) = Ever(m0) /\ Always(s.m) = Always(m0)
  BY SameMoments DEF Stage, Progress
<1>4. Listed(q0, name, n)
  BY <1>1, <1>2 DEF Listed, Group
<1>5. PICK ids : ids = s.q.ids
  OBVIOUS
<1>6. PICK ms : ms = Members(s.q, name)
  OBVIOUS
<1>7. ms = [j \in 1..n |-> OwnedBy(xs[j], {}, ids)]
  BY <1>1, <1>3, <1>4, <1>5, <1>6, MembersUndone
<1>8. PICK run : run = Runs(ms, RunStatefulEnvironment, s.m)
  OBVIOUS
<1>9. ASSUME NEW j \in 1..n, NEW k \in Nat
      PROVE  Answered(ms[j], [s.m EXCEPT !.next = k], run[j][k], Yields(B, n, ids)[j], Yields(S, n, ids)[j])
  <2>1. PICK x : x = xs[j]
    OBVIOUS
  <2>2. PICK p : p = OwnedBy(x, {}, ids)
    OBVIOUS
  <2>3. PICK m : m = [s.m EXCEPT !.next = k]
    OBVIOUS
  <2>4. ms[j] = p /\ DOMAIN ms = 1..n
    BY <1>7, <2>1, <2>2
  <2>5. run[j][k] = RunStatefulEnvironment(p, m)
    BY <1>8, <2>3, <2>4 DEF Runs
  <2>6. AtRest(x) /\ x.owners = {} /\ AsksStatefulEnvironment(x)
    BY <1>2, <2>1
  <2>7. /\ AtRest(p) /\ AsksStatefulEnvironment(p)
        /\ \A d : StatefulEnvironmentAnswer(p, d) = Owned(StatefulEnvironmentAnswer(x, d), {}, ids)
    BY <2>2, <2>6, StatefulEnvironmentOwned
  <2>8. IsMoment(m) /\ Ever(m) = Ever(m0) /\ Always(m) = Always(m0)
    BY <1>3, <2>3, NextMoment
  <2>9. Answered(p, m, RunStatefulEnvironment(p, m), StatefulEnvironmentAnswer(p, Ever(m0)), StatefulEnvironmentAnswer(p, Always(m0)))
    BY <2>7, <2>8, StatefulEnvironmentAnswers
  <2>10. B[j] = StatefulEnvironmentAnswer(x, Ever(m0)) /\ S[j] = StatefulEnvironmentAnswer(x, Always(m0))
    BY <1>1, <2>1
  <2>11. /\ Yields(B, n, ids)[j] = StatefulEnvironmentAnswer(p, Ever(m0))
         /\ Yields(S, n, ids)[j] = StatefulEnvironmentAnswer(p, Always(m0))
    BY <2>7, <2>10 DEF Yields
  <2> QED BY <2>3, <2>4, <2>5, <2>9, <2>11
<1> QED BY <1>5, <1>6, <1>8, <1>9 DEF Searches, Finds

HasAllStatefulEnvironment(q, name, G, d) ==
  {x \in G : Has(q, name, "stateful_environments", {}, x, d, StatefulEnvironmentAsked)}

LEMMA HasAllStatefulEnvironmentIs ==
  ASSUME NEW q, NEW name, NEW n \in Nat, DOMAIN Sub(q, name) = 1..n, NEW G, NEW d, NEW B,
         B = [j \in 1..n |-> StatefulEnvironmentAnswer(q.subs[name][j], d)]
  PROVE  HasAllStatefulEnvironment(q, name, G, d) = AboveAll(G, n, B, {})
BY DEF HasAllStatefulEnvironment, Has, AboveAll, Heads, StatefulEnvironmentAnswer

LEMMA StatefulEnvironmentGroupNoRecovery ==
  ASSUME NEW q0, AtRest(q0), NEW m0, NEW s, NEW U, NEW G, NEW H, 
         Stage(q0, m0, s, U, G, H, FALSE, FALSE), NEW name,
         Group(q0, name, AsksStatefulEnvironment), Typed(Ever(m0))
  PROVE  Stage(q0, m0, ByGroup(name, "conditional_endorsement_triple", RunStatefulEnvironment, NoRecovery, s), U,
               HasAllStatefulEnvironment(q0, name, G, Ever(m0)),
               HasAllStatefulEnvironment(q0, name, H, Always(m0)), TRUE, FALSE)
<1>1. PICK n \in Nat : n = (IF name \in DOMAIN q0.subs THEN Len(q0.subs[name]) ELSE 0)
  BY DEF Group
<1>2. DOMAIN Sub(q0, name) = 1..n
  BY <1>1, GroupDomain DEF Group
<1>3. Listed(q0, name, n)
  <2>1. CASE name \in DOMAIN q0.subs
    <3>1. \A j \in 1..n : AtRest(q0.subs[name][j]) /\ q0.subs[name][j].owners = {}
      BY <1>2, <2>1 DEF Sub, Group
    <3> QED BY <1>1, <2>1, <3>1 DEF Listed, Group
  <2>2. CASE name \notin DOMAIN q0.subs
    BY <2>2 DEF Listed
  <2> QED BY <2>1, <2>2
<1>4. PICK B : B = [j \in 1..n |-> StatefulEnvironmentAnswer(q0.subs[name][j], Ever(m0))]
  OBVIOUS
<1>5. PICK S : S = [j \in 1..n |-> StatefulEnvironmentAnswer(q0.subs[name][j], Always(m0))]
  OBVIOUS
<1>6. PICK run : run = Runs(Members(s.q, name), RunStatefulEnvironment, s.m)
  OBVIOUS
<1>7. s.err = "none" /\ name \in DOMAIN q0.subs => Searches(s, name, n, run, B, S)
  BY <1>1, <1>4, <1>5, <1>6, StatefulEnvironmentSearches

<1>8. PICK type : type = "conditional_endorsement_triple"
  OBVIOUS
<1>9. Fits(type, {}, n, B) /\ Fits(type, {}, n, S)
  BY <1>4, <1>5, <1>8 DEF Fits, Column, StatefulEnvironmentAnswer, Table, Typed, Ever, Always
<1>10. Stage(q0, m0, GroupNarrowing(s, name, type, run, q0), U,
             AboveAll(G, n, B, {}), AboveAll(H, n, S, {}), TRUE, FALSE)
  BY <1>1, <1>3, <1>7, <1>9, GroupGoes
<1>11. ByGroup(name, type, RunStatefulEnvironment, NoRecovery, s) = GroupNarrowing(s, name, type, run, q0)
  <2>1. CASE Skips(s, name)
    BY <2>1 DEF ByGroup, GroupNarrowing
  <2>2. CASE ~Skips(s, name)
    <3>1. s.err = "none" /\ Narrowed(q0, s.q, FALSE, FALSE)
      BY <2>2 DEF Skips, Stage
    <3>2. name \in DOMAIN q0.subs
      BY <2>2, <3>1 DEF Skips, Sub, Narrowed
    <3>3. PICK g : g = GroupOf(s, name, run)
      OBVIOUS
    <3>4. WithMembers(s.q, name, g.members) = s.q
      BY <1>3, <1>7, <3>1, <3>2, <3>3, GroupFound
    <3>5. NoRecovery(s.q) = q0
      BY <3>1, NotNarrowed DEF NoRecovery
    <3>6. ByGroup(name, type, RunStatefulEnvironment, NoRecovery, s)
          = NarrowByGroup(s, WithMembers(s.q, name, g.members),
                          NoRecovery(WithMembers(s.q, name, g.members)),
                          OwnerConjunction(type, g), g.m)
      BY <1>6, <2>2, <3>3 DEF ByGroup, GroupOf, Members
    <3> QED BY <2>2, <3>3, <3>4, <3>5, <3>6 DEF GroupNarrowing
  <2> QED BY <2>1, <2>2
<1>12. HasAllStatefulEnvironment(q0, name, G, Ever(m0)) = AboveAll(G, n, B, {})
  BY <1>2, <1>4, HasAllStatefulEnvironmentIs
<1>13. HasAllStatefulEnvironment(q0, name, H, Always(m0)) = AboveAll(H, n, S, {})
  BY <1>2, <1>5, HasAllStatefulEnvironmentIs
<1> QED BY <1>8, <1>10, <1>11, <1>12, <1>13

LEMMA EndorsementSearches ==
  ASSUME NEW q0, AtRest(q0), NEW m0, NEW s, NEW U, NEW G, NEW H, NEW i, NEW e,
         Stage(q0, m0, s, U, G, H, i, e), s.err = "none", NEW name, name \in DOMAIN q0.subs,
         Group(q0, name, AsksEndorsement), NEW n \in Nat, n = Len(q0.subs[name]), NEW B, NEW S,
         B = [j \in 1..n |-> EndorsementAnswer(q0.subs[name][j], Ever(m0))],
         S = [j \in 1..n |-> EndorsementAnswer(q0.subs[name][j], Always(m0))]
  PROVE  Searches(s, name, n, Runs(Members(s.q, name), RunEndorsement, s.m), B, S)
<1>1. PICK xs : xs = q0.subs[name]
  OBVIOUS
<1>2. \A j \in 1..n : AtRest(xs[j]) /\ xs[j].owners = {} /\ AsksEndorsement(xs[j])
  <2>1. DOMAIN xs = 1..n
    BY <1>1 DEF Group
  <2> QED BY <1>1, <2>1 DEF Group
<1>3. Narrowed(q0, s.q, i, e) /\ IsMoment(s.m) /\ Ever(s.m) = Ever(m0) /\ Always(s.m) = Always(m0)
  BY SameMoments DEF Stage, Progress
<1>4. Listed(q0, name, n)
  BY <1>1, <1>2 DEF Listed, Group
<1>5. PICK ids : ids = s.q.ids
  OBVIOUS
<1>6. PICK ms : ms = Members(s.q, name)
  OBVIOUS
<1>7. ms = [j \in 1..n |-> OwnedBy(xs[j], {}, ids)]
  BY <1>1, <1>3, <1>4, <1>5, <1>6, MembersUndone
<1>8. PICK run : run = Runs(ms, RunEndorsement, s.m)
  OBVIOUS
<1>9. ASSUME NEW j \in 1..n, NEW k \in Nat
      PROVE  Answered(ms[j], [s.m EXCEPT !.next = k], run[j][k], Yields(B, n, ids)[j], Yields(S, n, ids)[j])
  <2>1. PICK x : x = xs[j]
    OBVIOUS
  <2>2. PICK p : p = OwnedBy(x, {}, ids)
    OBVIOUS
  <2>3. PICK m : m = [s.m EXCEPT !.next = k]
    OBVIOUS
  <2>4. ms[j] = p /\ DOMAIN ms = 1..n
    BY <1>7, <2>1, <2>2
  <2>5. run[j][k] = RunEndorsement(p, m)
    BY <1>8, <2>3, <2>4 DEF Runs
  <2>6. AtRest(x) /\ x.owners = {} /\ AsksEndorsement(x)
    BY <1>2, <2>1
  <2>7. /\ AtRest(p) /\ AsksEndorsement(p)
        /\ \A d : EndorsementAnswer(p, d) = Owned(EndorsementAnswer(x, d), {}, ids)
    BY <2>2, <2>6, EndorsementOwned
  <2>8. IsMoment(m) /\ Ever(m) = Ever(m0) /\ Always(m) = Always(m0)
    BY <1>3, <2>3, NextMoment
  <2>9. Answered(p, m, RunEndorsement(p, m), EndorsementAnswer(p, Ever(m0)), EndorsementAnswer(p, Always(m0)))
    BY <2>7, <2>8, EndorsementAnswers
  <2>10. B[j] = EndorsementAnswer(x, Ever(m0)) /\ S[j] = EndorsementAnswer(x, Always(m0))
    BY <1>1, <2>1
  <2>11. /\ Yields(B, n, ids)[j] = EndorsementAnswer(p, Ever(m0))
         /\ Yields(S, n, ids)[j] = EndorsementAnswer(p, Always(m0))
    BY <2>7, <2>10 DEF Yields
  <2> QED BY <2>3, <2>4, <2>5, <2>9, <2>11
<1> QED BY <1>5, <1>6, <1>8, <1>9 DEF Searches, Finds

HasAllEndorsement(q, name, type, G, d) ==
  {x \in G : Has(q, name, "value_triples", {type}, x, d, EndorsementAsked)}

LEMMA HasAllEndorsementIs ==
  ASSUME NEW q, NEW name, NEW type, NEW n \in Nat, DOMAIN Sub(q, name) = 1..n, NEW G, NEW d, NEW B,
         B = [j \in 1..n |-> EndorsementAnswer(q.subs[name][j], d)]
  PROVE  HasAllEndorsement(q, name, type, G, d) = AboveAll(G, n, B, {type})
BY DEF HasAllEndorsement, Has, AboveAll, Heads, EndorsementAnswer

LEMMA EndorsementGroupRestoreIDs ==
  ASSUME NEW q0, AtRest(q0), NEW m0, NEW s, NEW U, NEW G, NEW H, NEW i, 
         Stage(q0, m0, s, U, G, H, i, FALSE), NEW name,
         Group(q0, name, AsksEndorsement), NEW type
  PROVE  Stage(q0, m0, ByGroup(name, type, RunEndorsement, restoreIDs, s), U,
               HasAllEndorsement(q0, name, type, G, Ever(m0)),
               HasAllEndorsement(q0, name, type, H, Always(m0)), TRUE, FALSE)
<1>1. PICK n \in Nat : n = (IF name \in DOMAIN q0.subs THEN Len(q0.subs[name]) ELSE 0)
  BY DEF Group
<1>2. DOMAIN Sub(q0, name) = 1..n
  BY <1>1, GroupDomain DEF Group
<1>3. Listed(q0, name, n)
  <2>1. CASE name \in DOMAIN q0.subs
    <3>1. \A j \in 1..n : AtRest(q0.subs[name][j]) /\ q0.subs[name][j].owners = {}
      BY <1>2, <2>1 DEF Sub, Group
    <3> QED BY <1>1, <2>1, <3>1 DEF Listed, Group
  <2>2. CASE name \notin DOMAIN q0.subs
    BY <2>2 DEF Listed
  <2> QED BY <2>1, <2>2
<1>4. PICK B : B = [j \in 1..n |-> EndorsementAnswer(q0.subs[name][j], Ever(m0))]
  OBVIOUS
<1>5. PICK S : S = [j \in 1..n |-> EndorsementAnswer(q0.subs[name][j], Always(m0))]
  OBVIOUS
<1>6. PICK run : run = Runs(Members(s.q, name), RunEndorsement, s.m)
  OBVIOUS
<1>7. s.err = "none" /\ name \in DOMAIN q0.subs => Searches(s, name, n, run, B, S)
  BY <1>1, <1>4, <1>5, <1>6, EndorsementSearches

<1>9. Fits(type, {type}, n, B) /\ Fits(type, {type}, n, S)
  BY DEF Fits, Column
<1>10. Stage(q0, m0, GroupNarrowing(s, name, type, run, q0), U,
             AboveAll(G, n, B, {type}), AboveAll(H, n, S, {type}), TRUE, FALSE)
  BY <1>1, <1>3, <1>7, <1>9, GroupGoes
<1>11. ByGroup(name, type, RunEndorsement, restoreIDs, s) = GroupNarrowing(s, name, type, run, q0)
  <2>1. CASE Skips(s, name)
    BY <2>1 DEF ByGroup, GroupNarrowing
  <2>2. CASE ~Skips(s, name)
    <3>1. s.err = "none" /\ Narrowed(q0, s.q, i, FALSE)
      BY <2>2 DEF Skips, Stage
    <3>2. name \in DOMAIN q0.subs
      BY <2>2, <3>1 DEF Skips, Sub, Narrowed
    <3>3. PICK g : g = GroupOf(s, name, run)
      OBVIOUS
    <3>4. WithMembers(s.q, name, g.members) = s.q
      BY <1>3, <1>7, <3>1, <3>2, <3>3, GroupFound
    <3>5. restoreIDs(s.q) = q0
      BY <3>1, RestoreIsWhole
    <3>6. ByGroup(name, type, RunEndorsement, restoreIDs, s)
          = NarrowByGroup(s, WithMembers(s.q, name, g.members),
                          restoreIDs(WithMembers(s.q, name, g.members)),
                          OwnerConjunction(type, g), g.m)
      BY <1>6, <2>2, <3>3 DEF ByGroup, GroupOf, Members
    <3> QED BY <2>2, <3>3, <3>4, <3>5, <3>6 DEF GroupNarrowing
  <2> QED BY <2>1, <2>2
<1>12. HasAllEndorsement(q0, name, type, G, Ever(m0)) = AboveAll(G, n, B, {type})
  BY <1>2, <1>4, HasAllEndorsementIs
<1>13. HasAllEndorsement(q0, name, type, H, Always(m0)) = AboveAll(H, n, S, {type})
  BY <1>2, <1>5, HasAllEndorsementIs
<1> QED BY <1>10, <1>11, <1>12, <1>13

LEMMA RecordSearches ==
  ASSUME NEW q0, AtRest(q0), NEW m0, NEW s, NEW U, NEW G, NEW H, NEW i, NEW e,
         Stage(q0, m0, s, U, G, H, i, e), s.err = "none", NEW name, name \in DOMAIN q0.subs,
         Group(q0, name, AsksRecord), NEW n \in Nat, n = Len(q0.subs[name]), NEW B, NEW S,
         B = [j \in 1..n |-> RecordAnswer(q0.subs[name][j], Ever(m0))],
         S = [j \in 1..n |-> RecordAnswer(q0.subs[name][j], Always(m0))]
  PROVE  Searches(s, name, n, Runs(Members(s.q, name), RunRecord, s.m), B, S)
<1>1. PICK xs : xs = q0.subs[name]
  OBVIOUS
<1>2. \A j \in 1..n : AtRest(xs[j]) /\ xs[j].owners = {} /\ AsksRecord(xs[j])
  <2>1. DOMAIN xs = 1..n
    BY <1>1 DEF Group
  <2> QED BY <1>1, <2>1 DEF Group
<1>3. Narrowed(q0, s.q, i, e) /\ IsMoment(s.m) /\ Ever(s.m) = Ever(m0) /\ Always(s.m) = Always(m0)
  BY SameMoments DEF Stage, Progress
<1>4. Listed(q0, name, n)
  BY <1>1, <1>2 DEF Listed, Group
<1>5. PICK ids : ids = s.q.ids
  OBVIOUS
<1>6. PICK ms : ms = Members(s.q, name)
  OBVIOUS
<1>7. ms = [j \in 1..n |-> OwnedBy(xs[j], {}, ids)]
  BY <1>1, <1>3, <1>4, <1>5, <1>6, MembersUndone
<1>8. PICK run : run = Runs(ms, RunRecord, s.m)
  OBVIOUS
<1>9. ASSUME NEW j \in 1..n, NEW k \in Nat
      PROVE  Answered(ms[j], [s.m EXCEPT !.next = k], run[j][k], Yields(B, n, ids)[j], Yields(S, n, ids)[j])
  <2>1. PICK x : x = xs[j]
    OBVIOUS
  <2>2. PICK p : p = OwnedBy(x, {}, ids)
    OBVIOUS
  <2>3. PICK m : m = [s.m EXCEPT !.next = k]
    OBVIOUS
  <2>4. ms[j] = p /\ DOMAIN ms = 1..n
    BY <1>7, <2>1, <2>2
  <2>5. run[j][k] = RunRecord(p, m)
    BY <1>8, <2>3, <2>4 DEF Runs
  <2>6. AtRest(x) /\ x.owners = {} /\ AsksRecord(x)
    BY <1>2, <2>1
  <2>7. /\ AtRest(p) /\ AsksRecord(p)
        /\ \A d : RecordAnswer(p, d) = Owned(RecordAnswer(x, d), {}, ids)
    BY <2>2, <2>6, RecordOwned
  <2>8. IsMoment(m) /\ Ever(m) = Ever(m0) /\ Always(m) = Always(m0)
    BY <1>3, <2>3, NextMoment
  <2>9. Answered(p, m, RunRecord(p, m), RecordAnswer(p, Ever(m0)), RecordAnswer(p, Always(m0)))
    BY <2>7, <2>8, RecordAnswers
  <2>10. B[j] = RecordAnswer(x, Ever(m0)) /\ S[j] = RecordAnswer(x, Always(m0))
    BY <1>1, <2>1
  <2>11. /\ Yields(B, n, ids)[j] = RecordAnswer(p, Ever(m0))
         /\ Yields(S, n, ids)[j] = RecordAnswer(p, Always(m0))
    BY <2>7, <2>10 DEF Yields
  <2> QED BY <2>3, <2>4, <2>5, <2>9, <2>11
<1> QED BY <1>5, <1>6, <1>8, <1>9 DEF Searches, Finds

HasAllRecord(q, name, G, d) ==
  {x \in G : Has(q, name, "conditional_endorsement_series_records", {}, x, d, RecordAsked)}

LEMMA HasAllRecordIs ==
  ASSUME NEW q, NEW name, NEW n \in Nat, DOMAIN Sub(q, name) = 1..n, NEW G, NEW d, NEW B,
         B = [j \in 1..n |-> RecordAnswer(q.subs[name][j], d)]
  PROVE  HasAllRecord(q, name, G, d) = AboveAll(G, n, B, {})
BY DEF HasAllRecord, Has, AboveAll, Heads, RecordAnswer

LEMMA RecordGroupRestore ==
  ASSUME NEW q0, AtRest(q0), NEW m0, NEW s, NEW U, NEW G, NEW H, NEW i, NEW e, 
         Stage(q0, m0, s, U, G, H, i, e), NEW name,
         Group(q0, name, AsksRecord), Typed(Ever(m0))
  PROVE  Stage(q0, m0, ByGroup(name, "conditional_endorsement_series_triple", RunRecord, Restore, s), U,
               HasAllRecord(q0, name, G, Ever(m0)),
               HasAllRecord(q0, name, H, Always(m0)), TRUE, e)
<1>1. PICK n \in Nat : n = (IF name \in DOMAIN q0.subs THEN Len(q0.subs[name]) ELSE 0)
  BY DEF Group
<1>2. DOMAIN Sub(q0, name) = 1..n
  BY <1>1, GroupDomain DEF Group
<1>3. Listed(q0, name, n)
  <2>1. CASE name \in DOMAIN q0.subs
    <3>1. \A j \in 1..n : AtRest(q0.subs[name][j]) /\ q0.subs[name][j].owners = {}
      BY <1>2, <2>1 DEF Sub, Group
    <3> QED BY <1>1, <2>1, <3>1 DEF Listed, Group
  <2>2. CASE name \notin DOMAIN q0.subs
    BY <2>2 DEF Listed
  <2> QED BY <2>1, <2>2
<1>4. PICK B : B = [j \in 1..n |-> RecordAnswer(q0.subs[name][j], Ever(m0))]
  OBVIOUS
<1>5. PICK S : S = [j \in 1..n |-> RecordAnswer(q0.subs[name][j], Always(m0))]
  OBVIOUS
<1>6. PICK run : run = Runs(Members(s.q, name), RunRecord, s.m)
  OBVIOUS
<1>7. s.err = "none" /\ name \in DOMAIN q0.subs => Searches(s, name, n, run, B, S)
  BY <1>1, <1>4, <1>5, <1>6, RecordSearches

<1>8. PICK type : type = "conditional_endorsement_series_triple"
  OBVIOUS
<1>9. Fits(type, {}, n, B) /\ Fits(type, {}, n, S)
  BY <1>4, <1>5, <1>8 DEF Fits, Column, RecordAnswer, Table, Typed, Ever, Always
<1>10. Stage(q0, m0, GroupNarrowing(s, name, type, run, q0), U,
             AboveAll(G, n, B, {}), AboveAll(H, n, S, {}), TRUE, e)
  BY <1>1, <1>3, <1>7, <1>9, GroupGoes
<1>11. ByGroup(name, type, RunRecord, Restore, s) = GroupNarrowing(s, name, type, run, q0)
  <2>1. CASE Skips(s, name)
    BY <2>1 DEF ByGroup, GroupNarrowing
  <2>2. CASE ~Skips(s, name)
    <3>1. s.err = "none" /\ Narrowed(q0, s.q, i, e)
      BY <2>2 DEF Skips, Stage
    <3>2. name \in DOMAIN q0.subs
      BY <2>2, <3>1 DEF Skips, Sub, Narrowed
    <3>3. PICK g : g = GroupOf(s, name, run)
      OBVIOUS
    <3>4. WithMembers(s.q, name, g.members) = s.q
      BY <1>3, <1>7, <3>1, <3>2, <3>3, GroupFound
    <3>5. Restore(s.q) = q0
      BY <3>1, RestoreIsWhole
    <3>6. ByGroup(name, type, RunRecord, Restore, s)
          = NarrowByGroup(s, WithMembers(s.q, name, g.members),
                          Restore(WithMembers(s.q, name, g.members)),
                          OwnerConjunction(type, g), g.m)
      BY <1>6, <2>2, <3>3 DEF ByGroup, GroupOf, Members
    <3> QED BY <2>2, <3>3, <3>4, <3>5, <3>6 DEF GroupNarrowing
  <2> QED BY <2>1, <2>2
<1>12. HasAllRecord(q0, name, G, Ever(m0)) = AboveAll(G, n, B, {})
  BY <1>2, <1>4, HasAllRecordIs
<1>13. HasAllRecord(q0, name, H, Always(m0)) = AboveAll(H, n, S, {})
  BY <1>2, <1>5, HasAllRecordIs
<1> QED BY <1>8, <1>10, <1>11, <1>12, <1>13

ConditionalEndorsementTripleAnswer(q, d) == {x \in Table(d, "conditional_endorsement_triples") : ConditionalEndorsementTripleAsked(q, x, d)}

LEMMA ConditionalEndorsementTripleAnswers ==
  ASSUME NEW q, AtRest(q), AsksConditionalEndorsementTriple(q), NEW m, IsMoment(m), Typed(Ever(m))
  PROVE  Answered(q, m, RunConditionalEndorsementTriple(q, m), ConditionalEndorsementTripleAnswer(q, Ever(m)), ConditionalEndorsementTripleAnswer(q, Always(m)))
<1>1. PICK tbl : tbl = "conditional_endorsement_triples"
  OBVIOUS
<1>2. PICK A0 : A0 = Table(Ever(m), tbl)
  OBVIOUS
<1>3. PICK B0 : B0 = Table(Always(m), tbl)
  OBVIOUS
<1>4. PICK s0 : s0 = MidRun(q, m)
  OBVIOUS
<1>5. Stage(q, m, s0, A0, A0, B0, FALSE, FALSE)
  BY <1>4, StageStarts
<1>6. PICK s1 : s1 = ByGroup("conditions", "conditional_endorsement_triple", RunStatefulEnvironment, NoRecovery, s0)
  OBVIOUS
<1>7. PICK A1 : A1 = HasAllStatefulEnvironment(q, "conditions", A0, Ever(m))
  OBVIOUS
<1>8. PICK B1 : B1 = HasAllStatefulEnvironment(q, "conditions", B0, Always(m))
  OBVIOUS
<1>9. Group(q, "conditions", AsksStatefulEnvironment)
  BY DEF AsksConditionalEndorsementTriple, Group
<1>10. Stage(q, m, s1, A0, A1, B1, TRUE, FALSE)
  BY <1>5, <1>6, <1>7, <1>8, <1>4, <1>9, StatefulEnvironmentGroupNoRecovery
<1>11. PICK s2 : s2 = ByGroup("endorsements", "conditional_endorsement_triple", RunEndorsement, restoreIDs, s1)
  OBVIOUS
<1>12. PICK A2 : A2 = HasAllEndorsement(q, "endorsements", "conditional_endorsement_triple", A1, Ever(m))
  OBVIOUS
<1>13. PICK B2 : B2 = HasAllEndorsement(q, "endorsements", "conditional_endorsement_triple", B1, Always(m))
  OBVIOUS
<1>14. Group(q, "endorsements", AsksEndorsement)
  BY DEF AsksConditionalEndorsementTriple, Group
<1>15. Stage(q, m, s2, A0, A2, B2, TRUE, FALSE)
  BY <1>10, <1>11, <1>12, <1>13, <1>14, EndorsementGroupRestoreIDs
<1>16. B2 \subseteq B0
  BY <1>7, <1>8, <1>12, <1>13 DEF HasAllEndorsement, HasAllStatefulEnvironment
<1>17. Answered(q, m, Final(tbl, s2), Chosen(q, A2), Chosen(q, B2))
  BY <1>2, <1>3, <1>15, <1>16, StageEnds
<1>18. RunConditionalEndorsementTriple(q, m) = Final(tbl, s2)
  BY <1>1, <1>4, <1>6, <1>11 DEF RunConditionalEndorsementTriple
<1>19. Chosen(q, A2) = ConditionalEndorsementTripleAnswer(q, Ever(m)) /\ Chosen(q, B2) = ConditionalEndorsementTripleAnswer(q, Always(m))
  BY <1>1, <1>2, <1>3, <1>7, <1>8, <1>12, <1>13 DEF Chosen, HasAllEndorsement, HasAllStatefulEnvironment, ConditionalEndorsementTripleAnswer, ConditionalEndorsementTripleAsked
<1> QED BY <1>17, <1>18, <1>19

ConditionalEndorsementSeriesTripleAnswer(q, d) == {x \in Table(d, "conditional_endorsement_series_triples") : ConditionalEndorsementSeriesTripleAsked(q, x, d)}

LEMMA ConditionalEndorsementSeriesTripleAnswers ==
  ASSUME NEW q, AtRest(q), AsksConditionalEndorsementSeriesTriple(q), NEW m, IsMoment(m), Typed(Ever(m))
  PROVE  Answered(q, m, RunConditionalEndorsementSeriesTriple(q, m), ConditionalEndorsementSeriesTripleAnswer(q, Ever(m)), ConditionalEndorsementSeriesTripleAnswer(q, Always(m)))
<1>1. PICK tbl : tbl = "conditional_endorsement_series_triples"
  OBVIOUS
<1>2. PICK A0 : A0 = Table(Ever(m), tbl)
  OBVIOUS
<1>3. PICK B0 : B0 = Table(Always(m), tbl)
  OBVIOUS
<1>4. PICK s0 : s0 = MidRun(q, m)
  OBVIOUS
<1>5. Stage(q, m, s0, A0, A0, B0, FALSE, FALSE)
  BY <1>4, StageStarts
<1>6. PICK s1 : s1 = ByEnvironment(s0)
  OBVIOUS
<1>7. PICK A1 : A1 = Within(q, A0, Ever(m))
  OBVIOUS
<1>8. PICK B1 : B1 = Within(q, B0, Always(m))
  OBVIOUS
<1>9. AsksEnv(q)
  BY DEF AsksConditionalEndorsementSeriesTriple
<1>10. Stage(q, m, s1, A0, A1, B1, FALSE, TRUE)
  BY <1>5, <1>6, <1>7, <1>8, <1>4, <1>9, EnvironmentStage
<1>11. PICK s2 : s2 = ByOwner("authorizedBy", {"ces_condition"}, RunCryptoKey, s1)
  OBVIOUS
<1>12. PICK A2 : A2 = HasLeaf(q, "authorizedBy", "cryptokeys", {"ces_condition"}, A1, Ever(m))
  OBVIOUS
<1>13. PICK B2 : B2 = HasLeaf(q, "authorizedBy", "cryptokeys", {"ces_condition"}, B1, Always(m))
  OBVIOUS
<1>14. Single(q, "authorizedBy", AsksLeaf) /\ "authorizedBy" \notin Grouped
  BY DEF AsksConditionalEndorsementSeriesTriple, Grouped, Single
<1>15. Stage(q, m, s2, A0, A2, B2, TRUE, TRUE)
  BY <1>10, <1>11, <1>12, <1>13, <1>14, CryptoKeyStage
<1>16. PICK s3 : s3 = ByGroup("measurements", "ces_condition", RunMeasurement, Restore, s2)
  OBVIOUS
<1>17. PICK A3 : A3 = HasAllMeasurement(q, "measurements", "ces_condition", A2, Ever(m))
  OBVIOUS
<1>18. PICK B3 : B3 = HasAllMeasurement(q, "measurements", "ces_condition", B2, Always(m))
  OBVIOUS
<1>19. Group(q, "measurements", AsksMeasurement)
  BY DEF AsksConditionalEndorsementSeriesTriple, Group
<1>20. Stage(q, m, s3, A0, A3, B3, TRUE, TRUE)
  BY <1>15, <1>16, <1>17, <1>18, <1>19, MeasurementGroupRestore
<1>21. PICK s4 : s4 = ByGroup("records", "conditional_endorsement_series_triple", RunRecord, Restore, s3)
  OBVIOUS
<1>22. PICK A4 : A4 = HasAllRecord(q, "records", A3, Ever(m))
  OBVIOUS
<1>23. PICK B4 : B4 = HasAllRecord(q, "records", B3, Always(m))
  OBVIOUS
<1>24. Group(q, "records", AsksRecord)
  BY DEF AsksConditionalEndorsementSeriesTriple, Group
<1>25. Stage(q, m, s4, A0, A4, B4, TRUE, TRUE)
  BY <1>20, <1>21, <1>22, <1>23, <1>24, RecordGroupRestore
<1>26. B4 \subseteq B0
  BY <1>7, <1>8, <1>12, <1>13, <1>17, <1>18, <1>22, <1>23 DEF HasAllMeasurement, HasAllRecord, HasLeaf, Within
<1>27. Answered(q, m, Final(tbl, s4), Chosen(q, A4), Chosen(q, B4))
  BY <1>2, <1>3, <1>25, <1>26, StageEnds
<1>28. RunConditionalEndorsementSeriesTriple(q, m) = Final(tbl, s4)
  BY <1>1, <1>4, <1>6, <1>11, <1>16, <1>21 DEF RunConditionalEndorsementSeriesTriple
<1>29. Chosen(q, A4) = ConditionalEndorsementSeriesTripleAnswer(q, Ever(m)) /\ Chosen(q, B4) = ConditionalEndorsementSeriesTripleAnswer(q, Always(m))
  BY <1>1, <1>2, <1>3, <1>7, <1>8, <1>12, <1>13, <1>17, <1>18, <1>22, <1>23 DEF Chosen, HasAllMeasurement, HasAllRecord, HasLeaf, Within, ConditionalEndorsementSeriesTripleAnswer, ConditionalEndorsementSeriesTripleAsked, MeasurementsAsked
<1> QED BY <1>27, <1>28, <1>29
-----------------------------------------------------------------------------
(* The query groups, and the runs of all types. *)

DisjunctionAnswer(q, d) == {x \in Table(d, "value_triple_entries") : AnyAsked(TripleAsked, q, x, d)}

LEMMA DisjunctionAnswers ==
  ASSUME NEW q, AtRest(q), AsksGroup(q), NEW m, IsMoment(m), Held(q, "deep", FALSE, FALSE)
  PROVE  Answered(q, m, RunDisjunction(RunValueTriple, q, m), DisjunctionAnswer(q, Ever(m)),
                  DisjunctionAnswer(q, Always(m)))
<1>1. PICK ms : ms = q.subs["members"]
  OBVIOUS
<1>2. PICK n \in Nat : n = Len(ms)
  BY <1>1 DEF AsksGroup
<1>3. "members" \in DOMAIN q.subs /\ ms = [j \in 1..n |-> ms[j]]
  BY <1>1, <1>2 DEF AsksGroup
<1>4. DOMAIN ms = 1..n
  BY <1>3
<1>5. \A j \in 1..n : AtRest(ms[j]) /\ AsksTriple(ms[j])
  BY <1>1, <1>4 DEF AsksGroup
<1>6. PICK tbl : tbl = "value_triple_entries"
  OBVIOUS
<1>7. PICK run : run = Runs(ms, RunValueTriple, m)
  OBVIOUS
<1>8. PICK B : B = [j \in 1..n |-> TripleAnswer(tbl, ms[j], Ever(m))]
  OBVIOUS
<1>9. PICK S : S = [j \in 1..n |-> TripleAnswer(tbl, ms[j], Always(m))]
  OBVIOUS
<1>10. Finds(m, ms, run, B, S, n)
  <2> SUFFICES ASSUME NEW j \in 1..n, NEW k \in Nat
               PROVE  Answered(ms[j], [m EXCEPT !.next = k], run[j][k], B[j], S[j])
    BY DEF Finds
  <2>1. PICK x : x = ms[j]
    OBVIOUS
  <2>2. PICK p : p = [m EXCEPT !.next = k]
    OBVIOUS
  <2>3. IsMoment(p) /\ Ever(p) = Ever(m) /\ Always(p) = Always(m)
    BY <2>2, NextMoment
  <2>4. run[j][k] = RunTriple(tbl, x, p)
    BY <1>4, <1>6, <1>7, <2>1, <2>2 DEF Runs, RunValueTriple
  <2>5. Answered(x, p, RunTriple(tbl, x, p), TripleAnswer(tbl, x, Ever(p)), TripleAnswer(tbl, x, Always(p)))
    BY <1>5, <2>1, <2>3, TripleAnswers
  <2>6. B[j] = TripleAnswer(tbl, x, Ever(m)) /\ S[j] = TripleAnswer(tbl, x, Always(m))
    BY <1>8, <1>9, <2>1
  <2> QED BY <2>1, <2>2, <2>3, <2>4, <2>5, <2>6
<1>11. PICK g : g = RunGroup(ms, run, m)
  OBVIOUS
<1>12. FoundBy(m, ms, B, S, n, g)
  BY <1>2, <1>3, <1>10, <1>11, GroupShows
<1>13. PICK r : r = RunDisjunction(RunValueTriple, q, m)
  OBVIOUS
<1>14. r = Disjunction(q, g)
  BY <1>1, <1>7, <1>11, <1>13 DEF RunDisjunction
<1>15. /\ r.q = [q EXCEPT !.subs["members"] = g.members] /\ r.err = g.err
       /\ r.rows = IF g.err = "none" THEN UNION {g.results[k] : k \in DOMAIN g.results} ELSE {}
  BY <1>14 DEF Disjunction, Union
<1>16. r.q = q
  <2>1. PICK name : name = "members"
    OBVIOUS
  <2>2. WithSub(q, name, q.subs[name]) = q
    BY <1>3, <2>1, RestNarrowed, SameSub
  <2>3. r.q = WithSub(q, name, q.subs[name])
    BY <1>1, <1>12, <1>15, <2>1 DEF FoundBy, WithSub
  <2> QED BY <2>2, <2>3
<1>17. Ends(m, r)
  BY <1>3, <1>13, DisjunctionOver DEF Over
<1>18. PICK A1, B1 : A1 = DisjunctionAnswer(q, Ever(m)) /\ B1 = DisjunctionAnswer(q, Always(m))
  OBVIOUS
<1>19. \A x : x \in A1 <=> \E j \in 1..n : x \in B[j]
  BY <1>1, <1>4, <1>6, <1>8, <1>18 DEF DisjunctionAnswer, AnyAsked, TripleAnswer
<1>20. \A x : x \in B1 <=> \E j \in 1..n : x \in S[j]
  BY <1>1, <1>4, <1>6, <1>9, <1>18 DEF DisjunctionAnswer, AnyAsked, TripleAnswer
<1>21. g.err # "db error" => Covers(B, S, n, g.results)
  BY <1>12 DEF FoundBy, Tells
<1>22. r.rows \subseteq A1
  <2> SUFFICES ASSUME NEW x \in r.rows PROVE x \in A1
    OBVIOUS
  <2>1. g.err = "none"
    BY <1>15
  <2>2. PICK k \in DOMAIN g.results : x \in g.results[k]
    BY <1>15, <2>1
  <2>3. \E j \in 1..n : x \in B[j]
    BY <1>21, <2>1, <2>2 DEF Covers
  <2> QED BY <1>19, <2>3
<1>23. ASSUME r.err # "db error", NEW x \in B1 PROVE x \in r.rows
  <2>1. PICK j \in 1..n : x \in S[j]
    BY <1>20, <1>23
  <2>2. PICK k \in DOMAIN g.results : x \in g.results[k]
    BY <1>15, <1>21, <1>23, <2>1 DEF Covers
  <2>3. g.results # <<>>
    <3>1. DOMAIN <<>> = {}
      OBVIOUS
    <3> QED BY <2>2, <3>1
  <2>4. g.err = "none"
    BY <1>12, <1>15, <1>23, <2>3 DEF FoundBy, Reports, Errors
  <2> QED BY <1>15, <2>2, <2>4
<1> QED BY <1>13, <1>16, <1>17, <1>18, <1>22, <1>23 DEF Answered

LEMMA RunOfAnswers ==
  ASSUME kind \in Kinds, AtRest(query), Asks(kind, query), Ready(kind, query),
         NEW m, IsMoment(m), Typed(Ever(m))
  PROVE  Answered(query, m, RunOf(query, m), Answer(Ever(m)), Answer(Always(m)))
<1>1. PICK q : q = query
  OBVIOUS
<1>2. AtRest(q) /\ Held(q, "deep", FALSE, FALSE)
  BY <1>1 DEF Ready
<1>3. PICK k : k = kind
  OBVIOUS
<1>4. PICK E : E = Ever(m)
  OBVIOUS
<1>5. PICK A : A = Always(m)
  OBVIOUS
<1>6. CASE k = "LocatorQuery"
  <2>1. AsksLocator(q)
    BY <1>1, <1>3, <1>6 DEF Asks
  <2>2. Answered(q, m, RunLocator(q, m), LocatorAnswer(q, E), LocatorAnswer(q, A))
    BY <1>2, <1>4, <1>5, <2>1, LocatorAnswers
  <2>3. RunOf(q, m) = RunLocator(q, m)
    BY <1>3, <1>6 DEF RunOf
  <2>4. \A d : Answer(d) = LocatorAnswer(q, d)
    BY <1>1, <1>3, <1>6 DEF Answer, LocatorAnswer
  <2> QED BY <1>1, <1>4, <1>5, <2>2, <2>3, <2>4
<1>7. CASE k = "EntityQuery"
  <2>1. AsksEntity(q)
    BY <1>1, <1>3, <1>7 DEF Asks
  <2>2. Answered(q, m, RunEntity(q, m), EntityAnswer(q, E), EntityAnswer(q, A))
    BY <1>2, <1>4, <1>5, <2>1, EntityAnswers
  <2>3. RunOf(q, m) = RunEntity(q, m)
    BY <1>3, <1>7 DEF RunOf
  <2>4. \A d : Answer(d) = EntityAnswer(q, d)
    BY <1>1, <1>3, <1>7 DEF Answer, EntityAnswer
  <2> QED BY <1>1, <1>4, <1>5, <2>2, <2>3, <2>4
<1>8. CASE k = "ManifestQuery"
  <2>1. AsksManifest(q)
    BY <1>1, <1>3, <1>8 DEF Asks
  <2>2. Answered(q, m, RunManifest(q, m), ManifestAnswer(q, E), ManifestAnswer(q, A))
    BY <1>2, <1>4, <1>5, <2>1, ManifestAnswers
  <2>3. RunOf(q, m) = RunManifest(q, m)
    BY <1>3, <1>8 DEF RunOf
  <2>4. \A d : Answer(d) = ManifestAnswer(q, d)
    BY <1>1, <1>3, <1>8 DEF Answer, ManifestAnswer
  <2> QED BY <1>1, <1>4, <1>5, <2>2, <2>3, <2>4
<1>9. CASE k = "ModuleTagQuery"
  <2>1. AsksModuleTag(q)
    BY <1>1, <1>3, <1>9 DEF Asks
  <2>2. Answered(q, m, RunModuleTag(q, m), ModuleTagAnswer(q, E), ModuleTagAnswer(q, A))
    BY <1>2, <1>4, <1>5, <2>1, ModuleTagAnswers
  <2>3. RunOf(q, m) = RunModuleTag(q, m)
    BY <1>3, <1>9 DEF RunOf
  <2>4. \A d : Answer(d) = ModuleTagAnswer(q, d)
    BY <1>1, <1>3, <1>9 DEF Answer, ModuleTagAnswer
  <2> QED BY <1>1, <1>4, <1>5, <2>2, <2>3, <2>4
<1>10. CASE k = "TokenQuery"
  <2>1. AsksToken(q)
    BY <1>1, <1>3, <1>10 DEF Asks
  <2>2. Answered(q, m, RunToken(q, m), TokenAnswer(q, E), TokenAnswer(q, A))
    BY <1>2, <1>4, <1>5, <2>1, TokenAnswers
  <2>3. RunOf(q, m) = RunToken(q, m)
    BY <1>3, <1>10 DEF RunOf
  <2>4. \A d : Answer(d) = TokenAnswer(q, d)
    BY <1>1, <1>3, <1>10 DEF Answer, TokenAnswer
  <2> QED BY <1>1, <1>4, <1>5, <2>2, <2>3, <2>4
<1>11. CASE k = "KeyTripleQuery"
  <2>0. PICK tbl : tbl = "key_triples"
    OBVIOUS
  <2>1. AsksTriple(q)
    BY <1>1, <1>3, <1>11 DEF Asks
  <2>2. Answered(q, m, RunTriple(tbl, q, m), TripleAnswer(tbl, q, E), TripleAnswer(tbl, q, A))
    BY <1>2, <1>4, <1>5, <2>1, TripleAnswers
  <2>3. RunOf(q, m) = RunTriple(tbl, q, m)
    BY <1>3, <2>0, <1>11 DEF RunOf, RunKeyTriple
  <2>4. \A d : Answer(d) = TripleAnswer(tbl, q, d)
    BY <1>1, <1>3, <2>0, <1>11 DEF Answer, TripleAnswer
  <2> QED BY <1>1, <1>4, <1>5, <2>2, <2>3, <2>4
<1>12. CASE k = "ValueTripleQuery"
  <2>0. PICK tbl : tbl = "value_triple_entries"
    OBVIOUS
  <2>1. AsksTriple(q)
    BY <1>1, <1>3, <1>12 DEF Asks
  <2>2. Answered(q, m, RunTriple(tbl, q, m), TripleAnswer(tbl, q, E), TripleAnswer(tbl, q, A))
    BY <1>2, <1>4, <1>5, <2>1, TripleAnswers
  <2>3. RunOf(q, m) = RunTriple(tbl, q, m)
    BY <1>3, <2>0, <1>12 DEF RunOf, RunValueTriple
  <2>4. \A d : Answer(d) = TripleAnswer(tbl, q, d)
    BY <1>1, <1>3, <2>0, <1>12 DEF Answer, TripleAnswer
  <2> QED BY <1>1, <1>4, <1>5, <2>2, <2>3, <2>4
<1>13. CASE k = "ConditionalEndorsementTripleQuery"
  <2>1. AsksConditionalEndorsementTriple(q)
    BY <1>1, <1>3, <1>13 DEF Asks
  <2>2. Answered(q, m, RunConditionalEndorsementTriple(q, m), ConditionalEndorsementTripleAnswer(q, E), ConditionalEndorsementTripleAnswer(q, A))
    BY <1>2, <1>4, <1>5, <2>1, ConditionalEndorsementTripleAnswers
  <2>3. RunOf(q, m) = RunConditionalEndorsementTriple(q, m)
    BY <1>3, <1>13 DEF RunOf
  <2>4. \A d : Answer(d) = ConditionalEndorsementTripleAnswer(q, d)
    BY <1>1, <1>3, <1>13 DEF Answer, ConditionalEndorsementTripleAnswer
  <2> QED BY <1>1, <1>4, <1>5, <2>2, <2>3, <2>4
<1>14. CASE k = "ConditionalEndorsementSeriesTripleQuery"
  <2>1. AsksConditionalEndorsementSeriesTriple(q)
    BY <1>1, <1>3, <1>14 DEF Asks
  <2>2. Answered(q, m, RunConditionalEndorsementSeriesTriple(q, m), ConditionalEndorsementSeriesTripleAnswer(q, E), ConditionalEndorsementSeriesTripleAnswer(q, A))
    BY <1>2, <1>4, <1>5, <2>1, ConditionalEndorsementSeriesTripleAnswers
  <2>3. RunOf(q, m) = RunConditionalEndorsementSeriesTriple(q, m)
    BY <1>3, <1>14 DEF RunOf
  <2>4. \A d : Answer(d) = ConditionalEndorsementSeriesTripleAnswer(q, d)
    BY <1>1, <1>3, <1>14 DEF Answer, ConditionalEndorsementSeriesTripleAnswer
  <2> QED BY <1>1, <1>4, <1>5, <2>2, <2>3, <2>4
<1>15. CASE k = "DomainMembershipTripleQuery"
  <2>0. PICK tbl, type : tbl = "domain_membership_triples" /\ type = "domain_membership_triple"
    OBVIOUS
  <2>1. AsksDomainTriple(q)
    BY <1>1, <1>3, <1>15 DEF Asks
  <2>2. Answered(q, m, RunDomainTriple(tbl, type, q, m), DomainTripleAnswer(tbl, type, q, E), DomainTripleAnswer(tbl, type, q, A))
    BY <1>2, <1>4, <1>5, <2>1, DomainTripleAnswers
  <2>3. RunOf(q, m) = RunDomainTriple(tbl, type, q, m)
    BY <1>3, <2>0, <1>15 DEF RunOf
  <2>4. \A d : Answer(d) = DomainTripleAnswer(tbl, type, q, d)
    BY <1>1, <1>3, <2>0, <1>15 DEF Answer, DomainTripleAnswer
  <2> QED BY <1>1, <1>4, <1>5, <2>2, <2>3, <2>4
<1>16. CASE k = "DomainDependencyTripleQuery"
  <2>0. PICK tbl, type : tbl = "domain_dependency_triples" /\ type = "domain_dependency_triple"
    OBVIOUS
  <2>1. AsksDomainTriple(q)
    BY <1>1, <1>3, <1>16 DEF Asks
  <2>2. Answered(q, m, RunDomainTriple(tbl, type, q, m), DomainTripleAnswer(tbl, type, q, E), DomainTripleAnswer(tbl, type, q, A))
    BY <1>2, <1>4, <1>5, <2>1, DomainTripleAnswers
  <2>3. RunOf(q, m) = RunDomainTriple(tbl, type, q, m)
    BY <1>3, <2>0, <1>16 DEF RunOf
  <2>4. \A d : Answer(d) = DomainTripleAnswer(tbl, type, q, d)
    BY <1>1, <1>3, <2>0, <1>16 DEF Answer, DomainTripleAnswer
  <2> QED BY <1>1, <1>4, <1>5, <2>2, <2>3, <2>4
<1>17. CASE k = "ValueTripleQueryGroup"
  <2>1. AsksGroup(q)
    BY <1>1, <1>3, <1>17 DEF Asks
  <2>2. Answered(q, m, RunDisjunction(RunValueTriple, q, m), DisjunctionAnswer(q, E), DisjunctionAnswer(q, A))
    BY <1>2, <1>4, <1>5, <2>1, DisjunctionAnswers
  <2>3. RunOf(q, m) = RunDisjunction(RunValueTriple, q, m)
    BY <1>3, <1>17 DEF RunOf
  <2>4. \A d : Answer(d) = DisjunctionAnswer(q, d)
    BY <1>1, <1>3, <1>17 DEF Answer, DisjunctionAnswer
  <2> QED BY <1>1, <1>4, <1>5, <2>2, <2>3, <2>4
<1> QED BY <1>3, <1>6, <1>7, <1>8, <1>9, <1>10, <1>11, <1>12, <1>13, <1>14, <1>15, <1>16, <1>17 DEF Kinds
-----------------------------------------------------------------------------
(* The client, if it asks only for what is answered. *)

AskInv == kind \in Kinds /\ AtRest(query) /\ Asks(kind, query) /\ Typed(db)

\* What a query asks of its subqueries does not depend on its own values.
LEMMA AsksAlike ==
  ASSUME NEW k \in Kinds, NEW q, Asks(k, q), NEW p, p.subs = q.subs, p.ids = q.ids, p.envs = q.envs
  PROVE  Asks(k, p)
<1>1. AsksEnv(q) => AsksEnv(p)
  BY DEF AsksEnv
<1>2. AsksLocator(q) => AsksLocator(p)
  BY DEF AsksLocator, Single
<1>3. AsksEntity(q) => AsksEntity(p)
  BY DEF AsksEntity, Single
<1>4. AsksManifest(q) => AsksManifest(p)
  BY DEF AsksManifest, Single
<1>5. AsksModuleTag(q) => AsksModuleTag(p)
  BY DEF AsksModuleTag, Single
<1>6. AsksToken(q) => AsksToken(p)
  BY DEF AsksToken, Single
<1>7. AsksTriple(q) => AsksTriple(p)
  BY <1>1 DEF AsksTriple, Single, Group
<1>8. AsksConditionalEndorsementTriple(q) => AsksConditionalEndorsementTriple(p)
  BY DEF AsksConditionalEndorsementTriple, Group
<1>9. AsksConditionalEndorsementSeriesTriple(q) => AsksConditionalEndorsementSeriesTriple(p)
  BY <1>1 DEF AsksConditionalEndorsementSeriesTriple, Single, Group
<1>10. AsksDomainTriple(q) => AsksDomainTriple(p)
  BY <1>1 DEF AsksDomainTriple, Single
<1>11. AsksGroup(q) => AsksGroup(p)
  BY DEF AsksGroup
<1> QED
  BY <1>2, <1>3, <1>4, <1>5, <1>6, <1>7, <1>8, <1>9, <1>10, <1>11 DEF Asks, Kinds

\* Another client either adds rows or removes them.
LEMMA CommitOneWay ==
  ASSUME kind \in Kinds, Typed(db), Commit
  PROVE  (db \subseteq db' \/ db' \subseteq db) /\ Typed(db')
<1>1. ASSUME NEW d \in Docs, Add(d) PROVE db \subseteq db' /\ Typed(db')
  <2>1. Typed(RowsOf[kind][d]) /\ db' = db \cup RowsOf[kind][d]
    BY <1>1, QueryAssumption DEF Add
  <2> QED BY <2>1 DEF Typed
<1>2. ASSUME NEW r \in db, Delete(r) PROVE db' \subseteq db /\ Typed(db')
  BY <1>2 DEF Delete, Typed
<1> QED BY <1>1, <1>2 DEF Commit

\* What a run returns, db' being the database after what is committed meanwhile.
LEMMA RunAnswers ==
  ASSUME QueryInv, AskInv, NEW at, NEW fails \in Nat, Run(at, fails),
         db \subseteq db' \/ db' \subseteq db, Typed(db')
  PROVE  /\ query' = query /\ kind' = kind
         /\ result'.rows \subseteq Answer(db) \cup Answer(db')
         /\ result'.err # "db error" => Answer(db) \cap Answer(db') \subseteq result'.rows
<1>1. PICK d1, d2 : d1 = db /\ d2 = db'
  OBVIOUS
<1>2. PICK m : m = [next |-> 1, before |-> d1, after |-> d2, at |-> at, fails |-> fails]
  OBVIOUS
<1>3. IsMoment(m) /\ Ever(m) = d1 \cup d2 /\ Always(m) = d1 \cap d2
  BY <1>2 DEF IsMoment, Ever, Always
<1>4. Typed(Ever(m))
  BY <1>1, <1>3 DEF AskInv, Typed
<1>5. PICK r : r = RunOf(query, m)
  OBVIOUS
<1>6. Answered(query, m, r, Answer(Ever(m)), Answer(Always(m)))
  BY <1>3, <1>4, <1>5, RunOfAnswers DEF QueryInv, AskInv
<1>7. query' = r.q /\ result' = ResultOf(r) /\ kind' = kind
  BY <1>1, <1>2, <1>5 DEF Run, Return, ResultOf
<1>8. query' = query /\ result'.rows = r.rows /\ result'.err = r.err
  BY <1>6, <1>7 DEF Answered, ResultOf
<1>9. \/ Ever(m) = d2 /\ Always(m) = d1
      \/ Ever(m) = d1 /\ Always(m) = d2
  BY <1>1, <1>3
<1>10. r.rows \subseteq Answer(d1) \cup Answer(d2)
  BY <1>6, <1>9 DEF Answered
<1>11. r.err # "db error" => Answer(d1) \cap Answer(d2) \subseteq r.rows
  BY <1>6, <1>9 DEF Answered
<1> QED BY <1>1, <1>7, <1>8, <1>10, <1>11

LEMMA NextAnswers ==
  ASSUME QueryInv, AskInv, [Next]_vars
  PROVE  /\ AskInv'
         /\ runs' # runs =>
              /\ query' = query
              /\ result'.rows \subseteq Answer(db) \cup Answer(db')
              /\ result'.err # "db error" => Answer(db) \cap Answer(db') \subseteq result'.rows
<1>1. ASSUME OtherClient PROVE AskInv' /\ runs' = runs
  <2>1. Commit /\ kind' = kind /\ query' = query /\ runs' = runs
    BY <1>1 DEF OtherClient
  <2>2. Typed(db')
    BY <2>1, CommitOneWay DEF AskInv
  <2> QED BY <2>1, <2>2 DEF AskInv
<1>2. ASSUME NEW v \in Values, Builder(v) PROVE AskInv' /\ runs' = runs
  <2>1. PICK q, p : q = query /\ p = [q EXCEPT !.vals = q.vals \cup {v}]
    OBVIOUS
  <2>2. query' = p /\ UNCHANGED <<db, added, kind, result, runs, deletes>>
    BY <1>2, <2>1 DEF Builder
  <2>3. q = [vals |-> q.vals, ids |-> q.ids, owners |-> q.owners, types |-> q.types,
             envs |-> q.envs, savedIDs |-> {}, saved |-> FALSE, savedEnvs |-> {},
             envSaved |-> FALSE, subs |-> q.subs]
    BY <2>1, RestIs DEF AskInv
  <2>4. p = [vals |-> q.vals \cup {v}, ids |-> q.ids, owners |-> q.owners, types |-> q.types,
             envs |-> q.envs, savedIDs |-> {}, saved |-> FALSE, savedEnvs |-> {},
             envSaved |-> FALSE, subs |-> q.subs]
    <3>1. PICK a, b, c, d, e, f :
            q = [vals |-> a, ids |-> b, owners |-> c, types |-> d, envs |-> e, savedIDs |-> {},
                 saved |-> FALSE, savedEnvs |-> {}, envSaved |-> FALSE, subs |-> f]
      BY <2>3
    <3>2. PICK w : w = a \cup {v}
      OBVIOUS
    <3>3. q.vals \cup {v} = w
      BY <3>1, <3>2
    <3>4. p = [q EXCEPT !.vals = w]
      BY <2>1, <3>3
    <3> QED BY <3>1, <3>3, <3>4
  <2>5. p.subs = q.subs /\ p.ids = q.ids /\ p.envs = q.envs
    BY <2>4
  <2>6. q.subs = [name \in DOMAIN q.subs |-> q.subs[name]]
    BY <2>1 DEF AskInv, AtRest
  <2>7. AtRest(p)
    BY <2>4, <2>6 DEF AtRest
  <2>8. Asks(kind, p)
    BY <2>1, <2>5, AsksAlike DEF AskInv
  <2> QED BY <2>2, <2>7, <2>8 DEF AskInv
<1>3. ASSUME NEW n \in 0 .. MaxStatements, RunAlone(n)
      PROVE  Run(0, n) /\ n \in Nat /\ db' = db
  BY <1>3, QueryAssumption DEF RunAlone
<1>4. ASSUME NEW n \in 1 .. MaxStatements, RunInterrupted(n)
      PROVE  Run(n, 0) /\ (db \subseteq db' \/ db' \subseteq db) /\ Typed(db')
  BY <1>4, CommitOneWay DEF RunInterrupted, AskInv
<1>5. ASSUME NEW at, NEW fails \in Nat, Run(at, fails), db \subseteq db' \/ db' \subseteq db, Typed(db')
      PROVE  /\ AskInv' /\ query' = query
             /\ result'.rows \subseteq Answer(db) \cup Answer(db')
             /\ result'.err # "db error" => Answer(db) \cap Answer(db') \subseteq result'.rows
  BY <1>5, RunAnswers DEF AskInv
<1>6. ASSUME UNCHANGED vars PROVE AskInv' /\ runs' = runs
  BY <1>6 DEF vars, AskInv
<1>7. Typed(db) /\ db \subseteq db /\ 0 \in Nat
  BY DEF AskInv
<1> QED BY <1>1, <1>2, <1>3, <1>4, <1>5, <1>6, <1>7 DEF Next

\* A run puts back in the object of the client what it has overwritten: the IDs and the
\* environments it narrowed, the subqueries it made its own (saveIDs, restoreIDs,
\* saveEnvIDs and restoreEnvIDs of query.go, and their callers), however it ends.
THEOREM RunsAreRepeatable ==
  ASSUME \A x \in Queries : Asks(x.kind, x.query)
  PROVE  Spec => Repeatable
<1>1. Init => AskInv
  BY QueryAssumption DEF Init, AskInv, IsBuilt, Typed
<1>2. QueryInv /\ AskInv /\ [Next]_vars => AskInv'
  BY NextAnswers
<1>3. QueryInv /\ AskInv /\ [Next]_vars => [runs' # runs => query' = query]_vars
  BY NextAnswers
<1> QED BY <1>1, <1>2, <1>3, AlwaysReady, PTL DEF Spec, Repeatable

\* A row a run returns has satisfied the query, with all its subqueries and groups, before
\* or after what another client commits while it is running (the narrowing by IDs and by
\* owners of query.go, and RunGroup and GetOwnerConjunction of querygroup.go).
THEOREM RunsAreSound ==
  ASSUME \A x \in Queries : Asks(x.kind, x.query)
  PROVE  Spec => Sound
<1>1. Init => AskInv
  BY QueryAssumption DEF Init, AskInv, IsBuilt, Typed
<1>2. QueryInv /\ AskInv /\ [Next]_vars => AskInv'
  BY NextAnswers
<1>3. QueryInv /\ AskInv /\ [Next]_vars
        => [runs' # runs => result'.rows \subseteq Answer(db) \cup Answer(db')]_vars
  BY NextAnswers
<1> QED BY <1>1, <1>2, <1>3, AlwaysReady, PTL DEF Spec, Sound

\* A run that does not fail leaves out no row that has satisfied the query before and
\* after that commit: neither the narrowing of query.go, nor a group that goes on after a
\* member without a match, loses one.
THEOREM RunsAreComplete ==
  ASSUME \A x \in Queries : Asks(x.kind, x.query)
  PROVE  Spec => Complete
<1>1. Init => AskInv
  BY QueryAssumption DEF Init, AskInv, IsBuilt, Typed
<1>2. QueryInv /\ AskInv /\ [Next]_vars => AskInv'
  BY NextAnswers
<1>3. QueryInv /\ AskInv /\ [Next]_vars
        => [runs' # runs /\ result'.err # "db error"
              => Answer(db) \cap Answer(db') \subseteq result'.rows]_vars
  BY NextAnswers
<1> QED BY <1>1, <1>2, <1>3, AlwaysReady, PTL DEF Spec, Complete
=============================================================================
