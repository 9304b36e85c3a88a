--------------------------- MODULE CoservProofs ---------------------------
(***************************************************************************)
(* Theorems about Coserv, for any documents, requests, clock and bounds:   *)
(* its type invariant, what bounds the expiry of a result set, that errors *)
(* surface, that no steady triple is left out, and that a RIM selector     *)
(* gets the manifest it names.                                             *)
(***************************************************************************)
EXTENDS Coserv, TLAPS

Steps == {"triples", "conditionals", "load"}   \* of an environment query
RimSteps == {"selector", "token", "rebuild"}   \* and of a RIM query

Items == [triple : Triples, doc : Docs, by : {"environment"}, whole : BOOLEAN]
RimItems ==
  [rim : {IdOf[d] : d \in Docs}, doc : Docs, of : Docs, by : {"corim", "comid"}, whole : BOOLEAN]

\* The rows form trees, and what is steady is there.
StoreInv ==
  /\ rows \subseteq Triples /\ parts \subseteq rows
  /\ tags \subseteq manifests /\ manifests \cup tokens \subseteq added /\ added \subseteq Docs
  /\ now \in 1..MaxTime /\ queries \in 0..MaxQueries
  /\ pc # "idle" => steady \subseteq Present

\* What the service keeps at each of its statements.
ServiceInv ==
  /\ pc \in {"idle"} \cup Steps \cup RimSteps
  /\ pc = "idle" => req = NoReq
  /\ pc # "idle" => IsRequest(req) /\ (req.art = "rims" <=> pc \in RimSteps)
  /\ pc \in {"token", "rebuild"} => req.selectors # <<>> /\ selected \in Docs
  /\ loading # None => pc = "load" /\ loading \in Triples
  /\ pc \in {"conditionals", "load"} => found \subseteq Triples
  /\ pc = "conditionals" => req.art = "endorsed values"

ServedInv ==
  /\ pc \in {"idle", "triples", "conditionals"} => served = {}
  /\ pc = "load" => served \subseteq Items /\ loading \notin found
  /\ pc \in RimSteps => served \subseteq RimItems
  /\ \A x, y \in served : x \in RimItems /\ y \in RimItems /\ x.rim = y.rim => x = y
  /\ \A x \in served :
       x \in Items => /\ x.triple \notin found \cup {loading}
                      /\ \A y \in served : y \in Items /\ x.triple = y.triple => x = y

\* An error but ErrNoMatch is the last one of its query.
FailInv == FailureSurfaces /\ (pc # "idle" => errs \subseteq {ErrNoMatch})

\* A steady triple that was asked for is on its way to the result set.
CompleteInv ==
  /\ pc = "conditionals" =>
       \A t \in steady \cap Triples : Asked(t) /\ KindOf[t] = KindAsked => t \in found
  /\ pc = "load" =>
       \A t \in steady \cap Triples :
         Asked(t) => t \in found \/ t = loading \/ Item(t, TRUE) \in served

IInv == StoreInv /\ ServiceInv /\ ServedInv /\ FailInv /\ CompleteInv

\* An error ends the query, whatever becomes of it.
LEMMA ErrorReturns ==
  ASSUME NEW err, ReturnError(err)
  PROVE  \E r : Return(r)
BY DEF ReturnError

LEMMA StoreStep ==
  ASSUME StoreInv, [Next]_vars
  PROVE StoreInv'
<1> USE CoservAssumption DEF StoreInv
<1>1. ASSUME NEW d \in Docs, Commit(d) PROVE StoreInv'
  <2>1. steady' = steady \cap Present' /\ pc' = pc /\ now' = now /\ queries' = queries
    BY <1>1 DEF Commit, service
  <2>2. CASE AddBytes(d)
    BY <2>1, <2>2 DEF AddBytes, Replace, TriplesOf, Namesakes
  <2>3. CASE VerifyAndAddBytes(d)
    BY <2>1, <2>3 DEF VerifyAndAddBytes, Replace, TriplesOf, Namesakes
  <2>4. CASE AddCoRIM(d)
    BY <2>1, <2>4 DEF AddCoRIM, TriplesOf
  <2>5. CASE DeleteRow(d)
    BY <2>1, <2>5 DEF DeleteRow
  <2> QED BY <1>1, <2>2, <2>3, <2>4, <2>5 DEF Commit
<1>2. CASE Tick
  BY <1>2 DEF Tick, store, service, Present, Whole, WholeDocs
<1>3. ASSUME NEW r \in Requests, Begin(r) PROVE StoreInv'
  BY <1>3 DEF Begin, store, Present, Whole, WholeDocs
<1>4. ASSUME NEW r, Return(r) PROVE StoreInv'
  BY <1>4 DEF Return, store
<1>5. CASE UNCHANGED <<store, now, queries, steady>> /\ (pc' # "idle" => pc # "idle")
  BY <1>5 DEF store, Present, Whole, WholeDocs
<1>6. CASE Answer \/ \E err : ReturnError(err)
  BY <1>4, <1>6, ErrorReturns DEF Answer
<1>7. CASE QueryTriples \/ QueryConditionals
  BY <1>5, <1>6, <1>7 DEF QueryTriples, TriplesReturned, QueryConditionals, Goto
<1>8. CASE LoadTriple \/ LoadParts
  BY <1>5, <1>6, <1>8 DEF LoadTriple, LoadParts
<1>9. CASE Select \/ GetToken \/ Rebuild
  BY <1>5, <1>6, <1>9 DEF Select, GetToken, Rebuild, AddItem
<1>10. CASE UNCHANGED vars
  BY <1>5, <1>10 DEF vars, service
<1> QED
  BY <1>1, <1>2, <1>3, <1>6, <1>7, <1>8, <1>9, <1>10 DEF Next

\* A RIM query stays one when a selector has been dealt with.
LEMMA TailIsRequest ==
  ASSUME NEW r, IsRequest(r), r.art = "rims", r.selectors # <<>>
  PROVE  /\ IsRequest([r EXCEPT !.selectors = Tail(@)])
         /\ [r EXCEPT !.selectors = Tail(@)].art = "rims"
         /\ Head(r.selectors).by \in {"corim", "comid"}
<1>1. /\ r = [art |-> "rims", selectors |-> r.selectors, profile |-> r.profile]
      /\ r.selectors \in Seq(Selectors)
  BY DEF IsRequest
<1>2. Head(r.selectors) \in Selectors /\ Tail(r.selectors) \in Seq(Selectors)
  BY <1>1
<1>3. [r EXCEPT !.selectors = Tail(@)] =
        [art |-> "rims", selectors |-> Tail(r.selectors), profile |-> r.profile]
  BY <1>1
<1> QED BY <1>2, <1>3 DEF IsRequest, Selectors

LEMMA KindOfRequest ==
  ASSUME NEW r, IsRequest(r)
  PROVE  r.art \in {"reference values", "endorsed values", "trust anchors", "rims"} /\ r # NoReq
<1>1. r.art \in {"reference values", "endorsed values", "trust anchors", "rims"}
  <2>1. [art |-> "rims", selectors |-> r.selectors, profile |-> r.profile].art = "rims"
    OBVIOUS
  <2> QED BY <2>1 DEF IsRequest
<1>2. NoReq.art = "none"
  BY DEF NoReq, None
<1> QED BY <1>1, <1>2

LEMMA ServiceStep ==
  ASSUME StoreInv, ServiceInv, [Next]_vars
  PROVE ServiceInv'
<1> USE CoservAssumption DEF ServiceInv, Steps, RimSteps
<1>1. ASSUME NEW d \in Docs, Commit(d) PROVE ServiceInv'
  BY <1>1 DEF Commit, service
<1>2. CASE Tick
  BY <1>2 DEF Tick, service
<1>3. ASSUME NEW r \in Requests, Begin(r) PROVE ServiceInv'
  BY <1>3, KindOfRequest DEF Begin
<1>4. ASSUME NEW r, Return(r) PROVE ServiceInv'
  BY <1>4 DEF Return
<1>5. CASE Answer \/ \E err : ReturnError(err)
  BY <1>4, <1>5, ErrorReturns DEF Answer
<1>6. CASE QueryTriples
  <2>1. ASSUME ~(\E err : ReturnError(err))
        PROVE  /\ pc = "triples" /\ UNCHANGED <<req, loading>> /\ found' \subseteq Entries(KindAsked)
               /\ pc' = IF req.art = "endorsed values" THEN "conditionals" ELSE "load"
    BY <1>6, <2>1 DEF QueryTriples, TriplesReturned, Goto, Returned
  <2> QED BY <1>5, <2>1, KindOfRequest DEF Entries, StoreInv
<1>7. CASE QueryConditionals
  <2>1. ASSUME ~(\E err : ReturnError(err))
        PROVE  /\ pc = "conditionals" /\ UNCHANGED <<req, loading>> /\ pc' = "load"
               /\ found' \subseteq found \cup Entries("conditional")
    BY <1>7, <2>1 DEF QueryConditionals, Goto, Returned
  <2> QED BY <1>5, <2>1 DEF Entries, StoreInv
<1>8. CASE LoadTriple
  BY <1>5, <1>8 DEF LoadTriple
<1>9. CASE LoadParts
  BY <1>5, <1>9 DEF LoadParts
<1>10. CASE Select
  <2>1. CASE UNCHANGED <<pc, loading>> /\ req' = [req EXCEPT !.selectors = Tail(@)]
    BY <1>10, <2>1, TailIsRequest DEF Select
  <2>2. CASE pc' = "token" /\ UNCHANGED <<req, loading>> /\ selected' \in Docs
    BY <1>10, <2>2 DEF Select
  <2>3. \A s : Best(s, Matches(s)) \subseteq Docs
    BY DEF Best, Matches, StoreInv
  <2> QED BY <1>5, <1>10, <2>1, <2>2, <2>3 DEF Select
<1>11. CASE GetToken
  <2>1. pc = "token" /\ IsRequest(req) /\ req.art = "rims" /\ req.selectors # <<>>
    BY <1>11 DEF GetToken
  <2>2. CASE pc' = "rebuild" /\ UNCHANGED <<selected, req, loading>>
    BY <2>1, <2>2
  <2>3. CASE pc' = "selector" /\ req' = [req EXCEPT !.selectors = Tail(@)] /\ loading' = loading
    BY <2>1, <2>3, TailIsRequest
  <2> QED BY <1>5, <1>11, <2>2, <2>3 DEF GetToken, AddItem
<1>12. CASE Rebuild
  BY <1>5, <1>12, TailIsRequest DEF Rebuild, AddItem
<1>13. CASE UNCHANGED vars
  BY <1>13 DEF vars, service
<1> QED
  BY <1>1, <1>2, <1>3, <1>5, <1>6, <1>7, <1>8, <1>9, <1>10, <1>11, <1>12, <1>13 DEF Next

\* A RIM item under a manifest ID takes the place of the one that was there.
LEMMA AddItemKeeps ==
  ASSUME ServedInv, pc \in RimSteps, NEW d \in Docs, NEW whole \in BOOLEAN, selected \in Docs,
         Head(req.selectors).by \in {"corim", "comid"}, AddItem(d, whole)
  PROVE  ServedInv'
<1>1. Rim(d, whole) \in RimItems /\ Rim(d, whole).rim = IdOf[d]
  BY DEF Rim, RimItems
<1>2. served' \subseteq RimItems
  BY <1>1 DEF AddItem, ServedInv
<1>3. RimItems \cap Items = {}
  <2>1. ASSUME NEW x \in RimItems, x \in Items PROVE FALSE
    <3>1. x.by \in {"corim", "comid"} BY DEF RimItems
    <3>2. x.by = "environment" BY <2>1 DEF Items
    <3> QED BY <3>1, <3>2
  <2> QED BY <2>1
<1> QED BY <1>1, <1>2, <1>3 DEF AddItem, ServedInv, RimSteps

LEMMA ServedStep ==
  ASSUME StoreInv, ServiceInv, ServedInv, [Next]_vars
  PROVE  ServedInv'
<1> USE CoservAssumption DEF ServedInv
<1>1. CASE UNCHANGED <<pc, served, found, loading>>
  BY <1>1
<1>2. ASSUME NEW d \in Docs, Commit(d) PROVE ServedInv'
  BY <1>1, <1>2 DEF Commit, service
<1>3. CASE Tick \/ UNCHANGED vars
  BY <1>1, <1>3 DEF Tick, vars, service
<1>4. ASSUME NEW r \in Requests, Begin(r) PROVE ServedInv'
  BY <1>4 DEF Begin, Steps, RimSteps
<1>5. ASSUME NEW r, Return(r) PROVE ServedInv'
  BY <1>5 DEF Return, RimSteps
<1>6. CASE Answer \/ \E err : ReturnError(err)
  BY <1>5, <1>6, ErrorReturns DEF Answer
<1>7. CASE QueryTriples \/ QueryConditionals
  <2>1. CASE pc' \in {"conditionals", "load"} /\ served' = served /\ loading' = loading
             /\ found' \subseteq Triples /\ pc \in {"triples", "conditionals"}
    BY <2>1 DEF RimSteps, ServiceInv, None
  <2>2. pc \in {"triples", "conditionals"}
    BY <1>7 DEF QueryTriples, QueryConditionals
  <2>3. /\ \A err : Returned(err, Entries(KindAsked)) \subseteq Triples
        /\ \A err : Returned(err, Entries("conditional")) \subseteq Triples
    BY DEF Returned, Entries, StoreInv
  <2> QED BY <1>6, <1>7, <2>1, <2>2, <2>3
      DEF QueryTriples, TriplesReturned, QueryConditionals, Goto, ServiceInv
<1>8. CASE LoadTriple
  <2>1. ASSUME ~(\E err : ReturnError(err))
        PROVE  \E t \in found : found' = found \ {t} /\ loading' = t /\ UNCHANGED <<pc, served>>
    BY <1>8, <2>1 DEF LoadTriple
  <2>2. pc = "load"
    BY <1>8 DEF LoadTriple
  <2> QED BY <1>6, <2>1, <2>2 DEF RimSteps
<1>9. CASE LoadParts /\ ~(\E err : ReturnError(err))
  <2> DEFINE x == Item(loading, loading \in parts)
  <2>1. /\ pc = "load" /\ pc' = "load" /\ loading \in Triples /\ served' = served \cup {x}
        /\ loading' = None /\ found' = found /\ found \subseteq Triples /\ None \notin Triples
    BY <1>9 DEF LoadParts, ServiceInv, None
  <2>2. x \in Items /\ x.triple = loading
    BY <2>1, CoservAssumption DEF Item, Items
  <2>3. served' \subseteq Items
    BY <2>1, <2>2
  <2>4. RimItems \cap Items = {}
    <3>1. ASSUME NEW y \in RimItems, y \in Items PROVE FALSE
      <4>1. y.by \in {"corim", "comid"} BY DEF RimItems
      <4>2. y.by = "environment" BY <3>1 DEF Items
      <4> QED BY <4>1, <4>2
    <3> QED BY <3>1
  <2>5. \A y \in served' : y.triple \notin found' \cup {loading'}
    <3>1. \A y \in served : y.triple \in Triples BY <2>1 DEF Items
    <3> QED BY <2>1, <2>2, <3>1
  <2>6. \A y, z \in served' : y.triple = z.triple => y = z
    BY <2>1, <2>2
  <2> QED BY <2>1, <2>3, <2>4, <2>5, <2>6 DEF RimSteps
<1>10. CASE Select
  <2>1. CASE pc' \in RimSteps /\ UNCHANGED <<found, loading, served>>
    BY <1>10, <2>1 DEF Select, RimSteps
  <2> QED BY <1>6, <1>10, <2>1 DEF Select, RimSteps
<1>11. CASE GetToken
  <2>1. pc = "token" /\ selected \in Docs /\ Head(req.selectors).by \in {"corim", "comid"}
    BY <1>11, TailIsRequest DEF GetToken, ServiceInv, RimSteps
  <2>2. CASE \E d \in TokenOf : AddItem(d, TRUE)
    BY <2>1, <2>2, AddItemKeeps DEF TokenOf, StoreInv, RimSteps
  <2>3. CASE pc' = "rebuild" /\ UNCHANGED <<served, found, loading>>
    BY <2>1, <2>3 DEF RimSteps
  <2> QED BY <1>6, <1>11, <2>2, <2>3 DEF GetToken
<1>12. CASE Rebuild
  <2>1. pc = "rebuild" /\ selected \in Docs /\ Head(req.selectors).by \in {"corim", "comid"}
    BY <1>12, TailIsRequest DEF Rebuild, ServiceInv, RimSteps
  <2>2. CASE AddItem(selected, selected \in WholeDocs)
    <3> HIDE DEF ServedInv
    <3> DEFINE whole == selected \in WholeDocs
    <3>1. whole \in BOOLEAN /\ AddItem(selected, whole)
      BY <2>2
    <3> HIDE DEF whole
    <3> QED BY <2>1, <3>1, AddItemKeeps DEF RimSteps
  <2> QED BY <1>6, <1>12, <2>2 DEF Rebuild
<1> QED
  BY <1>2, <1>3, <1>4, <1>6, <1>7, <1>8, <1>9, <1>10, <1>11, <1>12 DEF Next

\* What RunQuery makes of the error that ends a query.
LEMMA ErrorSurfaces ==
  ASSUME FailInv, pc # "idle", NEW err \in {ErrNoMatch, ErrNoRows, OtherError},
         Note(err), ReturnError(err)
  PROVE  FailInv'
<1>1. errs \subseteq {ErrNoMatch} /\ errs' = errs \cup {err}
  BY DEF FailInv, Note, ErrNoMatch, ErrNoRows, OtherError, None
<1>2. pc' = "idle"
  BY DEF ReturnError, Return
<1>3. CASE err = ErrNoMatch
  BY <1>1, <1>2, <1>3 DEF FailInv, FailureSurfaces, ReturnError, Return, IsNoMatch
<1>4. CASE err # ErrNoMatch
  BY <1>1, <1>2, <1>4 DEF FailInv, FailureSurfaces, ReturnError, Return, IsNoMatch, NoResult
<1> QED BY <1>3, <1>4

\* The statements return nothing else.
LEMMA OutcomesAre ==
  /\ \A there :
       /\ Outcomes(there, ErrNoMatch) \subseteq {None, ErrNoMatch, OtherError}
       /\ Outcomes(there, ErrNoRows) \subseteq {None, ErrNoRows, OtherError}
  /\ \A ms : UniqueOutcomes(ms) \subseteq {None, ErrNoMatch, OtherError}
BY DEF Outcomes, UniqueOutcomes

LEMMA FailStep ==
  ASSUME ServiceInv, FailInv, [Next]_vars
  PROVE  FailInv'
<1> USE DEF FailInv
<1>1. CASE UNCHANGED <<errs, result>> /\ (pc' # "idle" => pc # "idle")
  BY <1>1 DEF FailureSurfaces
<1>2. CASE (\E d \in Docs : Commit(d)) \/ Tick \/ UNCHANGED vars
  BY <1>1, <1>2 DEF Commit, Tick, vars, service
<1>3. CASE \E r \in Requests : Begin(r)
  BY <1>3 DEF Begin, FailureSurfaces, NoResult
<1>4. CASE Answer
  BY <1>4 DEF Answer, Return, FailureSurfaces
<1>5. ASSUME NEW err \in {None, ErrNoMatch}, Note(err), pc # "idle", result' = result
      PROVE  FailInv'
  BY <1>5 DEF Note, FailureSurfaces
<1>6. ASSUME NEW err \in {None, ErrNoMatch, ErrNoRows, OtherError}, Note(err), pc # "idle",
             \/ err # None /\ ReturnError(err)
             \/ err \in {None, ErrNoMatch} /\ result' = result
      PROVE  FailInv'
  BY <1>5, <1>6, ErrorSurfaces
<1>7. CASE QueryTriples
  <2>1. PICK err \in Outcomes(Entries(KindAsked) # {}, ErrNoMatch) :
          TriplesReturned(err, err # None /\ ~(req.art = "endorsed values" /\ IsNoMatch(err)))
    BY <1>7 DEF QueryTriples
  <2>2. err \in {None, ErrNoMatch, OtherError} /\ pc # "idle"
    BY <1>7, <2>1, OutcomesAre DEF QueryTriples
  <2> QED BY <1>6, <2>1, <2>2 DEF TriplesReturned, Goto, IsNoMatch
<1>8. CASE QueryConditionals
  <2>1. PICK err \in Outcomes(Entries("conditional") # {}, ErrNoMatch) :
          /\ Note(err)
          /\ \/ err # None /\ ~IsNoMatch(err) /\ ReturnError(err)
             \/ err \in {None, ErrNoMatch} /\ ReturnError(ErrNoMatch)
             \/ err \in {None, ErrNoMatch} /\ result' = result
    BY <1>8 DEF QueryConditionals, Goto, IsNoMatch, Returned
  <2>2. err \in {None, ErrNoMatch, OtherError} /\ pc # "idle"
    BY <1>8, <2>1, OutcomesAre DEF QueryConditionals
  <2>3. CASE ReturnError(ErrNoMatch) /\ err \in {None, ErrNoMatch}
    BY <2>1, <2>2, <2>3 DEF Note, FailureSurfaces, ReturnError, Return, IsNoMatch
  <2> QED BY <1>6, <2>1, <2>2, <2>3
<1>9. CASE LoadTriple
  <2>1. PICK err \in {None, ErrNoRows, OtherError} :
          /\ Note(err)
          /\ \/ err # None /\ ReturnError(err)
             \/ err = None /\ result' = result
    BY <1>9, OutcomesAre DEF LoadTriple
  <2>2. pc # "idle"
    BY <1>9 DEF LoadTriple
  <2> HIDE DEF FailInv
  <2> QED BY <1>6, <2>1, <2>2
<1>10. CASE LoadParts
  <2>1. PICK err \in {None, OtherError} :
          /\ Note(err)
          /\ \/ err # None /\ ReturnError(err)
             \/ err = None /\ result' = result
    BY <1>10 DEF LoadParts
  <2>2. pc # "idle"
    BY <1>10 DEF LoadParts
  <2> HIDE DEF FailInv
  <2> QED BY <1>6, <2>1, <2>2
<1>11. CASE Select
  <2>1. PICK err \in {None, ErrNoMatch, OtherError} :
          /\ Note(err)
          /\ \/ err # None /\ ReturnError(err)
             \/ err \in {None, ErrNoMatch} /\ result' = result
    BY <1>11, OutcomesAre DEF Select, IsNoMatch
  <2>2. pc # "idle"
    BY <1>11 DEF Select
  <2> HIDE DEF FailInv
  <2> QED BY <1>6, <2>1, <2>2
<1>12. CASE GetToken
  <2>1. PICK err \in {None, ErrNoMatch, OtherError} :
          /\ Note(err)
          /\ \/ err # None /\ ReturnError(err)
             \/ err \in {None, ErrNoMatch} /\ result' = result
    BY <1>12, OutcomesAre DEF GetToken
  <2>2. pc # "idle"
    BY <1>12 DEF GetToken
  <2> HIDE DEF FailInv
  <2> QED BY <1>6, <2>1, <2>2
<1>13. CASE Rebuild
  <2>1. PICK err \in {None, ErrNoRows, OtherError} :
          /\ Note(err)
          /\ \/ err # None /\ ReturnError(err)
             \/ err = None /\ result' = result
    BY <1>13, OutcomesAre DEF Rebuild
  <2>2. pc # "idle"
    BY <1>13 DEF Rebuild
  <2> HIDE DEF FailInv
  <2> QED BY <1>6, <2>1, <2>2
<1> QED
  BY <1>2, <1>3, <1>4, <1>7, <1>8, <1>9, <1>10, <1>11, <1>12, <1>13 DEF Next

\* A steady triple is there, whole, and a query for its kind finds it.
LEMMA SteadyIsFound ==
  ASSUME StoreInv, ServiceInv, pc # "idle", req.art # "rims", NEW t \in steady \cap Triples, Asked(t)
  PROVE  /\ t \in parts
         /\ KindOf[t] = KindAsked => t \in Entries(KindAsked)
         /\ KindOf[t] = "conditional" => t \in Entries("conditional")
         /\ KindOf[t] # KindAsked => req.art = "endorsed values" /\ KindOf[t] = "conditional"
<1>1. t \in Whole
  BY CoservAssumption DEF StoreInv, Present, WholeDocs
<1> QED BY <1>1 DEF Whole, Entries, Asked

LEMMA CompleteStep ==
  ASSUME StoreInv, ServiceInv, ServedInv, CompleteInv, [Next]_vars
  PROVE  CompleteInv'
<1> USE CoservAssumption
<1>1. CASE UNCHANGED <<pc, req, asOf, found, loading, served>> /\ steady' \subseteq steady
  BY <1>1 DEF CompleteInv, Asked, KindAsked, ProfileFits, ValidOn, Item
<1>2. ASSUME NEW d \in Docs, Commit(d) PROVE CompleteInv'
  BY <1>1, <1>2 DEF Commit, service
<1>3. CASE Tick \/ UNCHANGED vars
  BY <1>1, <1>3 DEF Tick, vars, service
<1>4. CASE pc' \notin {"conditionals", "load"}
  BY <1>4 DEF CompleteInv
<1>5. CASE (\E r \in Requests : Begin(r)) \/ Answer \/ \E err : ReturnError(err)
  BY <1>4, <1>5 DEF Begin, Answer, ReturnError, Return
<1>6. CASE Select \/ GetToken \/ Rebuild
  BY <1>4, <1>5, <1>6 DEF Select, GetToken, Rebuild, AddItem
<1>7. \A t : UNCHANGED <<req, asOf>> => (Asked(t)' <=> Asked(t)) /\ KindAsked' = KindAsked
  BY DEF Asked, KindAsked, ProfileFits, ValidOn
<1>8. CASE QueryTriples /\ ~(\E err : ReturnError(err))
  <2>1. /\ pc = "triples" /\ UNCHANGED <<req, asOf, steady>>
        /\ pc' = IF req.art = "endorsed values" THEN "conditionals" ELSE "load"
        /\ found' = Entries(KindAsked)
    BY <1>8 DEF QueryTriples, TriplesReturned, Goto, Returned, Outcomes, IsNoMatch, OtherError,
                ErrNoMatch, None
  <2>2. req.art # "rims"
    BY <2>1 DEF ServiceInv, RimSteps
  <2> QED BY <1>7, <2>1, <2>2, SteadyIsFound DEF CompleteInv
<1>9. CASE QueryConditionals /\ ~(\E err : ReturnError(err))
  <2>1. /\ pc = "conditionals" /\ UNCHANGED <<req, asOf, steady>> /\ pc' = "load"
        /\ found' = found \cup Entries("conditional")
    BY <1>9 DEF QueryConditionals, Goto, Returned, Outcomes, IsNoMatch, OtherError, ErrNoMatch, None
  <2>2. req.art # "rims"
    BY <2>1 DEF ServiceInv, RimSteps
  <2> QED BY <1>7, <2>1, <2>2, SteadyIsFound DEF CompleteInv
<1>10. CASE LoadTriple /\ ~(\E err : ReturnError(err))
  <2>1. /\ pc = "load" /\ pc' = pc /\ loading = None /\ UNCHANGED <<req, asOf, steady, served>>
        /\ \E t \in found : found' = found \ {t} /\ loading' = t
    BY <1>10 DEF LoadTriple
  <2> QED BY <1>7, <2>1 DEF CompleteInv, Item, None
<1>11. CASE LoadParts /\ ~(\E err : ReturnError(err))
  <2>1. /\ pc = "load" /\ pc' = pc /\ UNCHANGED <<req, asOf, steady, found>>
        /\ served' = served \cup {Item(loading, loading \in parts)}
    BY <1>11 DEF LoadParts
  <2>2. req.art # "rims"
    BY <2>1 DEF ServiceInv, RimSteps
  <2>3. ASSUME NEW t \in steady \cap Triples, Asked(t)
        PROVE  t \in found \/ Item(t, TRUE) \in served'
    <3>1. CASE t = loading
      <4>1. t \in parts
        BY <2>1, <2>2, <2>3, SteadyIsFound
      <4>2. Item(t, TRUE) = Item(loading, loading \in parts)
        BY <3>1, <4>1 DEF Item
      <4> QED BY <2>1, <4>2
    <3> QED BY <2>1, <2>3, <3>1 DEF CompleteInv
  <2> QED BY <1>7, <2>1, <2>3 DEF CompleteInv, Item
<1> QED
  BY <1>2, <1>3, <1>5, <1>6, <1>8, <1>9, <1>10, <1>11 DEF Next

LEMMA InitIInv == Init => IInv
<1> SUFFICES ASSUME Init PROVE IInv
  OBVIOUS
<1> USE CoservAssumption DEF Init
<1>1. StoreInv BY DEF StoreInv
<1>2. ServiceInv BY DEF ServiceInv
<1>3. ServedInv BY DEF ServedInv, RimSteps
<1>4. FailInv /\ CompleteInv BY DEF FailInv, FailureSurfaces, CompleteInv, NoResult
<1> QED BY <1>1, <1>2, <1>3, <1>4 DEF IInv

LEMMA NextIInv == IInv /\ [Next]_vars => IInv'
BY StoreStep, ServiceStep, ServedStep, FailStep, CompleteStep DEF IInv

LEMMA AlwaysIInv == Spec => []IInv
BY InitIInv, NextIInv, PTL DEF Spec

\* The rows form trees, and a result set names a triple, and a manifest ID, once.
THEOREM TypeCorrect == Spec => []TypeOK
<1>1. IInv => TypeOK
  <2> SUFFICES ASSUME IInv PROVE TypeOK
    OBVIOUS
  <2>1. served \subseteq Items \cup RimItems
    BY DEF IInv, ServiceInv, ServedInv, Steps, RimSteps
  <2>2. Rims(served) \subseteq RimItems
    BY <2>1 DEF Rims, Items
  <2>3. served \ Rims(served) \subseteq Items
    BY <2>1 DEF Rims, RimItems
  <2>4. pc = "idle" <=> req = NoReq
    BY KindOfRequest DEF IInv, ServiceInv
  <2>5. \A x, y \in Rims(served) : x.rim = y.rim => x = y
    BY <2>2 DEF IInv, ServedInv, Rims
  <2>6. \A x, y \in served \ Rims(served) : x.triple = y.triple => x = y
    BY <2>3 DEF IInv, ServedInv
  <2> QED BY <2>4, <2>5, <2>6 DEF TypeOK, IInv, StoreInv
<1> QED BY <1>1, AlwaysIInv, PTL

\* A query has a result set if no statement returned an error but ErrNoMatch, and
\* otherwise one of the errors that were returned.
THEOREM ErrorsSurface == Spec => []FailureSurfaces
<1>1. IInv => FailureSurfaces
  BY DEF IInv, FailInv
<1> QED BY <1>1, AlwaysIInv, PTL

\* Every triple that was asked for and whole throughout the query is in the result
\* set, whole.
THEOREM SteadyAreServed == Spec => Complete
<1> DEFINE A == pc # "idle" /\ pc' = "idle" /\ result'.err = None /\ req.art # "rims" =>
                 \A t \in steady \cap Triples : Asked(t) => Item(t, TRUE) \in result'.served
<1>1. IInv /\ [Next]_vars => [A]_vars
  <2> SUFFICES ASSUME IInv, Next, pc # "idle", pc' = "idle", result'.err = None, req.art # "rims",
                      NEW t \in steady \cap Triples, Asked(t)
               PROVE  Item(t, TRUE) \in result'.served
    OBVIOUS
  <2> USE DEF IInv
  <2>1. \A err : ReturnError(err) => err = ErrNoMatch \/ err = None
    <3>1. ASSUME NEW err, ReturnError(err), err # ErrNoMatch PROVE result'.err = err
      BY <3>1 DEF ReturnError, Return, NoResult, IsNoMatch
    <3>2. \A err : ReturnError(err) => err = ErrNoMatch \/ err = None
      BY <3>1
    <3> QED BY <3>2
  <2>2. pc \in Steps
    BY DEF ServiceInv, Steps, RimSteps
  <2>3. CASE Answer
    <3>1. pc = "load" /\ found = {} /\ loading = None /\ result'.served = served
      BY <2>2, <2>3 DEF Answer, Return, Steps
    <3>2. t # loading
      BY <3>1, CoservAssumption DEF None
    <3> QED BY <3>1, <3>2 DEF CompleteInv
  <2>4. CASE QueryTriples
    <3>1. pc = "triples" /\ Entries(KindAsked) = {} /\ req.art # "endorsed values"
      BY <2>1, <2>4 DEF QueryTriples, TriplesReturned, Goto, Outcomes, IsNoMatch, ErrNoMatch,
                        OtherError, None
    <3> QED BY <3>1, SteadyIsFound
  <2>5. CASE QueryConditionals
    <3>1. /\ pc = "conditionals"
          /\ \E err \in {None, ErrNoMatch} : found \cup Returned(err, Entries("conditional")) = {}
                                             /\ err \in Outcomes(Entries("conditional") # {}, ErrNoMatch)
      BY <2>1, <2>5 DEF QueryConditionals, Goto, IsNoMatch
    <3>2. found = {} /\ Entries("conditional") = {}
      BY <3>1 DEF Returned, Outcomes, OtherError, ErrNoMatch, None
    <3> QED BY <3>1, <3>2, SteadyIsFound DEF CompleteInv
  <2>6. ~LoadTriple /\ ~LoadParts
    BY <2>1 DEF LoadTriple, LoadParts, Outcomes, ErrNoMatch, ErrNoRows, OtherError, None
  <2>7. ~Select /\ ~GetToken /\ ~Rebuild
    BY <2>2 DEF Select, GetToken, Rebuild, Steps
  <2>8. ~Tick /\ \A d \in Docs : ~Commit(d)
    BY DEF Tick, Commit, service
  <2>9. \A r \in Requests : ~Begin(r)
    BY DEF Begin
  <2> QED BY <2>1, <2>3, <2>4, <2>5, <2>6, <2>7, <2>8, <2>9 DEF Next
<1> QED BY <1>1, AlwaysIInv, PTL DEF Spec, Complete
-----------------------------------------------------------------------------
(* RIM selectors *)

\* Documents of one manifest ID are all added with a token or all without: otherwise
\* the token that DeleteManifest has left is found for the manifest added without one.
WithToken == {d \in Docs : HowAdded[d] # "AddCoRIM"}
OneWay == \A d, e \in Docs : IdOf[d] = IdOf[e] => (d \in WithToken <=> e \in WithToken)

\* What a selector by module tag asks for.
Wanted(d, s) ==
  /\ TagOf[d] = s.id /\ ProfileFits(d) /\ ValidOn(d, asOf)
  /\ NotAfter[d] = Never \/ NotAfter[d] > now

\* A manifest added with a token has it, and one added without has none under its ID.
TokensInv ==
  /\ tokens \subseteq WithToken
  /\ \A d \in manifests : IF d \in WithToken THEN d \in tokens
                          ELSE \A e \in tokens : IdOf[e] # IdOf[d]

\* The manifest selected has the ID asked for, or a version no lower than any steady one.
Chosen(s) ==
  /\ s.by = "corim" => IdOf[selected] = s.id
  /\ s.by = "comid" => \A d \in steady \cap Docs : Wanted(d, s) => VersionOf[d] <= VersionOf[selected]

SelectInv ==
  /\ pc # "idle" => asOf \in Nat /\ asOf <= now
  /\ pc \in {"token", "rebuild"} => Chosen(Head(req.selectors))

LEMMA TokensStep ==
  ASSUME OneWay, StoreInv, TokensInv, [Next]_vars
  PROVE  TokensInv'
<1> USE DEF TokensInv
<1>1. CASE UNCHANGED <<manifests, tokens>>
  BY <1>1
<1>2. ASSUME NEW d \in Docs, Commit(d) PROVE TokensInv'
  <2> USE DEF WithToken
  <2>1. CASE AddBytes(d)
    <3>1. d \in WithToken /\ manifests' = (manifests \ Namesakes(d)) \cup {d}
      BY <2>1 DEF AddBytes, Replace
    <3>2. d \in tokens' /\ tokens' \subseteq tokens \cup {d} /\ tokens \ Namesakes(d) \subseteq tokens'
      BY <2>1 DEF AddBytes
    <3> QED BY <3>1, <3>2 DEF Namesakes, StoreInv
  <2>2. CASE VerifyAndAddBytes(d)
    <3>1. d \in WithToken /\ manifests' = (manifests \ Namesakes(d)) \cup {d}
      BY <2>2 DEF VerifyAndAddBytes, Replace
    <3>2. tokens' = tokens \cup {d}
      BY <2>2 DEF VerifyAndAddBytes
    <3> QED BY <3>1, <3>2 DEF Namesakes, StoreInv
  <2>3. CASE AddCoRIM(d)
    BY <2>3 DEF AddCoRIM, OneWay, StoreInv
  <2>4. CASE DeleteRow(d)
    BY <2>4 DEF DeleteRow
  <2> QED BY <1>2, <2>1, <2>2, <2>3, <2>4 DEF Commit
<1>3. ASSUME NEW r, Return(r) PROVE TokensInv'
  BY <1>1, <1>3 DEF Return, store
<1>4. CASE Tick \/ UNCHANGED vars \/ \E r \in Requests : Begin(r)
  BY <1>1, <1>4 DEF Tick, vars, store, Begin
<1>5. CASE Answer \/ \E err : ReturnError(err)
  BY <1>3, <1>5, ErrorReturns DEF Answer
<1>6. CASE QueryTriples \/ QueryConditionals
  BY <1>1, <1>5, <1>6 DEF QueryTriples, TriplesReturned, QueryConditionals, Goto, store
<1>7. CASE LoadTriple \/ LoadParts
  BY <1>1, <1>5, <1>7 DEF LoadTriple, LoadParts, store
<1>8. CASE Select \/ GetToken \/ Rebuild
  BY <1>1, <1>5, <1>8 DEF Select, GetToken, Rebuild, store
<1> QED BY <1>2, <1>4, <1>5, <1>6, <1>7, <1>8 DEF Next

\* A steady document has its manifest and its module tag, and is whole.
LEMMA SteadyIsThere ==
  ASSUME StoreInv, pc # "idle", NEW d \in steady \cap Docs
  PROVE  d \in manifests \cap tags /\ d \in WholeDocs
BY CoservAssumption DEF StoreInv, Present, Whole, WholeDocs

\* Whatever is committed between the statements of a query, and however late it is, a
\* steady document that is wanted matches when the selector is looked up.
LEMMA SteadyMatches ==
  ASSUME StoreInv, SelectInv, pc # "idle", NEW s, s.by = "comid",
         NEW d \in steady \cap Docs, Wanted(d, s)
  PROVE  d \in Matches(s)
<1>1. asOf \in Int /\ now \in Int /\ asOf <= now
  BY CoservAssumption DEF SelectInv, StoreInv
<1>2. NotBefore[d] = Never \/ NotBefore[d] \in Int
  BY CoservAssumption
<1>3. ValidOn(d, now)
  BY <1>1, <1>2 DEF Wanted, ValidOn
<1> QED BY <1>3, SteadyIsThere DEF Wanted, Matches

LEMMA SelectStep ==
  ASSUME StoreInv, ServiceInv, SelectInv, [Next]_vars
  PROVE  SelectInv'
<1> USE CoservAssumption DEF SelectInv
<1>1. ASSUME UNCHANGED <<pc, req, asOf, selected>>, steady' \subseteq steady,
             now' \in Int, now' >= now
      PROVE  SelectInv'
  <2>1. now \in Int
    BY DEF StoreInv
  <2>2. \A d \in Docs : NotAfter[d] = Never \/ NotAfter[d] \in Int
    OBVIOUS
  <2>3. \A d \in Docs : \A s : Wanted(d, s)' => Wanted(d, s)
    BY <1>1, <2>1, <2>2 DEF Wanted, ProfileFits, ValidOn
  <2>4. \A s : Chosen(s) => Chosen(s)'
    BY <1>1, <2>3 DEF Chosen
  <2> QED BY <1>1, <2>1, <2>4
<1>2. ASSUME NEW d \in Docs, Commit(d) PROVE SelectInv'
  BY <1>1, <1>2 DEF Commit, service, StoreInv
<1>3. CASE Tick \/ UNCHANGED vars
  BY <1>1, <1>3 DEF Tick, vars, service, StoreInv
<1>4. ASSUME NEW r \in Requests, Begin(r) PROVE SelectInv'
  BY <1>4 DEF Begin, StoreInv
<1>5. ASSUME NEW r, Return(r) PROVE SelectInv'
  BY <1>5 DEF Return
<1>6. CASE Answer \/ \E err : ReturnError(err)
  BY <1>5, <1>6, ErrorReturns DEF Answer
<1>7. ASSUME pc # "idle", pc' \in {"conditionals", "load", "selector"}, UNCHANGED <<asOf, now>>
      PROVE  SelectInv'
  BY <1>7
<1>8. CASE QueryTriples \/ QueryConditionals
  BY <1>6, <1>7, <1>8 DEF QueryTriples, TriplesReturned, QueryConditionals, Goto
<1>9. CASE LoadTriple \/ LoadParts
  BY <1>6, <1>7, <1>9 DEF LoadTriple, LoadParts
<1>10. CASE Select
  <2> DEFINE s == Head(req.selectors)
             ds == Matches(s)
  <2>1. CASE pc' = "selector" /\ UNCHANGED <<asOf, now>>
    BY <1>7, <1>10, <2>1 DEF Select
  <2>2. CASE \E best \in Best(s, ds) :
               selected' = best /\ pc' = "token" /\ UNCHANGED <<now, req, asOf, steady>>
    <3>1. PICK best \in Best(s, ds) :
            selected' = best /\ pc' = "token" /\ UNCHANGED <<now, req, asOf, steady>>
      BY <2>2
    <3>2. pc # "idle" /\ best \in ds /\ (s.by = "corim" => IdOf[best] = s.id)
      BY <1>10 DEF Select, Best, Matches
    <3>3. ASSUME s.by = "comid", NEW d \in steady \cap Docs, Wanted(d, s)
          PROVE  VersionOf[d] <= VersionOf[best]
      <4>1. d \in ds
        BY <3>2, <3>3, SteadyMatches
      <4>2. VersionOf[best] >= VersionOf[d]
        BY <3>3, <4>1 DEF Best
      <4>3. d \in Docs /\ best \in Docs
        BY <3>2 DEF Matches, StoreInv
      <4> QED BY <4>2, <4>3
    <3> HIDE DEF ds
    <3> QED BY <3>1, <3>2, <3>3 DEF Chosen, Wanted, ProfileFits, ValidOn
  <2> QED BY <1>6, <1>10, <2>1, <2>2 DEF Select
<1>11. CASE GetToken
  <2>1. CASE pc' = "rebuild" /\ UNCHANGED <<req, selected, asOf, now, steady>> /\ pc = "token"
    BY <2>1 DEF Chosen, Wanted, ProfileFits, ValidOn
  <2> QED BY <1>6, <1>7, <1>11, <2>1 DEF GetToken, AddItem
<1>12. CASE Rebuild
  BY <1>6, <1>7, <1>12 DEF Rebuild, AddItem
<1> QED BY <1>2, <1>3, <1>4, <1>6, <1>8, <1>9, <1>10, <1>11, <1>12 DEF Next

\* The one token found for a steady manifest is its own.
LEMMA TokenIsItsOwn ==
  ASSUME StoreInv, TokensInv, ServiceInv, pc # "idle", NEW err \in UniqueOutcomes(TokenOf), err = None,
         NEW d \in TokenOf, selected \in steady, selected \in Docs
  PROVE  d = selected
<1>1. selected \in manifests
  BY SteadyIsThere
<1>2. selected \in TokenOf
  BY <1>1 DEF TokensInv, TokenOf
<1>3. \A a, b \in TokenOf : a = b
  BY DEF UniqueOutcomes, OtherError, None
<1> QED BY <1>2, <1>3

\* The bytes collected are those of the manifest selected, if it stays, and it is the one
\* asked for.
LEMMA ItemIsSelected ==
  ASSUME IInv, TokensInv, SelectInv, pc \in {"token", "rebuild"}, NEW d \in Docs, NEW whole,
         whole = TRUE \/ whole = (selected \in WholeDocs),
         d = selected \/ d \in TokenOf, selected \in steady => d = selected, AddItem(d, whole),
         NEW x \in Rims(served') \ Rims(served)
  PROVE  LET s == Head(req.selectors)
         IN /\ x.of \in steady => x.doc = x.of /\ x.whole
            /\ s.by = "corim" => IdOf[x.doc] = s.id
            /\ \A e \in steady \cap Matches(s) :
                 s.by = "comid" /\ ValidOn(e, asOf) => VersionOf[e] <= VersionOf[x.of]
<1> DEFINE s == Head(req.selectors)
<1> USE DEF IInv
<1>1. x = Rim(d, whole)
  <2>1. served' \subseteq served \cup {Rim(d, whole)}
    BY DEF AddItem
  <2> QED BY <2>1 DEF Rims
<1>2. x.of = selected /\ x.doc = d /\ x.whole = whole /\ selected \in Docs /\ pc # "idle"
  BY <1>1 DEF Rim, ServiceInv
<1>3. selected \in steady => selected \in WholeDocs
  BY <1>2, SteadyIsThere
<1>4. IdOf[d] = IdOf[selected]
  BY DEF TokenOf
<1>5. Chosen(s)
  BY DEF SelectInv
<1>6. ASSUME NEW e \in steady \cap Matches(s), s.by = "comid", ValidOn(e, asOf)
      PROVE  VersionOf[e] <= VersionOf[selected]
  <2>1. e \in Docs /\ Wanted(e, s)
    BY <1>6 DEF Matches, Wanted, ValidOn, StoreInv
  <2> QED BY <1>5, <1>6, <2>1 DEF Chosen
<1>7. selected \in steady => d = selected /\ whole
  BY <1>3
<1>8. s.by = "corim" => IdOf[d] = s.id
  BY <1>4, <1>5 DEF Chosen
<1> HIDE DEF s
<1> QED BY <1>2, <1>6, <1>7, <1>8 DEF s

\* A RIM selector gets the bytes of the manifest it selects, whole, if that manifest stays;
\* of several with the module tag asked for, one of the highest version.
THEOREM SelectorsGetTheirRim ==
  ASSUME OneWay PROVE Spec => RimIsSelected
<1> DEFINE A == served' # served /\ pc' = "selector" =>
       LET s == Head(req.selectors)
       IN \A x \in Rims(served') \ Rims(served) :
            /\ x.of \in steady => x.doc = x.of /\ x.whole
            /\ s.by = "corim" => IdOf[x.doc] = s.id
            /\ \A d \in steady \cap Matches(s) :
                 s.by = "comid" /\ ValidOn(d, asOf) => VersionOf[d] <= VersionOf[x.of]
<1>1. IInv /\ TokensInv /\ SelectInv /\ [Next]_vars => [A]_vars
  <2> SUFFICES ASSUME IInv, TokensInv, SelectInv, Next, served' # served, pc' = "selector",
                      NEW x \in Rims(served') \ Rims(served)
               PROVE  LET s == Head(req.selectors)
                      IN /\ x.of \in steady => x.doc = x.of /\ x.whole
                         /\ s.by = "corim" => IdOf[x.doc] = s.id
                         /\ \A d \in steady \cap Matches(s) :
                              s.by = "comid" /\ ValidOn(d, asOf) => VersionOf[d] <= VersionOf[x.of]
    OBVIOUS
  <2>1. served' # {}
    BY DEF Rims
  <2>2. ~(\E r : Return(r)) /\ ~(\E err : ReturnError(err))
    BY <2>1, ErrorReturns DEF Return
  <2>3. CASE GetToken
    <3>1. PICK err \in UniqueOutcomes(TokenOf), d \in TokenOf : err = None /\ AddItem(d, TRUE)
      BY <2>1, <2>3, <2>2 DEF GetToken
    <3>2. pc = "token" /\ d \in Docs /\ selected \in Docs
      BY <2>3 DEF GetToken, TokenOf, IInv, StoreInv, ServiceInv
    <3>3. selected \in steady => d = selected
      BY <3>1, <3>2, TokenIsItsOwn DEF IInv
    <3> QED BY <3>1, <3>2, <3>3, ItemIsSelected
  <2>4. CASE Rebuild
    <3>1. pc = "rebuild" /\ selected \in Docs
      BY <2>4 DEF Rebuild, IInv, ServiceInv
    <3>2. PICK whole : whole = (selected \in WholeDocs)
      OBVIOUS
    <3>3. AddItem(selected, whole)
      BY <2>4, <2>2, <3>2 DEF Rebuild
    <3> QED BY <3>1, <3>2, <3>3, ItemIsSelected
  <2>5. ~Select /\ ~Tick /\ ~(\E d \in Docs : Commit(d)) /\ ~(\E r \in Requests : Begin(r))
    BY <2>1, <2>2 DEF Select, Tick, Commit, service, Begin
  <2>6. ~Answer /\ ~QueryTriples /\ ~QueryConditionals /\ ~LoadTriple
    BY <2>2 DEF Answer, QueryTriples, TriplesReturned, QueryConditionals, Goto, LoadTriple
  <2>7. ~LoadParts
    BY <2>2 DEF LoadParts, IInv, ServiceInv
  <2> QED BY <2>3, <2>4, <2>5, <2>6, <2>7 DEF Next
<1>2. Init => TokensInv /\ SelectInv
  BY DEF Init, TokensInv, SelectInv
<1>3. IInv /\ TokensInv /\ SelectInv /\ [Next]_vars => (TokensInv /\ SelectInv)'
  BY TokensStep, SelectStep DEF IInv
<1> QED BY <1>1, <1>2, <1>3, AlwaysIInv, PTL DEF Spec, RimIsSelected
-----------------------------------------------------------------------------
(* The expiry of a result set *)

\* A result set that expires at e does so within the validity of document d.
Covers(e, d) == NotAfter[d] # Never => e # Never /\ e <= NotAfter[d]

\* The document of such an item bounds the expiry.
Bounding(x) == x.by = "environment" \/ (x.by = "corim" /\ x.of \in steady)

\* The expiry noted so far covers what has been collected, and what is about to be.
ExpiryInv ==
  /\ expiry \in Nat \cup {Never}
  /\ \A x \in served : Bounding(x) => Covers(expiry, x.doc)
  /\ loading # None => Covers(expiry, DocOf[loading])
  /\ pc \in {"token", "rebuild"} /\ Head(req.selectors).by # "comid" => Covers(expiry, selected)
  /\ ExpiryCovers

\* updateExpiry only ever brings the expiry forward.
LEMMA UpdateCovers ==
  ASSUME NEW e \in Nat \cup {Never}, NEW d \in Docs
  PROVE  /\ UpdateExpiry(e, NotAfter[d]) \in Nat \cup {Never}
         /\ Covers(UpdateExpiry(e, NotAfter[d]), d)
         /\ \A x \in Docs : Covers(e, x) => Covers(UpdateExpiry(e, NotAfter[d]), x)
BY CoservAssumption DEF UpdateExpiry, Earliest, Covers

\* The expiry of a result set is no later than the one noted.
LEMMA FinalCovers ==
  ASSUME NEW e \in Nat \cup {Never}, now \in Nat
  PROVE  /\ FinalExpiry(e) \in Nat /\ FinalExpiry(e) <= now + MaxExpiry
         /\ \A x \in Docs : Covers(e, x) => Covers(FinalExpiry(e), x)
BY CoservAssumption DEF FinalExpiry, Earliest, Covers

\* What is served names a document.
LEMMA ServedDoc ==
  ASSUME ServiceInv, ServedInv, NEW x \in served
  PROVE  x.doc \in Docs
BY DEF ServiceInv, ServedInv, Items, RimItems, Steps, RimSteps

\* A selector by manifest ID has one manifest to choose from.
LEMMA OnlyOne ==
  ASSUME NEW err \in UniqueOutcomes(Matches(Head(req.selectors))), err = None,
         Head(req.selectors).by = "corim",
         NEW best \in Best(Head(req.selectors), Matches(Head(req.selectors))),
         NEW first \in Matches(Head(req.selectors))
  PROVE  best = first
BY DEF UniqueOutcomes, Best, OtherError, None

LEMMA ExpiryStep ==
  ASSUME StoreInv, ServiceInv, ServedInv, TokensInv, ExpiryInv, [Next]_vars
  PROVE  ExpiryInv'
<1> USE CoservAssumption
<1>1. CASE UNCHANGED <<pc, req, served, loading, selected, expiry, result>> /\ steady' \subseteq steady
  BY <1>1 DEF ExpiryInv, ExpiryCovers, Bounding, Covers
<1>2. ASSUME NEW d \in Docs, Commit(d) PROVE ExpiryInv'
  BY <1>1, <1>2 DEF Commit, service
<1>3. CASE Tick \/ UNCHANGED vars
  BY <1>1, <1>3 DEF Tick, vars, service
<1>4. ASSUME NEW r \in Requests, Begin(r) PROVE ExpiryInv'
  BY <1>4 DEF Begin, ExpiryInv, ExpiryCovers, NoResult, None, ServiceInv, RimSteps
<1>5. ASSUME NEW r, Return(r), r.err # None PROVE ExpiryInv'
  BY <1>5 DEF Return, ExpiryInv, ExpiryCovers, None
<1>6. ASSUME NEW e \in Nat \cup {Never}, NEW xs,
             \A x \in xs : x.doc \in Docs /\ (Bounding(x) => Covers(e, x.doc)),
             Return([err |-> None, served |-> xs, expiry |-> FinalExpiry(e), at |-> now])
      PROVE  ExpiryInv'
  <2>1. now \in Nat
    BY DEF StoreInv
  <2>2. \A x \in xs : Bounding(x) => Covers(FinalExpiry(e), x.doc)
    BY <1>6, <2>1, FinalCovers
  <2>3. steady' = steady
    BY <1>6 DEF Return
  <2> QED BY <1>6, <2>1, <2>2, <2>3, FinalCovers DEF Return, ExpiryInv, ExpiryCovers, Covers, Bounding
<1>7. CASE Answer
  BY <1>6, <1>7, ServedDoc DEF Answer, ExpiryInv
<1>8. ASSUME NEW err \in {ErrNoMatch, ErrNoRows, OtherError}, ReturnError(err) PROVE ExpiryInv'
  <2>1. CASE IsNoMatch(err)
    BY <1>6, <1>8, <2>1 DEF ReturnError
  <2>2. CASE ~IsNoMatch(err)
    <3>1. [NoResult EXCEPT !.err = err].err # None
      BY DEF NoResult, None, ErrNoMatch, ErrNoRows, OtherError
    <3> QED BY <1>5, <1>8, <2>2, <3>1 DEF ReturnError
  <2> QED BY <2>1, <2>2
<1>9. CASE QueryTriples \/ QueryConditionals
  <2>1. CASE UNCHANGED <<served, loading, expiry, result, steady>> /\ pc' \in Steps
    BY <2>1 DEF ExpiryInv, ExpiryCovers, Bounding, Covers, Steps
  <2>2. \/ UNCHANGED <<served, loading, expiry, result, steady>> /\ pc' \in Steps
        \/ \E err \in {ErrNoMatch, ErrNoRows, OtherError} : ReturnError(err)
    BY <1>9, OutcomesAre DEF QueryTriples, TriplesReturned, QueryConditionals, Goto, Steps
  <2> QED BY <1>8, <2>1, <2>2
<1>10. CASE LoadTriple
  <2>1. ASSUME NEW t \in rows, loading' = t, expiry' = UpdateExpiry(expiry, NotAfter[DocOf[t]]),
               UNCHANGED <<pc, served, result, steady>>, pc = "load"
        PROVE  ExpiryInv'
    <3>1. DocOf[t] \in Docs
      BY DEF StoreInv
    <3> QED BY <2>1, <3>1, UpdateCovers, ServedDoc DEF ExpiryInv, ExpiryCovers, Bounding, Covers
  <2>2. \/ \E err \in {ErrNoMatch, ErrNoRows, OtherError} : ReturnError(err)
        \/ \E t \in rows : /\ loading' = t /\ expiry' = UpdateExpiry(expiry, NotAfter[DocOf[t]])
                           /\ UNCHANGED <<pc, served, result, steady>> /\ pc = "load"
    BY <1>10 DEF LoadTriple, Outcomes, None, ErrNoRows, OtherError
  <2> QED BY <1>8, <2>1, <2>2
<1>11. CASE LoadParts
  <2>1. CASE /\ served' = served \cup {Item(loading, loading \in parts)} /\ loading' = None
             /\ UNCHANGED <<pc, expiry, result, steady>> /\ pc = "load" /\ loading # None
    <3>1. Item(loading, loading \in parts).doc = DocOf[loading]
      BY DEF Item
    <3> QED BY <2>1, <3>1 DEF ExpiryInv, ExpiryCovers, Bounding, Covers
  <2> QED BY <1>8, <1>11, <2>1 DEF LoadParts
<1>12. CASE Select
  <2> DEFINE s == Head(req.selectors)
             ds == Matches(s)
  <2>1. pc = "selector" /\ loading = None /\ s.by \in {"corim", "comid"}
    BY <1>12, TailIsRequest DEF Select, ServiceInv, RimSteps
  <2>2. CASE UNCHANGED <<pc, loading, served, expiry, result, steady>>
    BY <2>1, <2>2 DEF ExpiryInv, ExpiryCovers, Bounding, Covers
  <2>3. ASSUME NEW best \in Best(s, ds), NEW first \in ds, s.by = "corim" => best = first,
               selected' = best, expiry' = UpdateExpiry(expiry, NotAfter[first]), pc' = "token",
               UNCHANGED <<req, loading, served, result, steady>>
        PROVE  ExpiryInv'
    <3>1. best \in Docs /\ first \in Docs
      BY DEF Best, Matches, StoreInv
    <3>2. expiry' \in Nat \cup {Never} /\ Covers(expiry', first)
      BY <2>3, <3>1, UpdateCovers DEF ExpiryInv
    <3>3. \A x \in served' : Bounding(x) => Covers(expiry', x.doc)
      BY <2>3, <3>1, UpdateCovers, ServedDoc DEF ExpiryInv
    <3>4. s.by # "comid" => Covers(expiry', selected')
      BY <2>1, <2>3, <3>2
    <3> HIDE DEF ds, s
    <3> QED BY <2>1, <2>3, <3>2, <3>3, <3>4 DEF ExpiryInv, ExpiryCovers, Bounding, s, Covers
  <2>4. \/ \E err \in {ErrNoMatch, ErrNoRows, OtherError} : ReturnError(err)
        \/ UNCHANGED <<pc, loading, served, expiry, result, steady>>
        \/ \E best \in Best(s, ds), first \in ds :
             /\ s.by = "corim" => best = first
             /\ selected' = best /\ expiry' = UpdateExpiry(expiry, NotAfter[first]) /\ pc' = "token"
             /\ UNCHANGED <<req, loading, served, result, steady>>
    <3>1. PICK err \in IF s.by = "corim" THEN UniqueOutcomes(ds) ELSE Outcomes(ds # {}, ErrNoMatch) :
            \/ IsNoMatch(err) /\ UNCHANGED <<pc, loading, served, expiry, result, steady>>
            \/ err # None /\ ReturnError(err)
            \/ /\ err = None
               /\ \E best \in Best(s, ds), first \in ds :
                    selected' = best /\ expiry' = UpdateExpiry(expiry, NotAfter[first])
               /\ pc' = "token" /\ UNCHANGED <<req, loading, served, result, steady>>
      BY <1>12 DEF Select
    <3>2. err \in {None, ErrNoMatch, OtherError}
      BY <3>1, OutcomesAre
    <3>3. ASSUME err = None, s.by = "corim", NEW best \in Best(s, ds), NEW first \in ds
          PROVE  best = first
      BY <3>1, <3>3, OnlyOne
    <3> HIDE DEF ds, s
    <3> QED BY <3>1, <3>2, <3>3
  <2> HIDE DEF ds, s
  <2> QED BY <1>8, <2>2, <2>3, <2>4
<1>13. ASSUME NEW d, NEW whole, AddItem(d, whole), pc \in {"token", "rebuild"},
              selected \in steady => d = selected, UNCHANGED <<loading, expiry, result, steady>>
       PROVE  ExpiryInv'
  <2>1. \A x \in served' : x \in served \/ x = Rim(d, whole)
    BY <1>13 DEF AddItem
  <2>2. /\ Rim(d, whole).of = selected /\ Rim(d, whole).by = Head(req.selectors).by
        /\ Rim(d, whole).doc = d
    BY DEF Rim
  <2>3. Head(req.selectors).by \in {"corim", "comid"}
    BY <1>13, TailIsRequest DEF ServiceInv, RimSteps
  <2>4. Bounding(Rim(d, whole)) => Covers(expiry, d)
    BY <1>13, <2>2, <2>3 DEF Bounding, ExpiryInv
  <2>5. \A x \in served' : Bounding(x) => Covers(expiry, x.doc)
    BY <2>1, <2>2, <2>4 DEF ExpiryInv
  <2>6. pc' = "selector"
    BY <1>13 DEF AddItem
  <2> QED BY <1>13, <2>5, <2>6 DEF ExpiryInv, ExpiryCovers, Bounding, Covers
<1>14. CASE GetToken
  <2>1. CASE pc' = "rebuild" /\ pc = "token"
             /\ UNCHANGED <<served, selected, req, loading, expiry, result, steady>>
    BY <2>1 DEF ExpiryInv, ExpiryCovers, Bounding, Covers
  <2>2. CASE /\ \E err \in UniqueOutcomes(TokenOf) : err = None /\ \E d \in TokenOf : AddItem(d, TRUE)
             /\ UNCHANGED <<loading, expiry, result, steady>>
    <3>1. PICK err \in UniqueOutcomes(TokenOf), d \in TokenOf : err = None /\ AddItem(d, TRUE)
      BY <2>2
    <3>2. pc = "token" /\ selected \in Docs
      BY <1>14 DEF GetToken, ServiceInv
    <3>3. selected \in steady => d = selected
      BY <3>1, <3>2, TokenIsItsOwn
    <3> QED BY <1>13, <2>2, <3>1, <3>2, <3>3
  <2> QED BY <1>8, <1>14, <2>1, <2>2, OutcomesAre DEF GetToken
<1>15. CASE Rebuild
  <2>1. CASE AddItem(selected, selected \in WholeDocs) /\ UNCHANGED <<loading, expiry, result, steady>>
    BY <1>13, <1>15, <2>1 DEF Rebuild
  <2> QED BY <1>8, <1>15, <2>1, OutcomesAre DEF Rebuild
<1> QED
  BY <1>2, <1>3, <1>4, <1>7, <1>9, <1>10, <1>11, <1>12, <1>14, <1>15 DEF Next

\* The expiry of a result set covers the validity of every CoRIM its triples come from, and
\* of one served for a selector by manifest ID that no other has replaced, whatever is
\* committed, and whenever, during the query.
THEOREM ExpiryIsCovered ==
  ASSUME OneWay PROVE Spec => []ExpiryCovers
<1>1. Init => TokensInv /\ ExpiryInv
  BY DEF Init, TokensInv, ExpiryInv, ExpiryCovers, NoResult, None
<1>2. IInv /\ TokensInv /\ ExpiryInv /\ [Next]_vars => (TokensInv /\ ExpiryInv)'
  BY TokensStep, ExpiryStep DEF IInv
<1>3. ExpiryInv => ExpiryCovers
  BY DEF ExpiryInv
<1> QED BY <1>1, <1>2, <1>3, AlwaysIInv, PTL DEF Spec
=============================================================================
