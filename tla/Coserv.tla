------------------------------- MODULE Coserv -------------------------------
(***************************************************************************)
(* The CoSERV interface (pkg/store/coserv.go): RunQuery answers a CoSERV   *)
(* query from the store in several statements, none of them in a           *)
(* transaction.  An environment query first looks for triple entries, then *)
(* loads each triple; a RIM query finds the manifest behind each selector, *)
(* then fetches its bytes.  Meanwhile other clients add and replace        *)
(* documents, a commit each, and delete them row by row, and time passes.  *)
(*                                                                         *)
(* What a query object matches is the subject of Query; here it is whether *)
(* the triple's environment is among those asked for.  A document has one  *)
(* module tag, and a triple one row below it (its measurements or keys).   *)
(***************************************************************************)
EXTENDS Integers, Sequences

CONSTANTS
  Docs, IdOf, ProfileOf,
  NotBefore, NotAfter,   \* the validity of each document, Never if not given
  TagOf, VersionOf,      \* the ID and the version of its module tag
  HowAdded,              \* the Store's method that adds it
  Triples, DocOf, KindOf, EnvOf,
  Requests,              \* the CoSERV queries made
  AnyProfile,            \* no profile asked for
  Never,                 \* no time given
  MaxExpiry, MaxTime,    \* the service's setting, and a bound on the clock
  MaxQueries             \* bound on the number of queries

\* value triples of either type, attestation key triples, and others
Kinds == {"reference", "endorsed", "attest", "identity", "conditional"}

\* The selectors of a RIM query, by the ID of a CoRIM or of a module tag.
Selectors == [by : {"corim", "comid"}, id : STRING]
IsRequest(r) ==
  \/ r.art \in {"reference values", "endorsed values", "trust anchors"}
  \/ /\ r = [art |-> "rims", selectors |-> r.selectors, profile |-> r.profile]
     /\ r.selectors \in Seq(Selectors)

ASSUME CoservAssumption ==
  /\ DocOf \in [Triples -> Docs] /\ KindOf \in [Triples -> Kinds]
  /\ Docs \cap Triples = {} /\ "none" \notin Triples
  /\ HowAdded \in [Docs -> {"AddBytes", "VerifyAndAddBytes", "AddCoRIM"}]
  /\ NotBefore \in [Docs -> 0..MaxTime \cup {Never}] /\ NotAfter \in [Docs -> 0..MaxTime \cup {Never}]
  /\ Never \notin Int
  /\ VersionOf \in [Docs -> Nat] /\ MaxExpiry \in Nat /\ MaxTime \in Nat \ {0} /\ MaxQueries \in Nat
  /\ \A r \in Requests : IsRequest(r)

VARIABLES
  manifests, tags,   \* the documents whose manifest, and module tag, row is there
  rows, parts,       \* the triples whose row, and whose measurements or keys, are there
  tokens,            \* the documents whose token is there
  added,             \* the documents added so far: each at most once, a bound
  now,
  pc, req, asOf,     \* the service: its next statement, the query, time.Now() when it was built
  found,             \* the entries whose triple is still to be loaded, and the one that is being
  loading,
  selected,          \* the manifest whose bytes are to be fetched
  served,            \* what has been collected for the result set
  expiry, result,
  steady,            \* history: the triples and manifests all there since the query began
  errs,              \* history: the errors that statements of the query have returned
  queries

store == <<manifests, tags, rows, parts, tokens, added>>
service == <<pc, req, asOf, found, loading, selected, served, expiry, result, errs, queries>>
vars == <<store, service, now, steady>>

None == "none"
ErrNoMatch == "no match"     \* the Store's, of a query that finds nothing
ErrNoRows == "no rows"       \* database/sql's, of a row that is gone
OtherError == "other"        \* of the database, or of a check of the code's own
NoReq == [art |-> None]
NoResult == [err |-> "idle", served |-> {}, expiry |-> Never, at |-> 0]

Whole == {t \in rows \cap parts : DocOf[t] \in manifests \cap tags}
WholeDocs == {d \in manifests \cap tags : \A t \in Triples : DocOf[t] = d => t \in Whole}
Present == Whole \cup WholeDocs

Init ==
  /\ manifests = {} /\ tags = {} /\ rows = {} /\ parts = {} /\ tokens = {} /\ added = {}
  /\ now = 1
  /\ pc = "idle" /\ req = NoReq /\ asOf = 0 /\ found = {} /\ loading = None /\ selected = None
  /\ served = {} /\ expiry = Never /\ result = NoResult
  /\ steady = {} /\ errs = {} /\ queries = 0
-----------------------------------------------------------------------------
(* The other clients and the clock *)

Namesakes(d) == {e \in Docs : IdOf[e] = IdOf[d]}
TriplesOf(ds) == {t \in Triples : DocOf[t] \in ds}

\* AddManifest, with Force, replaces the manifest that has the ID, in the same commit.
Replace(d) ==
  /\ manifests' = (manifests \ Namesakes(d)) \cup {d}
  /\ tags' = (tags \ Namesakes(d)) \cup {d}
  /\ rows' = (rows \ TriplesOf(Namesakes(d))) \cup TriplesOf({d})
  /\ parts' = (parts \ TriplesOf(Namesakes(d))) \cup TriplesOf({d})
  /\ added' = added \cup {d}

\* AddToken removes one token with the ID, if it finds any.
AddBytes(d) ==
  /\ d \notin added /\ HowAdded[d] = "AddBytes" /\ Replace(d)
  /\ \/ Namesakes(d) \cap tokens = {} /\ tokens' = tokens \cup {d}
     \/ \E t \in Namesakes(d) \cap tokens : tokens' = (tokens \ {t}) \cup {d}

\* VerifyAndAddBytes looks for none, and may leave two.
VerifyAndAddBytes(d) ==
  /\ d \notin added /\ HowAdded[d] = "VerifyAndAddBytes" /\ Replace(d)
  /\ tokens' = tokens \cup {d}

\* AddCoRIM adds no token.
AddCoRIM(d) ==
  /\ d \notin added /\ HowAdded[d] = "AddCoRIM" /\ Namesakes(d) \cap manifests = {}
  /\ manifests' = manifests \cup {d} /\ tags' = tags \cup {d}
  /\ rows' = rows \cup TriplesOf({d}) /\ parts' = parts \cup TriplesOf({d})
  /\ added' = added \cup {d} /\ UNCHANGED tokens

\* DeleteManifest removes a document from the leaves, and leaves its token.
DeleteRow(d) ==
  \/ \E t \in TriplesOf({d}) \cap parts :
       parts' = parts \ {t} /\ UNCHANGED <<manifests, tags, rows, tokens, added>>
  \/ \E t \in (TriplesOf({d}) \cap rows) \ parts :
       rows' = rows \ {t} /\ UNCHANGED <<manifests, tags, parts, tokens, added>>
  \/ /\ d \in tags /\ TriplesOf({d}) \cap rows = {}
     /\ tags' = tags \ {d} /\ UNCHANGED <<manifests, rows, parts, tokens, added>>
  \/ /\ d \in manifests \ tags
     /\ manifests' = manifests \ {d} /\ UNCHANGED <<tags, rows, parts, tokens, added>>

Commit(d) ==
  /\ AddBytes(d) \/ VerifyAndAddBytes(d) \/ AddCoRIM(d) \/ DeleteRow(d)
  /\ steady' = steady \cap Present'
  /\ UNCHANGED <<service, now>>

Tick ==
  /\ now < MaxTime
  /\ now' = now + 1
  /\ UNCHANGED <<store, service, steady>>
-----------------------------------------------------------------------------
(* RunQuery *)

Earliest(a, b) == IF a < b THEN a ELSE b

\* Fault: a document without an end of validity lifts the bound the others have set.
UpdateExpiryLosing(old, value) ==
  IF old = Never \/ value = Never THEN value ELSE Earliest(old, value)

UpdateExpiry(old, value) ==
  IF old = Never THEN value ELSE IF value = Never THEN old ELSE Earliest(old, value)

FinalExpiry(e) == IF e = Never THEN now + MaxExpiry ELSE Earliest(e, now + MaxExpiry)

ProfileFits(d) == req.profile = AnyProfile \/ ProfileOf[d] = req.profile

ValidOn(d, time) ==
  /\ NotBefore[d] = Never \/ NotBefore[d] < time
  /\ NotAfter[d] = Never \/ NotAfter[d] > time

Begin(r) ==
  /\ pc = "idle" /\ queries < MaxQueries
  /\ req' = r /\ asOf' = now /\ queries' = queries + 1
  /\ pc' = IF r.art = "rims" THEN "selector" ELSE "triples"
  /\ served' = {} /\ expiry' = Never /\ result' = NoResult /\ errs' = {}
  /\ steady' = Present
  /\ UNCHANGED <<store, now, found, loading, selected>>

Return(r) ==
  /\ pc' = "idle" /\ result' = r
  /\ found' = {} /\ loading' = None /\ selected' = None /\ served' = {} /\ expiry' = Never
  /\ req' = NoReq /\ asOf' = 0
  /\ UNCHANGED <<store, now, queries, steady>>

\* errors.Is(err, ErrNoMatch)
IsNoMatch(err) == err = ErrNoMatch

\* The error a statement may return, absent where it finds nothing: the database may
\* fail at any of them.
Outcomes(there, absent) == {OtherError, IF there THEN None ELSE absent}

\* and where it must not find two.
UniqueOutcomes(ms) ==
  IF \A a, b \in ms : a = b THEN Outcomes(ms # {}, ErrNoMatch) ELSE {OtherError}

Returned(err, ms) == IF err = None THEN ms ELSE {}

Note(err) == errs' = errs \cup ({err} \ {None})

\* RunQuery takes ErrNoMatch, wherever it comes from, for a result set without any item.
ReturnError(err) ==
  IF IsNoMatch(err)
  THEN Return([err |-> None, served |-> {}, expiry |-> FinalExpiry(Never), at |-> now])
  ELSE Return([NoResult EXCEPT !.err = err])

Answer ==
  /\ \/ pc = "load" /\ found = {} /\ loading = None
     \/ pc = "selector" /\ req.selectors = <<>>
  /\ Return([err |-> None, served |-> served, expiry |-> FinalExpiry(expiry), at |-> now])
  /\ UNCHANGED errs
-----------------------------------------------------------------------------
(* runEnvironmentQuery *)

Entries(kind) ==
  {t \in rows : /\ KindOf[t] = kind /\ EnvOf[t] \in req.envs
                /\ DocOf[t] \in tags \cap manifests
                /\ ProfileFits(DocOf[t]) /\ ValidOn(DocOf[t], asOf)}

KindAsked ==
  CASE req.art = "reference values" -> "reference"
    [] req.art = "endorsed values" -> "endorsed"
    [] req.art = "trust anchors" -> "attest"

Goto(step) ==
  /\ pc' = step
  /\ UNCHANGED <<store, now, req, asOf, served, expiry, result, queries, steady>>

\* What follows an error that ends the query, or one that does not, or none.
TriplesReturned(err, ends) ==
  /\ Note(err)
  /\ \/ ends /\ ReturnError(err)
     \/ /\ ~ends /\ found' = Returned(err, Entries(KindAsked))
        /\ Goto(IF req.art = "endorsed values" THEN "conditionals" ELSE "load")
        /\ UNCHANGED <<loading, selected>>

\* Fault: endorsed values without a match end the query before the conditional
\* endorsements are looked for.
QueryTriplesOnly ==
  /\ pc = "triples"
  /\ \E err \in Outcomes(Entries(KindAsked) # {}, ErrNoMatch) : TriplesReturned(err, err # None)

\* Fault: for endorsed values any error is taken for no match.
QueryTriplesQuietly ==
  /\ pc = "triples"
  /\ \E err \in Outcomes(Entries(KindAsked) # {}, ErrNoMatch) :
       TriplesReturned(err, err # None /\ req.art # "endorsed values")

\* QueryValueTripleEntries, QueryKeyTripleEntries: that nothing matches ends the
\* query, unless conditional endorsements are to be looked for, too.
QueryTriples ==
  /\ pc = "triples"
  /\ \E err \in Outcomes(Entries(KindAsked) # {}, ErrNoMatch) :
       TriplesReturned(err, err # None /\ ~(req.art = "endorsed values" /\ IsNoMatch(err)))

QueryConditionals ==
  /\ pc = "conditionals"
  /\ \E err \in Outcomes(Entries("conditional") # {}, ErrNoMatch) :
       LET all == found \cup Returned(err, Entries("conditional"))
           ends == err # None /\ ~IsNoMatch(err)
       IN /\ Note(err)
          /\ \/ ends /\ ReturnError(err)
             \/ ~ends /\ all = {} /\ ReturnError(ErrNoMatch)
             \/ /\ ~ends /\ all # {} /\ found' = all
                /\ Goto("load") /\ UNCHANGED <<loading, selected>>

\* ToTriple, the first statement: a row that is gone is an error.  All value triples
\* come before the conditional endorsements.
LoadTriple ==
  /\ pc = "load" /\ loading = None
  /\ \E t \in found : \E err \in Outcomes(t \in rows, ErrNoRows) :
       /\ KindOf[t] = "conditional" => \A u \in found : KindOf[u] = "conditional"
       /\ Note(err)
       /\ \/ err # None /\ ReturnError(err)
          \/ /\ err = None
             /\ found' = found \ {t} /\ loading' = t
             /\ expiry' = UpdateExpiry(expiry, NotAfter[DocOf[t]])
             /\ UNCHANGED <<store, now, pc, req, asOf, selected, served, result, queries, steady>>

Item(t, whole) == [triple |-> t, doc |-> DocOf[t], by |-> "environment", whole |-> whole]

\* and those that load what belongs to it: a row that is gone is none.
LoadParts ==
  /\ pc = "load" /\ loading # None
  /\ \E err \in {None, OtherError} :
       /\ Note(err)
       /\ \/ err # None /\ ReturnError(err)
          \/ /\ err = None
             /\ served' = served \cup {Item(loading, loading \in parts)}
             /\ loading' = None
             /\ UNCHANGED <<store, now, pc, req, asOf, found, selected, expiry, result, queries,
                            steady>>
-----------------------------------------------------------------------------
(* runRIMQuery *)

Matches(s) ==
  {d \in manifests : /\ ProfileFits(d) /\ ValidOn(d, now)
                     /\ IF s.by = "corim" THEN IdOf[d] = s.id ELSE d \in tags /\ TagOf[d] = s.id}

\* Fault: the entries are taken in whatever order they come.
BestAny(s, ds) == ds

\* The highest version of the module tag.
Best(s, ds) ==
  IF s.by = "corim" THEN ds ELSE {d \in ds : \A e \in ds : VersionOf[d] >= VersionOf[e]}

\* Two manifests with the ID asked for are refused, which two adds can leave behind only
\* where the DBMS lets both look before either commits (UniqueManifests of StoreTx).
\* That nothing matches ends no query.  The expiry is updated with the validity of the
\* first entry, which need not be the one with the highest version.
Select ==
  /\ pc = "selector" /\ req.selectors # <<>>
  /\ LET s == Head(req.selectors)
         ds == Matches(s)
     IN \E err \in IF s.by = "corim" THEN UniqueOutcomes(ds) ELSE Outcomes(ds # {}, ErrNoMatch) :
          /\ Note(err)
          /\ \/ /\ IsNoMatch(err) /\ req' = [req EXCEPT !.selectors = Tail(@)]
                /\ UNCHANGED <<store, now, pc, asOf, found, loading, selected, served, expiry,
                               result, queries, steady>>
             \/ err # None /\ ~IsNoMatch(err) /\ ReturnError(err)
             \/ /\ err = None
                /\ \E best \in Best(s, ds), first \in ds :
                     selected' = best /\ expiry' = UpdateExpiry(expiry, NotAfter[first])
                /\ pc' = "token"
                /\ UNCHANGED <<store, now, req, asOf, found, loading, served, result, queries,
                               steady>>

Rim(d, whole) == [rim |-> IdOf[d], doc |-> d, of |-> selected, by |-> Head(req.selectors).by,
                  whole |-> whole]

\* Fault: a second item is added under the manifest ID.
AddTwice(d, whole) ==
  /\ served' = served \cup {Rim(d, whole)}
  /\ pc' = "selector" /\ req' = [req EXCEPT !.selectors = Tail(@)]

\* AddCollectionItem: the collection has one item for each manifest ID.
AddItem(d, whole) ==
  /\ served' = {x \in served : x.rim # IdOf[d]} \cup {Rim(d, whole)}
  /\ pc' = "selector" /\ req' = [req EXCEPT !.selectors = Tail(@)]

\* GetTokenBytes looks for the one token with the manifest's ID.
TokenOf == {e \in tokens : IdOf[e] = IdOf[selected]}

GetToken ==
  /\ pc = "token"
  /\ \E err \in UniqueOutcomes(TokenOf) :
       /\ Note(err)
       /\ \/ err \notin {None, ErrNoMatch} /\ ReturnError(err)
          \/ /\ err = ErrNoMatch /\ pc' = "rebuild"
             /\ UNCHANGED <<store, now, req, asOf, found, loading, selected, served, expiry, result,
                            queries, steady>>
          \/ /\ err = None /\ selected' = None /\ \E d \in TokenOf : AddItem(d, TRUE)
             /\ UNCHANGED <<store, now, asOf, found, loading, expiry, result, queries, steady>>

\* Without a token the CoRIM is put together from the rows of its manifest.
Rebuild ==
  /\ pc = "rebuild"
  /\ \E err \in Outcomes(selected \in manifests, ErrNoRows) :
       /\ Note(err)
       /\ \/ err # None /\ ReturnError(err)
          \/ /\ err = None /\ selected' = None /\ AddItem(selected, selected \in WholeDocs)
             /\ UNCHANGED <<store, now, asOf, found, loading, expiry, result, queries, steady>>

Next ==
  \/ \E d \in Docs : Commit(d)
  \/ Tick
  \/ \E r \in Requests : Begin(r)
  \/ Answer
  \/ QueryTriples \/ QueryConditionals \/ LoadTriple \/ LoadParts
  \/ Select \/ GetToken \/ Rebuild

Spec == Init /\ [][Next]_vars
-----------------------------------------------------------------------------
(* Properties *)

Rims(xs) == {x \in xs : "rim" \in DOMAIN x}

\* A result set names a triple, and a manifest ID, once.
TypeOK ==
  /\ rows \subseteq Triples /\ parts \subseteq rows
  /\ tags \subseteq manifests /\ manifests \cup tokens \subseteq added
  /\ now \in 1..MaxTime /\ queries \in 0..MaxQueries
  /\ pc = "idle" <=> req = NoReq
  /\ \A x, y \in Rims(served) : x.rim = y.rim => x = y
  /\ \A x, y \in served \ Rims(served) : x.triple = y.triple => x = y

\* The expiry of a result set outlasts neither the validity of a CoRIM its triples come
\* from, nor that of one served for a selector by manifest ID, nor MaxExpiry from the
\* time the set is made (coserv.go:27-32).  It may outlast that of a CoRIM that took the
\* ID after the manifest was selected (coserv.go:304, 359), and that of one found through
\* its module tag (coserv.go:331).
ExpiryCovers ==
  result.err = None =>
    /\ result.expiry <= result.at + MaxExpiry
    /\ \A x \in result.served :
         /\ x.by = "environment" \/ (x.by = "corim" /\ x.of \in steady)
         /\ NotAfter[x.doc] # Never
         => result.expiry <= NotAfter[x.doc]

Asked(t) ==
  /\ KindOf[t] = KindAsked \/ (req.art = "endorsed values" /\ KindOf[t] = "conditional")
  /\ EnvOf[t] \in req.envs /\ ProfileFits(DocOf[t]) /\ ValidOn(DocOf[t], asOf)

\* Whatever is committed while a query runs, a result set has, whole, every triple that
\* was asked for and there from beginning to end.
Complete ==
  [][pc # "idle" /\ pc' = "idle" /\ result'.err = None /\ req.art # "rims" =>
       \A t \in steady \cap Triples :
         Asked(t) => Item(t, TRUE) \in result'.served]_vars

\* A manifest that matches a selector and stays is the one whose bytes are returned,
\* whole, even if others replace and delete documents between the two statements, and
\* of several with the module tag asked for, one of the highest version.
RimIsSelected ==
  [][served' # served /\ pc' = "selector" =>
       LET s == Head(req.selectors)
       IN \A x \in Rims(served') \ Rims(served) :
            /\ x.of \in steady => x.doc = x.of /\ x.whole
            /\ s.by = "corim" => IdOf[x.doc] = s.id
            /\ \A d \in steady \cap Matches(s) :
                 s.by = "comid" /\ ValidOn(d, asOf) => VersionOf[d] <= VersionOf[x.of]]_vars

\* A query has a result set if no statement returned an error but ErrNoMatch, and an
\* error otherwise: one of those that were returned, and never ErrNoMatch (coserv.go:69-75).
FailureSurfaces ==
  result.err # "idle" =>
    IF errs \subseteq {ErrNoMatch} THEN result.err = None ELSE result.err \in errs \ {ErrNoMatch}
=============================================================================
