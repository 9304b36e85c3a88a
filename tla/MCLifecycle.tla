---------------------------- MODULE MCLifecycle ----------------------------
(***************************************************************************)
(* Lifecycle on two module tags: the first has a key triple, two value     *)
(* triples, and one of another kind; the second has a value triple only.   *)
(***************************************************************************)
EXTENDS Lifecycle, TLC

CONSTANTS c1, c2, k1, k2, v1, v2, o1, w1, t1, t2

MCKindOf == k1 :> "key" @@ v1 :> "value" @@ v2 :> "value" @@ o1 :> "other" @@ w1 :> "value"
MCTagOf == k1 :> t1 @@ v1 :> t1 @@ v2 :> t1 @@ o1 :> t1 @@ w1 :> t2

\* A module tag with two key triples and a value triple.
SmallKindOf == k1 :> "key" @@ k2 :> "key" @@ v1 :> "value"
SmallTagOf == k1 :> t1 @@ k2 :> t1 @@ v1 :> t1

Cli(value, keys, values, tags) ==
  [from |-> "cli", value |-> value, keys |-> keys, values |-> values, tags |-> tags]
Api(value, kind, query) == [from |-> "api", value |-> value, kind |-> kind, query |-> query]

\* By database ID and through the API, a wrong kind of ID included.
ByID ==
  {Cli(value, {k1, v1}, {v1, o1}, <<>>) : value \in BOOLEAN}
  \cup {Api(value, "value", {v1, v2, w1}) : value \in BOOLEAN}
  \cup {Api(value, "other", {o1, v1}) : value \in BOOLEAN}

\* The commands that name module tags.
ActivateTags == {Cli(TRUE, {}, {v2}, <<t1, t2>>), Api(TRUE, "value", {v1})}
DeactivateTags == {Cli(FALSE, {}, {}, <<t1>>)}
All == ByID \cup ActivateTags

Symmetry == Permutations(Clients)
=============================================================================
