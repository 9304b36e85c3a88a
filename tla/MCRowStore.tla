---------------------------- MODULE MCRowStore ----------------------------
(***************************************************************************)
(* RowStore on small documents, built from the node constructors below.  A *)
(* row's key is the path to it.                                            *)
(***************************************************************************)
EXTENDS RowStore, TLC

CONSTANTS c1, c2, A, A2, B, E, F

Node(key, tbl, env) == [key |-> key, tbl |-> tbl, env |-> env]
Leaf(key) == Node(key, "leaf", NoEnv)
OneLeaf(key, name) == <<Leaf(Append(key, name))>>
OneIn(key, name, table) == <<Node(Append(key, name), table, NoEnv)>>

\* A measurement alone, with its crypto key, and with something in every slice.
BareMeasurement(key) ==
  Leaf(key) @@ [ValueEntries |-> <<>>, Digests |-> <<>>, Flags |-> <<>>,
                IntegrityRegisters |-> <<>>, Extensions |-> <<>>, CryptoKeys |-> <<>>,
                AuthorizedBy |-> <<>>]
KeyedMeasurement(key) ==
  [BareMeasurement(key) EXCEPT !.CryptoKeys = OneIn(key, "key", "cryptokeys/measurement")]
Register(key) == Leaf(key) @@ [Digests |-> OneLeaf(key, "digest")]
Measurement(key) ==
  [KeyedMeasurement(key) EXCEPT
     !.ValueEntries = OneLeaf(key, "value"), !.Digests = OneLeaf(key, "digest"),
     !.Flags = OneLeaf(key, "flag"), !.IntegrityRegisters = <<Register(Append(key, "reg"))>>,
     !.Extensions = OneLeaf(key, "ext"), !.AuthorizedBy = OneLeaf(key, "auth")]

Value(key, env, ms) == Node(key, "value_triples", env) @@ [Measurements |-> ms]
Stateful(key, env, ms) == Node(key, "stateful_environments", env) @@ [Measurements |-> ms]
KeyT(key, env, keys, auth) ==
  Node(key, "key_triples", env) @@ [KeyList |-> keys, AuthorizedBy |-> auth]
Conditional(key, env) ==
  Leaf(key) @@ [Conditions |-> <<Stateful(Append(key, "cond"), env, <<Measurement(key \o <<"cond", "m">>)>>)>>,
                Endorsements |-> <<Value(Append(key, "end"), env, <<Measurement(key \o <<"end", "m">>)>>)>>]
SeriesRecord(key) ==
  Node(key, "conditional_endorsement_series_records", NoEnv)
  @@ [Selection |-> <<Measurement(Append(key, "sel"))>>, Addition |-> <<Measurement(Append(key, "add"))>>]
Series(key, env) ==
  Node(key, "conditional_endorsement_series_triples", env)
  @@ [Measurements |-> <<Measurement(Append(key, "m"))>>, AuthorizedBy |-> OneLeaf(key, "auth"),
      Series |-> <<SeriesRecord(Append(key, "rec"))>>]
DomainEntry(key, env) == Node(key, "domain_entries", env)
Membership(key, env, members) ==
  Node(key, "domain_membership_triples", env) @@ [Members |-> members]
Dependency(key, env, trustees) ==
  Node(key, "domain_dependency_triples", env) @@ [Trustees |-> trustees]
Entity(key) == Leaf(key) @@ [RoleEntries |-> OneLeaf(key, "role"), Extensions |-> OneLeaf(key, "ext")]
Locator(key) == Leaf(key) @@ [Href |-> OneLeaf(key, "href"), Thumbprint |-> OneLeaf(key, "thumb")]

EmptyTag(key) ==
  Leaf(key)
  @@ [Entities |-> <<>>, LinkedTags |-> <<>>, ValueTriples |-> <<>>, KeyTriples |-> <<>>,
      ConditionalEndorsementTriples |-> <<>>, ConditionalEndorsementSeriesTriples |-> <<>>,
      DomainDependencyTriples |-> <<>>, DomainMembershipTriples |-> <<>>,
      Extensions |-> <<>>, TriplesExtensions |-> <<>>]
Bare(key, tags) ==
  Leaf(key) @@ [Entities |-> <<>>, DependentRIMs |-> <<>>, ModuleTags |-> tags,
                Extensions |-> <<>>, Namesakes |-> <<>>]
Token(key) == Leaf(key) @@ [Authority |-> OneIn(key, "auth", "cryptokeys/token")]

\* A manifest with something in every slice, and a bare module tag next to it.  Both the
\* manifest and its first module tag have the ID 1, which makes namesakes of the
\* module tag's extensions.
Everything ==
  [Bare(<<"m">>, <<
    [EmptyTag(<<"t">>) EXCEPT
       !.Entities = <<Entity(<<"t", "ent">>)>>, !.LinkedTags = OneLeaf(<<"t">>, "link"),
       !.ValueTriples = <<Value(<<"v">>, E, <<Measurement(<<"v", "m">>)>>)>>,
       !.KeyTriples = <<KeyT(<<"k">>, E, OneLeaf(<<"k">>, "key"), OneLeaf(<<"k">>, "auth"))>>,
       !.ConditionalEndorsementTriples = <<Conditional(<<"c">>, F)>>,
       !.ConditionalEndorsementSeriesTriples = <<Series(<<"s">>, F)>>,
       !.DomainDependencyTriples = <<Dependency(<<"dd">>, E, <<DomainEntry(<<"dd", "e">>, F)>>)>>,
       !.DomainMembershipTriples = <<Membership(<<"dm">>, E, <<DomainEntry(<<"dm", "e">>, F)>>)>>,
       !.Extensions = OneLeaf(<<"t">>, "ext"), !.TriplesExtensions = OneLeaf(<<"t">>, "text")],
    EmptyTag(<<"u">>)>>) EXCEPT
  !.Entities = <<Entity(<<"m", "ent">>)>>, !.DependentRIMs = <<Locator(<<"m", "loc">>)>>,
  !.Extensions = OneIn(<<"m">>, "ext", "extensions/manifest"),
  !.Namesakes = OneLeaf(<<"t">>, "ext")]

\* One document, complete.
OneDoc == {A}
OneId == A :> 1
OneManifest == A :> Everything
OneToken == A :> Token(<<"tok">>)

\* A and A2 have the same manifest ID; B shares A's environment.  A's delete forgets
\* a measurement's key, A2's the manifest's extension, and each token's its authority.
ThreeDocs == {A, A2, B}
ThreeIds == A :> 1 @@ A2 :> 1 @@ B :> 2
Simple(m, t, triple) == Bare(m, <<[EmptyTag(t) EXCEPT !.ValueTriples = <<triple>>]>>)
ThreeManifests ==
  A :> Simple(<<"m">>, <<"t">>, Value(<<"v">>, E, <<KeyedMeasurement(<<"v", "m">>)>>))
  @@ A2 :> [Simple(<<"m2">>, <<"t2">>, Value(<<"v2">>, F, <<>>)) EXCEPT
              !.Extensions = OneIn(<<"m2">>, "ext", "extensions/manifest")]
  @@ B :> Bare(<<"n">>, <<[EmptyTag(<<"n", "t">>) EXCEPT
                            !.KeyTriples = <<KeyT(<<"n", "k">>, E, <<>>, <<>>)>>]>>)
ThreeTokens == A :> Token(<<"tok">>) @@ A2 :> Token(<<"tok2">>) @@ B :> Token(<<"n", "tok">>)

\* The keys of the documents' rows.
MCRowKeys == UNION {Inserted(AddBytes(d)) : d \in Docs}

Symmetry == Permutations(Clients)
=============================================================================
