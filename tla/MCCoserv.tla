----------------------------- MODULE MCCoserv -----------------------------
(***************************************************************************)
(* Coserv on three documents: the second has the manifest ID of the first, *)
(* which may leave its token, the third was added without a token, and the *)
(* first and the third have a module tag of one ID and different versions. *)
(* Their validities differ.                                                *)
(***************************************************************************)
EXTENDS Coserv, TLC

CONSTANTS d1, d2, d3, r1, k1, e2, c3, e3

MCIdOf == d1 :> "c1" @@ d2 :> "c1" @@ d3 :> "c2"
MCProfileOf == d1 :> "p" @@ d2 :> "p" @@ d3 :> "q"
MCNotBefore == d1 :> Never @@ d2 :> 1 @@ d3 :> Never
MCNotAfter == d1 :> Never @@ d2 :> 3 @@ d3 :> 2
MCTagOf == d1 :> "t" @@ d2 :> "u" @@ d3 :> "t"
MCVersionOf == d1 :> 1 @@ d2 :> 1 @@ d3 :> 2
MCHowAdded == d1 :> "VerifyAndAddBytes" @@ d2 :> "AddBytes" @@ d3 :> "AddCoRIM"

MCDocOf == r1 :> d1 @@ k1 :> d1 @@ e2 :> d2 @@ c3 :> d3 @@ e3 :> d3
MCKindOf ==
  r1 :> "reference" @@ k1 :> "attest" @@ e2 :> "endorsed" @@ c3 :> "conditional" @@ e3 :> "endorsed"
MCEnvOf == r1 :> "E" @@ k1 :> "E" @@ e2 :> "E" @@ c3 :> "E" @@ e3 :> "F"

Env(art, envs, profile) == [art |-> art, envs |-> envs, profile |-> profile]
RimsBy(selectors, profile) == [art |-> "rims", selectors |-> selectors, profile |-> profile]
By(what, id) == [by |-> what, id |-> id]

MCRequests ==
  { Env("reference values", {"E"}, AnyProfile), Env("trust anchors", {"E", "F"}, "p"),
    Env("endorsed values", {"E"}, AnyProfile), Env("endorsed values", {"E", "F"}, "q"),
    RimsBy(<<By("corim", "c2"), By("corim", "c1"), By("comid", "t")>>, AnyProfile),
    RimsBy(<<By("comid", "t"), By("comid", "u")>>, "p"), RimsBy(<<By("comid", "t")>>, AnyProfile) }
=============================================================================
