----------------------------- MODULE MCStoreTx -----------------------------
(***************************************************************************)
(* StoreTx on a small store: two documents that carry the same manifest ID *)
(* and so compete for it, a third, signed one, whose signature is good,    *)
(* with the same ID, and one with a signature that does not verify.        *)
(***************************************************************************)
EXTENDS StoreTx, TLC

CONSTANTS d1, d2, sg, sb, m1, m2, l1, c1, c2

TwoUnsigned == d1 :> m1 @@ d2 :> m1
SignedAndUnsigned == d1 :> m1 @@ sg :> m1 @@ sb :> m2
OneSigned == sg :> m1

\* Clients run the same code: exchanging them changes nothing.
Symmetry == Permutations(Clients)
=============================================================================
