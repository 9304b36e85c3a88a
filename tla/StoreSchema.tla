---------------------------- MODULE StoreSchema ----------------------------
(***************************************************************************)
(* What the modules about the store share: the CoRIM documents that are    *)
(* added to it, the configuration of a Store, and the rows of the two      *)
(* tables its operations decide on, "manifests" and "tokens".              *)
(*                                                                         *)
(* A document is a model value.  What the code reads from its bytes is     *)
(* given by constants: the manifest ID it carries (GetID), whether it is a *)
(* COSE_Sign1 (IsSignedCoRIM), and whether its signature verifies with the *)
(* caller's key store.  A row's "doc" stands for the bytes of the token    *)
(* and, in a manifest row, for everything decoded from them: the digest    *)
(* and all the rows owned by the manifest, which are written and removed   *)
(* together with it wherever that happens inside one transaction.          *)
(***************************************************************************)
EXTENDS Naturals

CONSTANTS
  Docs,          \* the documents clients may hand to the store
  ManifestIDs,   \* the manifest IDs they may carry
  DocID,         \* the manifest ID of each document
  Signed,        \* the documents that are signed CoRIMs
  Genuine,       \* those whose signature verifies with the key store
  Labels,        \* the labels a caller may give
  NoLabel,       \* the empty label
  CfgInsecure,      \* Config.Insecure
  CfgForce,         \* Config.Force
  CfgRequireLabel   \* Config.RequireLabel

ASSUME SchemaAssumption ==
  /\ DocID \in [Docs -> ManifestIDs]
  /\ Genuine \subseteq Signed
  /\ Signed \subseteq Docs
  /\ NoLabel \in Labels
  /\ {CfgInsecure, CfgForce, CfgRequireLabel} \subseteq BOOLEAN

ManifestRow == [id : Nat, doc : Docs, label : Labels]
TokenRow == [id : Nat, doc : Docs, verified : BOOLEAN]

\* The rows of a table that carry a manifest ID.  Every lookup of the add
\* path is by this ID and nothing else: a label never takes part in it.
Matching(rows, mid) == {r \in rows : DocID[r.doc] = mid}

\* The manifest rows GetManifest may return for a manifest ID and a label:
\* an empty label does not restrict the search.
Selectable(rows, mid, label) ==
  {r \in Matching(rows, mid) : label # NoLabel => r.label = label}

\* The check both AddManifest and GetManifest make of the label they are given.
LabelOK(label) == CfgRequireLabel => label # NoLabel

\* A token that is recorded as verified keeps the verifying key in Authority.
IsVerified(op) == op = "VerifyAndAddBytes"
=============================================================================
