----------------------------- MODULE StoreSpec -----------------------------
(***************************************************************************)
(* What the store promises its users: a call that adds a CoRIM is one      *)
(* indivisible step that either has its whole effect or none (the          *)
(* transactions of pkg/store/store.go).  A delete is not: it first empties *)
(* the manifest and then removes it, in statements committed one by one,   *)
(* and what comes between, or instead of the second half, meets a manifest *)
(* without part of what it contained.  StoreTx, which models the           *)
(* statements and the transactions the code really executes, is shown to   *)
(* implement this module.                                                  *)
(***************************************************************************)
EXTENDS StoreSchema

CONSTANT RowIDs  \* the keys the tables' autoincrement columns may hand out

VARIABLES
  manifests,  \* rows of the table "manifests"
  tokens,     \* rows of the table "tokens"
  partial     \* the manifests that a delete has begun to empty

tables == <<manifests, tokens, partial>>

Init == manifests = {} /\ tokens = {} /\ partial = {}

Fresh(id) == \A r \in manifests \cup tokens : r.id # id

\* The sets of rows an add that meets the manifest ID mid may remove: none is
\* needed when the ID is new; with Force the row that was found goes; without
\* it there is no such set, and the add is refused.
Evictions(rows, mid) ==
  IF Matching(rows, mid) = {} THEN {{}}
  ELSE IF CfgForce THEN {{r} : r \in Matching(rows, mid)} ELSE {}

PutManifest(id, doc, label) ==
  /\ LabelOK(label)
  /\ \E old \in Evictions(manifests, DocID[doc]) :
       /\ manifests' = (manifests \ old) \cup {[id |-> id, doc |-> doc, label |-> label]}
       /\ partial' = partial \ old

AddBytes(id, doc, label) ==
  /\ doc \in Signed => CfgInsecure
  /\ \E old \in Evictions(tokens, DocID[doc]) :
       tokens' = (tokens \ old) \cup {[id |-> id, doc |-> doc, verified |-> FALSE]}
  /\ PutManifest(id, doc, label)

\* VerifyAndAddBytes inserts its token without looking for an earlier one.
VerifyAndAddBytes(id, doc, label) ==
  /\ doc \in Genuine
  /\ tokens' = tokens \cup {[id |-> id, doc |-> doc, verified |-> TRUE]}
  /\ PutManifest(id, doc, label)

BeginDelete(mid, label) ==
  /\ LabelOK(label)
  /\ \E m \in Selectable(manifests, mid, label) : partial' = partial \cup {m}
  /\ UNCHANGED <<manifests, tokens>>

\* What has been emptied is removed.  The token stays.
EndDelete(mid, label) ==
  /\ LabelOK(label)
  /\ \E m \in Selectable(partial, mid, label) :
       /\ manifests' = manifests \ {m}
       /\ partial' = partial \ {m}
  /\ UNCHANGED tokens

Next ==
  \/ \E id \in RowIDs, doc \in Docs, label \in Labels :
       /\ Fresh(id)
       /\ AddBytes(id, doc, label) \/ VerifyAndAddBytes(id, doc, label)
  \/ \E mid \in ManifestIDs, label \in Labels :
       BeginDelete(mid, label) \/ EndDelete(mid, label)

Spec == Init /\ [][Next]_tables
=============================================================================
