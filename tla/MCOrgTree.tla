----------------------------- MODULE MCOrgTree -----------------------------
(* Instances of OrgTree: model values for organisations and items.         *)
EXTENDS OrgTree

CONSTANTS o1, o2, o3, o4, ix, iy

(* The organisation at the top owns an ordinary item and a cohort its      *)
(* children see; another one owns an item as well.                         *)
OwnItems == [o \in Orgs |-> IF o = o1 THEN {ix} ELSE IF o = o2 THEN {iy} ELSE {}]

Symmetry == Permutations({o3, o4})

Nothing    == {[all |-> FALSE, ids |-> {}]}
Everything == {[all |-> TRUE, ids |-> {}]}
=============================================================================
