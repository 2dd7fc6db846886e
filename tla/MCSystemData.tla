--------------------------- MODULE MCSystemData ---------------------------
(***************************************************************************)
(* Two backups that share a file, one or two uploads of people, two        *)
(* replacements one after the other and up to two faults in each.          *)
(***************************************************************************)
EXTENDS SystemData, TLC

CONSTANTS v1, v2, a, b, c

MCHolds == (v1 :> {a, b}) @@ (v2 :> {b, c})
Symmetry == Permutations(Uploads)
=============================================================================
