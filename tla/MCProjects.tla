---------------------------- MODULE MCProjects ----------------------------
(* Two projects can be made of one form; two documents, one activity. *)
EXTENDS Projects, TLC

CONSTANTS p1, p2, r1, r2, d1, d2

Symmetric == Permutations({p1, p2}) \union Permutations({r1, r2}) \union Permutations({d1, d2})
=============================================================================
