--------------------------- MODULE MCUploadQuota ---------------------------
(* Two registrations of two files over two scopes; the quota takes either  *)
(* file, not both.                                                         *)
EXTENDS UploadQuota, TLC

CONSTANTS r1, r2, f1, f2

MCScopes == {1, 2}
MCSize == f1 :> 2 @@ f2 :> 1
MCRegistrations == {r1, r2}
=============================================================================
