------------------------------- MODULE Uploads -------------------------------
(***************************************************************************)
(* What the reservation of upload capacity (UploadQuota) and the life of   *)
(* the files (UploadFiles) have in common.                                 *)
(***************************************************************************)
CONSTANTS
  Files,   \* generated file names: each is uploaded once, with its kind
  Scopes,  \* scope keys: what a file is granted to
  None
=============================================================================
