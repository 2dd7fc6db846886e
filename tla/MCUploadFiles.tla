--------------------------- MODULE MCUploadFiles ---------------------------
(* One file in two scopes, referred to by projects and by templates.       *)
EXTENDS UploadFiles

CONSTANT f1

MCTables == <<"projects", "templates">>
=============================================================================
