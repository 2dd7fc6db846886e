------------------------- MODULE MCProcessAutosave -------------------------
(* Instances of ProcessAutosave: model values for processes and versions.  *)
EXTENDS ProcessAutosave
=============================================================================
