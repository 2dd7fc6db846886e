-------------------------------- MODULE Rows --------------------------------
(* What all modules about the rows of an organisation share.               *)

CONSTANT None  \* nothing: no row, no value, no request
=============================================================================
