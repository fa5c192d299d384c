--------------------------- MODULE MCDocumentSync ---------------------------
(* Model values for the tokens of DocumentSync. *)
EXTENDS DocumentSync

CONSTANTS a, b, r
=============================================================================
