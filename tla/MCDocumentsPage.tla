--------------------------- MODULE MCDocumentsPage ---------------------------
(* Instance of DocumentsPage for TLC.                                      *)
EXTENDS DocumentsPage
=============================================================================
