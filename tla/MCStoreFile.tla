----------------------------- MODULE MCStoreFile -----------------------------
(* StoreFile with two values to save and two names for temporary files: one *)
(* save may find the temporary file of another that was killed.            *)
EXTENDS StoreFile

CONSTANTS v1, v2, n1, n2
=============================================================================
