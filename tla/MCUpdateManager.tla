--------------------------- MODULE MCUpdateManager ---------------------------
(* A small instance of UpdateManager for TLC. *)
EXTENDS UpdateManager
=============================================================================
