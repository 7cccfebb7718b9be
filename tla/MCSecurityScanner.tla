--------------------------- MODULE MCSecurityScanner ---------------------------
(* A small instance of SecurityScanner for TLC. *)
EXTENDS SecurityScanner

=============================================================================
