----------------------------- MODULE MCDataReset -----------------------------
(* A small instance of DataReset for TLC. *)
EXTENDS DataReset

CONSTANTS first, second, cli    \* two launches and a command line process

=============================================================================
