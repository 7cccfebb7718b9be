-------------------------- MODULE MCAutomaticScans --------------------------
(* A small instance of AutomaticScans for TLC. *)
EXTENDS AutomaticScans

CONSTANTS off, daily, hourly

=============================================================================
