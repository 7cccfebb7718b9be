--------------------------- MODULE MCTaskScheduler ---------------------------
(* A small instance of TaskScheduler for TLC. *)
EXTENDS TaskScheduler

CONSTANTS usage, sessions   \* two heavy collectors

MCRank == [t \in Task |-> 1]
MCClient == 1..MaxRun

=============================================================================
