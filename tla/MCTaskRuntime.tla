---------------------------- MODULE MCTaskRuntime ----------------------------
(* A small instance of TaskRuntime for TLC. *)
EXTENDS TaskRuntime

CONSTANTS usage, sessions, insight   \* two heavy collectors, a light task

MCRank == [t \in Task |-> IF t = insight THEN 0 ELSE 1]
MCClient == 1..MaxRun

=============================================================================
