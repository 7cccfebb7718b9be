---------------------------- MODULE MCTaskDueness ----------------------------
(* A small instance of TaskDueness for TLC. *)
EXTENDS TaskDueness

CONSTANTS usage, report   \* an interval task of startup, a daily one

MCCatalog == <<usage, report>>

=============================================================================
