----------------------------- MODULE MCSnapshot -----------------------------
(* A small instance of SnapshotCoordinator for TLC. *)
EXTENDS SnapshotCoordinator
=============================================================================
