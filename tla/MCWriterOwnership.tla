-------------------------- MODULE MCWriterOwnership --------------------------
(* A small instance of WriterOwnership for TLC. *)
EXTENDS WriterOwnership
=============================================================================
