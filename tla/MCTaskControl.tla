---------------------------- MODULE MCTaskControl ----------------------------
(* Instances of TaskControl for TLC. *)
EXTENDS TaskControl
=============================================================================
