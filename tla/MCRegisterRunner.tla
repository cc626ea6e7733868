--------------------------- MODULE MCRegisterRunner ---------------------------
(* Instances of RegisterRunner for TLC. *)
EXTENDS RegisterRunner
=============================================================================
