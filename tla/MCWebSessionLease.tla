------------------------- MODULE MCWebSessionLease -------------------------
(* Instances of WebSessionLease for TLC. *)
EXTENDS WebSessionLease
=============================================================================
