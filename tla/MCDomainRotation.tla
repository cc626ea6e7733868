-------------------------- MODULE MCDomainRotation --------------------------
(* Instances of DomainRotation for TLC. *)
EXTENDS DomainRotation
=============================================================================
