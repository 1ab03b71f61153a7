-------------------------- MODULE MCFrpSupervisor --------------------------
(* TLC instances of FrpSupervisor. *)
EXTENDS FrpSupervisor
=============================================================================
