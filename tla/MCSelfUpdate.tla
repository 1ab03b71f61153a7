---------------------------- MODULE MCSelfUpdate ----------------------------
(* The TLC instance of SelfUpdate: MCSelfUpdate.cfg gives the values. *)
EXTENDS SelfUpdate
=============================================================================
