---------------------------- MODULE MCStateLock ----------------------------
(* Small instances of the directory lock. *)
EXTENDS StateLock, TLC

AcquirerSymmetry == Permutations(Acquirers \ Inspectors)
=============================================================================
