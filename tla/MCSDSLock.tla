------------------------------ MODULE MCSDSLock ------------------------------
(* SDSLock for TLC.                                                           *)
EXTENDS SDSLock, TLC

ConnectionSymmetry == Permutations(Connections \ Deleters)
=============================================================================
