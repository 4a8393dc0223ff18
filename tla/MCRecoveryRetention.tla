------------------------ MODULE MCRecoveryRetention ------------------------
(***************************************************************************)
(* RecoveryRetention for TLC: two connections on one local recovery root.  *)
(***************************************************************************)
EXTENDS RecoveryRetention, TLC

Symmetry == Permutations(Conns)
=============================================================================
