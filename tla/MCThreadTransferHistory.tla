---------------------- MODULE MCThreadTransferHistory ----------------------
(***************************************************************************)
(* Two sender threads and two single-block files under every sequence of   *)
(* local and global checkpoints a receiver could report.                   *)
(***************************************************************************)
EXTENDS ThreadTransferHistory, TLC

CONSTANTS t1, t2

ThreadSymmetry == Permutations({t1, t2})
=============================================================================
