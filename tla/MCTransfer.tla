----------------------------- MODULE MCTransfer -----------------------------
(***************************************************************************)
(* Transfers of two single-block files over two ports.                     *)
(***************************************************************************)
EXTENDS Transfer, TLC

CONSTANTS p1, p2

ThreadSymmetry == Permutations({p1, p2})
=============================================================================
