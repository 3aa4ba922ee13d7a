------------------------------ MODULE MCMKFirm -------------------------------
(* Small instances of MKFirm for TLC. *)
EXTENDS MKFirm, TLC

WindowSymmetry == Permutations(Jobs) \cup Permutations(Branches)
=============================================================================
