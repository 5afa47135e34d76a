----------------------------- MODULE MCAdmission ----------------------------
(* Small instances of Admission for TLC. *)
EXTENDS Admission, TLC

ConnSymmetry == Permutations(Conns)
=============================================================================
