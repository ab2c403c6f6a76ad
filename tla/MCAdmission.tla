----------------------------- MODULE MCAdmission -----------------------------
(* Two threads, four requests, two days of two seconds. *)
EXTENDS Admission, TLC

CONSTANTS t1, t2

MCThreads == {t1, t2}
Symmetry == Permutations(MCThreads)
=============================================================================
