------------------------- MODULE MCColdStartRecovery -------------------------
(* Two instances; two users, of whom one is brought back by a recovery. *)
EXTENDS ColdStartRecovery, TLC

CONSTANTS i1, i2

MCInstances == {i1, i2}
MCUsers == 1..2
MCBoards == {<<0, 2>>}
Symmetric == Permutations(MCInstances)
=============================================================================
