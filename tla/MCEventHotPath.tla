--------------------------- MODULE MCEventHotPath ---------------------------
(* One leaderboard, one user, one key, two amounts, two request threads. *)
EXTENDS EventHotPath, TLC

CONSTANTS k1, t1, t2, u1

MCUsers == {u1}
MCDeltas == {1, 2}
MCKeys == {k1}
MCThreads == {t1, t2}

Symmetry == Permutations(MCThreads)
=============================================================================
