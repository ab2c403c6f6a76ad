--------------------------- MODULE MCRankingReads ---------------------------
(* Four users with scores 0 to 2, pages that start inside and past a tie. *)
EXTENDS RankingReads

MCUsers == 1..4
MCDeltas == {1, 2}
=============================================================================
