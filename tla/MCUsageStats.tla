---------------------------- MODULE MCUsageStats ----------------------------
(* Two threads, two requests in two hours of one day. *)
EXTENDS UsageStats

CONSTANTS t1, t2

MCThreads == {t1, t2}
MCTimes == {0, 1}
=============================================================================
