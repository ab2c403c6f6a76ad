-------------------------- MODULE MCSnapshotCapture --------------------------
(* Two instances, three users of whom two make the top. *)
EXTENDS SnapshotCapture

CONSTANTS i1, i2

MCInstances == {i1, i2}
MCUsers == 1..3
MCRegistered == {1, 2}
AllFaults == {"redis", "sql", "commit", "session", "crash", "loss"}
NoFaults == {}
=============================================================================
