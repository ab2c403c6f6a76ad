---------------------------- MODULE MCAuditRelay ----------------------------
(* Two relay processes, batches of two. *)
EXTENDS AuditRelay

CONSTANTS p1, p2

MCProcs == {p1, p2}
AllFaults == {"redis", "throw", "unreported", "drop", "crash"}
=============================================================================
