--------------------------- MODULE MCAuditPipeline ---------------------------
(* Two relays handing over to each other, two consumers, two events. *)
EXTENDS AuditPipeline, TLC

CONSTANTS p1, p2, c1, c2

MCProcs == {p1, p2}
MCConsumers == {c1, c2}
AllFaults == {"redis", "throw", "unreported", "drop", "crash",
              "transient", "permanent", "dlt", "commit", "rebalance"}
=============================================================================
