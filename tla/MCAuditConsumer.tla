--------------------------- MODULE MCAuditConsumer ---------------------------
(* Two partitions, one event in each, two consumers. *)
EXTENDS AuditConsumer, TLC

CONSTANTS t1, t2, e1, e2, c1, c2

MCParts == {t1, t2}
MCEvents == {e1, e2}
MCPartOf == (e1 :> t1) @@ (e2 :> t2)
MCConsumers == {c1, c2}
AllFaults == {"transient", "permanent", "dlt", "commit", "rebalance", "crash"}
=============================================================================
