--------------------------- MODULE MCCniWorkload ----------------------------
(* Pod p is created twice under one name; pod q competes for the address.  *)
EXTENDS CniWorkload

CONSTANTS p, q, p1, p2, q1, x

MCPodOf == [s \in Sandboxes |-> IF s = q1 THEN q ELSE p]
MCAdds == [s \in Sandboxes |-> IF s = p2 THEN 2 ELSE 1]
MCDels == [s \in Sandboxes |-> IF s = q1 THEN 0 ELSE 1]
MCValues == WorkloadEndpoint
MCPreset == [k \in Keys |-> Absent]

=============================================================================
