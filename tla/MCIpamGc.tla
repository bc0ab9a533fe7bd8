------------------------------ MODULE MCIpamGc ------------------------------
(* IpamGc with a pod that has run on one node and runs on another under    *)
(* the same name, its two sandboxes, and one block.                        *)
EXTENDS IpamGc, TLC

CONSTANTS n1, n2, s1, s2, web

MCHostOf == s1 :> n1 @@ s2 :> n2
MCPodOf == s1 :> web @@ s2 :> web

=============================================================================
