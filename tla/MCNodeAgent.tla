---------------------------- MODULE MCNodeAgent ----------------------------
(***************************************************************************)
(* Two agents, next to a node whose agent is stopped and one that is gone. *)
(* The operator's IPv4 pool lies around the default one and does not       *)
(* encapsulate, so a block's route depends on both; the IPv6 pool is the   *)
(* first one when there is no other.                                       *)
(***************************************************************************)
EXTENDS NodeAgent

MCNodeList == <<"m", "n", "z">>
MCPools ==
    LET fours == {"b1", "b2", "b3"}
    IN  "default" :> [blocks |-> fours, six |-> FALSE, len |-> 24, encap |-> TRUE, rank |-> 1]
        @@ "pool4" :> [blocks |-> fours, six |-> FALSE, len |-> 16, encap |-> FALSE, rank |-> 2]
        @@ "pool6" :> [blocks |-> {"b6"}, six |-> TRUE, len |-> 112, encap |-> TRUE, rank |-> 3]
MCBlockOf == 1 :> "b1" @@ 2 :> "b1" @@ 3 :> "b2" @@ 4 :> "b2" @@ 5 :> "b3" @@ 6 :> "b6" @@ 7 :> "b6"
MCPublished == "z" :> [ip |-> 5, mac |-> "z1"] @@ "n" :> [ip |-> 3, mac |-> "n0"]
MCUnderlay == "m" :> "ip m" @@ "n" :> "ip n" @@ "z" :> "ip z"
MCMac == "m" :> <<"m1", "m2">> @@ "n" :> <<"n1", "n2">>
=============================================================================
