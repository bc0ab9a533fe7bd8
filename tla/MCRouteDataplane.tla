-------------------------- MODULE MCRouteDataplane --------------------------
(* Two spellings of one prefix, another prefix, and a string that is none. *)
EXTENDS RouteDataplane

CONSTANTS a, b

MCCidrOf == [d \in Dsts |-> CASE d = "a" -> a [] d = "a/32" -> a
                             [] d = "b/32" -> b [] OTHER -> Malformed]

=============================================================================
