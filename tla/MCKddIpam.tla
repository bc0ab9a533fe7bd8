----------------------------- MODULE MCKddIpam ------------------------------
(* KddIpam with two nodes and three sandboxes, two of them on one node. *)
EXTENDS KddIpam, TLC

CONSTANTS n1, n2, s1, s2, s3

MCHostOf == s1 :> n1 @@ s2 :> n2 @@ s3 :> n1

(* Processes are interchangeable. *)
Symmetry == Permutations(Procs)

=============================================================================
