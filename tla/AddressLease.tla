---------------------------- MODULE AddressLease ----------------------------
(***************************************************************************)
(* What address management promises, with every mechanism removed: each    *)
(* address is either free or leased to exactly one holder, it is leased    *)
(* only while it is free, and it comes back only by being revoked.  One    *)
(* step grants addresses to one holder or revokes addresses of one holder. *)
(*                                                                         *)
(* Both the in-memory block (IpamBlock) and the cluster driver (KddIpam)   *)
(* are shown to implement this specification.                              *)
(***************************************************************************)
CONSTANTS
    Addresses,  \* the addresses of a block, or of every block of a pool
    Holders,    \* IPAM handle ids
    Free        \* the value of an address nobody holds; not a holder

VARIABLE lease  \* lease[a]: who holds a, or Free

LeaseType == lease \in [Addresses -> Holders \cup {Free}]

Init == lease = [a \in Addresses |-> Free]

(* Free addresses are given to h. *)
Grant(S, h) ==
    /\ \A a \in S : lease[a] = Free
    /\ lease' = [a \in Addresses |-> IF a \in S THEN h ELSE lease[a]]

(* Addresses of h, and of nobody else, become free. *)
Revoke(S, h) ==
    /\ \A a \in S : lease[a] = h
    /\ lease' = [a \in Addresses |-> IF a \in S THEN Free ELSE lease[a]]

Next ==
    \E S \in SUBSET Addresses, h \in Holders : Grant(S, h) \/ Revoke(S, h)

Spec == Init /\ [][Next]_lease

=============================================================================
