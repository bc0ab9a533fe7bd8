---------------------------- MODULE MCIpamBlock -----------------------------
(* IpamBlock on a block of three addresses: the instance TLC checks. *)
EXTENDS IpamBlock, TLC

(* Handles are only compared with each other. *)
Symmetry == Permutations(Handles)

=============================================================================
