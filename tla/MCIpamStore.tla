---------------------------- MODULE MCIpamStore ----------------------------
(***************************************************************************)
(* Two processes of one host, which share a handle, and one of another; a  *)
(* pool of two blocks.  Strict affinity with a cap, strict without, and    *)
(* borrowing.  The other host claims and releases.                         *)
(***************************************************************************)
EXTENDS IpamStore, TLC

CONSTANTS p, q, r

MCHostOf == p :> "h" @@ q :> "h" @@ r :> "g"
MCHandleOf == p :> "s" @@ q :> "s" @@ r :> "t"
MCConfigs == {[strict |-> TRUE, auto |-> TRUE, cap |-> 1],
              [strict |-> TRUE, auto |-> TRUE, cap |-> 0],
              [strict |-> FALSE, auto |-> TRUE, cap |-> 0]}
Affine == {[op |-> o, block |-> "b1", count |-> 0] : o \in {"claim", "release"}}
Assign == [op |-> "assign", block |-> Absent, count |-> 2]
MCJobsOf == [x \in {p, q, r} |-> IF x = r THEN Affine ELSE Affine \cup {Assign}]

\* A claim of b1 that ended before it was confirmed.
MCPreset == [k \in AllKeys |->
    CASE k = Affinity("h", "b1") -> [state |-> "pending"]
      [] k = BlockKey("b1") -> [owner |-> "h", used |-> [i \in Handles |-> 0]]
      [] OTHER -> Absent]
Twins == Permutations({p, q})
=============================================================================
