--------------------------- MODULE NodeAgentProofs ---------------------------
(***************************************************************************)
(* Theorems about NodeAgent for any nodes, pools, blocks and addresses and *)
(* any number of failures, restarts, reboots and changes of blocks.        *)
(***************************************************************************)
EXTENDS NodeAgent, FiniteSetTheorems, WellFoundedInduction, TLAPS

(* A set of addresses that is not empty has a least one. *)
LEMMA MinOfAddresses ==
    ASSUME NEW S \in SUBSET Addresses, S # {}
    PROVE  Min(S) \in S
<1>1. S \subseteq Nat
  BY AddressesAssumption
<1>2. \E x \in S : \A y \in S : ~ (<<y, x>> \in OpToRel(<, Nat))
  BY <1>1, WFMin, NatLessThanWellFounded
<1>3. \A x, y \in Nat : y < x => <<y, x>> \in OpToRel(<, Nat)
  BY Zenon DEF OpToRel
<1>4. PICK x \in S : \A y \in S : ~ (<<y, x>> \in OpToRel(<, Nat))
  BY <1>2, Zenon
<1>5. \A y \in S : ~ (y < x)
  BY <1>1, <1>3, <1>4, Zenon
<1>6. \A y \in S : x <= y
  BY <1>1, <1>5
<1> QED BY <1>6 DEF Min

-----------------------------------------------------------------------------
AgentTypes ==
    /\ DOMAIN pc = Nodes /\ DOMAIN seen = Nodes /\ DOMAIN annotation = Nodes
    /\ held \in [Addresses -> Nodes \cup {None}]
    /\ DOMAIN handle = Nodes /\ torn \in [Nodes -> Nat]

HeldBy(n) == {a \in IPv4 : held[a] = n}

\* n has the address, or had it until the collector deleted its block.
Had(n, a) == a \in Addresses /\ (held[a] = n \/ <<n, a>> \in lost)

(* The IPv4 addresses of n are those that were torn off their handle       *)
(* record, and one more: it is about to be recorded, or the recovery finds *)
(* it.  What n carries from the recovery, or from the assignment, to the   *)
(* publication was its own; and it assigns only what it could not recover. *)
ToRecord(n) == pc[n] = "bump" /\ seen[n].ip \in HeldBy(n)
Accounted(n) == Cardinality(HeldBy(n)) <=
                    torn[n] + (IF ToRecord(n) \/ Recovered(n) # {} THEN 1 ELSE 0)
Carrying == {"bump", "device", "publish"}
NodeOk(n) ==
    /\ Accounted(n)
    /\ pc[n] \in {"assign", "block"} => Recovered(n) = {}
    /\ pc[n] \in Carrying => Had(n, seen[n].ip)
    /\ pc[n] \in Carrying \ {"bump"} => seen[n].ip \in IPv4
    /\ annotation[n] # None => annotation[n].ip \in IPv4 /\ Had(n, annotation[n].ip)

AgentInv == AgentTypes /\ \A n \in Nodes : NodeOk(n)

(* A step of n touches nothing of another node and takes no address away. *)
Own(n) ==
    /\ \A m \in Nodes \ {n} :
          /\ pc'[m] = pc[m] /\ seen'[m] = seen[m] /\ annotation'[m] = annotation[m]
          /\ handle'[m] = handle[m] /\ torn'[m] = torn[m]
    /\ \A a \in Addresses : held'[a] = held[a] \/ (held[a] = None /\ held'[a] = n)
    /\ lost' = lost

LEMMA OthersOk ==
    ASSUME NEW n \in Nodes, Own(n), NEW m \in Nodes, m # n, NodeOk(m)
    PROVE  NodeOk(m)'
<1>1. \A a \in Addresses : held'[a] = m <=> held[a] = m
  BY NodesAssumption DEF Own
<1>2. HeldBy(m)' = HeldBy(m) /\ Recovered(m)' = Recovered(m)
  BY <1>1 DEF HeldBy, Recovered, Own, IPv4
<1>3. \A a : Had(m, a) => Had(m, a)'
  BY <1>1 DEF Had, Own
<1>4. Accounted(m)'
  BY <1>2 DEF NodeOk, Accounted, ToRecord, Own
<1> QED BY <1>2, <1>3, <1>4 DEF NodeOk, Own

LEMMA FiniteHeld ==
    ASSUME NEW n PROVE IsFiniteSet(HeldBy(n)) /\ Cardinality(HeldBy(n)) \in Nat
BY AddressesAssumption, FS_Subset, FS_CardinalityType DEF HeldBy, IPv4

-----------------------------------------------------------------------------
(* What a step of n leaves of its own, by the kind of step. *)
Rests(n) ==
    /\ UNCHANGED <<held, handle, annotation, lost>> /\ torn'[n] = torn[n]
    /\ pc[n] # "bump" /\ pc'[n] \notin Carrying \cup {"assign", "block"}

LEMMA RestsOk == ASSUME NEW n \in Nodes, NodeOk(n), Rests(n) PROVE NodeOk(n)'
BY DEF NodeOk, Accounted, ToRecord, Rests, Carrying, HeldBy, Recovered, Had

LEMMA StepFacts ==
    ASSUME AgentTypes, NEW n \in Nodes, NEW from, NEW to, NEW read, Step(n, from, to, read)
    PROVE  /\ pc[n] = from /\ pc'[n] = to /\ seen'[n] = read /\ torn' = torn /\ lost' = lost
           /\ \A m \in Nodes \ {n} : pc'[m] = pc[m] /\ seen'[m] = seen[m]
           /\ DOMAIN pc' = Nodes /\ DOMAIN seen' = Nodes
BY DEF AgentTypes, Step, bounds

(* Most steps have nothing to do with the tunnel address. *)
Elsewhere(n) ==
    \/ InstallCni(n) \/ ListPools(n) \/ CreateDefaultPool(n) \/ GetInfo(n) \/ CreateInfo(n)
    \/ MarkReady(n) \/ Conflict(n) \/ EnsureNode(n) \/ Restarted(n)
    \/ CollectVteps(n) \/ Program(n)

LEMMA ElsewhereKeeps ==
    ASSUME AgentInv, NEW n \in Nodes, Elsewhere(n)
    PROVE  AgentTypes' /\ Own(n) /\ NodeOk(n)'
<1>1. AgentTypes /\ NodeOk(n)
  BY DEF AgentInv
<1> DEFINE Kept == /\ UNCHANGED <<held, handle, annotation, torn, lost>>
                   /\ DOMAIN pc' = Nodes /\ DOMAIN seen' = Nodes
                   /\ \A m \in Nodes \ {n} : pc'[m] = pc[m] /\ seen'[m] = seen[m]
                   /\ pc[n] # "bump" /\ pc'[n] \notin Carrying \cup {"assign", "block"}
<1>2. ASSUME Kept PROVE AgentTypes' /\ Own(n) /\ NodeOk(n)'
  BY <1>1, <1>2, RestsOk DEF AgentTypes, Own, Rests
<1>3. ASSUME NEW from, NEW to, NEW read, Step(n, from, to, read),
             UNCHANGED <<held, handle, annotation>>,
             from # "bump", to \notin Carrying \cup {"assign", "block"}
      PROVE  Kept
  BY <1>1, <1>3, StepFacts
<1> HIDE DEF Kept
<1>4. ASSUME InstallCni(n) \/ ListPools(n) PROVE Kept
  <2>1. CASE InstallCni(n)
    BY <1>3, <2>1 DEF InstallCni, cluster, ipam, Carrying
  <2>2. CASE ListPools(n)
    <3>1. PICK to \in {"create pool", "info"} : Step(n, "pools", to, None)
      BY <2>2 DEF ListPools
    <3> QED BY <1>3, <2>2, <3>1 DEF ListPools, cluster, ipam, Carrying
  <2> QED BY <1>4, <2>1, <2>2
<1>5. ASSUME CreateDefaultPool(n) \/ CreateInfo(n) \/ MarkReady(n) PROVE Kept
  BY <1>3, <1>5 DEF CreateDefaultPool, CreateInfo, MarkReady, ipam, Carrying
<1>6. ASSUME GetInfo(n) PROVE Kept
  <2>1. PICK to \in {"create info", "node", "mark ready"} : Step(n, "info", to, info)
    BY <1>6 DEF GetInfo
  <2> QED BY <1>3, <1>6, <2>1 DEF GetInfo, cluster, ipam, Carrying
<1>7. ASSUME Conflict(n) PROVE Kept
  BY <1>1, <1>7 DEF Conflict, Retried, cluster, ipam, bounds, Kept, AgentTypes, Carrying
<1>8. ASSUME EnsureNode(n) \/ Restarted(n) \/ CollectVteps(n) PROVE Kept
  BY <1>3, <1>8 DEF EnsureNode, Restarted, CollectVteps, cluster, ipam, Carrying
<1>9. ASSUME Program(n) PROVE Kept
  BY <1>3, <1>9 DEF Program, cluster, ipam, Carrying
<1> QED BY <1>2, <1>4, <1>5, <1>6, <1>7, <1>8, <1>9 DEF Elsewhere

(* The write of the block is the one step that takes an address: of a      *)
(* block that nobody else owns, and only when there was none to recover.   *)
LEMMA AssignKeeps ==
    ASSUME AgentInv, NEW n \in Nodes, pc[n] = "block", NEW a \in Addresses,
           held[a] = None, Step(n, "block", "bump", [ip |-> a]),
           held' = [held EXCEPT ![a] = n], UNCHANGED <<annotation, handle>>
    PROVE  AgentTypes' /\ Own(n) /\ NodeOk(n)'
<1>1. AgentTypes /\ NodeOk(n)
  BY DEF AgentInv
<1>2. /\ held' \in [Addresses -> Nodes \cup {None}]
      /\ \A x \in Addresses : held'[x] = IF x = a THEN n ELSE held[x]
  BY <1>1 DEF AgentTypes
<1>3. /\ pc'[n] = "bump" /\ seen'[n].ip = a /\ torn' = torn /\ lost' = lost
      /\ \A m \in Nodes \ {n} : pc'[m] = pc[m] /\ seen'[m] = seen[m]
      /\ DOMAIN pc' = Nodes /\ DOMAIN seen' = Nodes
  BY <1>1, StepFacts
<1>4. AgentTypes' /\ Own(n)
  BY <1>1, <1>2, <1>3 DEF AgentTypes, Own
<1>5. Cardinality(HeldBy(n)) <= torn[n] /\ torn[n] \in Nat
  BY <1>1, FiniteHeld DEF NodeOk, Accounted, ToRecord, AgentTypes
<1>6. Accounted(n)'
  <2>1. CASE a \in IPv4
    <3> DEFINE S == HeldBy(n)
    <3>1. IsFiniteSet(S) /\ Cardinality(S) \in Nat
      BY FiniteHeld
    <3>2. HeldBy(n)' = S \cup {a}
      BY <1>2, <2>1 DEF HeldBy, IPv4
    <3>3. Cardinality(S) <= torn[n]
      BY <1>5
    <3> HIDE DEF S
    <3>4. Cardinality(S \cup {a}) \in {Cardinality(S), Cardinality(S) + 1}
      BY <3>1, FS_AddElement
    <3>5. ToRecord(n)'
      BY <1>3, <3>2 DEF ToRecord
    <3> QED BY <1>3, <1>5, <3>1, <3>2, <3>3, <3>4, <3>5 DEF Accounted
  <2>2. CASE a \notin IPv4
    <3>1. HeldBy(n)' = HeldBy(n)
      BY <1>2, <2>2 DEF HeldBy, IPv4
    <3> QED BY <1>3, <1>5, <3>1, FiniteHeld DEF Accounted
  <2> QED BY <2>1, <2>2
<1>7. \A x : Had(n, x) => Had(n, x)'
  BY <1>2, <1>3 DEF Had
<1>8. Had(n, seen[n].ip)'
  BY <1>2, <1>3 DEF Had
<1> QED BY <1>1, <1>3, <1>4, <1>6, <1>7, <1>8 DEF NodeOk

(* The recovery, the assignment and the publication. *)
LEMMA EnsureLocalKeeps ==
    ASSUME AgentInv, NEW n \in Nodes,
           \/ GetNode(n) \/ IpsByHandle(n) \/ ClaimBlock(n) \/ AssignFromBlock(n)
           \/ BumpHandle(n) \/ EnsureDevice(n) \/ Publish(n)
    PROVE  AgentTypes' /\ Own(n) /\ NodeOk(n)'
<1>1. AgentTypes /\ NodeOk(n)
  BY DEF AgentInv
<1> DEFINE Kept == AgentTypes' /\ Own(n) /\ NodeOk(n)'
<1>2. ASSUME NEW from, NEW to, NEW read, Step(n, from, to, read),
             UNCHANGED <<held, handle, annotation>>, from # "bump", to # "bump",
             to \in {"assign", "block"} => Recovered(n) = {},
             to \in Carrying => read.ip \in IPv4 /\ Had(n, read.ip)
      PROVE  Kept
  <2>1. /\ pc[n] = from /\ pc'[n] = to /\ seen'[n] = read /\ torn' = torn /\ lost' = lost
        /\ \A m \in Nodes \ {n} : pc'[m] = pc[m] /\ seen'[m] = seen[m]
        /\ DOMAIN pc' = Nodes /\ DOMAIN seen' = Nodes
    BY <1>1, <1>2, StepFacts
  <2>2. AgentTypes' /\ Own(n)
    BY <1>1, <1>2, <2>1 DEF AgentTypes, Own
  <2>3. /\ HeldBy(n)' = HeldBy(n) /\ Recovered(n)' = Recovered(n)
        /\ \A x : Had(n, x)' = Had(n, x)
    BY <1>2, <2>1 DEF HeldBy, Recovered, Had
  <2>4. Accounted(n)'
    BY <1>1, <1>2, <2>1, <2>3 DEF NodeOk, Accounted, ToRecord
  <2>5. pc[n]' \in Carrying => seen[n].ip' \in IPv4 /\ Had(n, seen[n].ip)'
    BY <1>2, <2>1, <2>3 DEF Had
  <2> QED BY <1>1, <1>2, <2>1, <2>2, <2>3, <2>4, <2>5 DEF NodeOk, Had
<1>3. ASSUME GetNode(n) PROVE Kept
  <2>1. UNCHANGED <<held, handle, annotation>>
    BY <1>3 DEF GetNode, cluster, ipam
  <2>2. CASE annotation[n] # None
    <3>1. Step(n, "rest", "device", [ip |-> annotation[n].ip])
      BY <1>3, <2>2 DEF GetNode
    <3>2. LET a == [ip |-> annotation[n].ip].ip IN a \in IPv4 /\ Had(n, a)
      BY <1>1, <2>2 DEF NodeOk
    <3> HIDE DEF Kept
    <3> QED BY <1>2, <2>1, <3>1, <3>2
  <2>3. CASE annotation[n] = None
    <3>1. Step(n, "rest", "recover", None)
      BY <1>3, <2>3 DEF GetNode
    <3> HIDE DEF Kept
    <3> QED BY <1>2, <2>1, <3>1 DEF Carrying
  <2> QED BY <2>2, <2>3
<1>4. ASSUME IpsByHandle(n) PROVE Kept
  <2>1. UNCHANGED <<held, handle, annotation>>
    BY <1>4 DEF IpsByHandle, cluster, ipam
  <2>2. CASE Recovered(n) # {}
    <3>1. Step(n, "recover", "device", [ip |-> Min(Recovered(n))])
      BY <1>4, <2>2 DEF IpsByHandle
    <3>2. Min(Recovered(n)) \in Recovered(n)
      BY <2>2, MinOfAddresses DEF Recovered, IPv4
    <3>3. LET a == [ip |-> Min(Recovered(n))].ip IN a \in IPv4 /\ Had(n, a)
      BY <3>2 DEF Recovered, Had, IPv4
    <3> HIDE DEF Kept
    <3> QED BY <1>2, <2>1, <3>1, <3>3
  <2>3. CASE Recovered(n) = {}
    <3>1. Step(n, "recover", "assign", [tried |-> {}])
      BY <1>4, <2>3 DEF IpsByHandle
    <3> HIDE DEF Kept
    <3> QED BY <1>2, <2>1, <2>3, <3>1 DEF Carrying
  <2> QED BY <2>2, <2>3
<1>5. ASSUME ClaimBlock(n) PROVE Kept
  <2>1. /\ pc[n] = "assign" /\ UNCHANGED <<held, handle, annotation>>
        /\ \E to \in {"rest", "block"} : \E read : Step(n, "assign", to, read)
    BY <1>5 DEF ClaimBlock
  <2>2. Recovered(n) = {}
    BY <1>1, <2>1 DEF NodeOk
  <2>3. PICK to \in {"rest", "block"} : \E read : Step(n, "assign", to, read)
    BY <2>1
  <2>4. PICK read : Step(n, "assign", to, read)
    BY <2>3
  <2> HIDE DEF Kept
  <2> QED BY <1>2, <2>1, <2>2, <2>4 DEF Carrying
<1>6. ASSUME AssignFromBlock(n) PROVE Kept
  <2> DEFINE free == {a \in Addresses : BlockOf[a] = seen[n].block /\ held[a] = None}
  <2>1. pc[n] = "block" /\ UNCHANGED <<annotation, handle>>
    BY <1>6 DEF AssignFromBlock
  <2>2. \/ Step(n, "block", "assign", [tried |-> seen[n].tried]) /\ UNCHANGED held
        \/ /\ free # {} /\ Step(n, "block", "bump", [ip |-> Min(free)])
           /\ held' = [held EXCEPT ![Min(free)] = n]
    BY <1>6 DEF AssignFromBlock
  <2>3. Recovered(n) = {}
    BY <1>1, <2>1 DEF NodeOk
  <2> HIDE DEF Kept
  <2>4. CASE Step(n, "block", "assign", [tried |-> seen[n].tried]) /\ UNCHANGED held
    BY <1>2, <2>1, <2>3, <2>4 DEF Carrying
  <2>5. CASE /\ free # {} /\ Step(n, "block", "bump", [ip |-> Min(free)])
             /\ held' = [held EXCEPT ![Min(free)] = n]
    <3>1. Min(free) \in Addresses /\ held[Min(free)] = None
      BY <2>5, MinOfAddresses
    <3> HIDE DEF free
    <3> QED BY <2>1, <2>5, <3>1, AssignKeeps DEF Kept
  <2> QED BY <2>2, <2>4, <2>5
<1>7. ASSUME BumpHandle(n) PROVE Kept
  <2>1. /\ pc[n] = "bump" /\ UNCHANGED <<annotation, held>>
        /\ handle' = [handle EXCEPT ![n] = @ \cup {BlockOf[seen[n].ip]}]
        /\ \E to, read : /\ Step(n, "bump", to, read)
                         /\ \/ to = "device" /\ read = seen[n] /\ seen[n].ip \in IPv4
                            \/ to = "rest"
    BY <1>7 DEF BumpHandle
  <2>2. /\ torn' = torn /\ lost' = lost
        /\ \A m \in Nodes \ {n} : pc'[m] = pc[m] /\ seen'[m] = seen[m]
        /\ DOMAIN pc' = Nodes /\ DOMAIN seen' = Nodes
        /\ \/ pc'[n] = "device" /\ seen'[n] = seen[n] /\ seen[n].ip \in IPv4
           \/ pc'[n] = "rest"
    BY <1>1, <2>1, StepFacts
  <2>3. AgentTypes' /\ Own(n)
    BY <1>1, <2>1, <2>2 DEF AgentTypes, Own
  <2>4. Had(n, seen[n].ip) /\ HeldBy(n)' = HeldBy(n)
    BY <1>1, <2>1 DEF NodeOk, Carrying, HeldBy
  <2>5. ToRecord(n) => seen[n].ip \in Recovered(n)'
    BY <1>1, <2>1 DEF ToRecord, HeldBy, Recovered, AgentTypes
  <2>6. Recovered(n) \subseteq Recovered(n)'
    BY <1>1, <2>1 DEF Recovered, AgentTypes
  <2>7. Accounted(n)'
    <3>1. ToRecord(n) \/ Recovered(n) # {} => Recovered(n)' # {}
      BY <2>5, <2>6
    <3>2. Cardinality(HeldBy(n)) \in Nat /\ torn[n] \in Nat
      BY <1>1, FiniteHeld DEF AgentTypes
    <3> QED BY <1>1, <2>2, <2>4, <3>1, <3>2 DEF NodeOk, Accounted
  <2>8. \A x : Had(n, x)' = Had(n, x)
    BY <2>1, <2>2 DEF Had
  <2> QED BY <1>1, <2>1, <2>2, <2>3, <2>4, <2>7, <2>8 DEF NodeOk, Carrying, Had
<1>8. ASSUME EnsureDevice(n) PROVE Kept
  <2>1. Step(n, "device", "publish", seen[n]) /\ UNCHANGED <<held, handle, annotation>>
    BY <1>8 DEF EnsureDevice, cluster, ipam
  <2>2. seen[n].ip \in IPv4 /\ Had(n, seen[n].ip)
    BY <1>1, <2>1 DEF NodeOk, Carrying, Step
  <2> HIDE DEF Kept
  <2> QED BY <1>2, <2>1, <2>2
<1>9. ASSUME Publish(n) PROVE Kept
  <2>1. /\ Step(n, "publish", "vteps", None) /\ UNCHANGED <<held, handle>>
        /\ annotation' = [annotation EXCEPT ![n] = [ip |-> seen[n].ip, mac |-> device[n].mac]]
    BY <1>9 DEF Publish, ipam
  <2>2. /\ pc[n] = "publish" /\ pc'[n] = "vteps" /\ torn' = torn /\ lost' = lost
        /\ \A m \in Nodes \ {n} : pc'[m] = pc[m] /\ seen'[m] = seen[m]
        /\ DOMAIN pc' = Nodes /\ DOMAIN seen' = Nodes
    BY <1>1, <2>1, StepFacts
  <2>3. AgentTypes' /\ Own(n) /\ annotation'[n].ip = seen[n].ip
    BY <1>1, <2>1, <2>2 DEF AgentTypes, Own
  <2>4. seen[n].ip \in IPv4 /\ Had(n, seen[n].ip)
    BY <1>1, <2>2 DEF NodeOk, Carrying
  <2> QED BY <1>1, <2>1, <2>2, <2>3, <2>4
          DEF NodeOk, Accounted, ToRecord, HeldBy, Recovered, Had, Carrying
<1> QED BY <1>3, <1>4, <1>5, <1>6, <1>7, <1>8, <1>9

(* A failure at the handle record tears an IPv4 address off; no other step *)
(* of what goes wrong touches one.                                         *)
LEMMA FaultKeeps ==
    ASSUME AgentInv, NEW n \in Nodes, Fail(n) \/ Crash(n) \/ Reboot(n)
    PROVE  AgentTypes' /\ Own(n) /\ NodeOk(n)'
<1>1. AgentTypes /\ NodeOk(n)
  BY DEF AgentInv
<1> DEFINE off == IF pc[n] = "bump" /\ seen[n].ip \in IPv4 THEN 1 ELSE 0
<1>2. /\ UNCHANGED <<held, handle, annotation, lost>> /\ torn' = [torn EXCEPT ![n] = @ + off]
  BY DEF Fail, Crash, Reboot, Dies, Faulty, cluster, ipam
<1>3. /\ DOMAIN pc' = Nodes /\ DOMAIN seen' = Nodes
      /\ \A m \in Nodes \ {n} : pc'[m] = pc[m] /\ seen'[m] = seen[m]
      /\ pc'[n] \in {"down", "pools", "rest"}
  <2>1. CASE Crash(n) \/ Reboot(n)
    BY <1>1, <2>1 DEF Crash, Reboot, Dies, AgentTypes
  <2>2. CASE Fail(n) /\ pc[n] \in Startup
    BY <1>1, <2>2 DEF Fail, Retried, AgentTypes
  <2>3. CASE Fail(n) /\ pc[n] \notin Startup
    BY <1>1, <2>3 DEF Fail, AgentTypes
  <2> QED BY <2>1, <2>2, <2>3
<1>4. /\ torn' \in [Nodes -> Nat] /\ torn'[n] = torn[n] + off
      /\ \A m \in Nodes \ {n} : torn'[m] = torn[m]
  BY <1>1, <1>2 DEF AgentTypes
<1>5. AgentTypes' /\ Own(n)
  BY <1>1, <1>2, <1>3, <1>4 DEF AgentTypes, Own
<1>6. HeldBy(n)' = HeldBy(n) /\ Recovered(n)' = Recovered(n)
  BY <1>2 DEF HeldBy, Recovered
<1>7. Cardinality(HeldBy(n)) \in Nat /\ torn[n] \in Nat
  BY <1>1, FiniteHeld DEF AgentTypes
<1>8. ToRecord(n) => off = 1
  BY DEF ToRecord, HeldBy
<1>9. Accounted(n)'
  BY <1>1, <1>3, <1>4, <1>6, <1>7, <1>8 DEF NodeOk, Accounted
<1> QED BY <1>1, <1>2, <1>3, <1>5, <1>9 DEF NodeOk, Carrying, Had

(* The collector takes addresses away, and every one is written down as    *)
(* lost: when it takes the one that a node was to record or to recover,    *)
(* the node has one address less.                                          *)
LEMMA DeleteBlockKeeps ==
    ASSUME AgentInv, NEW b, NEW g, DeleteBlock(b, g) PROVE AgentInv'
<1> DEFINE inside == {a \in Addresses : BlockOf[a] = b /\ held[a] # None}
<1>1. /\ held' = [a \in Addresses |-> IF a \in inside THEN None ELSE held[a]]
      /\ lost' = lost \cup {<<held[a], a>> : a \in inside}
      /\ UNCHANGED <<pc, seen, annotation, handle, torn>>
  BY DEF DeleteBlock, process
<1>2. AgentTypes'
  BY <1>1 DEF AgentInv, AgentTypes
<1>3. ASSUME NEW n \in Nodes PROVE NodeOk(n)'
  <2>1. NodeOk(n) /\ torn[n] \in Nat
    BY DEF AgentInv, AgentTypes
  <2>2. \A a \in Addresses : held'[a] = n => held[a] = n
    BY <1>1, NodesAssumption
  <2>3. HeldBy(n)' \subseteq HeldBy(n) /\ Recovered(n)' \subseteq Recovered(n)
    BY <1>1, <2>2 DEF HeldBy, Recovered, IPv4
  <2>4. \A a : Had(n, a) => Had(n, a)'
    <3> SUFFICES ASSUME NEW a, Had(n, a) PROVE Had(n, a)'
      OBVIOUS
    <3>1. a \in Addresses
      BY DEF Had
    <3>2. CASE held[a] = n /\ a \in inside
      BY <1>1, <3>1, <3>2 DEF Had
    <3>3. CASE held[a] = n /\ a \notin inside
      BY <1>1, <3>1, <3>3 DEF Had
    <3>4. CASE <<n, a>> \in lost
      BY <1>1, <3>1, <3>4 DEF Had
    <3> QED BY <3>2, <3>3, <3>4 DEF Had
  <2> HIDE DEF inside
  <2>5. Accounted(n)'
    <3> DEFINE S == HeldBy(n)
               T == HeldBy(n)'
    <3>1. IsFiniteSet(S) /\ T \subseteq S
      BY <2>3, FiniteHeld
    <3>2. ToRecord(n)' => ToRecord(n)
      BY <1>1, <2>3 DEF ToRecord
    <3>3. CASE (ToRecord(n) \/ Recovered(n) # {}) => (ToRecord(n)' \/ Recovered(n)' # {})
      <4> HIDE DEF S, T
      <4>1. /\ IsFiniteSet(T) /\ Cardinality(T) <= Cardinality(S)
            /\ Cardinality(S) \in Nat /\ Cardinality(T) \in Nat
        BY <3>1, FS_Subset, FS_CardinalityType
      <4>2. Cardinality(S) <= torn[n] + (IF ToRecord(n) \/ Recovered(n) # {} THEN 1 ELSE 0)
        BY <2>1 DEF NodeOk, Accounted, S
      <4>3. Cardinality(T) <= torn[n] + (IF ToRecord(n)' \/ Recovered(n)' # {} THEN 1 ELSE 0)
        BY <2>1, <2>3, <3>2, <3>3, <4>1, <4>2
      <4> QED BY <1>1, <4>3 DEF Accounted, T
    <3>4. CASE (ToRecord(n) \/ Recovered(n) # {}) /\ ~ (ToRecord(n)' \/ Recovered(n)' # {})
      <4>1. PICK x \in S : x \notin T
        <5>1. CASE ToRecord(n)
          BY <1>1, <3>4, <5>1 DEF ToRecord
        <5>2. CASE Recovered(n) # {}
          BY <1>1, <3>4, <5>2 DEF Recovered, HeldBy
        <5> QED BY <3>4, <5>1, <5>2
      <4>2. Cardinality(S) <= torn[n] + 1
        BY <2>1, <3>4 DEF NodeOk, Accounted
      <4> HIDE DEF S, T
      <4>3. /\ IsFiniteSet(S \ {x}) /\ Cardinality(S \ {x}) = Cardinality(S) - 1
            /\ Cardinality(S) \in Nat
        BY <3>1, <4>1, FS_RemoveElement, FS_CardinalityType
      <4>4. IsFiniteSet(T) /\ Cardinality(T) <= Cardinality(S \ {x})
        <5>1. T \subseteq S \ {x}
          BY <3>1, <4>1
        <5> QED BY <4>3, <5>1, FS_Subset
      <4>5. Cardinality(T) <= torn[n]
        BY <2>1, <4>2, <4>3, <4>4, FS_CardinalityType
      <4> QED BY <1>1, <2>1, <3>4, <4>5 DEF Accounted, T
    <3> QED BY <3>3, <3>4
  <2> QED BY <1>1, <2>1, <2>3, <2>4, <2>5 DEF NodeOk
<1> QED BY <1>2, <1>3 DEF AgentInv

LEMMA InitAgent == Init => AgentInv
<1> SUFFICES ASSUME Init PROVE AgentInv
  OBVIOUS
<1>1. /\ DOMAIN pc = Nodes /\ DOMAIN seen = Nodes /\ DOMAIN annotation = Nodes
      /\ DOMAIN handle = Nodes /\ torn = [n \in Nodes |-> 0]
  BY DEF Init, Fresh, Used
<1>2. CASE Fresh
  <2>1. held = [a \in Addresses |-> None]
    BY <1>2 DEF Fresh
  <2>2. ASSUME NEW n \in Nodes PROVE NodeOk(n)
    <3>1. HeldBy(n) = {}
      BY <2>1, NodesAssumption DEF HeldBy, IPv4
    <3>2. pc[n] = "install" /\ annotation[n] = None
      BY <1>2 DEF Fresh
    <3> QED BY <1>1, <3>1, <3>2, FS_EmptySet DEF NodeOk, Accounted, Carrying
  <2> QED BY <1>1, <2>1, <2>2 DEF AgentInv, AgentTypes
<1>3. CASE Used
  <2> DEFINE VtepAt(a) == {n \in DOMAIN Published : Published[n].ip = a}
  <2>1. held = [a \in Addresses |-> IF VtepAt(a) = {} THEN None
                                    ELSE CHOOSE n \in VtepAt(a) : TRUE]
    BY <1>3 DEF Used
  <2>2. ASSUME NEW a \in Addresses, NEW n \in DOMAIN Published, Published[n].ip = a
        PROVE  held[a] = n
    <3>1. VtepAt(a) = {n}
      BY <2>2, PublishedAssumption
    <3> QED BY <2>1, <3>1
  <2>3. ASSUME NEW a \in Addresses
        PROVE  \/ held[a] = None
               \/ held[a] \in DOMAIN Published /\ Published[held[a]].ip = a
    BY <2>1
  <2>4. held \in [Addresses -> Nodes \cup {None}]
    <3>1. \A a \in Addresses : held[a] \in Nodes \cup {None}
      BY <2>3, PublishedAssumption
    <3> HIDE DEF VtepAt
    <3> QED BY <2>1, <3>1
  <2>5. ASSUME NEW n \in Nodes PROVE NodeOk(n)
    <3>1. pc[n] = "rest" /\ torn[n] = 0
      BY <1>1, <1>3 DEF Used
    <3>2. CASE n \in DOMAIN Published
      <4>1. Published[n].ip \in IPv4 /\ Published[n].ip \in Addresses
        BY <3>2, PublishedAssumption DEF IPv4
      <4>2. held[Published[n].ip] = n
        BY <2>2, <3>2, <4>1
      <4>3. HeldBy(n) = {Published[n].ip}
        BY <2>3, <4>1, <4>2, NodesAssumption DEF HeldBy, IPv4
      <4>4. handle[n] = {BlockOf[Published[n].ip]} /\ annotation[n] = Published[n]
        BY <1>3, <3>2 DEF Used
      <4>5. Recovered(n) # {}
        BY <4>1, <4>2, <4>4 DEF Recovered
      <4>6. Cardinality({Published[n].ip}) = 1
        BY FS_Singleton
      <4>7. Accounted(n)
        BY <3>1, <4>3, <4>5, <4>6 DEF Accounted
      <4> QED BY <3>1, <4>1, <4>2, <4>4, <4>7 DEF NodeOk, Carrying, Had
    <3>3. CASE n \notin DOMAIN Published
      <4>1. HeldBy(n) = {}
        BY <2>3, <3>3, NodesAssumption DEF HeldBy, IPv4
      <4>2. annotation[n] = None
        BY <1>3, <3>3 DEF Used
      <4> QED BY <3>1, <4>1, <4>2, FS_EmptySet DEF NodeOk, Accounted, Carrying
    <3> QED BY <3>2, <3>3
  <2> QED BY <1>1, <2>4, <2>5 DEF AgentInv, AgentTypes
<1> QED BY <1>2, <1>3 DEF Init

LEMMA NextAgent == AgentInv /\ [Next]_vars => AgentInv'
<1> SUFFICES ASSUME AgentInv, [Next]_vars PROVE AgentInv'
  OBVIOUS
<1>1. ASSUME NEW n \in Agents, Run(n) \/ Fail(n) \/ Crash(n) \/ Reboot(n) PROVE AgentInv'
  <2>1. n \in Nodes
    BY DEF Agents
  <2>2. AgentTypes' /\ Own(n) /\ NodeOk(n)'
    BY <1>1, <2>1, ElsewhereKeeps, EnsureLocalKeeps, FaultKeeps DEF Run, Elsewhere
  <2>3. \A m \in Nodes : m # n => NodeOk(m)'
    BY <2>1, <2>2, OthersOk DEF AgentInv
  <2> QED BY <2>2, <2>3 DEF AgentInv
<1>2. ASSUME UNCHANGED <<pc, seen, annotation, held, handle, torn, lost>> PROVE AgentInv'
  BY <1>2 DEF AgentInv, AgentTypes, NodeOk, Accounted, ToRecord, HeldBy, Recovered, Had
<1>3. ASSUME NEW p, OperatorPool(p) PROVE AgentInv'
  BY <1>2, <1>3 DEF OperatorPool, process, bounds, ipam
<1>4. ASSUME NEW b, NEW n, PodClaim(b, n) \/ PodBlock(b, n) PROVE AgentInv'
  BY <1>2, <1>4 DEF PodClaim, PodBlock, process, bounds
<1>5. ASSUME NEW b, NEW g, DeleteAffinity(b, g) PROVE AgentInv'
  BY <1>2, <1>5 DEF DeleteAffinity, process, bounds
<1>6. CASE UNCHANGED vars
  BY <1>2, <1>6 DEF vars, cluster, ipam, process, bounds
<1> QED BY <1>1, <1>3, <1>4, <1>5, <1>6, DeleteBlockKeeps DEF Next

(* The invariant of ensure_local: what a node holds, and what it carries,  *)
(* while the collector takes blocks away and IPv6 addresses come to        *)
(* nothing.                                                                *)
THEOREM AgentInvariant == Spec => []AgentInv
BY InitAgent, NextAgent, PTL DEF Spec

(* A node's tunnel handle has one IPv4 address and at most one more for    *)
(* every failure between the writes of the block and of the handle record, *)
(* and the address in the node's annotation is one of them or one that the *)
(* collector took away with its block.                                     *)
THEOREM TunnelAddressRecovered == Spec => []AddressRecovered
<1>1. AgentInv => AddressRecovered
  <2> SUFFICES ASSUME AgentInv, NEW n \in Nodes
               PROVE  /\ Cardinality(HeldBy(n)) <= 1 + torn[n]
                      /\ annotation[n] # None =>
                            annotation[n].ip \in IPv4 /\ Had(n, annotation[n].ip)
    BY DEF AddressRecovered, HeldBy, Had
  <2>1. NodeOk(n) /\ torn[n] \in Nat /\ Cardinality(HeldBy(n)) \in Nat
    BY FiniteHeld DEF AgentInv, AgentTypes
  <2> QED BY <2>1 DEF NodeOk, Accounted
<1> QED BY <1>1, AgentInvariant, PTL

(* The tunnel addresses that nodes publish and still have are distinct.    *)
VtepsDistinct ==
    \A m, n \in Nodes :
        m # n /\ annotation[m] # None /\ annotation[n] # None
              /\ annotation[m].ip = annotation[n].ip
        => <<m, annotation[m].ip>> \in lost \/ <<n, annotation[n].ip>> \in lost

(* No two nodes publish the same tunnel address, whatever passes fail and  *)
(* machines reboot (vxlan_reconcile.rs collects them by node), unless the  *)
(* collector deleted the block of one of them.                             *)
COROLLARY PublishedAddressesDistinct == Spec => []VtepsDistinct
<1>1. AgentInv => VtepsDistinct
  BY DEF AgentInv, NodeOk, Had, VtepsDistinct
<1> QED BY <1>1, AgentInvariant, PTL
=============================================================================
