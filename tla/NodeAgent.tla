----------------------------- MODULE NodeAgent -----------------------------
(***************************************************************************)
(* The node agent: the installation of the CNI plugin on the host and the  *)
(* bootstrap of the datastore (crates/node), then the VXLAN overlay loop   *)
(* (crates/felix/vxlan_reconcile.rs, vxlan.rs), on each node against one   *)
(* datastore.  A step is a call to the datastore, or what a machine writes *)
(* to its own files or kernel in a row, which a failure may cut short; any *)
(* step may fail, and between any two the process may be restarted and the *)
(* machine rebooted.                                                       *)
(*                                                                         *)
(* A block has an owner, once it is written, and any number of affinities: *)
(* nodes that have claimed it, in any state.  The kernel's tables are one  *)
(* function: neighbours by address, forwarding entries by MAC and routes   *)
(* by block.  Nodes keep their own IP and are not deleted; of nodes that   *)
(* are gone there are affinities left, which the collector works off.      *)
(***************************************************************************)
EXTENDS Naturals, FiniteSets, FiniteSetsExt, SequencesExt, TLC

CONSTANTS NodeList,         \* the nodes in the order of their names
          Stopped,          \* nodes whose agent does not run
          Published,        \* [nodes -> VTEP [ip, mac]] in a cluster that is in use
          Gone,             \* names of nodes that are gone
          Later,            \* pools that the operator adds meanwhile
          Pools,            \* [names -> [blocks, six, len, encap, rank]]
          DefaultPool,      \* the name of the pool that the agent creates
          BlockOf,          \* [tunnel addresses (numbers) -> blocks]
          PodBlocks,        \* blocks that pods claim and the collector frees,
          PodNodes,         \* and the nodes where those pods run
          Underlay,         \* [Nodes -> their own IP]
          Mac,              \* [Nodes -> [boots -> MAC of the device made then]]
          MaxAttempts,      \* STARTUP_RETRY_MAX_ATTEMPTS
          MaxFaults,        \* bound on failures, restarts and reboots
          MaxClaims,        \* bound on claims of pods and deletions of blocks
          None

Nodes == Range(NodeList)
Agents == Nodes \ Stopped
Blocks == UNION {Pools[p].blocks : p \in DOMAIN Pools}
SixBlocks == UNION {Pools[p].blocks : p \in {q \in DOMAIN Pools : Pools[q].six}}
Addresses == DOMAIN BlockOf
IPv4 == {a \in Addresses : BlockOf[a] \notin SixBlocks}

ASSUME AddressesAssumption == Addresses \subseteq Nat /\ IsFiniteSet(Addresses)
ASSUME NodesAssumption == None \notin Nodes /\ Gone \cap Nodes = {}
ASSUME PublishedAssumption ==
    /\ DOMAIN Published \subseteq Nodes
    /\ \A m, n \in DOMAIN Published :
          Published[n].ip \in IPv4 /\ (Published[m].ip = Published[n].ip => m = n)

VARIABLES
    pools, info,            \* pools that exist; ClusterInformation
    annotation,             \* [Nodes -> published VTEP [ip, mac]]
    affinities,             \* BlockAffinity objects, <<node, block>>
    owner,                  \* [Blocks -> node in the affinity of the IPAMBlock]
    held,                   \* [Addresses -> node whose tunnel handle has it]
    handle,                 \* [Nodes -> blocks that the handle record names]
    pc, attempts, seen,     \* the process: its next call, failures, reads
    device, tables,         \* the kernel
    files,                  \* [Nodes -> files of the plugin on the host]
    boots, faults, claims, torn,
    lost                    \* history: <<node, address>> whose block was deleted

ipam == <<affinities, owner, held, handle>>
cluster == <<pools, info, annotation, ipam>>
kernel == <<device, tables, files>>
process == <<pc, attempts, seen>>
bounds == <<boots, faults, claims, torn>>
vars == <<process, cluster, kernel, bounds, lost>>

Step(n, from, to, read) ==
    /\ pc[n] = from
    /\ pc' = [pc EXCEPT ![n] = to] /\ seen' = [seen EXCEPT ![n] = read]
    /\ UNCHANGED <<bounds, lost>>

-----------------------------------------------------------------------------
(* main.rs: what the plugin needs, its configuration last; the binary is   *)
(* complete before it gets its name.  A machine's files and its kernel are *)
(* its own, so one step stands for all that is written to either in a row. *)

Plugin == <<"nodename", "binary", "kubeconfig", "conflist">>

\* record_nodename and install_cni: the first done of these files are written.
Installed(n, done) == files' = [files EXCEPT ![n] = @ \cup {Plugin[i] : i \in 1..done}]

InstallCni(n) ==
    /\ Step(n, "install", "pools", None) /\ Installed(n, Len(Plugin))
    /\ UNCHANGED <<cluster, device, tables, attempts>>

-----------------------------------------------------------------------------
(* startup.rs *)

ListPools(n) ==
    /\ Step(n, "pools", IF pools = {} THEN "create pool" ELSE "info", None)
    /\ UNCHANGED <<cluster, kernel, attempts>>

\* Losing the race to create it is as good as winning.
CreateDefaultPool(n) ==
    /\ Step(n, "create pool", "info", None) /\ pools' = pools \cup {DefaultPool}
    /\ UNCHANGED <<info, annotation, ipam, kernel, attempts>>

GetInfo(n) ==
    /\ Step(n, "info", CASE info = None -> "create info" [] info # None /\ info.ready -> "node"
                         [] OTHER -> "mark ready", info)
    /\ UNCHANGED <<cluster, kernel, attempts>>

CreateInfo(n) ==
    /\ Step(n, "create info", "node", None)
    /\ info' = IF info = None THEN [guid |-> n, ready |-> TRUE, rev |-> 1] ELSE info
    /\ UNCHANGED <<pools, annotation, ipam, kernel, attempts>>

\* A merge patch under the revision that was read.
MarkReady(n) ==
    /\ Step(n, "mark ready", "node", None) /\ info.rev = seen[n].rev
    /\ info' = [info EXCEPT !.ready = TRUE, !.rev = @ + 1]
    /\ UNCHANGED <<pools, annotation, ipam, kernel, attempts>>

\* The Node resource of this node, made if absent; then the loops start.
EnsureNode(n) ==
    /\ Step(n, "node", "rest", None) /\ attempts' = [attempts EXCEPT ![n] = 0]
    /\ UNCHANGED <<cluster, kernel>>

Startup == {"pools", "create pool", "info", "create info", "mark ready", "node"}

\* The whole bootstrap is retried, and after the last attempt the process exits.
Retried(n) ==
    LET last == attempts[n] + 1 >= MaxAttempts
    IN  /\ pc' = [pc EXCEPT ![n] = IF last THEN "down" ELSE "pools"]
        /\ attempts' = [attempts EXCEPT ![n] = IF last THEN 0 ELSE @ + 1]
        /\ seen' = [seen EXCEPT ![n] = None]

Conflict(n) ==
    /\ pc[n] = "mark ready" /\ info.rev # seen[n].rev
    /\ Retried(n) /\ UNCHANGED <<cluster, kernel, bounds, lost>>

Restarted(n) ==
    /\ Step(n, "down", "install", None)
    /\ UNCHANGED <<cluster, kernel, attempts>>

-----------------------------------------------------------------------------
(* vxlan_reconcile.rs, ensure_local *)

GetNode(n) ==
    /\ IF annotation[n] # None THEN Step(n, "rest", "device", [ip |-> annotation[n].ip])
       ELSE Step(n, "rest", "recover", None)
    /\ UNCHANGED <<cluster, kernel, attempts>>

\* ips_by_handle: what the blocks named by the handle record attribute to it; of
\* that, an IPv4 address is taken.
Recovered(n) == {a \in IPv4 : held[a] = n /\ BlockOf[a] \in handle[n]}

\* MUTANT of IpsByHandle.  Every pass without an annotation takes a new address.
NoRecovery(n) == /\ Step(n, "recover", "assign", [tried |-> {}])
                 /\ UNCHANGED <<cluster, kernel, attempts>>

IpsByHandle(n) ==
    /\ IF Recovered(n) # {} THEN Step(n, "recover", "device", [ip |-> Min(Recovered(n))])
       ELSE Step(n, "recover", "assign", [tried |-> {}])
    /\ UNCHANGED <<cluster, kernel, attempts>>

FirstPool == CHOOSE p \in pools : \A q \in pools : Pools[p].rank <= Pools[q].rank

\* Free addresses of blocks of this owner in the first pool.
FreeIn(o) == {a \in Addresses : /\ held[a] = None /\ owner[BlockOf[a]] = o
                                /\ BlockOf[a] \in Pools[FirstPool].blocks}

\* The next own block with a free address, else the next one without an owner, is
\* claimed: its affinity is written.
ClaimBlock(n) ==
    LET untried(o) == {a \in FreeIn(o) : BlockOf[a] \notin seen[n].tried}
        free == IF untried(n) # {} THEN untried(n) ELSE untried(None)
        b == BlockOf[Min(free)]
    IN  /\ pc[n] = "assign"
        /\ IF free = {} THEN Step(n, "assign", "rest", None) /\ UNCHANGED affinities
           ELSE /\ Step(n, "assign", "block", [block |-> b, tried |-> seen[n].tried \cup {b}])
                /\ affinities' = affinities \cup {<<n, b>>}
        /\ UNCHANGED <<pools, info, annotation, owner, held, handle, kernel, attempts>>

\* The write of the block, unless another node has become its owner: the affinity
\* then stays, and the next block is tried.
AssignFromBlock(n) ==
    LET b == seen[n].block
        free == {a \in Addresses : BlockOf[a] = b /\ held[a] = None}
    IN  /\ pc[n] = "block"
        /\ IF owner[b] \notin {None, n} \/ free = {}
           THEN Step(n, "block", "assign", [tried |-> seen[n].tried]) /\ UNCHANGED <<owner, held>>
           ELSE /\ Step(n, "block", "bump", [ip |-> Min(free)])
                /\ held' = [held EXCEPT ![Min(free)] = n]
                /\ owner' = [owner EXCEPT ![b] = n]
        /\ UNCHANGED <<pools, info, annotation, affinities, handle, kernel, attempts>>

\* The record of an IPv6 address is written like any other, and then the pass fails.
BumpHandle(n) ==
    /\ pc[n] = "bump"
    /\ IF seen[n].ip \in IPv4 THEN Step(n, "bump", "device", seen[n])
       ELSE Step(n, "bump", "rest", None)
    /\ handle' = [handle EXCEPT ![n] = @ \cup {BlockOf[seen[n].ip]}]
    /\ UNCHANGED <<pools, info, annotation, affinities, owner, held, kernel, attempts>>

\* A device that exists is kept, with its addresses and its MAC.
EnsureDevice(n) ==
    /\ Step(n, "device", "publish", seen[n])
    /\ device' = [device EXCEPT ![n] = [mac |-> IF @ = None THEN Mac[n][boots[n]] ELSE @.mac,
                                        addrs |-> (IF @ = None THEN {} ELSE @.addrs)
                                                  \cup {seen[n].ip}]]
    /\ UNCHANGED <<cluster, tables, files, attempts>>

\* MUTANT of Publish.  A node that has published is not published again.
PublishOnce(n) ==
    /\ Step(n, "publish", "vteps", None)
    /\ annotation' = [annotation EXCEPT ![n] = IF @ # None THEN @
                                               ELSE [ip |-> seen[n].ip, mac |-> device[n].mac]]
    /\ UNCHANGED <<pools, info, ipam, kernel, attempts>>

Publish(n) ==
    /\ Step(n, "publish", "vteps", None)
    /\ annotation' = [annotation EXCEPT ![n] = [ip |-> seen[n].ip, mac |-> device[n].mac]]
    /\ UNCHANGED <<pools, info, ipam, kernel, attempts>>

-----------------------------------------------------------------------------
(* vxlan_reconcile.rs, reconcile_remotes *)

CollectVteps(n) ==
    /\ Step(n, "vteps", "program", [vteps |-> annotation])
    /\ UNCHANGED <<cluster, kernel, attempts>>

\* The longest prefix decides; a block in no pool gets no route.
ResolveEncap(b, ps) ==
    LET around == {p \in ps : b \in Pools[p].blocks}
    IN  /\ around # {}
        /\ Pools[CHOOSE p \in around : \A q \in around : Pools[p].len >= Pools[q].len].encap

\* The calls to the kernel, in their order: entries of the nodes, then a route for
\* every affinity; affinities are listed by name, so by node and then by block.
Calls == LET blocks == SetToSeq(Blocks \ SixBlocks)
             entries(m) == <<[table |-> "neigh", of |-> m], [table |-> "fdb", of |-> m]>>
             routes(m) == [j \in DOMAIN blocks |->
                              [table |-> "route", of |-> m, block |-> blocks[j]]]
         IN  FlattenSeq([i \in DOMAIN NodeList |-> entries(NodeList[i])])
             \o FlattenSeq([i \in DOMAIN NodeList |-> routes(NodeList[i])])

\* The ones that are made: for peers that have published a VTEP.
Entries(n, vteps) ==
    LET made(c) == /\ c.of # n /\ vteps[c.of] # None
                   /\ c.table = "route" => /\ <<c.of, c.block>> \in affinities
                                           /\ ResolveEncap(c.block, pools)
    IN  SelectSeq(Calls, made)

\* Every entry is replaced and none removed: of several for one key the last decides.
Key(c, vtep) == CASE c.table = "neigh" -> <<"neigh", vtep.ip>>
                  [] c.table = "fdb" -> <<"fdb", vtep.mac>>
                  [] OTHER -> <<"route", c.block>>
Value(c, vtep) == CASE c.table = "neigh" -> vtep.mac [] c.table = "fdb" -> Underlay[c.of]
                    [] OTHER -> vtep.ip
Programmed(n, calls) ==
    \E keys \in {[i \in DOMAIN calls |-> Key(calls[i], seen[n].vteps[calls[i].of])]} :
        LET last(k) == Max({i \in DOMAIN keys : keys[i] = k})
        IN  tables' = [tables EXCEPT ![n] =
                [k \in Range(keys) |->
                    Value(calls[last(k)], seen[n].vteps[calls[last(k)].of])] @@ @]

\* Pools and affinities are read, and the calls made.
Program(n) ==
    /\ Step(n, "program", "rest", None)
    /\ \E calls \in {Entries(n, seen[n].vteps)} : Programmed(n, calls)
    /\ UNCHANGED <<cluster, device, files, attempts>>

-----------------------------------------------------------------------------
(* What goes wrong. *)

Faulty(n) == /\ faults < MaxFaults /\ faults' = faults + 1
             /\ torn' = [torn EXCEPT ![n] = @ + IF pc[n] = "bump" /\ seen[n].ip \in IPv4 THEN 1 ELSE 0]
             /\ UNCHANGED <<cluster, claims, lost>>

\* What goes wrong in the middle of such a step leaves the first part of it.
PartlyInstalled(n) ==
    IF pc[n] = "install" THEN \E done \in 0..Len(Plugin) : Installed(n, done)
    ELSE UNCHANGED files
PartlyProgrammed(n) ==
    IF pc[n] = "program"
    THEN \E calls \in {Entries(n, seen[n].vteps)} :
            \E done \in 0..Len(calls) : Programmed(n, SubSeq(calls, 1, done))
    ELSE UNCHANGED tables
CutShort(n) == PartlyInstalled(n) /\ PartlyProgrammed(n) /\ UNCHANGED <<device, boots>>

\* The plugin cannot be installed: the process exits.  A call fails: the bootstrap
\* is retried, a pass of the loop ends until the next one.
Fail(n) ==
    /\ pc[n] \notin {"rest", "down"} /\ Faulty(n) /\ CutShort(n)
    /\ IF pc[n] \in Startup THEN Retried(n)
       ELSE /\ pc' = [pc EXCEPT ![n] = IF @ = "install" THEN "down" ELSE "rest"]
            /\ seen' = [seen EXCEPT ![n] = None] /\ UNCHANGED attempts

Dies(n) == /\ Faulty(n)
           /\ pc' = [pc EXCEPT ![n] = "down"] /\ seen' = [seen EXCEPT ![n] = None]
           /\ attempts' = [attempts EXCEPT ![n] = 0]

Crash(n) == pc[n] # "down" /\ Dies(n) /\ CutShort(n)

Reboot(n) == /\ Dies(n) /\ boots' = [boots EXCEPT ![n] = @ + 1]
             /\ device' = [device EXCEPT ![n] = None]
             /\ tables' = [tables EXCEPT ![n] = << >>] /\ PartlyInstalled(n)

(* The operator's pools, the claims of pods, and the collector. *)
OperatorPool(p) ==
    /\ p \notin pools /\ pools' = pools \cup {p}
    /\ UNCHANGED <<info, annotation, ipam, kernel, process, bounds, lost>>

\* A CNI process writes its node's affinity, of a block that it saw without an owner,
PodClaim(b, n) ==
    /\ claims < MaxClaims /\ claims' = claims + 1
    /\ owner[b] = None /\ <<n, b>> \notin affinities
    /\ \E p \in pools : b \in Pools[p].blocks
    /\ affinities' = affinities \cup {<<n, b>>}
    /\ UNCHANGED <<pools, info, annotation, owner, held, handle, kernel, process, boots,
                   faults, torn, lost>>

\* and then the block.
PodBlock(b, n) ==
    /\ <<n, b>> \in affinities /\ owner[b] = None /\ owner' = [owner EXCEPT ![b] = n]
    /\ UNCHANGED <<pools, info, annotation, affinities, held, handle, kernel, process,
                   bounds, lost>>

\* The collector deletes a block that the affinity of a node that is gone names,
\* whoever owns it, with all its addresses,
DeleteBlock(b, g) ==
    LET inside == {a \in Addresses : BlockOf[a] = b /\ held[a] # None}
    IN  /\ claims < MaxClaims /\ claims' = claims + 1
        /\ <<g, b>> \in affinities /\ owner[b] # None
        /\ owner' = [owner EXCEPT ![b] = None]
        /\ held' = [a \in Addresses |-> IF a \in inside THEN None ELSE held[a]]
        /\ lost' = lost \cup {<<held[a], a>> : a \in inside}
        /\ UNCHANGED <<pools, info, annotation, affinities, handle, kernel, process, boots,
                       faults, torn>>

\* and the affinity, also when it could not read or delete the block.
DeleteAffinity(b, g) ==
    /\ <<g, b>> \in affinities /\ affinities' = affinities \ {<<g, b>>}
    /\ UNCHANGED <<pools, info, annotation, owner, held, handle, kernel, process, bounds, lost>>

-----------------------------------------------------------------------------
Run(n) == \/ InstallCni(n) \/ ListPools(n) \/ CreateDefaultPool(n) \/ GetInfo(n) \/ CreateInfo(n)
          \/ MarkReady(n) \/ Conflict(n) \/ EnsureNode(n) \/ Restarted(n)
          \/ GetNode(n) \/ IpsByHandle(n) \/ ClaimBlock(n) \/ AssignFromBlock(n) \/ BumpHandle(n)
          \/ EnsureDevice(n) \/ Publish(n) \/ CollectVteps(n) \/ Program(n)

\* A fresh cluster, whose ClusterInformation somebody else may have made; or one in
\* which the operator has made a pool, the agents have started on machines that were
\* rebooted, some nodes have published VTEPs (from that pool, or from one deleted
\* since) and others are gone.
Fresh == /\ pools = {} /\ claims = MaxClaims
         /\ info \in {None, [guid |-> None, ready |-> FALSE, rev |-> 1]}
         /\ pc = [n \in Nodes |-> "install"] /\ files = [n \in Nodes |-> {}]
         /\ annotation = [n \in Nodes |-> None] /\ device = [n \in Nodes |-> None]
         /\ affinities = {} /\ owner = [b \in Blocks |-> None]
         /\ held = [a \in Addresses |-> None] /\ handle = [n \in Nodes |-> {}]

Used == LET VtepAt(a) == {n \in DOMAIN Published : Published[n].ip = a}
            OwnerOf(b) == {n \in DOMAIN Published : BlockOf[Published[n].ip] = b}
        IN  /\ \E p \in DOMAIN Pools \ Later : pools = {p} /\ claims = 0
            /\ info = [guid |-> None, ready |-> TRUE, rev |-> 1]
            /\ pc = [n \in Nodes |-> "rest"] /\ files = [n \in Nodes |-> Range(Plugin)]
            /\ annotation = [n \in Nodes |-> IF n \in DOMAIN Published THEN Published[n] ELSE None]
            /\ device = [n \in Nodes |-> IF n \notin Stopped \cap DOMAIN Published THEN None
                           ELSE [mac |-> Published[n].mac, addrs |-> {Published[n].ip}]]
            /\ held = [a \in Addresses |-> IF VtepAt(a) = {} THEN None
                                           ELSE CHOOSE n \in VtepAt(a) : TRUE]
            /\ handle = [n \in Nodes |-> IF n \in DOMAIN Published
                                         THEN {BlockOf[Published[n].ip]} ELSE {}]
            /\ \E left \in [PodBlocks -> Gone \cup {None}] :
                  owner = [b \in Blocks |-> IF b \in PodBlocks THEN left[b]
                                            ELSE IF OwnerOf(b) = {} THEN None
                                            ELSE CHOOSE n \in OwnerOf(b) : TRUE]
            /\ affinities = (Gone \X PodBlocks) \cup
                            {<<n, BlockOf[Published[n].ip]>> : n \in DOMAIN Published}

Init ==
    /\ Fresh \/ Used
    /\ attempts = [n \in Nodes |-> 0]
    /\ seen = [n \in Nodes |-> None]
    /\ tables = [n \in Nodes |-> << >>]
    /\ boots = [n \in Nodes |-> 1] /\ torn = [n \in Nodes |-> 0]
    /\ faults = 0 /\ lost = {}

Next == \/ \E n \in Agents : Run(n) \/ Fail(n) \/ Crash(n) \/ Reboot(n)
        \/ \E p \in Later : OperatorPool(p)
        \/ \E b \in PodBlocks, n \in PodNodes : PodClaim(b, n) \/ PodBlock(b, n)
        \/ \E b \in PodBlocks, g \in Gone : DeleteBlock(b, g) \/ DeleteAffinity(b, g)

\* The runtime polls the loop of a running process and the kubelet restarts it.
Spec == Init /\ [][Next]_vars /\ \A n \in Agents : WF_vars(Run(n))

-----------------------------------------------------------------------------
(***************************************************************************)
(* A node's tunnel handle never has a second IPv4 address, however often   *)
(* the pass fails, the process dies or the machine reboots between taking  *)
(* an address and publishing it; and what is published is the node's own.  *)
(* Exceptions: a failure between the write of the block and that of the    *)
(* handle record leaves an address that the recovery does not see          *)
(* (kdd.rs:142), one for each time it happens; an address is lost when the *)
(* collector deletes its block, and stays published.  IPv6 addresses are   *)
(* not bounded: while the first pool is an IPv6 one, every pass takes      *)
(* another (vxlan_reconcile.rs:145).                                       *)
(***************************************************************************)
AddressRecovered ==
    \A n \in Nodes :
        /\ Cardinality({a \in IPv4 : held[a] = n}) <= 1 + torn[n]
        /\ annotation[n] # None => /\ annotation[n].ip \in IPv4
                                    /\ \/ held[annotation[n].ip] = n
                                       \/ <<n, annotation[n].ip>> \in lost

\* A packet for the block finds its way from n to the owner's device.
Reaches(n, b) ==
    LET m == owner[b]
        t == tables[n]
        found(key) == key \in DOMAIN t
    IN  /\ device[m] # None /\ found(<<"route", b>>)
        /\ LET via == t[<<"route", b>>]
           IN  /\ via \in device[m].addrs /\ found(<<"neigh", via>>)
               /\ t[<<"neigh", via>>] = device[m].mac
               /\ found(<<"fdb", device[m].mac>>) /\ t[<<"fdb", device[m].mac>>] = Underlay[m]

\* n has a VTEP, or can get one.
Served(n) == \/ annotation[n] # None
             \/ n \in Agents /\ (Recovered(n) \cup FreeIn(n) \cup FreeIn(None)) \cap IPv4 # {}

\* No third node that n knows claims the block, and nobody else has the owner's VTEP.
Uncontested(n, b) ==
    \A m \in Nodes \ {owner[b]} :
        annotation[m] # None =>
            /\ m # n => <<m, b>> \notin affinities
            /\ annotation[owner[b]] # None => annotation[m].ip # annotation[owner[b]].ip

(***************************************************************************)
(* Once failures and changes cease, every agent has the whole plugin and   *)
(* reaches every block of another node in an encapsulating IPv4 pool, and  *)
(* the datastore is marked ready: a rebooted node's new MAC and a block's  *)
(* new owner reach all peers.  Exceptions: a node gets no VTEP from an     *)
(* IPv6 pool; of several nodes with an affinity to a block, in whatever    *)
(* state, the last one listed gets the route, be it the owner or a node    *)
(* that lost the race for the block (vxlan_reconcile.rs:171); and a VTEP   *)
(* may have been assigned again after the collector deleted its block.     *)
(***************************************************************************)
Settled ==
    /\ info # None /\ info.ready
    /\ \A n \in Agents : files[n] = Range(Plugin)
    /\ \A n \in Agents, b \in Blocks \ SixBlocks :
          /\ owner[b] \in Nodes \ {n} /\ ResolveEncap(b, pools)
          /\ Served(n) /\ Served(owner[b]) /\ Uncontested(n, b)
          => Reaches(n, b)
OverlayConverges == <>[]Settled
=============================================================================
