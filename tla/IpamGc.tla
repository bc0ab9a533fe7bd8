------------------------------- MODULE IpamGc -------------------------------
(***************************************************************************)
(* The IPAM garbage collector of kube-controllers (crates/controllers)     *)
(* next to the CNI processes of KddIpam.  Every GC_INTERVAL it runs two    *)
(* passes, one API call per step:                                          *)
(*   gc_orphaned_allocations  releases the handles of allocations whose    *)
(*                            pod is not in the pod list it read first;    *)
(*   gc_orphaned_affinities   deletes the blocks and affinities of nodes   *)
(*                            that are not in the node list.               *)
(* An error ends the pass; the loop goes on with the next one.  The pause  *)
(* between passes has no length here: a pass may start at any time.        *)
(*                                                                         *)
(* Pods and nodes are objects of the Kubernetes API (external): a pod is   *)
(* created before its sandbox, may be deleted at any time, and may be      *)
(* created again under its name; a node registers, is deleted and          *)
(* registers again at any time, with its sandboxes running or not.         *)
(***************************************************************************)
EXTENDS KddIpam

CONSTANTS
    Pods,      \* pod names (namespace/name)
    PodOf,     \* the pod a sandbox belongs to, recorded in the attribute
    Gc,        \* the collector's process
    Mortal,    \* the nodes that join and leave
    Fragile    \* bound: the sandboxes whose commands may be cut short

ASSUME PodOfAssumption == PodOf \in [Handles -> Pods]
ASSUME GcAssumption == Gc \in Procs /\ Janitors = {Gc} /\ Mortal \subseteq Hosts

VARIABLES
    nodes, pods,  \* the Node and Pod objects that exist
    gpc,          \* step of the collector's loop
    live,         \* the pod names, or the node names, it has listed
    orphans,      \* handles it still has to release in this pass
    dead,         \* affinities it still has to reclaim in this pass
    touched,      \* those of them that were written since it listed them
    target,       \* the affinity it is reclaiming
    judged,       \* history: handles it has ever found orphaned
    joined,       \* history: nodes registered since it listed the nodes, in the
                  \* pass that works from that list
    wrecked,      \* history: handles with an address in a block it deleted
                  \* while another node owned the block
    unlisted      \* history: handles with an address in a block it deleted
                  \* for its owner, who was not there when nodes were listed

gcVars == <<gpc, live, orphans, dead, touched, target>>
clusterVars == <<nodes, pods>>
history == <<judged, joined, wrecked, unlisted>>
allVars == <<vars, clusterVars, gcVars, history>>

GcInit ==
    /\ Init
    /\ nodes \in {Hosts \ S : S \in SUBSET Mortal}
    /\ pods = {}
    /\ gpc = "list_pods"
    /\ live = {}
    /\ orphans = {}
    /\ dead = {}
    /\ touched = {}
    /\ target = None
    /\ judged = {}
    /\ joined = {}
    /\ wrecked = {}
    /\ unlisted = {}

-----------------------------------------------------------------------------
(* The cluster around the collector.                                       *)

CreatePod(pod) ==
    /\ pod \notin pods
    /\ \E h \in Handles :
          PodOf[h] = pod /\ status[h] = "new" /\ HostOf[h] \in nodes
    /\ pods' = pods \cup {pod}
    /\ UNCHANGED <<vars, nodes, gcVars, history>>

DeletePod(pod) ==
    /\ pod \in pods
    /\ pods' = pods \ {pod}
    /\ UNCHANGED <<vars, nodes, gcVars, history>>

DeleteNode(n) ==
    /\ n \in nodes \cap Mortal
    /\ nodes' = nodes \ {n}
    /\ UNCHANGED <<vars, pods, gcVars, history>>

(* The kubelet registers its node, for the first time or once more. *)
RegisterNode(n) ==
    /\ n \in Mortal \ nodes
    /\ nodes' = nodes \cup {n}
    /\ joined' = IF gpc \in {"list_affinities", "reclaim"}
                 THEN joined \cup {n} ELSE joined
    /\ UNCHANGED <<vars, pods, gcVars, judged, wrecked, unlisted>>

(* The kubelet of a node that exists starts ADD for a pod that exists.  A  *)
(* DEL may come at any time, or never when the node is gone.               *)
StartCni(p) ==
    /\ \E h \in Handles :
          \/ PodOf[h] \in pods /\ HostOf[h] \in nodes /\ BeginAdd(p, h)
          \/ BeginDel(p, h)
    /\ UNCHANGED <<clusterVars, gcVars, history>>

(* A CNI process goes on; an affinity it writes has changed under the      *)
(* collector, which still holds the version it listed.                     *)
RunCni(p) ==
    /\ p # Gc
    /\ Step(p) \/ (job[p] \in Fragile /\ Abandon(p))
    /\ touched' = touched \cup {x \in dead : affinities'[x] # affinities[x]}
    /\ UNCHANGED <<clusterVars, gpc, live, orphans, dead, target, history>>

-----------------------------------------------------------------------------
(* gc_orphaned_allocations                                                 *)

ListPods ==
    /\ gpc = "list_pods"
    /\ gpc' = "list_blocks"
    /\ live' = pods
    /\ UNCHANGED <<vars, clusterVars, orphans, dead, touched, target, history>>

(* The handles of allocations whose pod was not listed.  Slip: leaving out *)
(* the pods of nodes that are gone.                                        *)
OrphansOfLiveNodes ==
    {h \in Handles : /\ PodOf[h] \notin live /\ HostOf[h] \in nodes
                     /\ \E a \in Addresses : LeaseOf(a) = h}
OrphanedHandles ==
    {h \in Handles : /\ PodOf[h] \notin live
                     /\ \E a \in Addresses : LeaseOf(a) = h}

ListBlocks ==
    /\ gpc = "list_blocks"
    /\ gpc' = "release"
    /\ orphans' = OrphanedHandles
    /\ live' = {}
    /\ judged' = judged \cup orphans'
    /\ UNCHANGED <<vars, clusterVars, dead, touched, target, joined, wrecked,
                   unlisted>>

(* release_by_handle of the next orphan; its calls are Step(Gc). *)
ReleaseOrphan ==
    /\ gpc = "release" /\ pc[Gc] = "idle" /\ erred = {}
    /\ \E h \in orphans :
          /\ orphans' = orphans \ {h}
          /\ job' = [job EXCEPT ![Gc] = h]
    /\ Goto(Gc, "release_get")
    /\ UNCHANGED <<store, pass, cur, tries, copy, hcopy, todo, got, moved,
                   world, clusterVars, gpc, live, dead, touched, target,
                   history>>

ReleaseStep ==
    /\ gpc = "release"
    /\ Step(Gc)
    /\ UNCHANGED <<clusterVars, gcVars, history>>

(* Every orphan released, or the first error; then list the nodes. *)
ListNodes ==
    /\ gpc = "release" /\ pc[Gc] = "idle" /\ (orphans = {} \/ erred # {})
    /\ gpc' = "list_affinities"
    /\ orphans' = {}
    /\ erred' = {}
    /\ live' = nodes
    /\ UNCHANGED <<store, pc, local, moved, status, held, abandoned, abandons,
                   clusterVars, dead, touched, target, history>>

-----------------------------------------------------------------------------
(* gc_orphaned_affinities                                                  *)

(* Slip: taking every affinity for a dead node's. *)
AllAffinities == {x \in Hosts \X Blocks : affinities[x] # "absent"}
DeadAffinities ==
    {x \in Hosts \X Blocks : affinities[x] # "absent" /\ x[1] \notin live}

ListAffinities ==
    /\ gpc = "list_affinities"
    /\ gpc' = "reclaim"
    /\ dead' = DeadAffinities
    /\ touched' = {}
    /\ live' = {}
    /\ UNCHANGED <<vars, clusterVars, orphans, target, history>>

(* Reads the block that the next dead affinity names. *)
GetAffineBlock ==
    /\ gpc = "reclaim" /\ pc[Gc] = "idle"
    /\ \E x \in dead :
          /\ target' = x
          /\ cur' = [cur EXCEPT ![Gc] = x[2]]
          /\ Goto(Gc, IF blocks[x[2]] = Absent THEN "gc_delete_affinity"
                                               ELSE "gc_delete_block")
    /\ Read(Gc, "block")
    /\ UNCHANGED <<store, job, pass, tries, copy, hcopy, todo, got, world,
                   clusterVars, gpc, live, orphans, dead, touched, history>>

(* Deletes that block, whoever owns it and whatever is allocated in it, if *)
(* it is still the version just read; a failure is ignored.                *)
Tenants(b) == {h \in Handles : \E s \in Slots : LeaseOf(<<b, s>>) = h}

DeleteAffineBlock ==
    LET b == target[2]
        ours == blocks[b] # Absent /\ "block" \notin moved[Gc]
        owned == blocks[b].host = target[1]
        missing == target[1] \notin nodes \ joined
    IN  /\ pc[Gc] = "gc_delete_block"
        /\ \/ /\ ours
              /\ blocks' = [blocks EXCEPT ![b] = Absent]
              /\ wrecked' = IF owned THEN wrecked ELSE wrecked \cup Tenants(b)
              /\ unlisted' = IF owned /\ missing THEN unlisted \cup Tenants(b)
                                               ELSE unlisted
              /\ WroteBlock(Gc, b)
           \/ ~ours /\ UNCHANGED <<blocks, wrecked, unlisted, moved>>
        /\ Goto(Gc, "gc_delete_affinity")
        /\ UNCHANGED <<affinities, handles, local, world, clusterVars, gcVars,
                       judged, joined>>

(* Deletes the affinity if it is still the version listed; an error ends   *)
(* the pass.                                                               *)
DeleteAffinity ==
    LET ours == affinities[target] # "absent" /\ target \notin touched
    IN  /\ pc[Gc] = "gc_delete_affinity"
        /\ \/ /\ ours
              /\ affinities' = [affinities EXCEPT ![target] = "absent"]
              /\ WroteAffinity(Gc, target)
              /\ dead' = dead \ {target}
           \/ ~ours /\ dead' = {} /\ UNCHANGED <<affinities, moved>>
        /\ touched' = touched \ {target}
        /\ target' = None
        /\ Goto(Gc, "idle")
        /\ cur' = [cur EXCEPT ![Gc] = 1]
        /\ UNCHANGED <<blocks, handles, job, pass, tries, copy, hcopy, todo,
                       got, world, clusterVars, gpc, live, orphans, history>>

(* The pass is over; after GC_INTERVAL the loop starts again. *)
Sleep ==
    /\ gpc = "reclaim" /\ pc[Gc] = "idle" /\ dead = {}
    /\ gpc' = "list_pods"
    /\ joined' = {}
    /\ UNCHANGED <<vars, clusterVars, live, orphans, dead, touched, target, judged,
                   wrecked, unlisted>>

-----------------------------------------------------------------------------
GcLoop ==
    \/ ListPods \/ ListBlocks \/ ReleaseOrphan \/ ReleaseStep
    \/ ListNodes \/ ListAffinities \/ GetAffineBlock
    \/ DeleteAffineBlock \/ DeleteAffinity \/ Sleep

GcNext ==
    \/ \E pod \in Pods : CreatePod(pod) \/ DeletePod(pod)
    \/ \E n \in Hosts : DeleteNode(n) \/ RegisterNode(n)
    \/ \E p \in Procs : StartCni(p) \/ RunCni(p)
    \/ GcLoop

(* The collector's loop and every started CNI call go on. *)
GcFairness ==
    /\ WF_allVars(GcLoop)
    /\ \A p \in Procs \ {Gc} : WF_allVars(RunCni(p))

GcSpec == GcInit /\ [][GcNext]_allVars /\ GcFairness

-----------------------------------------------------------------------------
(***************************************************************************)
(* A sandbox keeps the address ADD gave it, through every interleaving of  *)
(* the collector with ADDs, DELs, and nodes and pods that come and go.     *)
(* Three exceptions, which do occur:                                       *)
(*   judged    its pod was created between the collector's list of pods    *)
(*             and its list of blocks (lib.rs:162);                        *)
(*   wrecked   its block was deleted on account of another node's affinity *)
(*             that named it (lib.rs:117);                                 *)
(*   unlisted  its block was deleted on account of its own node, which had *)
(*             gone, or was registered after the nodes were listed         *)
(*             (lib.rs:97) and claimed the block before the affinities     *)
(*             were (lib.rs:105).                                          *)
(* So a node that was listed and has not left loses nothing to the         *)
(* collector on its own account, whoever joins or leaves beside it.        *)
(***************************************************************************)
AddressesSurviveGc ==
    \A h \in Handles :
        held[h] # None /\ h \notin judged \cup wrecked \cup unlisted
        => LeaseOf(held[h]) = h

(***************************************************************************)
(* An allocation whose pod is gone is eventually freed, unless the pod     *)
(* comes back, provided its handle object covers it: release_by_handle     *)
(* finds no other (kdd.rs:287), and a call cut short between the writes of *)
(* the block and of the handle leaves such an orphan for ever.             *)
(***************************************************************************)
Orphaned(h) ==
    /\ PodOf[h] \notin pods /\ status[h] \in {"up", "failed", "gone"}
    /\ \E a \in Addresses : LeaseOf(a) = h
Covered(h) ==
    \A a \in Addresses :
        LeaseOf(a) = h => handles[h] # Absent /\ a[1] \in handles[h]
Reclaimed(h) == PodOf[h] \in pods \/ \A a \in Addresses : LeaseOf(a) # h

CoveredOrphansReclaimed ==
    \A h \in Handles : Orphaned(h) /\ Covered(h) ~> Reclaimed(h)

=============================================================================
