# Formal model of calico-rs

TLA+ specifications of the parts of calico-rs in which state is shared, kept,
repaired or derived in more than one way, the TLC instances that check them,
and TLAPS proofs for the core. The reference is the source under `src/crates`;
every definition is translated from it, and `PROJECT.json` names the lines each
definition stands for.

## 1. The system

calico-rs is a Rust implementation of Calico for Kubernetes. Components,
their state, their operations and what makes them correct:

| component | state | operations | correct when |
|---|---|---|---|
| `ipam/block.rs` allocation block | allocations, FIFO free list, interned attribute table, sequence numbers | auto_assign, assign, release (guarded), release_by_handle, mark_deleted | no address lost or given twice; a late guarded release frees nothing new; other owners untouched |
| `ipam/kdd.rs` driver | IPAMBlock, BlockAffinity, IPAMHandle objects in the Kubernetes API | assign, ips_by_handle, release_by_handle | one holder per address across nodes, strict affinity, the handle object finds every allocation |
| `ipam/allocate.rs` and helpers | affinities, blocks and handles in a compare-and-swap store | claim, assign, release_affinity | a confirmed affinity owns its block; blocks and handle index agree |
| `controllers` garbage collection | none of its own; lists pods, nodes, blocks, affinities | two passes per interval | frees what is dead, and only that |
| `cni` plugin | WorkloadEndpoint objects, host lock, veths, addresses | ADD, DEL, CHECK | a late DEL does not harm the successor; ADD may be repeated |
| `datastore` backends | objects with resource versions; soft deletion marks | get, list, create, update, delete, apply | compare-and-swap: no lost update |
| `datastore` syncers, update processors | per-kind caches and one merged status | list, watch, resync, convert | every deletion missed while disconnected is reported; in-sync only after all kinds |
| `calc` graph | active rules, label index, policy order, IP sets, pending batch | on_policy, on_endpoint, ..., flush | events reach the dataplane in dependency order, and as a whole equal the datastore |
| `calc` policy evaluation, selectors, scoping; `datastore/conversion` | none | evaluate, parse, match, convert | the verdict equals what the rendered rules do, and what Kubernetes means |
| `reconcile` trackers | desired and dataplane views | set, delete, apply | after a successful apply the two are equal; after a partial failure the difference is known |
| `felix` agent and managers | endpoints, routes, VXLAN tunnels, IP sets | update, complete deferred work, resync | dataplane converges to the graph's output |
| `felix` rendering | none | chains, sets, overlay programming | packets meet the rules in the policies' order |
| `node` startup and overlay | files on the host, pools, ClusterInformation, Node object, tunnel address | install, bootstrap, reconcile | one tunnel address per node; every node reaches every block |
| `calicoctl` | none | create, apply, delete, label, get | no write over what was not read |
| `apis`, `proto`, `typha`, `bgp`, `felix-ebpf` | types or stubs | | |

Interaction. CNI processes (one per command), the node agents, calicoctl and
the collector share the datastore only; every call to it is atomic and
everything between two calls may be overtaken. Inside Felix a syncer feeds the
calculation graph, the graph an event sequencer, the sequencer the managers,
and the managers write to the kernel through the trackers; those are calls on
one thread, next to a task that watches.

Hard behaviours: compare-and-swap conflicts and whole-flow retries; crashes and
errors between the writes of one logical change (affinity, block, handle);
stale reads acted on later (block owner, pod list, endpoint owner); release
guards and reuse of addresses; lists and watches that lose their connection;
batches that mix removals and additions; rounds of kernel writes that fail half
way; one decision computed in several places (evaluator, chains, the meaning of
the Kubernetes object). They are listed line by line under `hazards` in
`PROJECT.json`.

## 2. Modules

| module | models | composes or implements |
|---|---|---|
| `AddressLease` | abstract promise: an address is free or leased to one holder | |
| `IpamBlock` | `ipam/src/block.rs` | implements `AddressLease` |
| `KddIpam` | `ipam/src/kdd.rs` over `datastore/src/kdd.rs`, driven by CNI ADD and DEL | implements `AddressLease` |
| `IpamGc` | `controllers` garbage collection | with `KddIpam` |
| `CasStore` | `datastore/src/cas.rs`, `mem.rs`: the compare-and-swap contract | |
| `KddStore` | calicoctl, `Backend::update` and `apply`, soft deletion: writers of the datastore | on `CasStore` |
| `UpdateProcessors` | `datastore/src/updateprocessors`: v3 to v1 | |
| `Syncers` | `syncer.rs`, `watchersyncer.rs`, `syncers.rs` and a consumer | `KddStore`, `UpdateProcessors` |
| `IpamStore` | `ipam/src/allocate.rs`, `affinity.rs`, `handle.rs`, `config.rs` | on `CasStore` |
| `CniWorkload` | `cni`: ADD and DEL processes, endpoints, veths, host lock | on `CasStore`; addresses atomic, as `AddressLease` allows |
| `CalcGraph` | `calc`: graph, active rules, policy resolver | |
| `EventSequencer` | `calc/src/event_sequencer.rs` | on `CalcGraph` |
| `PolicyAgent` | `felix`: policy agent, dataplane loop, table manager; `datastore` watches | composes the two |
| `LabelIndex` | `calc/src/labelindex.rs` and a consumer of its deltas | for any selectors; `MCLabelIndex` gives it those of `Selectors` |
| `Selectors` | `calc/src/selector.rs`: evaluation, prefixing, canonical text, parser | |
| `PolicyEval` | `calc/src/from_resources.rs`, `policy_eval.rs` | on `Selectors` |
| `K8sPolicy` | `datastore/src/conversion`, `calc/src/scope.rs`, `k8s_policy.rs` | on `PolicyEval` |
| `PolicyRender` | rules of `active_rules.rs`, chains of `felix/src/endpoint_manager.rs` | on `K8sPolicy` |
| `PolicyPipeline` | resources in, packets through: adapter, scoping, chains, nft's traversal | composes the five |
| `DeltaTracker` | `reconcile/src/delta_tracker.rs` | |
| `RouteDataplane` | `felix/src/dataplane.rs`, `route_manager.rs` | on `DeltaTracker` |
| `NodeAgent` | `node/src/main.rs`, `startup.rs`, `retry.rs`; `felix/src/vxlan_reconcile.rs`, `vxlan.rs` | |
| `IpamBlockProofs`, `KddIpamProofs` (with `IpamGc`), `RouteDataplaneProofs`, `IpamStoreProofs`, `CniWorkloadProofs`, `PolicyAgentProofs` (with `LabelIndex`), `SyncersProofs` (with `KddStore`), `NodeAgentProofs` | theorems about the modules they name | |
| `MC...` | instances for TLC | |

### IpamBlock

One block. `allocations`, `unallocated`, `attributes`, `sequence_number`,
`seq_at`, `deleted` are the fields of `AllocationBlock`; an ordinal stands for
an address, and `Some(i)` is `i + 1`. One action per method. `auto_assign`'s
loop over the free list is given by the positions it pops and takes;
`compact_attributes` by the first references. `tickets` are the guards
`(ordinal, sequence number)` that scanners hold between reading a block and
releasing from it, and `outdated` remembers which of them have been overtaken.
The attribute's `deleted` mark does not change what the methods do, so it only
bumps the counter here.

### KddIpam

Processes that execute ADD (`ips_by_handle`, then the walk over the pool with
`try_assign`) and DEL (`release_by_handle`) one backend call per step. The
process's local variables are the locals of the Rust functions: `copy` and
`hcopy` the objects read, `todo` the handle's blocks, `pass` and `cur` the
position in the two-pass walk, `tries` the retry counter, `got` the address
written but not yet returned. A resource version is only compared for equality
with the one read, so `moved[p]` holds the kinds of object of which `p`'s
version is out of date. `Retry` restarts the flow as `DATASTORE_RETRIES` loops
do; `Fail` is an error returned to the caller: ADD fails, and DEL ignores it.
`Abandon` cuts a call short anywhere: the process dies or the API server
answers with an error that is not a conflict. A block is reduced to owner and
handle per slot: which slot the FIFO hands out (modelled in `IpamBlock`) is a
free choice here. The container runtime runs one command per sandbox at a time,
repeats a failed ADD at most by choice, and issues DEL after an ADD.

### IpamGc

`KddIpam` plus the collector process, the pods and the nodes. The collector
reads the pod list, then the blocks, releases each orphaned handle by running
the release steps of `KddIpam` itself, reads the node list, then the
affinities, and deletes block and affinity of each dead node with the versions
it has. Pods are created and deleted, and nodes register, go and register again
at any moment (external); the sandboxes and commands of a node that goes are
not affected by that. Three history variables name the sandboxes that may lose
their address: `judged` those whose pod came between the lists of pods and
blocks, `wrecked` those in a block deleted for another node's affinity,
`unlisted` those in a block deleted for its own node, which had gone or
registered after the nodes were listed (findings 2, 3 and 19). `joined` are the
nodes registered since that list.

### CasStore and KddStore

`CasStore` is the contract: one object with one revision per key, one counter
for all keys, as in `MemStore` and in the API server. A refused call changes
nothing, so only calls that succeed are operators. `KddStore` adds the writers:
each request reads first and writes later (`Get`, then `PostObject`,
`ReplaceObject`, `DeleteObject`, `SoftDelete`, `HardDelete`, or `PatchLabels`,
which is one call), other writers run in between, and a writer may crash
(`Crash`). A replaced object loses its labels, as the body the code sends has
none.

### UpdateProcessors and Syncers

`Process` is `process_keys` of the four kinds with a processor. In `Syncers`
each kind's watch lists a snapshot (`StartList`, `InitApply`, `InitDone` with
its synthetic deletions) and follows the changes made since (`Live`); `Desync`
loses the connection at any point. `known` is the watch's memory, `statuses`
what `Combined` announced, `mirror` and `v1` what the two consumers hold.
`abandoned` are v1 keys that an update left behind (finding 10), `disputed`
those that two resources convert to.

### IpamStore

The claim, release and assignment of `allocate.rs`, one store call per step,
by processes of several hosts. `walk` is the position in the passes of
`auto_assign`, `read` the versions held for the next write. `Interrupted` ends
a call anywhere: a conflict, an error or a crash. `torn`, `trespassed` and
`reborn` are history variables for the named exceptions: `trespassed` are the
blocks deleted by a host that did not own them or by a release whose affinity
no longer said `PendingDeletion`. The store may start with anything the
protocol could have left (`StartAssumption`).

### CniWorkload

ADD and DEL processes of a pod that is created twice under one name, and of
another pod. `add[s]` and `del[d]` hold the process's position and locals,
`veth` the host interfaces (owner, index, the set-up steps done), `host_lock`
the file lock, `life` the sandbox as the runtime sees it. `FailAdd` and
`FailDel` cut a process off or let a call fail; `swallowed` are the DELs that
went on after an error they ignore, `raced` the sandboxes exposed by finding 11.

### CalcGraph

Pure operators, one per handler: each takes a graph and returns it with the
deltas of the update, as `CalcGraph::on_update` does. The fields are those of
the struct and of the components it owns; what three components each cache of a
local endpoint (its effective labels) is one field, since every handler writes
all three. `Scan` is `reconcile_owner` for all the owners of one stage of
`recompute`; stages keep the code's order (policies on, policies off, profiles
on, profiles off), which is what decides the edges of the reference counts.
Data is reduced to one label key, selectors to sets of values, rules to opaque
bodies that name IP sets.

### EventSequencer

`Ingest` is the five steps of `ingest`, `Flush` the messages of `flush_into` in
their order, `Flushed` the buffers and sent-sets afterwards.

### PolicyAgent

The agent as a whole. `known` is the watch's memory of what it delivered:
an update of an object is delivered when store and memory differ, deletions
that were missed come at the end of a list. `Deliver` is one turn of the watch
loop (adapter, graph, sequencer, channel), `Receive` and `Apply` the turns of the
dataplane loop; `table` is the manager's desired state, `applied` the cached
document, `kernel` the table in force. nft accepts a document exactly when
every set it matches on is declared (jumps always resolve, by stubs).
`crossed` and `retiered` are history variables: they mark the two kinds of
update after which the invariants are known to fail (findings 5 and 6), so
that the passing run shows that there is no third.

### LabelIndex

What `CalcGraph` takes as a set comprehension, as the code computes it: items
with labels, parents and members, reference counts per selector (a bag), and deltas
applied by a consumer in the order they are emitted. The index calls
`selector.matches` and knows nothing else of a selector, so `SelectorMatches` is a
parameter of the module, which the run fills in with the evaluation of `Selectors`.

### Selectors, PolicyEval, K8sPolicy, PolicyRender, PolicyPipeline

Pure operators, and a state machine over them. A selector's text is a sequence
of tokens and is parsed again wherever the code parses it, so precedence and
missing parentheses matter; the characters of keys and values do not.
`PolicyEval` is the decision engine (`Evaluate`, `EvaluateTraced`) and
`from_resources.rs` that feeds it. `K8sPolicy` is the conversion of Kubernetes
objects and the confinement of selectors to namespaces. `PolicyRender` makes
the chains. In `PolicyPipeline` a step installs or withdraws a resource
(adapter and graph), a packet starts, and each further step is one nft rule
tried by the packet (`chain`, `rule` and the stack of returns are its
position) until a verdict.

### DeltaTracker and RouteDataplane

`DeltaTracker` is a pair of functions and the work between them.
`RouteDataplane` is the loop with its throttle, first apply held back until
InSync, retry with back-off, and the route manager: `updates` and `deletions`
are the work of the round that runs, each kernel operation is a step, and a
failure ends the round. `stale` marks prefixes whose kernel route the manager
does not know or does not change (a restart, a route without gateway),
`aliased` prefixes desired under two spellings.

### NodeAgent

The nodes' processes: install, bootstrap and overlay pass, one datastore call
per step, with lost races, bounded retries of the bootstrap, failures, restarts
and reboots (a new MAC, empty tables; files and datastore stay). What a machine
writes to its own files (`InstallCni`) or kernel (`Program`) in a row is one
step, because nobody else sees it; a failure leaves any first part of it
(`CutShort`). A block has an owner, and affinities of any number of nodes: the
agent, and the CNI processes of `PodNodes`, write the affinity first
(`ClaimBlock`, `PodClaim`) and the block later (`AssignFromBlock`, `PodBlock`),
so the race for a block leaves its loser's affinity. The collector deletes
block (`DeleteBlock`) and affinity (`DeleteAffinity`) of nodes that are gone,
with the tunnel addresses in the block; `lost` remembers those. Pools have a
family: an address of an IPv6 pool is assigned and recorded, and then the pass
fails (`BumpHandle`). `Entries` are the calls of `reconcile_remotes` in their
order, one route for each affinity, and `Programmed` the tables after them,
where the last call for a key decides. A run starts from a fresh cluster
(`Fresh`) or from one in use, with published VTEPs and leftovers (`Used`).

## 3. Runs

| run | question | result |
|---|---|---|
| `ipam_block` | do all method sequences keep a block consistent? | holds |
| `kdd_ipam` | do interleaved ADDs and DELs, conflicts, exhausted retries and one cut call keep addresses unique, owned and recorded? | holds |
| `ipam_gc` | what does the collector endanger, and does it reclaim? | holds, findings 2 to 4 and 19 excluded by name |
| `policy_agent` | do graph, table and kernel follow the datastore, whatever the order of arrival, a change, a lost watch or a restart? | holds, with the exceptions `crossed` and `retiered` |
| `syncers` | do consumers end up with what the datastore holds, and is InSync true when it is announced? Is a write ever lost? | holds, with `abandoned` and `disputed` keys |
| `cni_workload` | does a running pod survive late DELs, failures and kills, and what does a clean DEL leave? | holds, with `raced` and `swallowed` |
| `route_dataplane` | is the kernel right when nothing is owed, and does it get there? | holds, with `stale`, `aliased` and gateways that are no address |
| `policy_pipeline` | do the chains decide what evaluator and Kubernetes decide? | holds, with the exceptions the properties list |
| `policy_names` | do policies of one name in two namespaces both apply? | violated (finding 1) |
| `label_index` | are the deltas exactly the membership? | holds |
| `node_agent` | is a tunnel address taken once, and does the overlay converge? | holds, with findings 12, 20 and 21 excluded by name |
| `ipam_store` | does a confirmed affinity own its block, and do the handles count what blocks hold? | holds, with finding 16 excluded by name |

Bounds, and why they are enough.

- `ipam_block`: 3 addresses, 3 handles (symmetric), counter below 5, one
  ticket; three is the least number for which a first, a middle and a last
  reference can be compacted, and for which a skipped and a kept ordinal can
  straddle a taken one.
- `kdd_ipam`: 2 nodes, 3 sandboxes (two on one node), 2 blocks of 2 slots,
  2 processes, 1 cut call. `Retries` is 3 where the source has 10: with two
  processes 10 are never used up and 3 are, so the giving-up path is reached.
- `ipam_gc`: one pod that has run on one node and runs on another under its
  name, with its two sandboxes; one block, which both nodes can claim; one of
  the nodes comes and goes without bound (`Mortal`); the source's 10 retries;
  1 cut call, of the second sandbox (`Fragile`). With one CNI process next to
  the collector each can still be overtaken between any two calls. Each of the
  three exceptions occurs: the property without any one of them is violated.
- `policy_agent`: two policies, a profile, two endpoints, two tiers of which one
  has a Tier object, two IP sets; the initial lists arrive in every order, and
  one object changes or goes at any moment, next to one lost watch or one
  restart. Two policies and a profile suffice for a set to be shared, dropped
  and taken over; two endpoints for one to keep a policy active that the other
  leaves. Longer histories add no new kind of update, because every handler
  sees only the state before it.
- `syncers`: 2 writers, 2 kinds, 3 objects (a configuration with several v1
  keys, two pools of which one can take the other's CIDR), 3 revisions, 1 lost
  connection. Three revisions allow a deletion, a re-creation and a change
  around one lost watch.
- `cni_workload`: 1 address, one pod with two sandboxes and one with one; up to
  2 ADDs of the second sandbox, one DEL of each sandbox of the pod, 1 foreign
  write. One address makes every reuse happen.
- `route_dataplane`: 4 destination strings (two spellings of one prefix,
  another prefix, junk), 2 gateways, 4 messages, 2 failures, 1 restart: enough
  for a change that is undone while a round is failing.
- `policy_pipeline`: at most one resource of each of two families at a time.
  The first are Kubernetes policies of 2 directions, 7 lists of peers, 6 lists
  of ports; the second 14 policies of both kinds that order, widen, deny, log, pass
  or share its name. Two namespaces, four pods (one on its host's network),
  a network set, 12 packets. Two policies suffice for order and precedence,
  since chains and evaluator walk policies one after another.
- `label_index`: 2 items that may share an address, 2 parents in either order,
  2 selectors of which one has a negative term; no bound on the number of calls.
- `node_agent`: 2 agents, a node whose agent is stopped and whose pods go on,
  and a node that is gone and has left an affinity; an IPv4 pool that
  encapsulates, one around it that does not, an IPv6 pool; 4 blocks, 7
  addresses; 2 bootstrap attempts, 1 fault, and 1 change of a block (a pod's
  claim or a deletion). A fresh cluster has no pods yet (`Fresh` sets `claims`
  to its bound); one in use starts with either family's pool as the only one.
  Three nodes are what it takes for one to see two others claim one block, the
  owner listed before or after the loser. Each exception occurs: without the
  restriction to IPv4, `lost`, `torn`, `Served` or the first conjunct of
  `Uncontested` the run finds a violation; its second conjunct needs an address
  that is lost and assigned again, which takes more changes than this.
- `ipam_store`: 2 processes of one host, 1 of another, 2 blocks of 1 address,
  3 configurations, 3 calls in all, each cut off anywhere, after a claim that
  ended before it was confirmed: two releases and a claim of one host overtake
  each other, and so do a claim and a release of two. The theorem covers any
  number of calls.

Symmetry is used where processes or handles are interchangeable, never in a run
with a liveness property. `CHECK_DEADLOCK FALSE`
stands where a bounded number of jobs or calls may all be done.

Fairness. `IpamGc`: weak fairness of the collector's loop (it runs
for ever on a timer, and each of its steps is one API call that returns) and of
every CNI call that has been started (the plugin is a process that runs to its
end). Neither pods nor commands are forced to happen, and `Abandon` may end a
call instead. `PolicyAgent`: weak fairness of the task that watches (the kube
watcher reconnects by itself), of delivery, and of the dataplane loop, which has
a ticker of its own; a round that fails is retried by the code (`end_apply`),
so a document that nft accepts is accepted in the end. Changes, lost watches and
restarts are not forced. Fairness of delivery is stated on `Hand`, the guard and
first effect of `Deliver`. `Syncers`: weak fairness of each kind's watch, which
is polled for ever. `RouteDataplane`: weak fairness of the ticker and of the
steps of a round (kernel calls return). `NodeAgent`: weak fairness of each
node's process, which the kubelet restarts; failures and reboots are
bounded and not forced.

## 4. Findings

The first is a run that TLC must find violated. Of the others, most are named
exceptions of passing properties (the definition is named in `PROJECT.json`),
and the run shows that there is no further one; 7, 8, 9 and 13 are divergences
met while modelling, of which the runs' properties do not speak.

1. `policy_names`: the adapter names a NetworkPolicy by its bare name; policies
   of one name in two namespaces replace each other (`felix/src/policy_agent.rs:111`).
2. Pods are listed before blocks; a pod created and started in between is
   collected (`controllers/src/lib.rs:162`).
3. Two nodes race to create one block; the loser keeps a confirmed affinity to
   the winner's block, and when the loser's node is deleted the collector
   deletes the winner's block (`lib.rs:117`).
4. An allocation whose IPAMHandle was never written is found orphaned for ever
   and never freed (`lib.rs:220`).
5. A set dropped and registered by one graph update is removed by the sequencer
   although it is referenced (`calc/src/event_sequencer.rs:117`); no later table
   can be applied.
6. A new tier of an active policy is not sent with its rules
   (`calc/src/active_rules.rs:226`); its endpoints fall to default deny.
7. A set's type is that of its first snapshot (`event_sequencer.rs:235`), so it
   depends on the order of arrival.
8. The deletion of a pod's old endpoint removes its new one, because both have
   the interface name as identifier (`policy_agent.rs:142`).
9. `KddBackend::update` drops an object's labels (`datastore/src/kdd.rs:154`).
10. An update leaves the v1 keys of the former spec with the consumer
    (`datastore/src/syncers.rs:174`).
11. DEL tests the owner, then removes the interface by name, outside the lock;
    an error of the test counts as "not owned by another" (`cni/src/bin/calico.rs:299`).
12. A tunnel address whose handle was not written is not recovered
    (`ipam/src/kdd.rs:142`).
13. The default pool is created after a list that may be out of date
    (`node/src/startup.rs:153`).
14. A route without gateway is recorded as programmed though nothing was done,
    and a gateway that does not parse keeps later deletions from being made
    (`felix/src/route_manager.rs:238`).
15. A rule whose only ports of a protocol cannot be expressed is widened to all
    ports, and an ipBlock's exceptions are lost
    (`datastore/src/conversion/policy.rs:298`).
16. `release_affinity` deletes an empty block without asking whose it is, nor
    whether the affinity it has marked is still marked: another host's block,
    or one that its own host has claimed anew in between
    (`ipam/src/allocate.rs:143`).
17. A disjunctive namespaceSelector of a GlobalNetworkPolicy escapes from its
    selector for want of parentheses (`calc/src/scope.rs:139`).
18. No selector confined to a namespace matches a NetworkSet, which is indexed
    without its namespace (`policy_agent.rs:150`).
19. Nodes are listed before affinities; a node that registers in between, for
    the first time or again, and claims a block loses it to the collector with
    all its addresses (`controllers/src/lib.rs:105`).
20. While the first pool is an IPv6 pool every pass of a node without a tunnel
    address takes another address of it, and fails
    (`felix/src/vxlan_reconcile.rs:145`).
21. The overlay has a route for every affinity in whatever state, and of two for
    one block the last one listed wins, the loser's of finding 3 included
    (`vxlan_reconcile.rs:174`).

Smaller observations, not listed as findings.

- IPAM: the comment of `compact_attributes` (`block.rs:262`) says the relative
  order is preserved, while the table is reordered by first reference (no
  caller depends on it). The list `release_by_handle` returns misses addresses
  freed by an attempt that ended in a conflict. In `allocate.rs` a dangling
  Pending affinity counts against `max_blocks_per_host` (:198), pass ownership
  is checked and acted on in separate calls (:206, :291), a conflict on the
  handle after the block write leaks (:300 to :313), and `affinity.rs:48` reads
  an unknown state as Pending.
- CNI: a repeated ADD of one sandbox fails with EEXIST although comments call it
  idempotent (`calico.rs:206`, `wep.rs:83`); the merge patch keeps labels of the
  endpoint's previous incarnation; DEL releases the address before it deletes
  the endpoint.
- Policy: `a.b` and `a-b` share a chain (`endpoint_manager.rs:102`, :118);
  `k8s_policy.rs` takes the first protocol for all ports, named-only ports for
  all ports, and an empty or negative namespaceSelector matches addresses
  without labels; `map_rule` of `from_resources.rs` ignores nets, source ports
  and the opposite selector; the evaluator's default Allow differs from the
  rendered drop when there is no profile; Pass and several tiers are flattened
  in `dispatch_rules`; the escapes of `quote()` are not undone by the tokenizer.
  A spec that does not deserialize is ignored by the agent, on deletion too,
  which leaves the former one in force (`policy_agent.rs:174`).
- Node: a tunnel address stays published when the collector has deleted its
  block (`vxlan_reconcile.rs:83`); an existing device is never rebound; `reconcile_remotes` never deletes
  routes, neighbours or forwarding entries that are out of date; AlreadyExists
  on ClusterInformation leaves it not ready until the next boot; a conflict in
  `MarkReady` repeats the whole bootstrap; a pool without free blocks leaves a
  node without tunnel; kubeconfig and conflist are written in place, only the
  binary is renamed.
- `labelindex.rs`: `add_selector` on a registered id would reset its counts; its
  caller adds only on the first reference (`active_rules.rs:534`).

## 5. Proofs

`IpamBlockProofs` proves, for any capacity, handles and bounds, everything the
`ipam_block` run checks. Assumptions: `Capacity` is a positive natural number
and `Free` is not a handle. The inductive invariant `BlockInv` is `TypeOK`,
`FreeListExact`, `SeqRecordsExact`, `AttributesDistinct`,
`OutdatedTicketsRejected` and one strengthening, `TicketsDated`: every ticket
carries a number already given out. Without it an outdated ticket could match
a number that is still to come. The argument rests on a small theory of
`Ascending`, `Rank` and `At` (the elements of a finite set of integers in
order, without recursion): allocation takes a set of positions out of a
duplicate-free list, and compaction maps the first references to their ranks.
The action properties and the implementation of `AddressLease` follow from
`BlockInv` and per-action lemmas about what each operation leaves alone.

`KddIpamProofs` proves, for any numbers of nodes, sandboxes, blocks, slots and
processes, any retry limit and any number of cut calls, every invariant of the
`kdd_ipam` run and that the driver implements `AddressLease`. Assumptions: at
least one block and one attempt, slots are natural numbers (the driver takes
the first), every sandbox has a node, the sentinels are distinct from the
values they stand beside. The inductive invariant is built in layers, each
used by the next:

1. `TypeInv`: types, and that a busy process has a job.
2. `CopiesCurrent`: an unmoved version means a current copy. Its proof is the
   frame lemma (`Frame`: a step touches no other process's locals) and
   `WritesNoticed` (a write marks every process that holds a version).
3. `JobsOk`: one command per sandbox, agreeing with the sandbox's status.
4. `CopiesOwned`: a block copy that will be written is of the process's node.
   With 2 this gives `BlockEffect`: a step changes no lease, grants one free
   address (`Grants`) or revokes the handle's addresses in one block
   (`Revokes`), and never changes a block's owner.
5. `Leased`: `HeldIsLeased`, `StrictAffinity` and, between the write of the
   block and the write of the handle, the same for the address in hand. The
   refinement of `AddressLease` follows from 4 directly.
6. `ClaimInv`: only a confirmed claim reaches the block write, and confirmed
   claims stay confirmed.
7. `CoverInv`: the address in hand is accounted for until its handle is
   written (`GotSteps`), no other process writes that handle (`HandleCopies`),
   and a release keeps every block of its handle on its list until it is done
   (`ToVisit`). `HandleCoversLeases` and `GoneIsReleased` need all three: the
   first fails at the deletion of the handle without `ToVisit`, the second at
   a DEL that finds no handle without the first.

Its last section proves `AddressesSurviveGc` of the collector next to the
commands, for any nodes and pods that come, go and come back (further assumptions: the collector
is one process, the only janitor, and every sandbox belongs to a pod). A
release pass is calls of the driver, so 1, 2 and 4 and the lemmas under them
hold there unchanged, and layer 3 holds of the commands (`CommandsOk`). The
others are replaced, because the collector takes leases away and deletes blocks
under running commands. The invariant `GcInv` says in their place:

- `CollectorOk`: what the collector releases it has judged, its list of nodes,
  while it matters, includes every node that is there and has not been
  registered since (`nodes \ joined`), and what it reclaims belongs to a node
  that is not of these. `joined` is what a list of nodes cannot know, as
  `judged` is for the list of pods.
- `StrictAffinity`: every sandbox of a block is of the block's node. So a block
  that is deleted for its owner takes no address of another node, and none of a
  node that was listed and is still there: the rest is `unlisted`, and what goes
  with a block deleted for another node's claim is `wrecked`.
- `GotSurvives`: what `GotLeased` says, up to the three exceptions, which never
  cease to apply once they do (`SafeBefore`).

`CollectorTakes` has the two ways in which a lease goes and why neither is of a
safe sandbox, `CommandKeeps` the same of a command beside the collector.

`SyncersProofs` proves first, of `KddStore` alone and for any set of writers,
objects and values and any bound on revisions, that no writer overwrites or deletes a version it has not
read (`NoLostWrite`, which run `syncers` checks) and what that rests on.
Assumptions: `Values` are the objects built from the specs and labels, `Work`
consists of jobs, and the sentinels stand apart from values, versions and jobs.
The inductive invariant `StoreInv` has three parts: the types (`StoreTypeOK`);
what a process holds between two calls (`HoldsWhatItNames`: the step it is at
determines whether it holds a version, and of which object); and
`RevisionsNameWrites`: stored and held revisions are in the past, and equal
revisions of one object are the same version. The last is the strengthening: without it
an object deleted and created again could carry a number that somebody still
holds, and the comparison would accept the stale write. It is kept because one
counter serves all keys: `BumpDates` (a write takes a number nobody holds) and
`DeleteDates` (a deletion leaves nothing to compare with). `SoftDeleteKeeps` is
the one step that goes on holding the version it has just written.

`RouteDataplaneProofs` proves, for any destination strings, prefixes, gateways
and any number of messages, failures and restarts, that the kernel has the
desired routes when nothing is owed (`CleanMeansProgrammed`, outside `stale` and
`aliased`). Assumptions: every destination parses to a prefix or to none, and
the sentinels are no gateways. The inductive invariant `RouteInv` is: types;
`NamedOnce` (a prefix that is not aliased has at most one spelling in the
tracker); `KernelRemembered` (for such a prefix that is not stale, the kernel
has what the tracker remembers programming); `Owed` (the work of a running
round is exactly what is pending, and without a round and without the flag
nothing is). `Owed` is
what makes the flag trustworthy after a failure, and needs the lemma
`Confirming`: confirming one item settles it and puts nothing new on the list.
`KernelRemembered` and `InSyncAgrees` then give the result.

`IpamStoreProofs` proves, for any hosts, processes, blocks, handles,
configurations and number of calls, both invariants of the `ipam_store` run:
a confirmed affinity owns its block and strict affinity is kept
(`ConfirmedOwnsBlock`, outside `trespassed` and `reborn`), and the handles count
what the blocks hold (`IndexFollowsBlocks`, up to `torn` and what running calls
have yet to count). Assumptions: the store holds affinities, blocks and handles,
each under its own kind of key, and starts with what the protocol could have
left; a handle is one host's; blocks, handles and processes are finitely many;
strict or automatic allocation is configured (`IpamConfig::validate`). For the
first, the inductive invariant
`OwnerInv` is: types; `Placed` (which steps belong to which call, and that a
strict assignment never borrows); `Dated` and `Copied` (a copy whose revision
is still stored is what is stored, so the compare-and-swap of a block does what
its caller means); `Claimant` (a claim whose affinity is unmoved and not being
deleted is of a block that is the host's: the strengthening that carries the
ownership from the check of the block to the confirmation); `Taker` (the same
for a strict assignment, from its check to its write). The proof is laid out by
kinds of write: `AffinityKeeps`, `BlockKeeps`, `HandleKeeps` and the two
deletions say what a write leaves of the invariant for everyone else, one
lemma per step places the process that makes it.
For the second, `IndexInv` adds to the equation only the type of `torn` and
`Drained`: a process about to delete a block holds a copy of it without
addresses, which by `Copied` is what is stored if the deletion goes through.
What calls have yet to count is a sum over the processes at the step between the
two writes, written with a fold of the community modules. Its facts (a process
that enters or leaves adds or subtracts its share, one that stays changes
nothing) are lemmas about sums over any finite set, by induction on its size.

`CniWorkloadProofs` proves, for any pods, sandboxes, addresses and bounds on ADDs,
DELs and foreign writes, all three invariants of the `cni_workload` run.
Assumptions: a sandbox is of one pod, `Values` are the endpoints, the datastore
starts without endpoints and the sentinels are no values. The inductive
invariant `CniInv` has, besides types: `Alone` (one sandbox of a pod is alive,
and only the living run an ADD, only the dead a DEL); `Leased` and `Owned` (from
its allocation on an ADD has its address, from its patch on its endpoint);
`Recorded` (an endpoint names sandboxes of its pod that have run, and carries
nothing foreign while its creator lives); `Indexed`, `Staged` and `Wired` (the
interface is what the steps made of it so far, under an index that is never
given twice); `Deleting` (a DEL deletes the endpoint it read only as long as
the revision has not moved, so it is still its sandbox's); `Unseen` (no DEL that
may still take the interface by name or index has overlooked a sandbox that is
not in `raced`); `Cleaning` (what a DEL has removed stays away while it goes
on). `Unseen` is the heart of it: ownership is tested once and the interface is
removed two steps later, so the invariant has to follow each of the two DELs
against each stage of the successor's ADD. The proof has one lemma per
step of a process and one that reduces the ADD's steps to where the process
stands before and after (`AddGoes`).

`PolicyAgentProofs` proves, for any policies, profiles, rules, IP sets, endpoints
and tiers and any number of changes, everything the `policy_agent` run checks except
`Converges`. Assumptions: the names are distinct and finitely many, the policies'
ranks are distinct, an object's spec is of the kind of its identifier, and the
sentinels stand apart. Only `GraphCoherent` needs one hypothesis more,
`OwnIdentifiers`: objects have identifiers of their own. It is what graph.rs:60
asks for and what the adapter does not ensure; the run `policy_names`
shows a graph without it, and the other four theorems hold either way.

The first half is about the graph. `Tidy` says that references and counts are
those of the rules scanned last, `Coherent` that every cache is what the inputs
define. Each stage of an update keeps `Tidy` (the lemma on counts is
`CountedReferrers`: dropping and adding referrers one by one ends in the
cardinality of the new set); each handler of `CalcGraph::on_update` takes a
coherent graph to a coherent graph, by what it recomputes; and two coherent graphs
with the same inputs are equal, which is `GraphCoherent`. A change of a profile's
labels redrives its endpoints one after the other, and its lemma goes by
`SetInduction` over how many are done. Every handler also reports all that it
changed (`Reports`), which is what the second half starts from.

The second half follows a change to the dataplane. Between flushes nothing is
buffered (`Quiet`), and the sequencer's record of what it sent agrees with the
graph (`Sync`). Handling an update buffers, key by key, exactly the difference
between the two graphs (`Buffered`), and a flush sends exactly what is buffered,
in six phases. `Under` says of each key of the table that it is as the graph
wants it if no message about it is under way, and that every message under way
about it carries what is wanted. It speaks of the messages as a set, so taking the head
of the channel keeps it without a case for every order, and with an
empty channel it is `TableFollowsGraph`. `ReferencesResolve` does need the order:
when a set is withdrawn every update of a chain is through, so no chain of the
table is other than wanted, and what is wanted refers only to what is wanted
(`WantedResolves`). `NoPartialTable` needs that InSync is under way only when
every list is in, and that an empty channel leaves nothing unsaid.

Then, of the syncers beside the writers and for any kinds, keys, writes and
lost connections, `SyncersProofs` proves `Converged` and `InSyncIsEarned`, and
that the system with syncers still implements `KddStore` (hence `NoLostWrite`).
It assumes what `KddStore` and `Syncers` assume of their constants, no more. The inductive
invariant `SyncInv` has the writers' `StoreInv` beside it, because a syncer is
right only if revisions name contents, and five parts of its own:

- `WatchTypeOK`, with what is never apart: a watch's memory and the consumer.
- `Followed`: what the consumer has, or will be listed (`Base`), followed by the
  changes on their way (`After`), is what the store holds, and every deletion on
  its way names the object it deletes (`Leads`). A write appends to the log
  (`AppendLeads`), a delivery takes its head (`TailLeads`), and a listing makes it
  empty. `Expected` is one value of `After`, so this gives the first conjunct of
  `Converged`.
- `StatusInv`: the merged status is the one that the kinds in sync justify.
- `OriginalsKept`: an object nobody has written has no change on its way, and
  once its kind is in sync the consumer has it. The second half is what
  `InSyncIsEarned` needs, the first what keeps it.
- `ConsumerInv`: the consumer of v1 events has the pairs of every resource the
  other consumer has, a key of two resources is disputed, a key of none was
  left behind. It holds after any upsert or deletion, whatever the watches do
  (`UpsertKeeps`, `DeleteKeeps`).

`NodeAgentProofs` proves, for any nodes, pools of both families, blocks and
addresses and any number of failures, reboots, claims and deletions of blocks,
`AddressRecovered`, and that no two nodes publish the same tunnel address, unless
one of them lost it to the collector. Assumptions: addresses are a finite set of
numbers (the recovery takes the first), no node is the sentinel, and what was
published at the start are different IPv4 addresses. The inductive invariant
`AgentInv` says of each node: what it carries from the recovery or the assignment
to the publication, and what it has published, it had (it holds it or lost it to
the collector), and from the record on it is an IPv4 address; it claims and
assigns only when its handle record leads to none of its IPv4 addresses; and it
holds at most one IPv4 address for each failure between the two writes, and one
more while it is about to record one it holds or when the record leads to one.
The last two are the strengthening: a bound on the number alone is not kept by
an assignment. The deletion of a block is the step that needs care: if it takes
away what the one more address stands for, the node has one address less
(`DeleteBlockKeeps`).

The last part of `PolicyAgentProofs` is about `LabelIndex`, which computes what the graph takes as a set
comprehension. It proves `MembersExact` for any items, parents and IP sets,
any labels and members, any number of calls and any meaning of a selector
(`SelectorMatches` is a parameter), assuming only that an item names its parents in a
list. The inductive invariant `MembershipInv` has four parts: the items are finitely
many; a parent lists exactly the items that name it, and no item names a parent
that is not there (`Referred`); a set that is not registered has no members; and
each registered selector, together with its consumer, is in the state that
the items it now selects determine (`StateFor`: for each member, how many of them
offer it). `ReconcileExact` takes that state across the change of one item, whether it
enters, leaves, stays with other members or stays out; `RevisitedExact` across a
walk over many, each met once. `Referred` is the strengthening: a parent's new
labels are applied to the items it lists only, and that is enough because what
an item inherits depends on the parents it names (`EffectiveSame`) and those list it.
`EffectiveIsMeant` shows that the merge loop, from the last parent to the
first, gives each key the value of the first parent that has it.

Only model-checked of the safety properties: the three of `PolicyPipeline`, which
parses and matches selectors and walks rules with RECURSIVE operators, in whose
presence the SMT backend is not available. Out of the prover's reach:
liveness under fairness and ENABLED (`CoveredOrphansReclaimed`, `Converges`,
`RoutesConverge`, `OverlayConverges` are TLC's only), and what recursive
operators compute for every input (the parser, the walks over rules, the
folds over selectors). The library's induction theorems take an operator as a
parameter, which the provers cannot instantiate; `SetInduction` says the same
of a set of numbers and has no such parameter, which is how the sums above and
the functions that define them could be reasoned about.

## 6. Not modelled

- Code that production does not call, beyond what is compared above:
  `calc/src/routes.rs` (L3 routes, a pure derivation without a consumer;
  the choice of encapsulation is in `NodeAgent`),
  `reconcile/src/caching_map.rs`, `felix/src/policy_render.rs`,
  `nftables.rs` and `ipset_manager.rs` (superseded), `felix/src/config.rs` (not wired in),
  the test-only `MemBackend`, `ipam/src/reservation.rs`, the self-test binaries.
  Modelled although only tests call it, because its contract is the base of
  others or it states the same decision a second time: `allocate.rs`,
  `k8s_policy.rs`, `datastore/src/conversion/policy.rs` (no watch
  delivers Kubernetes policies yet), the soft-then-hard delete, the syncers' runner.
- Pure I/O and formats: netlink and nft calls, text of rules and documents,
  parsing of keys, revisions and configuration, CIDR arithmetic (`addr.rs`),
  generated types (`apis`, `proto`), reporting (`flowlogs.rs`, health,
  observability), `calicoctl get`.
- `felix/src/nat.rs`: a fixed set of rules computed from the pools. The
  profile controller of `controllers` is a projection of a namespace without
  state of its own. `typha`, `bgp` and `felix-ebpf` hold no logic yet.
- In `KddIpam`: more than one address per call, assignment of a given address.
- In `PolicyAgent`: selectors that fail to parse, resources that fail to
  deserialize, the capacity of the channel (an update waits for an empty
  channel; the graph does not hear from the dataplane), the throttle's time,
  and nft's judgement of set types.
- In `PolicyPipeline`: several tiers, endpoints of several nodes, ICMP, IPv6.
- In `NodeAgent`: nodes that leave while it runs, with their Node objects (in
  `IpamGc` they do; here some are gone from the start), nodes that change their
  own address, lengths of back-off, disabled pools, the reads of pools and
  affinities as calls apart from the kernel calls they lead to.

What would come next: a theorem for `DirectTranslationAgrees` (the two
translations of a Kubernetes policy), which needs the selectors' evaluation as a function
on a well-founded domain of selectors.
