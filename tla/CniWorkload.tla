---------------------------- MODULE CniWorkload -----------------------------
(***************************************************************************)
(* The CNI plugin on one node (crates/cni): ADD and DEL processes of the   *)
(* sandboxes of a few pods.  A pod that is created again under its name    *)
(* gets a new sandbox, and both sandboxes share the name of the            *)
(* WorkloadEndpoint and of the host interface.                             *)
(*                                                                         *)
(* Endpoints live in the datastore (CasStore), addresses in IPAM, whose    *)
(* calls are atomic here (KddIpam has their steps and implements           *)
(* AddressLease).  Every datastore call and every netlink call whose       *)
(* effect another process can see is a step; any of them may fail, and     *)
(* the process may be killed between any two.                              *)
(***************************************************************************)
EXTENDS CasStore

CONSTANTS
    Sandboxes, PodOf,     \* container ids, and the pod of each, in Keys
    Readable,             \* sandboxes whose pod the plugin can fetch
    Addresses, Free,      \* of the pool; nobody's address, or no address
    Adds, Dels,          \* bounds: ADD calls, and DEL calls, per sandbox
    MaxTouches            \* bound on writes of others to endpoints

ASSUME PodOfAssumption == PodOf \in [Sandboxes -> Keys]
ASSUME CallsAssumption ==
    /\ Readable \subseteq Sandboxes
    /\ Free \notin Sandboxes \cup Addresses
    /\ MaxTouches \in Nat /\ {Adds, Dels} \subseteq [Sandboxes -> Nat]

\* An endpoint, of which there is none yet, and an interface pair.
WorkloadEndpoint == [container : Sandboxes, ip : Addresses, creator : Sandboxes,
                     labels : SUBSET ({"namespace"} \cup Sandboxes)]
Complete == {"moved", "host end up", "proxy_arp", "named", "pod end up", "to gateway", "default"}
Pair == [index : Nat, owner : Sandboxes, route : Addresses \cup {Free},
         address : Addresses \cup {Free}, ready : SUBSET Complete]
ASSUME EndpointAssumption ==
    /\ Values = WorkloadEndpoint /\ Preset = [k \in Keys |-> Absent]
    /\ Absent \notin Pair

VARIABLES
    life,         \* of a sandbox: "new", "adding", "failed", "wired", "dead"
    lease,        \* IPAM: address -> sandbox (by handle) or Free
    host_lock,    \* sandbox whose ADD holds the flock, or Free
    add,          \* per sandbox: the ADD process
    adds,         \* per sandbox: ADD calls made
    told,         \* per sandbox: the address its ADD answered, or Free
    del,          \* per DEL call: the process
    veth,         \* per pod: host end of its interface pair, or Absent
    next_index,   \* the kernel's interface indices are never reused
    raced,        \* history: sandboxes exposed to a DEL that did not see them
    swallowed,    \* history: DEL calls that ignored an error
    touches

hostVars == <<veth, next_index>>
history == <<raced, swallowed, touches>>
procVars == <<add, adds, told>>
vars == <<casVars, life, lease, host_lock, procVars, del, hostVars, history>>

DelCalls == {<<s, n>> : s \in Sandboxes, n \in 1 .. 2}

(* handle_id: one handle per sandbox, the same in ADD and DEL. Mutants:    *)
(* one per pod; DEL looks for another form of the id.                      *)
OtherForm(s) == {}
PodsHandle(s) == {t \in Sandboxes : PodOf[t] = PodOf[s]}
Handle(s) == {s}
Wep(s) == entries[PodOf[s]]
Host(s) == veth[PodOf[s]]

Init ==
    /\ CasInit
    /\ life = [s \in Sandboxes |-> "new"]
    /\ lease = [a \in Addresses |-> Free]
    /\ host_lock = Free
    /\ add = [s \in Sandboxes |-> [pc |-> "idle", ip |-> Free, index |-> 0]]
    /\ adds = [s \in Sandboxes |-> 0]
    /\ told = [s \in Sandboxes |-> Free]
    /\ del = [d \in DelCalls |-> [pc |-> "idle", revision |-> 0, link |-> 0]]
    /\ veth = [k \in Keys |-> Absent]
    /\ next_index = 1
    /\ raced = {} /\ swallowed = {} /\ touches = 0

-----------------------------------------------------------------------------
(* ADD *)

At(s, pc) == add[s].pc = pc
Goto(s, pc) == add' = [add EXCEPT ![s].pc = pc]

(* The runtime wires one sandbox of a pod at a time, and may repeat an ADD *)
(* that failed.                                                            *)
StartAdd(s) ==
    /\ life[s] \in {"new", "failed"}
    /\ adds[s] < Adds[s]
    /\ \A t \in Sandboxes \ {s} :
          PodOf[t] = PodOf[s] => life[t] \in {"new", "dead"}
    /\ life' = [life EXCEPT ![s] = "adding"]
    /\ adds' = [adds EXCEPT ![s] = @ + 1]
    /\ Goto(s, "lock")
    /\ UNCHANGED <<casVars, lease, host_lock, told, del, hostVars, history>>

(* HostLock::acquire blocks; without the lock file ADD goes on unlocked. *)
AcquireLock(s) ==
    /\ At(s, "lock")
    /\ \/ host_lock = Free /\ host_lock' = s
       \/ UNCHANGED host_lock
    /\ Goto(s, "allocate")
    /\ UNCHANGED <<casVars, life, lease, adds, told, del, hostVars, history>>

(* The end of the process, by an error or a kill, closes the lock file. *)
Over(s) == add' = [add EXCEPT ![s] = [pc |-> "idle", ip |-> Free, index |-> 0]]
Released(s) == IF host_lock = s THEN Free ELSE host_lock

FailAdd(s) ==
    /\ life[s] = "adding"
    /\ life' = [life EXCEPT ![s] = "failed"]
    /\ host_lock' = Released(s)
    /\ Over(s)
    /\ UNCHANGED <<casVars, lease, adds, told, del, hostVars, history>>

(* allocate_or_reuse *)
Allocate(s) ==
    LET existing == {a \in Addresses : lease[a] \in Handle(s)}
    IN  /\ At(s, "allocate")
        /\ \E a \in IF existing # {} THEN existing
                    ELSE {b \in Addresses : lease[b] = Free} :
              /\ lease' = [lease EXCEPT ![a] = s]
              /\ add' = [add EXCEPT ![s].pc = "get", ![s].ip = a]
        /\ UNCHANGED <<casVars, life, host_lock, adds, told, del, hostVars, history>>

(* write_wep: does the endpoint exist? *)
GetWep(s) ==
    /\ At(s, "get")
    /\ Goto(s, IF Wep(s) = Absent THEN "create" ELSE "patch")
    /\ UNCHANGED <<casVars, life, lease, host_lock, adds, told, del, hostVars, history>>

(* The write that makes s the owner, seen from the DELs of other sandboxes *)
(* that have already decided to tear down.                                 *)
Exposed(s) ==
    IF \E d \in DelCalls : /\ d[1] # s /\ PodOf[d[1]] = PodOf[s]
                           /\ del[d].pc \in {"delete", "find"}
    THEN {s} ELSE {}

(* build_wep_spec: the fields the plugin owns. *)
BuildWepSpec(s) == [container |-> s, ip |-> add[s].ip]

(* create sends the spec alone: no labels. *)
CreateWep(s) ==
    /\ At(s, "create")
    /\ \/ /\ Create(PodOf[s], [container |-> s, ip |-> BuildWepSpec(s).ip,
                               labels |-> {}, creator |-> s])
          /\ raced' = raced \cup Exposed(s)
       \/ /\ Wep(s) # Absent           \* AlreadyExists is tolerated
          /\ UNCHANGED <<casVars, raced>>
    /\ Goto(s, "patch")
    /\ UNCHANGED <<life, lease, host_lock, adds, told, del, hostVars, swallowed,
                   touches>>

(* fetch_pod_labels_and_sa: the pod's own labels (s stands for them), none *)
(* when it cannot be read. build_wep_labels adds Calico's own.             *)
FetchPodLabels(s) == {s} \cap Readable
WepLabels(s) == {"namespace"} \cup FetchPodLabels(s)

(* wep_patch_body, merged into the endpoint. *)
Merged(wep, s) ==
    LET spec == BuildWepSpec(s)
    IN  [wep EXCEPT !.container = spec.container, !.ip = spec.ip, !.labels = @ \cup WepLabels(s)]

(* The merge patch adds labels and takes none away. With the endpoint      *)
(* gone it fails, as FailAdd.                                              *)
PatchWep(s) ==
    /\ At(s, "patch")
    /\ Wep(s) # Absent
    /\ Bump(PodOf[s], Merged(Wep(s).value, s))
    /\ raced' = raced \cup Exposed(s)
    /\ host_lock' = Released(s)
    /\ Goto(s, "veth")
    /\ UNCHANGED <<life, lease, adds, told, del, hostVars, swallowed, touches>>

-----------------------------------------------------------------------------
(* orchestrate::cmd_add. The interface is made by name, then found by its  *)
(* index; a step whose interface is gone fails, as FailAdd.                *)
LinkIndex(s) == IF Host(s) = Absent THEN 0 ELSE Host(s).index
Holds(s) == Host(s) # Absent /\ LinkIndex(s) = add[s].index

(* The netlink calls (dataplane.rs) on a pair; of its ends, the kernel     *)
(* takes a route through one that is up only.                              *)
NewPair(s) == [index |-> next_index, owner |-> s, route |-> Free, address |-> Free,
               ready |-> {}]
Ready(pair, what) == [pair EXCEPT !.ready = @ \cup {what}]
MoveLinkToNetns(pair) == Ready(pair, "moved")
SetUp(pair, end) == Ready(pair, end)
RenameLink(pair) == Ready(pair, "named")
AddAddr(pair, ip) == [pair EXCEPT !.address = ip]
AddLinkRoute(pair) == IF "pod end up" \in pair.ready THEN Ready(pair, "to gateway") ELSE pair
AddGatewayRoute(pair) == IF "to gateway" \in pair.ready THEN Ready(pair, "default") ELSE pair

(* A change of the pair, by the process that made it. *)
Wire(s, from, to, pair) ==
    /\ At(s, from) /\ Holds(s)
    /\ veth' = [veth EXCEPT ![PodOf[s]] = pair]
    /\ Goto(s, to)
    /\ UNCHANGED <<casVars, life, lease, host_lock, adds, told, del, next_index, history>>

CreateVeth(s) ==
    /\ At(s, "veth")
    /\ Host(s) = Absent
    /\ veth' = [veth EXCEPT ![PodOf[s]] = NewPair(s)]
    /\ next_index' = next_index + 1
    /\ add' = [add EXCEPT ![s].pc = "host_end", ![s].index = next_index]
    /\ UNCHANGED <<casVars, life, lease, host_lock, adds, told, del, history>>

HostEnd(s) == Wire(s, "host_end", "route", SetUp(MoveLinkToNetns(Host(s)), "host end up"))

(* add_dev_route refuses a destination that has a route. Then proxy_arp    *)
(* must be set; the other settings are tried.                              *)
HostSysctls(pair) == Ready(pair, "proxy_arp")
AddRoute(s) ==
    /\ ~ \E k \in Keys : veth[k] # Absent /\ veth[k].route = add[s].ip
    /\ Wire(s, "route", "inside", HostSysctls([Host(s) EXCEPT !.route = add[s].ip]))

(* The answer: the address; names of interfaces and routes are left out. *)
CniResult(s) == add[s].ip

(* Inside the sandbox, where no other process looks; then ADD answers. *)
InsidePod(s) ==
    /\ At(s, "inside") /\ Holds(s)
    /\ LET inside == AddAddr(SetUp(RenameLink(Host(s)), "pod end up"), add[s].ip)
       IN  veth' = [veth EXCEPT ![PodOf[s]] = AddGatewayRoute(AddLinkRoute(inside))]
    /\ life' = [life EXCEPT ![s] = "wired"]
    /\ told' = [told EXCEPT ![s] = CniResult(s)]
    /\ Over(s)
    /\ UNCHANGED <<casVars, lease, host_lock, adds, del, next_index, history>>

AddStep(s) ==
    \/ AcquireLock(s) \/ Allocate(s) \/ GetWep(s) \/ CreateWep(s)
    \/ PatchWep(s) \/ CreateVeth(s) \/ HostEnd(s) \/ AddRoute(s)
    \/ InsidePod(s)

-----------------------------------------------------------------------------
(* DEL. d[1] is its sandbox. *)

DelAt(d, pc) == del[d].pc = pc
DelGoto(d, pc) == del' = [del EXCEPT ![d] = [pc |-> pc, revision |-> 0, link |-> 0]]
DelOnly == UNCHANGED <<life, host_lock, procVars, next_index, touches>>

(* The runtime deletes a sandbox that failed or stopped, more than once if *)
(* it likes, also while a newer sandbox of the pod is being wired.         *)
StartDel(d) ==
    /\ life[d[1]] = "dead" /\ DelAt(d, "idle") /\ d[2] <= Dels[d[1]]
    /\ \A n \in 1 .. d[2] - 1 : ~ DelAt(<<d[1], n>>, "idle")
    /\ DelGoto(d, "release")
    /\ DelOnly /\ UNCHANGED <<casVars, lease, veth, raced, swallowed>>

(* owned_by_other is false whenever ownership could not be read: the       *)
(* sandbox that owns the endpoint now is not seen.                         *)
Blind(d) ==
    /\ swallowed' = swallowed \cup {d}
    /\ raced' = raced \cup (IF Wep(d[1]) = Absent THEN {}
                            ELSE {Wep(d[1]).value.container} \ {d[1]})
    /\ DelGoto(d, "find")

(* connect_backend, then release_by_handle with its error ignored. *)
Release(d) ==
    /\ DelAt(d, "release")
    /\ \/ /\ lease' = [a \in Addresses |->
                          IF lease[a] \in Handle(d[1]) THEN Free ELSE lease[a]]
          /\ DelGoto(d, "read")
          /\ UNCHANGED <<raced, swallowed>>
       \/ /\ swallowed' = swallowed \cup {d}
          /\ DelGoto(d, "read")
          /\ UNCHANGED <<lease, raced>>
       \/ Blind(d) /\ UNCHANGED lease
    /\ DelOnly /\ UNCHANGED <<casVars, veth>>

NobodyElse(d) == FALSE  \* mutant: ownership is not compared
\* Every command here has a container id and every endpoint records one; where
\* either is empty, the code takes the endpoint for its own (wep.rs:236).
OwnedByOther(d) == Wep(d[1]).value.container # d[1]

(* delete_wep_if_owned *)
ReadWep(d) ==
    /\ DelAt(d, "read")
    /\ \/ Wep(d[1]) = Absent /\ DelGoto(d, "find") /\ UNCHANGED <<swallowed, raced>>
       \/ /\ Wep(d[1]) # Absent
          /\ IF OwnedByOther(d) THEN DelGoto(d, "spared")
             ELSE del' = [del EXCEPT ![d].pc = "delete",
                                     ![d].revision = Wep(d[1]).revision]
          /\ UNCHANGED <<swallowed, raced>>
       \/ Blind(d)
    /\ DelOnly /\ UNCHANGED <<casVars, lease, veth>>

DeleteWep(d) ==
    /\ DelAt(d, "delete")
    /\ \/ Delete(PodOf[d[1]], del[d].revision) /\ UNCHANGED swallowed
       \/ Wep(d[1]) = Absent /\ UNCHANGED <<casVars, swallowed>>
       \/ /\ Wep(d[1]) # Absent        \* a Conflict, or any other error
          /\ swallowed' = swallowed \cup {d}
          /\ UNCHANGED casVars
    /\ DelGoto(d, "find")
    /\ DelOnly /\ UNCHANGED <<lease, veth, raced>>

(* orchestrate::cmd_del *)
FindLink(d) ==
    /\ DelAt(d, "find")
    /\ IF LinkIndex(d[1]) = 0 THEN DelGoto(d, "ended")
       ELSE del' = [del EXCEPT ![d].pc = "unlink", ![d].link = LinkIndex(d[1])]
    /\ DelOnly /\ UNCHANGED <<casVars, lease, veth, raced, swallowed>>

(* The pair goes with its host end, and the routes through it. *)
Unlink(d) ==
    /\ DelAt(d, "unlink")
    /\ Host(d[1]) # Absent /\ Host(d[1]).index = del[d].link
    /\ veth' = [veth EXCEPT ![PodOf[d[1]]] = Absent]
    /\ DelGoto(d, "ended")
    /\ DelOnly /\ UNCHANGED <<casVars, lease, raced, swallowed>>

(* An error that DEL reports, or a kill. *)
FailDel(d) ==
    /\ del[d].pc \notin {"idle", "ended", "spared", "failed"}
    /\ DelGoto(d, "failed")
    /\ DelOnly /\ UNCHANGED <<casVars, lease, veth, raced, swallowed>>

DelStep(d) ==
    Release(d) \/ ReadWep(d) \/ DeleteWep(d) \/ FindLink(d) \/ Unlink(d)

-----------------------------------------------------------------------------
(* The sandbox stops, after it ran or because ADD failed. *)
Die(s) ==
    /\ life[s] \in {"wired", "failed"}
    /\ life' = [life EXCEPT ![s] = "dead"]
    /\ told' = [told EXCEPT ![s] = Free]
    /\ UNCHANGED <<casVars, lease, host_lock, add, adds, del, hostVars, history>>

(* A dead sandbox's namespace goes, and with the container end the pair. *)
Unplug(s) ==
    /\ life[s] = "dead"
    /\ Host(s) # Absent /\ Host(s).owner = s /\ "moved" \in Host(s).ready
    /\ veth' = [veth EXCEPT ![PodOf[s]] = Absent]
    /\ UNCHANGED <<casVars, life, lease, host_lock, procVars, del, next_index,
                   history>>

(* Somebody else writes to the endpoint, a label say. *)
Touch(k) ==
    /\ entries[k] # Absent /\ touches < MaxTouches
    /\ Bump(k, entries[k].value)
    /\ touches' = touches + 1
    /\ UNCHANGED <<life, lease, host_lock, procVars, del, hostVars, raced,
                   swallowed>>

Next ==
    \/ \E s \in Sandboxes : StartAdd(s) \/ AddStep(s) \/ FailAdd(s) \/ Die(s) \/ Unplug(s)
    \/ \E d \in DelCalls : StartDel(d) \/ DelStep(d) \/ FailDel(d)
    \/ \E k \in Keys : Touch(k)

Spec == Init /\ [][Next]_vars

-----------------------------------------------------------------------------
(* A running sandbox keeps its endpoint, with its id, the address that the *)
(* runtime was told, still leased to it, and the label that namespaced     *)
(* policies select on, whatever DELs of former sandboxes of the pod do     *)
(* (delete_wep_if_owned, wep.rs:242-293). An endpoint it created carries   *)
(* no label of another.                                                    *)
EndpointIntact(s) ==
    /\ Wep(s) # Absent
    /\ LET wep == Wep(s).value
       IN  /\ wep.container = s /\ wep.ip = told[s]
           /\ lease[wep.ip] = s
           /\ "namespace" \in wep.labels
           /\ wep.creator = s => wep.labels \subseteq {"namespace", s}

(* It also keeps its interface, complete and routed ("must NOT clobber the *)
(* live pod's WEP or its identically-named veth", calico.rs:288-294),      *)
(* unless a DEL of a former sandbox went past the ownership test before    *)
(* this sandbox owned the endpoint, or went on without the test.           *)
WiringIntact(s) ==
    /\ Host(s) # Absent
    /\ Host(s).owner = s
    /\ Host(s).route = Wep(s).value.ip /\ Host(s).address = Wep(s).value.ip
    /\ Host(s).ready = Complete

LivePodIntact ==
    \A s \in Sandboxes : life[s] = "wired" =>
        /\ EndpointIntact(s)
        /\ s \notin raced => WiringIntact(s)

(* An endpoint in the datastore claims an address that is leased to its    *)
(* sandbox (allocate_or_reuse, write_wep), so no two endpoints claim one.  *)
(* The exception is an endpoint whose own DEL got past the release and no  *)
(* further: DEL frees the address before it removes the endpoint.          *)
AddressesBacked ==
    \A k \in Keys : entries[k] # Absent =>
        LET wep == entries[k].value
        IN  \/ lease[wep.ip] = wep.container
            \/ \E d \in DelCalls : /\ d[1] = wep.container
                                   /\ \/ del[d].pc \in {"read", "delete", "failed"}
                                      \/ d \in swallowed

(* A DEL that ends well and ignored no error leaves nothing of its         *)
(* sandbox: no address, no endpoint, and no interface unless the endpoint  *)
(* was another sandbox's by then (cmd_del, calico.rs:273-327).             *)
CleanedUp ==
    \A d \in DelCalls : del[d].pc \in {"ended", "spared"} /\ d \notin swallowed =>
        /\ \A a \in Addresses : lease[a] # d[1]
        /\ Wep(d[1]) = Absent \/ Wep(d[1]).value.container # d[1]
        /\ del[d].pc = "ended" => Host(d[1]) = Absent \/ Host(d[1]).owner # d[1]

=============================================================================
