---------------------------- MODULE PolicyAgent -----------------------------
(***************************************************************************)
(* Felix's policy agent (crates/felix/src/policy_agent.rs) from end to     *)
(* end: the merged watch of the datastore, the calculation graph, the      *)
(* event sequencer, the channel, and the dataplane loop with the manager   *)
(* that owns the nftables table.                                           *)
(*                                                                         *)
(* Watching.  `known` holds what the watch of an object's kind has         *)
(* delivered.  A connected watch has at most one undelivered change, an    *)
(* unconnected one any number; when it connects again it lists: it         *)
(* delivers what exists and then deletes what it knew and did not find.    *)
(* Objects that exist unchanged are not delivered a second time: the graph *)
(* would do nothing with them.  The first list is a list like any other.   *)
(*                                                                         *)
(* The graph does not hear from the dataplane, so an update that overlaps  *)
(* with the consumption of an earlier flush differs from one that does not *)
(* only in how much the channel holds: updates wait for an empty channel.  *)
(***************************************************************************)
EXTENDS EventSequencer

CONSTANTS
    Kinds,       \* resource kinds watched
    Objects,     \* datastore objects
    KindOf,      \* [Objects -> Kinds]
    IdOf,        \* [Objects -> the identifier the adapter gives the graph]
    Specs,       \* [Objects -> set of specifications it may be given]
    Stores,      \* datastore contents the agent may start with
    MaxChanges,  \* bound on changes of the datastore
    MaxBreaks    \* bound on lost watches and restarts of the agent

ASSUME ObjectsAssumption ==
    /\ KindOf \in [Objects -> Kinds]
    /\ IdOf \in [Objects -> Owners \cup Endpoints \cup Tiers]
    /\ MaxChanges \in Nat /\ MaxBreaks \in Nat

\* An object's specification is of the kind of its identifier.
ASSUME SpecsAssumption ==
    /\ \A k \in Objects : \A v \in Specs[k] :
          /\ IdOf[k] \in Policies => v \in Policy
          /\ IdOf[k] \in Profiles => v \in Profile
          /\ IdOf[k] \in Endpoints => v \in Endpoint
          /\ IdOf[k] \in Tiers => v \in Nat
    /\ \A start \in Stores :
          /\ start = [k \in Objects |-> start[k]]
          /\ \A k \in Objects : start[k] \in Specs[k] \cup {Absent}

VARIABLES
    store, known,        \* the datastore; what of it has been delivered
    connected, listed,   \* kinds being watched; kinds once listed in full
    graph, seq,          \* CalcGraph, EventSequencer
    queue,               \* channel to the dataplane loop
    table,               \* PolicyTableManager's desired state
    dirty, inSync,       \* an apply is owed; InSync has been received
    applied,             \* last table applied since the agent started
    kernel,              \* the table in the kernel; Absent: one from before
    changes, breaks,     \* used up of the bounds
    crossed, retiered    \* sets dropped and registered in one update and
                         \* active policies given another tier (history)

watch == <<store, known, connected, listed, changes, breaks>>
agent == <<graph, seq, crossed, retiered>>
dataplane == <<table, dirty, inSync, applied, kernel>>
vars == <<watch, agent, queue, dataplane>>

ObjectsOf(kind) == {k \in Objects : KindOf[k] = kind}
Undelivered(kind) == {k \in ObjectsOf(kind) : store[k] # known[k]}

EmptyTable == [sets      |-> [s \in IpSets |-> Absent],
               rules     |-> [i \in Owners \X Tables |-> Absent],
               endpoints |-> [e \in Endpoints |-> Absent]]

Init ==
    /\ store \in Stores
    /\ known = [k \in Objects |-> Absent]
    /\ connected = Kinds /\ listed = {}
    /\ graph = EmptyGraph /\ seq = EmptySequencer
    /\ queue = << >>
    /\ table = EmptyTable /\ applied = Absent /\ kernel = Absent
    /\ dirty = FALSE /\ inSync = FALSE
    /\ changes = 0 /\ breaks = 0
    /\ crossed = {} /\ retiered = {}

-----------------------------------------------------------------------------
(* The datastore and the watches on it. *)

Change(k) ==
    /\ changes < MaxChanges
    /\ KindOf[k] \in connected => Undelivered(KindOf[k]) = {}
    /\ \E v \in Specs[k] \cup {Absent} :
          v # store[k] /\ store' = [store EXCEPT ![k] = v]
    /\ changes' = changes + 1
    /\ UNCHANGED <<known, connected, listed, breaks, agent, queue, dataplane>>

Connect(kind) ==
    /\ kind \notin connected
    /\ connected' = connected \cup {kind}
    /\ UNCHANGED <<store, known, listed, changes, breaks, agent, queue, dataplane>>

Break(kind) ==
    /\ breaks < MaxBreaks
    /\ kind \in connected
    /\ connected' = connected \ {kind}
    /\ breaks' = breaks + 1
    /\ UNCHANGED <<store, known, listed, changes, agent, queue, dataplane>>

(* An active policy whose tier changes, though the policy stays active. *)
Retiered(before, after) ==
    {p \in Policies \cap before.active \cap after.active :
        before.policies[p].tier # after.policies[p].tier}

(* The watch hands an update to the graph; deletions end a list. *)
Hand(k) ==
    /\ KindOf[k] \in connected
    /\ k \in Undelivered(KindOf[k])
    /\ store[k] = Absent => \A j \in Undelivered(KindOf[k]) : store[j] = Absent
    /\ queue = << >>
    /\ known' = [known EXCEPT ![k] = store[k]]

(* All messages of a flush, in their order, go into the channel. *)
FlushToChannel(q) ==
    /\ queue' = Flush(q)
    /\ seq' = Flushed(q)

(* One update through the graph, the sequencer and into the channel. *)
Deliver(k) ==
    /\ Hand(k)
    /\ LET r == OnUpdate(graph, IdOf[k], store[k])
       IN  /\ graph' = r.g
           /\ FlushToChannel(Ingest(seq, graph, r))
           /\ crossed' = crossed \cup (r.out.added \cap r.out.removed)
           /\ retiered' = retiered \cup Retiered(graph, r.g)
    /\ UNCHANGED <<store, connected, listed, changes, breaks, dataplane>>

(* A kind is in sync; the merged status follows when all of them are. *)
ListDone(kind) ==
    /\ kind \in connected \ listed
    /\ Undelivered(kind) = {}
    /\ queue = << >>
    /\ listed' = listed \cup {kind}
    /\ IF listed' = Kinds
       THEN FlushToChannel(MarkInSync(seq))
       ELSE UNCHANGED <<queue, seq>>
    /\ UNCHANGED <<store, known, connected, changes, breaks, graph, crossed,
                   retiered, dataplane>>

-----------------------------------------------------------------------------
(* The dataplane loop and the table manager. *)

Absorb(t, m) ==
    CASE m.kind = "set"      -> [t EXCEPT !.sets[m.set] = m.content]
      [] m.kind = "members"  ->
            [t EXCEPT !.sets[m.set] =
                LET old == IF @ = Absent THEN [type |-> "ip", members |-> {}] ELSE @
                IN  [old EXCEPT !.members = (@ \cup m.plus) \ m.minus]]
      [] m.kind = "rules"    -> [t EXCEPT !.rules[<<m.owner, m.tier>>] = m.rules]
      [] m.kind = "endpoint" -> [t EXCEPT !.endpoints[m.endpoint] = m.detail]
      [] m.kind = "insync"   -> t

Receive ==
    /\ queue # << >>
    /\ queue' = Tail(queue)
    /\ table' = Absorb(table, Head(queue))
    /\ inSync' = (inSync \/ Head(queue).kind = "insync")
    /\ dirty' = TRUE
    /\ UNCHANGED <<watch, agent, applied, kernel>>

(* The sets that some chain of the table matches on. *)
SetsReferred(t) ==
    UNION {SetsOf[t.rules[i]] : i \in {x \in Owners \X Tables : t.rules[x] # Absent}}

(* nft rejects a document whose rules match on a set it does not declare. *)
Renderable(t) == \A s \in SetsReferred(t) : t.sets[s] # Absent

(* Time is left out: the throttle and the back-off let a round run in the end. *)
(* Slip: a round runs for any message, without waiting for InSync.         *)
ApplyWhenDirty == dirty
MayApply == dirty /\ inSync

(* nft.rs: nft takes the whole document in one transaction, or none of it.  *)
ApplyRuleset(document) == Renderable(document) /\ kernel' = document

(***************************************************************************)
(* A round that succeeds.  One that fails changes nothing but the back-off *)
(* and is tried again; a table that has been applied is not applied again. *)
(***************************************************************************)
Apply ==
    /\ MayApply
    /\ \/ /\ applied = table
          /\ UNCHANGED <<applied, kernel>>
       \/ /\ applied # table
          /\ ApplyRuleset(table)
          /\ applied' = table
    /\ dirty' = FALSE
    /\ UNCHANGED <<watch, agent, queue, table, inSync>>

(* The agent starts afresh; the kernel keeps its table. *)
Restart ==
    /\ breaks < MaxBreaks
    /\ breaks' = breaks + 1
    /\ known' = [k \in Objects |-> Absent]
    /\ connected' = Kinds /\ listed' = {}
    /\ graph' = EmptyGraph /\ seq' = EmptySequencer
    /\ queue' = << >>
    /\ table' = EmptyTable /\ applied' = Absent
    /\ dirty' = FALSE /\ inSync' = FALSE
    /\ crossed' = {} /\ retiered' = {}
    /\ UNCHANGED <<store, changes, kernel>>

Next ==
    \/ \E k \in Objects : Change(k) \/ Deliver(k)
    \/ \E kind \in Kinds : Connect(kind) \/ Break(kind) \/ ListDone(kind)
    \/ Receive \/ Apply \/ Restart

(***************************************************************************)
(* The task that watches and calculates keeps going (a lost watch is       *)
(* opened again), and so does the dataplane loop; nft accepts a valid      *)
(* table in the end.  Every Hand is a Deliver, whose ENABLED TLC is slow   *)
(* to evaluate.                                                            *)
(***************************************************************************)
Fairness ==
    /\ WF_known(\E k \in Objects : Hand(k))
    /\ WF_vars(\E kind \in Kinds : Connect(kind) \/ ListDone(kind))
    /\ WF_vars(Receive \/ Apply)

Spec == Init /\ [][Next]_vars /\ Fairness

-----------------------------------------------------------------------------
(* Properties. *)

(***************************************************************************)
(* No two objects are given the same identifier.  The adapter does not see *)
(* to it: run policy_names shows where it gives one to two objects.        *)
(***************************************************************************)
OwnIdentifiers == \A j, k \in Objects : IdOf[j] = IdOf[k] => j = k

(* What the objects say of an identifier. *)
Held(objects, id, none) ==
    IF \E k \in Objects : IdOf[k] = id /\ objects[k] # Absent
    THEN objects[CHOOSE k \in Objects : IdOf[k] = id /\ objects[k] # Absent]
    ELSE none

(***************************************************************************)
(* The graph that some objects define, computed from scratch: the inputs,  *)
(* then the local endpoints, then what is active, then the references.     *)
(***************************************************************************)
GraphOf(objects) ==
    LET profiles == [f \in Profiles |-> Held(objects, f, Absent)]
        inputs == [EmptyGraph EXCEPT
            !.policies = [p \in Policies |-> Held(objects, p, Absent)],
            !.profiles = profiles,
            !.labels = [f \in Profiles |->
                IF profiles[f] = Absent THEN NoLabel ELSE profiles[f].label],
            !.items = [e \in Endpoints |-> Held(objects, e, Absent)],
            !.tiers = [t \in Tiers |-> Held(objects, t, NoOrder)]]
        placed == [inputs EXCEPT !.local = [e \in Endpoints |->
            IF inputs.items[e] # Absent /\ inputs.items[e].local
            THEN LocalView(inputs, e) ELSE Absent]]
        active == NowActive(placed)
        refs == [o \in Owners |-> IF o \in active THEN SetsOf[RulesOf(placed, o)] ELSE {}]
    IN  [placed EXCEPT
            !.active = active,
            !.refs = refs,
            !.count = [s \in IpSets |-> Cardinality({o \in Owners : s \in refs[o]})],
            !.resolved = [o \in Owners |->
                IF o \in active THEN RulesOf(placed, o) ELSE Absent]]

(* The table that enforces a graph, but for the types of its sets. *)
TableOf(g) ==
    [sets |-> [s \in IpSets |->
        IF g.count[s] = 0 THEN Absent ELSE IpSetMembers(g, s)],
     rules |-> [i \in Owners \X Tables |->
        IF i[1] \in g.active /\ i[2] = TierOf(g, i[1]) THEN g.resolved[i[1]] ELSE Absent],
     endpoints |-> [e \in Endpoints |->
        IF IsLocal(g, e) THEN EndpointDetail(g, e) ELSE Absent]]

MembersIn(t) == [s \in IpSets |-> IF t.sets[s] = Absent THEN Absent
                                  ELSE t.sets[s].members]

Table == [sets      : [IpSets -> Set \cup {Absent}],
          rules     : [Owners \X Tables -> Rules \cup {Absent}],
          endpoints : [Endpoints -> SentEndpoint \cup {Absent}]]

(* Every message is one of the protocol, also under tiers that change: a    *)
(* policy is removed under the tier it was sent with.                      *)
TypeOK ==
    /\ \A k \in Objects : {store[k], known[k]} \subseteq Specs[k] \cup {Absent}
    /\ connected \cup listed \subseteq Kinds
    /\ graph \in Graph /\ seq \in Sequencer
    /\ \A i \in DOMAIN queue : queue[i] \in ToDataplane
    /\ table \in Table
    /\ {applied, kernel} \subseteq Table \cup {Absent}
    /\ {dirty, inSync} \subseteq BOOLEAN
    /\ changes \in 0 .. MaxChanges /\ breaks \in 0 .. MaxBreaks
    /\ crossed \subseteq IpSets /\ retiered \subseteq Policies

(***************************************************************************)
(* The graph keeps its caches (effective labels, active sets, references   *)
(* and their counts, scanned rules) equal to what its inputs define, in    *)
(* whatever order they arrive and change: CalcGraph::on_update recomputes  *)
(* everything an update can affect.                                        *)
(***************************************************************************)
GraphCoherent == graph = GraphOf(known)

(***************************************************************************)
(* When the channel is empty the table manager's desired state is what the *)
(* graph asks for: ingest and flush lose, duplicate and resurrect nothing. *)
(* Two kinds of update do leave a difference behind: `crossed`, an IP set  *)
(* that one update both drops and registers (event_sequencer.rs:117), and  *)
(* `retiered`, an active policy whose tier changes (active_rules.rs:226).  *)
(* Types are not compared: a set keeps the type of its first snapshot      *)
(* (event_sequencer.rs:235).                                               *)
(***************************************************************************)
TableFollowsGraph ==
    LET want == TableOf(graph)
    IN  queue = << >> =>
        /\ \A s \in IpSets \ crossed : MembersIn(table)[s] = want.sets[s]
        /\ \A i \in (Owners \ retiered) \X Tables : table.rules[i] = want.rules[i]
        /\ table.endpoints = want.endpoints

(***************************************************************************)
(* At every message, not only between flushes, the chains in the desired   *)
(* state refer to sets and policies that are there: flush_into's order.    *)
(***************************************************************************)
Referenced(t, i) ==
    t.rules[i] # Absent => \A s \in SetsOf[t.rules[i]] \ crossed : t.sets[s] # Absent

Dispatched(t, e) ==
    t.endpoints[e] # Absent =>
        \A n \in DOMAIN t.endpoints[e].order :
            LET at == t.endpoints[e].order[n]
            IN  at[2] \in retiered \/ t.rules[<<at[2], at[1]>>] # Absent

ReferencesResolve ==
    /\ \A i \in (Owners \ retiered) \X Tables : Referenced(table, i)
    /\ \A e \in Endpoints : Dispatched(table, e)

(***************************************************************************)
(* The kernel's table is replaced only by one that holds every endpoint of *)
(* this node that the first complete lists have shown, never by part of a  *)
(* snapshot: the in-sync gate of DataplaneState::should_apply.             *)
(***************************************************************************)
NoPartialTable ==
    [][kernel' # kernel =>
          /\ listed = Kinds
          /\ \A e \in Endpoints : IsLocal(graph, e) /\ queue = << >>
                => kernel'.endpoints[e] = EndpointDetail(graph, e)]_vars

(***************************************************************************)
(* Once the datastore is left alone the kernel ends up with the table that *)
(* the datastore defines, through lost watches and restarts.               *)
(***************************************************************************)
Enforced(t) ==
    kernel # Absent /\ [kernel EXCEPT !.sets = MembersIn(kernel)] = t

Converges ==
    <>[](Enforced(TableOf(GraphOf(store))) \/ crossed # {} \/ retiered # {})

=============================================================================
