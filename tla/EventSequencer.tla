--------------------------- MODULE EventSequencer ---------------------------
(***************************************************************************)
(* The event sequencer (crates/calc/src/event_sequencer.rs): it buffers    *)
(* the deltas of graph updates, coalesces them, and flushes them as        *)
(* messages in dependency order.  The policy agent flushes after every     *)
(* update; Ingest is written for any number of updates between flushes,    *)
(* as the code is.                                                         *)
(*                                                                         *)
(* A policy is known to the dataplane by its tier and its name, a profile  *)
(* by its name alone (NoTier).  The order of the messages of one kind in   *)
(* one flush (of their names, in the code) is left to SetToSeq.            *)
(***************************************************************************)
EXTENDS CalcGraph

CONSTANT NoTier

ASSUME NoTierAssumption == NoTier \notin Tiers

Tables == Tiers \cup {NoTier}
SentEndpoint == [order : Seq(Tiers \X Policies), profiles : Seq(Profiles),
                 members : SUBSET Members]

(***************************************************************************)
(* The messages to the dataplane (crates/proto).  Absent as the content of *)
(* one is the removal; routes and configuration are not sent from here.    *)
(***************************************************************************)
Set == [type : {"ip", "net"}, members : SUBSET Members]
SetMessage == [kind : {"set"}, set : IpSets, content : Set \cup {Absent}]
MembersMessage == [kind : {"members"}, set : IpSets, plus : SUBSET Members,
                   minus : SUBSET Members]
PolicyMessage == [kind : {"rules"}, owner : Policies, tier : Tiers,
                  rules : Rules \cup {Absent}]
ProfileMessage == [kind : {"rules"}, owner : Profiles, tier : {NoTier},
                   rules : Rules \cup {Absent}]
EndpointMessage == [kind : {"endpoint"}, endpoint : Endpoints,
                    detail : SentEndpoint \cup {Absent}]
ToDataplane == SetMessage \cup MembersMessage \cup PolicyMessage
               \cup ProfileMessage \cup EndpointMessage \cup [kind : {"insync"}]

ASSUME ContentAssumption ==
    /\ Absent \notin Tables /\ Absent \notin SentEndpoint /\ Absent \notin Set
    /\ Absent \notin [tier : Tables, rules : Rules]

Sequencer ==
    [addedSets   : [IpSets -> (SUBSET Members) \cup {Absent}],
     plus        : [IpSets -> SUBSET Members],
     minus       : [IpSets -> SUBSET Members],
     removedSets : SUBSET IpSets,
     updates     : [Owners -> [tier : Tables, rules : Rules] \cup {Absent}],
     removes     : [Owners -> Tables \cup {Absent}],
     epUpdates   : [Endpoints -> SentEndpoint \cup {Absent}],
     epRemoves   : SUBSET Endpoints,
     inSyncPending : BOOLEAN,
     inSyncSent  : BOOLEAN,
     sentSets    : SUBSET IpSets,
     sent        : [Owners -> Tables \cup {Absent}],
     sentEps     : SUBSET Endpoints]

EmptySequencer ==
    [addedSets |-> [s \in IpSets |-> Absent],
     plus |-> [s \in IpSets |-> {}], minus |-> [s \in IpSets |-> {}],
     removedSets |-> {},
     updates |-> [o \in Owners |-> Absent], removes |-> [o \in Owners |-> Absent],
     epUpdates |-> [e \in Endpoints |-> Absent], epRemoves |-> {},
     inSyncPending |-> FALSE, inSyncSent |-> FALSE,
     sentSets |-> {}, sent |-> [o \in Owners |-> Absent], sentEps |-> {}]

TierOf(g, o) == IF o \in Policies THEN g.policies[o].tier ELSE NoTier

EndpointDetail(g, e) ==
    [order |-> EndpointOrder(g, e), profiles |-> g.items[e].profiles,
     members |-> g.items[e].members]

-----------------------------------------------------------------------------
(* The steps of EventSequencer::ingest. *)

IngestIpSets(q, g, d) ==
    [q EXCEPT
        !.addedSets = [s \in IpSets |->
            IF s \in d.removed THEN Absent
            ELSE IF s \in d.added \/ @[s] # Absent THEN IpSetMembers(g, s)
            ELSE Absent],
        !.removedSets = (@ \ d.added) \cup (d.removed \cap q.sentSets),
        !.plus  = [s \in IpSets |-> IF s \in d.added \cup d.removed THEN {} ELSE @[s]],
        !.minus = [s \in IpSets |-> IF s \in d.added \cup d.removed THEN {} ELSE @[s]]]

(***************************************************************************)
(* Members that left (`lost`) or joined (`won`) a set since the graph was  *)
(* `before`.  A join cancels a pending departure and the reverse.          *)
(***************************************************************************)
IngestMembers(q, g, before) ==
    LET skip == {s \in IpSets : q.addedSets[s] # Absent} \cup q.removedSets
        won(s)  == IpSetMembers(g, s) \ IpSetMembers(before, s)
        lost(s) == IpSetMembers(before, s) \ IpSetMembers(g, s)
    IN  [q EXCEPT
            !.plus  = [s \in IpSets |-> IF s \in skip THEN @[s]
                           ELSE (@[s] \ lost(s)) \cup (won(s) \ q.minus[s])],
            !.minus = [s \in IpSets |-> IF s \in skip THEN @[s]
                           ELSE (@[s] \ won(s)) \cup (lost(s) \ q.plus[s])]]

(* Slip: what the dataplane has seen is not sent again.                    *)
TransitionsOnce(q, g, d) ==
    [q EXCEPT
        !.updates = [o \in Owners |->
            IF d.last[o] = "active" /\ q.sent[o] = Absent
            THEN [tier |-> TierOf(g, o), rules |-> g.resolved[o]] ELSE @[o]],
        !.removes = [o \in Owners |->
            IF d.last[o] = "inactive" THEN q.sent[o] ELSE @[o]]]
IngestTransitions(q, g, d) ==
    LET on  == {o \in Owners : d.last[o] = "active"}
        off == {o \in Owners : d.last[o] = "inactive"}
    IN  [q EXCEPT
            !.updates = [o \in Owners |->
                IF o \in on THEN [tier |-> TierOf(g, o), rules |-> g.resolved[o]]
                ELSE IF o \in off THEN Absent ELSE @[o]],
            !.removes = [o \in Owners |->
                IF o \in on THEN Absent
                ELSE IF o \in off /\ q.sent[o] # Absent THEN q.sent[o] ELSE @[o]]]

IngestEndpoints(q, g, d) ==
    [q EXCEPT
        !.epUpdates = [e \in Endpoints |->
            IF e \notin d.orders THEN @[e]
            ELSE IF IsLocal(g, e) THEN EndpointDetail(g, e) ELSE Absent],
        !.epRemoves = (@ \ {e \in d.orders : IsLocal(g, e)})
                      \cup {e \in d.orders \cap q.sentEps : ~IsLocal(g, e)}]

Ingest(q, before, r) ==
    LET q1 == IngestIpSets(q, r.g, r.out)
        q2 == IngestMembers(q1, r.g, before)
        q3 == IngestTransitions(q2, r.g, r.out)
    IN  IngestEndpoints(q3, r.g, r.out)

MarkInSync(q) == [q EXCEPT !.inSyncPending = TRUE]

-----------------------------------------------------------------------------
(* EventSequencer::flush_into: the messages, and what is left. *)

Each(S, msg(_)) == LET s == SetToSeq(S) IN [i \in DOMAIN s |-> msg(s[i])]

(* All members are CIDRs, as the adapter of the policy agent makes them. *)
InferType(members) == IF members = {} THEN "ip" ELSE "net"

FlushIpSets(q) ==
    LET full(s)  == [kind |-> "set", set |-> s,
                     content |-> [type |-> InferType(q.addedSets[s]),
                                  members |-> q.addedSets[s]]]
        delta(s) == [kind |-> "members", set |-> s, plus |-> q.plus[s],
                     minus |-> q.minus[s]]
    IN  Each({s \in IpSets : q.addedSets[s] # Absent}, full)
        \o Each({s \in IpSets : q.plus[s] \cup q.minus[s] # {}}, delta)

FlushRules(q, owners) ==
    LET update(o) == [kind |-> "rules", owner |-> o, tier |-> q.updates[o].tier,
                      rules |-> q.updates[o].rules]
    IN  Each({o \in owners : q.updates[o] # Absent}, update)

FlushRuleRemovals(q, owners) ==
    LET remove(o) == [kind |-> "rules", owner |-> o, tier |-> q.removes[o],
                      rules |-> Absent]
    IN  Each({o \in owners : q.removes[o] # Absent}, remove)

FlushEndpoints(q) ==
    LET update(e) == [kind |-> "endpoint", endpoint |-> e, detail |-> q.epUpdates[e]]
        remove(e) == [kind |-> "endpoint", endpoint |-> e, detail |-> Absent]
    IN  Each({e \in Endpoints : q.epUpdates[e] # Absent}, update)
        \o Each(q.epRemoves, remove)

FlushIpSetRemovals(q) ==
    LET remove(s) == [kind |-> "set", set |-> s, content |-> Absent]
    IN  Each(q.removedSets, remove)

(* Slip: the test for a barrier sent before is the wrong way round.        *)
BarrierNeverSent(q) ==
    IF q.inSyncPending /\ q.inSyncSent THEN << [kind |-> "insync"] >> ELSE << >>
FlushInSync(q) ==
    IF q.inSyncPending /\ ~q.inSyncSent THEN << [kind |-> "insync"] >> ELSE << >>

(* Slip: removals of sets go with the updates of sets.                     *)
FlushRemovalsFirst(q) ==
    FlushIpSets(q) \o FlushIpSetRemovals(q)
    \o FlushRules(q, Owners) \o FlushEndpoints(q) \o FlushRuleRemovals(q, Owners)
    \o FlushInSync(q)
Flush(q) ==
    FlushIpSets(q)
    \o FlushRules(q, Policies) \o FlushRules(q, Profiles)
    \o FlushEndpoints(q)
    \o FlushRuleRemovals(q, Profiles) \o FlushRuleRemovals(q, Policies)
    \o FlushIpSetRemovals(q)
    \o FlushInSync(q)

Flushed(q) ==
    [EmptySequencer EXCEPT
        !.inSyncPending = q.inSyncPending /\ q.inSyncSent,
        !.inSyncSent = q.inSyncSent \/ q.inSyncPending,
        !.sentSets = (q.sentSets \cup {s \in IpSets : q.addedSets[s] # Absent})
                     \ q.removedSets,
        !.sent = [o \in Owners |->
            IF q.removes[o] # Absent THEN Absent
            ELSE IF q.updates[o] # Absent THEN q.updates[o].tier ELSE q.sent[o]],
        !.sentEps = (q.sentEps \cup {e \in Endpoints : q.epUpdates[e] # Absent})
                    \ q.epRemoves]

=============================================================================
