----------------------------- MODULE CalcGraph ------------------------------
(***************************************************************************)
(* Felix's calculation graph (crates/calc): the active-rules calculator,   *)
(* the rule scanner with its reference-counted IP sets, the label index    *)
(* and the policy resolver, as CalcGraph::on_update drives them.  A        *)
(* handler takes the graph and returns it with the deltas it produced;     *)
(* the agent that keeps a graph is in PolicyAgent.                         *)
(*                                                                         *)
(* Data.  Selectors and labels are reduced to one label key: an endpoint   *)
(* has its own value for it or inherits the value of the first of its      *)
(* profiles that has one, and a selector is the set of values it matches   *)
(* (NoLabel: the key is absent).  Rules are an opaque value that names the *)
(* IP sets of its peer selectors.  Ingress and egress are not told apart.  *)
(* A network set is an endpoint of another node without profiles.          *)
(* The index's counters are abstracted to the membership they yield.       *)
(***************************************************************************)
EXTENDS Naturals, FiniteSets, Sequences, SequencesExt

CONSTANTS
    Policies, Profiles, Endpoints, Tiers,   \* identifiers known to the graph
    IpSets, Labels, Members,
    Rules,       \* bodies of policies and profiles
    SetsOf,      \* [Rules -> sets that a body's peer selectors name]
    Peers,       \* [IpSets -> label values that a peer selector matches]
    Rank,        \* lexical position of the names of policies and tiers
    NoOrder,     \* the order of what has none: above every order
    NoLabel,     \* no value for the label
    Absent       \* not present

Owners == Policies \cup Profiles
Values == Labels \cup {NoLabel}

Policy == [selector : SUBSET Values, rules : Rules, tier : Tiers, order : Nat]
Profile == [label : Values, rules : Rules]
Endpoint == [local : BOOLEAN, label : Values, profiles : Seq(Profiles),
             members : SUBSET Members]
LocalEndpoint == [label : Values, profiles : Seq(Profiles)]

ASSUME NamesAssumption ==
    /\ Policies \cap Profiles = {} /\ Endpoints \cap Owners = {}
    /\ Tiers \cap (Owners \cup Endpoints) = {}
    /\ IsFiniteSet(Owners) /\ IsFiniteSet(Endpoints) /\ IsFiniteSet(IpSets)
    /\ SetsOf \in [Rules -> SUBSET IpSets]
    /\ Peers \in [IpSets -> SUBSET Values]
    /\ Rank \in [Policies \cup Tiers -> Nat]
    /\ \A p, q \in Policies : Rank[p] = Rank[q] => p = q
    /\ NoOrder \in Nat
ASSUME AbsentAssumption ==
    /\ Absent \notin Rules /\ Absent \notin Nat
    /\ \A members \in SUBSET Members : members # Absent
    /\ Absent \notin Policy /\ Absent \notin Profile
    /\ Absent \notin Endpoint /\ Absent \notin LocalEndpoint

(***************************************************************************)
(* `local` is what the calculator and the resolver know of an endpoint of  *)
(* this node: its effective label.  `count` holds the reference counts and *)
(* `refs` the sets each owner refers to; `resolved` the scanned rules.     *)
(***************************************************************************)
Graph == [policies : [Policies -> Policy \cup {Absent}],
          profiles : [Profiles -> Profile \cup {Absent}],
          labels   : [Profiles -> Values],
          items    : [Endpoints -> Endpoint \cup {Absent}],
          local    : [Endpoints -> LocalEndpoint \cup {Absent}],
          tiers    : [Tiers -> Nat],
          active   : SUBSET Owners,
          refs     : [Owners -> SUBSET IpSets],
          count    : [IpSets -> Nat],
          resolved : [Owners -> Rules \cup {Absent}]]

EmptyGraph == [policies |-> [p \in Policies |-> Absent],
               profiles |-> [f \in Profiles |-> Absent],
               labels   |-> [f \in Profiles |-> NoLabel],
               items    |-> [e \in Endpoints |-> Absent],
               local    |-> [e \in Endpoints |-> Absent],
               tiers    |-> [t \in Tiers |-> NoOrder],
               active   |-> {},
               refs     |-> [o \in Owners |-> {}],
               count    |-> [s \in IpSets |-> 0],
               resolved |-> [o \in Owners |-> Absent]]

(* `last` is the last transition of an owner in the update. *)
NoDeltas == [added |-> {}, removed |-> {}, orders |-> {},
             last |-> [o \in Owners |-> "none"]]

-----------------------------------------------------------------------------
(* What the graph says of its inputs. *)

EffectiveLabel(labels, own, profiles) ==
    LET giving == {i \in DOMAIN profiles : labels[profiles[i]] # NoLabel}
    IN  IF own # NoLabel \/ giving = {} THEN own
        ELSE labels[profiles[CHOOSE i \in giving : \A j \in giving : i <= j]]

LocalView(g, e) ==
    LET item == g.items[e]
    IN  [label |-> EffectiveLabel(g.labels, item.label, item.profiles),
         profiles |-> item.profiles]

IsLocal(g, e) == g.local[e] # Absent

IpSetMembers(g, s) ==
    IF g.count[s] = 0 THEN {}
    ELSE UNION {g.items[e].members : e \in {x \in Endpoints :
             g.items[x] # Absent /\ LocalView(g, x).label \in Peers[s]}}

Matched(g, policy) ==
    {e \in Endpoints : policy # Absent /\ IsLocal(g, e)
                       /\ g.local[e].label \in policy.selector}

NowActive(g) ==
    {p \in Policies : Matched(g, g.policies[p]) # {}}
    \cup {f \in Profiles : g.profiles[f] # Absent /\ \E e \in Endpoints :
              IsLocal(g, e) /\ f \in Range(g.local[e].profiles)}

RulesOf(g, o) == IF o \in Policies THEN g.policies[o].rules
                                   ELSE g.profiles[o].rules

Precedes(a, b) == \E i \in DOMAIN a : a[i] < b[i] /\ \A j \in 1 .. i - 1 : a[j] = b[j]

SortKey(tiers, policy, p) ==
    <<tiers[policy.tier], Rank[policy.tier], policy.order, Rank[p]>>

(* The policies of an endpoint in order, each with its tier. *)
Ordered(tiers, policies, ps) ==
    LET before(p) == {q \in ps : Precedes(SortKey(tiers, policies[q], q),
                                          SortKey(tiers, policies[p], p))}
        at(i) == CHOOSE p \in ps : Cardinality(before(p)) = i - 1
    IN  [i \in 1 .. Cardinality(ps) |-> <<policies[at(i)].tier, at(i)>>]

EndpointOrder(g, e) ==
    Ordered(g.tiers, g.policies, {p \in Policies : e \in Matched(g, g.policies[p])})

-----------------------------------------------------------------------------
Begin(g) == [g |-> g, out |-> NoDeltas]

(* A reference count after `gained` new referrers and `lost` old ones.     *)
(* Slip: a referrer is given up once for each direction of its rules.      *)
CountedTwice(n, gained, lost) == (n + gained) - 2 * lost
Counted(n, gained, lost) == (n + gained) - lost

(***************************************************************************)
(* The owners `os` come to refer to the sets that `to` (rules, or Absent)  *)
(* names.  All of them gain references, or all lose them, or there is only *)
(* one, which gains first: so the edges 0 -> 1 and 1 -> 0 of the stage are *)
(* those of the code's one-by-one counting.                                *)
(***************************************************************************)
Scan(r, os, to) ==
    LET g == r.g
        wanted == [o \in Owners |-> IF o \notin os THEN g.refs[o]
                                    ELSE IF to[o] = Absent THEN {} ELSE SetsOf[to[o]]]
        gain(s) == {o \in os : s \in wanted[o] \ g.refs[o]}
        lose(s) == {o \in os : s \in g.refs[o] \ wanted[o]}
        count == [s \in IpSets |->
                     Counted(g.count[s], Cardinality(gain(s)), Cardinality(lose(s)))]
    IN  [r EXCEPT !.g.refs = wanted,
                  !.g.count = count,
                  !.g.resolved = [o \in Owners |-> IF o \in os THEN to[o] ELSE @[o]],
                  !.out.added = @ \cup {s \in IpSets : g.count[s] = 0 /\ gain(s) # {}},
                  !.out.removed = @ \cup {s \in IpSets : count[s] = 0 /\ lose(s) # {}},
                  !.out.last = [o \in Owners |->
                      IF o \notin os THEN @[o]
                      ELSE IF to[o] = Absent THEN "inactive" ELSE "active"]]

Activate(r, os) == Scan(r, os, [o \in os |-> RulesOf(r.g, o)])
Deactivate(r, os) == Scan(r, os, [o \in os |-> Absent])

(* Policies first, activations before deactivations. *)
ApplyTransitions(r, on, off) ==
    LET r1 == Activate(r, on \cap Policies)
        r2 == Deactivate(r1, off \cap Policies)
        r3 == Activate(r2, on \cap Profiles)
    IN  Deactivate(r3, off \cap Profiles)

Recompute(r) ==
    LET now == NowActive(r.g)
        r1 == ApplyTransitions(r, now \ r.g.active, r.g.active \ now)
    IN  [r1 EXCEPT !.g.active = now]

(* An owner that stays active is scanned again when its rules change. *)
Rescan(r, g, o, changed) ==
    IF changed /\ o \in g.active /\ o \in r.g.active THEN Activate(r, {o}) ELSE r

(* The calculator of active rules takes a policy, a profile, an endpoint. *)
TakePolicy(g, p, new) ==
    LET old == g.policies[p]
        r == Recompute(Begin([g EXCEPT !.policies[p] = new]))
    IN  Rescan(r, g, p, old # Absent /\ new # Absent /\ old.rules # new.rules)

TakeProfile(g, f, new) ==
    LET old == g.profiles[f]
        r == Recompute(Begin([g EXCEPT !.profiles[f] = new]))
    IN  Rescan(r, g, f, old # Absent /\ new # Absent /\ old.rules # new.rules)

TakeEndpoint(r, e, view) == Recompute([r EXCEPT !.g.local[e] = view])

(* The resolver tells whose order may have changed. *)
PolicyReorders(g, old, new) == Matched(g, old) \cup Matched(g, new)
EndpointReorders(r, e) == [r EXCEPT !.out.orders = @ \cup {e}]
AllReorder(g) == {e \in Endpoints : IsLocal(g, e)}

UpdateLocal(r, e) == EndpointReorders(TakeEndpoint(r, e, LocalView(r.g, e)), e)

RemoveLocal(r, e) ==
    IF IsLocal(r.g, e) THEN EndpointReorders(TakeEndpoint(r, e, Absent), e) ELSE r

(* Each local endpoint that names the profile, one after the other.        *)
(* Slip: its labels are taken over only with the endpoint's next update.   *)
NotRedriven(r, f) == r
RedriveProfileEndpoints(r, f) ==
    LET es == SetToSeq({e \in Endpoints :
                  IsLocal(r.g, e) /\ f \in Range(r.g.local[e].profiles)})
        driven[i \in 0 .. Len(es)] ==
            IF i = 0 THEN r ELSE UpdateLocal(driven[i - 1], es[i])
    IN  driven[Len(es)]

-----------------------------------------------------------------------------
(* CalcGraph::on_update, for each kind of resource; Absent removes it. *)

OnPolicy(g, p, new) ==
    [TakePolicy(g, p, new) EXCEPT !.out.orders = PolicyReorders(g, g.policies[p], new)]

OnProfile(g, f, new) ==
    RedriveProfileEndpoints([TakeProfile(g, f, new) EXCEPT
        !.g.labels[f] = IF new = Absent THEN NoLabel ELSE new.label], f)

OnWorkloadEndpoint(g, e, new) ==
    LET r == Begin([g EXCEPT !.items[e] = new])
    IN  IF new # Absent /\ new.local THEN UpdateLocal(r, e) ELSE RemoveLocal(r, e)

OnTier(g, t, new) ==
    LET r == Begin([g EXCEPT !.tiers[t] = IF new = Absent THEN NoOrder ELSE new])
    IN  [r EXCEPT !.out.orders = AllReorder(g)]

OnUpdate(g, id, new) ==
    CASE id \in Policies  -> OnPolicy(g, id, new)
      [] id \in Profiles  -> OnProfile(g, id, new)
      [] id \in Endpoints -> OnWorkloadEndpoint(g, id, new)
      [] id \in Tiers     -> OnTier(g, id, new)

=============================================================================
