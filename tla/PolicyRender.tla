---------------------------- MODULE PolicyRender ---------------------------
(***************************************************************************)
(* From the specs that the calculation graph holds to the chains of        *)
(* nftables: the scanned rules (crates/calc/active_rules.rs), the policies *)
(* of an endpoint (policy_resolver.rs) and their chains                    *)
(* (crates/felix/endpoint_manager.rs).  Pure operators.                    *)
(*                                                                         *)
(* Data.  All policies are in the default tier.  An IP set is named by the *)
(* canonical text of its selector.  A chain is named by a tuple: its kind  *)
(* and the policy, profile or endpoint; a rule is [matches, verdict].      *)
(* Interfaces carry the name of their endpoint.                            *)
(***************************************************************************)
EXTENDS K8sPolicy

CONSTANTS Rank,         \* [policy names -> Nat], their lexical order
          Sanitized     \* [policy names -> policy names], what nft accepts of a name

-----------------------------------------------------------------------------
(* active_rules.rs and policy_resolver.rs *)

CombinePeerSelector(entity) ==
    LET both == entity.namespaceSelector # << >> /\ entity.selector # << >>
        text == IF both THEN Enclosed(entity.namespaceSelector) \o <<<<"&&">>>>
                             \o Enclosed(entity.selector)
                ELSE entity.namespaceSelector \o entity.selector
    IN  IF text = << >> THEN {} ELSE {Text(Parse(text).sel)}

\* What becomes of a side of a rule; notNets are not carried on.
Scanned(entity) == [sets |-> CombinePeerSelector(entity), nets |-> entity.nets,
                    ports |-> entity.ports]

\* A scanned rule, its selectors already resolved to the sets they name.
ScanRule(rule) == [action |-> rule.action, protocol |-> rule.protocol,
                   source |-> Scanned(rule.source), destination |-> Scanned(rule.destination)]

ScanRules(rules) == [i \in DOMAIN rules |-> ScanRule(rules[i])]

\* An endpoint's own labels win over those of its profiles.
Effective(endpoint, profiles) ==
    FoldLeft(LAMBDA labels, f : labels @@ profiles[f].labels, endpoint.labels, endpoint.profiles)

Selects(spec, labels) == Matches(SelectorOrAll(spec.selector), labels)

\* The policies that govern a direction of an endpoint, by order and then by name.
Governing(specs, labels, dir) ==
    LET names == {n \in DOMAIN specs : dir \in TypesOf(specs[n]) /\ Selects(specs[n], labels)}
        before(m, n) == \/ specs[m].order < specs[n].order
                        \/ specs[m].order = specs[n].order /\ Rank[m] < Rank[n]
    IN  SetToSortSeq(names, before)

-----------------------------------------------------------------------------
(* endpoint_manager.rs *)

Nft(matches, verdict) == [matches |-> matches, verdict |-> verdict]

\* The alternatives of one dimension of a rule; {} constrains nothing.
Alternatives(kind, values) ==
    IF values = {} THEN {{}} ELSE {{<<kind, v>>} : v \in values}

Addresses(kind, side) ==
    IF side.nets = {} /\ side.sets = {} THEN {{}}
    ELSE {{<<kind, n>>} : n \in side.nets} \cup {{<<kind \o " @", s>>} : s \in side.sets}

MapAction(action) == CASE action = "Allow" -> <<"mark and return">>
                       [] action = "Deny" -> <<"drop">>
                       [] action = "Pass" -> <<"return">>

RenderRule(rule) ==
    LET src == rule.source
        dst == rule.destination
        proto == IF rule.protocol = AnyProtocol THEN {} ELSE {<<"l4proto", rule.protocol>>}
        matches == {proto \cup UNION {s, d, sp, dp} :
                       s \in Addresses("saddr", src), d \in Addresses("daddr", dst),
                       sp \in Alternatives("sport", src.ports),
                       dp \in Alternatives("dport", dst.ports)}
    IN  IF rule.action = "Log" THEN << >>
        ELSE SetToSeq({Nft(m, MapAction(rule.action)) : m \in matches})

RenderRules(rules) == FlattenSeq([i \in DOMAIN rules |-> RenderRule(rules[i])])

PolicyChainName(name, dir) ==
    <<IF dir = "ingress" THEN "cali-pi" ELSE "cali-po", Sanitized[name]>>
ProfileChainName(name, dir) == <<IF dir = "ingress" THEN "cali-pri" ELSE "cali-pro", name>>
DispatchChainName(name, dir) == <<IF dir = "ingress" THEN "cali-tw" ELSE "cali-fw", name>>
ForwardChain == <<"cali-forward">>

\* Visit the policies, or else the profiles; a set mark ends the visits.
Visits(endpoint, policies, dir) ==
    LET targets == IF policies # << >>
                   THEN [i \in DOMAIN policies |-> PolicyChainName(policies[i], dir)]
                   ELSE [i \in DOMAIN endpoint.profiles |->
                            ProfileChainName(endpoint.profiles[i], dir)]
        visit(c) == <<Nft({}, <<"jump", c>>), Nft({<<"mark">>}, <<"return">>)>>
    IN  FlattenSeq([i \in DOMAIN targets |-> visit(targets[i])])

\* MUTANT of DispatchRules.  The mark of the other direction is left standing.
NoClear(endpoint, policies, dir) ==
    Visits(endpoint, policies, dir) \o <<Nft({}, <<"drop">>)>>

DispatchRules(endpoint, policies, dir) ==
    <<Nft({}, <<"clear">>)>> \o Visits(endpoint, policies, dir) \o <<Nft({}, <<"drop">>)>>

\* The chains of the policies that govern an endpoint, of all profiles and of
\* all endpoints.  Of two policies of one chain name the later one stands.
BuildDesiredChains(specs, profiles, endpoints) ==
    LET governing == [e \in endpoints, d \in Directions |->
                         Governing(specs, Effective(e, profiles), d)]
        active == {n \in DOMAIN specs :
                      \E e \in endpoints : Selects(specs[n], Effective(e, profiles))}
        latest(c, d) == CHOOSE n \in active :
                            /\ PolicyChainName(n, d) = c
                            /\ \A m \in active : PolicyChainName(m, d) = c => Rank[m] <= Rank[n]
        policyChains(d) == [c \in {PolicyChainName(n, d) : n \in active} |->
                               RenderRules(ScanRules(specs[latest(c, d)].rules[d]))]
        profileChains(d) == [c \in {ProfileChainName(f, d) : f \in DOMAIN profiles} |->
                                RenderRules(ScanRules(profiles[c[2]].rules[d]))]
        dispatch(d) == [c \in {DispatchChainName(e.name, d) : e \in endpoints} |->
                           LET e == CHOOSE e \in endpoints : DispatchChainName(e.name, d) = c
                           IN  DispatchRules(e, governing[e, d], d)]
        steer(e) == <<Nft({<<"oifname", e.name>>}, <<"jump", DispatchChainName(e.name, "ingress")>>),
                      Nft({<<"iifname", e.name>>}, <<"jump", DispatchChainName(e.name, "egress")>>)>>
        inOrder == SetToSeq(endpoints)
    IN  policyChains("ingress") @@ policyChains("egress")
        @@ profileChains("ingress") @@ profileChains("egress")
        @@ dispatch("ingress") @@ dispatch("egress")
        @@ (ForwardChain :> FlattenSeq([i \in DOMAIN inOrder |-> steer(inOrder[i])]))

-----------------------------------------------------------------------------
(* nft.rs: what a match asks of a packet [src, dst, in, out, protocol,     *)
(* port] with its mark; `members` maps an IP set to its addresses.         *)

Hits(match, pkt, mark, members) ==
    CASE match[1] = "l4proto" -> pkt.protocol = match[2]
      [] match[1] = "saddr" -> pkt.src \in match[2]
      [] match[1] = "daddr" -> pkt.dst \in match[2]
      [] match[1] = "saddr @" -> pkt.src \in members[match[2]]
      [] match[1] = "daddr @" -> pkt.dst \in members[match[2]]
      [] match[1] = "dport" -> pkt.port = match[2]
      [] match[1] = "sport" -> pkt.sport = match[2]
      [] match[1] = "oifname" -> pkt.out = match[2]
      [] match[1] = "iifname" -> pkt.in = match[2]
      [] match[1] = "mark" -> mark
=============================================================================
