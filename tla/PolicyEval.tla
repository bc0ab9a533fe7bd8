----------------------------- MODULE PolicyEval ----------------------------
(***************************************************************************)
(* The decision engine of crates/calc: policies as resources, what         *)
(* from_resources.rs makes of them, and policy_eval.rs, which classifies a *)
(* packet.  Pure operators.                                                *)
(*                                                                         *)
(* Data.  A spec is [order, selector, types, rules], its rules a sequence  *)
(* per direction; a rule is [action, protocol, source, destination] and    *)
(* each side [selector, namespaceSelector, nets, notNets, ports].  A text  *)
(* is a token sequence (Selectors), empty when it is not given; nets and   *)
(* ports are sets, empty when not given; a net is the set of its           *)
(* addresses.  AnyProtocol stands for no protocol.                         *)
(***************************************************************************)
EXTENDS Selectors, SequencesExt

AnyProtocol == "any"
Unordered == 1000000                    \* the order of a policy that gives none
Directions == {"ingress", "egress"}

AnyEntity == [selector |-> << >>, namespaceSelector |-> << >>,
              nets |-> {}, notNets |-> {}, ports |-> {}]

SelectorOrAll(text) == IF text = << >> THEN All ELSE Parse(text).sel

-----------------------------------------------------------------------------
(* from_resources.rs.  NoPeer: no constraint on the peer. *)

NoPeer == << >>

\* Only the peer's selector and the destination's ports are read.
MapRule(rule, dir) ==
    LET peer == IF dir = "ingress" THEN rule.source ELSE rule.destination
    IN  [action |-> rule.action, protocol |-> rule.protocol,
         peer |-> IF peer.selector = << >> THEN NoPeer ELSE Parse(peer.selector).sel,
         ports |-> rule.destination.ports]

MapRules(spec) == [d \in Directions |->
                      [i \in DOMAIN spec.rules[d] |-> MapRule(spec.rules[d][i], d)]]

\* With no types given: egress if it has egress rules, ingress if it has ingress
\* rules or no rules at all.
TypesOf(spec) ==
    IF spec.types # {} THEN spec.types
    ELSE {d \in Directions : \/ spec.rules[d] # << >>
                             \/ d = "ingress" /\ spec.rules["egress"] = << >>}

NetworkPolicyToEval(spec) == [selector |-> SelectorOrAll(spec.selector),
                              types |-> TypesOf(spec), rules |-> MapRules(spec)]

ProfileToEval(profile) == [selector |-> All, types |-> Directions,
                           rules |-> MapRules(profile)]

\* One tier that denies at its end; policies of one order keep their place.
EvaluatorFrom(specs, profiles) ==
    LET before(i, j) == \/ specs[i].order < specs[j].order
                        \/ specs[i].order = specs[j].order /\ i < j
        sorted == SetToSortSeq(DOMAIN specs, before)
        tier == [policies |-> [i \in DOMAIN sorted |-> NetworkPolicyToEval(specs[sorted[i]])],
                 default |-> "Deny"]
    IN  [tiers |-> IF specs = << >> THEN << >> ELSE <<tier>>,
         profiles |-> [i \in DOMAIN profiles |-> ProfileToEval(profiles[i])]]

-----------------------------------------------------------------------------
(***************************************************************************)
(* policy_eval.rs.  A packet is seen from its subject: [direction, peer,   *)
(* protocol, port], `peer` the labels of the other end.                    *)
(***************************************************************************)

RuleMatches(rule, pkt) ==
    /\ rule.protocol \in {AnyProtocol, pkt.protocol}
    /\ rule.ports = {} \/ pkt.port \in rule.ports
    /\ rule.peer = NoPeer \/ Matches(rule.peer, pkt.peer)

Selecting(policies, subject, dir) ==
    SelectSeq(policies, LAMBDA p : dir \in p.types /\ Matches(p.selector, subject))

\* The action of the first rule that matches and acts; a Log goes on.
FirstAction(policies, pkt, acting) ==
    LET rules == FlattenSeq([i \in DOMAIN policies |-> policies[i].rules[pkt.direction]])
        hits == SelectSeq(rules, LAMBDA r : RuleMatches(r, pkt) /\ r.action \in acting)
    IN  IF hits = << >> THEN "none" ELSE hits[1].action

\* A tier that selects the subject decides, or passes.
TierVerdict(tier, subject, pkt) ==
    LET policies == Selecting(tier.policies, subject, pkt.direction)
        first == FirstAction(policies, pkt, {"Allow", "Deny", "Pass"})
    IN  CASE policies = << >> -> "Pass"
          [] first # "none" -> first
          [] OTHER -> tier.default

Evaluate(evaluator, subject, pkt) ==
    LET deciding == SelectSeq(evaluator.tiers,
                       LAMBDA t : TierVerdict(t, subject, pkt) # "Pass")
        profile == FirstAction(evaluator.profiles, pkt, {"Allow", "Deny"})
    IN  CASE deciding # << >> -> TierVerdict(deciding[1], subject, pkt)
          [] profile # "none" -> profile
          [] OTHER -> "Allow"

-----------------------------------------------------------------------------
(***************************************************************************)
(* The walk once more, with the reason for its end: the place of the rule  *)
(* that decided, the tier that dropped, the profile's rule, or nothing.    *)
(***************************************************************************)
TracedDecision(decision, reason) == [decision |-> decision, reason |-> reason]
Passed == TracedDecision("Pass", << >>)

\* The places <<policy, rule>> of the rules that match and act.
Acting(policies, pkt, acting) ==
    {at \in UNION {{p} \X DOMAIN policies[p].rules[pkt.direction] : p \in DOMAIN policies} :
        LET rule == policies[at[1]].rules[pkt.direction][at[2]]
        IN  RuleMatches(rule, pkt) /\ rule.action \in acting}

Earliest(places) ==
    CHOOSE at \in places :
        \A other \in places : \/ at[1] < other[1]
                              \/ (at[1] = other[1] /\ at[2] <= other[2])

TracedTier(t, tier, subject, pkt) ==
    LET selecting == {p \in DOMAIN tier.policies :
                        /\ pkt.direction \in tier.policies[p].types
                        /\ Matches(tier.policies[p].selector, subject)}
        places == {at \in Acting(tier.policies, pkt, {"Allow", "Deny", "Pass"}) :
                     at[1] \in selecting}
        at == Earliest(places)
        action == tier.policies[at[1]].rules[pkt.direction][at[2]].action
    IN  CASE selecting = {} -> Passed
          [] places # {} /\ action = "Pass" -> Passed
          [] places # {} -> TracedDecision(action,
                               <<"RuleMatch", t, at[1], pkt.direction, at[2], action>>)
          [] tier.default = "Deny" -> TracedDecision("Deny", <<"EndOfTierDrop", t>>)
          [] OTHER -> Passed

EvaluateTraced(evaluator, subject, pkt) ==
    LET traced == [t \in DOMAIN evaluator.tiers |->
                      TracedTier(t, evaluator.tiers[t], subject, pkt)]
        deciding == SelectSeq(traced, LAMBDA d : d # Passed)
        fallback == SelectSeq(evaluator.profiles, LAMBDA p : pkt.direction \in p.types)
        places == Acting(fallback, pkt, {"Allow", "Deny"})
        at == Earliest(places)
        action == fallback[at[1]].rules[pkt.direction][at[2]].action
    IN  CASE deciding # << >> -> deciding[1]
          [] places # {} -> TracedDecision(action, <<"ProfileMatch", at[1], at[2], action>>)
          [] OTHER -> TracedDecision("Allow", <<"DefaultAllow">>)
=============================================================================
