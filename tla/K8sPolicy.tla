----------------------------- MODULE K8sPolicy -----------------------------
(***************************************************************************)
(* Kubernetes objects as Calico sees them (crates/datastore/conversion),   *)
(* the confinement of policies to namespaces (crates/calc/scope.rs) and    *)
(* the direct translation of a NetworkPolicy (crates/calc/k8s_policy.rs).  *)
(* Pure operators.                                                         *)
(*                                                                         *)
(* Data.  A NetworkPolicy is [podSelector, types, rules]; a rule is        *)
(* [peers, ports] and a peer [pods, namespaces, block]; a port is          *)
(* [protocol, defaulted, kind, low, high]: `defaulted` says that no        *)
(* protocol was given, and kind is one of "number", "all" (no port),       *)
(* "named" and "range".  A label selector is [labels, exprs].  What is not *)
(* given is Unset.                                                         *)
(***************************************************************************)
EXTENDS PolicyEval, TLC

CONSTANT Unset

LabelNamespace == "projectcalico.org/namespace"
LabelOrchestrator == "projectcalico.org/orchestrator"
LabelServiceAccount == "projectcalico.org/serviceaccount"
NamespacePrefix == "pcns."
ServiceAccountPrefix == "pcsa."
NeverMatch == <<<<"!">>, Atom(All)>>

-----------------------------------------------------------------------------
(* conversion/mod.rs.  A pod is [name, ns, labels, addr, hostNetwork,    *)
(* node, sa], sa its service account or Unset.                             *)

\* A pod that shares the host's network, has no node or no address has no endpoint.
HasEndpoint(pod) == ~pod.hostNetwork /\ pod.node # Unset /\ pod.addr # Unset

ProfileName(ns) == "kns." \o ns
ServiceAccountProfileName(ns, sa) == "ksa." \o ns \o "." \o sa

PodToWorkloadEndpoint(pod) ==
    LET injected == (LabelNamespace :> pod.ns) @@ (LabelOrchestrator :> "k8s")
        account == IF pod.sa = Unset THEN << >> ELSE LabelServiceAccount :> pod.sa
    IN  [name |-> pod.name, addr |-> pod.addr,
         profiles |-> <<ProfileName(pod.ns)>> \o
             IF pod.sa = Unset THEN << >> ELSE <<ServiceAccountProfileName(pod.ns, pod.sa)>>,
         labels |-> account @@ injected @@ pod.labels]

\* A profile allows everything and hands labels down, under a prefix.
ProfileOf(labels, prefix) ==
    LET allow == <<[action |-> "Allow", protocol |-> AnyProtocol,
                    source |-> AnyEntity, destination |-> AnyEntity]>>
        keys == {prefix \o k : k \in DOMAIN labels}
    IN  [rules |-> [d \in Directions |-> allow],
         labels |-> [k \in keys |->
                        labels[CHOOSE l \in DOMAIN labels : k = prefix \o l]]]

NamespaceToProfile(labels) == ProfileOf(labels, NamespacePrefix)
ServiceAccountToProfile(labels) == ProfileOf(labels, ServiceAccountPrefix)

-----------------------------------------------------------------------------
(* conversion/policy.rs: the canonical spec, not yet confined. *)

ExprText(e) ==
    CASE e.op = "In" -> <<Atom(OneOf(e.key, e.values))>>
      [] e.op = "NotIn" -> <<Atom(NoneOf(e.key, e.values))>>
      [] e.op = "Exists" -> <<Atom(Has(e.key))>>
      [] e.op = "DoesNotExist" -> <<<<"!">>, Atom(Has(e.key))>>

LabelTerms(labels) == LET keys == SetToSeq(DOMAIN labels)
                      IN  [i \in DOMAIN keys |-> Equal(keys[i], labels[keys[i]])]

Conjunction(texts) ==
    IF texts = << >> THEN << >>
    ELSE FoldLeft(LAMBDA t, u : t \o <<<<"&&">>>> \o u, texts[1], Tail(texts))

SelectorToCalico(ls, kind) ==
    LET own == IF kind = "pod" THEN <<<<Atom(Equal(LabelOrchestrator, "k8s"))>>>> ELSE << >>
        labels == LabelTerms(ls.labels)
        given == [i \in DOMAIN labels |-> <<Atom(labels[i])>>]
                 \o [i \in DOMAIN ls.exprs |-> ExprText(ls.exprs[i])]
    IN  CASE ls = Unset -> Conjunction(own)
          [] kind = "namespace" /\ given = << >> -> <<Atom(All)>>
          [] OTHER -> Conjunction(own \o given)

PeerFields(peer) ==
    CASE peer = Unset -> AnyEntity
      [] peer.block # Unset ->
            [AnyEntity EXCEPT !.nets = {peer.block.cidr}, !.notNets = peer.block.except]
      [] OTHER ->
            [AnyEntity EXCEPT !.selector = SelectorToCalico(peer.pods, "pod"),
                              !.namespaceSelector = SelectorToCalico(peer.namespaces, "namespace")]

\* MUTANT of GroupedPorts.  A number after "all ports" narrows the bucket again.
ForgetfulPorts(ports) ==
    LET protocols == SetToSeq({ports[i].protocol : i \in DOMAIN ports})
    IN  IF ports = << >> THEN <<[protocol |-> AnyProtocol, ports |-> {}]>>
        ELSE [i \in DOMAIN protocols |->
                [protocol |-> protocols[i],
                 ports |-> {ports[j].low : j \in {k \in DOMAIN ports :
                                /\ ports[k].protocol = protocols[i]
                                /\ ports[k].kind = "number"}}]]

\* One bucket for each protocol; a port entry without a number opens all of them.
\* A port the model of rules cannot express is skipped.
GroupedPorts(ports) ==
    LET protocols == SetToSeq({ports[i].protocol : i \in DOMAIN ports})
        of(p, kind) == {i \in DOMAIN ports : ports[i].protocol = p /\ ports[i].kind = kind}
        bucket(p) == [protocol |-> p,
                      ports |-> IF of(p, "all") # {} THEN {}
                                ELSE {ports[i].low : i \in of(p, "number")}]
    IN  IF ports = << >> THEN <<[protocol |-> AnyProtocol, ports |-> {}]>>
        ELSE [i \in DOMAIN protocols |-> bucket(protocols[i])]

BuildRules(rule, dir) ==
    LET peers == IF rule.peers = << >> THEN <<Unset>> ELSE rule.peers
        made(bucket, peer) ==
            LET fields == PeerFields(peer)
                open == [AnyEntity EXCEPT !.ports = bucket.ports]
            IN  [action |-> "Allow", protocol |-> bucket.protocol,
                 source |-> IF dir = "ingress" THEN fields ELSE AnyEntity,
                 destination |-> IF dir = "ingress" THEN open
                                 ELSE [fields EXCEPT !.ports = bucket.ports]]
        buckets == GroupedPorts(rule.ports)
    IN  FlattenSeq([b \in DOMAIN buckets |->
                       [p \in DOMAIN peers |-> made(buckets[b], peers[p])]])

K8sNetworkPolicyToCalico(np) ==
    [order |-> 1000, selector |-> SelectorToCalico(np.podSelector, "pod"),
     types |-> IF np.types = {} THEN {"ingress"} ELSE np.types,
     rules |-> [d \in Directions |->
                   FlattenSeq([i \in DOMAIN np.rules[d] |-> BuildRules(np.rules[d][i], d)])]]

-----------------------------------------------------------------------------
(* scope.rs *)

\* all() selects the endpoints that have a namespace.
NamespacesOnly(text) ==
    [i \in DOMAIN text |-> IF text[i] = Atom(All) THEN Atom(Has(LabelNamespace)) ELSE text[i]]

InNamespace(ns) == <<Atom(Equal(LabelNamespace, ns))>>

Prefixed(text) == Text(PrefixKeys(Parse(text).sel, NamespacePrefix))

ConfinePolicySelector(selector, ns) ==
    IF selector = << >> THEN InNamespace(ns)
    ELSE Enclosed(selector) \o <<<<"&&">>>> \o InNamespace(ns)

ScopeGnpSelector(selector, namespaceSelector) ==
    CASE namespaceSelector = << >> -> selector
      [] ~Parse(namespaceSelector).ok -> NeverMatch
      [] OTHER -> NamespacesOnly(
            IF selector = << >> THEN Prefixed(namespaceSelector)
            ELSE Enclosed(selector) \o <<<<"&&">>>> \o Prefixed(namespaceSelector))

\* ns = Unset: the policy has no namespace of its own.
GetEndpointSelector(namespaceSelector, selector, ns) ==
    LET nsText == CASE namespaceSelector # << >> -> NamespacesOnly(Prefixed(namespaceSelector))
                    [] ns # Unset -> InNamespace(ns)
                    [] OTHER -> << >>
    IN  CASE namespaceSelector # << >> /\ ~Parse(namespaceSelector).ok -> NeverMatch
          [] nsText = << >> \/ (selector = << >> /\ namespaceSelector = << >>) -> selector
          [] selector = << >> -> nsText
          [] OTHER -> Enclosed(nsText) \o <<<<"&&">>>> \o Enclosed(selector)

ScopeEntity(entity, ns) ==
    [entity EXCEPT !.selector = GetEndpointSelector(entity.namespaceSelector, @, ns),
                   !.namespaceSelector = << >>]

ScopeRules(spec, ns) ==
    [d \in Directions |-> [i \in DOMAIN spec.rules[d] |->
        [spec.rules[d][i] EXCEPT !.source = ScopeEntity(@, ns),
                                 !.destination = ScopeEntity(@, ns)]]]

ScopeNetworkPolicy(spec, ns) ==
    [spec EXCEPT !.selector = ConfinePolicySelector(@, ns), !.rules = ScopeRules(spec, ns)]

ScopeGlobalNetworkPolicy(spec, namespaceSelector) ==
    [spec EXCEPT !.selector = ScopeGnpSelector(@, namespaceSelector),
                 !.rules = ScopeRules(spec, Unset)]

-----------------------------------------------------------------------------
(* k8s_policy.rs: straight to what the evaluator runs. *)

FoldAnd(terms) == IF terms = << >> THEN All ELSE FoldLeft(And, terms[1], Tail(terms))

LabelSelector(ls, prefix) ==
    LET exprs == [i \in DOMAIN ls.exprs |-> Parse(ExprText(ls.exprs[i])).sel]
    IN  PrefixKeys(FoldAnd(LabelTerms(ls.labels) \o exprs), prefix)

\* MUTANT of PeerSelector.  A pod selector reaches into every namespace.
EveryNamespace(peer, ns) ==
    LET where == IF peer.namespaces = Unset THEN All
                 ELSE LabelSelector(peer.namespaces, NamespacePrefix)
    IN  IF peer.pods = Unset THEN where ELSE And(where, LabelSelector(peer.pods, ""))

PeerSelector(peer, ns) ==
    LET where == IF peer.namespaces = Unset THEN Equal(LabelNamespace, ns)
                 ELSE LabelSelector(peer.namespaces, NamespacePrefix)
    IN  IF peer.pods = Unset THEN where ELSE And(where, LabelSelector(peer.pods, ""))

\* The first protocol given stands for all ports; ports without a number are dropped.
RuleToEvals(rule, ns) ==
    LET peers == IF rule.peers = << >> THEN <<Unset>> ELSE rule.peers
        given == SelectSeq(rule.ports, LAMBDA p : ~p.defaulted)
    IN  [i \in DOMAIN peers |->
            [action |-> "Allow",
             protocol |-> IF given = << >> THEN AnyProtocol ELSE given[1].protocol,
             peer |-> IF peers[i] = Unset THEN NoPeer ELSE PeerSelector(peers[i], ns),
             ports |-> {rule.ports[j].low : j \in
                           {k \in DOMAIN rule.ports : rule.ports[k].kind = "number"}}]]

K8sNetworkPolicyToEval(np, ns) ==
    [selector |-> And(Equal(LabelNamespace, ns), LabelSelector(np.podSelector, "")),
     types |-> IF np.types # {} THEN np.types
               ELSE {"ingress"} \cup {d \in {"egress"} : np.rules[d] # << >>},
     rules |-> [d \in Directions |->
                   FlattenSeq([i \in DOMAIN np.rules[d] |-> RuleToEvals(np.rules[d][i], ns)])]]
=============================================================================
