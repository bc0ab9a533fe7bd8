--------------------------- MODULE PolicyPipeline --------------------------
(***************************************************************************)
(* Policies from the API to the packet: resources are installed and        *)
(* withdrawn, the agent keeps their confined specs and programs the table  *)
(* of chains, and packets traverse it one nft rule at a time.  A packet's  *)
(* fate is compared with the decision engine and with the meaning that     *)
(* Kubernetes gives its policies.                                          *)
(*                                                                         *)
(* The table follows the agent at once: how it gets there is PolicyAgent's *)
(* subject.  All pods are on one node, so each packet between pods passes  *)
(* the egress chains of one and the ingress chains of the other.           *)
(***************************************************************************)
EXTENDS PolicyRender, FiniteSets, FiniteSetsExt

CONSTANTS Pods, NamespaceLabels,    \* [namespaces -> labels]
          AccountLabels,            \* [<<namespace, service account>> -> labels]
          NetworkSets,              \* [ns, labels, nets]; an address is in one at most
          Resources,                \* what may be installed
          Traffic,                  \* [src, dst : addresses, protocol, sport, port]
          MaxInstalled              \* bound on the resources installed together

VARIABLES
    installed,   \* resources that exist
    agent,       \* policy names to the specs that the calculation graph holds
    chains,      \* the table in the kernel
    packet,      \* the packet under way or the last one, Unset if none met this table
    frames,      \* its call stack: chain and position, innermost last
    mark,        \* its accept mark
    verdict      \* "none" while it is under way

vars == <<installed, agent, chains, packet, frames, mark, verdict>>

Endpoints == {PodToWorkloadEndpoint(p) : p \in {p \in Pods : HasEndpoint(p)}}
Profiles ==
    LET ofNamespaces == {ProfileName(ns) :> NamespaceToProfile(NamespaceLabels[ns]) :
                            ns \in DOMAIN NamespaceLabels}
        ofAccounts == {ServiceAccountProfileName(a[1], a[2]) :>
                           ServiceAccountToProfile(AccountLabels[a]) : a \in DOMAIN AccountLabels}
    IN  FoldSet(LAMBDA f, g : f @@ g, << >>, ofNamespaces \cup ofAccounts)
LabelsOf(e) == Effective(e, Profiles)

\* A network set is a target of selectors with the labels of its metadata alone:
\* neither the label of its namespace nor those of a profile are added.
OnNetworkSet(s) == s.labels

Members(text) ==
    LET chosen(labels) == Matches(Parse(text).sel, labels)
    IN  {e.addr : e \in {e \in Endpoints : chosen(LabelsOf(e))}}
        \cup UNION {s.nets : s \in {s \in NetworkSets : chosen(OnNetworkSet(s))}}
SetsOf(rule) == {m[2] : m \in {m \in rule.matches : m[1] \in {"saddr @", "daddr @"}}}

\* The endpoint of an address, if any.
At(addr) == {e \in Endpoints : e.addr = addr}

-----------------------------------------------------------------------------
(***************************************************************************)
(* The agent's adapter.  A resource is of kind "k8s" (a NetworkPolicy of   *)
(* Kubernetes, np), "np" or "gnp" (Calico's own, spec).  The graph's id of *)
(* a policy is its name, without its namespace.                            *)
(***************************************************************************)
SyncerUpdateToResource(r) ==
    CASE r.kind = "k8s" -> ScopeNetworkPolicy(K8sNetworkPolicyToCalico(r.np), r.ns)
      [] r.kind = "np" -> ScopeNetworkPolicy(r.spec, r.ns)
      [] r.kind = "gnp" -> ScopeGlobalNetworkPolicy(r.spec, r.namespaceSelector)

Quiet == verdict # "none"

Update(specs) ==
    /\ agent' = specs
    /\ chains' = BuildDesiredChains(specs, Profiles, Endpoints)
    /\ packet' = Unset /\ frames' = << >> /\ mark' = FALSE /\ verdict' = "accept"

Install(r) ==
    /\ Quiet /\ r \notin installed /\ Cardinality(installed) < MaxInstalled
    /\ ~\E s \in installed : s.kind = r.kind /\ s.name = r.name /\ s.ns = r.ns
    /\ installed' = installed \cup {r}
    /\ Update((r.name :> SyncerUpdateToResource(r)) @@ agent)

Withdraw(r) ==
    /\ Quiet /\ r \in installed
    /\ installed' = installed \ {r}
    /\ Update([n \in DOMAIN agent \ {r.name} |-> agent[n]])

-----------------------------------------------------------------------------
(* The traversal of the forward hook. *)

NameAt(addr) == IF At(addr) = {} THEN "uplink" ELSE (CHOOSE e \in At(addr) : TRUE).name

Send(t) ==
    /\ Quiet
    /\ packet' = [src |-> t.src, dst |-> t.dst, protocol |-> t.protocol, sport |-> t.sport,
                  port |-> t.port, in |-> NameAt(t.src), out |-> NameAt(t.dst)]
    /\ frames' = <<[chain |-> ForwardChain, at |-> 1]>>
    /\ mark' = FALSE /\ verdict' = "none"
    /\ UNCHANGED <<installed, agent, chains>>

Inner == Last(frames)
AtRule == verdict = "none" /\ Inner.at <= Len(chains[Inner.chain])
Rule == chains[Inner.chain][Inner.at]
RuleHit == /\ AtRule
           /\ LET members == [text \in SetsOf(Rule) |-> Members(text)]
              IN  \A m \in Rule.matches : Hits(m, packet, mark, members)
Advanced == [frames EXCEPT ![Len(frames)].at = @ + 1]

Under == UNCHANGED <<installed, agent, chains, packet>>

Miss == /\ AtRule /\ ~RuleHit
        /\ frames' = Advanced /\ UNCHANGED <<mark, verdict>> /\ Under

Jump == /\ RuleHit /\ Rule.verdict[1] = "jump"
        /\ frames' = Append(Advanced, [chain |-> Rule.verdict[2], at |-> 1])
        /\ UNCHANGED <<mark, verdict>> /\ Under

ClearMark == /\ RuleHit /\ Rule.verdict[1] = "clear"
             /\ mark' = FALSE /\ frames' = Advanced /\ UNCHANGED verdict /\ Under

\* `return`, with or without the mark set before it.
Return == /\ RuleHit /\ Rule.verdict[1] \in {"return", "mark and return"}
          /\ mark' = (mark \/ Rule.verdict[1] = "mark and return")
          /\ frames' = Front(frames) /\ UNCHANGED verdict /\ Under

Finish(v) == verdict' = v /\ frames' = << >> /\ mark' = FALSE /\ Under

Decide == RuleHit /\ Rule.verdict[1] = "drop" /\ Finish("drop")

\* The end of the base chain is its policy, accept.
EndOfChain ==
    /\ verdict = "none" /\ ~AtRule
    /\ \/ /\ Len(frames) > 1
          /\ frames' = Front(frames) /\ UNCHANGED <<mark, verdict>> /\ Under
       \/ Len(frames) = 1 /\ Finish("accept")

Init == /\ installed = {} /\ agent = << >>
        /\ chains = BuildDesiredChains(<< >>, Profiles, Endpoints)
        /\ packet = Unset /\ frames = << >> /\ mark = FALSE /\ verdict = "accept"

Next == \/ \E r \in Resources : Install(r) \/ Withdraw(r)
        \/ \E t \in Traffic : Send(t)
        \/ Miss \/ Jump \/ ClearMark \/ Return \/ Decide \/ EndOfChain

Spec == Init /\ [][Next]_vars

-----------------------------------------------------------------------------
(* What a finished packet should have met. *)

Finished == Quiet /\ packet # Unset

Subject(dir) == At(IF dir = "ingress" THEN packet.dst ELSE packet.src)
Peer(dir) == At(IF dir = "ingress" THEN packet.src ELSE packet.dst)

SetAt(addr) == {s \in NetworkSets : addr \in s.nets}

\* The labels by which the selectors of its authors know a network set.
Placed(s) == s.labels @@ (LabelNamespace :> s.ns)

PeerLabels(dir) ==
    LET addr == IF dir = "ingress" THEN packet.src ELSE packet.dst
    IN  CASE Peer(dir) # {} -> LabelsOf(CHOOSE e \in Peer(dir) : TRUE)
          [] Peer(dir) = {} /\ SetAt(addr) # {} -> Placed(CHOOSE s \in SetAt(addr) : TRUE)
          [] OTHER -> << >>

\* The pod of an address; the host's own address is no pod's.
PodAt(addr) == {p \in Pods : HasEndpoint(p) /\ p.addr = addr}

Selected(ls, labels) ==
    /\ \A k \in DOMAIN ls.labels : k \in DOMAIN labels /\ labels[k] = ls.labels[k]
    /\ \A i \in DOMAIN ls.exprs :
          LET e == ls.exprs[i]
              in == e.key \in DOMAIN labels /\ labels[e.key] \in e.values
          IN  CASE e.op = "In" -> in
                [] e.op = "NotIn" -> ~in
                [] e.op = "Exists" -> e.key \in DOMAIN labels
                [] e.op = "DoesNotExist" -> e.key \notin DOMAIN labels

\* The policies that their authors mean for a pod, read from the resources as installed.
\* Profiles carry the labels of the namespaces.
MeantFor(r, p) ==
    LET labels == LabelsOf(PodToWorkloadEndpoint(p))
        chosen == r.kind # "k8s" /\ Matches(SelectorOrAll(r.spec.selector), labels)
    IN  CASE r.kind = "k8s" -> p.ns = r.ns /\ Selected(r.np.podSelector, p.labels)
          [] r.kind = "np" -> p.ns = r.ns /\ chosen
          [] r.kind = "gnp" ->
                /\ chosen
                /\ r.namespaceSelector = << >> \/
                      /\ Parse(r.namespaceSelector).ok
                      /\ Matches(Parse(r.namespaceSelector).sel, NamespaceLabels[p.ns])

SpecsInOrder(names) == LET before(m, n) == Rank[m] < Rank[n]
                           order == SetToSortSeq(names, before)
                       IN  [i \in DOMAIN order |-> agent[order[i]]]

\* The same policies, each applying to whatever it is asked about.
Unconditional(specs) == [i \in DOMAIN specs |-> [specs[i] EXCEPT !.selector = << >>]]

EvalPacket(dir) ==
    [direction |-> dir, protocol |-> packet.protocol, port |-> packet.port,
     peer |-> PeerLabels(dir)]

EngineOf(specs, subject) ==
    EvaluatorFrom(specs, [i \in DOMAIN subject.profiles |-> Profiles[subject.profiles[i]]])

\* What the engine says of the policies meant for the subject.
Decision(dir, subject) ==
    LET pod == CHOOSE p \in PodAt(subject.addr) : TRUE
        meant == {r.name : r \in {r \in installed : MeantFor(r, pod)}}
    IN  Evaluate(EngineOf(Unconditional(SpecsInOrder(meant)), subject),
                 LabelsOf(subject), EvalPacket(dir))

\* A rule that the engine reads in full: no nets, no source ports, no selector of
\* the subject's side, and an action that is final within the one tier.
Readable(rule, dir) ==
    LET subject == IF dir = "ingress" THEN rule.destination ELSE rule.source
    IN  /\ rule.action # "Pass"
        /\ rule.source.nets = {} /\ rule.destination.nets = {} /\ rule.source.ports = {}
        /\ subject.selector = << >>

\* A selector that an address without labels satisfies.
Negative(rule, dir) ==
    LET peer == MapRule(rule, dir).peer IN peer # NoPeer /\ Matches(peer, << >>)

\* A selector that the label of its namespace keeps from a network set, or gives it.
Misplaced(rule, dir) ==
    LET peer == MapRule(rule, dir).peer
    IN  peer # NoPeer /\ \E s \in NetworkSets :
            Matches(peer, OnNetworkSet(s)) # Matches(peer, Placed(s))

\* `(selector) && a || b`: the second alternative escapes from the selector.
Loose(r) == /\ r.kind = "gnp" /\ r.spec.selector # << >>
            /\ Parse(r.namespaceSelector).ok /\ Parse(r.namespaceSelector).sel[1] = "||"

Apart == \A r, s \in installed : Sanitized[r.name] = Sanitized[s.name] => r = s
Held == \A r \in installed : r.name \in DOMAIN agent

Comparable ==
    /\ Apart /\ Held /\ ~\E r \in installed : Loose(r)
    /\ \A n \in DOMAIN agent, d \in Directions : \A i \in DOMAIN agent[n].rules[d] :
          LET rule == agent[n].rules[d][i]
          IN  /\ Readable(rule, d) /\ ~Misplaced(rule, d)
              /\ PeerLabels(d) = << >> => ~Negative(rule, d)

\* The engine's two walks end alike.
TracedAlike ==
    \A d \in Directions : \A e \in Subject(d) :
        LET engine == EngineOf(SpecsInOrder(DOMAIN agent), e)
        IN  EvaluateTraced(engine, LabelsOf(e), EvalPacket(d)).decision
            = Evaluate(engine, LabelsOf(e), EvalPacket(d))

(***************************************************************************)
(* A packet is accepted exactly when the decision engine, asked about the  *)
(* policies meant for the pod, allows it both at the endpoint that sends   *)
(* it and at the endpoint that receives it; and the engine's traced walk   *)
(* gives the decision of the other (policy_eval.rs:160).  Exceptions:      *)
(* policies whose names nft or the graph cannot tell apart                 *)
(* (endpoint_manager.rs:118, policy_agent.rs:111); a global policy with a  *)
(* selector and a disjunction as namespaceSelector (scope.rs:139); rules   *)
(* that the engine does not read in full and Pass (from_resources.rs:48,   *)
(* and the single tier of the chains); negative selectors and peers        *)
(* without labels, which are in no IP set (policy_eval.rs:343); selectors  *)
(* confined to a namespace and the network sets of that namespace          *)
(* (policy_agent.rs:150).                                                  *)
(***************************************************************************)
VerdictAgrees ==
    Finished =>
        /\ TracedAlike
        /\ Comparable => (verdict = "accept" <=>
              \A d \in Directions : \A e \in Subject(d) : Decision(d, e) = "Allow")

-----------------------------------------------------------------------------
(* The meaning of a Kubernetes NetworkPolicy, from the pods themselves. *)

PeerMeant(peer, ns, addr) ==
    \/ peer.block # Unset /\ addr \in peer.block.cidr /\ addr \notin UNION peer.block.except
    \/ /\ peer.block = Unset
       /\ \E p \in PodAt(addr) :
             /\ IF peer.namespaces = Unset THEN p.ns = ns
                ELSE Selected(peer.namespaces, NamespaceLabels[p.ns])
             /\ peer.pods = Unset \/ Selected(peer.pods, p.labels)

PortMeant(port) == /\ port.protocol = packet.protocol
                   /\ port.kind = "all" \/ packet.port \in port.low..port.high

RuleMeant(rule, ns, addr) ==
    /\ rule.peers = << >> \/ \E i \in DOMAIN rule.peers : PeerMeant(rule.peers[i], ns, addr)
    /\ rule.ports = << >> \/ \E i \in DOMAIN rule.ports : PortMeant(rule.ports[i])

\* A pod is isolated in a direction by the policies that select it there.
Meant(dir) ==
    LET addr == IF dir = "ingress" THEN packet.src ELSE packet.dst
    IN  \A p \in PodAt(IF dir = "ingress" THEN packet.dst ELSE packet.src) :
          LET isolating == {r \in installed : /\ r.ns = p.ns /\ dir \in r.np.types
                                              /\ Selected(r.np.podSelector, p.labels)}
          IN  isolating # {} =>
                \E r \in isolating : \E i \in DOMAIN r.np.rules[dir] :
                    RuleMeant(r.np.rules[dir][i], r.ns, addr)

AllRules(np) == {np.rules["ingress"][i] : i \in DOMAIN np.rules["ingress"]}
                \cup {np.rules["egress"][i] : i \in DOMAIN np.rules["egress"]}
KindsOf(rule, protocol) ==
    {rule.ports[i].kind : i \in {i \in DOMAIN rule.ports : rule.ports[i].protocol = protocol}}
Protocols(rule) == {rule.ports[i].protocol : i \in DOMAIN rule.ports}

\* Ports of one protocol none of which can be expressed, and excepted blocks.
Widened(rule) ==
    \/ \E p \in Protocols(rule) : KindsOf(rule, p) \subseteq {"named", "range"}
    \/ \E i \in DOMAIN rule.peers : rule.peers[i].block # Unset /\ rule.peers[i].block.except # {}

Inexpressible(rule) == \E i \in DOMAIN rule.ports : rule.ports[i].kind \in {"named", "range"}

(***************************************************************************)
(* The chains mean what Kubernetes means.  With Kubernetes policies only,  *)
(* no packet is accepted that they do not allow, unless a rule has only    *)
(* ports that cannot be expressed (conversion/policy.rs:298, they open all *)
(* ports) or a block with exceptions (active_rules.rs:562, they are lost); *)
(* and none is dropped that they allow, unless a rule has a named port or  *)
(* a range.  Policies of one name in two namespaces share a place in the   *)
(* graph (policy_agent.rs:111).                                            *)
(***************************************************************************)
Permitted == \A d \in Directions : Meant(d)
SomeRule(Flaw(_)) == \E r \in installed : \E rule \in AllRules(r.np) : Flaw(rule)
OnlyK8s == \A r \in installed : r.kind = "k8s"

KubernetesMeaning ==
    Finished /\ OnlyK8s /\ Apart /\ Held =>
        /\ verdict = "accept" => Permitted \/ SomeRule(Widened)
        /\ Permitted => verdict = "accept" \/ SomeRule(Inexpressible)

(***************************************************************************)
(* Policies of one name in two namespaces both apply: "Resource ids are    *)
(* assumed unique across types (the adapter namespaces them)"              *)
(* (graph.rs:60).  The adapter's id is the bare name (policy_agent.rs:111).*)
(***************************************************************************)
PoliciesStandApart ==
    Finished /\ OnlyK8s
    /\ (\A r, s \in installed : Sanitized[r.name] = Sanitized[s.name] => r.name = s.name)
    => (verdict = "accept" => Permitted \/ SomeRule(Widened))

(***************************************************************************)
(* The direct translation decides alike, for rules whose ports are of one  *)
(* given protocol, all numbers or all open, which name no block            *)
(* (k8s_policy.rs:16 and :144), and name no peers when the packet's peer   *)
(* is not a pod: an empty or negative namespace selector holds of an       *)
(* address without labels (k8s_policy.rs:126).                             *)
(***************************************************************************)
TakenWhole(rule) ==
    /\ \A i, j \in DOMAIN rule.ports :
          /\ ~rule.ports[i].defaulted
          /\ rule.ports[i].protocol = rule.ports[j].protocol
          /\ rule.ports[i].kind = rule.ports[j].kind
          /\ rule.ports[i].kind \in {"number", "all"}
    /\ \A i \in DOMAIN rule.peers : rule.peers[i].block = Unset

DirectDecision(dir, subject) ==
    LET inOrder == SetToSeq(installed)
        tier == [policies |-> [i \in DOMAIN inOrder |->
                                  K8sNetworkPolicyToEval(inOrder[i].np, inOrder[i].ns)],
                 default |-> "Deny"]
    IN  Evaluate([tiers |-> <<tier>>, profiles |-> << >>], LabelsOf(subject), EvalPacket(dir))

DirectTranslationAgrees ==
    /\ Finished
    /\ \A r \in installed : r.kind = "k8s" /\ \A rule \in AllRules(r.np) : TakenWhole(rule)
    => \A d \in Directions : \A e \in Subject(d) :
          (Peer(d) # {} \/ \A r \in installed : \A rule \in AllRules(r.np) : rule.peers = << >>)
          => (DirectDecision(d, e) = "Allow" <=> Meant(d))
=============================================================================
