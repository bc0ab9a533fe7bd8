-------------------------- MODULE UpdateProcessors --------------------------
(***************************************************************************)
(* Conversion of v3 resources to the v1 model Felix ingests (crates/       *)
(* datastore/src/updateprocessors/mod.rs): pure functions from a key and a *)
(* spec to v1 key/value pairs.                                             *)
(*                                                                         *)
(* Data.  A key is [kind, namespace, name]; a selector is the set of its   *)
(* conjuncts (the empty selector is {}); a spec has the fields of its kind *)
(* that the conversion looks at.                                           *)
(***************************************************************************)
EXTENDS Sequences

CONSTANTS
    Unset,   \* an optional field that is not there
    Garbage  \* a spec that does not decode as its kind

(* The kinds with a processor; the other selected kinds are skipped. *)
Processed == {"NetworkPolicy", "IPPool", "WorkloadEndpoint",
              "FelixConfiguration"}

All == <<"all()">>
Global == <<"global()">>
Own(ns) == <<"namespace", ns>>
Namespaced == <<"has", "namespace">>
NotNamespaced == <<"not has", "namespace">>

TierOrDefault(tier) == IF tier \in {Unset, ""} THEN "default" ELSE tier

AugmentPolicySelector(selector, ns) == selector \cup {Own(ns)}

(* The textual replacement of all() and global() in a namespace selector.  *)
Translated(selector) ==
    {CASE a = All -> Namespaced
       [] a = Global -> NotNamespaced
       [] OTHER -> a : a \in selector}

RuleEndpointSelector(er, ns) ==
    LET scope == IF er.namespace_selector # {}
                 THEN Translated(er.namespace_selector)
                 ELSE {Own(ns)}
    IN  IF er.selector # {} \/ er.namespace_selector # {}
        THEN scope \cup er.selector
        ELSE {}

RuleAction(action) == IF action = "Pass" THEN "next-tier" ELSE action

RuleToV1(rule, ns) ==
    [action |-> RuleAction(rule.action),
     protocol |-> rule.protocol,
     src |-> RuleEndpointSelector(rule.source, ns),
     dst |-> RuleEndpointSelector(rule.destination, ns)]

RulesToV1(rules, ns) == [i \in DOMAIN rules |-> RuleToV1(rules[i], ns)]

Pair(k, v) == [key |-> k, value |-> v]

(* A policy without a name or a namespace is an error, which yields nothing. *)
ProcessNetworkPolicy(ns, name, spec) ==
    LET tier == TierOrDefault(spec.tier)
    IN  IF name = "" \/ ns = "" THEN {}
        ELSE {Pair(<<"policy", tier, ns, name>>,
                   [tier |-> tier, order |-> spec.order, types |-> spec.types,
                    selector |-> AugmentPolicySelector(spec.selector, ns),
                    inbound |-> RulesToV1(spec.ingress, ns),
                    outbound |-> RulesToV1(spec.egress, ns)])}

ProcessIpPool(spec) ==
    {Pair(<<"ippool", spec.cidr>>,
          [ipip_interface |-> IF spec.ipip_mode = "Never" THEN "" ELSE "tunl0",
           vxlan_mode |-> spec.vxlan_mode,
           masquerade |-> spec.nat_outgoing,
           ipam |-> ~ spec.disabled])}

(* A workload without addresses is filtered out. *)
ProcessWorkloadEndpoint(ns, name, spec) ==
    IF spec.ipnetworks = {} THEN {}
    ELSE {Pair(<<"workload", spec.node, ns, name>>,
               [name |-> spec.interface_name,
                nets |-> spec.ipnetworks,
                ports |-> {p \in spec.ports : p.name # ""},
                labels |-> {spec.service_account} \ {Unset, ""}])}

(* One pair per field that is set, under the host the resource is for. *)
ConfigHosts(name) ==
    CASE name = "default" -> {"global"}
      [] name = "node.n1" -> {"n1"}
      [] OTHER -> {}

ProcessFelixConfiguration(name, spec) ==
    LET fields == {f \in DOMAIN spec : spec[f] \notin {Unset, ""}}
    IN  UNION {{Pair(<<"config", h, f>>, spec[f]) : f \in fields} : h \in ConfigHosts(name)}

Process(key, spec) ==
    IF spec = Garbage THEN {}
    ELSE CASE key.kind = "NetworkPolicy" ->
                 ProcessNetworkPolicy(key.namespace, key.name, spec)
           [] key.kind = "IPPool" -> ProcessIpPool(spec)
           [] key.kind = "WorkloadEndpoint" ->
                 ProcessWorkloadEndpoint(key.namespace, key.name, spec)
           [] key.kind = "FelixConfiguration" ->
                 ProcessFelixConfiguration(key.name, spec)
           [] OTHER -> {}

ProcessKeys(key, spec) == {kv.key : kv \in Process(key, spec)}

=============================================================================
