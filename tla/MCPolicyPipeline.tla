-------------------------- MODULE MCPolicyPipeline -------------------------
(***************************************************************************)
(* Two namespaces, three pods with endpoints, one on its host's network    *)
(* and an outside address, in a network set.  The first policy is one of   *)
(* Kubernetes, of every combination of the parts below; the second is one  *)
(* of a few that order, widen, deny, log, pass or share its name.          *)
(***************************************************************************)
EXTENDS PolicyPipeline

None == << >>
Everything == [labels |-> None, exprs |-> << >>]
Web == [labels |-> [app |-> "web"], exprs |-> << >>]
NotDb == [labels |-> None, exprs |-> <<[key |-> "db", op |-> "DoesNotExist", values |-> {}],
                                       [key |-> "app", op |-> "NotIn", values |-> {"db"}]>>]
Dev == [labels |-> None, exprs |-> <<[key |-> "env", op |-> "In", values |-> {"dev"}]>>]

MCPods ==
    {[name |-> "w", ns |-> "a", labels |-> [app |-> "web"], addr |-> 1,
      hostNetwork |-> FALSE, node |-> "n", sa |-> Unset],
     [name |-> "d", ns |-> "a", labels |-> [app |-> "db", db |-> "y"], addr |-> 2,
      hostNetwork |-> FALSE, node |-> "n", sa |-> "s"],
     [name |-> "x", ns |-> "b", labels |-> [app |-> "web"], addr |-> 3,
      hostNetwork |-> FALSE, node |-> "n", sa |-> Unset],
     [name |-> "h", ns |-> "a", labels |-> [app |-> "web"], addr |-> 9,
      hostNetwork |-> TRUE, node |-> "n", sa |-> Unset]}
MCAccountLabels == <<"a", "s">> :> [role |-> "back"]
MCNetworkSets == {[ns |-> "a", labels |-> [zone |-> "out"], nets |-> {9}]}
MCNamespaceLabels == [a |-> [env |-> "prod"], b |-> [env |-> "dev"]]
MCTraffic == {[src |-> s, dst |-> d, protocol |-> p[1], sport |-> 7, port |-> p[2]] :
                 s \in {2, 3, 9}, d \in {1}, p \in {<<"TCP", 80>>, <<"TCP", 82>>, <<"UDP", 80>>}}
             \cup {[src |-> 1, dst |-> d, protocol |-> "TCP", sport |-> 7, port |-> 80] :
                      d \in {2, 3, 9}}

Port(protocol, kind, low, high) ==
    [protocol |-> protocol, defaulted |-> FALSE, kind |-> kind, low |-> low, high |-> high]
Ports == {<< >>, <<Port("TCP", "number", 80, 80)>>,
          <<Port("TCP", "all", 0, 0), Port("TCP", "number", 80, 80)>>,
          <<Port("TCP", "number", 82, 82), Port("UDP", "all", 0, 0)>>,
          <<Port("TCP", "named", 80, 80)>>,
          <<Port("TCP", "range", 80, 82), [Port("TCP", "number", 80, 80) EXCEPT !.defaulted = TRUE]>>}
PeerOf(pods, namespaces) == [pods |-> pods, namespaces |-> namespaces, block |-> Unset]
Block(cidr, except) == [pods |-> Unset, namespaces |-> Unset,
                        block |-> [cidr |-> cidr, except |-> except]]
Peers == {<< >>, <<PeerOf(NotDb, Unset)>>, <<PeerOf(Unset, Everything)>>, <<PeerOf(NotDb, Dev)>>,
          <<PeerOf(Web, Unset), PeerOf(Unset, Dev)>>, <<Block({2, 9}, {})>>,
          <<Block({3, 9}, {{9}})>>}

K8s(name, ns, pods, dir, rules) ==
    [kind |-> "k8s", name |-> name, ns |-> ns,
     np |-> [podSelector |-> pods, types |-> {dir},
             rules |-> [d \in Directions |-> IF d = dir THEN rules ELSE << >>]]]

First == {K8s("p", "a", s, d, <<[peers |-> q, ports |-> t]>>) :
             s \in {NotDb}, d \in Directions, q \in Peers, t \in Ports}

CalicoRule(action, selector) ==
    [action |-> action, protocol |-> AnyProtocol, destination |-> AnyEntity,
     source |-> [AnyEntity EXCEPT !.selector = selector]]
Calico(kind, ns, name, order, selector, rules) ==
    [kind |-> kind, name |-> name, ns |-> ns, namespaceSelector |-> << >>,
     spec |-> [order |-> order, selector |-> selector, types |-> {},
               rules |-> [ingress |-> rules, egress |-> << >>]]]

IsWeb == <<Atom(Equal("app", "web"))>>
IsBack == <<Atom(Equal("pcsa.role", "back")), <<"&&">>, Atom(Equal(LabelServiceAccount, "s"))>>
NotY == <<<<"!">>, Atom(Has("db")), <<"&&">>, Atom(Has("app"))>>
Second ==
    {K8s("q", "a", Everything, "ingress", << >>), K8s("q", "a", Web, "egress", << >>),
     K8s("p", "b", Everything, "egress", <<[peers |-> << >>, ports |-> << >>]>>),
     K8s("p.", "b", Everything, "egress", << >>),
     Calico("np", "a", "q", 1, IsWeb, <<CalicoRule("Log", << >>), CalicoRule("Deny", NotY)>>),
     Calico("np", "a", "q", 1000, << >>, <<CalicoRule("Pass", IsWeb)>>),
     Calico("np", "a", "q", 1, << >>, <<CalicoRule("Deny", IsBack), CalicoRule("Allow", << >>)>>),
     Calico("np", "a", "q", Unordered, << >>, <<CalicoRule("Allow", IsWeb), CalicoRule("Deny", << >>)>>),
     Calico("np", "a", "q", 1, << >>, <<CalicoRule("Allow", <<Atom(Has("zone"))>>)>>),
     Calico("gnp", Unset, "q", 1, << >>, <<CalicoRule("Deny", <<Atom(Has("zone"))>>),
                                           CalicoRule("Allow", << >>)>>),
     [Calico("gnp", Unset, "q", 1000, << >>, <<CalicoRule("Deny", NotY)>>)
        EXCEPT !.namespaceSelector = <<Atom(Equal("env", "prod"))>>],
     [Calico("gnp", Unset, "q", 1, IsWeb, <<CalicoRule("Deny", << >>)>>)
        EXCEPT !.namespaceSelector = <<<<"global()">>>>],
     [Calico("gnp", Unset, "q", 1, IsWeb, <<CalicoRule("Allow", << >>)>>)
        EXCEPT !.namespaceSelector = <<Atom(All)>>],
     [Calico("gnp", Unset, "q", 1, IsWeb, <<CalicoRule("Deny", << >>)>>)
        EXCEPT !.namespaceSelector = <<Atom(OneOf("env", {"dev"})), <<"||">>,
                                       Atom(Equal("env", "prod"))>>]}

MCResources == First \cup Second
MCRank == ("p" :> 1) @@ ("p." :> 2) @@ ("q" :> 3)
MCSanitized == ("p" :> "p") @@ ("p." :> "p") @@ ("q" :> "q")
OneOfTheFirst == Cardinality(installed \cap First) <= 1 /\ Cardinality(installed \cap Second) <= 1
=============================================================================
