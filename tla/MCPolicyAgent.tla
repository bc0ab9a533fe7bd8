--------------------------- MODULE MCPolicyAgent ----------------------------
(***************************************************************************)
(* PolicyAgent with two policies, one profile, two endpoints (one of them  *)
(* a pod of this node) and one Tier object, each with an identifier of its *)
(* own.                                                                    *)
(***************************************************************************)
EXTENDS PolicyAgent, TLC

CONSTANTS p1, p2, f1, e1, e2, tA, tB, s1, s2, m1, m2, red, blue,
          b0, b1, b2

MCSetsOf == b0 :> {} @@ b1 :> {s1} @@ b2 :> {s1, s2}
MCPeers == s1 :> {red, blue} @@ s2 :> {blue}
MCRank == tA :> 1 @@ tB :> 2 @@ p1 :> 1 @@ p2 :> 2
MCKind == p1 :> "policy" @@ p2 :> "policy" @@ f1 :> "profile" @@ tA :> "tier"
          @@ e1 :> "endpoint" @@ e2 :> "endpoint"
MCKindOf == [k \in Objects |-> MCKind[k]]
MCIdOf == [k \in Objects |-> k]

P(sel, rules, tier, order) ==
    [selector |-> sel, rules |-> rules, tier |-> tier, order |-> order]
F(label, rules) == [label |-> label, rules |-> rules]
E(local, label, profiles, members) ==
    [local |-> local, label |-> label, profiles |-> profiles, members |-> members]

MCSpecs ==
    p1 :> {P({red}, b1, tA, 5), P({red, blue}, b2, tA, 5), P({red}, b1, tB, 5)}
    @@ p2 :> {P({blue}, b1, tB, 5), P(Values, b0, tA, 5)}
    @@ f1 :> {F(red, b0), F(blue, b2), F(NoLabel, b0)}
    @@ e1 :> {E(TRUE, NoLabel, <<f1>>, {m1}), E(TRUE, blue, <<>>, {m1, m2})}
    @@ e2 :> {E(TRUE, NoLabel, <<f1>>, {m2}), E(FALSE, red, <<f1>>, {m2})}
    @@ tA :> {2, 9}

MCStore == p1 :> P({red}, b1, tA, 5) @@ p2 :> P({blue}, b1, tB, 5)
           @@ f1 :> F(red, b0) @@ e1 :> E(TRUE, NoLabel, <<f1>>, {m1})
           @@ e2 :> E(FALSE, red, <<f1>>, {m2}) @@ tA :> 2
MCStores == {[k \in Objects |-> MCStore[k]]}

ASSUME OwnIdentifiers

=============================================================================
