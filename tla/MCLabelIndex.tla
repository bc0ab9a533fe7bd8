---------------------------- MODULE MCLabelIndex ---------------------------
(***************************************************************************)
(* Two items that may offer one address, two parents of which one label    *)
(* can come from either, in either order, or from the item itself.         *)
(***************************************************************************)
EXTENDS LabelIndex

S == INSTANCE Selectors
MCMatches(selector, labels) == S!Matches(selector, labels)

MCSelectorOf == ("web" :> S!Equal("app", "web")) @@
                ("quiet" :> S!And(S!Has("app"), S!NotEqual("app", "web")))
AppIs(v) == "app" :> v
MCItemUpdates == {[labels |-> l, parents |-> p, members |-> m] :
                     l \in {<< >>, AppIs("db")},
                     p \in {<< >>, <<"p">>, <<"p", "q">>, <<"q", "p">>},
                     m \in {{1}, {1, 2}}}
MCParentLabels == {<< >>, AppIs("web"), AppIs("db")}
=============================================================================
