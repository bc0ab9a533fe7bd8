------------------------- MODULE PolicyAgentProofs --------------------------
(***************************************************************************)
(* Theorems about PolicyAgent, in two halves, and about LabelIndex.        *)
(*                                                                         *)
(* The graph.  A graph whose caches agree with each other and with its     *)
(* inputs is called coherent.  Each stage of an update keeps the reference *)
(* counts of the scanned rules; each handler of CalcGraph::on_update ends  *)
(* in a coherent graph and reports all that it changed; and a coherent     *)
(* graph is determined by its inputs, those of the objects delivered.      *)
(*                                                                         *)
(* The dataplane.  A flush sends exactly what is buffered, in six phases.  *)
(* A key of the table is settled when it is as the graph wants it, or the  *)
(* messages under way will make it so; every step keeps every key settled, *)
(* and the phases keep what a message refers to in the table.              *)
(*                                                                         *)
(* The label index, to which the graph leaves the members of its sets.     *)
(* Reconciling one item takes a selector from what the selected items      *)
(* offered to what they offer now; a walk over the items of a parent does  *)
(* so for all, since no other item's labels depend on that parent.         *)
(***************************************************************************)
EXTENDS PolicyAgent, LabelIndex, FiniteSetTheorems, WellFoundedInduction, TLAPS

-----------------------------------------------------------------------------
(* The reference counts. *)
Deltas == [added : SUBSET IpSets, removed : SUBSET IpSets, orders : SUBSET Endpoints,
           last : [Owners -> {"none", "inactive", "active"}]]
Results == [g : Graph, out : Deltas]

SameInputs(g, h) == /\ h.policies = g.policies /\ h.profiles = g.profiles
                    /\ h.items = g.items /\ h.tiers = g.tiers
SameViews(g, h) == h.labels = g.labels /\ h.local = g.local

(* References and counts are those of the scanned rules. *)
Tidy(g) ==
    /\ g.refs = [o \in Owners |-> IF g.resolved[o] = Absent THEN {} ELSE SetsOf[g.resolved[o]]]
    /\ g.count = [s \in IpSets |-> Cardinality({o \in Owners : s \in g.refs[o]})]

LEMMA CountedReferrers ==
    ASSUME NEW A \in SUBSET Owners, NEW B \in SUBSET Owners
    PROVE  /\ Cardinality(A) \in Nat /\ Cardinality(B \ A) \in Nat /\ Cardinality(A \ B) \in Nat
           /\ Cardinality(B) = Counted(Cardinality(A), Cardinality(B \ A), Cardinality(A \ B))
           /\ Cardinality(A) = 0 <=> A = {}
<1>1. IsFiniteSet(A) /\ IsFiniteSet(B) /\ IsFiniteSet(A \cap B)
  BY NamesAssumption, FS_Subset
<1>2. /\ Cardinality(A \ B) = Cardinality(A) - Cardinality(A \cap B)
      /\ Cardinality(B \ A) = Cardinality(B) - Cardinality(A \cap B)
  <2>1. B \cap A = A \cap B
    OBVIOUS
  <2>2. Cardinality(A \ B) = Cardinality(A) - Cardinality(A \cap B)
    BY <1>1, FS_Difference
  <2>3. Cardinality(B \ A) = Cardinality(B) - Cardinality(B \cap A)
    BY <1>1, FS_Difference
  <2> QED BY <2>1, <2>2, <2>3
<1>3. /\ Cardinality(A) \in Nat /\ Cardinality(B) \in Nat /\ Cardinality(A \cap B) \in Nat
  BY <1>1, FS_CardinalityType
<1>4. Cardinality(A \ B) \in Nat /\ Cardinality(B \ A) \in Nat
  BY <1>1, FS_Difference, FS_CardinalityType
<1> QED BY <1>1, <1>2, <1>3, <1>4, FS_EmptySet DEF Counted

(* The deltas tell what the graph has become since it was g0; orders are   *)
(* told once and not taken back.                                           *)
Tells(g0, r) ==
    /\ \A o \in Owners :
          /\ r.out.last[o] = "none" => r.g.resolved[o] = g0.resolved[o]
          /\ r.out.last[o] = "active" => r.g.resolved[o] # Absent
          /\ r.out.last[o] = "inactive" => r.g.resolved[o] = Absent
    /\ \A s \in IpSets :
          /\ s \notin r.out.added \cup r.out.removed => (r.g.count[s] = 0 <=> g0.count[s] = 0)
          /\ s \in r.out.added \ r.out.removed => r.g.count[s] # 0 /\ g0.count[s] = 0
          /\ s \in r.out.removed \ r.out.added => r.g.count[s] = 0 /\ g0.count[s] # 0
Continues(r, r1) ==
    /\ r.out.orders \subseteq r1.out.orders
    /\ \A g0 : Tells(g0, r) => Tells(g0, r1)

(* What a stage leaves: everything but the scanned rules. *)
Stage(r, r1, resolved) ==
    /\ r1 \in Results /\ Tidy(r1.g) /\ Continues(r, r1)
    /\ SameInputs(r.g, r1.g) /\ SameViews(r.g, r1.g) /\ r1.g.active = r.g.active
    /\ r1.g.resolved = resolved

LEMMA ScanFields ==
    ASSUME NEW r \in Results, Tidy(r.g), NEW os \in SUBSET Owners,
           NEW to \in [os -> Rules \cup {Absent}]
    PROVE  Stage(r, Scan(r, os, to),
                 [o \in Owners |-> IF o \in os THEN to[o] ELSE r.g.resolved[o]])
<1> DEFINE g == r.g
           wanted == [o \in Owners |-> IF o \notin os THEN g.refs[o]
                                       ELSE IF to[o] = Absent THEN {} ELSE SetsOf[to[o]]]
           gain(s) == {o \in os : s \in wanted[o] \ g.refs[o]}
           lose(s) == {o \in os : s \in g.refs[o] \ wanted[o]}
           count == [s \in IpSets |->
                        Counted(g.count[s], Cardinality(gain(s)), Cardinality(lose(s)))]
           resolved == [o \in Owners |-> IF o \in os THEN to[o] ELSE g.resolved[o]]
           added == r.out.added \cup {s \in IpSets : g.count[s] = 0 /\ gain(s) # {}}
           removed == r.out.removed \cup {s \in IpSets : count[s] = 0 /\ lose(s) # {}}
           last == [o \in Owners |-> IF o \notin os THEN r.out.last[o]
                                     ELSE IF to[o] = Absent THEN "inactive" ELSE "active"]
           r1 == Scan(r, os, to)
<1>1. /\ r1 = [r EXCEPT !.g = [g EXCEPT !.refs = wanted, !.count = count, !.resolved = resolved],
                       !.out = [r.out EXCEPT !.added = added, !.removed = removed, !.last = last]]
  BY DEF Scan, Results, Graph, Deltas
<1> HIDE DEF resolved
<1>2. /\ wanted \in [Owners -> SUBSET IpSets]
      /\ resolved \in [Owners -> Rules \cup {Absent}]
      /\ last \in [Owners -> {"none", "inactive", "active"}]
  BY NamesAssumption DEF Results, Graph, Deltas, resolved
<1>3. wanted = [o \in Owners |-> IF resolved[o] = Absent THEN {} ELSE SetsOf[resolved[o]]]
  BY DEF Tidy, resolved
<1>4. ASSUME NEW s \in IpSets
      PROVE  /\ count[s] \in Nat /\ count[s] = Cardinality({o \in Owners : s \in wanted[o]})
             /\ g.count[s] = 0 => lose(s) = {}
             /\ g.count[s] = 0 /\ gain(s) # {} => count[s] # 0
             /\ g.count[s] = 0 /\ gain(s) = {} => count[s] = 0
             /\ g.count[s] # 0 /\ lose(s) = {} => count[s] # 0
  <2> DEFINE A == {o \in Owners : s \in g.refs[o]}
             B == {o \in Owners : s \in wanted[o]}
  <2>1. gain(s) = B \ A /\ lose(s) = A \ B
    OBVIOUS
  <2>2. g.count[s] = Cardinality(A)
    BY DEF Tidy
  <2>3. count[s] = Counted(Cardinality(A), Cardinality(B \ A), Cardinality(A \ B))
    BY <2>1, <2>2
  <2> HIDE DEF count, wanted
  <2>4. Cardinality(B) \in Nat
    BY CountedReferrers
  <2>5. count[s] = Cardinality(B) /\ (Cardinality(A) = 0 <=> A = {})
    BY <2>3, CountedReferrers
  <2>6. Cardinality(B) = 0 <=> B = {}
    BY CountedReferrers
  <2> HIDE DEF A, B, gain, lose
  <2> QED BY <2>1, <2>2, <2>4, <2>5, <2>6 DEF A, B
<1> HIDE DEF wanted, count, last, gain, lose
<1>5. count \in [IpSets -> Nat]
  BY <1>4 DEF count
<1>6. count = [s \in IpSets |-> Cardinality({o \in Owners : s \in wanted[o]})]
  BY <1>4 DEF count
<1>7. added \in SUBSET IpSets /\ removed \in SUBSET IpSets
  BY DEF Results, Deltas
<1>12. ASSUME NEW s \in IpSets
       PROVE  /\ s \in added <=> s \in r.out.added \/ (g.count[s] = 0 /\ gain(s) # {})
              /\ s \in removed <=> s \in r.out.removed \/ (count[s] = 0 /\ lose(s) # {})
  OBVIOUS
<1> HIDE DEF added, removed
<1>8. /\ r1.g = [g EXCEPT !.refs = wanted, !.count = count, !.resolved = resolved]
      /\ r1.out = [r.out EXCEPT !.added = added, !.removed = removed, !.last = last]
      /\ r1 = [g |-> r1.g, out |-> r1.out]
  BY <1>1 DEF Results
<1> HIDE DEF r1
<1>9. /\ r1.g.refs = wanted /\ r1.g.count = count /\ r1.g.resolved = resolved
      /\ SameInputs(g, r1.g) /\ SameViews(g, r1.g) /\ r1.g.active = g.active
      /\ r1.g \in Graph
  BY <1>8, <1>2, <1>5 DEF Results, Graph, SameInputs, SameViews
<1>10. r1.out \in Deltas
  BY <1>8, <1>2, <1>7 DEF Results, Deltas
<1>11. Tidy(r1.g)
  BY <1>3, <1>6, <1>9 DEF Tidy
<1>13. /\ r1.out.added = added /\ r1.out.removed = removed /\ r1.out.last = last
       /\ r1.out.orders = r.out.orders
  BY <1>8 DEF Results, Deltas
<1>14. ASSUME NEW g0, Tells(g0, r) PROVE Tells(g0, r1)
  <2>1. ASSUME NEW o \in Owners
        PROVE  /\ last[o] = "none" => resolved[o] = g0.resolved[o]
               /\ last[o] = "active" => resolved[o] # Absent
               /\ last[o] = "inactive" => resolved[o] = Absent
    BY <1>14 DEF Tells, last, resolved
  <2>2. ASSUME NEW s \in IpSets
        PROVE  /\ s \notin added \cup removed => (count[s] = 0 <=> g0.count[s] = 0)
               /\ s \in added \ removed => count[s] # 0 /\ g0.count[s] = 0
               /\ s \in removed \ added => count[s] = 0 /\ g0.count[s] # 0
    BY <1>4, <1>12, <1>14 DEF Tells
  <2> QED BY <1>9, <1>13, <2>1, <2>2 DEF Tells
<1>15. Continues(r, r1)
  BY <1>13, <1>14 DEF Continues
<1> QED BY <1>8, <1>9, <1>10, <1>11, <1>15 DEF Results, resolved, r1, Stage

LEMMA ActivateFields ==
    ASSUME NEW r \in Results, Tidy(r.g), NEW os \in SUBSET Owners,
           \A o \in os : RulesOf(r.g, o) \in Rules
    PROVE  Stage(r, Activate(r, os), [o \in Owners |-> IF o \in os THEN RulesOf(r.g, o)
                                                       ELSE r.g.resolved[o]])
<1> DEFINE to == [o \in os |-> RulesOf(r.g, o)]
<1>1. to \in [os -> Rules \cup {Absent}]
  OBVIOUS
<1>2. Activate(r, os) = Scan(r, os, to)
  BY DEF Activate
<1>3. \A o \in os : to[o] = RulesOf(r.g, o)
  OBVIOUS
<1> HIDE DEF to
<1>4. [o \in Owners |-> IF o \in os THEN to[o] ELSE r.g.resolved[o]]
        = [o \in Owners |-> IF o \in os THEN RulesOf(r.g, o) ELSE r.g.resolved[o]]
  BY <1>3
<1> QED BY <1>1, <1>2, <1>4, ScanFields

LEMMA DeactivateFields ==
    ASSUME NEW r \in Results, Tidy(r.g), NEW os \in SUBSET Owners
    PROVE  Stage(r, Deactivate(r, os), [o \in Owners |-> IF o \in os THEN Absent
                                                         ELSE r.g.resolved[o]])
<1> DEFINE to == [o \in os |-> Absent]
<1>1. to \in [os -> Rules \cup {Absent}]
  OBVIOUS
<1>2. Deactivate(r, os) = Scan(r, os, to)
  BY DEF Deactivate
<1>3. \A o \in os : to[o] = Absent
  OBVIOUS
<1> HIDE DEF to
<1>4. [o \in Owners |-> IF o \in os THEN to[o] ELSE r.g.resolved[o]]
        = [o \in Owners |-> IF o \in os THEN Absent ELSE r.g.resolved[o]]
  BY <1>3
<1> QED BY <1>1, <1>2, <1>4, ScanFields

LEMMA ApplyTransitionsFields ==
    ASSUME NEW r \in Results, Tidy(r.g), NEW on \in SUBSET Owners, NEW off \in SUBSET Owners,
           on \cap off = {}, \A o \in on : RulesOf(r.g, o) \in Rules
    PROVE  Stage(r, ApplyTransitions(r, on, off),
                 [o \in Owners |-> IF o \in on THEN RulesOf(r.g, o)
                                   ELSE IF o \in off THEN Absent ELSE r.g.resolved[o]])
<1> DEFINE r1 == Activate(r, on \cap Policies)
           r2 == Deactivate(r1, off \cap Policies)
           r3 == Activate(r2, on \cap Profiles)
           r4 == Deactivate(r3, off \cap Profiles)
<1>0. ApplyTransitions(r, on, off) = r4
  BY DEF ApplyTransitions
<1>1. Stage(r, r1, [o \in Owners |-> IF o \in on \cap Policies THEN RulesOf(r.g, o)
                                     ELSE r.g.resolved[o]])
  BY ActivateFields
<1> HIDE DEF r1
<1>2. Stage(r1, r2, [o \in Owners |-> IF o \in off \cap Policies THEN Absent
                                      ELSE r1.g.resolved[o]])
  BY <1>1, DeactivateFields DEF Stage
<1> HIDE DEF r2
<1>3. \A o \in Owners : RulesOf(r2.g, o) = RulesOf(r.g, o)
  BY <1>1, <1>2 DEF Stage, SameInputs, RulesOf
<1>4. Stage(r2, r3, [o \in Owners |-> IF o \in on \cap Profiles THEN RulesOf(r2.g, o)
                                      ELSE r2.g.resolved[o]])
  BY <1>2, <1>3, ActivateFields DEF Stage
<1> HIDE DEF r3
<1>5. Stage(r3, r4, [o \in Owners |-> IF o \in off \cap Profiles THEN Absent
                                      ELSE r3.g.resolved[o]])
  BY <1>4, DeactivateFields DEF Stage
<1> HIDE DEF r4
<1>6. r4.g.resolved = [o \in Owners |-> IF o \in on THEN RulesOf(r.g, o)
                                        ELSE IF o \in off THEN Absent ELSE r.g.resolved[o]]
  <2>1. /\ r1.g.resolved = [o \in Owners |-> IF o \in on \cap Policies THEN RulesOf(r.g, o)
                                              ELSE r.g.resolved[o]]
        /\ r2.g.resolved = [o \in Owners |-> IF o \in off \cap Policies THEN Absent
                                              ELSE r1.g.resolved[o]]
        /\ r3.g.resolved = [o \in Owners |-> IF o \in on \cap Profiles THEN RulesOf(r2.g, o)
                                              ELSE r2.g.resolved[o]]
        /\ r4.g.resolved = [o \in Owners |-> IF o \in off \cap Profiles THEN Absent
                                              ELSE r3.g.resolved[o]]
    BY <1>1, <1>2, <1>4, <1>5 DEF Stage
  <2>2. \A o \in Owners : r4.g.resolved[o] = IF o \in on THEN RulesOf(r.g, o)
                                             ELSE IF o \in off THEN Absent ELSE r.g.resolved[o]
    <3> SUFFICES ASSUME NEW o \in Owners
                 PROVE  r4.g.resolved[o] = IF o \in on THEN RulesOf(r.g, o)
                                           ELSE IF o \in off THEN Absent ELSE r.g.resolved[o]
      OBVIOUS
    <3>1. /\ r1.g.resolved[o] = IF o \in on /\ o \in Policies THEN RulesOf(r.g, o)
                                ELSE r.g.resolved[o]
          /\ r2.g.resolved[o] = IF o \in off /\ o \in Policies THEN Absent
                                ELSE r1.g.resolved[o]
          /\ r3.g.resolved[o] = IF o \in on /\ o \in Profiles THEN RulesOf(r.g, o)
                                ELSE r2.g.resolved[o]
          /\ r4.g.resolved[o] = IF o \in off /\ o \in Profiles THEN Absent
                                ELSE r3.g.resolved[o]
      BY <1>3, <2>1
    <3>2. o \in Policies \/ o \in Profiles
      BY DEF Owners
    <3>3. ~ (o \in on /\ o \in off)
      OBVIOUS
    <3> QED BY <3>1, <3>2, <3>3
  <2>3. r4.g.resolved = [o \in Owners |-> r4.g.resolved[o]]
    BY <2>1
  <2> QED BY <2>2, <2>3
<1>7. Continues(r, r4)
  BY <1>1, <1>2, <1>4, <1>5 DEF Stage, Continues
<1> QED BY <1>0, <1>1, <1>2, <1>4, <1>5, <1>6, <1>7 DEF Stage, SameInputs, SameViews

-----------------------------------------------------------------------------
(* The active owners. *)
Marked(g) == \A o \in Owners : o \in g.active <=> g.resolved[o] # Absent

LEMMA ActiveOwners ==
    ASSUME NEW g \in Graph
    PROVE  /\ NowActive(g) \in SUBSET Owners
           /\ \A o \in NowActive(g) : RulesOf(g, o) \in Rules
           /\ \A p \in Policies : p \in NowActive(g) => g.policies[p] # Absent
           /\ \A f \in Profiles : f \in NowActive(g) => g.profiles[f] # Absent
<1>1. \A p \in Policies : p \in NowActive(g) => g.policies[p] # Absent
  BY NamesAssumption DEF NowActive, Matched
<1>2. \A f \in Profiles : f \in NowActive(g) => g.profiles[f] # Absent
  BY NamesAssumption DEF NowActive, Matched
<1>3. NowActive(g) \in SUBSET Owners
  BY DEF NowActive, Owners
<1>4. \A o \in NowActive(g) : RulesOf(g, o) \in Rules
  BY <1>1, <1>2, <1>3 DEF RulesOf, Owners, Graph, Policy, Profile
<1> QED BY <1>1, <1>2, <1>3, <1>4

LEMMA SameActive ==
    ASSUME NEW g, NEW h, h.policies = g.policies, h.profiles = g.profiles, h.local = g.local
    PROVE  NowActive(h) = NowActive(g) /\ \A o \in Owners : RulesOf(h, o) = RulesOf(g, o)
BY DEF NowActive, Matched, IsLocal, RulesOf

LEMMA RecomputeFields ==
    ASSUME NEW r \in Results, Tidy(r.g), Marked(r.g)
    PROVE  LET r1 == Recompute(r)
               now == NowActive(r.g)
           IN  /\ r1 \in Results /\ Tidy(r1.g) /\ Marked(r1.g) /\ Continues(r, r1)
               /\ SameInputs(r.g, r1.g) /\ SameViews(r.g, r1.g)
               /\ r1.g.active = now /\ NowActive(r1.g) = now
               /\ r1.g.resolved = [o \in Owners |->
                      IF o \notin now THEN Absent
                      ELSE IF o \in r.g.active THEN r.g.resolved[o] ELSE RulesOf(r.g, o)]
<1> DEFINE now == NowActive(r.g)
           on == now \ r.g.active
           off == r.g.active \ now
           r1 == ApplyTransitions(r, on, off)
           r2 == Recompute(r)
<1>1. /\ now \in SUBSET Owners /\ r.g.active \in SUBSET Owners
      /\ \A o \in now : RulesOf(r.g, o) \in Rules
  BY ActiveOwners DEF Results, Graph
<1>2. Stage(r, r1, [o \in Owners |-> IF o \in on THEN RulesOf(r.g, o)
                                     ELSE IF o \in off THEN Absent ELSE r.g.resolved[o]])
  BY <1>1, ApplyTransitionsFields
<1>3. r2 = [r1 EXCEPT !.g = [r1.g EXCEPT !.active = now]]
  BY <1>2 DEF Recompute, Stage, Results, Graph
<1> HIDE DEF r1, r2
<1>4. /\ r2.g = [r1.g EXCEPT !.active = now] /\ r2.out = r1.out
      /\ r2 = [g |-> r2.g, out |-> r2.out]
  BY <1>2, <1>3 DEF Stage, Results
<1>5. /\ r2.g \in Graph /\ r2.g.active = now /\ r2.g.resolved = r1.g.resolved
      /\ r2.g.refs = r1.g.refs /\ r2.g.count = r1.g.count
      /\ SameInputs(r1.g, r2.g) /\ SameViews(r1.g, r2.g)
  BY <1>1, <1>2, <1>4 DEF Stage, Results, Graph, SameInputs, SameViews
<1>6. r2.g.resolved = [o \in Owners |->
                          IF o \notin now THEN Absent
                          ELSE IF o \in r.g.active THEN r.g.resolved[o] ELSE RulesOf(r.g, o)]
  BY <1>1, <1>2, <1>5 DEF Stage, Marked, SameInputs
<1>7. Marked(r2.g)
  <2> SUFFICES ASSUME NEW o \in Owners PROVE o \in now <=> r2.g.resolved[o] # Absent
    BY <1>5 DEF Marked
  <2> HIDE DEF now
  <2> QED BY <1>1, <1>6, AbsentAssumption DEF Marked
<1>8. SameInputs(r.g, r2.g) /\ SameViews(r.g, r2.g)
  BY <1>2, <1>5 DEF Stage, SameInputs, SameViews
<1>9. NowActive(r2.g) = now
  BY <1>8, SameActive DEF SameInputs, SameViews
<1>10. Tidy(r2.g)
  <2>1. Tidy(r1.g)
    BY <1>2 DEF Stage
  <2>2. r2.g.resolved = r1.g.resolved /\ r2.g.refs = r1.g.refs /\ r2.g.count = r1.g.count
    BY <1>5
  <2> QED BY <2>1, <2>2 DEF Tidy
<1>11. r2 \in Results
  BY <1>2, <1>4, <1>5 DEF Stage, Results
<1>12. Continues(r, r2)
  <2>1. \A g0 : Tells(g0, r1) => Tells(g0, r2)
    BY <1>4, <1>5 DEF Tells
  <2> QED BY <1>2, <1>4, <2>1 DEF Stage, Continues
<1> QED BY <1>5, <1>6, <1>7, <1>8, <1>9, <1>10, <1>11, <1>12 DEF r2

-----------------------------------------------------------------------------
(* A graph that is settled: what is active is what its inputs activate, and *)
(* active owners have been scanned with the rules they have.               *)
Scanned(g) == \A o \in g.active : g.resolved[o] = RulesOf(g, o)
Ready(g) == Tidy(g) /\ Marked(g) /\ Scanned(g)
Settled(g) == Ready(g) /\ g.active = NowActive(g)

LEMMA RecomputeSettles ==
    ASSUME NEW r \in Results, Ready(r.g)
    PROVE  LET r1 == Recompute(r)
           IN  /\ r1 \in Results /\ Settled(r1.g) /\ Continues(r, r1)
               /\ SameInputs(r.g, r1.g) /\ SameViews(r.g, r1.g)
<1> DEFINE r1 == Recompute(r)
           now == NowActive(r.g)
<1>1. /\ r1 \in Results /\ Tidy(r1.g) /\ Marked(r1.g) /\ Continues(r, r1)
      /\ SameInputs(r.g, r1.g) /\ SameViews(r.g, r1.g)
      /\ r1.g.active = now /\ NowActive(r1.g) = now
      /\ r1.g.resolved = [o \in Owners |->
             IF o \notin now THEN Absent
             ELSE IF o \in r.g.active THEN r.g.resolved[o] ELSE RulesOf(r.g, o)]
  BY RecomputeFields DEF Ready
<1>2. now \in SUBSET Owners
  BY ActiveOwners DEF Results
<1> HIDE DEF r1, now
<1>3. \A o \in Owners : RulesOf(r1.g, o) = RulesOf(r.g, o)
  BY <1>1, SameActive DEF SameInputs, SameViews
<1>4. Scanned(r1.g)
  BY <1>1, <1>2, <1>3 DEF Scanned, Ready
<1> QED BY <1>1, <1>4 DEF Settled, Ready, r1

LEMMA BeginFields ==
    ASSUME NEW g \in Graph
    PROVE  Begin(g) \in Results /\ Begin(g).g = g /\ Begin(g).out = NoDeltas
BY DEF Begin, NoDeltas, Results, Deltas

LEMMA BeginUnfolded ==
    ASSUME NEW g, NEW g1, g1.resolved = g.resolved, g1.count = g.count
    PROVE  Tells(g, Begin(g1))
<1>1. /\ Begin(g1).g = g1 /\ Begin(g1).out.last = [o \in Owners |-> "none"]
      /\ Begin(g1).out.added = {} /\ Begin(g1).out.removed = {}
  BY DEF Begin, NoDeltas
<1> QED BY <1>1 DEF Tells

LEMMA OwnerTaken ==
    ASSUME NEW g \in Graph, Settled(g), NEW g1 \in Graph, NEW o \in Owners, NEW changed \in BOOLEAN,
           g1.refs = g.refs, g1.count = g.count, g1.resolved = g.resolved, g1.active = g.active,
           \A x \in Owners : x # o => RulesOf(g1, x) = RulesOf(g, x),
           o \in g.active /\ o \in NowActive(g1)
              => (changed <=> RulesOf(g1, o) # RulesOf(g, o))
    PROVE  LET r == Rescan(Recompute(Begin(g1)), g, o, changed)
           IN  /\ r \in Results /\ Settled(r.g) /\ Tells(g, r)
               /\ SameInputs(g1, r.g) /\ SameViews(g1, r.g)
<1> DEFINE r1 == Recompute(Begin(g1))
           now == NowActive(g1)
           r2 == Rescan(r1, g, o, changed)
<1>1. Tidy(g1) /\ Marked(g1) /\ Begin(g1) \in Results /\ Begin(g1).g = g1
  BY BeginFields DEF Settled, Ready, Tidy, Marked
<1>t. Tells(g, Begin(g1))
  BY BeginUnfolded
<1>2. /\ r1 \in Results /\ Tidy(r1.g) /\ Marked(r1.g) /\ Continues(Begin(g1), r1)
      /\ SameInputs(g1, r1.g) /\ SameViews(g1, r1.g)
      /\ r1.g.active = now /\ NowActive(r1.g) = now
      /\ r1.g.resolved = [x \in Owners |->
             IF x \notin now THEN Absent
             ELSE IF x \in g1.active THEN g1.resolved[x] ELSE RulesOf(g1, x)]
  BY <1>1, RecomputeFields
<1>3. now \in SUBSET Owners /\ \A x \in now : RulesOf(g1, x) \in Rules
  BY ActiveOwners
<1> HIDE DEF r1, now
<1>4. \A x \in Owners : RulesOf(r1.g, x) = RulesOf(g1, x)
  BY <1>2, SameActive DEF SameInputs, SameViews
<1>5. \A x \in g.active : g.resolved[x] = RulesOf(g, x)
  BY DEF Settled, Ready, Scanned
<1>6. \A x \in now : x # o => r1.g.resolved[x] = RulesOf(r1.g, x)
  BY <1>2, <1>3, <1>4, <1>5
<1>7. CASE changed /\ o \in g.active /\ o \in now
  <2>1. r2 = Activate(r1, {o})
    BY <1>2, <1>7 DEF Rescan
  <2>2. Stage(r1, r2, [x \in Owners |-> IF x \in {o} THEN RulesOf(r1.g, x)
                                        ELSE r1.g.resolved[x]])
    <3>1. {o} \in SUBSET Owners /\ \A x \in {o} : RulesOf(r1.g, x) \in Rules
      BY <1>3, <1>4, <1>7
    <3>2. Tidy(r1.g) /\ r1 \in Results
      BY <1>2
    <3> QED BY <2>1, <3>1, <3>2, ActivateFields
  <2> HIDE DEF r2
  <2>3. /\ r2 \in Results /\ Tidy(r2.g) /\ r2.g.active = now
        /\ SameInputs(g1, r2.g) /\ SameViews(g1, r2.g)
        /\ r2.g.resolved = [x \in Owners |-> IF x = o THEN RulesOf(r1.g, x)
                                             ELSE r1.g.resolved[x]]
    BY <1>2, <2>2 DEF Stage, SameInputs, SameViews
  <2>4. NowActive(r2.g) = now /\ \A x \in Owners : RulesOf(r2.g, x) = RulesOf(r1.g, x)
    <3>1. /\ r2.g.policies = r1.g.policies /\ r2.g.profiles = r1.g.profiles
          /\ r2.g.local = r1.g.local
      BY <2>2 DEF Stage, SameInputs, SameViews
    <3> QED BY <3>1, <1>2, SameActive
  <2>5. Marked(r2.g)
    <3>1. RulesOf(r1.g, o) # Absent
      BY <1>3, <1>4, <1>7, AbsentAssumption
    <3>2. \A x \in Owners : x \in now <=> r1.g.resolved[x] # Absent
      BY <1>2 DEF Marked
    <3> QED BY <1>7, <2>3, <3>1, <3>2 DEF Marked
  <2>6. Scanned(r2.g)
    BY <1>3, <1>6, <2>3, <2>4 DEF Scanned
  <2>7. Tells(g, r2)
    BY <1>t, <1>2, <2>2 DEF Stage, Continues
  <2> QED BY <2>3, <2>4, <2>5, <2>6, <2>7 DEF r1, r2, Settled, Ready
<1>8. CASE ~ (changed /\ o \in g.active /\ o \in now)
  <2>1. r2 = r1
    BY <1>2, <1>8 DEF Rescan
  <2>2. o \in now => r1.g.resolved[o] = RulesOf(r1.g, o)
    BY <1>2, <1>3, <1>4, <1>5, <1>8 DEF now
  <2>3. Scanned(r1.g)
    BY <1>2, <1>3, <1>6, <2>2 DEF Scanned
  <2>4. Tells(g, r1)
    BY <1>t, <1>2 DEF Continues
  <2> QED BY <1>2, <2>1, <2>3, <2>4 DEF Settled, Ready, r1
<1> QED BY <1>7, <1>8

LEMMA TakePolicyFields ==
    ASSUME NEW g \in Graph, Settled(g), NEW p \in Policies, NEW new \in Policy \cup {Absent}
    PROVE  LET g1 == [g EXCEPT !.policies[p] = new]
               r == TakePolicy(g, p, new)
           IN  /\ r \in Results /\ Settled(r.g) /\ Tells(g, r)
               /\ SameInputs(g1, r.g) /\ SameViews(g, r.g)
<1> DEFINE g1 == [g EXCEPT !.policies[p] = new]
           old == g.policies[p]
           changed == old # Absent /\ new # Absent /\ old.rules # new.rules
<1>1. /\ g1 \in Graph /\ SameViews(g, g1)
      /\ g1.refs = g.refs /\ g1.count = g.count /\ g1.resolved = g.resolved
      /\ g1.active = g.active
      /\ g1.policies = [g.policies EXCEPT ![p] = new] /\ g1.profiles = g.profiles
  BY DEF Graph, SameViews
<1>2. TakePolicy(g, p, new) = Rescan(Recompute(Begin(g1)), g, p, changed)
  BY DEF TakePolicy
<1> HIDE DEF g1
<1>3. p \in Owners /\ \A x \in Owners : x # p => RulesOf(g1, x) = RulesOf(g, x)
  BY <1>1 DEF RulesOf, Owners, Graph
<1>4. p \in g.active /\ p \in NowActive(g1) => (changed <=> RulesOf(g1, p) # RulesOf(g, p))
  <2> SUFFICES ASSUME p \in g.active, p \in NowActive(g1)
               PROVE  changed <=> RulesOf(g1, p) # RulesOf(g, p)
    OBVIOUS
  <2>1. g1.policies[p] # Absent /\ g.policies[p] # Absent
    BY <1>1, ActiveOwners DEF Settled
  <2> QED BY <1>1, <2>1 DEF RulesOf, Graph
<1> HIDE DEF changed
<1>5. changed \in BOOLEAN
  BY DEF changed
<1>6. LET r == Rescan(Recompute(Begin(g1)), g, p, changed)
      IN  /\ r \in Results /\ Settled(r.g) /\ Tells(g, r)
          /\ SameInputs(g1, r.g) /\ SameViews(g1, r.g)
  BY <1>1, <1>3, <1>4, <1>5, OwnerTaken
<1> QED BY <1>1, <1>2, <1>6 DEF g1, SameViews

LEMMA TakeProfileFields ==
    ASSUME NEW g \in Graph, Settled(g), NEW f \in Profiles, NEW new \in Profile \cup {Absent}
    PROVE  LET g1 == [g EXCEPT !.profiles[f] = new]
               r == TakeProfile(g, f, new)
           IN  /\ r \in Results /\ Settled(r.g) /\ Tells(g, r)
               /\ SameInputs(g1, r.g) /\ SameViews(g, r.g)
<1> DEFINE g1 == [g EXCEPT !.profiles[f] = new]
           old == g.profiles[f]
           changed == old # Absent /\ new # Absent /\ old.rules # new.rules
<1>1. /\ g1 \in Graph /\ SameViews(g, g1)
      /\ g1.refs = g.refs /\ g1.count = g.count /\ g1.resolved = g.resolved
      /\ g1.active = g.active
      /\ g1.profiles = [g.profiles EXCEPT ![f] = new] /\ g1.policies = g.policies
  BY DEF Graph, SameViews
<1>2. TakeProfile(g, f, new) = Rescan(Recompute(Begin(g1)), g, f, changed)
  BY DEF TakeProfile
<1> HIDE DEF g1
<1>3. /\ f \in Owners /\ f \notin Policies
      /\ \A x \in Owners : x # f => RulesOf(g1, x) = RulesOf(g, x)
  BY <1>1, NamesAssumption DEF RulesOf, Owners, Graph
<1>4. f \in g.active /\ f \in NowActive(g1) => (changed <=> RulesOf(g1, f) # RulesOf(g, f))
  <2> SUFFICES ASSUME f \in g.active, f \in NowActive(g1)
               PROVE  changed <=> RulesOf(g1, f) # RulesOf(g, f)
    OBVIOUS
  <2>1. g1.profiles[f] # Absent /\ g.profiles[f] # Absent
    BY <1>1, ActiveOwners DEF Settled
  <2> QED BY <1>1, <1>3, <2>1 DEF RulesOf, Graph
<1> HIDE DEF changed
<1>5. changed \in BOOLEAN
  BY DEF changed
<1>6. LET r == Rescan(Recompute(Begin(g1)), g, f, changed)
      IN  /\ r \in Results /\ Settled(r.g) /\ Tells(g, r)
          /\ SameInputs(g1, r.g) /\ SameViews(g1, r.g)
  BY <1>1, <1>3, <1>4, <1>5, OwnerTaken
<1> QED BY <1>1, <1>2, <1>6 DEF g1, SameViews

-----------------------------------------------------------------------------
(* Induction and least elements, said of sets of numbers.                  *)
LEMMA LeastElement == \A S \in SUBSET Nat : S # {} => \E m \in S : \A i \in S : m <= i
<1> SUFFICES ASSUME NEW S \in SUBSET Nat, S # {}
             PROVE  \E m \in S : \A i \in S : m <= i
  OBVIOUS
<1>1. PICK m \in S : \A i \in S : ~ (<<i, m>> \in OpToRel(<, Nat))
  <2>1. IsWellFoundedOn(OpToRel(<, Nat), Nat)
    BY NatLessThanWellFounded
  <2> HIDE DEF OpToRel
  <2> QED BY <2>1, WFMin
<1>2. \A i \in S : ~ (i < m)
  BY <1>1 DEF OpToRel
<1> QED BY <1>2

LEMMA SetInduction ==
    ASSUME NEW S \in SUBSET Nat, 0 \in S, \A n \in S : n + 1 \in S
    PROVE  S = Nat
<1> SUFFICES ASSUME S # Nat PROVE FALSE
  OBVIOUS
<1>1. PICK m \in Nat \ S : \A i \in Nat \ S : m <= i
  BY LeastElement
<1>2. m # 0 /\ m - 1 \in Nat \ S
  BY <1>1
<1> QED BY <1>1, <1>2

(* The order in which a set is visited meets each element once. *)
LEMMA Visits ==
    ASSUME NEW S, IsFiniteSet(S)
    PROVE  LET es == SetToSeq(S)
           IN  /\ Cardinality(S) \in Nat /\ Len(es) = Cardinality(S)
               /\ es \in Seq(S) /\ es \in [1 .. Len(es) -> S]
               /\ \A x \in S : \E i \in 1 .. Len(es) : es[i] = x
               /\ \A i, j \in 1 .. Len(es) : es[i] = es[j] => i = j
<1> DEFINE n == Cardinality(S)
           es == SetToSeq(S)
<1>1. n \in Nat /\ ExistsBijection(1 .. n, S)
  BY FS_CardinalityType
<1>2. PICK b \in Bijection(1 .. n, S) : TRUE
  BY <1>1 DEF ExistsBijection
<1>3. b \in [1 .. n -> S] /\ IsInjective(b)
  BY <1>2 DEF Bijection, Injection, IsInjective
<1> HIDE DEF n
<1>4. es \in [1 .. n -> S] /\ IsInjective(es)
  BY <1>3 DEF SetToSeq, n
<1> HIDE DEF es
<1>5. es \in Seq(S) /\ Len(es) = n
  BY <1>1, <1>4
<1>6. IsFiniteSet(1 .. n) /\ Cardinality(1 .. n) = n
  BY <1>1, FS_Interval
<1>7. es \in Injection(1 .. n, S)
  BY <1>4 DEF Injection
<1>8. es \in Surjection(1 .. n, S)
  BY <1>1, <1>6, <1>7, FS_Injection DEF n
<1>9. \A x \in S : \E i \in 1 .. n : es[i] = x
  BY <1>8 DEF Surjection
<1> QED BY <1>1, <1>4, <1>5, <1>9 DEF IsInjective, n, es

-----------------------------------------------------------------------------
(* What is known of the endpoints of this node. *)
LEMMA EffectiveLabelFacts ==
    ASSUME NEW labels \in [Profiles -> Values], NEW own \in Values, NEW profiles \in Seq(Profiles)
    PROVE  /\ EffectiveLabel(labels, own, profiles) \in Values
           /\ \A other : (\A f \in Range(profiles) : other[f] = labels[f])
                 => EffectiveLabel(other, own, profiles) = EffectiveLabel(labels, own, profiles)
<1> DEFINE giving == {i \in DOMAIN profiles : labels[profiles[i]] # NoLabel}
           first == CHOOSE i \in giving : \A j \in giving : i <= j
<1>1. profiles \in [1 .. Len(profiles) -> Profiles] /\ DOMAIN profiles = 1 .. Len(profiles)
      /\ Len(profiles) \in Nat
  OBVIOUS
<1>2. giving # {} => first \in giving
  <2>1. giving \in SUBSET Nat
    BY <1>1
  <2> QED BY <2>1, LeastElement
<1>3. EffectiveLabel(labels, own, profiles) = IF own # NoLabel \/ giving = {} THEN own
                                              ELSE labels[profiles[first]]
  BY DEF EffectiveLabel
<1>4. EffectiveLabel(labels, own, profiles) \in Values
  BY <1>1, <1>2, <1>3
<1>5. ASSUME NEW other, \A f \in Range(profiles) : other[f] = labels[f]
      PROVE  EffectiveLabel(other, own, profiles) = EffectiveLabel(labels, own, profiles)
  <2>1. \A i \in DOMAIN profiles : other[profiles[i]] = labels[profiles[i]]
    BY <1>5 DEF Range
  <2> DEFINE others == {i \in DOMAIN profiles : other[profiles[i]] # NoLabel}
             firstOther == CHOOSE i \in others : \A j \in others : i <= j
  <2>2. EffectiveLabel(other, own, profiles) = IF own # NoLabel \/ others = {} THEN own
                                               ELSE other[profiles[firstOther]]
    BY DEF EffectiveLabel
  <2>3. others = giving
    BY <2>1
  <2> HIDE DEF giving, others
  <2>4. firstOther = first
    BY <2>3
  <2>5. giving # {} => first \in DOMAIN profiles
    BY <1>2 DEF giving
  <2> HIDE DEF first, firstOther
  <2> QED BY <1>3, <2>1, <2>2, <2>3, <2>4, <2>5
<1> QED BY <1>4, <1>5

LEMMA LocalViewType ==
    ASSUME NEW g \in Graph, NEW e \in Endpoints, g.items[e] # Absent
    PROVE  LocalView(g, e) \in LocalEndpoint
<1>1. /\ g.items[e].label \in Values /\ g.items[e].profiles \in Seq(Profiles)
      /\ g.labels \in [Profiles -> Values]
  BY DEF Graph, Endpoint
<1> QED BY <1>1, EffectiveLabelFacts DEF LocalView, LocalEndpoint

(* An endpoint is told to the calculator with some view. *)
LEMMA TakeEndpointFields ==
    ASSUME NEW r \in Results, Ready(r.g), NEW e \in Endpoints,
           NEW view \in LocalEndpoint \cup {Absent}
    PROVE  LET r1 == TakeEndpoint(r, e, view)
           IN  /\ r1 \in Results /\ Settled(r1.g) /\ Continues(r, r1)
               /\ SameInputs(r.g, r1.g) /\ r1.g.labels = r.g.labels
               /\ r1.g.local = [r.g.local EXCEPT ![e] = view]
<1> DEFINE g1 == [r.g EXCEPT !.local[e] = view]
           r0 == [r EXCEPT !.g = g1]
<1>1. /\ g1 \in Graph /\ SameInputs(r.g, g1) /\ g1.labels = r.g.labels
      /\ g1.local = [r.g.local EXCEPT ![e] = view] /\ g1.active = r.g.active
      /\ g1.refs = r.g.refs /\ g1.count = r.g.count /\ g1.resolved = r.g.resolved
  BY DEF Results, Graph, SameInputs
<1>2. TakeEndpoint(r, e, view) = Recompute(r0)
  BY DEF TakeEndpoint, Results, Graph
<1> HIDE DEF g1
<1>3. r0 \in Results /\ r0.g = g1 /\ r0.out = r.out
  BY <1>1 DEF Results
<1> HIDE DEF r0
<1>t. Continues(r, r0)
  BY <1>1, <1>3 DEF Continues, Tells
<1>4. Ready(g1)
  <2>1. Tidy(g1) /\ Marked(g1)
    BY <1>1 DEF Ready, Tidy, Marked
  <2>2. Scanned(g1)
    BY <1>1 DEF Ready, Scanned, SameInputs, RulesOf
  <2> QED BY <2>1, <2>2 DEF Ready
<1>5. LET r1 == Recompute(r0)
      IN  /\ r1 \in Results /\ Settled(r1.g) /\ Continues(r0, r1)
          /\ SameInputs(g1, r1.g) /\ SameViews(g1, r1.g)
  BY <1>3, <1>4, RecomputeSettles
<1>6. Continues(r, Recompute(r0))
  BY <1>t, <1>5 DEF Continues
<1> QED BY <1>1, <1>2, <1>5, <1>6 DEF SameInputs, SameViews

LEMMA ReorderFields ==
    ASSUME NEW r \in Results, NEW e \in Endpoints
    PROVE  LET r1 == EndpointReorders(r, e)
           IN  /\ r1 \in Results /\ r1.g = r.g
               /\ Continues(r, r1) /\ e \in r1.out.orders
<1> DEFINE r1 == EndpointReorders(r, e)
<1>1. /\ r1 \in Results /\ r1.g = r.g /\ r1.out.orders = r.out.orders \cup {e}
      /\ r1.out.added = r.out.added /\ r1.out.removed = r.out.removed
      /\ r1.out.last = r.out.last
  BY DEF EndpointReorders, Results, Deltas
<1> QED BY <1>1 DEF Continues, Tells

LEMMA UpdateLocalFields ==
    ASSUME NEW r \in Results, Ready(r.g), NEW e \in Endpoints, r.g.items[e] # Absent
    PROVE  LET r1 == UpdateLocal(r, e)
           IN  /\ r1 \in Results /\ Settled(r1.g) /\ Continues(r, r1) /\ e \in r1.out.orders
               /\ SameInputs(r.g, r1.g) /\ r1.g.labels = r.g.labels
               /\ r1.g.local = [r.g.local EXCEPT ![e] = LocalView(r.g, e)]
<1>1. LocalView(r.g, e) \in LocalEndpoint \cup {Absent}
  BY LocalViewType DEF Results
<1> DEFINE r0 == TakeEndpoint(r, e, LocalView(r.g, e))
<1>2. /\ r0 \in Results /\ Settled(r0.g) /\ Continues(r, r0)
      /\ SameInputs(r.g, r0.g) /\ r0.g.labels = r.g.labels
      /\ r0.g.local = [r.g.local EXCEPT ![e] = LocalView(r.g, e)]
  BY <1>1, TakeEndpointFields
<1>3. UpdateLocal(r, e) = EndpointReorders(r0, e)
  BY DEF UpdateLocal
<1> HIDE DEF r0
<1> QED BY <1>2, <1>3, ReorderFields DEF Continues

LEMMA RemoveLocalFields ==
    ASSUME NEW r \in Results, Settled(r.g), NEW e \in Endpoints
    PROVE  LET r1 == RemoveLocal(r, e)
           IN  /\ r1 \in Results /\ Settled(r1.g) /\ Continues(r, r1)
               /\ IsLocal(r.g, e) => e \in r1.out.orders
               /\ SameInputs(r.g, r1.g) /\ r1.g.labels = r.g.labels
               /\ r1.g.local = [r.g.local EXCEPT ![e] = Absent]
<1> DEFINE r0 == TakeEndpoint(r, e, Absent)
<1>1. /\ r0 \in Results /\ Settled(r0.g) /\ Continues(r, r0)
      /\ SameInputs(r.g, r0.g) /\ r0.g.labels = r.g.labels
      /\ r0.g.local = [r.g.local EXCEPT ![e] = Absent]
  BY TakeEndpointFields DEF Settled
<1>2. RemoveLocal(r, e) = IF IsLocal(r.g, e) THEN EndpointReorders(r0, e) ELSE r
  BY DEF RemoveLocal
<1> HIDE DEF r0
<1>3. CASE IsLocal(r.g, e)
  BY <1>1, <1>2, <1>3, ReorderFields DEF Continues
<1>4. CASE ~ IsLocal(r.g, e)
  <2>1. r.g.local = [r.g.local EXCEPT ![e] = Absent]
    BY <1>4 DEF IsLocal, Results, Graph
  <2> QED BY <1>2, <1>4, <2>1 DEF SameInputs, Continues
<1> QED BY <1>3, <1>4

(* The endpoints of a profile, one after the other. *)
Driven(r, es, i, before) == IF i = 0 THEN r ELSE UpdateLocal(before[i - 1], es[i])
Drives(d, r, es) == d = [i \in 0 .. Len(es) |-> Driven(r, es, i, d)]

LEMMA DriveExists ==
    ASSUME NEW r, NEW es, Len(es) \in Nat
    PROVE  \E d : Drives(d, r, es)
<1> DEFINE Upto(d, n) == d = [i \in 0 .. n |-> Driven(r, es, i, d)]
           N == {n \in Nat : \E d : Upto(d, n)}
<1>1. 0 \in N
  <2>1. Upto([i \in 0 .. 0 |-> r], 0)
    BY DEF Driven
  <2> QED BY <2>1
<1>2. ASSUME NEW n \in N PROVE n + 1 \in N
  <2>1. PICK d : Upto(d, n)
    OBVIOUS
  <2> DEFINE h == [i \in 0 .. n + 1 |-> IF i = n + 1 THEN UpdateLocal(d[n], es[i]) ELSE d[i]]
  <2>2. ASSUME NEW i \in 0 .. n + 1 PROVE h[i] = Driven(r, es, i, h)
    <3>1. CASE i = n + 1
      BY <3>1 DEF Driven
    <3>2. CASE i # n + 1
      <4>1. i \in 0 .. n
        BY <3>2
      <4>2. h[i] = Driven(r, es, i, d)
        BY <2>1, <3>2, <4>1
      <4>3. i # 0 => h[i - 1] = d[i - 1]
        BY <4>1
      <4> QED BY <4>2, <4>3 DEF Driven
    <3> QED BY <3>1, <3>2
  <2>3. Upto(h, n + 1)
    BY <2>2
  <2> HIDE DEF h, Upto
  <2>4. n + 1 \in Nat
    OBVIOUS
  <2> QED BY <2>3, <2>4
<1>3. N = Nat
  <2> HIDE DEF N
  <2>1. N \in SUBSET Nat
    BY DEF N
  <2> QED BY <1>1, <1>2, <2>1, SetInduction
<1> QED BY <1>3 DEF Drives

Naming(g, f) == {e \in Endpoints : IsLocal(g, e) /\ f \in Range(g.local[e].profiles)}

LEMMA DriveUnfolded ==
    ASSUME NEW r, NEW f \in Profiles
    PROVE  LET es == SetToSeq(Naming(r.g, f))
           IN  \E d : Drives(d, r, es) /\ RedriveProfileEndpoints(r, f) = d[Len(es)]
<1> DEFINE es == SetToSeq(Naming(r.g, f))
           d == CHOOSE x : Drives(x, r, es)
<1>1. IsFiniteSet(Naming(r.g, f))
  BY NamesAssumption, FS_Subset DEF Naming
<1>2. Drives(d, r, es)
  BY <1>1, Visits, DriveExists
<1>3. RedriveProfileEndpoints(r, f) = d[Len(es)]
  BY DEF RedriveProfileEndpoints, Drives, Driven, Naming
<1> QED BY <1>2, <1>3

LEMMA RedriveFields ==
    ASSUME NEW r \in Results, Settled(r.g), NEW f \in Profiles,
           \A e \in Naming(r.g, f) : r.g.items[e] # Absent
    PROVE  LET r1 == RedriveProfileEndpoints(r, f)
           IN  /\ r1 \in Results /\ Settled(r1.g) /\ Continues(r, r1)
               /\ Naming(r.g, f) \subseteq r1.out.orders
               /\ SameInputs(r.g, r1.g) /\ r1.g.labels = r.g.labels
               /\ r1.g.local = [e \in Endpoints |-> IF e \in Naming(r.g, f) THEN LocalView(r.g, e)
                                                    ELSE r.g.local[e]]
<1> DEFINE S == Naming(r.g, f)
           es == SetToSeq(S)
<1>1. S \in SUBSET Endpoints /\ IsFiniteSet(S)
  BY NamesAssumption, FS_Subset DEF Naming
<1>2. /\ Len(es) \in Nat /\ \A i \in 1 .. Len(es) : es[i] \in S
      /\ \A e \in S : \E i \in 1 .. Len(es) : es[i] = e
  BY <1>1, Visits
<1>3. PICK d : Drives(d, r, es) /\ RedriveProfileEndpoints(r, f) = d[Len(es)]
  BY DriveUnfolded
<1> HIDE DEF es
<1>4. d[0] = r /\ \A i \in 1 .. Len(es) : d[i] = UpdateLocal(d[i - 1], es[i])
  <2>1. \A i \in 0 .. Len(es) : d[i] = Driven(r, es, i, d)
    BY <1>3 DEF Drives
  <2>2. d[0] = Driven(r, es, 0, d)
    BY <1>2, <2>1
  <2>3. ASSUME NEW i \in 1 .. Len(es) PROVE d[i] = UpdateLocal(d[i - 1], es[i])
    <3>1. i \in 0 .. Len(es) /\ i # 0
      BY <1>2
    <3> QED BY <2>1, <3>1 DEF Driven
  <2> QED BY <2>2, <2>3 DEF Driven
<1> DEFINE Done(i) == {es[j] : j \in 1 .. i}
           Good(i) == /\ d[i] \in Results /\ Settled(d[i].g) /\ Continues(r, d[i])
                      /\ Done(i) \subseteq d[i].out.orders
                      /\ SameInputs(r.g, d[i].g) /\ d[i].g.labels = r.g.labels
                      /\ d[i].g.local = [e \in Endpoints |->
                             IF e \in Done(i) THEN LocalView(r.g, e) ELSE r.g.local[e]]
           N == {i \in Nat : i <= Len(es) => Good(i)}
<1>5. 0 \in N
  <2>1. Good(0)
    BY <1>4 DEF SameInputs, Results, Graph, Continues
  <2> QED BY <2>1
<1>6. ASSUME NEW i \in N PROVE i + 1 \in N
  <2> SUFFICES ASSUME i + 1 <= Len(es) PROVE Good(i + 1)
    OBVIOUS
  <2>1. Good(i) /\ i \in Nat
    BY <1>2
  <2>2. /\ d[i + 1] = UpdateLocal(d[i], es[i + 1])
        /\ es[i + 1] \in Endpoints /\ r.g.items[es[i + 1]] # Absent
    BY <1>1, <1>2, <1>4
  <2>3. Done(i + 1) = Done(i) \cup {es[i + 1]}
    BY <2>1
  <2> HIDE DEF Done
  <2>4. LocalView(d[i].g, es[i + 1]) = LocalView(r.g, es[i + 1])
    BY <2>1 DEF SameInputs, LocalView
  <2>5. /\ d[i + 1] \in Results /\ Settled(d[i + 1].g)
        /\ Continues(d[i], d[i + 1]) /\ es[i + 1] \in d[i + 1].out.orders
        /\ SameInputs(d[i].g, d[i + 1].g) /\ d[i + 1].g.labels = d[i].g.labels
        /\ d[i + 1].g.local = [d[i].g.local EXCEPT ![es[i + 1]] = LocalView(r.g, es[i + 1])]
    BY <2>1, <2>2, <2>4, UpdateLocalFields DEF Settled, SameInputs
  <2>6. d[i + 1].g.local = [e \in Endpoints |->
             IF e \in Done(i + 1) THEN LocalView(r.g, e) ELSE r.g.local[e]]
    BY <2>1, <2>2, <2>3, <2>5
  <2>7. Continues(r, d[i + 1]) /\ Done(i + 1) \subseteq d[i + 1].out.orders
    BY <2>1, <2>3, <2>5 DEF Continues
  <2> QED BY <2>1, <2>5, <2>6, <2>7 DEF SameInputs
<1>7. N = Nat
  <2> HIDE DEF N
  <2>1. N \in SUBSET Nat
    BY DEF N
  <2> QED BY <1>5, <1>6, <2>1, SetInduction
<1>8. Good(Len(es))
  <2> HIDE DEF Good
  <2>1. Len(es) \in N
    BY <1>2, <1>7
  <2> QED BY <1>2, <2>1
<1>9. Done(Len(es)) = S
  BY <1>2
<1> HIDE DEF Done, S
<1> QED BY <1>3, <1>8, <1>9 DEF S

-----------------------------------------------------------------------------
(* The order of the policies of an endpoint. *)
Keys == Nat \X Nat \X Nat \X Nat

LEMMA PrecedesUnfolded ==
    ASSUME NEW a \in Keys, NEW b \in Keys
    PROVE  Precedes(a, b) <=>
              \/ a[1] < b[1]
              \/ a[1] = b[1] /\ a[2] < b[2]
              \/ a[1] = b[1] /\ a[2] = b[2] /\ a[3] < b[3]
              \/ a[1] = b[1] /\ a[2] = b[2] /\ a[3] = b[3] /\ a[4] < b[4]
<1> DEFINE First(i) == a[i] < b[i] /\ \A j \in 1 .. i - 1 : a[j] = b[j]
<1>1. DOMAIN a = {1, 2, 3, 4}
  <2>1. a = <<a[1], a[2], a[3], a[4]>>
    BY DEF Keys
  <2>2. DOMAIN <<a[1], a[2], a[3], a[4]>> = 1 .. 4
    OBVIOUS
  <2>3. DOMAIN a = 1 .. 4
    BY <2>1, <2>2
  <2> QED BY <2>3
<1>2. Precedes(a, b) <=> \E i \in {1, 2, 3, 4} : First(i)
  BY <1>1 DEF Precedes
<1>3. 1 .. 0 = {} /\ 1 .. 1 = {1} /\ 1 .. 2 = {1, 2} /\ 1 .. 3 = {1, 2, 3}
  OBVIOUS
<1>4. /\ 1 - 1 = 0 /\ 2 - 1 = 1 /\ 3 - 1 = 2 /\ 4 - 1 = 3
  OBVIOUS
<1>5. /\ First(1) <=> a[1] < b[1]
      /\ First(2) <=> a[2] < b[2] /\ a[1] = b[1]
      /\ First(3) <=> a[3] < b[3] /\ a[1] = b[1] /\ a[2] = b[2]
      /\ First(4) <=> a[4] < b[4] /\ a[1] = b[1] /\ a[2] = b[2] /\ a[3] = b[3]
  BY <1>3, <1>4
<1> HIDE DEF First
<1>6. (\E i \in {1, 2, 3, 4} : First(i)) <=> First(1) \/ First(2) \/ First(3) \/ First(4)
  OBVIOUS
<1> QED BY <1>2, <1>5, <1>6

LEMMA PrecedesOrders ==
    /\ \A a \in Keys : ~ Precedes(a, a)
    /\ \A a, b \in Keys : a[4] # b[4] => Precedes(a, b) \/ Precedes(b, a)
    /\ \A a, b, c \in Keys : Precedes(a, b) /\ Precedes(b, c) => Precedes(a, c)
<1>0. \A a \in Keys : a[1] \in Nat /\ a[2] \in Nat /\ a[3] \in Nat /\ a[4] \in Nat
  BY DEF Keys
<1>1. \A a \in Keys : ~ Precedes(a, a)
  BY <1>0, PrecedesUnfolded
<1>2. ASSUME NEW a \in Keys, NEW b \in Keys, a[4] # b[4] PROVE Precedes(a, b) \/ Precedes(b, a)
  BY <1>0, <1>2, PrecedesUnfolded
<1>3. ASSUME NEW a \in Keys, NEW b \in Keys, NEW c \in Keys, Precedes(a, b), Precedes(b, c)
      PROVE  Precedes(a, c)
  BY <1>0, <1>3, PrecedesUnfolded
<1> QED BY <1>1, <1>2, <1>3

(* A strict total order of a finite set gives each place to an element. *)
LEMMA EveryPlaceTaken ==
    ASSUME NEW S, IsFiniteSet(S), NEW R,
           \A x \in S : <<x, x>> \notin R,
           \A x, y \in S : x # y => <<x, y>> \in R \/ <<y, x>> \in R,
           \A x, y, z \in S : <<x, y>> \in R /\ <<y, z>> \in R => <<x, z>> \in R
    PROVE  /\ Cardinality(S) \in Nat
           /\ \A i \in 1 .. Cardinality(S) :
                 \E x \in S : Cardinality({y \in S : <<y, x>> \in R}) = i - 1
<1> DEFINE n == Cardinality(S)
           below(x) == {y \in S : <<y, x>> \in R}
           f == [x \in S |-> Cardinality(below(x))]
<1>1. n \in Nat
  BY FS_CardinalityType
<1>2. ASSUME NEW x \in S
      PROVE  Cardinality(below(x)) \in 0 .. n - 1 /\ IsFiniteSet(below(x))
  <2>1. below(x) \subseteq S /\ below(x) # S
    OBVIOUS
  <2> HIDE DEF below
  <2>2. /\ IsFiniteSet(below(x)) /\ Cardinality(below(x)) <= n
        /\ Cardinality(below(x)) # n /\ Cardinality(below(x)) \in Nat
    BY <2>1, FS_Subset, FS_CardinalityType
  <2> HIDE DEF n
  <2> QED BY <1>1, <2>2
<1>3. ASSUME NEW x \in S, NEW y \in S, <<y, x>> \in R
      PROVE  Cardinality(below(y)) < Cardinality(below(x))
  <2>1. below(y) \subseteq below(x) /\ below(y) # below(x)
    BY <1>3
  <2> HIDE DEF below
  <2>2. /\ Cardinality(below(y)) <= Cardinality(below(x))
        /\ Cardinality(below(y)) # Cardinality(below(x))
    BY <2>1, <1>2, FS_Subset
  <2>3. Cardinality(below(y)) \in Nat /\ Cardinality(below(x)) \in Nat
    BY <1>2, FS_CardinalityType
  <2> QED BY <2>2, <2>3
<1> HIDE DEF below, n
<1>4. \A x, y \in S : Cardinality(below(x)) = Cardinality(below(y)) => x = y
  <2> SUFFICES ASSUME NEW x \in S, NEW y \in S, x # y
               PROVE  Cardinality(below(x)) # Cardinality(below(y))
    OBVIOUS
  <2>1. Cardinality(below(x)) \in Nat /\ Cardinality(below(y)) \in Nat
    BY <1>1, <1>2
  <2>2. CASE <<x, y>> \in R
    BY <1>3, <2>1, <2>2
  <2>3. CASE <<y, x>> \in R
    BY <1>3, <2>1, <2>3
  <2> QED BY <2>2, <2>3
<1>5. f \in [S -> 0 .. n - 1] /\ \A x, y \in S : f[x] = f[y] => x = y
  BY <1>2, <1>4
<1>6. IsFiniteSet(0 .. n - 1) /\ Cardinality(0 .. n - 1) = n
  BY <1>1, FS_Interval
<1> HIDE DEF f
<1>7. f \in Injection(S, 0 .. n - 1)
  BY <1>5 DEF Injection, IsInjective
<1>8. f \in Surjection(S, 0 .. n - 1)
  BY <1>1, <1>6, <1>7, FS_Injection DEF n
<1>9. ASSUME NEW i \in 1 .. n PROVE \E x \in S : f[x] = i - 1
  <2>1. i - 1 \in 0 .. n - 1
    BY <1>1
  <2> QED BY <1>8, <2>1 DEF Surjection
<1> QED BY <1>1, <1>9 DEF n, f, below

LEMMA OrderedFacts ==
    ASSUME NEW tiers \in [Tiers -> Nat], NEW policies, NEW ps \in SUBSET Policies,
           \A p \in ps : policies[p] \in Policy
    PROVE  /\ Cardinality(ps) \in Nat
           /\ Ordered(tiers, policies, ps) \in Seq(Tiers \X Policies)
           /\ \A n \in DOMAIN Ordered(tiers, policies, ps) :
                 LET at == Ordered(tiers, policies, ps)[n]
                 IN  at[2] \in ps /\ at[1] = policies[at[2]].tier
           /\ \A other : (\A p \in ps : other[p] = policies[p])
                 => Ordered(tiers, other, ps) = Ordered(tiers, policies, ps)
<1> DEFINE key(p) == SortKey(tiers, policies[p], p)
           R == {x \in ps \X ps : Precedes(key(x[1]), key(x[2]))}
           before(p) == {q \in ps : Precedes(key(q), key(p))}
           at(i) == CHOOSE p \in ps : Cardinality(before(p)) = i - 1
<1>1. IsFiniteSet(ps)
  BY NamesAssumption, FS_Subset DEF Owners
<1>2. \A p \in ps : key(p) \in Keys /\ key(p)[4] = Rank[p]
  BY NamesAssumption DEF SortKey, Keys, Policy
<1>3. \A p, q \in ps : <<q, p>> \in R <=> Precedes(key(q), key(p))
  OBVIOUS
<1>4. \A p, q \in ps : p # q => key(p)[4] # key(q)[4]
  BY <1>2, NamesAssumption
<1> HIDE DEF key, R
<1>5. /\ \A x \in ps : <<x, x>> \notin R
      /\ \A x, y \in ps : x # y => <<x, y>> \in R \/ <<y, x>> \in R
      /\ \A x, y, z \in ps : <<x, y>> \in R /\ <<y, z>> \in R => <<x, z>> \in R
  <2>1. \A x \in ps : <<x, x>> \notin R
    BY <1>2, <1>3, PrecedesOrders
  <2>2. \A x, y \in ps : x # y => <<x, y>> \in R \/ <<y, x>> \in R
    BY <1>2, <1>3, <1>4, PrecedesOrders
  <2>3. ASSUME NEW x \in ps, NEW y \in ps, NEW z \in ps, <<x, y>> \in R, <<y, z>> \in R
        PROVE  <<x, z>> \in R
    <3>1. Precedes(key(x), key(y)) /\ Precedes(key(y), key(z))
      BY <1>3, <2>3
    <3> QED BY <1>2, <1>3, <3>1, PrecedesOrders
  <2> QED BY <2>1, <2>2, <2>3
<1>6. \A p \in ps : {y \in ps : <<y, p>> \in R} = before(p)
  BY <1>3
<1>7. /\ Cardinality(ps) \in Nat
      /\ \A i \in 1 .. Cardinality(ps) :
            \E p \in ps : Cardinality({y \in ps : <<y, p>> \in R}) = i - 1
  BY <1>1, <1>5, EveryPlaceTaken
<1> HIDE DEF before
<1>8. \A i \in 1 .. Cardinality(ps) : at(i) \in ps
  BY <1>6, <1>7
<1>9. Ordered(tiers, policies, ps) = [i \in 1 .. Cardinality(ps) |-> <<policies[at(i)].tier, at(i)>>]
  BY DEF Ordered, before, key
<1>10. ASSUME NEW other, \A p \in ps : other[p] = policies[p]
       PROVE  Ordered(tiers, other, ps) = Ordered(tiers, policies, ps)
  <2> DEFINE before2(p) == {q \in ps : Precedes(SortKey(tiers, other[q], q),
                                                SortKey(tiers, other[p], p))}
             at2(i) == CHOOSE p \in ps : Cardinality(before2(p)) = i - 1
  <2>1. \A p \in ps : before2(p) = before(p)
    BY <1>10 DEF before, key
  <2>2. Ordered(tiers, other, ps) = [i \in 1 .. Cardinality(ps) |-> <<other[at2(i)].tier, at2(i)>>]
    BY DEF Ordered
  <2> HIDE DEF before2
  <2>3. \A i : at2(i) = at(i)
    BY <2>1
  <2> HIDE DEF at, at2
  <2> QED BY <1>8, <1>9, <1>10, <2>2, <2>3
<1> HIDE DEF at
<1>11. \A i \in 1 .. Cardinality(ps) : <<policies[at(i)].tier, at(i)>> \in Tiers \X Policies
  BY <1>8 DEF Policy
<1>12. Ordered(tiers, policies, ps) \in Seq(Tiers \X Policies)
  BY <1>7, <1>9, <1>11
<1> QED BY <1>7, <1>8, <1>9, <1>10, <1>12

LEMMA OrderKept ==
    ASSUME NEW g \in Graph, NEW h \in Graph, NEW e \in Endpoints, h.tiers = g.tiers,
           h.local[e] = g.local[e], h.items[e] = g.items[e],
           \A p \in Policies : \/ h.policies[p] = g.policies[p]
                               \/ e \notin Matched(g, g.policies[p]) \cup Matched(h, h.policies[p])
    PROVE  EndpointDetail(h, e) = EndpointDetail(g, e)
<1> DEFINE ps == {p \in Policies : e \in Matched(g, g.policies[p])}
<1>1. \A p \in Policies : h.policies[p] = g.policies[p]
          => (e \in Matched(h, h.policies[p]) <=> e \in Matched(g, g.policies[p]))
  BY DEF Matched, IsLocal
<1>2. {p \in Policies : e \in Matched(h, h.policies[p])} = ps
  BY <1>1
<1>3. \A p \in ps : g.policies[p] \in Policy /\ h.policies[p] = g.policies[p]
  BY DEF Matched, Graph
<1>4. EndpointOrder(h, e) = Ordered(g.tiers, h.policies, ps)
  BY <1>2 DEF EndpointOrder
<1>5. EndpointOrder(g, e) = Ordered(g.tiers, g.policies, ps)
  BY DEF EndpointOrder
<1>6. ps \in SUBSET Policies /\ g.tiers \in [Tiers -> Nat]
  BY DEF Graph
<1> HIDE DEF ps
<1>7. EndpointOrder(h, e) = EndpointOrder(g, e)
  BY <1>3, <1>4, <1>5, <1>6, OrderedFacts
<1> QED BY <1>7 DEF EndpointDetail

-----------------------------------------------------------------------------
(* Each handler keeps a graph coherent, and its inputs are those of before *)
(* with the new one; and what it reports covers what it changed.           *)
Labelled(g) == g.labels = [f \in Profiles |-> IF g.profiles[f] = Absent THEN NoLabel
                                              ELSE g.profiles[f].label]
Placed(g) == g.local = [e \in Endpoints |->
                 IF g.items[e] # Absent /\ g.items[e].local THEN LocalView(g, e) ELSE Absent]
Coherent(g) == g \in Graph /\ Settled(g) /\ Labelled(g) /\ Placed(g)

SameCaches(g, h) == /\ h.refs = g.refs /\ h.count = g.count /\ h.resolved = g.resolved
                    /\ h.active = g.active

Orderly(g, r) ==
    \A e \in Endpoints \ r.out.orders :
        /\ IsLocal(r.g, e) <=> IsLocal(g, e)
        /\ IsLocal(g, e) => EndpointDetail(r.g, e) = EndpointDetail(g, e)
Reports(g, r) == Tells(g, r) /\ Orderly(g, r)

LEMMA SettledKeeps ==
    ASSUME NEW g, NEW h, Settled(g), SameCaches(g, h), h.policies = g.policies,
           h.profiles = g.profiles, h.local = g.local
    PROVE  Settled(h)
<1>1. Tidy(h) /\ Marked(h)
  BY DEF Settled, Ready, SameCaches, Tidy, Marked
<1>2. Scanned(h)
  BY DEF Settled, Ready, SameCaches, Scanned, RulesOf
<1> QED BY <1>1, <1>2, SameActive DEF Settled, Ready, SameCaches

LEMMA LocalViewSame ==
    ASSUME NEW g, NEW h, h.labels = g.labels, h.items = g.items
    PROVE  \A e \in Endpoints : LocalView(h, e) = LocalView(g, e)
BY DEF LocalView

LEMMA OnPolicyKeeps ==
    ASSUME NEW g, Coherent(g), NEW p \in Policies, NEW new \in Policy \cup {Absent}
    PROVE  LET r == OnPolicy(g, p, new)
           IN  /\ r \in Results /\ Coherent(r.g) /\ Reports(g, r)
               /\ SameInputs([g EXCEPT !.policies[p] = new], r.g)
<1> DEFINE g1 == [g EXCEPT !.policies[p] = new]
           r0 == TakePolicy(g, p, new)
           r == OnPolicy(g, p, new)
<1>1. /\ r0 \in Results /\ Settled(r0.g) /\ Tells(g, r0)
      /\ SameInputs(g1, r0.g) /\ SameViews(g, r0.g)
  BY TakePolicyFields DEF Coherent
<1>2. r = [r0 EXCEPT !.out = [r0.out EXCEPT !.orders = PolicyReorders(g, g.policies[p], new)]]
  BY <1>1 DEF OnPolicy, Results, Deltas
<1>3. /\ g1.profiles = g.profiles /\ g1.items = g.items /\ g1.tiers = g.tiers
      /\ g1.policies = [g.policies EXCEPT ![p] = new]
  BY DEF Coherent, Graph
<1> HIDE DEF r0, g1
<1>4. /\ r \in Results /\ r.g = r0.g
      /\ r.out.orders = PolicyReorders(g, g.policies[p], new)
      /\ r.out.added = r0.out.added /\ r.out.removed = r0.out.removed
      /\ r.out.last = r0.out.last
  BY <1>1, <1>2 DEF Results, Deltas, PolicyReorders, Matched
<1> HIDE DEF r
<1>5. Labelled(r.g)
  BY <1>1, <1>3, <1>4 DEF Coherent, Labelled, SameInputs, SameViews
<1>6. Placed(r.g)
  <2>1. \A e \in Endpoints : LocalView(r.g, e) = LocalView(g, e)
    BY <1>1, <1>3, <1>4, LocalViewSame DEF SameInputs, SameViews
  <2> QED BY <2>1, <1>1, <1>3, <1>4 DEF Coherent, Placed, SameInputs, SameViews
<1>7. Tells(g, r)
  BY <1>1, <1>4 DEF Tells
<1>8. Orderly(g, r)
  <2> SUFFICES ASSUME NEW e \in Endpoints \ r.out.orders
               PROVE  /\ IsLocal(r.g, e) <=> IsLocal(g, e)
                      /\ EndpointDetail(r.g, e) = EndpointDetail(g, e)
    BY DEF Orderly
  <2>1. /\ r.g.local = g.local /\ r.g.items = g.items /\ r.g.tiers = g.tiers
        /\ r.g.policies = [g.policies EXCEPT ![p] = new]
        /\ g \in Graph /\ r.g \in Graph
    BY <1>1, <1>3, <1>4 DEF SameInputs, SameViews, Coherent, Results
  <2>2. g.policies \in [Policies -> Policy \cup {Absent}]
    BY <2>1 DEF Graph
  <2>3. e \notin Matched(g, g.policies[p]) \cup Matched(g, new)
    BY <1>4 DEF PolicyReorders
  <2>4. Matched(r.g, r.g.policies[p]) = Matched(g, new)
    BY <2>1, <2>2 DEF Matched, IsLocal
  <2>5. \A x \in Policies : \/ r.g.policies[x] = g.policies[x]
                            \/ e \notin Matched(g, g.policies[x]) \cup Matched(r.g, r.g.policies[x])
    BY <2>1, <2>2, <2>3, <2>4
  <2> QED BY <2>1, <2>5, OrderKept DEF IsLocal
<1> QED BY <1>1, <1>4, <1>5, <1>6, <1>7, <1>8 DEF Coherent, Results, Reports, r, g1

LEMMA OnTierKeeps ==
    ASSUME NEW g, Coherent(g), NEW t \in Tiers, NEW new \in Nat \cup {Absent}
    PROVE  LET r == OnTier(g, t, new)
           IN  /\ r \in Results /\ Coherent(r.g) /\ Reports(g, r)
               /\ SameInputs([g EXCEPT !.tiers[t] = IF new = Absent THEN NoOrder ELSE new], r.g)
<1> DEFINE g1 == [g EXCEPT !.tiers[t] = IF new = Absent THEN NoOrder ELSE new]
           r == OnTier(g, t, new)
<1>1. /\ g1 \in Graph /\ SameCaches(g, g1) /\ SameViews(g, g1)
      /\ g1.policies = g.policies /\ g1.profiles = g.profiles /\ g1.items = g.items
  BY NamesAssumption DEF Coherent, Graph, SameCaches, SameViews
<1>2. r = [Begin(g1) EXCEPT !.out = [NoDeltas EXCEPT !.orders = AllReorder(g)]]
  BY DEF OnTier, Begin, NoDeltas
<1> HIDE DEF g1
<1>3. /\ r \in Results /\ r.g = g1 /\ r.out.orders = AllReorder(g)
      /\ r.out.added = {} /\ r.out.removed = {} /\ r.out.last = [o \in Owners |-> "none"]
  BY <1>1, <1>2 DEF Begin, NoDeltas, Results, Deltas, AllReorder
<1> HIDE DEF r
<1>4. Settled(g1)
  BY <1>1, SettledKeeps DEF Coherent, SameViews
<1>5. Labelled(g1)
  BY <1>1 DEF Coherent, Labelled, SameViews
<1>6. Placed(g1)
  <2>1. \A e \in Endpoints : LocalView(g1, e) = LocalView(g, e)
    BY <1>1, LocalViewSame DEF SameViews
  <2> QED BY <2>1, <1>1 DEF Coherent, Placed, SameViews
<1>7. SameInputs(g1, g1)
  BY DEF SameInputs
<1>8. Reports(g, r)
  BY <1>1, <1>3 DEF Reports, Tells, Orderly, AllReorder, IsLocal, SameCaches, SameViews
<1> QED BY <1>1, <1>3, <1>4, <1>5, <1>6, <1>7, <1>8 DEF Coherent, r, g1

LEMMA OnWorkloadEndpointKeeps ==
    ASSUME NEW g, Coherent(g), NEW e \in Endpoints, NEW new \in Endpoint \cup {Absent}
    PROVE  LET r == OnWorkloadEndpoint(g, e, new)
           IN  /\ r \in Results /\ Coherent(r.g) /\ Reports(g, r)
               /\ SameInputs([g EXCEPT !.items[e] = new], r.g)
<1> DEFINE g1 == [g EXCEPT !.items[e] = new]
           r == OnWorkloadEndpoint(g, e, new)
           r0 == Begin(g1)
           here == new # Absent /\ new.local
<1>1. /\ g1 \in Graph /\ SameCaches(g, g1) /\ SameViews(g, g1)
      /\ g1.policies = g.policies /\ g1.profiles = g.profiles
      /\ g1.items = [g.items EXCEPT ![e] = new] /\ g1.items[e] = new /\ g1.tiers = g.tiers
  BY DEF Coherent, Graph, SameCaches, SameViews
<1>2. r0 \in Results /\ r0.g = g1
  BY <1>1, BeginFields
<1>3. Settled(g1)
  BY <1>1, SettledKeeps DEF Coherent, SameViews
<1>4. r = IF here THEN UpdateLocal(r0, e) ELSE RemoveLocal(r0, e)
  BY DEF OnWorkloadEndpoint
<1> HIDE DEF g1, r0, r
<1>5. /\ r \in Results /\ Settled(r.g) /\ Continues(r0, r)
      /\ here \/ IsLocal(g1, e) => e \in r.out.orders
      /\ SameInputs(g1, r.g) /\ r.g.labels = g1.labels
      /\ r.g.local = [g1.local EXCEPT ![e] = IF here THEN LocalView(g1, e) ELSE Absent]
  <2>1. CASE here
    BY <1>1, <1>2, <1>3, <1>4, <2>1, UpdateLocalFields DEF Settled
  <2>2. CASE ~ here
    BY <1>1, <1>2, <1>3, <1>4, <2>2, RemoveLocalFields
  <2> QED BY <2>1, <2>2
<1>6. Labelled(r.g)
  BY <1>1, <1>5 DEF Coherent, Labelled, SameInputs, SameViews
<1>7. Placed(r.g)
  <2>1. \A x \in Endpoints : LocalView(r.g, x) = LocalView(g1, x)
    BY <1>5, LocalViewSame DEF SameInputs
  <2>2. \A x \in Endpoints : x # e => LocalView(g1, x) = LocalView(g, x)
    BY <1>1 DEF LocalView, SameViews
  <2>3. \A x \in Endpoints : r.g.local[x] = IF x = e THEN IF here THEN LocalView(g1, e) ELSE Absent
                                            ELSE g.local[x]
    BY <1>1, <1>5 DEF Graph, SameViews
  <2>4. \A x \in Endpoints : x # e => r.g.items[x] = g.items[x]
    BY <1>1, <1>5 DEF SameInputs, Graph
  <2>5. r.g.items[e] = new
    BY <1>1, <1>5 DEF SameInputs
  <2>6. ASSUME NEW x \in Endpoints
        PROVE  r.g.local[x] = IF r.g.items[x] # Absent /\ r.g.items[x].local
                              THEN LocalView(r.g, x) ELSE Absent
    <3>1. CASE x = e
      BY <3>1, <2>1, <2>3, <2>5
    <3>2. CASE x # e
      BY <3>2, <2>1, <2>2, <2>3, <2>4 DEF Coherent, Placed
    <3> QED BY <3>1, <3>2
  <2>7. r.g.local \in [Endpoints -> LocalEndpoint \cup {Absent}]
    BY <1>5 DEF Results, Graph
  <2> QED BY <2>6, <2>7 DEF Placed
<1>8. Tells(g, r)
  <2>1. Tells(g, r0)
    BY <1>1, BeginUnfolded DEF SameCaches, r0
  <2> QED BY <1>5, <2>1 DEF Continues
<1>9. Orderly(g, r)
  <2> SUFFICES ASSUME NEW x \in Endpoints \ r.out.orders
               PROVE  /\ IsLocal(r.g, x) <=> IsLocal(g, x)
                      /\ IsLocal(g, x) => EndpointDetail(r.g, x) = EndpointDetail(g, x)
    BY DEF Orderly
  <2>1. /\ r.g.tiers = g.tiers /\ r.g.policies = g.policies /\ g1.local = g.local
        /\ r.g.items = [g.items EXCEPT ![e] = new]
        /\ g \in Graph /\ r.g \in Graph
    BY <1>1, <1>5 DEF SameInputs, SameViews, Coherent, Results
  <2>2. /\ g.items \in [Endpoints -> Endpoint \cup {Absent}]
        /\ g.local \in [Endpoints -> LocalEndpoint \cup {Absent}]
    BY <2>1 DEF Graph
  <2>3. CASE x = e
    <3>1. ~ here /\ ~ IsLocal(g, e)
      BY <1>5, <2>1, <2>3 DEF IsLocal
    <3> QED BY <1>5, <2>1, <2>2, <2>3, <3>1 DEF IsLocal
  <2>4. CASE x # e
    <3>1. r.g.local[x] = g.local[x] /\ r.g.items[x] = g.items[x]
      BY <1>5, <2>1, <2>2, <2>4
    <3> QED BY <2>1, <3>1, OrderKept DEF IsLocal
  <2> QED BY <2>3, <2>4
<1> QED BY <1>5, <1>6, <1>7, <1>8, <1>9 DEF Coherent, Results, Reports, r, g1

LEMMA OnProfileKeeps ==
    ASSUME NEW g, Coherent(g), NEW f \in Profiles, NEW new \in Profile \cup {Absent}
    PROVE  LET r == OnProfile(g, f, new)
           IN  /\ r \in Results /\ Coherent(r.g) /\ Reports(g, r)
               /\ SameInputs([g EXCEPT !.profiles[f] = new], r.g)
<1> DEFINE g1 == [g EXCEPT !.profiles[f] = new]
           r0 == TakeProfile(g, f, new)
           label == IF new = Absent THEN NoLabel ELSE new.label
           h == [r0.g EXCEPT !.labels[f] = label]
           r1 == [r0 EXCEPT !.g = h]
           r2 == OnProfile(g, f, new)
<1>1. /\ r0 \in Results /\ Settled(r0.g) /\ Tells(g, r0)
      /\ SameInputs(g1, r0.g) /\ SameViews(g, r0.g)
  BY TakeProfileFields DEF Coherent
<1>2. r2 = RedriveProfileEndpoints(r1, f)
  BY <1>1 DEF OnProfile, Results, Graph
<1>3. /\ g1.profiles = [g.profiles EXCEPT ![f] = new] /\ g1.items = g.items
      /\ g1.policies = g.policies /\ g1.tiers = g.tiers
      /\ g1.profiles \in [Profiles -> Profile \cup {Absent}]
  BY DEF Coherent, Graph
<1> HIDE DEF g1, r0, r2
<1>4. label \in Values
  BY DEF Profile, Values
<1> HIDE DEF label
<1>5. /\ h \in Graph /\ SameInputs(g1, h) /\ SameCaches(r0.g, h) /\ h.local = g.local
      /\ h.policies = r0.g.policies /\ h.profiles = r0.g.profiles
      /\ h.labels = [g.labels EXCEPT ![f] = label]
  BY <1>1, <1>4 DEF Results, Graph, SameInputs, SameViews, SameCaches
<1> HIDE DEF h
<1>6. r1 \in Results /\ r1.g = h /\ r1.out = r0.out
  BY <1>1, <1>5 DEF Results
<1> HIDE DEF r1
<1>7. Settled(h)
  BY <1>1, <1>5, SettledKeeps DEF SameViews
<1>8. \A e \in Naming(h, f) : h.items[e] # Absent
  BY <1>3, <1>5 DEF Naming, IsLocal, Coherent, Placed, SameInputs
<1>9. /\ r2 \in Results /\ Settled(r2.g) /\ SameInputs(h, r2.g) /\ r2.g.labels = h.labels
      /\ Continues(r1, r2) /\ Naming(h, f) \subseteq r2.out.orders
      /\ r2.g.local = [e \in Endpoints |-> IF e \in Naming(h, f) THEN LocalView(h, e)
                                           ELSE h.local[e]]
  BY <1>2, <1>6, <1>7, <1>8, RedriveFields
<1>10. SameInputs(g1, r2.g)
  BY <1>5, <1>9 DEF SameInputs
<1>11. Labelled(r2.g)
  <2>1. r2.g.profiles = [g.profiles EXCEPT ![f] = new]
    BY <1>3, <1>10 DEF SameInputs
  <2>2. r2.g.labels = [g.labels EXCEPT ![f] = label]
    BY <1>5, <1>9
  <2>3. g.profiles \in [Profiles -> Profile \cup {Absent}]
    BY DEF Coherent, Graph
  <2>4. g.labels = [x \in Profiles |-> IF g.profiles[x] = Absent THEN NoLabel
                                       ELSE g.profiles[x].label]
    BY DEF Coherent, Labelled
  <2> QED BY <2>1, <2>2, <2>3, <2>4 DEF Labelled, label
<1>12. Placed(r2.g)
  <2>1. \A e \in Endpoints : LocalView(r2.g, e) = LocalView(h, e)
    BY <1>9, LocalViewSame DEF SameInputs
  <2>2. h.items = g.items /\ r2.g.items = g.items
    BY <1>3, <1>5, <1>10 DEF SameInputs
  <2>3. ASSUME NEW e \in Endpoints
        PROVE  r2.g.local[e] = IF g.items[e] # Absent /\ g.items[e].local
                               THEN LocalView(h, e) ELSE Absent
    <3>1. CASE ~ (g.items[e] # Absent /\ g.items[e].local)
      <4>1. g.local[e] = Absent
        BY <3>1 DEF Coherent, Placed
      <4> QED BY <3>1, <4>1, <1>5, <1>9 DEF Naming, IsLocal
    <3>2. CASE g.items[e] # Absent /\ g.items[e].local
      <4>1. g.local[e] = LocalView(g, e)
        BY <3>2 DEF Coherent, Placed
      <4>2. LocalView(g, e) # Absent
        BY <3>2, LocalViewType, AbsentAssumption DEF Coherent
      <4>3. CASE f \in Range(g.items[e].profiles)
        <5>1. e \in Naming(h, f)
          BY <1>5, <4>1, <4>2, <4>3 DEF Naming, IsLocal, LocalView
        <5> QED BY <3>2, <5>1, <1>9
      <4>4. CASE f \notin Range(g.items[e].profiles)
        <5>1. e \notin Naming(h, f)
          BY <1>5, <4>1, <4>4 DEF Naming, LocalView
        <5>2. /\ g.labels \in [Profiles -> Values]
              /\ g.items[e].label \in Values /\ g.items[e].profiles \in Seq(Profiles)
          BY <3>2 DEF Coherent, Graph, Endpoint
        <5>3. \A x \in Range(g.items[e].profiles) : h.labels[x] = g.labels[x]
          <6>1. Range(g.items[e].profiles) \subseteq Profiles
            BY <5>2 DEF Range
          <6> QED BY <1>5, <4>4, <5>2, <6>1
        <5>4. EffectiveLabel(h.labels, g.items[e].label, g.items[e].profiles)
                = EffectiveLabel(g.labels, g.items[e].label, g.items[e].profiles)
          BY <5>2, <5>3, EffectiveLabelFacts
        <5>5. LocalView(h, e) = LocalView(g, e)
          BY <2>2, <5>4 DEF LocalView
        <5> QED BY <3>2, <4>1, <5>1, <5>5, <1>5, <1>9
      <4> QED BY <4>3, <4>4
    <3> QED BY <3>1, <3>2
  <2>4. r2.g.local \in [Endpoints -> LocalEndpoint \cup {Absent}]
    BY <1>9 DEF Results, Graph
  <2> QED BY <2>1, <2>2, <2>3, <2>4 DEF Placed
<1>13. Tells(g, r2)
  <2>1. Tells(g, r1)
    BY <1>1, <1>5, <1>6 DEF Tells, SameCaches
  <2> QED BY <1>9, <2>1 DEF Continues
<1>14. Orderly(g, r2)
  <2> SUFFICES ASSUME NEW e \in Endpoints \ r2.out.orders
               PROVE  /\ IsLocal(r2.g, e) <=> IsLocal(g, e)
                      /\ EndpointDetail(r2.g, e) = EndpointDetail(g, e)
    BY DEF Orderly
  <2>1. /\ r2.g.tiers = g.tiers /\ r2.g.policies = g.policies /\ r2.g.items = g.items
        /\ g \in Graph /\ r2.g \in Graph
    BY <1>3, <1>9, <1>10 DEF SameInputs, Coherent, Results
  <2>2. r2.g.local[e] = g.local[e]
    BY <1>5, <1>9
  <2> QED BY <2>1, <2>2, OrderKept DEF IsLocal
<1> QED BY <1>9, <1>10, <1>11, <1>12, <1>13, <1>14 DEF Coherent, Results, Reports, r2, g1

-----------------------------------------------------------------------------
(* The graph that objects define. *)
InputsOf(g, objects) ==
    /\ g.policies = [p \in Policies |-> Held(objects, p, Absent)]
    /\ g.profiles = [f \in Profiles |-> Held(objects, f, Absent)]
    /\ g.items = [e \in Endpoints |-> Held(objects, e, Absent)]
    /\ g.tiers = [t \in Tiers |-> Held(objects, t, NoOrder)]

LEMMA CoherentIsDefined ==
    ASSUME NEW g, Coherent(g), NEW objects, InputsOf(g, objects)
    PROVE  g = GraphOf(objects)
<1> DEFINE inputs == [EmptyGraph EXCEPT !.policies = g.policies, !.profiles = g.profiles,
                         !.labels = g.labels, !.items = g.items, !.tiers = g.tiers]
           placed == [inputs EXCEPT !.local = g.local]
           active == NowActive(placed)
           refs == [o \in Owners |-> IF o \in active THEN SetsOf[RulesOf(placed, o)] ELSE {}]
           count == [s \in IpSets |-> Cardinality({o \in Owners : s \in refs[o]})]
           resolved == [o \in Owners |-> IF o \in active THEN RulesOf(placed, o) ELSE Absent]
           profiles == [f \in Profiles |-> Held(objects, f, Absent)]
           inputs0 == [EmptyGraph EXCEPT
                          !.policies = [p \in Policies |-> Held(objects, p, Absent)],
                          !.profiles = profiles,
                          !.labels = [f \in Profiles |->
                              IF profiles[f] = Absent THEN NoLabel ELSE profiles[f].label],
                          !.items = [e \in Endpoints |-> Held(objects, e, Absent)],
                          !.tiers = [t \in Tiers |-> Held(objects, t, NoOrder)]]
           local0 == [e \in Endpoints |->
                         IF inputs0.items[e] # Absent /\ inputs0.items[e].local
                         THEN LocalView(inputs0, e) ELSE Absent]
           placed0 == [inputs0 EXCEPT !.local = local0]
           active0 == NowActive(placed0)
           refs0 == [o \in Owners |-> IF o \in active0 THEN SetsOf[RulesOf(placed0, o)] ELSE {}]
<1>1. GraphOf(objects) =
        [placed0 EXCEPT !.active = active0, !.refs = refs0,
                        !.count = [s \in IpSets |-> Cardinality({o \in Owners : s \in refs0[o]})],
                        !.resolved = [o \in Owners |-> IF o \in active0 THEN RulesOf(placed0, o)
                                                       ELSE Absent]]
  BY DEF GraphOf
<1>2. /\ g.policies = [p \in Policies |-> Held(objects, p, Absent)]
      /\ g.profiles = profiles
      /\ g.items = [e \in Endpoints |-> Held(objects, e, Absent)]
      /\ g.tiers = [t \in Tiers |-> Held(objects, t, NoOrder)]
      /\ g.labels = [f \in Profiles |-> IF profiles[f] = Absent THEN NoLabel ELSE profiles[f].label]
  BY DEF InputsOf, Coherent, Labelled
<1>3. inputs0 = inputs
  BY <1>2
<1> HIDE DEF inputs0
<1>4. inputs.items = g.items /\ inputs.labels = g.labels
  BY DEF EmptyGraph
<1>5. local0 = g.local
  <2>1. \A e \in Endpoints : LocalView(inputs, e) = LocalView(g, e)
    BY <1>4, LocalViewSame
  <2> HIDE DEF inputs
  <2>2. local0 = [e \in Endpoints |-> IF g.items[e] # Absent /\ g.items[e].local
                                      THEN LocalView(g, e) ELSE Absent]
    BY <1>3, <1>4, <2>1
  <2> QED BY <2>2 DEF Coherent, Placed
<1> HIDE DEF local0
<1>6. placed0 = placed
  BY <1>3, <1>5
<1> HIDE DEF placed0
<1>7. /\ placed.policies = g.policies /\ placed.profiles = g.profiles /\ placed.local = g.local
  BY DEF EmptyGraph
<1>8. placed = [policies |-> g.policies, profiles |-> g.profiles, labels |-> g.labels,
                items |-> g.items, local |-> g.local, tiers |-> g.tiers,
                active |-> {}, refs |-> EmptyGraph.refs, count |-> EmptyGraph.count,
                resolved |-> EmptyGraph.resolved]
  <2>1. PICK p, f, l, i, v, t, a, r, c, s :
            EmptyGraph = [policies |-> p, profiles |-> f, labels |-> l, items |-> i, local |-> v,
                          tiers |-> t, active |-> a, refs |-> r, count |-> c, resolved |-> s]
    BY Zenon DEF EmptyGraph
  <2>2. EmptyGraph.active = {}
    BY DEF EmptyGraph
  <2>3. /\ a = {} /\ EmptyGraph.local = v /\ EmptyGraph.refs = r /\ EmptyGraph.count = c
        /\ EmptyGraph.resolved = s
    BY <2>1, <2>2
  <2>4. inputs = [EmptyGraph EXCEPT !.policies = g.policies, !.profiles = g.profiles,
                      !.labels = g.labels, !.items = g.items, !.tiers = g.tiers]
    OBVIOUS
  <2>5. placed = [inputs EXCEPT !.local = g.local]
    OBVIOUS
  <2> HIDE DEF inputs, placed
  <2>6. inputs = [policies |-> g.policies, profiles |-> g.profiles, labels |-> g.labels,
                  items |-> g.items, local |-> v, tiers |-> g.tiers,
                  active |-> a, refs |-> r, count |-> c, resolved |-> s]
    BY <2>1, <2>4
  <2>7. placed = [policies |-> g.policies, profiles |-> g.profiles, labels |-> g.labels,
                  items |-> g.items, local |-> g.local, tiers |-> g.tiers,
                  active |-> a, refs |-> r, count |-> c, resolved |-> s]
    BY <2>5, <2>6
  <2> QED BY <2>3, <2>7
<1> HIDE DEF inputs, placed
<1>9. active = g.active /\ \A o \in Owners : RulesOf(placed, o) = RulesOf(g, o)
  <2>1. NowActive(placed) = NowActive(g) /\ \A o \in Owners : RulesOf(placed, o) = RulesOf(g, o)
    BY <1>7, SameActive
  <2> QED BY <2>1 DEF Coherent, Settled
<1> HIDE DEF active
<1>10. g.active \subseteq Owners /\ g.resolved \in [Owners -> Rules \cup {Absent}]
  BY DEF Coherent, Graph
<1>11. \A o \in Owners : g.resolved[o] = IF o \in active THEN RulesOf(placed, o) ELSE Absent
  BY <1>9 DEF Coherent, Settled, Ready, Marked, Scanned
<1>12. resolved = g.resolved
  BY <1>10, <1>11
<1>13. refs = g.refs
  <2>1. g.refs = [o \in Owners |-> IF g.resolved[o] = Absent THEN {} ELSE SetsOf[g.resolved[o]]]
    BY DEF Coherent, Settled, Ready, Tidy
  <2>2. \A o \in Owners : g.resolved[o] = Absent <=> o \notin active
    BY <1>9 DEF Coherent, Settled, Ready, Marked
  <2> QED BY <1>11, <2>1, <2>2
<1> HIDE DEF refs, resolved
<1>14. count = g.count
  BY <1>13 DEF Coherent, Settled, Ready, Tidy
<1> HIDE DEF count
<1>15. active0 = active
  BY <1>6 DEF active
<1> HIDE DEF active0
<1>16. refs0 = refs
  BY <1>6, <1>15 DEF refs
<1> HIDE DEF refs0
<1>17. GraphOf(objects) = [placed EXCEPT !.active = active, !.refs = refs, !.count = count,
                                         !.resolved = resolved]
  BY <1>1, <1>6, <1>15, <1>16 DEF count, resolved
<1>18. GraphOf(objects) = [placed EXCEPT !.active = g.active, !.refs = g.refs, !.count = g.count,
                                         !.resolved = g.resolved]
  BY <1>9, <1>12, <1>13, <1>14, <1>17
<1>19. g = [policies |-> g.policies, profiles |-> g.profiles, labels |-> g.labels,
            items |-> g.items, local |-> g.local, tiers |-> g.tiers,
            active |-> g.active, refs |-> g.refs, count |-> g.count, resolved |-> g.resolved]
  BY DEF Coherent, Graph
<1> QED BY <1>8, <1>18, <1>19

-----------------------------------------------------------------------------
(* What objects hold for an identifier, where each has one of its own. *)
LEMMA HeldObject ==
    ASSUME OwnIdentifiers
    PROVE  \A objects, none : \A k \in Objects :
               Held(objects, IdOf[k], none) = IF objects[k] = Absent THEN none ELSE objects[k]
BY DEF OwnIdentifiers, Held

LEMMA HeldByNone ==
    \A objects, id, none : (\A k \in Objects : IdOf[k] # id) => Held(objects, id, none) = none
BY DEF Held

LEMMA HeldAfter ==
    ASSUME OwnIdentifiers, NEW k \in Objects, NEW before, NEW after, NEW none,
           \A j \in Objects : j # k => after[j] = before[j]
    PROVE  \A id : Held(after, id, none)
                     = IF id = IdOf[k] THEN IF after[k] = Absent THEN none ELSE after[k]
                       ELSE Held(before, id, none)
<1> SUFFICES ASSUME NEW id
             PROVE  Held(after, id, none)
                      = IF id = IdOf[k] THEN IF after[k] = Absent THEN none ELSE after[k]
                        ELSE Held(before, id, none)
  OBVIOUS
<1>1. CASE id = IdOf[k]
  BY <1>1, HeldObject
<1>2. CASE id # IdOf[k] /\ \E j \in Objects : IdOf[j] = id
  <2>1. PICK j \in Objects : IdOf[j] = id
    BY <1>2
  <2>2. j # k
    BY <1>2, <2>1
  <2>3. Held(after, IdOf[j], none) = IF after[j] = Absent THEN none ELSE after[j]
    BY HeldObject
  <2>4. Held(before, IdOf[j], none) = IF before[j] = Absent THEN none ELSE before[j]
    BY HeldObject
  <2> QED BY <1>2, <2>1, <2>2, <2>3, <2>4
<1>3. CASE id # IdOf[k] /\ \A j \in Objects : IdOf[j] # id
  BY <1>3, HeldByNone
<1> QED BY <1>1, <1>2, <1>3

-----------------------------------------------------------------------------
(* The agent's graph. *)
AnySpec == (UNION {Specs[k] : k \in Objects}) \cup {Absent}
ObjectsOK(o) == o \in [Objects -> AnySpec] /\ \A k \in Objects : o[k] \in Specs[k] \cup {Absent}
GraphInv == ObjectsOK(store) /\ ObjectsOK(known) /\ Coherent(graph)
InputsInv == InputsOf(graph, known)

LEMMA SpecTypes ==
    ASSUME NEW k \in Objects, NEW v \in Specs[k] \cup {Absent}
    PROVE  /\ IdOf[k] \in Policies => v \in Policy \cup {Absent}
           /\ IdOf[k] \in Profiles => v \in Profile \cup {Absent}
           /\ IdOf[k] \in Endpoints => v \in Endpoint \cup {Absent}
           /\ IdOf[k] \in Tiers => v \in Nat \cup {Absent}
BY SpecsAssumption

LEMMA OnUpdateKeeps ==
    ASSUME NEW g, Coherent(g), NEW k \in Objects, NEW new \in Specs[k] \cup {Absent}
    PROVE  LET id == IdOf[k]
               r == OnUpdate(g, id, new)
           IN  /\ r \in Results /\ Coherent(r.g) /\ Reports(g, r)
               /\ r.g.policies = IF id \in Policies THEN [g.policies EXCEPT ![id] = new]
                                                   ELSE g.policies
               /\ r.g.profiles = IF id \in Profiles THEN [g.profiles EXCEPT ![id] = new]
                                                   ELSE g.profiles
               /\ r.g.items = IF id \in Endpoints THEN [g.items EXCEPT ![id] = new] ELSE g.items
               /\ r.g.tiers = IF id \in Tiers
                              THEN [g.tiers EXCEPT ![id] = IF new = Absent THEN NoOrder ELSE new]
                              ELSE g.tiers
<1> DEFINE id == IdOf[k]
           r == OnUpdate(g, id, new)
<1>1. /\ id \in Policies \cup Profiles \cup Endpoints \cup Tiers
      /\ id \in Policies => id \notin Profiles \cup Endpoints \cup Tiers
      /\ id \in Profiles => id \notin Policies \cup Endpoints \cup Tiers
      /\ id \in Endpoints => id \notin Policies \cup Profiles \cup Tiers
      /\ id \in Tiers => id \notin Policies \cup Profiles \cup Endpoints
  BY ObjectsAssumption, NamesAssumption DEF Owners
<1>2. /\ id \in Policies => new \in Policy \cup {Absent}
      /\ id \in Profiles => new \in Profile \cup {Absent}
      /\ id \in Endpoints => new \in Endpoint \cup {Absent}
      /\ id \in Tiers => new \in Nat \cup {Absent}
  BY SpecTypes
<1>3. g \in Graph
  BY DEF Coherent
<1> HIDE DEF id
<1>4. CASE id \in Policies
  <2>1. r = OnPolicy(g, id, new)
    BY <1>1, <1>4 DEF OnUpdate
  <2> HIDE DEF r
  <2>2. /\ r \in Results /\ Coherent(r.g) /\ Reports(g, r)
        /\ SameInputs([g EXCEPT !.policies[id] = new], r.g)
    BY <2>1, <1>2, <1>4, OnPolicyKeeps
  <2>3. /\ r.g.policies = [g.policies EXCEPT ![id] = new] /\ r.g.profiles = g.profiles
        /\ r.g.items = g.items /\ r.g.tiers = g.tiers
    BY <2>2, <1>3 DEF SameInputs, Graph
  <2> QED BY <2>2, <2>3, <1>1, <1>4 DEF r, id
<1>5. CASE id \in Profiles
  <2>1. r = OnProfile(g, id, new)
    BY <1>1, <1>5 DEF OnUpdate
  <2> HIDE DEF r
  <2>2. /\ r \in Results /\ Coherent(r.g) /\ Reports(g, r)
        /\ SameInputs([g EXCEPT !.profiles[id] = new], r.g)
    BY <2>1, <1>2, <1>5, OnProfileKeeps
  <2>3. /\ r.g.profiles = [g.profiles EXCEPT ![id] = new] /\ r.g.policies = g.policies
        /\ r.g.items = g.items /\ r.g.tiers = g.tiers
    BY <2>2, <1>3 DEF SameInputs, Graph
  <2> QED BY <2>2, <2>3, <1>1, <1>5 DEF r, id
<1>6. CASE id \in Endpoints
  <2>1. r = OnWorkloadEndpoint(g, id, new)
    BY <1>1, <1>6 DEF OnUpdate, Owners
  <2> HIDE DEF r
  <2>2. /\ r \in Results /\ Coherent(r.g) /\ Reports(g, r)
        /\ SameInputs([g EXCEPT !.items[id] = new], r.g)
    BY <2>1, <1>2, <1>6, OnWorkloadEndpointKeeps
  <2>3. /\ r.g.items = [g.items EXCEPT ![id] = new] /\ r.g.policies = g.policies
        /\ r.g.profiles = g.profiles /\ r.g.tiers = g.tiers
    BY <2>2, <1>3 DEF SameInputs, Graph
  <2> QED BY <2>2, <2>3, <1>1, <1>6 DEF r, id
<1>7. CASE id \in Tiers
  <2>1. r = OnTier(g, id, new)
    BY <1>1, <1>7 DEF OnUpdate, Owners
  <2> HIDE DEF r
  <2>2. /\ r \in Results /\ Coherent(r.g) /\ Reports(g, r)
        /\ SameInputs([g EXCEPT !.tiers[id] = IF new = Absent THEN NoOrder ELSE new], r.g)
    BY <2>1, <1>2, <1>7, OnTierKeeps
  <2>3. /\ r.g.tiers = [g.tiers EXCEPT ![id] = IF new = Absent THEN NoOrder ELSE new]
        /\ r.g.policies = g.policies /\ r.g.profiles = g.profiles /\ r.g.items = g.items
    BY <2>2, <1>3 DEF SameInputs, Graph
  <2> QED BY <2>2, <2>3, <1>1, <1>7 DEF r, id
<1> QED BY <1>1, <1>4, <1>5, <1>6, <1>7

LEMMA InputsKept ==
    ASSUME OwnIdentifiers, NEW g, NEW before, NEW after, NEW k \in Objects,
           Coherent(g), InputsOf(g, before), after[k] \in Specs[k] \cup {Absent},
           \A j \in Objects : j # k => after[j] = before[j]
    PROVE  InputsOf(OnUpdate(g, IdOf[k], after[k]).g, after)
<1> DEFINE id == IdOf[k]
           new == after[k]
           h == OnUpdate(g, id, new).g
<1>1. /\ \A p \in Policies : Held(after, p, Absent)
                               = IF p = id THEN new ELSE Held(before, p, Absent)
      /\ \A p \in Profiles : Held(after, p, Absent)
                               = IF p = id THEN new ELSE Held(before, p, Absent)
      /\ \A p \in Endpoints : Held(after, p, Absent)
                               = IF p = id THEN new ELSE Held(before, p, Absent)
      /\ \A p \in Tiers : Held(after, p, NoOrder)
                            = IF p = id THEN IF new = Absent THEN NoOrder ELSE new
                              ELSE Held(before, p, NoOrder)
  <2>1. \A p : Held(after, p, Absent) = IF p = id THEN IF after[k] = Absent THEN Absent ELSE after[k]
                                        ELSE Held(before, p, Absent)
    BY HeldAfter
  <2>2. \A p : Held(after, p, NoOrder) = IF p = id THEN IF after[k] = Absent THEN NoOrder ELSE after[k]
                                         ELSE Held(before, p, NoOrder)
    BY HeldAfter
  <2> QED BY <2>1, <2>2
<1>2. /\ g.policies = [p \in Policies |-> Held(before, p, Absent)]
      /\ g.profiles = [f \in Profiles |-> Held(before, f, Absent)]
      /\ g.items = [e \in Endpoints |-> Held(before, e, Absent)]
      /\ g.tiers = [t \in Tiers |-> Held(before, t, NoOrder)]
  BY DEF InputsOf
<1>3. /\ h.policies = IF id \in Policies THEN [g.policies EXCEPT ![id] = new] ELSE g.policies
      /\ h.profiles = IF id \in Profiles THEN [g.profiles EXCEPT ![id] = new] ELSE g.profiles
      /\ h.items = IF id \in Endpoints THEN [g.items EXCEPT ![id] = new] ELSE g.items
      /\ h.tiers = IF id \in Tiers
                   THEN [g.tiers EXCEPT ![id] = IF new = Absent THEN NoOrder ELSE new]
                   ELSE g.tiers
  BY OnUpdateKeeps
<1> HIDE DEF h, id, new
<1>4. h.policies = [p \in Policies |-> Held(after, p, Absent)]
  BY <1>1, <1>2, <1>3
<1>5. h.profiles = [p \in Profiles |-> Held(after, p, Absent)]
  BY <1>1, <1>2, <1>3
<1>6. h.items = [p \in Endpoints |-> Held(after, p, Absent)]
  BY <1>1, <1>2, <1>3
<1>7. h.tiers = [p \in Tiers |-> Held(after, p, NoOrder)]
  BY <1>1, <1>2, <1>3
<1> QED BY <1>4, <1>5, <1>6, <1>7 DEF InputsOf, h, id, new

LEMMA NothingKnown ==
    /\ ObjectsOK([k \in Objects |-> Absent])
    /\ Coherent(EmptyGraph) /\ InputsOf(EmptyGraph, [k \in Objects |-> Absent])
<1> DEFINE none == [k \in Objects |-> Absent]
           g == EmptyGraph
<1>1. ObjectsOK(none)
  BY DEF ObjectsOK, AnySpec
<1>2. /\ g.policies = [p \in Policies |-> Absent] /\ g.profiles = [f \in Profiles |-> Absent]
      /\ g.labels = [f \in Profiles |-> NoLabel] /\ g.items = [e \in Endpoints |-> Absent]
      /\ g.local = [e \in Endpoints |-> Absent] /\ g.tiers = [t \in Tiers |-> NoOrder]
      /\ g.active = {} /\ g.refs = [o \in Owners |-> {}] /\ g.count = [s \in IpSets |-> 0]
      /\ g.resolved = [o \in Owners |-> Absent]
  BY DEF EmptyGraph
<1>3. g \in Graph
  BY NamesAssumption DEF EmptyGraph, Graph, Values
<1> HIDE DEF g
<1>4. InputsOf(g, none)
  <2>1. \A id, nothing : Held(none, id, nothing) = nothing
    BY DEF Held
  <2> HIDE DEF none
  <2> QED BY <1>2, <2>1 DEF InputsOf
<1>5. Tidy(g)
  <2>1. g.refs = [o \in Owners |-> IF g.resolved[o] = Absent THEN {} ELSE SetsOf[g.resolved[o]]]
    BY <1>2
  <2>2. \A s \in IpSets : {o \in Owners : s \in g.refs[o]} = {}
    BY <1>2
  <2>3. \A s \in IpSets : Cardinality({o \in Owners : s \in g.refs[o]}) = 0
    BY <2>2, FS_EmptySet
  <2> QED BY <1>2, <2>1, <2>3 DEF Tidy
<1>6. NowActive(g) = {}
  BY <1>2 DEF NowActive, Matched, IsLocal
<1>7. Marked(g) /\ Scanned(g)
  BY <1>2 DEF Marked, Scanned
<1>8. Labelled(g) /\ Placed(g)
  BY <1>2 DEF Labelled, Placed
<1> QED BY <1>1, <1>2, <1>3, <1>4, <1>5, <1>6, <1>7, <1>8 DEF Coherent, Settled, Ready, g

LEMMA InitGraph == Init => GraphInv /\ InputsInv
BY NothingKnown, SpecsAssumption DEF Init, GraphInv, InputsInv, ObjectsOK, AnySpec

LEMMA StepGraph ==
    ASSUME GraphInv, [Next]_vars
    PROVE  GraphInv' /\ (OwnIdentifiers /\ InputsInv => InputsInv')
<1> USE DEF GraphInv
<1> DEFINE Kept == GraphInv' /\ (OwnIdentifiers /\ InputsInv => InputsInv')
<1>1. ASSUME NEW k \in Objects, Change(k) PROVE Kept
  <2>1. /\ UNCHANGED <<known, graph>>
        /\ \E v \in Specs[k] \cup {Absent} : store' = [store EXCEPT ![k] = v]
    BY <1>1 DEF Change, agent
  <2>2. ObjectsOK(store)'
    BY <2>1 DEF ObjectsOK, AnySpec
  <2> QED BY <2>1, <2>2 DEF InputsInv
<1>2. ASSUME NEW k \in Objects, Deliver(k) PROVE Kept
  <2>1. /\ known' = [known EXCEPT ![k] = store[k]] /\ UNCHANGED store
        /\ graph' = OnUpdate(graph, IdOf[k], store[k]).g
    BY <1>2 DEF Deliver, Hand
  <2>2. ObjectsOK(known')
    BY <2>1 DEF ObjectsOK
  <2>3. known'[k] = store[k] /\ \A j \in Objects : j # k => known'[j] = known[j]
    BY <2>1 DEF ObjectsOK
  <2>4. store[k] \in Specs[k] \cup {Absent}
    BY DEF ObjectsOK
  <2>5. Coherent(graph')
    BY <2>1, <2>4, OnUpdateKeeps
  <2>6. OwnIdentifiers /\ InputsInv => InputsOf(graph', known')
    BY <2>1, <2>3, <2>4, InputsKept DEF InputsInv
  <2> QED BY <2>1, <2>2, <2>5, <2>6 DEF InputsInv
<1>3. ASSUME NEW kind \in Kinds, Connect(kind) \/ Break(kind) \/ ListDone(kind) PROVE Kept
  BY <1>3 DEF Connect, Break, ListDone, agent, InputsInv
<1>4. CASE Receive \/ Apply \/ UNCHANGED vars
  BY <1>4 DEF Receive, Apply, vars, watch, agent, InputsInv
<1>5. CASE Restart
  <2>1. /\ store' = store /\ known' = [k \in Objects |-> Absent] /\ graph' = EmptyGraph
    BY <1>5 DEF Restart
  <2>2. ObjectsOK(known') /\ Coherent(graph') /\ InputsOf(graph', known')
    BY <2>1, NothingKnown
  <2>3. ObjectsOK(store')
    BY <2>1
  <2> QED BY <2>2, <2>3 DEF InputsInv
<1> QED BY <1>1, <1>2, <1>3, <1>4, <1>5 DEF Next

(* Whatever order objects arrive, change and go in, and however often the  *)
(* agent restarts, the graph is the one that what has been delivered       *)
(* defines: no cache of it is ever out of date.                            *)
THEOREM GraphIsCoherent == OwnIdentifiers => (Spec => []GraphCoherent)
<1>1. GraphInv /\ InputsInv => GraphCoherent
  BY CoherentIsDefined DEF GraphInv, InputsInv, GraphCoherent
<1>2. ASSUME OwnIdentifiers PROVE GraphInv /\ InputsInv /\ [Next]_vars => (GraphInv /\ InputsInv)'
  BY <1>2, StepGraph
<1>3. ASSUME OwnIdentifiers PROVE Spec => []GraphCoherent
  BY <1>1, <1>2, <1>3, InitGraph, PTL DEF Spec
<1> QED BY <1>3

-----------------------------------------------------------------------------
(* Sequences of messages: what they hold, and in which order. *)
Lists(q, M) == /\ q \in Seq(M)
               /\ \A m \in M : \E i \in DOMAIN q : q[i] = m

Phase(m) ==
    IF m.kind = "set" THEN IF m.content = Absent THEN 5 ELSE 1
    ELSE IF m.kind = "members" THEN 1
    ELSE IF m.kind = "rules" THEN IF m.rules = Absent THEN 4 ELSE 2
    ELSE IF m.kind = "endpoint" THEN 3 ELSE 6

InPhases(q, lo, hi) ==
    /\ \A i \in DOMAIN q : lo <= Phase(q[i]) /\ Phase(q[i]) <= hi
    /\ \A i, j \in DOMAIN q : i < j => Phase(q[i]) <= Phase(q[j])

LEMMA PhaseType == \A m : Phase(m) \in 1 .. 6
BY DEF Phase

LEMMA ListsRange ==
    ASSUME NEW q, NEW M, Lists(q, M)
    PROVE  Range(q) = M
BY DEF Lists, Range

LEMMA ListsNone == Lists(<< >>, {}) /\ \A lo, hi : InPhases(<< >>, lo, hi)
BY DEF Lists, InPhases

LEMMA ListsEach ==
    ASSUME NEW S, IsFiniteSet(S), NEW F, DOMAIN F = S, NEW q,
           q = [i \in DOMAIN SetToSeq(S) |-> q[i]],
           \A i \in DOMAIN SetToSeq(S) :
               SetToSeq(S)[i] \in S => q[i] = F[SetToSeq(S)[i]]
    PROVE  Lists(q, {F[x] : x \in S})
<1> DEFINE es == SetToSeq(S)
           M == {F[x] : x \in S}
<1>1. /\ Len(es) \in Nat /\ es \in [1 .. Len(es) -> S]
      /\ \A x \in S : \E i \in 1 .. Len(es) : es[i] = x
  BY Visits
<1> HIDE DEF es
<1>2. q = [i \in DOMAIN es |-> q[i]] /\ \A i \in 1 .. Len(es) : q[i] = F[es[i]]
  BY <1>1 DEF es
<1>3. q \in [1 .. Len(es) -> M]
  BY <1>1, <1>2
<1>4. q \in Seq(M) /\ DOMAIN q = 1 .. Len(es)
  BY <1>1, <1>3
<1>5. \A x \in S : \E i \in DOMAIN q : q[i] = F[x]
  BY <1>1, <1>2, <1>4
<1> QED BY <1>4, <1>5 DEF Lists

LEMMA ListsBoth ==
    ASSUME NEW a, NEW A, NEW b, NEW B, Lists(a, A), Lists(b, B)
    PROVE  /\ Lists(a \o b, A \cup B)
           /\ \A lo \in Nat, mid \in Nat, hi \in Nat :
                 InPhases(a, lo, mid) /\ InPhases(b, hi, hi) /\ lo <= mid /\ mid <= hi
                    => InPhases(a \o b, lo, hi)
<1> DEFINE c == a \o b
           C == A \cup B
<1>1. /\ a \in Seq(C) /\ b \in Seq(C)
      /\ Len(a) \in Nat /\ Len(b) \in Nat /\ DOMAIN a = 1 .. Len(a) /\ DOMAIN b = 1 .. Len(b)
  BY DEF Lists
<1>2. /\ c \in Seq(C) /\ DOMAIN c = 1 .. Len(a) + Len(b)
      /\ \A i \in DOMAIN c : c[i] = IF i <= Len(a) THEN a[i] ELSE b[i - Len(a)]
  BY <1>1
<1> HIDE DEF c
<1>3. \A i \in DOMAIN a : i \in DOMAIN c /\ c[i] = a[i]
  BY <1>1, <1>2
<1>4. \A i \in DOMAIN b : i + Len(a) \in DOMAIN c /\ c[i + Len(a)] = b[i]
  BY <1>1, <1>2
<1>5. \A m \in C : \E i \in DOMAIN c : c[i] = m
  BY <1>3, <1>4 DEF Lists
<1>6. ASSUME NEW lo \in Nat, NEW mid \in Nat, NEW hi \in Nat,
             InPhases(a, lo, mid), InPhases(b, hi, hi), lo <= mid, mid <= hi
      PROVE  InPhases(c, lo, hi)
  <2>1. \A i \in DOMAIN c : \/ i \in DOMAIN a /\ i <= Len(a) /\ c[i] = a[i]
                            \/ i - Len(a) \in DOMAIN b /\ i > Len(a) /\ c[i] = b[i - Len(a)]
    BY <1>1, <1>2
  <2>2. /\ \A i \in DOMAIN a : lo <= Phase(a[i]) /\ Phase(a[i]) <= mid /\ Phase(a[i]) \in Nat
        /\ \A i \in DOMAIN b : hi <= Phase(b[i]) /\ Phase(b[i]) <= hi /\ Phase(b[i]) \in Nat
    BY <1>6, PhaseType DEF InPhases
  <2>3. \A i \in DOMAIN c : lo <= Phase(c[i]) /\ Phase(c[i]) <= hi
    BY <1>6, <2>1, <2>2
  <2>4. ASSUME NEW i \in DOMAIN c, NEW j \in DOMAIN c, i < j
        PROVE  Phase(c[i]) <= Phase(c[j])
    <3>1. i \in Nat /\ j \in Nat
      BY <1>1, <1>2
    <3>2. CASE i \in DOMAIN a /\ c[i] = a[i] /\ j \in DOMAIN a /\ c[j] = a[j]
      BY <1>6, <2>4, <3>2 DEF InPhases
    <3>3. CASE i \in DOMAIN a /\ c[i] = a[i] /\ j - Len(a) \in DOMAIN b /\ c[j] = b[j - Len(a)]
      BY <1>6, <2>2, <3>3
    <3>4. CASE /\ i - Len(a) \in DOMAIN b /\ c[i] = b[i - Len(a)]
               /\ j - Len(a) \in DOMAIN b /\ c[j] = b[j - Len(a)]
      <4>1. i - Len(a) < j - Len(a)
        BY <1>1, <2>4, <3>1
      <4> QED BY <1>6, <3>4, <4>1 DEF InPhases
    <3> QED BY <1>1, <2>1, <2>4, <3>1, <3>2, <3>3, <3>4
  <2> QED BY <2>3, <2>4 DEF InPhases
<1> QED BY <1>2, <1>5, <1>6 DEF Lists, c

LEMMA PhasesBoth ==
    ASSUME NEW a, NEW A, NEW b, NEW B, Lists(a, A), Lists(b, B),
           NEW lo \in Nat, NEW mid \in Nat, NEW hi \in Nat,
           InPhases(a, lo, mid), InPhases(b, hi, hi), lo <= mid, mid <= hi
    PROVE  Lists(a \o b, A \cup B) /\ InPhases(a \o b, lo, hi)
<1>1. Lists(a \o b, A \cup B)
  BY ListsBoth
<1>2. InPhases(a \o b, lo, hi)
  BY ListsBoth
<1> QED BY <1>1, <1>2

LEMMA OnePhase ==
    ASSUME NEW q, NEW M, Lists(q, M), NEW n \in Nat, \A m \in M : Phase(m) = n
    PROVE  InPhases(q, n, n)
BY DEF Lists, InPhases

LEMMA TailFacts ==
    ASSUME NEW M, NEW q \in Seq(M), q # << >>
    PROVE  /\ Head(q) \in M /\ Tail(q) \in Seq(M)
           /\ Range(q) = {Head(q)} \cup Range(Tail(q))
           /\ \A lo, hi : InPhases(q, lo, hi)
                 => /\ InPhases(Tail(q), lo, hi)
                    /\ \A m \in Range(Tail(q)) : Phase(Head(q)) <= Phase(m)
<1> DEFINE t == Tail(q)
<1>1. /\ Len(q) \in Nat /\ Len(q) > 0 /\ DOMAIN q = 1 .. Len(q) /\ Head(q) = q[1]
      /\ t \in Seq(M) /\ DOMAIN t = 1 .. Len(q) - 1
      /\ \A i \in DOMAIN t : t[i] = q[i + 1]
  OBVIOUS
<1> HIDE DEF t
<1>2. Head(q) \in M
  BY <1>1
<1>3. Range(q) = {Head(q)} \cup Range(t)
  <2>1. ASSUME NEW i \in DOMAIN q PROVE q[i] \in {Head(q)} \cup Range(t)
    <3>1. CASE i = 1
      BY <1>1, <3>1
    <3>2. CASE i # 1
      <4>1. i - 1 \in DOMAIN t /\ t[i - 1] = q[i]
        BY <1>1, <3>2
      <4> QED BY <4>1 DEF Range
    <3> QED BY <3>1, <3>2
  <2>2. \A i \in DOMAIN t : i + 1 \in DOMAIN q /\ t[i] = q[i + 1]
    BY <1>1
  <2>3. 1 \in DOMAIN q
    BY <1>1
  <2>4. Head(q) \in Range(q)
    BY <1>1, <2>3 DEF Range
  <2>5. Range(t) \subseteq Range(q)
    BY <2>2 DEF Range
  <2>6. Range(q) \subseteq {Head(q)} \cup Range(t)
    <3> DEFINE U == {Head(q)} \cup Range(t)
    <3>1. \A i \in DOMAIN q : q[i] \in U
      BY <2>1
    <3> HIDE DEF U
    <3>2. Range(q) \subseteq U
      BY <3>1 DEF Range
    <3> QED BY <3>2 DEF U
  <2> QED BY <2>4, <2>5, <2>6
<1>4. ASSUME NEW lo, NEW hi, InPhases(q, lo, hi)
      PROVE  InPhases(t, lo, hi) /\ \A m \in Range(t) : Phase(Head(q)) <= Phase(m)
  <2>1. \A i \in DOMAIN t : i + 1 \in DOMAIN q /\ t[i] = q[i + 1] /\ i \in Nat /\ i > 0
    BY <1>1
  <2>2. 1 \in DOMAIN q
    BY <1>1
  <2>3. \A i, j \in DOMAIN t : i < j => i + 1 < j + 1
    BY <2>1
  <2>4. \A i \in DOMAIN t : 1 < i + 1
    BY <2>1
  <2> QED BY <1>1, <1>4, <2>1, <2>2, <2>3, <2>4 DEF InPhases, Range
<1> QED BY <1>1, <1>2, <1>3, <1>4 DEF t

-----------------------------------------------------------------------------
(* What a flush sends. *)
SnapshotOf(q, s) == [kind |-> "set", set |-> s,
                     content |-> [type |-> InferType(q.addedSets[s]),
                                  members |-> q.addedSets[s]]]
DifferenceOf(q, s) == [kind |-> "members", set |-> s, plus |-> q.plus[s], minus |-> q.minus[s]]
UpdateOf(q, o) == [kind |-> "rules", owner |-> o, tier |-> q.updates[o].tier,
                   rules |-> q.updates[o].rules]
RemovalOf(q, o) == [kind |-> "rules", owner |-> o, tier |-> q.removes[o], rules |-> Absent]
EndpointOf(q, e) == [kind |-> "endpoint", endpoint |-> e, detail |-> q.epUpdates[e]]
GoneEndpoint(e) == [kind |-> "endpoint", endpoint |-> e, detail |-> Absent]
GoneSet(s) == [kind |-> "set", set |-> s, content |-> Absent]

Snapshots(q) == {SnapshotOf(q, s) : s \in {x \in IpSets : q.addedSets[x] # Absent}}
Differences(q) == {DifferenceOf(q, s) : s \in {x \in IpSets : q.plus[x] \cup q.minus[x] # {}}}
Updates(q, owners) == {UpdateOf(q, o) : o \in {x \in owners : q.updates[x] # Absent}}
Removals(q, owners) == {RemovalOf(q, o) : o \in {x \in owners : q.removes[x] # Absent}}
EndpointsSent(q) == {EndpointOf(q, e) : e \in {x \in Endpoints : q.epUpdates[x] # Absent}}
EndpointsGone(q) == {GoneEndpoint(e) : e \in q.epRemoves}
SetsGone(q) == {GoneSet(s) : s \in q.removedSets}
Barrier(q) == IF q.inSyncPending /\ ~ q.inSyncSent THEN {[kind |-> "insync"]} ELSE {}

Messages(q) ==
    Snapshots(q) \cup Differences(q) \cup Updates(q, Owners) \cup EndpointsSent(q)
    \cup EndpointsGone(q) \cup Removals(q, Owners) \cup SetsGone(q) \cup Barrier(q)

LEMMA SnapshotsSent ==
    ASSUME NEW q \in Sequencer
    PROVE  /\ Lists(FlushIpSets(q), Snapshots(q) \cup Differences(q))
           /\ InPhases(FlushIpSets(q), 1, 1)
<1> DEFINE A == {s \in IpSets : q.addedSets[s] # Absent}
           B == {s \in IpSets : q.plus[s] \cup q.minus[s] # {}}
           F == [s \in A |-> SnapshotOf(q, s)]
           G == [s \in B |-> DifferenceOf(q, s)]
           a == [i \in DOMAIN SetToSeq(A) |-> SnapshotOf(q, SetToSeq(A)[i])]
           b == [i \in DOMAIN SetToSeq(B) |-> DifferenceOf(q, SetToSeq(B)[i])]
<1>1. IsFiniteSet(A) /\ IsFiniteSet(B)
  BY NamesAssumption, FS_Subset
<1>2. FlushIpSets(q) = a \o b
  BY DEF FlushIpSets, Each, SnapshotOf, DifferenceOf
<1>3. {F[s] : s \in A} = Snapshots(q) /\ {G[s] : s \in B} = Differences(q)
  BY DEF Snapshots, Differences
<1> HIDE DEF A, B
<1>4. Lists(a, Snapshots(q)) /\ Lists(b, Differences(q))
  <2>1. Lists(a, {F[s] : s \in A})
    BY <1>1, ListsEach
  <2>2. Lists(b, {G[s] : s \in B})
    BY <1>1, ListsEach
  <2> QED BY <1>3, <2>1, <2>2
<1> HIDE DEF a, b
<1>5. \A m \in Snapshots(q) \cup Differences(q) : Phase(m) = 1
  <2>1. ASSUME NEW s \in IpSets, q.addedSets[s] # Absent PROVE SnapshotOf(q, s).content # Absent
    <3>1. q.addedSets[s] \in SUBSET Members
      BY <2>1 DEF Sequencer
    <3>2. SnapshotOf(q, s).content \in Set
      BY <3>1 DEF SnapshotOf, Set, InferType
    <3> QED BY <3>2, ContentAssumption
  <2>2. \A s : SnapshotOf(q, s).kind = "set" /\ DifferenceOf(q, s).kind = "members"
    BY DEF SnapshotOf, DifferenceOf
  <2> QED BY <2>1, <2>2 DEF Snapshots, Differences, Phase
<1>6. Lists(a \o b, Snapshots(q) \cup Differences(q))
  BY <1>4, ListsBoth
<1> QED BY <1>2, <1>5, <1>6, OnePhase

LEMMA RulesSent ==
    ASSUME NEW q \in Sequencer, NEW owners \in SUBSET Owners
    PROVE  /\ Lists(FlushRules(q, owners), Updates(q, owners))
           /\ InPhases(FlushRules(q, owners), 2, 2)
           /\ Lists(FlushRuleRemovals(q, owners), Removals(q, owners))
           /\ InPhases(FlushRuleRemovals(q, owners), 4, 4)
<1> DEFINE A == {o \in owners : q.updates[o] # Absent}
           B == {o \in owners : q.removes[o] # Absent}
           F == [o \in A |-> UpdateOf(q, o)]
           G == [o \in B |-> RemovalOf(q, o)]
           a == [i \in DOMAIN SetToSeq(A) |-> UpdateOf(q, SetToSeq(A)[i])]
           b == [i \in DOMAIN SetToSeq(B) |-> RemovalOf(q, SetToSeq(B)[i])]
<1>1. IsFiniteSet(A) /\ IsFiniteSet(B)
  BY NamesAssumption, FS_Subset
<1>2. FlushRules(q, owners) = a /\ FlushRuleRemovals(q, owners) = b
  BY DEF FlushRules, FlushRuleRemovals, Each, UpdateOf, RemovalOf
<1>3. {F[o] : o \in A} = Updates(q, owners) /\ {G[o] : o \in B} = Removals(q, owners)
  BY DEF Updates, Removals
<1> HIDE DEF A, B
<1>4. Lists(a, Updates(q, owners)) /\ Lists(b, Removals(q, owners))
  <2>1. Lists(a, {F[o] : o \in A})
    BY <1>1, ListsEach
  <2>2. Lists(b, {G[o] : o \in B})
    BY <1>1, ListsEach
  <2> QED BY <1>3, <2>1, <2>2
<1> HIDE DEF a, b
<1>5. \A m \in Updates(q, owners) : Phase(m) = 2
  BY AbsentAssumption DEF Updates, UpdateOf, Phase, Sequencer
<1>6. \A m \in Removals(q, owners) : Phase(m) = 4
  BY DEF Removals, RemovalOf, Phase
<1> QED BY <1>2, <1>4, <1>5, <1>6, OnePhase

LEMMA EndpointsAreSent ==
    ASSUME NEW q \in Sequencer
    PROVE  /\ Lists(FlushEndpoints(q), EndpointsSent(q) \cup EndpointsGone(q))
           /\ InPhases(FlushEndpoints(q), 3, 3)
<1> DEFINE A == {e \in Endpoints : q.epUpdates[e] # Absent}
           B == q.epRemoves
           F == [e \in A |-> EndpointOf(q, e)]
           G == [e \in B |-> GoneEndpoint(e)]
           a == [i \in DOMAIN SetToSeq(A) |-> EndpointOf(q, SetToSeq(A)[i])]
           b == [i \in DOMAIN SetToSeq(B) |-> GoneEndpoint(SetToSeq(B)[i])]
<1>1. IsFiniteSet(A) /\ IsFiniteSet(B)
  BY NamesAssumption, FS_Subset DEF Sequencer
<1>2. FlushEndpoints(q) = a \o b
  BY DEF FlushEndpoints, Each, EndpointOf, GoneEndpoint
<1>3. {F[e] : e \in A} = EndpointsSent(q) /\ {G[e] : e \in B} = EndpointsGone(q)
  BY DEF EndpointsSent, EndpointsGone
<1> HIDE DEF A, B
<1>4. Lists(a, EndpointsSent(q)) /\ Lists(b, EndpointsGone(q))
  <2>1. Lists(a, {F[e] : e \in A})
    BY <1>1, ListsEach
  <2>2. Lists(b, {G[e] : e \in B})
    BY <1>1, ListsEach
  <2> QED BY <1>3, <2>1, <2>2
<1> HIDE DEF a, b
<1>5. \A m \in EndpointsSent(q) \cup EndpointsGone(q) : Phase(m) = 3
  BY DEF EndpointsSent, EndpointsGone, EndpointOf, GoneEndpoint, Phase
<1>6. Lists(a \o b, EndpointsSent(q) \cup EndpointsGone(q))
  BY <1>4, ListsBoth
<1> QED BY <1>2, <1>5, <1>6, OnePhase

LEMMA SetsGoneSent ==
    ASSUME NEW q \in Sequencer
    PROVE  /\ Lists(FlushIpSetRemovals(q), SetsGone(q))
           /\ InPhases(FlushIpSetRemovals(q), 5, 5)
           /\ Lists(FlushInSync(q), Barrier(q))
           /\ InPhases(FlushInSync(q), 6, 6)
<1> DEFINE A == q.removedSets
           F == [s \in A |-> GoneSet(s)]
           a == [i \in DOMAIN SetToSeq(A) |-> GoneSet(SetToSeq(A)[i])]
<1>1. IsFiniteSet(A)
  BY NamesAssumption, FS_Subset DEF Sequencer
<1>2. FlushIpSetRemovals(q) = a
  BY DEF FlushIpSetRemovals, Each, GoneSet
<1>3. {F[s] : s \in A} = SetsGone(q)
  BY DEF SetsGone
<1> HIDE DEF A
<1>4. Lists(a, {F[s] : s \in A})
  BY <1>1, ListsEach
<1> HIDE DEF a
<1>5. \A m \in SetsGone(q) : Phase(m) = 5
  BY DEF SetsGone, GoneSet, Phase
<1>6. Lists(FlushInSync(q), Barrier(q))
  <2>1. Lists(<<[kind |-> "insync"]>>, {[kind |-> "insync"]})
    <3> DEFINE m == [kind |-> "insync"]
    <3> HIDE DEF m
    <3>1. <<m>> \in Seq({m}) /\ 1 \in DOMAIN <<m>> /\ <<m>>[1] = m
      OBVIOUS
    <3>2. Lists(<<m>>, {m})
      BY <3>1 DEF Lists
    <3> QED BY <3>2 DEF m
  <2> QED BY <2>1, ListsNone DEF FlushInSync, Barrier
<1>7. \A m \in Barrier(q) : Phase(m) = 6
  BY DEF Barrier, Phase
<1> QED BY <1>2, <1>3, <1>4, <1>5, <1>6, <1>7, OnePhase

(* A flush sends these messages, sets before what refers to them.          *)
LEMMA FlushSends ==
    ASSUME NEW q \in Sequencer
    PROVE  /\ Range(Flush(q)) = Messages(q)
           /\ Flush(q) \in Seq(Messages(q)) /\ InPhases(Flush(q), 1, 6)
<1> DEFINE f1 == FlushIpSets(q)
           f2 == FlushRules(q, Policies)
           f3 == FlushRules(q, Profiles)
           f4 == FlushEndpoints(q)
           f5 == FlushRuleRemovals(q, Profiles)
           f6 == FlushRuleRemovals(q, Policies)
           f7 == FlushIpSetRemovals(q)
           f8 == FlushInSync(q)
           M1 == Snapshots(q) \cup Differences(q)
           M2 == Updates(q, Policies)
           M3 == Updates(q, Profiles)
           M4 == EndpointsSent(q) \cup EndpointsGone(q)
           M5 == Removals(q, Profiles)
           M6 == Removals(q, Policies)
           M7 == SetsGone(q)
           M8 == Barrier(q)
<1>1. Flush(q) = f1 \o f2 \o f3 \o f4 \o f5 \o f6 \o f7 \o f8
  BY DEF Flush
<1>2. Policies \in SUBSET Owners /\ Profiles \in SUBSET Owners
  BY DEF Owners
<1>3. /\ Lists(f1, M1) /\ InPhases(f1, 1, 1) /\ Lists(f2, M2) /\ InPhases(f2, 2, 2)
      /\ Lists(f3, M3) /\ InPhases(f3, 2, 2) /\ Lists(f4, M4) /\ InPhases(f4, 3, 3)
      /\ Lists(f5, M5) /\ InPhases(f5, 4, 4) /\ Lists(f6, M6) /\ InPhases(f6, 4, 4)
      /\ Lists(f7, M7) /\ InPhases(f7, 5, 5) /\ Lists(f8, M8) /\ InPhases(f8, 6, 6)
  BY <1>2, SnapshotsSent, RulesSent, EndpointsAreSent, SetsGoneSent
<1>4. Messages(q) = M1 \cup M2 \cup M3 \cup M4 \cup M5 \cup M6 \cup M7 \cup M8
  <2>1. /\ Updates(q, Owners) = M2 \cup M3
        /\ Removals(q, Owners) = M5 \cup M6
    BY DEF Updates, Removals, Owners
  <2> QED BY <2>1 DEF Messages
<1> HIDE DEF f1, f2, f3, f4, f5, f6, f7, f8, M1, M2, M3, M4, M5, M6, M7, M8
<1> DEFINE c2 == f1 \o f2
           c3 == c2 \o f3
           c4 == c3 \o f4
           c5 == c4 \o f5
           c6 == c5 \o f6
           c7 == c6 \o f7
           c8 == c7 \o f8
           L2 == M1 \cup M2
           L3 == L2 \cup M3
           L4 == L3 \cup M4
           L5 == L4 \cup M5
           L6 == L5 \cup M6
           L7 == L6 \cup M7
           L8 == L7 \cup M8
<1>5. Lists(c2, L2) /\ InPhases(c2, 1, 2)
  <2>1. Lists(f1, M1) /\ InPhases(f1, 1, 1) /\ Lists(f2, M2) /\ InPhases(f2, 2, 2)
    BY <1>3
  <2> QED BY <2>1, PhasesBoth
<1> HIDE DEF c2, L2
<1>6. Lists(c3, L3) /\ InPhases(c3, 1, 2)
  BY <1>3, <1>5, PhasesBoth
<1> HIDE DEF c3, L3
<1>7. Lists(c4, L4) /\ InPhases(c4, 1, 3)
  BY <1>3, <1>6, PhasesBoth
<1> HIDE DEF c4, L4
<1>8. Lists(c5, L5) /\ InPhases(c5, 1, 4)
  BY <1>3, <1>7, PhasesBoth
<1> HIDE DEF c5, L5
<1>9. Lists(c6, L6) /\ InPhases(c6, 1, 4)
  BY <1>3, <1>8, PhasesBoth
<1> HIDE DEF c6, L6
<1>10. Lists(c7, L7) /\ InPhases(c7, 1, 5)
  BY <1>3, <1>9, PhasesBoth
<1> HIDE DEF c7, L7
<1>11. Lists(c8, L8) /\ InPhases(c8, 1, 6)
  BY <1>3, <1>10, PhasesBoth
<1>12. c8 = Flush(q) /\ L8 = Messages(q)
  <2>1. f1 \o f2 \o f3 \o f4 \o f5 \o f6 \o f7 \o f8 = c8
    BY DEF c2, c3, c4, c5, c6, c7
  <2> QED BY <1>1, <1>4, <2>1 DEF L2, L3, L4, L5, L6, L7
<1> HIDE DEF c8, L8
<1>13. Lists(Flush(q), Messages(q)) /\ InPhases(Flush(q), 1, 6)
  BY <1>11, <1>12
<1> QED BY <1>13, ListsRange DEF Lists

-----------------------------------------------------------------------------
(* What an update leaves in a sequencer that had nothing buffered. *)
Quiet(q) ==
    /\ q.addedSets = [s \in IpSets |-> Absent] /\ q.removedSets = {}
    /\ q.plus = [s \in IpSets |-> {}] /\ q.minus = [s \in IpSets |-> {}]
    /\ q.updates = [o \in Owners |-> Absent] /\ q.removes = [o \in Owners |-> Absent]
    /\ q.epUpdates = [e \in Endpoints |-> Absent] /\ q.epRemoves = {}

KeepsSent(q, q1) == /\ q1.inSyncPending = q.inSyncPending /\ q1.inSyncSent = q.inSyncSent
                    /\ q1.sentSets = q.sentSets /\ q1.sent = q.sent /\ q1.sentEps = q.sentEps

TiersOf(o) == IF o \in Policies THEN Tiers ELSE {NoTier}

LEMMA MembersTyped == \A g \in Graph : \A s : IpSetMembers(g, s) \in SUBSET Members
<1> SUFFICES ASSUME NEW g \in Graph, NEW s PROVE IpSetMembers(g, s) \in SUBSET Members
  OBVIOUS
<1>1. \A e \in Endpoints : g.items[e] # Absent => g.items[e].members \in SUBSET Members
  BY DEF Graph, Endpoint
<1> DEFINE X == {x \in Endpoints : g.items[x] # Absent /\ LocalView(g, x).label \in Peers[s]}
<1>2. IpSetMembers(g, s) = IF g.count[s] = 0 THEN {} ELSE UNION {g.items[e].members : e \in X}
  BY DEF IpSetMembers
<1>3. \A e \in X : g.items[e].members \in SUBSET Members
  BY <1>1
<1> HIDE DEF X
<1> QED BY <1>2, <1>3

LEMMA IngestSets ==
    ASSUME NEW q \in Sequencer, Quiet(q), NEW g \in Graph, NEW r \in Results
    PROVE  LET q1 == IngestIpSets(q, r.g, r.out)
               q2 == IngestMembers(q1, r.g, g)
               on == r.out.added \ r.out.removed
               off == r.out.removed \cap q.sentSets
           IN  /\ q2 \in Sequencer /\ KeepsSent(q, q2)
               /\ q2.addedSets = [s \in IpSets |-> IF s \in on THEN IpSetMembers(r.g, s) ELSE Absent]
               /\ q2.removedSets = off
               /\ q2.plus = [s \in IpSets |-> IF s \in on \cup off THEN {}
                                              ELSE IpSetMembers(r.g, s) \ IpSetMembers(g, s)]
               /\ q2.minus = [s \in IpSets |-> IF s \in on \cup off THEN {}
                                               ELSE IpSetMembers(g, s) \ IpSetMembers(r.g, s)]
               /\ q2.updates = q.updates /\ q2.removes = q.removes
               /\ q2.epUpdates = q.epUpdates /\ q2.epRemoves = q.epRemoves
<1> DEFINE q1 == IngestIpSets(q, r.g, r.out)
           q2 == IngestMembers(q1, r.g, g)
           on == r.out.added \ r.out.removed
           off == r.out.removed \cap q.sentSets
<1>1. /\ r.out.added \in SUBSET IpSets /\ r.out.removed \in SUBSET IpSets /\ r.g \in Graph
      /\ q.sentSets \in SUBSET IpSets
  BY DEF Results, Deltas, Sequencer
<1>2. /\ \A s : IpSetMembers(r.g, s) \in SUBSET Members /\ IpSetMembers(g, s) \in SUBSET Members
      /\ \A s : IpSetMembers(r.g, s) # Absent
  BY <1>1, MembersTyped, AbsentAssumption
<1> DEFINE A == [s \in IpSets |->
                    IF s \in r.out.removed THEN Absent
                    ELSE IF s \in r.out.added \/ q.addedSets[s] # Absent THEN IpSetMembers(r.g, s)
                    ELSE Absent]
           D == (q.removedSets \ r.out.added) \cup (r.out.removed \cap q.sentSets)
           P == [s \in IpSets |-> IF s \in r.out.added \cup r.out.removed THEN {} ELSE q.plus[s]]
           N == [s \in IpSets |-> IF s \in r.out.added \cup r.out.removed THEN {} ELSE q.minus[s]]
<1>3. q1 = [q EXCEPT !.addedSets = A, !.removedSets = D, !.plus = P, !.minus = N]
  BY DEF IngestIpSets, Sequencer
<1>4. /\ A = [s \in IpSets |-> IF s \in on THEN IpSetMembers(r.g, s) ELSE Absent]
      /\ D = off
      /\ P = [s \in IpSets |-> {}] /\ N = [s \in IpSets |-> {}]
  BY DEF Quiet
<1> HIDE DEF q1, A, D, P, N
<1>5. /\ A \in [IpSets -> (SUBSET Members) \cup {Absent}] /\ D \in SUBSET IpSets
      /\ P \in [IpSets -> SUBSET Members] /\ N \in [IpSets -> SUBSET Members]
  BY <1>1, <1>2, <1>4
<1>6. /\ q1 \in Sequencer /\ KeepsSent(q, q1)
      /\ q1.addedSets = A /\ q1.removedSets = D /\ q1.plus = P /\ q1.minus = N
      /\ q1.updates = q.updates /\ q1.removes = q.removes
      /\ q1.epUpdates = q.epUpdates /\ q1.epRemoves = q.epRemoves
  BY <1>3, <1>5 DEF Sequencer, KeepsSent
<1> DEFINE skip == {s \in IpSets : q1.addedSets[s] # Absent} \cup q1.removedSets
           won(s) == IpSetMembers(r.g, s) \ IpSetMembers(g, s)
           lost(s) == IpSetMembers(g, s) \ IpSetMembers(r.g, s)
           P2 == [s \in IpSets |-> IF s \in skip THEN q1.plus[s]
                                   ELSE (q1.plus[s] \ lost(s)) \cup (won(s) \ q1.minus[s])]
           N2x == [s \in IpSets |-> IF s \in skip THEN q1.minus[s]
                                   ELSE (q1.minus[s] \ won(s)) \cup (lost(s) \ q1.plus[s])]
<1>7. q2 = [q1 EXCEPT !.plus = P2, !.minus = N2x]
  BY <1>6 DEF IngestMembers, Sequencer
<1>8. skip = on \cup off
  BY <1>1, <1>2, <1>4, <1>6
<1> HIDE DEF skip, q2
<1>9. /\ P2 = [s \in IpSets |-> IF s \in on \cup off THEN {} ELSE won(s)]
      /\ N2x = [s \in IpSets |-> IF s \in on \cup off THEN {} ELSE lost(s)]
  BY <1>4, <1>6, <1>8
<1> HIDE DEF P2, N2x
<1>10. P2 \in [IpSets -> SUBSET Members] /\ N2x \in [IpSets -> SUBSET Members]
  BY <1>2, <1>9
<1>11. /\ q2 \in Sequencer /\ KeepsSent(q1, q2)
       /\ q2.addedSets = A /\ q2.removedSets = D /\ q2.plus = P2 /\ q2.minus = N2x
       /\ q2.updates = q.updates /\ q2.removes = q.removes
       /\ q2.epUpdates = q.epUpdates /\ q2.epRemoves = q.epRemoves
  BY <1>6, <1>7, <1>10 DEF Sequencer, KeepsSent
<1>12. KeepsSent(q, q2)
  BY <1>6, <1>11 DEF KeepsSent
<1> QED BY <1>4, <1>9, <1>11, <1>12 DEF q1, q2

(* What a sequencer that had nothing buffered has after an update.         *)
Buffered(q, g, r, q1) ==
    LET on == r.out.added \ r.out.removed
        off == r.out.removed \cap q.sentSets
    IN  /\ q1 \in Sequencer /\ KeepsSent(q, q1)
        /\ \A s \in IpSets : q1.addedSets[s] = IF s \in on THEN IpSetMembers(r.g, s) ELSE Absent
        /\ q1.removedSets = off
        /\ \A s \in IpSets : q1.plus[s] = IF s \in on \cup off THEN {}
                                         ELSE IpSetMembers(r.g, s) \ IpSetMembers(g, s)
        /\ \A s \in IpSets : q1.minus[s] = IF s \in on \cup off THEN {}
                                          ELSE IpSetMembers(g, s) \ IpSetMembers(r.g, s)
        /\ \A o \in Owners : q1.updates[o] =
              IF r.out.last[o] = "active"
              THEN [tier |-> TierOf(r.g, o), rules |-> r.g.resolved[o]] ELSE Absent
        /\ \A o \in Owners : q1.removes[o] = IF r.out.last[o] = "inactive" THEN q.sent[o] ELSE Absent
        /\ \A e \in Endpoints : q1.epUpdates[e] =
              IF e \in r.out.orders /\ IsLocal(r.g, e) THEN EndpointDetail(r.g, e) ELSE Absent
        /\ q1.epRemoves = {e \in r.out.orders \cap q.sentEps : ~ IsLocal(r.g, e)}

LEMMA IngestFields ==
    ASSUME NEW q \in Sequencer, Quiet(q), NEW g \in Graph, NEW r \in Results,
           \A o \in Owners : r.out.last[o] = "active"
               => r.g.resolved[o] \in Rules /\ TierOf(r.g, o) \in TiersOf(o),
           \A e \in Endpoints : IsLocal(r.g, e) => EndpointDetail(r.g, e) \in SentEndpoint
    PROVE  Buffered(q, g, r, Ingest(q, g, r))
<1> DEFINE on == r.out.added \ r.out.removed
           off == r.out.removed \cap q.sentSets
           q0 == IngestIpSets(q, r.g, r.out)
           q2 == IngestMembers(q0, r.g, g)
           q3 == IngestTransitions(q2, r.g, r.out)
           q4 == IngestEndpoints(q3, r.g, r.out)
<1>1. /\ q2 \in Sequencer /\ KeepsSent(q, q2)
      /\ q2.addedSets = [s \in IpSets |-> IF s \in on THEN IpSetMembers(r.g, s) ELSE Absent]
      /\ q2.removedSets = off
      /\ q2.plus = [s \in IpSets |-> IF s \in on \cup off THEN {}
                                     ELSE IpSetMembers(r.g, s) \ IpSetMembers(g, s)]
      /\ q2.minus = [s \in IpSets |-> IF s \in on \cup off THEN {}
                                      ELSE IpSetMembers(g, s) \ IpSetMembers(r.g, s)]
      /\ q2.updates = q.updates /\ q2.removes = q.removes
      /\ q2.epUpdates = q.epUpdates /\ q2.epRemoves = q.epRemoves
  BY IngestSets
<1>2. Ingest(q, g, r) = q4
  BY DEF Ingest
<1>3. /\ r.out.last \in [Owners -> {"none", "inactive", "active"}]
      /\ r.out.orders \in SUBSET Endpoints
      /\ q.sent \in [Owners -> Tables \cup {Absent}] /\ q.sentEps \in SUBSET Endpoints
  BY DEF Results, Deltas, Sequencer
<1> HIDE DEF q2, on, off
<1> DEFINE ons == {o \in Owners : r.out.last[o] = "active"}
           offs == {o \in Owners : r.out.last[o] = "inactive"}
           U0 == [o \in Owners |-> IF o \in ons THEN [tier |-> TierOf(r.g, o), rules |-> r.g.resolved[o]]
                                   ELSE IF o \in offs THEN Absent ELSE q2.updates[o]]
           R0 == [o \in Owners |-> IF o \in ons THEN Absent
                                   ELSE IF o \in offs /\ q2.sent[o] # Absent THEN q2.sent[o]
                                   ELSE q2.removes[o]]
           U == [o \in Owners |-> IF r.out.last[o] = "active"
                                  THEN [tier |-> TierOf(r.g, o), rules |-> r.g.resolved[o]]
                                  ELSE Absent]
           R == [o \in Owners |-> IF r.out.last[o] = "inactive" THEN q.sent[o] ELSE Absent]
<1>4. q3 = [q2 EXCEPT !.updates = U0, !.removes = R0]
  BY <1>1 DEF IngestTransitions, Sequencer
<1>5. U0 = U /\ R0 = R
  BY <1>1 DEF Quiet, KeepsSent
<1>6. /\ U \in [Owners -> [tier : Tables, rules : Rules] \cup {Absent}]
      /\ R \in [Owners -> Tables \cup {Absent}]
  <2>1. \A o \in Owners : r.out.last[o] = "active"
            => [tier |-> TierOf(r.g, o), rules |-> r.g.resolved[o]] \in [tier : Tables, rules : Rules]
    BY DEF TiersOf, Tables
  <2>2. R \in [Owners -> Tables \cup {Absent}]
    BY <1>3
  <2> QED BY <2>1, <2>2
<1> HIDE DEF U0, R0, U, R, q3
<1>7. /\ q3 \in Sequencer /\ KeepsSent(q2, q3)
      /\ q3.addedSets = q2.addedSets /\ q3.removedSets = q2.removedSets
      /\ q3.plus = q2.plus /\ q3.minus = q2.minus
      /\ q3.updates = U /\ q3.removes = R
      /\ q3.epUpdates = q.epUpdates /\ q3.epRemoves = q.epRemoves
  BY <1>1, <1>4, <1>5, <1>6 DEF Sequencer, KeepsSent
<1> DEFINE E0 == [e \in Endpoints |-> IF e \notin r.out.orders THEN q3.epUpdates[e]
                                      ELSE IF IsLocal(r.g, e) THEN EndpointDetail(r.g, e) ELSE Absent]
           G0 == (q3.epRemoves \ {e \in r.out.orders : IsLocal(r.g, e)})
                 \cup {e \in r.out.orders \cap q3.sentEps : ~ IsLocal(r.g, e)}
           E == [e \in Endpoints |-> IF e \in r.out.orders /\ IsLocal(r.g, e)
                                     THEN EndpointDetail(r.g, e) ELSE Absent]
           G == {e \in r.out.orders \cap q.sentEps : ~ IsLocal(r.g, e)}
<1>8. q4 = [q3 EXCEPT !.epUpdates = E0, !.epRemoves = G0]
  BY <1>7 DEF IngestEndpoints, Sequencer
<1>9. E0 = E /\ G0 = G
  BY <1>1, <1>7 DEF Quiet, KeepsSent
<1>10. E \in [Endpoints -> SentEndpoint \cup {Absent}] /\ G \in SUBSET Endpoints
  BY <1>3
<1> HIDE DEF E0, G0, E, G, q4
<1>11. /\ q4 \in Sequencer /\ KeepsSent(q3, q4)
       /\ q4.addedSets = q2.addedSets /\ q4.removedSets = q2.removedSets
       /\ q4.plus = q2.plus /\ q4.minus = q2.minus
       /\ q4.updates = U /\ q4.removes = R /\ q4.epUpdates = E /\ q4.epRemoves = G
  BY <1>7, <1>8, <1>9, <1>10 DEF Sequencer, KeepsSent
<1>12. KeepsSent(q, q4)
  BY <1>1, <1>7, <1>11 DEF KeepsSent
<1>13. /\ q4.addedSets = [s \in IpSets |-> IF s \in on THEN IpSetMembers(r.g, s) ELSE Absent]
       /\ q4.removedSets = off
       /\ q4.plus = [s \in IpSets |-> IF s \in on \cup off THEN {}
                                      ELSE IpSetMembers(r.g, s) \ IpSetMembers(g, s)]
       /\ q4.minus = [s \in IpSets |-> IF s \in on \cup off THEN {}
                                       ELSE IpSetMembers(g, s) \ IpSetMembers(r.g, s)]
  BY <1>1, <1>11
<1>14. /\ \A o \in Owners : U[o] = IF r.out.last[o] = "active"
                            THEN [tier |-> TierOf(r.g, o), rules |-> r.g.resolved[o]]
                            ELSE Absent
       /\ \A o \in Owners : R[o] = IF r.out.last[o] = "inactive" THEN q.sent[o] ELSE Absent
       /\ \A e \in Endpoints : E[e] = IF e \in r.out.orders /\ IsLocal(r.g, e)
                                     THEN EndpointDetail(r.g, e) ELSE Absent
       /\ G = {e \in r.out.orders \cap q.sentEps : ~ IsLocal(r.g, e)}
  BY DEF U, R, E, G
<1>15. q4 = Ingest(q, g, r)
  BY <1>2 DEF q4, q3, Ingest
<1>16. /\ \A s \in IpSets : q4.addedSets[s] = IF s \in on THEN IpSetMembers(r.g, s) ELSE Absent
       /\ \A s \in IpSets : q4.plus[s] = IF s \in on \cup off THEN {}
                                        ELSE IpSetMembers(r.g, s) \ IpSetMembers(g, s)
       /\ \A s \in IpSets : q4.minus[s] = IF s \in on \cup off THEN {}
                                         ELSE IpSetMembers(g, s) \ IpSetMembers(r.g, s)
  BY <1>13
<1>17. /\ \A o \in Owners : q4.updates[o] =
             IF r.out.last[o] = "active"
             THEN [tier |-> TierOf(r.g, o), rules |-> r.g.resolved[o]] ELSE Absent
       /\ \A o \in Owners : q4.removes[o] = IF r.out.last[o] = "inactive" THEN q.sent[o] ELSE Absent
       /\ \A e \in Endpoints : q4.epUpdates[e] =
             IF e \in r.out.orders /\ IsLocal(r.g, e) THEN EndpointDetail(r.g, e) ELSE Absent
       /\ q4.epRemoves = {e \in r.out.orders \cap q.sentEps : ~ IsLocal(r.g, e)}
  BY <1>11, <1>14
<1>18. q4 \in Sequencer /\ KeepsSent(q, q4) /\ q4.removedSets = off
  BY <1>11, <1>12, <1>13
<1> HIDE DEF U, R, E, G
<1>19. Buffered(q, g, r, q4)
  BY <1>16, <1>17, <1>18 DEF on, off, Buffered
<1> QED BY <1>15, <1>19

-----------------------------------------------------------------------------
(* The messages of a flush, by what they are about. *)
LEMMA MessagesAbout ==
    ASSUME NEW q \in Sequencer
    PROVE  /\ \A m \in Messages(q) :
                 /\ m.kind \in {"set", "members", "rules", "endpoint", "insync"}
                 /\ m.kind = "set" =>
                       \/ m.set \in IpSets /\ q.addedSets[m.set] # Absent /\ m = SnapshotOf(q, m.set)
                       \/ m.set \in q.removedSets /\ m = GoneSet(m.set)
                 /\ m.kind = "members" =>
                       /\ m.set \in IpSets /\ q.plus[m.set] \cup q.minus[m.set] # {}
                       /\ m = DifferenceOf(q, m.set)
                 /\ m.kind = "rules" =>
                       /\ m.owner \in Owners
                       /\ \/ q.updates[m.owner] # Absent /\ m = UpdateOf(q, m.owner)
                          \/ q.removes[m.owner] # Absent /\ m = RemovalOf(q, m.owner)
                 /\ m.kind = "endpoint" =>
                       \/ /\ m.endpoint \in Endpoints /\ q.epUpdates[m.endpoint] # Absent
                          /\ m = EndpointOf(q, m.endpoint)
                       \/ m.endpoint \in q.epRemoves /\ m = GoneEndpoint(m.endpoint)
                 /\ m.kind = "insync" =>
                       q.inSyncPending /\ ~ q.inSyncSent /\ m = [kind |-> "insync"]
           /\ \A s \in IpSets : q.addedSets[s] # Absent => SnapshotOf(q, s) \in Messages(q)
           /\ \A s \in q.removedSets : GoneSet(s) \in Messages(q)
           /\ \A s \in IpSets : q.plus[s] \cup q.minus[s] # {} => DifferenceOf(q, s) \in Messages(q)
           /\ \A o \in Owners : q.updates[o] # Absent => UpdateOf(q, o) \in Messages(q)
           /\ \A o \in Owners : q.removes[o] # Absent => RemovalOf(q, o) \in Messages(q)
           /\ \A e \in Endpoints : q.epUpdates[e] # Absent => EndpointOf(q, e) \in Messages(q)
           /\ \A e \in q.epRemoves : GoneEndpoint(e) \in Messages(q)
<1>1. ASSUME NEW m \in Messages(q)
      PROVE  /\ m.kind \in {"set", "members", "rules", "endpoint", "insync"}
             /\ m.kind = "set" =>
                   \/ m.set \in IpSets /\ q.addedSets[m.set] # Absent /\ m = SnapshotOf(q, m.set)
                   \/ m.set \in q.removedSets /\ m = GoneSet(m.set)
             /\ m.kind = "members" =>
                   /\ m.set \in IpSets /\ q.plus[m.set] \cup q.minus[m.set] # {}
                   /\ m = DifferenceOf(q, m.set)
             /\ m.kind = "rules" =>
                   /\ m.owner \in Owners
                   /\ \/ q.updates[m.owner] # Absent /\ m = UpdateOf(q, m.owner)
                      \/ q.removes[m.owner] # Absent /\ m = RemovalOf(q, m.owner)
             /\ m.kind = "endpoint" =>
                   \/ /\ m.endpoint \in Endpoints /\ q.epUpdates[m.endpoint] # Absent
                      /\ m = EndpointOf(q, m.endpoint)
                   \/ m.endpoint \in q.epRemoves /\ m = GoneEndpoint(m.endpoint)
             /\ m.kind = "insync" =>
                   q.inSyncPending /\ ~ q.inSyncSent /\ m = [kind |-> "insync"]
  <2>1. ASSUME NEW s \in IpSets, q.addedSets[s] # Absent, m = SnapshotOf(q, s)
        PROVE  m.kind = "set" /\ m.set = s
    BY <2>1 DEF SnapshotOf
  <2>2. ASSUME NEW s \in IpSets, m = DifferenceOf(q, s) PROVE m.kind = "members" /\ m.set = s
    BY <2>2 DEF DifferenceOf
  <2>3. ASSUME NEW o, m = UpdateOf(q, o) \/ m = RemovalOf(q, o)
        PROVE  m.kind = "rules" /\ m.owner = o
    BY <2>3 DEF UpdateOf, RemovalOf
  <2>4. ASSUME NEW e, m = EndpointOf(q, e) \/ m = GoneEndpoint(e)
        PROVE  m.kind = "endpoint" /\ m.endpoint = e
    BY <2>4 DEF EndpointOf, GoneEndpoint
  <2>5. ASSUME NEW s, m = GoneSet(s) PROVE m.kind = "set" /\ m.set = s
    BY <2>5 DEF GoneSet
  <2>6. CASE m \in Snapshots(q)
    BY <2>1, <2>6 DEF Snapshots
  <2>7. CASE m \in Differences(q)
    BY <2>2, <2>7 DEF Differences
  <2>8. CASE m \in Updates(q, Owners) \cup Removals(q, Owners)
    BY <2>3, <2>8 DEF Updates, Removals
  <2>9. CASE m \in EndpointsSent(q) \cup EndpointsGone(q)
    BY <2>4, <2>9 DEF EndpointsSent, EndpointsGone
  <2>10. CASE m \in SetsGone(q)
    BY <2>5, <2>10 DEF SetsGone
  <2>11. CASE m \in Barrier(q)
    BY <2>11 DEF Barrier
  <2> QED BY <2>6, <2>7, <2>8, <2>9, <2>10, <2>11 DEF Messages
<1>2. /\ \A s \in IpSets : q.addedSets[s] # Absent => SnapshotOf(q, s) \in Messages(q)
      /\ \A s \in q.removedSets : GoneSet(s) \in Messages(q)
  BY DEF Messages, Snapshots, SetsGone
<1>3. \A s \in IpSets : q.plus[s] \cup q.minus[s] # {} => DifferenceOf(q, s) \in Messages(q)
  BY DEF Messages, Differences
<1>4. /\ \A o \in Owners : q.updates[o] # Absent => UpdateOf(q, o) \in Messages(q)
      /\ \A o \in Owners : q.removes[o] # Absent => RemovalOf(q, o) \in Messages(q)
  BY DEF Messages, Updates, Removals
<1>5. /\ \A e \in Endpoints : q.epUpdates[e] # Absent => EndpointOf(q, e) \in Messages(q)
      /\ \A e \in q.epRemoves : GoneEndpoint(e) \in Messages(q)
  BY DEF Messages, EndpointsSent, EndpointsGone
<1> QED BY <1>1, <1>2, <1>3, <1>4, <1>5

LEMMA MessagesTyped ==
    ASSUME NEW q \in Sequencer,
           \A o \in Owners : q.updates[o] # Absent => q.updates[o].tier \in TiersOf(o),
           \A o \in Owners : q.removes[o] # Absent => q.removes[o] \in TiersOf(o)
    PROVE  Messages(q) \subseteq ToDataplane
<1> SUFFICES ASSUME NEW m \in Messages(q) PROVE m \in ToDataplane
  OBVIOUS
<1>1. m.kind \in {"set", "members", "rules", "endpoint", "insync"}
  BY MessagesAbout
<1>2. CASE m.kind = "set"
  <2>1. CASE m.set \in IpSets /\ q.addedSets[m.set] # Absent /\ m = SnapshotOf(q, m.set)
    <3>1. q.addedSets[m.set] \in SUBSET Members
      BY <2>1 DEF Sequencer
    <3>2. [type |-> InferType(q.addedSets[m.set]), members |-> q.addedSets[m.set]] \in Set
      BY <3>1 DEF Set, InferType
    <3>3. SnapshotOf(q, m.set) \in SetMessage
      BY <2>1, <3>2 DEF SnapshotOf, SetMessage
    <3> QED BY <2>1, <3>3 DEF ToDataplane
  <2>2. CASE m.set \in q.removedSets /\ m = GoneSet(m.set)
    <3>1. GoneSet(m.set) \in SetMessage
      BY <2>2 DEF GoneSet, SetMessage, Sequencer
    <3> QED BY <2>2, <3>1 DEF ToDataplane
  <2> QED BY <1>2, <2>1, <2>2, MessagesAbout
<1>3. CASE m.kind = "members"
  <2>1. m.set \in IpSets /\ m = DifferenceOf(q, m.set)
    BY <1>3, MessagesAbout
  <2>2. DifferenceOf(q, m.set) \in MembersMessage
    BY <2>1 DEF DifferenceOf, MembersMessage, Sequencer
  <2> QED BY <2>1, <2>2 DEF ToDataplane
<1>4. CASE m.kind = "rules"
  <2> DEFINE o == m.owner
  <2>1. /\ o \in Owners
        /\ \/ q.updates[o] # Absent /\ m = UpdateOf(q, o)
           \/ q.removes[o] # Absent /\ m = RemovalOf(q, o)
    BY <1>4, MessagesAbout
  <2> HIDE DEF o
  <2>2. \E tier \in TiersOf(o), rules \in Rules \cup {Absent} :
            m = [kind |-> "rules", owner |-> o, tier |-> tier, rules |-> rules]
    BY <2>1 DEF UpdateOf, RemovalOf, Sequencer
  <2> QED BY <2>1, <2>2 DEF TiersOf, Owners, ToDataplane, PolicyMessage, ProfileMessage
<1>5. CASE m.kind = "endpoint"
  <2>1. \/ /\ m.endpoint \in Endpoints /\ q.epUpdates[m.endpoint] # Absent
           /\ m = EndpointOf(q, m.endpoint)
        \/ m.endpoint \in q.epRemoves /\ m = GoneEndpoint(m.endpoint)
    BY <1>5, MessagesAbout
  <2> DEFINE e == m.endpoint
  <2> HIDE DEF e
  <2>2. /\ e \in Endpoints
        /\ \E detail \in SentEndpoint \cup {Absent} :
              m = [kind |-> "endpoint", endpoint |-> e, detail |-> detail]
    BY <2>1 DEF e, EndpointOf, GoneEndpoint, Sequencer
  <2> QED BY <2>2 DEF ToDataplane, EndpointMessage
<1>6. CASE m.kind = "insync"
  <2>1. m = [kind |-> "insync"]
    BY <1>6, MessagesAbout
  <2> QED BY <2>1 DEF ToDataplane
<1> QED BY <1>1, <1>2, <1>3, <1>4, <1>5, <1>6

LEMMA MessageFields ==
    ASSUME NEW m \in ToDataplane
    PROVE  /\ m.kind \in {"set", "members", "rules", "endpoint", "insync"}
           /\ m.kind = "set" => m.set \in IpSets /\ m.content \in Set \cup {Absent}
           /\ m.kind = "members" => /\ m.set \in IpSets
                                    /\ m.plus \in SUBSET Members /\ m.minus \in SUBSET Members
           /\ m.kind = "rules" => /\ m.owner \in Owners /\ m.tier \in TiersOf(m.owner)
                                  /\ m.tier \in Tables /\ m.rules \in Rules \cup {Absent}
           /\ m.kind = "endpoint" => /\ m.endpoint \in Endpoints
                                     /\ m.detail \in SentEndpoint \cup {Absent}
<1>1. CASE m \in SetMessage
  BY <1>1 DEF SetMessage
<1>2. CASE m \in MembersMessage
  BY <1>2 DEF MembersMessage
<1>3. CASE m \in PolicyMessage \cup ProfileMessage
  BY <1>3, NamesAssumption DEF PolicyMessage, ProfileMessage, TiersOf, Tables, Owners
<1>4. CASE m \in EndpointMessage
  BY <1>4 DEF EndpointMessage
<1>5. CASE m \in [kind : {"insync"}]
  BY <1>5
<1> QED BY <1>1, <1>2, <1>3, <1>4, <1>5 DEF ToDataplane

Shown(t, s) == IF t.sets[s] = Absent THEN Absent ELSE t.sets[s].members

LEMMA AbsorbFields ==
    ASSUME NEW t \in Table, NEW m \in ToDataplane
    PROVE  LET u == Absorb(t, m)
           IN  /\ u \in Table
               /\ m.kind = "set" => /\ u.sets = [t.sets EXCEPT ![m.set] = m.content]
                                    /\ u.rules = t.rules /\ u.endpoints = t.endpoints
               /\ m.kind = "members" =>
                     /\ u.rules = t.rules /\ u.endpoints = t.endpoints
                     /\ \A s \in IpSets : s # m.set => u.sets[s] = t.sets[s]
                     /\ u.sets[m.set] \in Set
                     /\ t.sets[m.set] # Absent
                           => u.sets[m.set].members = (t.sets[m.set].members \cup m.plus) \ m.minus
               /\ m.kind = "rules" => /\ u.rules = [t.rules EXCEPT ![<<m.owner, m.tier>>] = m.rules]
                                      /\ u.sets = t.sets /\ u.endpoints = t.endpoints
               /\ m.kind = "endpoint" => /\ u.endpoints = [t.endpoints EXCEPT ![m.endpoint] = m.detail]
                                         /\ u.sets = t.sets /\ u.rules = t.rules
               /\ m.kind = "insync" => u = t
<1> DEFINE u == Absorb(t, m)
<1>1. m.kind \in {"set", "members", "rules", "endpoint", "insync"}
  BY MessageFields
<1>2. CASE m.kind = "set"
  <2>1. u = [t EXCEPT !.sets = [t.sets EXCEPT ![m.set] = m.content]]
    BY <1>2 DEF Absorb, Table
  <2> HIDE DEF u
  <2> QED BY <1>2, <2>1, MessageFields DEF Table, u
<1>3. CASE m.kind = "members"
  <2> DEFINE old == IF t.sets[m.set] = Absent THEN [type |-> "ip", members |-> {}] ELSE t.sets[m.set]
             new == [old EXCEPT !.members = (old.members \cup m.plus) \ m.minus]
  <2>1. m.set \in IpSets /\ m.plus \in SUBSET Members /\ m.minus \in SUBSET Members
    BY <1>3, MessageFields
  <2>2. u = [t EXCEPT !.sets = [t.sets EXCEPT ![m.set] = new]]
    BY <1>3 DEF Absorb, Table
  <2>3. old \in Set
    BY <2>1 DEF Table, Set
  <2>4. t.sets[m.set] # Absent => old = t.sets[m.set]
    OBVIOUS
  <2> HIDE DEF old
  <2>5. new \in Set /\ new.members = (old.members \cup m.plus) \ m.minus
    BY <2>1, <2>3 DEF Set
  <2> HIDE DEF new, u
  <2>6. /\ u \in Table /\ u.rules = t.rules /\ u.endpoints = t.endpoints
        /\ u.sets = [t.sets EXCEPT ![m.set] = new]
    BY <2>1, <2>2, <2>5 DEF Table
  <2>7. t.sets \in [IpSets -> Set \cup {Absent}]
    BY DEF Table
  <2> QED BY <1>3, <2>1, <2>4, <2>5, <2>6, <2>7 DEF u
<1>4. CASE m.kind = "rules"
  <2>1. u = [t EXCEPT !.rules = [t.rules EXCEPT ![<<m.owner, m.tier>>] = m.rules]]
    BY <1>4 DEF Absorb, Table
  <2>2. <<m.owner, m.tier>> \in Owners \X Tables /\ m.rules \in Rules \cup {Absent}
    BY <1>4, MessageFields
  <2> DEFINE i == <<m.owner, m.tier>>
  <2> HIDE DEF u, i
  <2>3. u = [t EXCEPT !.rules = [t.rules EXCEPT ![i] = m.rules]] /\ i \in Owners \X Tables
    BY <2>1, <2>2 DEF i
  <2>4. /\ u \in Table /\ u.rules = [t.rules EXCEPT ![i] = m.rules]
        /\ u.sets = t.sets /\ u.endpoints = t.endpoints
    BY <2>2, <2>3 DEF Table
  <2> QED BY <1>4, <2>4 DEF u, i
<1>5. CASE m.kind = "endpoint"
  <2>1. u = [t EXCEPT !.endpoints = [t.endpoints EXCEPT ![m.endpoint] = m.detail]]
    BY <1>5 DEF Absorb, Table
  <2> HIDE DEF u
  <2> QED BY <1>5, <2>1, MessageFields DEF Table, u
<1>6. CASE m.kind = "insync"
  BY <1>6 DEF Absorb
<1> QED BY <1>1, <1>2, <1>3, <1>4, <1>5, <1>6

-----------------------------------------------------------------------------
(* A key of the table is settled when it is as wanted, or messages that are *)
(* under way (P) will make it so.                                           *)
SetSettled(t, P, w, s) ==
    /\ (\A m \in P : ~ (m.kind \in {"set", "members"} /\ m.set = s)) => Shown(t, s) = w.sets[s]
    /\ \A m \in P : m.kind = "set" /\ m.set = s =>
          w.sets[s] = IF m.content = Absent THEN Absent ELSE m.content.members
    /\ \A m \in P : m.kind = "members" /\ m.set = s =>
          /\ w.sets[s] # Absent /\ t.sets[s] # Absent
          /\ m.plus \subseteq w.sets[s] /\ m.minus \cap w.sets[s] = {}
          /\ w.sets[s] \subseteq t.sets[s].members \cup m.plus
          /\ t.sets[s].members \subseteq w.sets[s] \cup m.minus
RuleSettled(t, P, w, i) ==
    /\ (\A m \in P : ~ (m.kind = "rules" /\ <<m.owner, m.tier>> = i)) => t.rules[i] = w.rules[i]
    /\ \A m \in P : m.kind = "rules" /\ <<m.owner, m.tier>> = i => m.rules = w.rules[i]
EndpointSettled(t, P, w, e) ==
    /\ (\A m \in P : ~ (m.kind = "endpoint" /\ m.endpoint = e)) => t.endpoints[e] = w.endpoints[e]
    /\ \A m \in P : m.kind = "endpoint" /\ m.endpoint = e => m.detail = w.endpoints[e]

LEMMA AbsorbSettlesSet ==
    ASSUME NEW t \in Table, NEW m \in ToDataplane, NEW P1, NEW w, NEW s \in IpSets,
           SetSettled(t, {m} \cup P1, w, s)
    PROVE  SetSettled(Absorb(t, m), P1, w, s)
<1> DEFINE u == Absorb(t, m)
           P == {m} \cup P1
<1>1. m \in P /\ \A x \in P1 : x \in P
  OBVIOUS
<1>2. \A x \in P : x = m \/ x \in P1
  OBVIOUS
<1> HIDE DEF P
<1>3. SetSettled(t, P, w, s)
  BY DEF P
<1>4. CASE m.kind = "set" /\ m.set = s
  <2>1. u.sets[s] = m.content
    <3>1. u.sets = [t.sets EXCEPT ![m.set] = m.content]
      BY <1>4, AbsorbFields
    <3>2. t.sets \in [IpSets -> Set \cup {Absent}]
      BY DEF Table
    <3> HIDE DEF u
    <3> QED BY <1>4, <3>1, <3>2
  <2>2. m.content \in Set \cup {Absent}
    BY <1>4, MessageFields
  <2>3. w.sets[s] = IF m.content = Absent THEN Absent ELSE m.content.members
    BY <1>1, <1>3, <1>4 DEF SetSettled
  <2>4. Shown(u, s) = w.sets[s]
    BY <2>1, <2>3 DEF Shown
  <2> HIDE DEF u
  <2> QED BY <1>1, <1>3, <1>4, <2>1, <2>3, <2>4 DEF SetSettled, u
<1>5. CASE m.kind = "members" /\ m.set = s
  <2>1. /\ w.sets[s] # Absent /\ t.sets[s] # Absent
        /\ m.plus \subseteq w.sets[s] /\ m.minus \cap w.sets[s] = {}
        /\ w.sets[s] \subseteq t.sets[s].members \cup m.plus
        /\ t.sets[s].members \subseteq w.sets[s] \cup m.minus
    BY <1>1, <1>3, <1>5 DEF SetSettled
  <2>2. u.sets[s] \in Set /\ u.sets[s].members = (t.sets[s].members \cup m.plus) \ m.minus
    <3>1. /\ u.sets[m.set] \in Set
          /\ t.sets[m.set] # Absent
                => u.sets[m.set].members = (t.sets[m.set].members \cup m.plus) \ m.minus
      BY <1>5, AbsorbFields
    <3> HIDE DEF u
    <3> QED BY <1>5, <2>1, <3>1
  <2>3. u.sets[s].members = w.sets[s]
    BY <2>1, <2>2
  <2>4. u.sets[s] # Absent
    BY <2>2, ContentAssumption
  <2> HIDE DEF u
  <2> QED BY <1>1, <1>3, <2>1, <2>3, <2>4 DEF SetSettled, Shown, u
<1>6. CASE ~ (m.kind \in {"set", "members"} /\ m.set = s)
  <2>1. u.sets[s] = t.sets[s]
    <3>1. CASE m.kind = "set"
      <4>1. u.sets = [t.sets EXCEPT ![m.set] = m.content]
        BY <3>1, AbsorbFields
      <4>2. t.sets \in [IpSets -> Set \cup {Absent}]
        BY DEF Table
      <4> HIDE DEF u
      <4> QED BY <1>6, <3>1, <4>1, <4>2
    <3>2. CASE m.kind = "members"
      BY <1>6, <3>2, AbsorbFields
    <3>3. CASE m.kind \in {"rules", "endpoint", "insync"}
      BY <3>3, AbsorbFields
    <3> QED BY <3>1, <3>2, <3>3, MessageFields
  <2> HIDE DEF u
  <2> QED BY <1>1, <1>2, <1>3, <1>6, <2>1 DEF SetSettled, Shown, u
<1> QED BY <1>4, <1>5, <1>6

LEMMA AbsorbSettlesRule ==
    ASSUME NEW t \in Table, NEW m \in ToDataplane, NEW P1, NEW w, NEW i \in Owners \X Tables,
           RuleSettled(t, {m} \cup P1, w, i)
    PROVE  RuleSettled(Absorb(t, m), P1, w, i)
<1> DEFINE u == Absorb(t, m)
           P == {m} \cup P1
<1>1. m \in P /\ \A x \in P1 : x \in P
  OBVIOUS
<1>2. \A x \in P : x = m \/ x \in P1
  OBVIOUS
<1> HIDE DEF P
<1>3. RuleSettled(t, P, w, i)
  BY DEF P
<1>4. CASE m.kind = "rules" /\ <<m.owner, m.tier>> = i
  <2>1. t.rules \in [Owners \X Tables -> Rules \cup {Absent}]
    BY DEF Table
  <2>2. u.rules[i] = m.rules
    <3>1. u.rules = [t.rules EXCEPT ![<<m.owner, m.tier>>] = m.rules]
      BY <1>4, AbsorbFields
    <3> HIDE DEF u
    <3> QED BY <1>4, <2>1, <3>1
  <2> HIDE DEF u
  <2> QED BY <1>1, <1>3, <1>4, <2>2 DEF RuleSettled, u
<1>5. CASE ~ (m.kind = "rules" /\ <<m.owner, m.tier>> = i)
  <2>1. t.rules \in [Owners \X Tables -> Rules \cup {Absent}]
    BY DEF Table
  <2>2. u.rules[i] = t.rules[i]
    <3>1. CASE m.kind = "rules"
      <4>1. u.rules = [t.rules EXCEPT ![<<m.owner, m.tier>>] = m.rules]
        BY <3>1, AbsorbFields
      <4> HIDE DEF u
      <4> QED BY <1>5, <2>1, <3>1, <4>1
    <3>2. CASE m.kind \in {"set", "members", "endpoint", "insync"}
      BY <3>2, AbsorbFields
    <3> QED BY <3>1, <3>2, MessageFields
  <2> HIDE DEF u
  <2> QED BY <1>1, <1>2, <1>3, <1>5, <2>2 DEF RuleSettled, u
<1> QED BY <1>4, <1>5

LEMMA AbsorbSettlesEndpoint ==
    ASSUME NEW t \in Table, NEW m \in ToDataplane, NEW P1, NEW w, NEW e \in Endpoints,
           EndpointSettled(t, {m} \cup P1, w, e)
    PROVE  EndpointSettled(Absorb(t, m), P1, w, e)
<1> DEFINE u == Absorb(t, m)
           P == {m} \cup P1
<1>1. m \in P /\ \A x \in P1 : x \in P
  OBVIOUS
<1>2. \A x \in P : x = m \/ x \in P1
  OBVIOUS
<1> HIDE DEF P
<1>3. EndpointSettled(t, P, w, e)
  BY DEF P
<1>4. t.endpoints \in [Endpoints -> SentEndpoint \cup {Absent}]
  BY DEF Table
<1>5. CASE m.kind = "endpoint" /\ m.endpoint = e
  <2>1. u.endpoints[e] = m.detail
    <3>1. u.endpoints = [t.endpoints EXCEPT ![m.endpoint] = m.detail]
      BY <1>5, AbsorbFields
    <3> HIDE DEF u
    <3> QED BY <1>4, <1>5, <3>1
  <2> HIDE DEF u
  <2> QED BY <1>1, <1>3, <1>5, <2>1 DEF EndpointSettled, u
<1>6. CASE ~ (m.kind = "endpoint" /\ m.endpoint = e)
  <2>1. u.endpoints[e] = t.endpoints[e]
    <3>1. CASE m.kind = "endpoint"
      <4>1. u.endpoints = [t.endpoints EXCEPT ![m.endpoint] = m.detail]
        BY <3>1, AbsorbFields
      <4> HIDE DEF u
      <4> QED BY <1>4, <1>6, <3>1, <4>1
    <3>2. CASE m.kind \in {"set", "members", "rules", "insync"}
      BY <3>2, AbsorbFields
    <3> QED BY <3>1, <3>2, MessageFields
  <2> HIDE DEF u
  <2> QED BY <1>1, <1>2, <1>3, <1>6, <2>1 DEF EndpointSettled, u
<1> QED BY <1>5, <1>6

-----------------------------------------------------------------------------
(* What a coherent graph asks for. *)
LEMMA CoherentFacts ==
    ASSUME NEW g, Coherent(g)
    PROVE  /\ g \in Graph
           /\ \A o \in Owners : o \in g.active <=> g.resolved[o] # Absent
           /\ \A o \in Owners : g.resolved[o] # Absent
                  => g.resolved[o] \in Rules /\ TierOf(g, o) \in TiersOf(o)
           /\ \A e \in Endpoints : IsLocal(g, e) => EndpointDetail(g, e) \in SentEndpoint
           /\ \A e \in Endpoints : \A n \in DOMAIN EndpointOrder(g, e) :
                 LET at == EndpointOrder(g, e)[n]
                 IN  /\ at[2] \in Policies /\ at[1] = TierOf(g, at[2])
                     /\ g.resolved[at[2]] # Absent
           /\ \A o \in Owners, s \in IpSets :
                 g.resolved[o] # Absent /\ s \in SetsOf[g.resolved[o]] => g.count[s] # 0
<1>1. g \in Graph /\ Tidy(g) /\ Marked(g) /\ Scanned(g) /\ g.active = NowActive(g) /\ Placed(g)
  BY DEF Coherent, Settled, Ready
<1>2. \A o \in Owners : o \in g.active <=> g.resolved[o] # Absent
  BY <1>1 DEF Marked
<1>3. \A o \in Owners : g.resolved[o] # Absent
          => g.resolved[o] \in Rules /\ TierOf(g, o) \in TiersOf(o)
  <2> SUFFICES ASSUME NEW o \in Owners, g.resolved[o] # Absent
               PROVE  g.resolved[o] \in Rules /\ TierOf(g, o) \in TiersOf(o)
    OBVIOUS
  <2>1. g.resolved[o] \in Rules
    BY <1>1 DEF Graph
  <2>2. CASE o \in Policies
    <3>1. o \in NowActive(g) /\ o \notin Profiles
      BY <1>1, <1>2, <2>2, NamesAssumption
    <3>2. Matched(g, g.policies[o]) # {}
      BY <3>1 DEF NowActive
    <3>3. g.policies[o] # Absent
      BY <3>2 DEF Matched
    <3>4. g.policies[o] \in Policy
      BY <1>1, <2>2, <3>3 DEF Graph
    <3> QED BY <2>1, <2>2, <3>4 DEF TierOf, TiersOf, Policy
  <2>3. CASE o \notin Policies
    BY <2>1, <2>3 DEF TierOf, TiersOf
  <2> QED BY <2>2, <2>3
<1>4. \A e \in Endpoints :
          /\ EndpointOrder(g, e) \in Seq(Tiers \X Policies)
          /\ \A n \in DOMAIN EndpointOrder(g, e) :
                LET at == EndpointOrder(g, e)[n]
                IN  /\ at[2] \in Policies /\ at[1] = TierOf(g, at[2])
                    /\ g.resolved[at[2]] # Absent
  <2> SUFFICES ASSUME NEW e \in Endpoints
               PROVE  /\ EndpointOrder(g, e) \in Seq(Tiers \X Policies)
                      /\ \A n \in DOMAIN EndpointOrder(g, e) :
                            LET at == EndpointOrder(g, e)[n]
                            IN  /\ at[2] \in Policies /\ at[1] = TierOf(g, at[2])
                                /\ g.resolved[at[2]] # Absent
    OBVIOUS
  <2> DEFINE ps == {p \in Policies : e \in Matched(g, g.policies[p])}
  <2>1. \A p \in ps : /\ p \in Policies /\ g.policies[p] \in Policy /\ p \in NowActive(g)
    BY <1>1 DEF Matched, Graph, NowActive
  <2>2. \A p \in ps : g.resolved[p] # Absent /\ TierOf(g, p) = g.policies[p].tier
    BY <1>1, <1>2, <2>1 DEF Owners, TierOf
  <2>3. g.tiers \in [Tiers -> Nat] /\ ps \in SUBSET Policies
    BY <1>1 DEF Graph
  <2>4. EndpointOrder(g, e) = Ordered(g.tiers, g.policies, ps)
    BY DEF EndpointOrder
  <2> HIDE DEF ps
  <2>5. /\ EndpointOrder(g, e) \in Seq(Tiers \X Policies)
        /\ \A n \in DOMAIN EndpointOrder(g, e) :
              LET at == EndpointOrder(g, e)[n]
              IN  at[2] \in ps /\ at[1] = g.policies[at[2]].tier
    BY <2>1, <2>3, <2>4, OrderedFacts
  <2> QED BY <2>1, <2>2, <2>5
<1>5. ASSUME NEW e \in Endpoints, IsLocal(g, e) PROVE EndpointDetail(g, e) \in SentEndpoint
  <2>1. g.items[e] # Absent
    BY <1>1, <1>5 DEF Placed, IsLocal
  <2>2. g.items[e] \in Endpoint
    BY <1>1, <2>1 DEF Graph
  <2>3. g.items[e].profiles \in Seq(Profiles) /\ g.items[e].members \in SUBSET Members
    BY <2>2 DEF Endpoint
  <2> QED BY <1>4, <2>3 DEF EndpointDetail, SentEndpoint
<1>6. ASSUME NEW o \in Owners, NEW s \in IpSets, g.resolved[o] # Absent,
             s \in SetsOf[g.resolved[o]]
      PROVE  g.count[s] # 0
  <2> DEFINE A == {x \in Owners : s \in g.refs[x]}
  <2>1. g.count[s] = Cardinality(A)
    BY <1>1 DEF Tidy
  <2>2. g.refs[o] = SetsOf[g.resolved[o]]
    BY <1>1, <1>6 DEF Tidy
  <2>3. A \in SUBSET Owners /\ o \in A
    BY <1>6, <2>2
  <2> HIDE DEF A
  <2>4. Cardinality(A) = 0 <=> A = {}
    BY <2>3, CountedReferrers
  <2> QED BY <2>1, <2>3, <2>4
<1> QED BY <1>1, <1>2, <1>3, <1>4, <1>5, <1>6

LEMMA WantedFacts ==
    ASSUME NEW g, Coherent(g)
    PROVE  LET w == TableOf(g)
           IN  /\ \A s \in IpSets : /\ w.sets[s] = IF g.count[s] = 0 THEN Absent
                                                   ELSE IpSetMembers(g, s)
                                    /\ w.sets[s] = Absent <=> g.count[s] = 0
               /\ \A i \in Owners \X Tables :
                     w.rules[i] = IF g.resolved[i[1]] # Absent /\ i[2] = TierOf(g, i[1])
                                  THEN g.resolved[i[1]] ELSE Absent
               /\ \A e \in Endpoints :
                     w.endpoints[e] = IF IsLocal(g, e) THEN EndpointDetail(g, e) ELSE Absent
<1>1. g \in Graph /\ \A o \in Owners : o \in g.active <=> g.resolved[o] # Absent
  BY CoherentFacts
<1>2. \A s \in IpSets : IpSetMembers(g, s) # Absent
  BY <1>1, MembersTyped, AbsentAssumption
<1> QED BY <1>1, <1>2 DEF TableOf

(* A sequencer between flushes knows what it has sent.                     *)
Sync(g, q, crosseds, retiereds) ==
    /\ q \in Sequencer /\ Quiet(q)
    /\ \A s \in IpSets \ crosseds : s \in q.sentSets <=> g.count[s] # 0
    /\ \A o \in Owners : q.sent[o] \in TiersOf(o) \cup {Absent}
    /\ \A o \in Owners \ retiereds :
          q.sent[o] = IF g.resolved[o] = Absent THEN Absent ELSE TierOf(g, o)
    /\ q.sentEps = {e \in Endpoints : IsLocal(g, e)}

LEMMA FlushedFields ==
    ASSUME NEW q \in Sequencer
    PROVE  LET f == Flushed(q)
           IN  /\ f \in Sequencer /\ Quiet(f)
               /\ f.inSyncSent = (q.inSyncSent \/ q.inSyncPending)
               /\ f.inSyncPending = (q.inSyncPending /\ q.inSyncSent)
               /\ f.sentSets = (q.sentSets \cup {s \in IpSets : q.addedSets[s] # Absent})
                               \ q.removedSets
               /\ f.sent = [o \in Owners |->
                               IF q.removes[o] # Absent THEN Absent
                               ELSE IF q.updates[o] # Absent THEN q.updates[o].tier
                               ELSE q.sent[o]]
               /\ f.sentEps = (q.sentEps \cup {e \in Endpoints : q.epUpdates[e] # Absent})
                              \ q.epRemoves
<1> DEFINE f == Flushed(q)
           a == q.inSyncPending /\ q.inSyncSent
           b == q.inSyncSent \/ q.inSyncPending
           c == (q.sentSets \cup {s \in IpSets : q.addedSets[s] # Absent}) \ q.removedSets
           d == [o \in Owners |-> IF q.removes[o] # Absent THEN Absent
                                  ELSE IF q.updates[o] # Absent THEN q.updates[o].tier
                                  ELSE q.sent[o]]
           h == (q.sentEps \cup {e \in Endpoints : q.epUpdates[e] # Absent}) \ q.epRemoves
<1>1. f = [EmptySequencer EXCEPT !.inSyncPending = a, !.inSyncSent = b, !.sentSets = c,
                                 !.sent = d, !.sentEps = h]
  BY DEF Flushed
<1>2. a \in BOOLEAN /\ b \in BOOLEAN /\ c \in SUBSET IpSets /\ h \in SUBSET Endpoints
  BY DEF Sequencer
<1>3. d \in [Owners -> Tables \cup {Absent}]
  <2>1. \A o \in Owners : q.updates[o] # Absent => q.updates[o].tier \in Tables
    BY DEF Sequencer
  <2>2. \A o \in Owners : q.sent[o] \in Tables \cup {Absent}
    BY DEF Sequencer
  <2> QED BY <2>1, <2>2
<1> HIDE DEF f, a, b, c, d, h
<1>4. /\ f.addedSets = [s \in IpSets |-> Absent] /\ f.removedSets = {}
      /\ f.plus = [s \in IpSets |-> {}] /\ f.minus = [s \in IpSets |-> {}]
      /\ f.updates = [o \in Owners |-> Absent] /\ f.removes = [o \in Owners |-> Absent]
      /\ f.epUpdates = [e \in Endpoints |-> Absent] /\ f.epRemoves = {}
      /\ f.inSyncPending = a /\ f.inSyncSent = b /\ f.sentSets = c /\ f.sent = d /\ f.sentEps = h
  BY <1>1 DEF EmptySequencer
<1>5. f \in Sequencer
  <2>1. EmptySequencer \in Sequencer
    BY DEF EmptySequencer, Sequencer
  <2> DEFINE z == EmptySequencer
  <2> HIDE DEF z
  <2>2. f = [z EXCEPT !.inSyncPending = a, !.inSyncSent = b, !.sentSets = c,
                      !.sent = d, !.sentEps = h]
    BY <1>1 DEF z
  <2>3. z \in Sequencer
    BY <2>1 DEF z
  <2> QED BY <1>2, <1>3, <2>2, <2>3 DEF Sequencer
<1> QED BY <1>4, <1>5 DEF Quiet, f, a, b, c, d, h

-----------------------------------------------------------------------------
(* An update on its way to the dataplane: g before, r after. *)
Delivers(g, r, q, crosseds, retiereds) ==
    /\ Coherent(g) /\ r \in Results /\ Coherent(r.g) /\ Reports(g, r)
    /\ Sync(g, q, crosseds, retiereds)

LEMMA DeliverFields ==
    ASSUME NEW g, NEW r, NEW q, NEW C, NEW R, Delivers(g, r, q, C, R)
    PROVE  Buffered(q, g, r, Ingest(q, g, r))
<1>1. g \in Graph /\ q \in Sequencer /\ Quiet(q) /\ r \in Results /\ Coherent(r.g) /\ Tells(g, r)
  BY CoherentFacts DEF Delivers, Sync, Reports
<1>2. \A o \in Owners : r.out.last[o] = "active"
          => r.g.resolved[o] \in Rules /\ TierOf(r.g, o) \in TiersOf(o)
  BY <1>1, CoherentFacts DEF Tells
<1>3. \A e \in Endpoints : IsLocal(r.g, e) => EndpointDetail(r.g, e) \in SentEndpoint
  BY <1>1, CoherentFacts
<1> QED BY <1>1, <1>2, <1>3, IngestFields

(* What is buffered of each kind is there, or is Absent.                   *)
LEMMA DeliverUpdates ==
    ASSUME NEW g, NEW r, NEW q, NEW C, NEW R, Delivers(g, r, q, C, R)
    PROVE  LET q1 == Ingest(q, g, r)
           IN  /\ \A o \in Owners :
                     IF r.out.last[o] = "active"
                     THEN /\ q1.updates[o] # Absent /\ q1.updates[o].tier = TierOf(r.g, o)
                          /\ q1.updates[o].rules = r.g.resolved[o]
                          /\ r.g.resolved[o] # Absent /\ TierOf(r.g, o) \in TiersOf(o)
                     ELSE q1.updates[o] = Absent
               /\ \A o \in Owners :
                     IF r.out.last[o] = "inactive"
                     THEN q1.removes[o] = q.sent[o] /\ r.g.resolved[o] = Absent
                     ELSE q1.removes[o] = Absent
               /\ \A o \in Owners : q.sent[o] \in TiersOf(o) \cup {Absent}
               /\ \A o \in Owners : r.out.last[o] \in {"none", "inactive", "active"}
               /\ \A o \in Owners : r.out.last[o] = "none" => r.g.resolved[o] = g.resolved[o]
               /\ \A o \in Owners : TierOf(r.g, o) # TierOf(g, o)
                                    /\ r.g.resolved[o] # Absent /\ g.resolved[o] # Absent
                     => o \in Retiered(g, r.g)
               /\ \A e \in Endpoints :
                     q1.epUpdates[e] = IF e \in r.out.orders /\ IsLocal(r.g, e)
                                       THEN EndpointDetail(r.g, e) ELSE Absent
               /\ \A e \in Endpoints : IsLocal(r.g, e) => EndpointDetail(r.g, e) # Absent
<1> DEFINE q1 == Ingest(q, g, r)
<1>1. Buffered(q, g, r, q1)
  BY DeliverFields
<1> HIDE DEF q1
<1>2. /\ Coherent(g) /\ Coherent(r.g) /\ Tells(g, r) /\ r \in Results
      /\ \A o \in Owners : q.sent[o] \in TiersOf(o) \cup {Absent}
  BY DEF Delivers, Sync, Reports
<1>3. \A o \in Owners : r.g.resolved[o] # Absent
          => r.g.resolved[o] \in Rules /\ TierOf(r.g, o) \in TiersOf(o) /\ o \in r.g.active
  BY <1>2, CoherentFacts
<1>4. \A o \in Owners : g.resolved[o] # Absent => o \in g.active
  BY <1>2, CoherentFacts
<1>5. \A o \in Owners : r.out.last[o] = "active"
          => /\ [tier |-> TierOf(r.g, o), rules |-> r.g.resolved[o]] # Absent
             /\ r.g.resolved[o] # Absent /\ TierOf(r.g, o) \in TiersOf(o)
  <2>1. \A o \in Owners : TiersOf(o) \subseteq Tables
    BY DEF TiersOf, Tables
  <2>2. \A tier \in Tables, rules \in Rules : [tier |-> tier, rules |-> rules] # Absent
    BY ContentAssumption
  <2> QED BY <1>2, <1>3, <2>1, <2>2 DEF Tells
<1>6. \A o \in Owners : r.out.last[o] \in {"none", "inactive", "active"}
  BY <1>2 DEF Results, Deltas
<1>7. \A o \in Owners : /\ r.out.last[o] = "none" => r.g.resolved[o] = g.resolved[o]
                        /\ r.out.last[o] = "inactive" => r.g.resolved[o] = Absent
  BY <1>2 DEF Tells
<1>8. \A o \in Owners : TierOf(r.g, o) # TierOf(g, o)
                        /\ r.g.resolved[o] # Absent /\ g.resolved[o] # Absent
                            => o \in Retiered(g, r.g)
  BY <1>3, <1>4 DEF TierOf, Retiered
<1>9. \A e \in Endpoints : IsLocal(r.g, e) => EndpointDetail(r.g, e) # Absent
  BY <1>2, CoherentFacts, ContentAssumption
<1>10. \A o \in Owners : IF r.out.last[o] = "active"
                         THEN /\ q1.updates[o] # Absent /\ q1.updates[o].tier = TierOf(r.g, o)
                              /\ q1.updates[o].rules = r.g.resolved[o]
                              /\ r.g.resolved[o] # Absent /\ TierOf(r.g, o) \in TiersOf(o)
                         ELSE q1.updates[o] = Absent
  <2> SUFFICES ASSUME NEW o \in Owners
               PROVE  IF r.out.last[o] = "active"
                      THEN /\ q1.updates[o] # Absent /\ q1.updates[o].tier = TierOf(r.g, o)
                           /\ q1.updates[o].rules = r.g.resolved[o]
                           /\ r.g.resolved[o] # Absent /\ TierOf(r.g, o) \in TiersOf(o)
                      ELSE q1.updates[o] = Absent
    OBVIOUS
  <2>1. q1.updates[o] = IF r.out.last[o] = "active"
                        THEN [tier |-> TierOf(r.g, o), rules |-> r.g.resolved[o]] ELSE Absent
    BY <1>1 DEF Buffered
  <2> QED BY <1>5, <2>1
<1>11. \A o \in Owners : IF r.out.last[o] = "inactive"
                         THEN q1.removes[o] = q.sent[o] /\ r.g.resolved[o] = Absent
                         ELSE q1.removes[o] = Absent
  BY <1>1, <1>7 DEF Buffered
<1>12. \A e \in Endpoints : q1.epUpdates[e] = IF e \in r.out.orders /\ IsLocal(r.g, e)
                                              THEN EndpointDetail(r.g, e) ELSE Absent
  BY <1>1 DEF Buffered
<1> QED BY <1>2, <1>6, <1>7, <1>8, <1>9, <1>10, <1>11, <1>12 DEF q1

LEMMA DeliverTyped ==
    ASSUME NEW g, NEW r, NEW q, NEW C, NEW R, Delivers(g, r, q, C, R)
    PROVE  Messages(Ingest(q, g, r)) \subseteq ToDataplane
<1> DEFINE q1 == Ingest(q, g, r)
<1>1. q1 \in Sequencer
  BY DeliverFields DEF Buffered
<1>2. \A o \in Owners : q1.updates[o] # Absent => q1.updates[o].tier \in TiersOf(o)
  BY DeliverUpdates
<1>3. \A o \in Owners : q1.removes[o] # Absent => q1.removes[o] \in TiersOf(o)
  <2> SUFFICES ASSUME NEW o \in Owners, q1.removes[o] # Absent PROVE q1.removes[o] \in TiersOf(o)
    OBVIOUS
  <2>1. q1.removes[o] = q.sent[o] /\ q.sent[o] \in TiersOf(o) \cup {Absent}
    BY DeliverUpdates
  <2> QED BY <2>1
<1> HIDE DEF q1
<1>4. Messages(q1) \subseteq ToDataplane
  BY <1>1, <1>2, <1>3, MessagesTyped
<1> QED BY <1>4 DEF q1

LEMMA DeliverSync ==
    ASSUME NEW g, NEW r, NEW q, NEW C, NEW R, Delivers(g, r, q, C, R)
    PROVE  Sync(r.g, Flushed(Ingest(q, g, r)), C \cup (r.out.added \cap r.out.removed),
                R \cup Retiered(g, r.g))
<1> DEFINE q1 == Ingest(q, g, r)
           f == Flushed(q1)
           C1 == C \cup (r.out.added \cap r.out.removed)
           R1 == R \cup Retiered(g, r.g)
<1>1. q1 \in Sequencer /\ KeepsSent(q, q1)
  BY DeliverFields DEF Buffered
<1>2. /\ \A s \in IpSets : q1.addedSets[s] = IF s \in r.out.added \ r.out.removed
                                           THEN IpSetMembers(r.g, s) ELSE Absent
      /\ q1.removedSets = r.out.removed \cap q.sentSets
      /\ q1.epRemoves = {e \in r.out.orders \cap q.sentEps : ~ IsLocal(r.g, e)}
  BY DeliverFields DEF Buffered
<1>3. /\ \A o \in Owners : IF r.out.last[o] = "active"
                           THEN /\ q1.updates[o] # Absent /\ q1.updates[o].tier = TierOf(r.g, o)
                                /\ r.g.resolved[o] # Absent /\ TierOf(r.g, o) \in TiersOf(o)
                           ELSE q1.updates[o] = Absent
      /\ \A o \in Owners : IF r.out.last[o] = "inactive"
                           THEN q1.removes[o] = q.sent[o] /\ r.g.resolved[o] = Absent
                           ELSE q1.removes[o] = Absent
      /\ \A o \in Owners : q.sent[o] \in TiersOf(o) \cup {Absent}
      /\ \A o \in Owners : r.out.last[o] \in {"none", "inactive", "active"}
      /\ \A o \in Owners : r.out.last[o] = "none" => r.g.resolved[o] = g.resolved[o]
      /\ \A o \in Owners : TierOf(r.g, o) # TierOf(g, o)
                           /\ r.g.resolved[o] # Absent /\ g.resolved[o] # Absent
               => o \in Retiered(g, r.g)
  BY DeliverUpdates
<1>4. /\ \A e \in Endpoints : q1.epUpdates[e] = IF e \in r.out.orders /\ IsLocal(r.g, e)
                                                THEN EndpointDetail(r.g, e) ELSE Absent
      /\ \A e \in Endpoints : IsLocal(r.g, e) => EndpointDetail(r.g, e) # Absent
  BY DeliverUpdates
<1>5. /\ f \in Sequencer /\ Quiet(f)
      /\ f.sentSets = (q1.sentSets \cup {s \in IpSets : q1.addedSets[s] # Absent}) \ q1.removedSets
      /\ f.sent = [o \in Owners |-> IF q1.removes[o] # Absent THEN Absent
                                    ELSE IF q1.updates[o] # Absent THEN q1.updates[o].tier
                                    ELSE q1.sent[o]]
      /\ f.sentEps = (q1.sentEps \cup {e \in Endpoints : q1.epUpdates[e] # Absent})
                     \ q1.epRemoves
  BY <1>1, FlushedFields
<1>6. q1.sentSets = q.sentSets /\ q1.sent = q.sent /\ q1.sentEps = q.sentEps
  BY <1>1 DEF KeepsSent
<1>7. /\ Coherent(g) /\ Coherent(r.g) /\ Tells(g, r) /\ Orderly(g, r) /\ r \in Results
      /\ q \in Sequencer /\ \A s \in IpSets \ C : s \in q.sentSets <=> g.count[s] # 0
      /\ \A o \in Owners \ R : q.sent[o] = IF g.resolved[o] = Absent THEN Absent ELSE TierOf(g, o)
      /\ q.sentEps = {e \in Endpoints : IsLocal(g, e)}
  BY DEF Delivers, Reports, Sync
<1>8. \A s \in IpSets : IpSetMembers(r.g, s) # Absent
  BY <1>7, CoherentFacts, MembersTyped, AbsentAssumption
<1>9. Absent \notin Tables /\ \A o \in Owners : TiersOf(o) \subseteq Tables
  BY ContentAssumption DEF TiersOf, Tables
<1> HIDE DEF f, q1
<1>10. ASSUME NEW s \in IpSets \ C1 PROVE s \in f.sentSets <=> r.g.count[s] # 0
  <2>1. s \in q.sentSets <=> g.count[s] # 0
    BY <1>7
  <2>2. s \notin r.out.added \cap r.out.removed
    OBVIOUS
  <2>3. q1.addedSets[s] # Absent <=> s \in r.out.added \ r.out.removed
    BY <1>2, <1>8
  <2>4. /\ s \notin r.out.added \cup r.out.removed => (r.g.count[s] = 0 <=> g.count[s] = 0)
        /\ s \in r.out.added \ r.out.removed => r.g.count[s] # 0 /\ g.count[s] = 0
        /\ s \in r.out.removed \ r.out.added => r.g.count[s] = 0 /\ g.count[s] # 0
    BY <1>7 DEF Tells
  <2> QED BY <1>2, <1>5, <1>6, <2>1, <2>2, <2>3, <2>4
<1>11. ASSUME NEW o \in Owners PROVE f.sent[o] \in TiersOf(o) \cup {Absent}
  BY <1>3, <1>5, <1>6
<1>12. ASSUME NEW o \in Owners \ R1
       PROVE  f.sent[o] = IF r.g.resolved[o] = Absent THEN Absent ELSE TierOf(r.g, o)
  <2>1. q.sent[o] = IF g.resolved[o] = Absent THEN Absent ELSE TierOf(g, o)
    BY <1>7
  <2>2. CASE r.out.last[o] = "active"
    BY <1>3, <1>5, <2>2
  <2>3. CASE r.out.last[o] = "inactive"
    <3>1. q1.removes[o] = q.sent[o] /\ r.g.resolved[o] = Absent /\ q1.updates[o] = Absent
      BY <1>3, <2>3
    <3> QED BY <1>5, <1>6, <3>1
  <2>4. CASE r.out.last[o] = "none"
    <3>1. f.sent[o] = q.sent[o]
      BY <1>3, <1>5, <1>6, <2>4
    <3> QED BY <1>3, <2>1, <2>4, <3>1
  <2> QED BY <1>3, <2>2, <2>3, <2>4
<1>13. f.sentEps = {e \in Endpoints : IsLocal(r.g, e)}
  <2>1. ASSUME NEW e \in Endpoints PROVE e \in f.sentEps <=> IsLocal(r.g, e)
    <3>1. q1.epUpdates[e] # Absent <=> e \in r.out.orders /\ IsLocal(r.g, e)
      BY <1>4
    <3>2. e \notin r.out.orders => (IsLocal(r.g, e) <=> IsLocal(g, e))
      BY <1>7 DEF Orderly
    <3> QED BY <1>2, <1>5, <1>6, <1>7, <3>1, <3>2
  <2>2. f.sentEps \subseteq Endpoints
    BY <1>5 DEF Sequencer
  <2> QED BY <2>1, <2>2
<1>14. Sync(r.g, f, C1, R1)
  BY <1>5, <1>10, <1>11, <1>12, <1>13 DEF Sync
<1> QED BY <1>14 DEF f, q1

LEMMA MessagesOfSet ==
    ASSUME NEW q \in Sequencer, NEW s \in IpSets
    PROVE  /\ \A m \in Messages(q) : m.kind = "set" /\ m.set = s =>
                 \/ /\ q.addedSets[s] # Absent /\ m.content # Absent
                    /\ m.content.members = q.addedSets[s]
                 \/ s \in q.removedSets /\ m.content = Absent
           /\ \A m \in Messages(q) : m.kind = "members" /\ m.set = s =>
                 q.plus[s] \cup q.minus[s] # {} /\ m.plus = q.plus[s] /\ m.minus = q.minus[s]
           /\ q.addedSets[s] # Absent \/ s \in q.removedSets \/ q.plus[s] \cup q.minus[s] # {}
                 => \E m \in Messages(q) : m.kind \in {"set", "members"} /\ m.set = s
<1>1. q.addedSets[s] # Absent
          => SnapshotOf(q, s).content # Absent /\ SnapshotOf(q, s).content.members = q.addedSets[s]
  <2> SUFFICES ASSUME q.addedSets[s] # Absent
               PROVE  /\ SnapshotOf(q, s).content # Absent
                      /\ SnapshotOf(q, s).content.members = q.addedSets[s]
    OBVIOUS
  <2>1. q.addedSets[s] \in SUBSET Members
    BY DEF Sequencer
  <2>2. SnapshotOf(q, s).content \in Set
    BY <2>1 DEF SnapshotOf, Set, InferType
  <2> QED BY <2>2, ContentAssumption DEF SnapshotOf
<1>2. GoneSet(s).content = Absent /\ GoneSet(s).kind = "set" /\ GoneSet(s).set = s
  BY DEF GoneSet
<1>3. /\ DifferenceOf(q, s).plus = q.plus[s] /\ DifferenceOf(q, s).minus = q.minus[s]
      /\ DifferenceOf(q, s).kind = "members" /\ DifferenceOf(q, s).set = s
      /\ SnapshotOf(q, s).kind = "set" /\ SnapshotOf(q, s).set = s
  BY DEF DifferenceOf, SnapshotOf
<1>4. ASSUME NEW m \in Messages(q), m.kind = "set", m.set = s
      PROVE  \/ q.addedSets[s] # Absent /\ m = SnapshotOf(q, s)
             \/ s \in q.removedSets /\ m = GoneSet(s)
  BY <1>4, MessagesAbout
<1>5. ASSUME NEW m \in Messages(q), m.kind = "members", m.set = s
      PROVE  q.plus[s] \cup q.minus[s] # {} /\ m = DifferenceOf(q, s)
  BY <1>5, MessagesAbout
<1>6. /\ q.addedSets[s] # Absent => SnapshotOf(q, s) \in Messages(q)
      /\ s \in q.removedSets => GoneSet(s) \in Messages(q)
      /\ q.plus[s] \cup q.minus[s] # {} => DifferenceOf(q, s) \in Messages(q)
  BY MessagesAbout
<1> QED BY <1>1, <1>2, <1>3, <1>4, <1>5, <1>6

LEMMA MessagesOfOwner ==
    ASSUME NEW q \in Sequencer, NEW o \in Owners
    PROVE  /\ \A m \in Messages(q) : m.kind = "rules" /\ m.owner = o =>
                 \/ /\ q.updates[o] # Absent
                    /\ m.tier = q.updates[o].tier /\ m.rules = q.updates[o].rules
                 \/ q.removes[o] # Absent /\ m.tier = q.removes[o] /\ m.rules = Absent
           /\ q.updates[o] # Absent
                 => \E m \in Messages(q) : /\ m.kind = "rules" /\ m.owner = o
                                           /\ m.tier = q.updates[o].tier
           /\ q.removes[o] # Absent
                 => \E m \in Messages(q) : /\ m.kind = "rules" /\ m.owner = o
                                           /\ m.tier = q.removes[o]
<1>1. /\ UpdateOf(q, o).kind = "rules" /\ UpdateOf(q, o).owner = o
      /\ UpdateOf(q, o).tier = q.updates[o].tier /\ UpdateOf(q, o).rules = q.updates[o].rules
      /\ RemovalOf(q, o).kind = "rules" /\ RemovalOf(q, o).owner = o
      /\ RemovalOf(q, o).tier = q.removes[o] /\ RemovalOf(q, o).rules = Absent
  BY DEF UpdateOf, RemovalOf
<1>2. ASSUME NEW m \in Messages(q), m.kind = "rules", m.owner = o
      PROVE  \/ q.updates[o] # Absent /\ m = UpdateOf(q, o)
             \/ q.removes[o] # Absent /\ m = RemovalOf(q, o)
  BY <1>2, MessagesAbout
<1>3. /\ q.updates[o] # Absent => UpdateOf(q, o) \in Messages(q)
      /\ q.removes[o] # Absent => RemovalOf(q, o) \in Messages(q)
  BY MessagesAbout
<1> QED BY <1>1, <1>2, <1>3

LEMMA MessagesOfEndpoint ==
    ASSUME NEW q \in Sequencer, NEW e \in Endpoints
    PROVE  /\ \A m \in Messages(q) : m.kind = "endpoint" /\ m.endpoint = e =>
                 \/ q.epUpdates[e] # Absent /\ m.detail = q.epUpdates[e]
                 \/ e \in q.epRemoves /\ m.detail = Absent
           /\ q.epUpdates[e] # Absent \/ e \in q.epRemoves
                 => \E m \in Messages(q) : m.kind = "endpoint" /\ m.endpoint = e
<1>1. /\ EndpointOf(q, e).kind = "endpoint" /\ EndpointOf(q, e).endpoint = e
      /\ EndpointOf(q, e).detail = q.epUpdates[e]
      /\ GoneEndpoint(e).kind = "endpoint" /\ GoneEndpoint(e).endpoint = e
      /\ GoneEndpoint(e).detail = Absent
  BY DEF EndpointOf, GoneEndpoint
<1>2. ASSUME NEW m \in Messages(q), m.kind = "endpoint", m.endpoint = e
      PROVE  \/ q.epUpdates[e] # Absent /\ m = EndpointOf(q, e)
             \/ e \in q.epRemoves /\ m = GoneEndpoint(e)
  BY <1>2, MessagesAbout
<1>3. /\ q.epUpdates[e] # Absent => EndpointOf(q, e) \in Messages(q)
      /\ e \in q.epRemoves => GoneEndpoint(e) \in Messages(q)
  BY MessagesAbout
<1> QED BY <1>1, <1>2, <1>3

LEMMA DeliverSettlesSet ==
    ASSUME NEW g, NEW r, NEW q, NEW C, NEW R, Delivers(g, r, q, C, R), NEW t \in Table,
           NEW s \in IpSets, s \notin C \cup (r.out.added \cap r.out.removed),
           Shown(t, s) = TableOf(g).sets[s]
    PROVE  SetSettled(t, Messages(Ingest(q, g, r)), TableOf(r.g), s)
<1> DEFINE q1 == Ingest(q, g, r)
           M == Messages(q1)
           w == TableOf(r.g)
           new == IpSetMembers(r.g, s)
           old == IpSetMembers(g, s)
           on == r.out.added \ r.out.removed
           off == r.out.removed \cap q.sentSets
<1>0. Buffered(q, g, r, q1)
  BY DeliverFields
<1> HIDE DEF q1
<1>1. /\ q1 \in Sequencer
      /\ q1.addedSets[s] = IF s \in on THEN new ELSE Absent
      /\ q1.removedSets = off
      /\ q1.plus[s] = IF s \in on \cup off THEN {} ELSE new \ old
      /\ q1.minus[s] = IF s \in on \cup off THEN {} ELSE old \ new
  BY <1>0 DEF Buffered
<1>2. /\ Coherent(g) /\ Coherent(r.g) /\ Tells(g, r)
      /\ s \in q.sentSets <=> g.count[s] # 0
  BY DEF Delivers, Reports, Sync
<1>3. /\ w.sets[s] = IF r.g.count[s] = 0 THEN Absent ELSE new
      /\ Shown(t, s) = IF g.count[s] = 0 THEN Absent ELSE old
  BY <1>2, WantedFacts
<1>4. new # Absent /\ old # Absent /\ new \in SUBSET Members /\ old \in SUBSET Members
  BY <1>2, CoherentFacts, MembersTyped, AbsentAssumption
<1>5. t.sets[s] \in Set \cup {Absent}
  BY DEF Table
<1>6. Shown(t, s) = IF t.sets[s] = Absent THEN Absent ELSE t.sets[s].members
  BY DEF Shown
<1>7. /\ g.count[s] = 0 => old = {}
      /\ r.g.count[s] = 0 => new = {}
  BY DEF IpSetMembers
<1>8. /\ s \notin r.out.added \cup r.out.removed => (r.g.count[s] = 0 <=> g.count[s] = 0)
      /\ s \in r.out.added \ r.out.removed => r.g.count[s] # 0 /\ g.count[s] = 0
      /\ s \in r.out.removed \ r.out.added => r.g.count[s] = 0 /\ g.count[s] # 0
      /\ s \notin r.out.added \cap r.out.removed
  BY <1>2 DEF Tells
<1>9. /\ \A m \in M : m.kind = "set" /\ m.set = s =>
            \/ /\ q1.addedSets[s] # Absent /\ m.content # Absent
               /\ m.content.members = q1.addedSets[s]
            \/ s \in q1.removedSets /\ m.content = Absent
      /\ \A m \in M : m.kind = "members" /\ m.set = s =>
            q1.plus[s] \cup q1.minus[s] # {} /\ m.plus = q1.plus[s] /\ m.minus = q1.minus[s]
      /\ q1.addedSets[s] # Absent \/ s \in q1.removedSets \/ q1.plus[s] \cup q1.minus[s] # {}
            => \E m \in M : m.kind \in {"set", "members"} /\ m.set = s
  BY <1>1, MessagesOfSet
<1> HIDE DEF M, w, new, old
<1>10. CASE s \in on
  <2>1. /\ q1.addedSets[s] = new /\ s \notin q1.removedSets /\ q1.plus[s] = {} /\ q1.minus[s] = {}
        /\ w.sets[s] = new
    BY <1>1, <1>3, <1>8, <1>10
  <2>2. q1.plus[s] \cup q1.minus[s] = {}
    BY <2>1
  <2>3. \E m \in M : m.kind \in {"set", "members"} /\ m.set = s
    BY <1>4, <1>9, <2>1
  <2>4. \A m \in M : m.kind = "set" /\ m.set = s => m.content # Absent /\ m.content.members = new
    BY <1>9, <2>1
  <2>5. \A m \in M : ~ (m.kind = "members" /\ m.set = s)
    BY <1>9, <2>2
  <2>6. SetSettled(t, M, w, s)
    BY <2>1, <2>3, <2>4, <2>5 DEF SetSettled
  <2> QED BY <2>6 DEF q1, M, w
<1>11. CASE s \in r.out.removed \ r.out.added
  <2>1. /\ q1.addedSets[s] = Absent /\ s \in q1.removedSets /\ q1.plus[s] = {} /\ q1.minus[s] = {}
        /\ w.sets[s] = Absent
    BY <1>1, <1>2, <1>3, <1>8, <1>11
  <2>2. q1.plus[s] \cup q1.minus[s] = {}
    BY <2>1
  <2>3. \E m \in M : m.kind \in {"set", "members"} /\ m.set = s
    BY <1>9, <2>1
  <2>4. \A m \in M : m.kind = "set" /\ m.set = s => m.content = Absent
    BY <1>9, <2>1
  <2>5. \A m \in M : ~ (m.kind = "members" /\ m.set = s)
    BY <1>9, <2>2
  <2>6. SetSettled(t, M, w, s)
    BY <2>1, <2>3, <2>4, <2>5 DEF SetSettled
  <2> QED BY <2>6 DEF q1, M, w
<1>12. CASE s \notin r.out.added \cup r.out.removed
  <2>1. /\ q1.addedSets[s] = Absent /\ s \notin q1.removedSets
        /\ q1.plus[s] = new \ old /\ q1.minus[s] = old \ new
    BY <1>1, <1>12
  <2>2. CASE g.count[s] = 0
    <3>1. new = {} /\ old = {} /\ w.sets[s] = Absent /\ Shown(t, s) = Absent
      BY <1>3, <1>7, <1>8, <1>12, <2>2
    <3>2. q1.plus[s] \cup q1.minus[s] = {}
      BY <2>1, <3>1
    <3>3. \A m \in M : ~ (m.kind = "set" /\ m.set = s)
      BY <1>9, <2>1
    <3>4. \A m \in M : ~ (m.kind = "members" /\ m.set = s)
      BY <1>9, <3>2
    <3>5. SetSettled(t, M, w, s)
      BY <3>1, <3>3, <3>4 DEF SetSettled
    <3> QED BY <3>5 DEF q1, M, w
  <2>3. CASE g.count[s] # 0
    <3>1. w.sets[s] = new /\ Shown(t, s) = old
      BY <1>3, <1>8, <1>12, <2>3
    <3>2. t.sets[s] # Absent /\ t.sets[s].members = old
      BY <1>4, <1>6, <3>1
    <3>3. (\A m \in M : ~ (m.kind \in {"set", "members"} /\ m.set = s)) => new = old
      <4>1. (\A m \in M : ~ (m.kind \in {"set", "members"} /\ m.set = s))
                => q1.plus[s] \cup q1.minus[s] = {}
        BY <1>9
      <4>2. (new \ old) \cup (old \ new) = {} => new = old
        OBVIOUS
      <4> QED BY <2>1, <4>1, <4>2
    <3>4. \A m \in M : m.kind = "set" /\ m.set = s => FALSE
      BY <1>9, <2>1
    <3>5. \A m \in M : m.kind = "members" /\ m.set = s => m.plus = new \ old /\ m.minus = old \ new
      BY <1>9, <2>1
    <3>6. SetSettled(t, M, w, s)
      <4>1. (\A m \in M : ~ (m.kind \in {"set", "members"} /\ m.set = s)) => Shown(t, s) = w.sets[s]
        BY <3>1, <3>3
      <4>2. \A m \in M : m.kind = "members" /\ m.set = s =>
                /\ w.sets[s] # Absent /\ t.sets[s] # Absent
                /\ m.plus \subseteq w.sets[s] /\ m.minus \cap w.sets[s] = {}
                /\ w.sets[s] \subseteq t.sets[s].members \cup m.plus
                /\ t.sets[s].members \subseteq w.sets[s] \cup m.minus
        BY <1>4, <3>1, <3>2, <3>5
      <4> QED BY <3>4, <4>1, <4>2 DEF SetSettled
    <3> QED BY <3>6 DEF q1, M, w
  <2> QED BY <2>2, <2>3
<1> QED BY <1>8, <1>10, <1>11, <1>12 DEF q1, M, w

LEMMA DeliverSettlesRule ==
    ASSUME NEW g, NEW r, NEW q, NEW C, NEW R, Delivers(g, r, q, C, R), NEW t \in Table,
           NEW i \in (Owners \ (R \cup Retiered(g, r.g))) \X Tables,
           t.rules[i] = TableOf(g).rules[i]
    PROVE  RuleSettled(t, Messages(Ingest(q, g, r)), TableOf(r.g), i)
<1> DEFINE q1 == Ingest(q, g, r)
           M == Messages(q1)
           w == TableOf(r.g)
           o == i[1]
           tier == i[2]
<1>1. o \in Owners /\ o \notin R /\ o \notin Retiered(g, r.g) /\ tier \in Tables /\ i = <<o, tier>>
      /\ i \in Owners \X Tables
  OBVIOUS
<1> HIDE DEF o, tier
<1>2. /\ q1 \in Sequencer /\ Coherent(g) /\ Coherent(r.g)
      /\ q.sent[o] = IF g.resolved[o] = Absent THEN Absent ELSE TierOf(g, o)
  BY <1>1, DeliverFields DEF Delivers, Sync, Buffered
<1>3. /\ IF r.out.last[o] = "active"
         THEN /\ q1.updates[o] # Absent /\ q1.updates[o].tier = TierOf(r.g, o)
              /\ q1.updates[o].rules = r.g.resolved[o]
              /\ r.g.resolved[o] # Absent /\ TierOf(r.g, o) \in TiersOf(o)
         ELSE q1.updates[o] = Absent
      /\ IF r.out.last[o] = "inactive"
         THEN q1.removes[o] = q.sent[o] /\ r.g.resolved[o] = Absent
         ELSE q1.removes[o] = Absent
      /\ r.out.last[o] \in {"none", "inactive", "active"}
      /\ r.out.last[o] = "none" => r.g.resolved[o] = g.resolved[o]
      /\ r.g.resolved[o] # Absent /\ g.resolved[o] # Absent => TierOf(r.g, o) = TierOf(g, o)
  BY <1>1, DeliverUpdates
<1>4. /\ w.rules[i] = IF r.g.resolved[o] # Absent /\ tier = TierOf(r.g, o)
                      THEN r.g.resolved[o] ELSE Absent
      /\ t.rules[i] = IF g.resolved[o] # Absent /\ tier = TierOf(g, o)
                      THEN g.resolved[o] ELSE Absent
  BY <1>1, <1>2, WantedFacts DEF o, tier
<1>5. \A m : <<m.owner, m.tier>> = i <=> m.owner = o /\ m.tier = tier
  BY <1>1
<1> HIDE DEF q1
<1>6. /\ \A m \in M : m.kind = "rules" /\ m.owner = o =>
            \/ /\ q1.updates[o] # Absent
               /\ m.tier = q1.updates[o].tier /\ m.rules = q1.updates[o].rules
            \/ q1.removes[o] # Absent /\ m.tier = q1.removes[o] /\ m.rules = Absent
      /\ q1.updates[o] # Absent
            => \E m \in M : m.kind = "rules" /\ m.owner = o /\ m.tier = q1.updates[o].tier
      /\ q1.removes[o] # Absent
            => \E m \in M : m.kind = "rules" /\ m.owner = o /\ m.tier = q1.removes[o]
  BY <1>1, <1>2, MessagesOfOwner
<1> HIDE DEF M, w
<1>7. \A m \in M : m.kind = "rules" /\ m.owner = o /\ m.tier = tier => m.rules = w.rules[i]
  BY <1>3, <1>4, <1>6
<1>8. (\A m \in M : ~ (m.kind = "rules" /\ m.owner = o /\ m.tier = tier)) => t.rules[i] = w.rules[i]
  <2> SUFFICES ASSUME \A m \in M : ~ (m.kind = "rules" /\ m.owner = o /\ m.tier = tier)
               PROVE  t.rules[i] = w.rules[i]
    OBVIOUS
  <2>1. CASE r.out.last[o] = "active"
    <3>1. tier # TierOf(r.g, o)
      BY <1>3, <1>6, <2>1
    <3> QED BY <1>3, <1>4, <2>1, <3>1
  <2>2. CASE r.out.last[o] = "inactive"
    <3>1. q.sent[o] # Absent => tier # q.sent[o]
      BY <1>3, <1>6, <2>2
    <3> QED BY <1>1, <1>2, <1>3, <1>4, <2>2, <3>1, ContentAssumption
  <2>3. CASE r.out.last[o] = "none"
    BY <1>3, <1>4, <2>3
  <2> QED BY <1>3, <2>1, <2>2, <2>3
<1> QED BY <1>5, <1>7, <1>8 DEF RuleSettled, q1, M, w

LEMMA DeliverSettlesEndpoint ==
    ASSUME NEW g, NEW r, NEW q, NEW C, NEW R, Delivers(g, r, q, C, R), NEW t \in Table,
           NEW e \in Endpoints, t.endpoints[e] = TableOf(g).endpoints[e]
    PROVE  EndpointSettled(t, Messages(Ingest(q, g, r)), TableOf(r.g), e)
<1> DEFINE q1 == Ingest(q, g, r)
           M == Messages(q1)
           w == TableOf(r.g)
<1>0. Buffered(q, g, r, q1)
  BY DeliverFields
<1> HIDE DEF q1
<1>1. /\ q1 \in Sequencer /\ Coherent(g) /\ Coherent(r.g) /\ Orderly(g, r)
      /\ q1.epRemoves = {x \in r.out.orders \cap q.sentEps : ~ IsLocal(r.g, x)}
      /\ q.sentEps = {x \in Endpoints : IsLocal(g, x)}
  BY <1>0 DEF Delivers, Sync, Buffered, Reports
<1>2. /\ q1.epUpdates[e] = IF e \in r.out.orders /\ IsLocal(r.g, e)
                           THEN EndpointDetail(r.g, e) ELSE Absent
      /\ IsLocal(r.g, e) => EndpointDetail(r.g, e) # Absent
  BY DeliverUpdates DEF q1
<1>3. /\ w.endpoints[e] = IF IsLocal(r.g, e) THEN EndpointDetail(r.g, e) ELSE Absent
      /\ t.endpoints[e] = IF IsLocal(g, e) THEN EndpointDetail(g, e) ELSE Absent
  BY <1>1, WantedFacts
<1>4. /\ \A m \in M : m.kind = "endpoint" /\ m.endpoint = e =>
            \/ q1.epUpdates[e] # Absent /\ m.detail = q1.epUpdates[e]
            \/ e \in q1.epRemoves /\ m.detail = Absent
      /\ q1.epUpdates[e] # Absent \/ e \in q1.epRemoves
            => \E m \in M : m.kind = "endpoint" /\ m.endpoint = e
  BY <1>1, MessagesOfEndpoint
<1>5. e \notin r.out.orders => /\ IsLocal(r.g, e) <=> IsLocal(g, e)
                               /\ IsLocal(g, e) => EndpointDetail(r.g, e) = EndpointDetail(g, e)
  BY <1>1 DEF Orderly
<1>6. e \in q1.epRemoves <=> e \in r.out.orders /\ IsLocal(g, e) /\ ~ IsLocal(r.g, e)
  BY <1>1
<1> HIDE DEF M, w
<1>7. \A m \in M : m.kind = "endpoint" /\ m.endpoint = e => m.detail = w.endpoints[e]
  BY <1>2, <1>3, <1>4, <1>6
<1>8. (\A m \in M : ~ (m.kind = "endpoint" /\ m.endpoint = e)) => t.endpoints[e] = w.endpoints[e]
  <2> SUFFICES ASSUME q1.epUpdates[e] = Absent, e \notin q1.epRemoves
               PROVE  t.endpoints[e] = w.endpoints[e]
    BY <1>4
  <2> QED BY <1>2, <1>3, <1>5, <1>6
<1> QED BY <1>7, <1>8 DEF EndpointSettled, q1, M, w

-----------------------------------------------------------------------------
(* The agent: its sequencer knows what it sent, and every key of the table *)
(* is settled by the messages in the channel.                              *)
Under(g, t, ms, crosseds, retiereds) ==
    /\ \A s \in IpSets \ crosseds : SetSettled(t, ms, TableOf(g), s)
    /\ \A i \in (Owners \ retiereds) \X Tables : RuleSettled(t, ms, TableOf(g), i)
    /\ \A e \in Endpoints : EndpointSettled(t, ms, TableOf(g), e)

AgentInv ==
    /\ GraphInv
    /\ Sync(graph, seq, crossed, retiered)
    /\ table \in Table
    /\ queue \in Seq(ToDataplane) /\ InPhases(queue, 1, 6)
    /\ Under(graph, table, Range(queue), crossed, retiered)

LEMMA UnderNone ==
    ASSUME NEW g, NEW t, NEW C, NEW R
    PROVE  Under(g, t, {}, C, R) <=>
              /\ \A s \in IpSets \ C : Shown(t, s) = TableOf(g).sets[s]
              /\ \A i \in (Owners \ R) \X Tables : t.rules[i] = TableOf(g).rules[i]
              /\ \A e \in Endpoints : t.endpoints[e] = TableOf(g).endpoints[e]
<1> DEFINE w == TableOf(g)
<1> HIDE DEF w
<1>1. /\ \A s : SetSettled(t, {}, w, s) <=> Shown(t, s) = w.sets[s]
      /\ \A i : RuleSettled(t, {}, w, i) <=> t.rules[i] = w.rules[i]
      /\ \A e : EndpointSettled(t, {}, w, e) <=> t.endpoints[e] = w.endpoints[e]
  BY DEF SetSettled, RuleSettled, EndpointSettled
<1> QED BY <1>1 DEF Under, w

(* Messages that are not about the table settle nothing.                   *)
LEMMA UnderBarrier ==
    ASSUME NEW g, NEW t, NEW ms, NEW C, NEW R, Under(g, t, {}, C, R),
           \A m \in ms : m.kind = "insync"
    PROVE  Under(g, t, ms, C, R)
<1> DEFINE w == TableOf(g)
<1> HIDE DEF w
<1>1. /\ \A s \in IpSets \ C : Shown(t, s) = w.sets[s]
      /\ \A i \in (Owners \ R) \X Tables : t.rules[i] = w.rules[i]
      /\ \A e \in Endpoints : t.endpoints[e] = w.endpoints[e]
  BY UnderNone DEF w
<1>2. /\ \A s : Shown(t, s) = w.sets[s] => SetSettled(t, ms, w, s)
      /\ \A i : t.rules[i] = w.rules[i] => RuleSettled(t, ms, w, i)
      /\ \A e : t.endpoints[e] = w.endpoints[e] => EndpointSettled(t, ms, w, e)
  BY DEF SetSettled, RuleSettled, EndpointSettled
<1> QED BY <1>1, <1>2 DEF Under, w

LEMMA NothingSent ==
    /\ Sync(EmptyGraph, EmptySequencer, {}, {})
    /\ EmptyTable \in Table /\ Under(EmptyGraph, EmptyTable, {}, {}, {})
    /\ << >> \in Seq(ToDataplane) /\ InPhases(<< >>, 1, 6) /\ Range(<< >>) = {}
<1> DEFINE g == EmptyGraph
           q == EmptySequencer
           t == EmptyTable
<1>1. /\ g.count = [s \in IpSets |-> 0] /\ g.resolved = [o \in Owners |-> Absent]
      /\ g.local = [e \in Endpoints |-> Absent] /\ Coherent(g)
  BY NothingKnown DEF EmptyGraph
<1>2. q \in Sequencer
  BY DEF EmptySequencer, Sequencer
<1>3. /\ Quiet(q) /\ q.sentSets = {} /\ q.sent = [o \in Owners |-> Absent] /\ q.sentEps = {}
  BY DEF EmptySequencer, Quiet
<1>4. /\ t.sets = [s \in IpSets |-> Absent]
      /\ t.rules = [i \in Owners \X Tables |-> Absent]
      /\ t.endpoints = [e \in Endpoints |-> Absent]
      /\ t \in Table
  BY DEF EmptyTable, Table
<1> HIDE DEF g, q, t
<1>5. Sync(g, q, {}, {})
  BY <1>1, <1>2, <1>3 DEF Sync, IsLocal
<1>6. /\ \A s \in IpSets : Shown(t, s) = TableOf(g).sets[s]
      /\ \A i \in Owners \X Tables : t.rules[i] = TableOf(g).rules[i]
      /\ \A e \in Endpoints : t.endpoints[e] = TableOf(g).endpoints[e]
  <2>1. \A s \in IpSets : Shown(t, s) = Absent /\ TableOf(g).sets[s] = Absent
    BY <1>1, <1>4, WantedFacts DEF Shown
  <2>2. \A i \in Owners \X Tables : t.rules[i] = Absent /\ TableOf(g).rules[i] = Absent
    BY <1>1, <1>4, WantedFacts
  <2>3. \A e \in Endpoints : t.endpoints[e] = Absent /\ TableOf(g).endpoints[e] = Absent
    BY <1>1, <1>4, WantedFacts DEF IsLocal
  <2> QED BY <2>1, <2>2, <2>3
<1>7. Under(g, t, {}, {}, {})
  BY <1>6, UnderNone
<1>8. << >> \in Seq(ToDataplane) /\ InPhases(<< >>, 1, 6) /\ Range(<< >>) = {}
  <2>1. << >> \in Seq(ToDataplane)
    OBVIOUS
  <2>2. Lists(<< >>, {}) /\ InPhases(<< >>, 1, 6)
    BY ListsNone
  <2> QED BY <2>1, <2>2, ListsRange
<1> QED BY <1>4, <1>5, <1>7, <1>8 DEF g, q, t

LEMMA QuietFlush ==
    ASSUME NEW g, NEW q, NEW C, NEW R, Sync(g, q, C, R)
    PROVE  LET q1 == MarkInSync(q)
           IN  /\ q1 \in Sequencer /\ Sync(g, Flushed(q1), C, R)
               /\ Messages(q1) \subseteq {[kind |-> "insync"]}
<1> DEFINE q1 == MarkInSync(q)
           f == Flushed(q1)
<1>1. q \in Sequencer /\ Quiet(q)
  BY DEF Sync
<1>2. q1 = [q EXCEPT !.inSyncPending = TRUE]
  BY DEF MarkInSync
<1> HIDE DEF q1
<1>3. /\ q1 \in Sequencer /\ Quiet(q1)
      /\ q1.sentSets = q.sentSets /\ q1.sent = q.sent /\ q1.sentEps = q.sentEps
  BY <1>1, <1>2 DEF Sequencer, Quiet
<1>4. /\ f \in Sequencer /\ Quiet(f)
      /\ f.sentSets = (q1.sentSets \cup {s \in IpSets : q1.addedSets[s] # Absent}) \ q1.removedSets
      /\ f.sent = [o \in Owners |-> IF q1.removes[o] # Absent THEN Absent
                                    ELSE IF q1.updates[o] # Absent THEN q1.updates[o].tier
                                    ELSE q1.sent[o]]
      /\ f.sentEps = (q1.sentEps \cup {e \in Endpoints : q1.epUpdates[e] # Absent})
                     \ q1.epRemoves
  BY <1>3, FlushedFields
<1> HIDE DEF f
<1>5. f.sentSets = q.sentSets /\ f.sentEps = q.sentEps
  BY <1>3, <1>4 DEF Quiet
<1>6. \A o \in Owners : f.sent[o] = q.sent[o]
  BY <1>3, <1>4 DEF Quiet
<1>7. Sync(g, f, C, R)
  BY <1>4, <1>5, <1>6 DEF Sync
<1>8. Messages(q1) \subseteq {[kind |-> "insync"]}
  <2> SUFFICES ASSUME NEW m \in Messages(q1) PROVE m = [kind |-> "insync"]
    OBVIOUS
  <2>1. /\ q1.removedSets = {} /\ q1.epRemoves = {}
        /\ \A s \in IpSets : q1.addedSets[s] = Absent /\ q1.plus[s] \cup q1.minus[s] = {}
        /\ \A o \in Owners : q1.updates[o] = Absent /\ q1.removes[o] = Absent
        /\ \A e \in Endpoints : q1.epUpdates[e] = Absent
    BY <1>3 DEF Quiet
  <2>2. m.kind = "insync"
    BY <1>3, <2>1, MessagesAbout
  <2> QED BY <1>3, <2>2, MessagesAbout
<1> QED BY <1>3, <1>7, <1>8 DEF q1, f

LEMMA DeliverUnder ==
    ASSUME NEW g, NEW r, NEW q, NEW C, NEW R, Delivers(g, r, q, C, R), NEW t \in Table,
           Under(g, t, {}, C, R)
    PROVE  Under(r.g, t, Messages(Ingest(q, g, r)), C \cup (r.out.added \cap r.out.removed),
                 R \cup Retiered(g, r.g))
<1> DEFINE C1 == C \cup (r.out.added \cap r.out.removed)
           R1 == R \cup Retiered(g, r.g)
           M == Messages(Ingest(q, g, r))
           w == TableOf(r.g)
<1>1. /\ \A s \in IpSets \ C : Shown(t, s) = TableOf(g).sets[s]
      /\ \A i \in (Owners \ R) \X Tables : t.rules[i] = TableOf(g).rules[i]
      /\ \A e \in Endpoints : t.endpoints[e] = TableOf(g).endpoints[e]
  BY UnderNone
<1>2. \A s \in IpSets \ C1 : SetSettled(t, M, w, s)
  <2> SUFFICES ASSUME NEW s \in IpSets \ C1 PROVE SetSettled(t, M, w, s)
    OBVIOUS
  <2>1. s \in IpSets /\ s \notin C1 /\ Shown(t, s) = TableOf(g).sets[s]
    BY <1>1
  <2> QED BY <2>1, DeliverSettlesSet
<1>3. \A i \in (Owners \ R1) \X Tables : RuleSettled(t, M, w, i)
  <2> SUFFICES ASSUME NEW i \in (Owners \ R1) \X Tables PROVE RuleSettled(t, M, w, i)
    OBVIOUS
  <2>1. t.rules[i] = TableOf(g).rules[i]
    BY <1>1
  <2> QED BY <2>1, DeliverSettlesRule
<1>4. \A e \in Endpoints : EndpointSettled(t, M, w, e)
  BY <1>1, DeliverSettlesEndpoint
<1> HIDE DEF C1, R1, M, w
<1> QED BY <1>2, <1>3, <1>4 DEF Under, C1, R1, M, w

-----------------------------------------------------------------------------
(* Each action keeps it. *)
LEMMA InitAgent == Init => AgentInv
BY InitGraph, NothingSent DEF Init, AgentInv

LEMMA DeliverAgent ==
    ASSUME AgentInv, NEW k \in Objects, Deliver(k)
    PROVE  /\ Sync(graph, seq, crossed, retiered)' /\ table' \in Table
           /\ queue' \in Seq(ToDataplane) /\ InPhases(queue', 1, 6)
           /\ Under(graph', table', Range(queue'), crossed', retiered')
<1> DEFINE r == OnUpdate(graph, IdOf[k], store[k])
           q1 == Ingest(seq, graph, r)
<1>1. /\ queue = << >> /\ graph' = r.g /\ queue' = Flush(q1) /\ seq' = Flushed(q1)
      /\ crossed' = crossed \cup (r.out.added \cap r.out.removed)
      /\ retiered' = retiered \cup Retiered(graph, r.g) /\ table' = table
  BY DEF Deliver, Hand, FlushToChannel, dataplane
<1>2. store[k] \in Specs[k] \cup {Absent} /\ Coherent(graph)
  BY DEF AgentInv, GraphInv, ObjectsOK
<1>3. r \in Results /\ Coherent(r.g) /\ Reports(graph, r)
  BY <1>2, OnUpdateKeeps
<1> HIDE DEF r
<1>4. Delivers(graph, r, seq, crossed, retiered)
  BY <1>2, <1>3 DEF Delivers, AgentInv
<1>5. Range(queue) = {} /\ table \in Table
  BY <1>1, NothingSent DEF AgentInv
<1>6. Under(graph, table, {}, crossed, retiered)
  BY <1>5 DEF AgentInv
<1>7. Sync(r.g, Flushed(q1), crossed', retiered')
  BY <1>1, <1>4, DeliverSync
<1>8. Under(r.g, table, Messages(q1), crossed', retiered')
  BY <1>1, <1>4, <1>5, <1>6, DeliverUnder
<1>9. q1 \in Sequencer /\ Messages(q1) \subseteq ToDataplane
  BY <1>4, DeliverFields, DeliverTyped DEF Buffered
<1> HIDE DEF q1
<1>10. /\ Range(Flush(q1)) = Messages(q1) /\ Flush(q1) \in Seq(Messages(q1))
       /\ InPhases(Flush(q1), 1, 6)
  BY <1>9, FlushSends
<1>11. Flush(q1) \in Seq(ToDataplane)
  <2> DEFINE M == Messages(q1)
             f == Flush(q1)
  <2> HIDE DEF M, f
  <2>1. f \in Seq(M) /\ M \subseteq ToDataplane
    BY <1>9, <1>10 DEF M, f
  <2>2. f \in Seq(ToDataplane)
    BY <2>1
  <2> QED BY <2>2 DEF f
<1> QED BY <1>1, <1>5, <1>7, <1>8, <1>10, <1>11

LEMMA ListDoneAgent ==
    ASSUME AgentInv, NEW kind \in Kinds, ListDone(kind)
    PROVE  /\ Sync(graph, seq, crossed, retiered)' /\ table' \in Table
           /\ queue' \in Seq(ToDataplane) /\ InPhases(queue', 1, 6)
           /\ Under(graph', table', Range(queue'), crossed', retiered')
<1> DEFINE q1 == MarkInSync(seq)
<1>1. /\ queue = << >>
      /\ UNCHANGED <<graph, crossed, retiered, table>>
      /\ \/ UNCHANGED <<queue, seq>>
         \/ queue' = Flush(q1) /\ seq' = Flushed(q1)
  BY DEF ListDone, FlushToChannel, dataplane
<1>2. CASE UNCHANGED <<queue, seq>>
  BY <1>1, <1>2 DEF AgentInv
<1>3. CASE queue' = Flush(q1) /\ seq' = Flushed(q1)
  <2>1. Sync(graph, seq, crossed, retiered) /\ table \in Table
        /\ Under(graph, table, Range(queue), crossed, retiered)
    BY DEF AgentInv
  <2>2. Range(queue) = {}
    BY <1>1, NothingSent
  <2>3. /\ q1 \in Sequencer /\ Sync(graph, Flushed(q1), crossed, retiered)
        /\ Messages(q1) \subseteq {[kind |-> "insync"]}
    BY <2>1, QuietFlush
  <2> HIDE DEF q1
  <2>4. /\ Range(Flush(q1)) = Messages(q1) /\ Flush(q1) \in Seq(Messages(q1))
        /\ InPhases(Flush(q1), 1, 6)
    BY <2>3, FlushSends
  <2>5. Messages(q1) \subseteq ToDataplane /\ \A m \in Messages(q1) : m.kind = "insync"
    BY <2>3 DEF ToDataplane
  <2>6. Under(graph, table, Messages(q1), crossed, retiered)
    BY <2>1, <2>2, <2>5, UnderBarrier
  <2>7. Flush(q1) \in Seq(ToDataplane)
    <3> DEFINE M == Messages(q1)
               f == Flush(q1)
    <3> HIDE DEF M, f
    <3>1. f \in Seq(M) /\ M \subseteq ToDataplane
      BY <2>4, <2>5 DEF M, f
    <3>2. f \in Seq(ToDataplane)
      BY <3>1
    <3> QED BY <3>2 DEF f
  <2> QED BY <1>1, <1>3, <2>1, <2>3, <2>4, <2>6, <2>7
<1> QED BY <1>1, <1>2, <1>3

LEMMA ReceiveAgent ==
    ASSUME AgentInv, Receive
    PROVE  /\ Sync(graph, seq, crossed, retiered)' /\ table' \in Table
           /\ queue' \in Seq(ToDataplane) /\ InPhases(queue', 1, 6)
           /\ Under(graph', table', Range(queue'), crossed', retiered')
<1> DEFINE m == Head(queue)
           P1 == Range(Tail(queue))
<1>1. /\ queue # << >> /\ queue' = Tail(queue) /\ table' = Absorb(table, m)
      /\ UNCHANGED <<graph, seq, crossed, retiered>>
  BY DEF Receive, agent
<1>2. /\ Sync(graph, seq, crossed, retiered) /\ table \in Table
      /\ queue \in Seq(ToDataplane) /\ InPhases(queue, 1, 6)
      /\ Under(graph, table, Range(queue), crossed, retiered)
  BY DEF AgentInv
<1>3. /\ m \in ToDataplane /\ Tail(queue) \in Seq(ToDataplane)
      /\ Range(queue) = {m} \cup P1 /\ InPhases(Tail(queue), 1, 6)
  BY <1>1, <1>2, TailFacts
<1>4. Absorb(table, m) \in Table
  BY <1>2, <1>3, AbsorbFields
<1> DEFINE w == TableOf(graph)
<1>5. /\ \A s \in IpSets \ crossed : SetSettled(table, {m} \cup P1, w, s)
      /\ \A i \in (Owners \ retiered) \X Tables : RuleSettled(table, {m} \cup P1, w, i)
      /\ \A e \in Endpoints : EndpointSettled(table, {m} \cup P1, w, e)
  BY <1>2, <1>3 DEF Under
<1> HIDE DEF m, P1, w
<1>6. /\ \A s \in IpSets \ crossed : SetSettled(Absorb(table, m), P1, w, s)
      /\ \A i \in (Owners \ retiered) \X Tables : RuleSettled(Absorb(table, m), P1, w, i)
      /\ \A e \in Endpoints : EndpointSettled(Absorb(table, m), P1, w, e)
  <2>1. \A i \in (Owners \ retiered) \X Tables : i \in Owners \X Tables
    OBVIOUS
  <2> QED BY <1>2, <1>3, <1>5, <2>1, AbsorbSettlesSet, AbsorbSettlesRule, AbsorbSettlesEndpoint
<1>7. Under(graph, Absorb(table, m), P1, crossed, retiered)
  BY <1>6 DEF Under, w
<1> QED BY <1>1, <1>2, <1>3, <1>4, <1>7 DEF P1

LEMMA StepAgent == AgentInv /\ [Next]_vars => AgentInv'
<1> SUFFICES ASSUME AgentInv, [Next]_vars PROVE AgentInv'
  OBVIOUS
<1>1. GraphInv'
  BY StepGraph DEF AgentInv
<1> DEFINE Kept == /\ Sync(graph, seq, crossed, retiered)' /\ table' \in Table
                   /\ queue' \in Seq(ToDataplane) /\ InPhases(queue', 1, 6)
                   /\ Under(graph', table', Range(queue'), crossed', retiered')
<1>2. ASSUME UNCHANGED <<graph, seq, crossed, retiered, table, queue>> PROVE Kept
  BY <1>2 DEF AgentInv
<1>3. ASSUME NEW k \in Objects, Change(k) PROVE Kept
  BY <1>2, <1>3 DEF Change, agent, dataplane
<1>4. ASSUME NEW k \in Objects, Deliver(k) PROVE Kept
  BY <1>4, DeliverAgent
<1>5. ASSUME NEW kind \in Kinds, Connect(kind) \/ Break(kind) PROVE Kept
  BY <1>2, <1>5 DEF Connect, Break, agent, dataplane
<1>6. ASSUME NEW kind \in Kinds, ListDone(kind) PROVE Kept
  BY <1>6, ListDoneAgent
<1>7. ASSUME Receive PROVE Kept
  BY <1>7, ReceiveAgent
<1>8. ASSUME Apply \/ UNCHANGED vars PROVE Kept
  BY <1>2, <1>8 DEF Apply, vars, agent, dataplane
<1>9. ASSUME Restart PROVE Kept
  <2>1. /\ graph' = EmptyGraph /\ seq' = EmptySequencer /\ queue' = << >> /\ table' = EmptyTable
        /\ crossed' = {} /\ retiered' = {}
    BY <1>9 DEF Restart
  <2> QED BY <2>1, NothingSent
<1>10. Kept
  BY <1>3, <1>4, <1>5, <1>6, <1>7, <1>8, <1>9 DEF Next
<1> QED BY <1>1, <1>10 DEF AgentInv

(* When the channel is empty the table is as wanted.                       *)
THEOREM TableIsGraphs == Spec => []TableFollowsGraph
<1>1. AgentInv => TableFollowsGraph
  <2> SUFFICES ASSUME AgentInv, queue = << >>
               PROVE  /\ \A s \in IpSets \ crossed : MembersIn(table)[s] = TableOf(graph).sets[s]
                      /\ \A i \in (Owners \ retiered) \X Tables :
                            table.rules[i] = TableOf(graph).rules[i]
                      /\ table.endpoints = TableOf(graph).endpoints
    BY DEF TableFollowsGraph
  <2>1. Under(graph, table, {}, crossed, retiered) /\ table \in Table
    BY NothingSent DEF AgentInv
  <2>2. /\ \A s \in IpSets \ crossed : Shown(table, s) = TableOf(graph).sets[s]
        /\ \A i \in (Owners \ retiered) \X Tables : table.rules[i] = TableOf(graph).rules[i]
        /\ \A e \in Endpoints : table.endpoints[e] = TableOf(graph).endpoints[e]
    BY <2>1, UnderNone
  <2>3. \A s \in IpSets : MembersIn(table)[s] = Shown(table, s)
    BY DEF MembersIn, Shown
  <2>4. table.endpoints = TableOf(graph).endpoints
    <3> DEFINE a == table.endpoints
               b == TableOf(graph).endpoints
    <3>1. a = [e \in Endpoints |-> a[e]]
      BY <2>1 DEF Table
    <3>2. b = [e \in Endpoints |-> b[e]]
      BY DEF TableOf
    <3>3. \A e \in Endpoints : a[e] = b[e]
      BY <2>2
    <3> HIDE DEF a, b
    <3>4. a = b
      BY <3>1, <3>2, <3>3
    <3> QED BY <3>4 DEF a, b
  <2> QED BY <2>2, <2>3, <2>4
<1> QED BY <1>1, InitAgent, StepAgent, PTL DEF Spec

-----------------------------------------------------------------------------
(* The rest of the agent's state. *)
RestInv ==
    /\ connected \cup listed \subseteq Kinds
    /\ {applied, kernel} \subseteq Table \cup {Absent}
    /\ {dirty, inSync} \subseteq BOOLEAN
    /\ changes \in 0 .. MaxChanges /\ breaks \in 0 .. MaxBreaks
    /\ crossed \subseteq IpSets /\ retiered \subseteq Policies

LEMMA InitRest == Init => RestInv
<1> SUFFICES ASSUME Init PROVE RestInv
  OBVIOUS
<1>1. connected \cup listed \subseteq Kinds /\ crossed \subseteq IpSets /\ retiered \subseteq Policies
  BY DEF Init
<1>2. {applied, kernel} \subseteq Table \cup {Absent} /\ {dirty, inSync} \subseteq BOOLEAN
  BY DEF Init
<1>3. changes \in 0 .. MaxChanges /\ breaks \in 0 .. MaxBreaks
  BY ObjectsAssumption DEF Init
<1> QED BY <1>1, <1>2, <1>3 DEF RestInv

LEMMA StepRest == AgentInv /\ RestInv /\ [Next]_vars => RestInv'
<1> SUFFICES ASSUME AgentInv, RestInv, [Next]_vars PROVE RestInv'
  OBVIOUS
<1> USE DEF RestInv
<1>1. ASSUME NEW k \in Objects, Change(k) PROVE RestInv'
  <2>1. changes' = changes + 1 /\ changes < MaxChanges
        /\ UNCHANGED <<connected, listed, breaks, agent, dataplane>>
    BY <1>1 DEF Change
  <2>2. changes' \in 0 .. MaxChanges
    BY <2>1, ObjectsAssumption
  <2> QED BY <2>1, <2>2 DEF agent, dataplane
<1>2. ASSUME NEW k \in Objects, Deliver(k) PROVE RestInv'
  <2> DEFINE r == OnUpdate(graph, IdOf[k], store[k])
  <2>1. /\ UNCHANGED <<connected, listed, changes, breaks, dataplane>>
        /\ crossed' = crossed \cup (r.out.added \cap r.out.removed)
        /\ retiered' = retiered \cup Retiered(graph, r.g)
    BY <1>2 DEF Deliver
  <2>2. store[k] \in Specs[k] \cup {Absent} /\ Coherent(graph)
    BY DEF AgentInv, GraphInv, ObjectsOK
  <2>3. r \in Results
    BY <2>2, OnUpdateKeeps
  <2> HIDE DEF r
  <2>4. r.out.added \subseteq IpSets
    BY <2>3 DEF Results, Deltas
  <2>5. crossed' \subseteq IpSets /\ retiered' \subseteq Policies
    BY <2>1, <2>4 DEF Retiered
  <2> QED BY <2>1, <2>5 DEF dataplane
<1>3. ASSUME NEW kind \in Kinds, Connect(kind) PROVE RestInv'
  BY <1>3 DEF Connect, agent, dataplane
<1>4. ASSUME NEW kind \in Kinds, Break(kind) PROVE RestInv'
  <2>1. breaks' = breaks + 1 /\ breaks < MaxBreaks /\ connected' = connected \ {kind}
        /\ UNCHANGED <<listed, changes, agent, dataplane>>
    BY <1>4 DEF Break
  <2>2. breaks' \in 0 .. MaxBreaks
    BY <2>1, ObjectsAssumption
  <2> QED BY <2>1, <2>2 DEF agent, dataplane
<1>5. ASSUME NEW kind \in Kinds, ListDone(kind) PROVE RestInv'
  BY <1>5 DEF ListDone, dataplane
<1>6. CASE Receive
  <2>1. inSync' \in BOOLEAN /\ dirty' = TRUE /\ UNCHANGED <<watch, agent, applied, kernel>>
    BY <1>6 DEF Receive
  <2> QED BY <2>1 DEF watch, agent
<1>7. CASE Apply
  <2>1. /\ \/ UNCHANGED <<applied, kernel>>
           \/ kernel' = table /\ applied' = table
        /\ dirty' = FALSE /\ UNCHANGED <<watch, agent, inSync>>
    BY <1>7 DEF Apply, ApplyRuleset
  <2>2. table \in Table
    BY DEF AgentInv
  <2> QED BY <2>1, <2>2 DEF watch, agent
<1>8. CASE Restart
  <2>1. /\ breaks' = breaks + 1 /\ breaks < MaxBreaks /\ connected' = Kinds /\ listed' = {}
        /\ applied' = Absent /\ dirty' = FALSE /\ inSync' = FALSE
        /\ crossed' = {} /\ retiered' = {} /\ UNCHANGED <<changes, kernel>>
    BY <1>8 DEF Restart
  <2>2. breaks' \in 0 .. MaxBreaks
    BY <2>1, ObjectsAssumption
  <2> QED BY <2>1, <2>2
<1>9. CASE UNCHANGED vars
  BY <1>9 DEF vars, watch, agent, dataplane
<1> QED BY <1>1, <1>2, <1>3, <1>4, <1>5, <1>6, <1>7, <1>8, <1>9 DEF Next

(* Whatever tiers and rules change to, a message is one of the protocol.   *)
THEOREM TypesHold == Spec => []TypeOK
<1>1. AgentInv /\ RestInv => TypeOK
  <2> SUFFICES ASSUME AgentInv, RestInv PROVE TypeOK
    OBVIOUS
  <2>1. \A k \in Objects : {store[k], known[k]} \subseteq Specs[k] \cup {Absent}
    BY DEF AgentInv, GraphInv, ObjectsOK
  <2>2. graph \in Graph /\ seq \in Sequencer /\ table \in Table
    BY DEF AgentInv, GraphInv, Coherent, Sync
  <2>3. \A i \in DOMAIN queue : queue[i] \in ToDataplane
    BY DEF AgentInv
  <2> QED BY <2>1, <2>2, <2>3 DEF TypeOK, RestInv
<1> QED BY <1>1, InitAgent, StepAgent, InitRest, StepRest, PTL DEF Spec

-----------------------------------------------------------------------------
(* The barrier: nothing of it before every kind has been listed. *)
BarrierSeen == \/ inSync \/ seq.inSyncSent \/ seq.inSyncPending
               \/ \E m \in Range(queue) : m.kind = "insync"
BarrierInv == BarrierSeen => listed = Kinds

LEMMA InitBarrier == Init => BarrierInv
<1> SUFFICES ASSUME Init PROVE ~ BarrierSeen
  BY DEF BarrierInv
<1>1. queue = << >> /\ inSync = FALSE /\ seq = EmptySequencer
  BY DEF Init
<1>2. Range(queue) = {}
  BY <1>1, NothingSent
<1>3. seq.inSyncSent = FALSE /\ seq.inSyncPending = FALSE
  BY <1>1 DEF EmptySequencer
<1> QED BY <1>1, <1>2, <1>3 DEF BarrierSeen

LEMMA StepBarrier == AgentInv /\ RestInv /\ BarrierInv /\ [Next]_vars => BarrierInv'
<1> SUFFICES ASSUME AgentInv, RestInv, BarrierInv, [Next]_vars PROVE BarrierInv'
  OBVIOUS
<1>1. ASSUME UNCHANGED <<inSync, seq, queue, listed>> PROVE BarrierInv'
  BY <1>1 DEF BarrierInv, BarrierSeen
<1>2. ASSUME NEW k \in Objects, Change(k) PROVE BarrierInv'
  BY <1>1, <1>2 DEF Change, agent, dataplane
<1>3. ASSUME NEW k \in Objects, Deliver(k) PROVE BarrierInv'
  <2> DEFINE r == OnUpdate(graph, IdOf[k], store[k])
             q1 == Ingest(seq, graph, r)
  <2>1. /\ queue' = Flush(q1) /\ seq' = Flushed(q1) /\ UNCHANGED <<inSync, listed>>
    BY <1>3 DEF Deliver, FlushToChannel, dataplane
  <2>2. store[k] \in Specs[k] \cup {Absent} /\ Coherent(graph)
    BY DEF AgentInv, GraphInv, ObjectsOK
  <2>3. r \in Results /\ Coherent(r.g) /\ Reports(graph, r)
    BY <2>2, OnUpdateKeeps
  <2> HIDE DEF r
  <2>4. Delivers(graph, r, seq, crossed, retiered)
    BY <2>2, <2>3 DEF Delivers, AgentInv
  <2>5. q1 \in Sequencer /\ KeepsSent(seq, q1)
    BY <2>4, DeliverFields DEF Buffered
  <2> HIDE DEF q1
  <2>6. Range(queue') = Messages(q1)
    BY <2>1, <2>5, FlushSends
  <2>7. /\ seq'.inSyncSent = (q1.inSyncSent \/ q1.inSyncPending)
        /\ seq'.inSyncPending = (q1.inSyncPending /\ q1.inSyncSent)
    BY <2>1, <2>5, FlushedFields
  <2>8. \A m \in Messages(q1) : m.kind = "insync" => q1.inSyncPending
    BY <2>5, MessagesAbout
  <2>9. q1.inSyncSent = seq.inSyncSent /\ q1.inSyncPending = seq.inSyncPending
    BY <2>5 DEF KeepsSent
  <2>10. BarrierSeen' => BarrierSeen
    BY <2>1, <2>6, <2>7, <2>8, <2>9 DEF BarrierSeen
  <2> QED BY <2>1, <2>10 DEF BarrierInv
<1>4. ASSUME NEW kind \in Kinds, Connect(kind) \/ Break(kind) PROVE BarrierInv'
  BY <1>1, <1>4 DEF Connect, Break, agent, dataplane
<1>5. ASSUME NEW kind \in Kinds, ListDone(kind) PROVE BarrierInv'
  <2>1. CASE listed' = Kinds
    BY <2>1 DEF BarrierInv
  <2>2. CASE listed' # Kinds
    <3>1. UNCHANGED <<queue, seq, inSync>> /\ listed' = listed \cup {kind}
      BY <1>5, <2>2 DEF ListDone, dataplane
    <3>2. BarrierSeen' <=> BarrierSeen
      BY <3>1 DEF BarrierSeen
    <3>3. listed = Kinds => listed' = Kinds
      BY <1>5, <3>1
    <3> QED BY <3>2, <3>3 DEF BarrierInv
  <2> QED BY <2>1, <2>2
<1>6. CASE Receive
  <2>1. /\ queue # << >> /\ queue' = Tail(queue) /\ UNCHANGED <<seq, listed>>
        /\ inSync' = (inSync \/ Head(queue).kind = "insync")
    BY <1>6 DEF Receive, watch, agent
  <2>2. Range(queue) = {Head(queue)} \cup Range(Tail(queue))
    BY <2>1, TailFacts DEF AgentInv
  <2>3. BarrierSeen' => BarrierSeen
    BY <2>1, <2>2 DEF BarrierSeen
  <2> QED BY <2>1, <2>3 DEF BarrierInv
<1>7. CASE Apply \/ UNCHANGED vars
  BY <1>1, <1>7 DEF Apply, vars, watch, agent, dataplane
<1>8. CASE Restart
  <2>1. queue' = << >> /\ inSync' = FALSE /\ seq' = EmptySequencer
    BY <1>8 DEF Restart
  <2>2. Range(queue') = {}
    BY <2>1, NothingSent
  <2>3. seq'.inSyncSent = FALSE /\ seq'.inSyncPending = FALSE
    BY <2>1 DEF EmptySequencer
  <2>4. ~ BarrierSeen'
    BY <2>1, <2>2, <2>3 DEF BarrierSeen
  <2> QED BY <2>4 DEF BarrierInv
<1> QED BY <1>2, <1>3, <1>4, <1>5, <1>6, <1>7, <1>8 DEF Next

(* Until every kind has been listed in full the kernel's table stays, and  *)
(* then it is replaced by one with every endpoint of the node.             *)
THEOREM NoTableInPart == Spec => NoPartialTable
<1> DEFINE A == kernel' # kernel =>
                   /\ listed = Kinds
                   /\ \A e \in Endpoints : IsLocal(graph, e) /\ queue = << >>
                         => kernel'.endpoints[e] = EndpointDetail(graph, e)
<1>1. ASSUME AgentInv, BarrierInv, Next, kernel' # kernel
      PROVE  /\ listed = Kinds
             /\ \A e \in Endpoints : IsLocal(graph, e) /\ queue = << >>
                   => kernel'.endpoints[e] = EndpointDetail(graph, e)
  <2>1. Apply
    <3>1. \A k \in Objects : Change(k) \/ Deliver(k) => kernel' = kernel
      BY DEF Change, Deliver, dataplane
    <3>2. \A kind \in Kinds : Connect(kind) \/ Break(kind) \/ ListDone(kind) => kernel' = kernel
      BY DEF Connect, Break, ListDone, dataplane
    <3>3. Receive \/ Restart => kernel' = kernel
      BY DEF Receive, Restart
    <3> QED BY <1>1, <3>1, <3>2, <3>3 DEF Next
  <2>2. inSync /\ kernel' = table
    BY <1>1, <2>1 DEF Apply, MayApply, ApplyRuleset
  <2>3. listed = Kinds
    BY <1>1, <2>2 DEF BarrierInv, BarrierSeen
  <2>4. ASSUME NEW e \in Endpoints, IsLocal(graph, e), queue = << >>
        PROVE  kernel'.endpoints[e] = EndpointDetail(graph, e)
    <3>1. Under(graph, table, {}, crossed, retiered) /\ Coherent(graph)
      BY <1>1, <2>4, NothingSent DEF AgentInv, GraphInv
    <3>2. table.endpoints[e] = TableOf(graph).endpoints[e]
      BY <3>1, UnderNone
    <3> QED BY <2>2, <2>4, <3>1, <3>2, WantedFacts
  <2> QED BY <2>3, <2>4
<1>2. AgentInv /\ BarrierInv /\ [Next]_vars => [A]_vars
  <2>1. AgentInv /\ BarrierInv /\ Next => A
    BY <1>1
  <2> HIDE DEF A
  <2> QED BY <2>1
<1> HIDE DEF A
<1>3. Spec => [][A]_vars
  BY <1>2, InitAgent, StepAgent, InitRest, StepRest, InitBarrier, StepBarrier, PTL DEF Spec
<1> QED BY <1>3 DEF A, NoPartialTable

-----------------------------------------------------------------------------
(* What the graph asks for refers only to what it asks for. *)
LEMMA WantedResolves ==
    ASSUME NEW g, Coherent(g)
    PROVE  LET w == TableOf(g)
           IN  /\ \A i \in Owners \X Tables : w.rules[i] # Absent =>
                     \A s \in SetsOf[w.rules[i]] : s \in IpSets /\ w.sets[s] # Absent
               /\ \A e \in Endpoints : w.endpoints[e] # Absent =>
                     \A n \in DOMAIN w.endpoints[e].order :
                        LET at == w.endpoints[e].order[n]
                        IN  /\ <<at[2], at[1]>> \in Owners \X Tables
                            /\ w.rules[<<at[2], at[1]>>] # Absent
<1> DEFINE w == TableOf(g)
<1>1. /\ \A s \in IpSets : w.sets[s] = Absent <=> g.count[s] = 0
      /\ \A i \in Owners \X Tables :
            w.rules[i] = IF g.resolved[i[1]] # Absent /\ i[2] = TierOf(g, i[1])
                         THEN g.resolved[i[1]] ELSE Absent
      /\ \A e \in Endpoints :
            w.endpoints[e] = IF IsLocal(g, e) THEN EndpointDetail(g, e) ELSE Absent
  BY WantedFacts
<1>2. /\ \A o \in Owners : g.resolved[o] # Absent
            => g.resolved[o] \in Rules /\ TierOf(g, o) \in TiersOf(o)
      /\ \A e \in Endpoints : \A n \in DOMAIN EndpointOrder(g, e) :
            LET at == EndpointOrder(g, e)[n]
            IN  /\ at[2] \in Policies /\ at[1] = TierOf(g, at[2])
                /\ g.resolved[at[2]] # Absent
      /\ \A o \in Owners, s \in IpSets :
            g.resolved[o] # Absent /\ s \in SetsOf[g.resolved[o]] => g.count[s] # 0
  BY CoherentFacts
<1> HIDE DEF w
<1>3. ASSUME NEW i \in Owners \X Tables, w.rules[i] # Absent, NEW s \in SetsOf[w.rules[i]]
      PROVE  s \in IpSets /\ w.sets[s] # Absent
  <2>1. i[1] \in Owners /\ w.rules[i] = g.resolved[i[1]] /\ g.resolved[i[1]] # Absent
    BY <1>1, <1>3
  <2>2. SetsOf[g.resolved[i[1]]] \subseteq IpSets
    BY <1>2, <2>1, NamesAssumption
  <2> QED BY <1>1, <1>2, <1>3, <2>1, <2>2
<1>4. ASSUME NEW e \in Endpoints, w.endpoints[e] # Absent,
             NEW n \in DOMAIN w.endpoints[e].order
      PROVE  LET at == w.endpoints[e].order[n]
             IN  /\ <<at[2], at[1]>> \in Owners \X Tables
                 /\ w.rules[<<at[2], at[1]>>] # Absent
  <2> DEFINE at == EndpointOrder(g, e)[n]
             i == <<at[2], at[1]>>
  <2>1. w.endpoints[e].order = EndpointOrder(g, e)
    <3>1. w.endpoints[e] = EndpointDetail(g, e)
      BY <1>1, <1>4
    <3> QED BY <3>1 DEF EndpointDetail
  <2>2. at[2] \in Policies /\ at[1] = TierOf(g, at[2]) /\ g.resolved[at[2]] # Absent
    BY <1>2, <1>4, <2>1
  <2> HIDE DEF at
  <2>3. at[2] \in Owners /\ at[1] \in Tables
    BY <1>2, <2>2 DEF Owners, TiersOf, Tables
  <2>4. i \in Owners \X Tables /\ i[1] = at[2] /\ i[2] = at[1]
    BY <2>3
  <2> HIDE DEF i
  <2>5. w.rules[i] # Absent
    BY <1>1, <2>2, <2>4
  <2> QED BY <2>1, <2>4, <2>5 DEF at, i
<1> QED BY <1>3, <1>4 DEF w

(* At a message of a later phase, what earlier phases send is there.       *)
LEMMA LaterPhases ==
    ASSUME AgentInv, NEW m \in Range(queue), \A x \in Range(queue) : Phase(m) <= Phase(x)
    PROVE  LET w == TableOf(graph)
           IN  /\ Phase(m) >= 2 => \A s \in IpSets \ crossed :
                     w.sets[s] # Absent => table.sets[s] # Absent
               /\ Phase(m) >= 3 => \A i \in (Owners \ retiered) \X Tables :
                     w.rules[i] # Absent => table.rules[i] # Absent
               /\ Phase(m) >= 4 => \A e \in Endpoints : table.endpoints[e] = w.endpoints[e]
               /\ Phase(m) >= 5 => \A i \in (Owners \ retiered) \X Tables :
                     table.rules[i] = w.rules[i]
<1> DEFINE w == TableOf(graph)
           P == Range(queue)
<1>1. /\ \A s \in IpSets \ crossed : SetSettled(table, P, w, s)
      /\ \A i \in (Owners \ retiered) \X Tables : RuleSettled(table, P, w, i)
      /\ \A e \in Endpoints : EndpointSettled(table, P, w, e)
  BY DEF AgentInv, Under
<1>2. Phase(m) \in Nat /\ \A x \in P : Phase(x) \in Nat
  BY PhaseType
<1>3. \A x \in P : Phase(m) <= Phase(x)
  OBVIOUS
<1> HIDE DEF w, P
<1>4. /\ Phase(m) >= 2 => \A x \in P : x.kind # "members" /\ (x.kind = "set" => x.content = Absent)
      /\ Phase(m) >= 3 => \A x \in P : x.kind = "rules" => x.rules = Absent
      /\ Phase(m) >= 4 => \A x \in P : x.kind # "endpoint"
      /\ Phase(m) >= 5 => \A x \in P : x.kind # "rules"
  <2>1. \A x : x.kind = "members" \/ (x.kind = "set" /\ x.content # Absent) => Phase(x) = 1
    BY DEF Phase
  <2>2. \A x : x.kind = "rules" => Phase(x) = IF x.rules = Absent THEN 4 ELSE 2
    BY DEF Phase
  <2>3. \A x : x.kind = "endpoint" => Phase(x) = 3
    BY DEF Phase
  <2> QED BY <1>2, <1>3, <2>1, <2>2, <2>3
<1>5. ASSUME Phase(m) >= 2, NEW s \in IpSets \ crossed, w.sets[s] # Absent
      PROVE  table.sets[s] # Absent
  <2>1. SetSettled(table, P, w, s)
    BY <1>1
  <2>2. \A x \in P : ~ (x.kind \in {"set", "members"} /\ x.set = s)
    BY <1>4, <1>5, <2>1 DEF SetSettled
  <2>3. Shown(table, s) # Absent
    BY <1>5, <2>1, <2>2 DEF SetSettled
  <2> QED BY <2>3 DEF Shown
<1>6. ASSUME Phase(m) >= 3, NEW i \in (Owners \ retiered) \X Tables, w.rules[i] # Absent
      PROVE  table.rules[i] # Absent
  <2>1. RuleSettled(table, P, w, i)
    BY <1>1
  <2>2. \A x \in P : ~ (x.kind = "rules" /\ <<x.owner, x.tier>> = i)
    BY <1>4, <1>6, <2>1 DEF RuleSettled
  <2> QED BY <1>6, <2>1, <2>2 DEF RuleSettled
<1>7. ASSUME Phase(m) >= 4, NEW e \in Endpoints PROVE table.endpoints[e] = w.endpoints[e]
  BY <1>1, <1>4, <1>7 DEF EndpointSettled
<1>8. ASSUME Phase(m) >= 5, NEW i \in (Owners \ retiered) \X Tables
      PROVE  table.rules[i] = w.rules[i]
  BY <1>1, <1>4, <1>8 DEF RuleSettled
<1> QED BY <1>5, <1>6, <1>7, <1>8 DEF w

LEMMA ReceiveResolves ==
    ASSUME AgentInv, ReferencesResolve, Receive
    PROVE  ReferencesResolve'
<1> DEFINE m == Head(queue)
           u == Absorb(table, m)
           w == TableOf(graph)
           Kept == (Owners \ retiered) \X Tables
<1>1. /\ queue # << >> /\ table' = u /\ UNCHANGED <<graph, seq, crossed, retiered>>
  BY DEF Receive, agent
<1>2. /\ table \in Table /\ queue \in Seq(ToDataplane) /\ InPhases(queue, 1, 6)
      /\ Coherent(graph) /\ Under(graph, table, Range(queue), crossed, retiered)
  BY DEF AgentInv, GraphInv
<1>3. /\ m \in ToDataplane /\ Range(queue) = {m} \cup Range(Tail(queue))
      /\ \A x \in Range(Tail(queue)) : Phase(m) <= Phase(x)
  BY <1>1, <1>2, TailFacts
<1>4. m \in Range(queue) /\ \A x \in Range(queue) : Phase(m) <= Phase(x)
  <2>1. Phase(m) <= Phase(m)
    BY PhaseType
  <2> QED BY <1>3, <2>1
<1>5. /\ Phase(m) >= 2 => \A s \in IpSets \ crossed : w.sets[s] # Absent => table.sets[s] # Absent
      /\ Phase(m) >= 3 => \A i \in Kept : w.rules[i] # Absent => table.rules[i] # Absent
      /\ Phase(m) >= 4 => \A e \in Endpoints : table.endpoints[e] = w.endpoints[e]
      /\ Phase(m) >= 5 => \A i \in Kept : table.rules[i] = w.rules[i]
  BY <1>4, LaterPhases
<1>6. /\ \A i \in Owners \X Tables : w.rules[i] # Absent =>
            \A s \in SetsOf[w.rules[i]] : s \in IpSets /\ w.sets[s] # Absent
      /\ \A e \in Endpoints : w.endpoints[e] # Absent =>
            \A n \in DOMAIN w.endpoints[e].order :
               LET at == w.endpoints[e].order[n]
               IN  /\ <<at[2], at[1]>> \in Owners \X Tables
                   /\ w.rules[<<at[2], at[1]>>] # Absent
  BY <1>2, WantedResolves
<1>7. /\ \A s \in IpSets \ crossed : SetSettled(table, Range(queue), w, s)
      /\ \A i \in Kept : RuleSettled(table, Range(queue), w, i)
      /\ \A e \in Endpoints : EndpointSettled(table, Range(queue), w, e)
  BY <1>2 DEF Under
<1>8. /\ \A i \in Kept : Referenced(table, i)
      /\ \A e \in Endpoints : Dispatched(table, e)
  BY DEF ReferencesResolve
<1>9. /\ table.sets \in [IpSets -> Set \cup {Absent}]
      /\ table.rules \in [Owners \X Tables -> Rules \cup {Absent}]
      /\ table.endpoints \in [Endpoints -> SentEndpoint \cup {Absent}]
  BY <1>2 DEF Table
<1>10. \A i \in Kept : i \in Owners \X Tables
  OBVIOUS
<1>11. \A i \in Owners \X Tables : table.rules[i] # Absent => SetsOf[table.rules[i]] \subseteq IpSets
  BY <1>9, NamesAssumption
<1> DEFINE Good == /\ \A i \in Kept : Referenced(u, i)
                   /\ \A e \in Endpoints : Dispatched(u, e)
<1>12. ASSUME m.kind \in {"set", "members"}
       PROVE  Good
  <2>1. m.set \in IpSets /\ u.rules = table.rules /\ u.endpoints = table.endpoints
    BY <1>2, <1>3, <1>12, AbsorbFields, MessageFields
  <2>2. \A s \in IpSets : s # m.set => u.sets[s] = table.sets[s]
    <3>1. CASE m.kind = "set"
      <4>1. u.sets = [table.sets EXCEPT ![m.set] = m.content]
        BY <1>2, <1>3, <3>1, AbsorbFields
      <4> HIDE DEF u
      <4> QED BY <1>9, <4>1
    <3>2. CASE m.kind = "members"
      BY <1>2, <1>3, <3>2, AbsorbFields
    <3> QED BY <1>12, <3>1, <3>2
  <2>3. u.sets[m.set] # Absent \/ (m.kind = "set" /\ m.content = Absent)
    <3>1. CASE m.kind = "set"
      <4>1. u.sets = [table.sets EXCEPT ![m.set] = m.content]
        BY <1>2, <1>3, <3>1, AbsorbFields
      <4> HIDE DEF u
      <4> QED BY <1>9, <2>1, <3>1, <4>1
    <3>2. CASE m.kind = "members"
      <4>1. u.sets[m.set] \in Set
        BY <1>2, <1>3, <3>2, AbsorbFields
      <4> QED BY <4>1, ContentAssumption
    <3> QED BY <1>12, <3>1, <3>2
  <2> HIDE DEF u, Kept
  <2>4. ASSUME NEW i \in Kept, u.rules[i] # Absent, NEW s \in SetsOf[u.rules[i]] \ crossed
        PROVE  u.sets[s] # Absent
    <3>1. table.sets[s] # Absent /\ s \in IpSets
      BY <1>8, <1>10, <1>11, <2>1, <2>4 DEF Referenced
    <3>2. CASE s = m.set /\ m.kind = "set" /\ m.content = Absent
      <4>1. Phase(m) = 5
        BY <3>2 DEF Phase
      <4>2. table.rules[i] = w.rules[i]
        BY <1>5, <4>1
      <4>3. w.sets[s] # Absent
        BY <1>6, <1>10, <2>1, <2>4, <4>2
      <4>4. SetSettled(table, Range(queue), w, s)
        BY <1>7, <2>4, <3>1
      <4>5. w.sets[s] = Absent
        BY <1>4, <3>2, <4>4 DEF SetSettled
      <4> QED BY <4>3, <4>5
    <3> QED BY <2>2, <2>3, <3>1, <3>2
  <2>5. \A i \in Kept : Referenced(u, i)
    BY <2>4 DEF Referenced
  <2>6. \A e \in Endpoints : Dispatched(u, e)
    BY <1>8, <2>1 DEF Dispatched
  <2> QED BY <2>5, <2>6
<1>13. ASSUME m.kind = "rules"
       PROVE  Good
  <2> DEFINE j == <<m.owner, m.tier>>
  <2>1. /\ u.sets = table.sets /\ u.endpoints = table.endpoints
        /\ u.rules = [table.rules EXCEPT ![j] = m.rules]
    BY <1>2, <1>3, <1>13, AbsorbFields
  <2>2. m.owner \in Owners /\ m.tier \in Tables
    BY <1>3, <1>13, MessageFields
  <2>3. j \in Owners \X Tables /\ j[1] = m.owner /\ (m.owner \notin retiered => j \in Kept)
    BY <2>2
  <2>4. \A i \in Owners \X Tables : u.rules[i] = IF i = j THEN m.rules ELSE table.rules[i]
    <3> HIDE DEF u, j
    <3> QED BY <1>9, <2>1
  <2>5. m.owner \notin retiered => m.rules = w.rules[j]
    <3> SUFFICES ASSUME j \in Kept PROVE m.rules = w.rules[j]
      BY <2>3
    <3>1. RuleSettled(table, Range(queue), w, j)
      BY <1>7
    <3> QED BY <1>4, <1>13, <3>1 DEF RuleSettled
  <2>6. \A i \in Kept : i[1] \notin retiered
    OBVIOUS
  <2> HIDE DEF u, j, Kept, w
  <2>7. Phase(m) = IF m.rules = Absent THEN 4 ELSE 2
    BY <1>13 DEF Phase
  <2>8. ASSUME NEW i \in Kept, u.rules[i] # Absent, NEW s \in SetsOf[u.rules[i]] \ crossed
        PROVE  u.sets[s] # Absent
    <3>1. CASE i = j
      <4>1. u.rules[i] = w.rules[j] /\ m.rules = w.rules[j] /\ w.rules[j] # Absent
        BY <1>10, <2>3, <2>4, <2>5, <2>6, <2>8, <3>1
      <4>2. s \in IpSets /\ w.sets[s] # Absent
        BY <1>6, <2>3, <2>8, <4>1
      <4>3. Phase(m) >= 2
        BY <2>7
      <4> QED BY <1>5, <2>1, <2>8, <4>2, <4>3
    <3>2. CASE i # j
      BY <1>8, <1>10, <2>1, <2>4, <2>8, <3>2 DEF Referenced
    <3> QED BY <3>1, <3>2
  <2>9. ASSUME NEW e \in Endpoints PROVE Dispatched(u, e)
    <3> SUFFICES ASSUME u.endpoints[e] # Absent, NEW n \in DOMAIN u.endpoints[e].order,
                        u.endpoints[e].order[n][2] \notin retiered
                 PROVE  u.rules[<<u.endpoints[e].order[n][2], u.endpoints[e].order[n][1]>>] # Absent
      BY DEF Dispatched
    <3> DEFINE a == u.endpoints[e].order[n][2]
               b == u.endpoints[e].order[n][1]
               i == <<a, b>>
    <3>1. table.rules[i] # Absent
      BY <1>8, <2>1 DEF Dispatched
    <3>2. i \in Owners \X Tables /\ i[1] = a
      <4>1. u.endpoints[e] \in SentEndpoint
        BY <1>9, <2>1
      <4>2. u.endpoints[e].order \in Seq(Tiers \X Policies)
        BY <4>1 DEF SentEndpoint
      <4>3. u.endpoints[e].order[n] \in Tiers \X Policies
        BY <4>2
      <4>4. a \in Policies /\ b \in Tiers
        BY <4>3
      <4> QED BY <4>4 DEF Owners, Tables
    <3>3. ASSUME i = j, m.rules = Absent PROVE FALSE
      <4>1. m.owner \notin retiered
        BY <2>3, <3>2, <3>3
      <4>2. w.rules[i] = Absent
        BY <2>5, <3>3, <4>1
      <4>3. table.endpoints[e] = w.endpoints[e]
        BY <1>5, <2>7, <3>3
      <4>4. w.rules[<<a, b>>] # Absent
        <5>1. u.endpoints[e] = w.endpoints[e] /\ w.endpoints[e] # Absent
              /\ n \in DOMAIN w.endpoints[e].order
          BY <2>1, <4>3
        <5>2. LET at == w.endpoints[e].order[n] IN w.rules[<<at[2], at[1]>>] # Absent
          BY <1>6, <5>1
        <5> QED BY <5>1, <5>2
      <4> QED BY <4>2, <4>4
    <3> HIDE DEF i
    <3>4. u.rules[i] # Absent
      BY <2>4, <3>1, <3>2, <3>3
    <3> QED BY <3>4 DEF i
  <2>10. \A i \in Kept : Referenced(u, i)
    BY <2>8 DEF Referenced
  <2> QED BY <2>9, <2>10
<1>14. ASSUME m.kind = "endpoint"
       PROVE  Good
  <2>1. /\ u.sets = table.sets /\ u.rules = table.rules
        /\ u.endpoints = [table.endpoints EXCEPT ![m.endpoint] = m.detail]
    BY <1>2, <1>3, <1>14, AbsorbFields
  <2>2. m.endpoint \in Endpoints
    BY <1>3, <1>14, MessageFields
  <2>3. \A e \in Endpoints : u.endpoints[e] = IF e = m.endpoint THEN m.detail ELSE table.endpoints[e]
    <3> HIDE DEF u
    <3> QED BY <1>9, <2>1
  <2>4. m.detail = w.endpoints[m.endpoint]
    <3>1. EndpointSettled(table, Range(queue), w, m.endpoint)
      BY <1>7, <2>2
    <3> QED BY <1>4, <1>14, <3>1 DEF EndpointSettled
  <2>5. Phase(m) = 3
    BY <1>14 DEF Phase
  <2>6. \A i \in Owners \X Tables : i[1] \notin retiered => i \in Kept
    OBVIOUS
  <2> HIDE DEF u, w, Kept
  <2>7. ASSUME NEW e \in Endpoints PROVE Dispatched(u, e)
    <3>1. CASE e = m.endpoint
      <4> SUFFICES ASSUME u.endpoints[e] # Absent, NEW n \in DOMAIN u.endpoints[e].order,
                          u.endpoints[e].order[n][2] \notin retiered
                   PROVE  u.rules[<<u.endpoints[e].order[n][2], u.endpoints[e].order[n][1]>>] # Absent
        BY DEF Dispatched
      <4> DEFINE a == u.endpoints[e].order[n][2]
                 b == u.endpoints[e].order[n][1]
                 i == <<a, b>>
      <4>1. u.endpoints[e] = w.endpoints[e]
        BY <2>3, <2>4, <3>1
      <4>2. i \in Owners \X Tables /\ w.rules[i] # Absent
        BY <1>6, <4>1
      <4>3. i[1] = a /\ a \notin retiered
        OBVIOUS
      <4> HIDE DEF i
      <4>4. table.rules[i] # Absent
        BY <1>5, <2>5, <2>6, <4>2, <4>3
      <4> QED BY <2>1, <4>4 DEF i
    <3>2. CASE e # m.endpoint
      BY <1>8, <2>1, <2>3, <3>2 DEF Dispatched
    <3> QED BY <3>1, <3>2
  <2>8. \A i \in Kept : Referenced(u, i)
    BY <1>8, <2>1 DEF Referenced
  <2> QED BY <2>7, <2>8
<1>15. ASSUME m.kind = "insync"
       PROVE  Good
  <2>1. u = table
    BY <1>2, <1>3, <1>15, AbsorbFields
  <2> HIDE DEF u
  <2> QED BY <1>8, <2>1
<1>16. Good
  BY <1>3, <1>12, <1>13, <1>14, <1>15, MessageFields
<1> HIDE DEF u
<1> QED BY <1>1, <1>16 DEF ReferencesResolve, Referenced, Dispatched

LEMMA StepResolves == AgentInv /\ ReferencesResolve /\ [Next]_vars => ReferencesResolve'
<1> SUFFICES ASSUME AgentInv, ReferencesResolve, [Next]_vars PROVE ReferencesResolve'
  OBVIOUS
<1>1. ASSUME table' = table, crossed \subseteq crossed', retiered \subseteq retiered'
      PROVE  ReferencesResolve'
  <2>1. \A i \in (Owners \ retiered') \X Tables : i \in (Owners \ retiered) \X Tables
    BY <1>1
  <2> QED BY <1>1, <2>1 DEF ReferencesResolve, Referenced, Dispatched
<1>2. ASSUME UNCHANGED <<table, crossed, retiered>> PROVE ReferencesResolve'
  BY <1>1, <1>2
<1>3. ASSUME NEW k \in Objects, Change(k) PROVE ReferencesResolve'
  BY <1>2, <1>3 DEF Change, agent, dataplane
<1>4. ASSUME NEW k \in Objects, Deliver(k) PROVE ReferencesResolve'
  BY <1>1, <1>4 DEF Deliver, dataplane
<1>5. ASSUME NEW kind \in Kinds, Connect(kind) \/ Break(kind) \/ ListDone(kind)
      PROVE  ReferencesResolve'
  BY <1>2, <1>5 DEF Connect, Break, ListDone, agent, dataplane
<1>6. CASE Receive
  BY <1>6, ReceiveResolves
<1>7. CASE Apply \/ UNCHANGED vars
  BY <1>2, <1>7 DEF Apply, vars, agent, dataplane
<1>8. CASE Restart
  <2>1. table' = EmptyTable
    BY <1>8 DEF Restart
  <2>2. /\ \A i \in Owners \X Tables : table'.rules[i] = Absent
        /\ \A e \in Endpoints : table'.endpoints[e] = Absent
    BY <2>1 DEF EmptyTable
  <2> QED BY <2>2 DEF ReferencesResolve, Referenced, Dispatched
<1> QED BY <1>3, <1>4, <1>5, <1>6, <1>7, <1>8 DEF Next

(* At every message: no chain of the table is without its sets, and no     *)
(* endpoint without its policies.                                          *)
THEOREM NothingDangles == Spec => []ReferencesResolve
<1>1. Init => ReferencesResolve
  <2> SUFFICES ASSUME Init PROVE ReferencesResolve
    OBVIOUS
  <2>1. table = EmptyTable
    BY DEF Init
  <2>2. /\ \A i \in Owners \X Tables : table.rules[i] = Absent
        /\ \A e \in Endpoints : table.endpoints[e] = Absent
    BY <2>1 DEF EmptyTable
  <2> QED BY <2>2 DEF ReferencesResolve, Referenced, Dispatched
<1> QED BY <1>1, InitAgent, StepAgent, StepResolves, PTL DEF Spec

-----------------------------------------------------------------------------
(***************************************************************************)
(* The label index.                                                        *)
(*                                                                         *)
(* The members that the items `M` offer, item i offering mem[i]: what the  *)
(* index counts and what its consumer holds.                               *)
(***************************************************************************)
Offering(M, mem, m) == {i \in M : m \in mem[i]}
Offered(M, mem) == UNION {mem[i] : i \in M}
StateFor(M, mem) == [counts |-> [m \in Offered(M, mem) |-> Cardinality(Offering(M, mem, m))],
                     matching |-> M, set |-> Offered(M, mem)]

LEMMA OfferedBy ==
    ASSUME NEW M, NEW mem, NEW m
    PROVE  m \in Offered(M, mem) <=> Offering(M, mem, m) # {}
BY DEF Offered, Offering

(* How many offer a member once one item has changed what it offers.       *)
LEMMA OneOfferChanges ==
    ASSUME NEW H, IsFiniteSet(H), NEW G, NEW id, G \ {id} = H \ {id}
    PROVE  /\ IsFiniteSet(G) /\ Cardinality(H) \in Nat /\ Cardinality(G) \in Nat
           /\ Cardinality(G) = 0 <=> G = {}
           /\ Cardinality(H) = 0 <=> H = {}
           /\ (id \in H <=> id \in G) => Cardinality(G) = Cardinality(H)
           /\ (id \in H /\ id \notin G) => Cardinality(G) = Cardinality(H) - 1
           /\ (id \notin H /\ id \in G) => Cardinality(G) = Cardinality(H) + 1
<1>1. IsFiniteSet(H \ {id})
  BY FS_Subset
<1>2. IsFiniteSet((H \ {id}) \cup {id})
  BY <1>1, FS_AddElement
<1>3. IsFiniteSet(G)
  <2>1. G \subseteq (H \ {id}) \cup {id}
    OBVIOUS
  <2> QED BY <1>2, <2>1, FS_Subset
<1>4. Cardinality(H) \in Nat /\ Cardinality(G) \in Nat
  BY <1>3, FS_CardinalityType
<1>5. (id \in H <=> id \in G) => G = H
  OBVIOUS
<1>6. (id \in H /\ id \notin G) => G = H \ {id}
  OBVIOUS
<1>7. (id \notin H /\ id \in G) => G = H \cup {id}
  OBVIOUS
<1>8. (id \in H /\ id \notin G) => Cardinality(G) = Cardinality(H) - 1
  BY <1>6, FS_RemoveElement
<1>9. (id \notin H /\ id \in G) => Cardinality(G) = Cardinality(H) + 1
  BY <1>7, FS_AddElement
<1> QED BY <1>3, <1>4, <1>5, <1>8, <1>9, FS_EmptySet

(* Reconciling one item leaves the counts of the items that now match.     *)
LEMMA ReconcileExact ==
    ASSUME NEW M, NEW mem, NEW mem1, NEW id, NEW N, IsFiniteSet(M), N \ {id} = M \ {id},
           \A i \in M \ {id} : mem1[i] = mem[i]
    PROVE  Reconcile(StateFor(M, mem), id, Contribution(id \in M, mem[id]),
                     Contribution(id \in N, mem1[id]), id \in N) = StateFor(N, mem1)
<1> DEFINE st == StateFor(M, mem)
           old == Contribution(id \in M, mem[id])
           new == Contribution(id \in N, mem1[id])
           st1 == Reconcile(st, id, old, new, id \in N)
           H(m) == Offering(M, mem, m)
           G(m) == Offering(N, mem1, m)
           left == old \ new
           joined == new \ old
<1>1. ASSUME NEW m
      PROVE  /\ IsFiniteSet(H(m)) /\ G(m) \ {id} = H(m) \ {id}
             /\ id \in H(m) <=> m \in old
             /\ id \in G(m) <=> m \in new
  <2>1. IsFiniteSet(H(m))
    BY FS_Subset DEF Offering
  <2> QED BY <2>1 DEF Offering, Contribution
<1>2. ASSUME NEW m
      PROVE  /\ Cardinality(H(m)) \in Nat /\ Cardinality(G(m)) \in Nat
             /\ m \in Offered(M, mem) <=> Cardinality(H(m)) > 0
             /\ m \in Offered(N, mem1) <=> Cardinality(G(m)) > 0
             /\ m \in left => /\ Cardinality(H(m)) > 0
                              /\ Cardinality(G(m)) = Cardinality(H(m)) - 1
             /\ m \in joined => Cardinality(G(m)) = Cardinality(H(m)) + 1
             /\ (m \notin left /\ m \notin joined) => Cardinality(G(m)) = Cardinality(H(m))
  <2> HIDE DEF H, G, old, new
  <2>1. /\ Cardinality(H(m)) \in Nat /\ Cardinality(G(m)) \in Nat
        /\ Cardinality(G(m)) = 0 <=> G(m) = {}
        /\ Cardinality(H(m)) = 0 <=> H(m) = {}
        /\ (id \in H(m) <=> id \in G(m)) => Cardinality(G(m)) = Cardinality(H(m))
        /\ (id \in H(m) /\ id \notin G(m)) => Cardinality(G(m)) = Cardinality(H(m)) - 1
        /\ (id \notin H(m) /\ id \in G(m)) => Cardinality(G(m)) = Cardinality(H(m)) + 1
    BY <1>1, OneOfferChanges
  <2>2. m \in Offered(M, mem) <=> H(m) # {}
    BY OfferedBy DEF H
  <2>3. m \in Offered(N, mem1) <=> G(m) # {}
    BY OfferedBy DEF G
  <2> QED BY <1>1, <2>1, <2>2, <2>3
<1>3. st.counts = [m \in Offered(M, mem) |-> Cardinality(H(m))]
      /\ st.matching = M /\ st.set = Offered(M, mem)
  BY DEF StateFor
<1> DEFINE less == st.counts (-) SetToBag(left)
           counts == less (+) SetToBag(joined)
           removed == BagToSet(st.counts) \ BagToSet(less)
           added == joined \ BagToSet(less)
<1>4. st1 = [counts |-> counts, matching |-> N, set |-> (st.set \ removed) \cup added]
  <2>1. N = IF id \in N THEN M \cup {id} ELSE M \ {id}
    OBVIOUS
  <2> HIDE DEF st, old, new
  <2> QED BY <1>3, <2>1 DEF Reconcile
<1> HIDE DEF st, H, G, old, new
<1>5. /\ DOMAIN less = {m \in Offered(M, mem) : m \in left => Cardinality(H(m)) # 1}
      /\ \A m \in DOMAIN less : less[m] = IF m \in left THEN Cardinality(H(m)) - 1
                                                        ELSE Cardinality(H(m))
  <2> HIDE DEF left
  <2>1. less = [m \in {m \in Offered(M, mem) :
                     (IF m \in left THEN Cardinality(H(m)) - 1 ELSE Cardinality(H(m))) > 0} |->
                   IF m \in left THEN Cardinality(H(m)) - 1 ELSE Cardinality(H(m))]
    BY <1>3 DEF (-), SetToBag
  <2> QED BY <1>2, <2>1
<1>6. (st.set \ removed) \cup added = Offered(N, mem1)
  <2>1. ASSUME NEW m PROVE m \in (st.set \ removed) \cup added <=> m \in Offered(N, mem1)
    BY <1>2, <1>3, <1>5 DEF BagToSet
  <2> QED BY <2>1
<1> HIDE DEF less
<1>7. counts = [m \in Offered(N, mem1) |-> Cardinality(G(m))]
  <2>1. DOMAIN counts = DOMAIN less \cup joined
        /\ \A m \in DOMAIN counts : counts[m] = (IF m \in DOMAIN less THEN less[m] ELSE 0)
                                              + (IF m \in joined THEN 1 ELSE 0)
    BY DEF (+), SetToBag
  <2>t. counts = [m \in DOMAIN counts |-> counts[m]]
    BY DEF (+)
  <2> HIDE DEF counts
  <2>2. ASSUME NEW m PROVE m \in DOMAIN counts <=> m \in Offered(N, mem1)
    BY <1>2, <1>5, <2>1
  <2>3. ASSUME NEW m \in DOMAIN counts PROVE counts[m] = Cardinality(G(m))
    BY <1>2, <1>5, <2>1
  <2>4. DOMAIN counts = Offered(N, mem1)
    BY <2>2
  <2>5. [m \in DOMAIN counts |-> counts[m]] = [m \in DOMAIN counts |-> Cardinality(G(m))]
    BY <2>3
  <2>6. counts = [m \in DOMAIN counts |-> Cardinality(G(m))]
    BY <2>t, <2>5
  <2> QED BY <2>4, <2>6
<1>8. StateFor(N, mem1) = [counts |-> [m \in Offered(N, mem1) |-> Cardinality(G(m))],
                           matching |-> N, set |-> Offered(N, mem1)]
  BY DEF StateFor, G
<1> HIDE DEF counts, removed, added
<1> QED BY <1>4, <1>6, <1>7, <1>8 DEF st, old, new

LEMMA ReevaluatedExact ==
    ASSUME NEW M, NEW mem, NEW mem1, NEW id, NEW N, NEW s, NEW labels, NEW before, NEW after,
           IsFiniteSet(M), N \ {id} = M \ {id}, id \in N <=> SelectorMatches(SelectorOf[s], labels),
           id \in M => before = mem[id], id \in N => after = mem1[id],
           \A i \in M \ {id} : mem1[i] = mem[i]
    PROVE  Reevaluated(StateFor(M, mem), s, id, before, after, labels) = StateFor(N, mem1)
<1> DEFINE st == StateFor(M, mem)
           now == SelectorMatches(SelectorOf[s], labels)
<1>1. st.matching = M
  BY DEF StateFor
<1>2. Contribution(id \in M, before) = Contribution(id \in M, mem[id])
  BY DEF Contribution
<1>3. Contribution(now, after) = Contribution(id \in N, mem1[id])
  BY DEF Contribution
<1>4. \A o, n : Reconcile(st, id, o, n, now) = Reconcile(st, id, o, n, id \in N)
  BY DEF Reconcile
<1>5. Reevaluated(st, s, id, before, after, labels)
        = Reconcile(st, id, Contribution(id \in st.matching, before), Contribution(now, after), now)
  BY DEF Reevaluated
<1>6. Reconcile(st, id, Contribution(id \in M, mem[id]), Contribution(id \in N, mem1[id]),
                id \in N) = StateFor(N, mem1)
  BY ReconcileExact
<1> HIDE DEF st, now
<1>7. Reevaluated(st, s, id, before, after, labels)
        = Reconcile(st, id, Contribution(id \in M, mem[id]),
                    Contribution(id \in N, mem1[id]), now)
  BY <1>1, <1>2, <1>3, <1>5
<1> QED BY <1>4, <1>6, <1>7 DEF st

-----------------------------------------------------------------------------
(***************************************************************************)
(* Labels.  The labels that the parents lo .. n of a list pass on, `given` *)
(* being what each has: for each key, those of the first that has it.      *)
(***************************************************************************)
Carriers(given, lo, n, k) == {i \in lo .. n : k \in DOMAIN given[i]}
FirstCarrier(given, lo, n, k) ==
    CHOOSE i \in Carriers(given, lo, n, k) : \A j \in Carriers(given, lo, n, k) : i <= j
Carried(given, lo, n) == UNION {DOMAIN given[i] : i \in lo .. n}
PassedOn(given, lo, n) ==
    [k \in Carried(given, lo, n) |-> given[FirstCarrier(given, lo, n, k)][k]]

LabelsOf(ps, p) == IF p \in DOMAIN ps THEN ps[p].labels ELSE << >>
Given(item, ps) == [i \in 1 .. Len(item.parents) |-> LabelsOf(ps, item.parents[i])]

LEMMA FirstIsLeast ==
    ASSUME NEW given, NEW lo \in Nat, NEW n \in Nat, NEW k, NEW i \in Carriers(given, lo, n, k),
           \A j \in Carriers(given, lo, n, k) : i <= j
    PROVE  FirstCarrier(given, lo, n, k) = i
<1>1. FirstCarrier(given, lo, n, k) \in Carriers(given, lo, n, k)
      /\ \A j \in Carriers(given, lo, n, k) : FirstCarrier(given, lo, n, k) <= j
  BY DEF FirstCarrier
<1>2. Carriers(given, lo, n, k) \subseteq Nat
  BY DEF Carriers
<1> QED BY <1>1, <1>2

LEMMA SomeIsFirst ==
    ASSUME NEW given, NEW lo \in Nat, NEW n \in Nat, NEW k \in Carried(given, lo, n)
    PROVE  \E i \in Carriers(given, lo, n, k) : \A j \in Carriers(given, lo, n, k) : i <= j
<1>1. Carriers(given, lo, n, k) \in SUBSET Nat /\ Carriers(given, lo, n, k) # {}
  BY DEF Carriers, Carried
<1> QED BY <1>1, LeastElement

LEMMA OneMorePassesOn ==
    ASSUME NEW given, NEW lo \in Nat, NEW n \in Nat, lo <= n
    PROVE  Over(given[lo], PassedOn(given, lo + 1, n)) = PassedOn(given, lo, n)
<1> DEFINE later == PassedOn(given, lo + 1, n)
           all == Carried(given, lo, n)
<1>1. DOMAIN later = Carried(given, lo + 1, n)
  BY DEF PassedOn
<1>2. DOMAIN given[lo] \cup DOMAIN later = all
  <2>1. lo .. n = {lo} \cup (lo + 1 .. n)
    OBVIOUS
  <2> QED BY <1>1, <2>1 DEF Carried
<1>3. ASSUME NEW k \in all
      PROVE  (IF k \in DOMAIN given[lo] THEN given[lo][k] ELSE later[k])
                = given[FirstCarrier(given, lo, n, k)][k]
  <2>1. CASE k \in DOMAIN given[lo]
    <3>1. lo \in Carriers(given, lo, n, k) /\ \A j \in Carriers(given, lo, n, k) : lo <= j
      BY <2>1 DEF Carriers
    <3> QED BY <2>1, <3>1, FirstIsLeast
  <2>2. CASE k \notin DOMAIN given[lo]
    <3>1. Carriers(given, lo, n, k) = Carriers(given, lo + 1, n, k)
      BY <2>2 DEF Carriers
    <3>2. later[k] = given[FirstCarrier(given, lo + 1, n, k)][k]
      BY <1>1, <1>2, <2>2 DEF PassedOn
    <3> QED BY <2>2, <3>1, <3>2 DEF FirstCarrier
  <2> QED BY <2>1, <2>2
<1>4. Over(given[lo], later)
        = [k \in all |-> IF k \in DOMAIN given[lo] THEN given[lo][k] ELSE later[k]]
  <2> HIDE DEF later, all
  <2>1. Over(given[lo], later) = [k \in DOMAIN given[lo] \cup DOMAIN later |->
                                IF k \in DOMAIN given[lo] THEN given[lo][k] ELSE later[k]]
    BY DEF Over
  <2> QED BY <1>2, <2>1
<1> HIDE DEF later, all
<1>5. [k \in all |-> IF k \in DOMAIN given[lo] THEN given[lo][k] ELSE later[k]]
        = [k \in all |-> given[FirstCarrier(given, lo, n, k)][k]]
  BY <1>3
<1> QED BY <1>4, <1>5 DEF PassedOn, later, all

(* A function on 0 .. n whose values follow one from the other is known.   *)
LEMMA StepByStep ==
    ASSUME NEW n \in Nat, NEW f, NEW g, f[0] = g[0],
           \A k \in 1 .. n : f[k - 1] = g[k - 1] => f[k] = g[k]
    PROVE  f[n] = g[n]
<1> DEFINE S == {k \in Nat : k <= n => f[k] = g[k]}
<1>1. 0 \in S
  OBVIOUS
<1>2. ASSUME NEW k \in S PROVE k + 1 \in S
  <2>1. k \in Nat /\ k + 1 \in Nat /\ (k + 1) - 1 = k
    OBVIOUS
  <2>2. k + 1 <= n => k + 1 \in 1 .. n /\ f[k] = g[k]
    BY <2>1
  <2>3. k + 1 <= n => f[k + 1] = g[k + 1]
    BY <2>1, <2>2
  <2> QED BY <2>1, <2>3
<1>3. S = Nat
  <2> HIDE DEF S
  <2>1. S \in SUBSET Nat
    BY DEF S
  <2> QED BY <1>1, <1>2, <2>1, SetInduction
<1> QED BY <1>3

(* What the loop over the parents merges.                                  *)
LEMMA EffectiveExact ==
    ASSUME NEW item, NEW ps, item.parents \in Seq(Parents)
    PROVE  EffectiveLabels(item, ps)
               = Over(item.labels, PassedOn(Given(item, ps), 1, Len(item.parents)))
<1> DEFINE n == Len(item.parents)
           given == Given(item, ps)
           labelsOf(p) == IF p \in DOMAIN ps THEN ps[p].labels ELSE << >>
           Step(f, k) == IF k = 0 THEN << >> ELSE Over(labelsOf(item.parents[n + 1 - k]), f[k - 1])
           merged == CHOOSE f : f = [k \in 0 .. n |-> Step(f, k)]
           w == [k \in 0 .. n |-> PassedOn(given, n + 1 - k, n)]
<1>1. n \in Nat /\ \A i \in 1 .. n : given[i] = labelsOf(item.parents[i])
  BY DEF Given, LabelsOf
<1>2. EffectiveLabels(item, ps) = Over(item.labels, merged[n])
  BY DEF EffectiveLabels
<1> HIDE DEF n, given, labelsOf
<1>3. PassedOn(given, n + 1, n) = << >>
  <2>1. Carried(given, n + 1, n) = {}
    BY <1>1 DEF Carried
  <2> QED BY <2>1 DEF PassedOn
<1>4. ASSUME NEW k \in 1 .. n
      PROVE  Over(labelsOf(item.parents[n + 1 - k]), PassedOn(given, n + 1 - (k - 1), n))
                = PassedOn(given, n + 1 - k, n)
  <2> DEFINE lo == n + 1 - k
  <2>1. lo \in Nat /\ lo \in 1 .. n /\ n + 1 - (k - 1) = lo + 1 /\ lo <= n
    BY <1>1
  <2> HIDE DEF lo
  <2>2. Over(given[lo], PassedOn(given, lo + 1, n)) = PassedOn(given, lo, n)
    BY <1>1, <2>1, OneMorePassesOn
  <2> QED BY <1>1, <2>1, <2>2 DEF lo
<1>5. w[0] = << >>
  BY <1>1, <1>3
<1>6. ASSUME NEW k \in 1 .. n PROVE w[k] = Over(labelsOf(item.parents[n + 1 - k]), w[k - 1])
  <2>1. k - 1 \in 0 .. n /\ k \in 0 .. n
    BY <1>1
  <2> QED BY <1>4, <2>1
<1>7. w = [k \in 0 .. n |-> Step(w, k)]
  <2>1. \A k \in 0 .. n : w[k] = Step(w, k)
    <3> HIDE DEF w
    <3>1. \A k \in 0 .. n : k = 0 \/ k \in 1 .. n
      BY <1>1
    <3> QED BY <1>5, <1>6, <3>1
  <2> QED BY <2>1
<1>8. merged = [k \in 0 .. n |-> Step(merged, k)]
  <2> HIDE DEF w, Step
  <2> QED BY <1>7
<1>9. merged[n] = w[n]
  <2> HIDE DEF w, merged
  <2>1. merged[0] = << >> /\ \A k \in 1 .. n : merged[k]
                                = Over(labelsOf(item.parents[n + 1 - k]), merged[k - 1])
    <3>1. 0 \in 0 .. n /\ \A k \in 1 .. n : k \in 0 .. n /\ k # 0
      BY <1>1
    <3>2. merged[0] = Step(merged, 0) /\ \A k \in 1 .. n : merged[k] = Step(merged, k)
      <4> HIDE DEF Step
      <4> QED BY <1>8, <3>1
    <3> QED BY <3>1, <3>2
  <2> HIDE DEF Step
  <2> QED BY <1>1, <1>5, <1>6, <2>1, StepByStep
<1>10. w[n] = PassedOn(given, 1, n)
  BY <1>1
<1> QED BY <1>2, <1>9, <1>10 DEF n, given

(* Labels depend only on what the parents named have.                      *)
LEMMA EffectiveSame ==
    ASSUME NEW item, NEW ps, NEW qs, item.parents \in Seq(Parents),
           \A p \in ToSet(item.parents) : LabelsOf(qs, p) = LabelsOf(ps, p)
    PROVE  EffectiveLabels(item, qs) = EffectiveLabels(item, ps)
<1>1. \A i \in 1 .. Len(item.parents) : item.parents[i] \in ToSet(item.parents)
  BY DEF ToSet
<1>2. Given(item, qs) = Given(item, ps)
  BY <1>1 DEF Given
<1> QED BY <1>2, EffectiveExact

-----------------------------------------------------------------------------
(* The items looked at again are each visited once, the others as before.  *)
LEMMA RevisitedExact ==
    ASSUME NEW s, NEW M, NEW mem, NEW ids, NEW before, NEW ps, IsFiniteSet(M), IsFiniteSet(ids),
           \A i \in ids : mem[i] = items[i].members,
           \A i \in ids \cap M : before[i] = mem[i]
    PROVE  Revisited(StateFor(M, mem), s, ids, before, ps)
               = StateFor((M \ ids) \cup
                          {i \in ids : SelectorMatches(SelectorOf[s], EffectiveLabels(items[i], ps))}, mem)
<1> DEFINE order == SetToSeq(ids)
           n == Len(order)
           labels(i) == EffectiveLabels(items[i], ps)
           picked == {i \in ids : SelectorMatches(SelectorOf[s], labels(i))}
           visit(last, id) == Reevaluated(last, s, id, before[id], items[id].members, labels(id))
           Step(f, k) == IF k = 0 THEN StateFor(M, mem) ELSE visit(f[k - 1], order[k])
           after == CHOOSE f : f = [k \in 0 .. n |-> Step(f, k)]
           V(k) == {order[j] : j \in 1 .. k}
           N(k) == (M \ V(k)) \cup (V(k) \cap picked)
           w == [k \in 0 .. n |-> StateFor(N(k), mem)]
<1>1. /\ n \in Nat /\ \A i \in 1 .. n : order[i] \in ids
      /\ \A i \in ids : \E j \in 1 .. n : order[j] = i
      /\ \A i, j \in 1 .. n : order[i] = order[j] => i = j
  BY Visits
<1>2. Revisited(StateFor(M, mem), s, ids, before, ps) = after[n]
  BY DEF Revisited
<1> HIDE DEF order, n, labels
<1>3. N(0) = M /\ N(n) = (M \ ids) \cup picked
  <2>1. V(0) = {} /\ V(n) = ids
    BY <1>1
  <2> QED BY <2>1
<1>4. ASSUME NEW k \in 1 .. n
      PROVE  visit(StateFor(N(k - 1), mem), order[k]) = StateFor(N(k), mem)
  <2> DEFINE id == order[k]
             now == SelectorMatches(SelectorOf[s], labels(id))
             last == N(k - 1)
             L == N(k)
  <2>1. id \in ids /\ id \notin V(k - 1) /\ V(k) = V(k - 1) \cup {id} /\ V(k - 1) \subseteq ids
    <3>1. k - 1 \in Nat /\ 1 .. k = (1 .. k - 1) \cup {k} /\ k \notin 1 .. k - 1
          /\ 1 .. k \subseteq 1 .. n
      BY <1>1
    <3> QED BY <1>1, <3>1
  <2>2. L \ {id} = last \ {id} /\ (id \in L <=> SelectorMatches(SelectorOf[s], labels(id)))
    BY <2>1
  <2>3. IsFiniteSet(last)
    <3>1. last \subseteq M \cup ids
      BY <2>1
    <3> QED BY <3>1, FS_Union, FS_Subset
  <2>4. id \in last <=> id \in M
    BY <2>1
  <2>5. id \in last => before[id] = mem[id]
    BY <2>1, <2>4
  <2>6. mem[id] = items[id].members /\ \A i \in last \ {id} : mem[i] = mem[i]
    BY <2>1
  <2> HIDE DEF last, id, N, L, labels
  <2>7. Reevaluated(StateFor(last, mem), s, id, before[id], items[id].members, labels(id))
          = StateFor(L, mem)
    BY <2>2, <2>3, <2>5, <2>6, ReevaluatedExact
  <2> QED BY <2>7 DEF last, id, L
<1> HIDE DEF N, visit
<1>5. w[0] = StateFor(M, mem) /\ w[n] = StateFor(N(n), mem)
  <2>1. 0 \in 0 .. n /\ n \in 0 .. n
    BY <1>1
  <2>2. w[0] = StateFor(N(0), mem) /\ w[n] = StateFor(N(n), mem)
    BY <2>1
  <2> QED BY <1>3, <2>2
<1>6. ASSUME NEW k \in 1 .. n PROVE w[k] = visit(w[k - 1], order[k])
  <2>1. k - 1 \in 0 .. n /\ k \in 0 .. n
    BY <1>1
  <2> QED BY <1>4, <2>1
<1>7. w = [k \in 0 .. n |-> Step(w, k)]
  <2>1. \A k \in 0 .. n : w[k] = Step(w, k)
    <3> HIDE DEF w
    <3>1. \A k \in 0 .. n : k = 0 \/ k \in 1 .. n
      BY <1>1
    <3> QED BY <1>5, <1>6, <3>1
  <2> QED BY <2>1
<1>8. after = [k \in 0 .. n |-> Step(after, k)]
  <2> HIDE DEF w, Step
  <2> QED BY <1>7
<1>9. after[n] = w[n]
  <2> HIDE DEF w, after
  <2>1. after[0] = StateFor(M, mem)
        /\ \A k \in 1 .. n : after[k] = visit(after[k - 1], order[k])
    <3>1. 0 \in 0 .. n /\ \A k \in 1 .. n : k \in 0 .. n /\ k # 0
      BY <1>1
    <3>2. after[0] = Step(after, 0) /\ \A k \in 1 .. n : after[k] = Step(after, k)
      <4> HIDE DEF Step
      <4> QED BY <1>8, <3>1
    <3> QED BY <3>1, <3>2
  <2> HIDE DEF Step
  <2> QED BY <1>1, <1>5, <1>6, <2>1, StepByStep
<1> QED BY <1>2, <1>3, <1>5, <1>9 DEF labels

-----------------------------------------------------------------------------
(* The references of the parents are those of the items' lists.            *)
Children(its, p) == {i \in DOMAIN its : p \in ToSet(its[i].parents)}
Referred(its, ps) ==
    /\ \A p \in DOMAIN ps : ps[p] = [labels |-> ps[p].labels, items |-> Children(its, p)]
    /\ \A i \in DOMAIN its : ToSet(its[i].parents) \subseteq DOMAIN ps

LEMMA DiscardKeeps ==
    ASSUME NEW its, NEW ps, NEW touched, Referred(its, ps)
    PROVE  /\ Referred(its, DiscardIfEmpty(ps, touched))
           /\ \A p : LabelsOf(DiscardIfEmpty(ps, touched), p) = LabelsOf(ps, p)
<1> DEFINE qs == DiscardIfEmpty(ps, touched)
           empty(p) == ps[p].items = {} /\ ps[p].labels = << >>
<1>1. /\ DOMAIN qs = {p \in DOMAIN ps : p \in touched => ~ empty(p)}
      /\ \A p \in DOMAIN qs : qs[p] = ps[p]
  BY DEF DiscardIfEmpty
<1>2. ASSUME NEW p \in DOMAIN ps, p \notin DOMAIN qs
      PROVE  ps[p].labels = << >> /\ Children(its, p) = {}
  BY <1>1, <1>2 DEF Referred
<1> HIDE DEF qs, empty
<1>3. Referred(its, qs)
  <2>1. ASSUME NEW i \in DOMAIN its, NEW p \in ToSet(its[i].parents) PROVE p \in DOMAIN qs
    BY <1>2 DEF Referred, Children
  <2> QED BY <1>1, <2>1 DEF Referred
<1>4. ASSUME NEW p PROVE LabelsOf(qs, p) = LabelsOf(ps, p)
  BY <1>1, <1>2 DEF LabelsOf
<1> QED BY <1>3, <1>4 DEF qs

LEMMA RefsExact ==
    ASSUME NEW its, NEW its1, NEW ps, NEW id, NEW old, NEW new, Referred(its, ps),
           DOMAIN its1 \ {id} = DOMAIN its \ {id},
           \A i \in DOMAIN its \ {id} : its1[i] = its[i],
           old = IF id \in DOMAIN its THEN ToSet(its[id].parents) ELSE {},
           new = IF id \in DOMAIN its1 THEN ToSet(its1[id].parents) ELSE {}
    PROVE  /\ Referred(its1, UpdateParentRefs(ps, id, old, new))
           /\ \A p : LabelsOf(UpdateParentRefs(ps, id, old, new), p) = LabelsOf(ps, p)
<1> DEFINE refers(p) == (ParentOf(ps, p).items \ (IF p \in old THEN {id} ELSE {}))
                            \cup (IF p \in new THEN {id} ELSE {})
           rs == [p \in DOMAIN ps \cup new |->
                    [labels |-> ParentOf(ps, p).labels, items |-> refers(p)]]
<1>1. UpdateParentRefs(ps, id, old, new) = DiscardIfEmpty(rs, old \ new)
  BY DEF UpdateParentRefs
<1>2. ASSUME NEW p
      PROVE  ParentOf(ps, p).items = Children(its, p) /\ ParentOf(ps, p).labels = LabelsOf(ps, p)
  <2>1. CASE p \in DOMAIN ps
    BY <2>1 DEF ParentOf, LabelsOf, Referred
  <2>2. CASE p \notin DOMAIN ps
    <3>1. Children(its, p) = {}
      BY <2>2 DEF Referred, Children
    <3> QED BY <2>2, <3>1 DEF ParentOf, LabelsOf
  <2> QED BY <2>1, <2>2
<1>3. ASSUME NEW p PROVE refers(p) = Children(its1, p)
  <2>1. refers(p) = (Children(its, p) \ (IF p \in old THEN {id} ELSE {}))
                        \cup (IF p \in new THEN {id} ELSE {})
    BY <1>2
  <2>2. id \in Children(its, p) <=> p \in old
    BY DEF Children
  <2>3. id \in Children(its1, p) <=> p \in new
    BY DEF Children
  <2>4. Children(its1, p) \ {id} = Children(its, p) \ {id}
    BY DEF Children
  <2> HIDE DEF refers
  <2> QED BY <2>1, <2>2, <2>3, <2>4
<1>4. /\ DOMAIN rs = DOMAIN ps \cup new
      /\ \A p \in DOMAIN rs : /\ rs[p] = [labels |-> rs[p].labels, items |-> Children(its1, p)]
                               /\ rs[p].labels = LabelsOf(ps, p)
  <2> HIDE DEF refers
  <2> QED BY <1>2, <1>3
<1>5. ASSUME NEW i \in DOMAIN its1, NEW p \in ToSet(its1[i].parents)
      PROVE  p \in DOMAIN ps \cup new
  <2>1. CASE i = id
    BY <2>1
  <2>2. CASE i # id
    BY <2>2 DEF Referred
  <2> QED BY <2>1, <2>2
<1> HIDE DEF rs
<1>6. Referred(its1, rs)
  BY <1>4, <1>5 DEF Referred
<1>7. ASSUME NEW p PROVE LabelsOf(rs, p) = LabelsOf(ps, p)
  <2>1. CASE p \in DOMAIN rs
    BY <1>4, <2>1 DEF LabelsOf
  <2>2. CASE p \notin DOMAIN rs
    BY <1>4, <2>2 DEF LabelsOf
  <2> QED BY <2>1, <2>2
<1> DEFINE qs == UpdateParentRefs(ps, id, old, new)
<1>8. Referred(its1, qs) /\ \A p : LabelsOf(qs, p) = LabelsOf(rs, p)
  <2> DEFINE touched == old \ new
             ds == DiscardIfEmpty(rs, touched)
  <2> HIDE DEF touched
  <2>1. Referred(its1, ds) /\ \A p : LabelsOf(ds, p) = LabelsOf(rs, p)
    BY <1>6, DiscardKeeps
  <2>2. qs = ds
    BY <1>1 DEF touched
  <2> HIDE DEF qs, ds
  <2> QED BY <2>1, <2>2
<1>9. Referred(its1, qs) /\ \A p : LabelsOf(qs, p) = LabelsOf(ps, p)
  <2> HIDE DEF qs
  <2> QED BY <1>7, <1>8
<1> QED BY <1>9

-----------------------------------------------------------------------------
(***************************************************************************)
(* The invariant of the index: the parents list exactly the items that     *)
(* name them, and each registered selector, with its consumer, has what    *)
(* the items it selects now offer.                                         *)
(***************************************************************************)
ItemMembers == [i \in DOMAIN items |-> items[i].members]
Picked(s) == {i \in DOMAIN items : SelectorMatches(SelectorOf[s], EffectiveLabels(items[i], parents))}

KnownItems == IsFiniteSet(DOMAIN items) /\ \A i \in DOMAIN items : items[i] \in ItemUpdates
KnownSets ==
    /\ DOMAIN selectors \subseteq DOMAIN SelectorOf /\ DOMAIN sets = DOMAIN SelectorOf
    /\ \A s \in DOMAIN SelectorOf \ DOMAIN selectors : sets[s] = {}
Exact == \A s \in DOMAIN selectors : Membership(s) = StateFor(Picked(s), ItemMembers)

MembershipInv == KnownItems /\ Referred(items, parents) /\ KnownSets /\ Exact

LEMMA MembershipInitial == IndexInit => MembershipInv
<1> SUFFICES ASSUME IndexInit PROVE MembershipInv
  OBVIOUS
<1>1. DOMAIN items = {} /\ DOMAIN parents = {} /\ DOMAIN selectors = {}
      /\ sets = [s \in DOMAIN SelectorOf |-> {}]
  BY DEF IndexInit
<1> QED BY <1>1, FS_EmptySet DEF MembershipInv, KnownItems, Referred, KnownSets, Exact

(* What the selectors and the consumer take when a call settles them.      *)
LEMMA SettleTakes ==
    ASSUME NEW after, Settle(after), KnownSets, DOMAIN after = DOMAIN selectors,
           \A s \in DOMAIN selectors : after[s] = StateFor(Picked(s)', ItemMembers')
    PROVE  KnownSets' /\ Exact'
<1>1. /\ DOMAIN selectors' = DOMAIN selectors /\ DOMAIN sets' = DOMAIN sets
      /\ \A s \in DOMAIN selectors : /\ selectors'[s].counts = after[s].counts
                                     /\ selectors'[s].matching = after[s].matching
      /\ \A s \in DOMAIN sets : sets'[s] = IF s \in DOMAIN selectors THEN after[s].set ELSE sets[s]
  BY DEF Settle
<1>2. KnownSets'
  BY <1>1 DEF KnownSets
<1>3. ASSUME NEW s \in DOMAIN selectors PROVE Membership(s)' = StateFor(Picked(s)', ItemMembers')
  <2>1. Membership(s)' = [counts |-> after[s].counts, matching |-> after[s].matching,
                          set |-> after[s].set]
    BY <1>1 DEF Membership, KnownSets
  <2>2. after[s] = StateFor(Picked(s)', ItemMembers')
    OBVIOUS
  <2> QED BY <2>1, <2>2 DEF StateFor
<1> QED BY <1>1, <1>2, <1>3 DEF Exact

LEMMA ItemsHaveParentLists ==
    ASSUME KnownItems, NEW i \in DOMAIN items
    PROVE  items[i].parents \in Seq(Parents)
BY ParentListsAssumption DEF KnownItems, ParentListsAssumption

LEMMA UpdateItemExact ==
    ASSUME MembershipInv, NEW id, NEW update \in ItemUpdates, UpdateItem(id, update)
    PROVE  MembershipInv'
<1> DEFINE old == IF id \in DOMAIN items THEN items[id]
                  ELSE [labels |-> << >>, parents |-> << >>, members |-> {}]
           ps == UpdateParentRefs(parents, id, ToSet(old.parents), ToSet(update.parents))
           after == [s \in DOMAIN selectors |->
                        Reevaluated(Membership(s), s, id, old.members, update.members,
                                    EffectiveLabels(update, ps))]
<1>1. parents' = ps /\ items' = Over([i \in {id} |-> update], items) /\ Settle(after)
  BY DEF UpdateItem
<1>2. /\ DOMAIN items' = DOMAIN items \cup {id} /\ items'[id] = update
      /\ \A i \in DOMAIN items \ {id} : items'[i] = items[i]
  BY <1>1 DEF Over
<1>3. KnownItems'
  BY <1>2, FS_AddElement DEF MembershipInv, KnownItems
<1>4. Referred(items, parents)' /\ \A p : LabelsOf(parents', p) = LabelsOf(parents, p)
  <2>1. ToSet(old.parents) = IF id \in DOMAIN items THEN ToSet(items[id].parents) ELSE {}
    BY DEF ToSet
  <2>2. ToSet(update.parents) = IF id \in DOMAIN items' THEN ToSet(items'[id].parents) ELSE {}
    BY <1>2
  <2>3. DOMAIN items' \ {id} = DOMAIN items \ {id}
    BY <1>2
  <2> HIDE DEF old
  <2>4. Referred(items', ps) /\ \A p : LabelsOf(ps, p) = LabelsOf(parents, p)
    BY <1>2, <2>1, <2>2, <2>3, RefsExact DEF MembershipInv
  <2> QED BY <1>1, <2>4
<1> HIDE DEF ps
<1>5. ASSUME NEW i \in DOMAIN items \ {id}
      PROVE  EffectiveLabels(items'[i], parents') = EffectiveLabels(items[i], parents)
  BY <1>2, <1>4, ItemsHaveParentLists, EffectiveSame DEF MembershipInv
<1>6. ASSUME NEW s \in DOMAIN selectors
      PROVE  after[s] = StateFor(Picked(s)', ItemMembers')
  <2> DEFINE M == Picked(s)
             N == Picked(s)'
             mem == ItemMembers
             mem1 == ItemMembers'
             labels == EffectiveLabels(update, ps)
  <2>1. Membership(s) = StateFor(M, mem)
    BY DEF MembershipInv, Exact
  <2>2. IsFiniteSet(M)
    BY FS_Subset DEF MembershipInv, KnownItems, Picked
  <2>3. N \ {id} = M \ {id}
    BY <1>2, <1>5 DEF Picked
  <2>4. id \in N <=> SelectorMatches(SelectorOf[s], labels)
    BY <1>1, <1>2 DEF Picked
  <2>5. id \in M => old.members = mem[id]
    BY DEF Picked, ItemMembers
  <2>6. id \in N => update.members = mem1[id]
    BY <1>2 DEF ItemMembers
  <2>7. \A i \in M \ {id} : mem1[i] = mem[i]
    BY <1>2 DEF Picked, ItemMembers
  <2>8. after[s] = Reevaluated(StateFor(M, mem), s, id, old.members, update.members, labels)
    BY <2>1
  <2> HIDE DEF M, N, mem, mem1, labels, old, after
  <2>9. after[s] = StateFor(N, mem1)
    BY <2>2, <2>3, <2>4, <2>5, <2>6, <2>7, <2>8, ReevaluatedExact
  <2> QED BY <2>9 DEF N, mem1
<1>7. DOMAIN after = DOMAIN selectors
  OBVIOUS
<1> HIDE DEF after
<1> QED BY <1>1, <1>3, <1>4, <1>6, <1>7, SettleTakes DEF MembershipInv

LEMMA DeleteItemExact ==
    ASSUME MembershipInv, NEW id, DeleteItem(id)
    PROVE  MembershipInv'
<1> DEFINE old == items[id].members
           after == [s \in DOMAIN selectors |->
                        Reconcile(Membership(s), id,
                                  Contribution(id \in selectors[s].matching, old), {}, FALSE)]
           ps == UpdateParentRefs(parents, id, ToSet(items[id].parents), {})
<1>1. /\ id \in DOMAIN items /\ items' = [i \in DOMAIN items \ {id} |-> items[i]]
      /\ parents' = ps /\ Settle(after)
  BY DEF DeleteItem
<1>2. /\ DOMAIN items' = DOMAIN items \ {id}
      /\ \A i \in DOMAIN items \ {id} : items'[i] = items[i]
  BY <1>1
<1>3. KnownItems'
  BY <1>2, FS_Subset DEF MembershipInv, KnownItems
<1>4. Referred(items, parents)' /\ \A p : LabelsOf(parents', p) = LabelsOf(parents, p)
  <2>1. ToSet(items[id].parents) = IF id \in DOMAIN items THEN ToSet(items[id].parents) ELSE {}
    BY <1>1
  <2>2. {} = IF id \in DOMAIN items' THEN ToSet(items'[id].parents) ELSE {}
    BY <1>2
  <2>3. DOMAIN items' \ {id} = DOMAIN items \ {id}
    BY <1>2
  <2>4. \A i \in DOMAIN items \ {id} : items'[i] = items[i]
    BY <1>2
  <2>5. Referred(items', ps) /\ \A p : LabelsOf(ps, p) = LabelsOf(parents, p)
    BY <2>1, <2>2, <2>3, <2>4, RefsExact DEF MembershipInv
  <2> QED BY <1>1, <2>5
<1> HIDE DEF ps
<1>5. ASSUME NEW i \in DOMAIN items \ {id}
      PROVE  EffectiveLabels(items'[i], parents') = EffectiveLabels(items[i], parents)
  BY <1>2, <1>4, ItemsHaveParentLists, EffectiveSame DEF MembershipInv
<1>6. ASSUME NEW s \in DOMAIN selectors
      PROVE  after[s] = StateFor(Picked(s)', ItemMembers')
  <2> DEFINE M == Picked(s)
             N == Picked(s)'
             mem == ItemMembers
             mem1 == ItemMembers'
  <2>1. Membership(s) = StateFor(M, mem)
    BY DEF MembershipInv, Exact
  <2>2. IsFiniteSet(M)
    BY FS_Subset DEF MembershipInv, KnownItems, Picked
  <2>3. N \ {id} = M \ {id}
    BY <1>2, <1>5 DEF Picked
  <2>t. id \notin N
    BY <1>2 DEF Picked
  <2>4. \A i \in M \ {id} : mem1[i] = mem[i]
    BY <1>2 DEF Picked, ItemMembers
  <2>5. selectors[s].matching = M
    BY <2>1 DEF Membership, StateFor
  <2>6. Contribution(id \in M, old) = Contribution(id \in M, mem[id])
    BY <1>1 DEF ItemMembers
  <2>7. Contribution(id \in N, mem1[id]) = {}
    BY <2>t DEF Contribution
  <2>8. after[s] = Reconcile(StateFor(M, mem), id, Contribution(id \in M, mem[id]), {}, FALSE)
    BY <2>1, <2>5, <2>6
  <2> HIDE DEF M, N, mem, mem1, old, after
  <2>9. Reconcile(StateFor(M, mem), id, Contribution(id \in M, mem[id]),
                  Contribution(id \in N, mem1[id]), id \in N) = StateFor(N, mem1)
    BY <2>2, <2>3, <2>4, ReconcileExact
  <2>10. (id \in N) = FALSE
    BY <2>t
  <2>11. after[s] = StateFor(N, mem1)
    BY <2>7, <2>8, <2>9, <2>10
  <2> QED BY <2>11 DEF N, mem1
<1>7. DOMAIN after = DOMAIN selectors
  OBVIOUS
<1> HIDE DEF after
<1> QED BY <1>1, <1>3, <1>4, <1>6, <1>7, SettleTakes DEF MembershipInv

LEMMA PickedIsFinite ==
    ASSUME KnownItems, NEW s
    PROVE  IsFiniteSet(Picked(s)) /\ Picked(s) \subseteq DOMAIN items
BY FS_Subset DEF KnownItems, Picked

(* Looking again at the items of one parent is enough once its labels are  *)
(* as `ps` gives them.                                                     *)
LEMMA ReevalExact ==
    ASSUME NEW p, NEW ps, MembershipInv, UNCHANGED items, ReevalParentChildren(p, ps),
           ps[p].items = Children(items, p),
           \A q : q # p => LabelsOf(ps, q) = LabelsOf(parents, q),
           \A q : LabelsOf(parents', q) = LabelsOf(ps, q), Referred(items, parents')
    PROVE  MembershipInv'
<1> DEFINE ids == ps[p].items
           before == [i \in DOMAIN items |-> items[i].members]
           after == [s \in DOMAIN selectors |-> Revisited(Membership(s), s, ids, before, ps)]
<1>1. Settle(after) /\ items' = items
  BY DEF ReevalParentChildren
<1>2. KnownItems' /\ Referred(items, parents)' /\ ItemMembers' = ItemMembers /\ before = ItemMembers
  BY <1>1 DEF MembershipInv, KnownItems, ItemMembers
<1>3. IsFiniteSet(ids) /\ ids \subseteq DOMAIN items
  BY FS_Subset DEF MembershipInv, KnownItems, Children
<1>4. ASSUME NEW i \in DOMAIN items
      PROVE  /\ EffectiveLabels(items[i], parents') = EffectiveLabels(items[i], ps)
             /\ i \notin ids => EffectiveLabels(items[i], ps) = EffectiveLabels(items[i], parents)
  <2>1. items[i].parents \in Seq(Parents)
    BY ItemsHaveParentLists DEF MembershipInv
  <2>2. i \notin ids => p \notin ToSet(items[i].parents)
    BY DEF Children
  <2> QED BY <2>1, <2>2, EffectiveSame
<1>5. ASSUME NEW s \in DOMAIN selectors
      PROVE  after[s] = StateFor(Picked(s)', ItemMembers')
  <2> DEFINE M == Picked(s)
             N == Picked(s)'
             mem == ItemMembers
             again == {i \in ids : SelectorMatches(SelectorOf[s], EffectiveLabels(items[i], ps))}
  <2>1. Membership(s) = StateFor(M, mem) /\ IsFiniteSet(M)
    BY PickedIsFinite DEF MembershipInv, Exact
  <2>2. \A i \in ids : mem[i] = items[i].members
    BY <1>3 DEF ItemMembers
  <2>3. \A i \in ids \cap M : before[i] = mem[i]
    BY <1>2
  <2>4. N = (M \ ids) \cup again
    BY <1>1, <1>3, <1>4 DEF Picked
  <2>5. after[s] = Revisited(StateFor(M, mem), s, ids, before, ps)
    BY <2>1
  <2> HIDE DEF M, N, mem, ids, before, after
  <2>6. Revisited(StateFor(M, mem), s, ids, before, ps) = StateFor((M \ ids) \cup again, mem)
    BY <1>3, <2>1, <2>2, <2>3, RevisitedExact
  <2> HIDE DEF again
  <2>7. after[s] = StateFor(N, mem)
    BY <2>4, <2>5, <2>6
  <2> QED BY <1>2, <2>7 DEF N, mem
<1>6. DOMAIN after = DOMAIN selectors
  OBVIOUS
<1> HIDE DEF after
<1> QED BY <1>1, <1>2, <1>5, <1>6, SettleTakes DEF MembershipInv

LEMMA UpdateParentExact ==
    ASSUME MembershipInv, NEW p, NEW labels, UpdateParent(p, labels)
    PROVE  MembershipInv'
<1> DEFINE ps == Over([q \in {p} |-> [labels |-> labels, items |-> ParentOf(parents, q).items]],
                      parents)
<1>1. parents' = ps /\ ReevalParentChildren(p, ps) /\ items' = items
  BY DEF UpdateParent
<1>2. ParentOf(parents, p).items = Children(items, p)
  <2>1. CASE p \in DOMAIN parents
    BY <2>1 DEF ParentOf, MembershipInv, Referred
  <2>2. CASE p \notin DOMAIN parents
    <3>1. Children(items, p) = {}
      BY <2>2 DEF MembershipInv, Referred, Children
    <3> QED BY <2>2, <3>1 DEF ParentOf
  <2> QED BY <2>1, <2>2
<1>3. /\ DOMAIN ps = DOMAIN parents \cup {p} /\ \A q \in DOMAIN parents \ {p} : ps[q] = parents[q]
      /\ ps[p] = [labels |-> labels, items |-> Children(items, p)]
  BY <1>2 DEF Over
<1> HIDE DEF ps
<1>4. Referred(items, ps)
  <2>1. ps[p] = [labels |-> ps[p].labels, items |-> Children(items, p)]
    BY <1>3
  <2> QED BY <1>3, <2>1 DEF Referred, MembershipInv
<1>5. \A q : q # p => LabelsOf(ps, q) = LabelsOf(parents, q)
  BY <1>3 DEF LabelsOf
<1>6. ps[p].items = Children(items, p)
  BY <1>3
<1> QED BY <1>1, <1>4, <1>5, <1>6, ReevalExact

LEMMA DeleteParentExact ==
    ASSUME MembershipInv, NEW p, DeleteParent(p)
    PROVE  MembershipInv'
<1> DEFINE ps == [parents EXCEPT ![p].labels = << >>]
<1>1. /\ p \in DOMAIN parents /\ ReevalParentChildren(p, ps) /\ items' = items
      /\ parents' = DiscardIfEmpty(ps, {p})
  BY DEF DeleteParent
<1>2. /\ DOMAIN ps = DOMAIN parents /\ \A q \in DOMAIN parents \ {p} : ps[q] = parents[q]
      /\ ps[p] = [labels |-> << >>, items |-> Children(items, p)]
  <2>1. parents[p] = [labels |-> parents[p].labels, items |-> Children(items, p)]
    BY <1>1 DEF MembershipInv, Referred
  <2>2. ps[p] = [parents[p] EXCEPT !.labels = << >>]
    BY <1>1
  <2>3. ps[p] = [labels |-> << >>, items |-> Children(items, p)]
    BY <2>1, <2>2
  <2> QED BY <2>3
<1> HIDE DEF ps
<1>3. Referred(items, ps)
  <2>1. ps[p] = [labels |-> ps[p].labels, items |-> Children(items, p)]
    BY <1>2
  <2> QED BY <1>2, <2>1 DEF Referred, MembershipInv
<1>4. \A q : q # p => LabelsOf(ps, q) = LabelsOf(parents, q)
  BY <1>2 DEF LabelsOf
<1>5. ps[p].items = Children(items, p)
  BY <1>2
<1>6. Referred(items, parents') /\ \A q : LabelsOf(parents', q) = LabelsOf(ps, q)
  BY <1>1, <1>3, DiscardKeeps
<1> QED BY <1>1, <1>4, <1>5, <1>6, ReevalExact

LEMMA AddSelectorExact ==
    ASSUME MembershipInv, NEW s \in DOMAIN SelectorOf, AddSelector(s)
    PROVE  MembershipInv'
<1> DEFINE start == [counts |-> EmptyBag, matching |-> {}, set |-> sets[s]]
           before == [i \in DOMAIN items |-> {}]
           ids == DOMAIN items
           after == Revisited(start, s, ids, before, parents)
           none == {}
           picked == {i \in ids : SelectorMatches(SelectorOf[s], EffectiveLabels(items[i], parents))}
<1>1. /\ s \notin DOMAIN selectors /\ items' = items /\ parents' = parents
      /\ selectors' = Over([r \in {s} |-> [counts |-> after.counts, matching |-> after.matching]],
                           selectors)
      /\ sets' = [sets EXCEPT ![s] = after.set]
  BY DEF AddSelector
<1>2. start = StateFor(none, ItemMembers)
  <2>1. sets[s] = {}
    BY <1>1 DEF MembershipInv, KnownSets
  <2>2. Offered(none, ItemMembers) = {}
    BY DEF Offered
  <2>3. EmptyBag = [m \in {} |-> 1]
    BY DEF EmptyBag, SetToBag
  <2>4. [m \in {} |-> 1] = [m \in {} |-> Cardinality(Offering(none, ItemMembers, m))]
    OBVIOUS
  <2> QED BY <2>1, <2>2, <2>3, <2>4 DEF StateFor
<1>3. after = StateFor(Picked(s), ItemMembers)
  <2>1. IsFiniteSet(ids) /\ IsFiniteSet(none)
    BY FS_EmptySet DEF MembershipInv, KnownItems
  <2>2. \A i \in ids : ItemMembers[i] = items[i].members
    BY DEF ItemMembers
  <2>3. \A i \in ids \cap none : before[i] = ItemMembers[i]
    OBVIOUS
  <2>4. (none \ ids) \cup picked = Picked(s)
    BY DEF Picked
  <2>5. after = Revisited(StateFor(none, ItemMembers), s, ids, before, parents)
    BY <1>2
  <2> HIDE DEF none, ids, before, after
  <2>6. Revisited(StateFor(none, ItemMembers), s, ids, before, parents)
          = StateFor((none \ ids) \cup picked, ItemMembers)
    BY <2>1, <2>2, <2>3, RevisitedExact
  <2> QED BY <2>4, <2>5, <2>6
<1> HIDE DEF after
<1>4. /\ DOMAIN selectors' = DOMAIN selectors \cup {s} /\ DOMAIN sets' = DOMAIN sets
      /\ \A r \in DOMAIN selectors : selectors'[r] = selectors[r]
      /\ \A r \in DOMAIN sets \ {s} : sets'[r] = sets[r]
      /\ selectors'[s] = [counts |-> after.counts, matching |-> after.matching]
      /\ sets'[s] = after.set
  BY <1>1 DEF Over, MembershipInv, KnownSets
<1>5. KnownItems' /\ Referred(items, parents)' /\ ItemMembers' = ItemMembers
      /\ \A r : Picked(r)' = Picked(r)
  BY <1>1 DEF MembershipInv, KnownItems, ItemMembers, Picked
<1>6. KnownSets'
  BY <1>4 DEF MembershipInv, KnownSets
<1>7. ASSUME NEW r \in DOMAIN selectors PROVE Membership(r)' = StateFor(Picked(r)', ItemMembers')
  <2>1. Membership(r)' = Membership(r)
    BY <1>1, <1>4 DEF Membership, MembershipInv, KnownSets
  <2>2. Membership(r) = StateFor(Picked(r), ItemMembers)
    BY DEF MembershipInv, Exact
  <2> QED BY <1>5, <2>1, <2>2
<1>8. Membership(s)' = StateFor(Picked(s)', ItemMembers')
  <2>1. Membership(s)' = [counts |-> after.counts, matching |-> after.matching,
                          set |-> after.set]
    BY <1>4 DEF Membership
  <2>2. Membership(s)' = StateFor(Picked(s), ItemMembers)
    BY <1>3, <2>1 DEF StateFor
  <2> QED BY <1>5, <2>2
<1> QED BY <1>4, <1>5, <1>6, <1>7, <1>8 DEF MembershipInv, Exact

LEMMA RemoveSelectorExact ==
    ASSUME MembershipInv, NEW s \in DOMAIN SelectorOf, RemoveSelector(s)
    PROVE  MembershipInv'
<1>1. /\ s \in DOMAIN selectors /\ items' = items /\ parents' = parents
      /\ selectors' = [r \in DOMAIN selectors \ {s} |-> selectors[r]]
      /\ sets' = [sets EXCEPT ![s] = @ \ BagToSet(selectors[s].counts)]
  BY DEF RemoveSelector
<1>2. sets[s] \ BagToSet(selectors[s].counts) = {}
  <2>1. Membership(s) = StateFor(Picked(s), ItemMembers)
    BY <1>1 DEF MembershipInv, Exact
  <2>2. /\ sets[s] = Offered(Picked(s), ItemMembers)
        /\ DOMAIN selectors[s].counts = Offered(Picked(s), ItemMembers)
    BY <2>1 DEF Membership, StateFor
  <2> QED BY <2>2 DEF BagToSet
<1>3. /\ DOMAIN selectors' = DOMAIN selectors \ {s} /\ DOMAIN sets' = DOMAIN sets
      /\ \A r \in DOMAIN selectors \ {s} : selectors'[r] = selectors[r]
      /\ \A r \in DOMAIN sets \ {s} : sets'[r] = sets[r]
      /\ sets'[s] = {}
  BY <1>1, <1>2 DEF MembershipInv, KnownSets
<1>4. KnownItems' /\ Referred(items, parents)' /\ ItemMembers' = ItemMembers
      /\ \A r : Picked(r)' = Picked(r)
  BY <1>1 DEF MembershipInv, KnownItems, ItemMembers, Picked
<1>5. KnownSets'
  BY <1>3 DEF MembershipInv, KnownSets
<1>6. ASSUME NEW r \in DOMAIN selectors \ {s}
      PROVE  Membership(r)' = StateFor(Picked(r)', ItemMembers')
  <2>1. Membership(r)' = Membership(r)
    BY <1>3 DEF Membership, MembershipInv, KnownSets
  <2>2. Membership(r) = StateFor(Picked(r), ItemMembers)
    BY DEF MembershipInv, Exact
  <2> QED BY <1>4, <2>1, <2>2
<1> QED BY <1>3, <1>4, <1>5, <1>6 DEF MembershipInv, Exact

(***************************************************************************)
(* The index invariant holds in every state: whatever calls reach          *)
(* MembershipIndex, in whatever order, the parents refer back to the items *)
(* that name them, and each selector counts, for each member, the items it *)
(* now selects that offer it.                                              *)
(***************************************************************************)
THEOREM MembershipInvariant == IndexSpec => []MembershipInv
<1>1. IndexInit => MembershipInv
  BY MembershipInitial
<1>2. MembershipInv /\ [IndexNext]_indexVars => MembershipInv'
  <2> SUFFICES ASSUME MembershipInv, [IndexNext]_indexVars PROVE MembershipInv'
    OBVIOUS
  <2>1. ASSUME NEW id \in Items, DeleteItem(id) PROVE MembershipInv'
    BY <2>1, DeleteItemExact
  <2>2. ASSUME NEW id \in Items, NEW u \in ItemUpdates, UpdateItem(id, u) PROVE MembershipInv'
    BY <2>2, UpdateItemExact
  <2>3. ASSUME NEW p \in Parents, DeleteParent(p) PROVE MembershipInv'
    BY <2>3, DeleteParentExact
  <2>4. ASSUME NEW p \in Parents, NEW l \in ParentLabels, UpdateParent(p, l) PROVE MembershipInv'
    BY <2>4, UpdateParentExact
  <2>5. ASSUME NEW s \in DOMAIN SelectorOf, AddSelector(s) PROVE MembershipInv'
    BY <2>5, AddSelectorExact
  <2>6. ASSUME NEW s \in DOMAIN SelectorOf, RemoveSelector(s) PROVE MembershipInv'
    BY <2>6, RemoveSelectorExact
  <2>7. CASE UNCHANGED indexVars
    BY <2>7 DEF indexVars, MembershipInv, KnownItems, Referred, KnownSets, Exact, Picked,
                ItemMembers, Membership
  <2> QED BY <2>1, <2>2, <2>3, <2>4, <2>5, <2>6, <2>7 DEF IndexNext
<1> QED BY <1>1, <1>2, PTL DEF IndexSpec

(* The merge of the loop is the meaning of the labels, key by key.         *)
LEMMA EffectiveIsMeant ==
    ASSUME NEW item, item.parents \in Seq(Parents)
    PROVE  EffectiveLabels(item, parents) = Meant(item)
<1> DEFINE n == Len(item.parents)
           given == Given(item, parents)
           inherited == PassedOn(given, 1, n)
           carriers(k) == {i \in DOMAIN item.parents :
                              /\ item.parents[i] \in DOMAIN parents
                              /\ k \in DOMAIN parents[item.parents[i]].labels}
           first(k) == CHOOSE i \in carriers(k) : \A j \in carriers(k) : i <= j
           keys == DOMAIN item.labels \cup
                   UNION {DOMAIN parents[p].labels : p \in DOMAIN parents \cap ToSet(item.parents)}
           meant == [k \in keys |-> IF k \in DOMAIN item.labels THEN item.labels[k]
                                    ELSE parents[item.parents[first(k)]].labels[k]]
<1>1. n \in Nat /\ DOMAIN item.parents = 1 .. n
      /\ \A i \in 1 .. n : given[i] = LabelsOf(parents, item.parents[i])
  BY DEF Given
<1>2. Meant(item) = meant
  BY DEF Meant
<1>3. EffectiveLabels(item, parents) = Over(item.labels, inherited)
  BY EffectiveExact
<1>4. DOMAIN inherited = Carried(given, 1, n)
      /\ \A k \in Carried(given, 1, n) : inherited[k] = given[FirstCarrier(given, 1, n, k)][k]
  BY DEF PassedOn
<1> HIDE DEF n, given, inherited
<1>5. ASSUME NEW k, NEW i \in 1 .. n
      PROVE  /\ k \in DOMAIN given[i] <=> i \in carriers(k)
             /\ i \in carriers(k) => given[i] = parents[item.parents[i]].labels
  BY <1>1 DEF LabelsOf
<1>6. ASSUME NEW k PROVE Carriers(given, 1, n, k) = carriers(k)
  <2>1. carriers(k) \subseteq 1 .. n
    BY <1>1
  <2> HIDE DEF carriers
  <2> QED BY <1>5, <2>1 DEF Carriers
<1>7. ASSUME NEW k PROVE FirstCarrier(given, 1, n, k) = first(k)
  <2> HIDE DEF carriers
  <2> QED BY <1>6 DEF FirstCarrier
<1>8. ASSUME NEW k \in Carried(given, 1, n)
      PROVE  first(k) \in carriers(k) /\ first(k) \in 1 .. n
  <2>1. \E i \in carriers(k) : \A j \in carriers(k) : i <= j
    <3> HIDE DEF carriers
    <3>1. \E i \in Carriers(given, 1, n, k) : \A j \in Carriers(given, 1, n, k) : i <= j
      BY <1>1, SomeIsFirst
    <3> QED BY <1>6, <3>1
  <2>2. first(k) \in carriers(k)
    <3> HIDE DEF carriers
    <3> QED BY <2>1
  <2> QED BY <1>1, <2>2
<1>9. DOMAIN item.labels \cup Carried(given, 1, n) = keys
  <2>1. ASSUME NEW k
        PROVE  k \in Carried(given, 1, n) <=>
                  \E p \in DOMAIN parents \cap ToSet(item.parents) : k \in DOMAIN parents[p].labels
    BY <1>1, <1>5 DEF Carried, ToSet
  <2> QED BY <2>1
<1>10. ASSUME NEW k \in Carried(given, 1, n)
       PROVE  inherited[k] = parents[item.parents[first(k)]].labels[k]
  <2> HIDE DEF carriers, first
  <2> QED BY <1>4, <1>5, <1>7, <1>8
<1>11. Over(item.labels, inherited)
         = [k \in keys |-> IF k \in DOMAIN item.labels THEN item.labels[k] ELSE inherited[k]]
  BY <1>4, <1>9 DEF Over
<1>12. \A k \in keys : k \notin DOMAIN item.labels => k \in Carried(given, 1, n)
  BY <1>9
<1> HIDE DEF keys, first, carriers
<1>13. [k \in keys |-> IF k \in DOMAIN item.labels THEN item.labels[k] ELSE inherited[k]] = meant
  BY <1>10, <1>12
<1> HIDE DEF meant
<1> QED BY <1>2, <1>3, <1>11, <1>13

(***************************************************************************)
(* After any sequence of calls of update_item, delete_item, update_parent, *)
(* delete_parent, add_selector and remove_selector, the consumer of the    *)
(* deltas holds for each registered IP set exactly the members of the      *)
(* items whose effective labels its selector matches, whatever the         *)
(* selectors are, and nothing for the others.                              *)
(***************************************************************************)
THEOREM MembershipIsExact == IndexSpec => []MembersExact
<1>1. MembershipInv => MembersExact
  <2> SUFFICES ASSUME MembershipInv, NEW s \in DOMAIN selectors
               PROVE  sets[s] = UNION {items[i].members : i \in
                          {i \in DOMAIN items : SelectorMatches(SelectorOf[s], Meant(items[i]))}}
    BY DEF MembershipInv, KnownSets, MembersExact
  <2> DEFINE meant == {i \in DOMAIN items : SelectorMatches(SelectorOf[s], Meant(items[i]))}
  <2>1. \A i \in DOMAIN items : EffectiveLabels(items[i], parents) = Meant(items[i])
    BY ItemsHaveParentLists, EffectiveIsMeant DEF MembershipInv
  <2>2. Picked(s) = meant
    BY <2>1 DEF Picked
  <2>3. Membership(s) = StateFor(Picked(s), ItemMembers)
    BY DEF MembershipInv, Exact
  <2>4. sets[s] = Offered(Picked(s), ItemMembers)
    BY <2>3 DEF Membership, StateFor
  <2>5. Offered(Picked(s), ItemMembers) = UNION {items[i].members : i \in Picked(s)}
    BY DEF Offered, ItemMembers, Picked
  <2> HIDE DEF meant
  <2>6. sets[s] = UNION {items[i].members : i \in meant}
    BY <2>2, <2>4, <2>5
  <2> QED BY <2>6 DEF meant
<1> QED BY <1>1, MembershipInvariant, PTL
=============================================================================
