----------------------------- MODULE LabelIndex ----------------------------
(***************************************************************************)
(* The incremental membership index of crates/calc/src/labelindex.rs and   *)
(* a consumer that applies the deltas of each call in their order.         *)
(*                                                                         *)
(* An item is [labels, parents, members], a parent [labels, items] and a   *)
(* selector [counts, matching], its reference counts a bag of members.     *)
(* An action is one call.  An IP set is registered only while it is not    *)
(* registered (active_rules.rs:534 counts its referrers).                  *)
(***************************************************************************)
EXTENDS Integers, FiniteSets, Bags, SequencesExt

CONSTANTS Items, Parents,
          SelectorMatches(_, _),  \* whether a selector selects an item with such labels
          SelectorOf,             \* [IP set ids -> selectors]
          ItemUpdates,            \* [labels, parents, members] an item may take
          ParentLabels            \* labels a parent may take

VARIABLES items, parents, selectors,
          sets                  \* what the consumer holds for each IP set

indexVars == <<items, parents, selectors, sets>>

\* The parents of an item are named one after the other.
ParentListsAssumption == \A u \in ItemUpdates : u.parents \in Seq(Parents)
ASSUME ParentListsAssumption

\* The entries of `f` are inserted into `g`.
Over(f, g) == [x \in DOMAIN f \cup DOMAIN g |-> IF x \in DOMAIN f THEN f[x] ELSE g[x]]

\* Parents are merged last to first, so that earlier ones overwrite; own labels win.
EffectiveLabels(item, ps) ==
    LET n == Len(item.parents)
        labelsOf(p) == IF p \in DOMAIN ps THEN ps[p].labels ELSE << >>
        merged[k \in 0 .. n] == IF k = 0 THEN << >>
                                ELSE Over(labelsOf(item.parents[n + 1 - k]), merged[k - 1])
    IN  Over(item.labels, merged[n])

-----------------------------------------------------------------------------
(***************************************************************************)
(* One item's contribution to one IP set goes from `old` to `new`.  What   *)
(* the call returns is applied to `set`: a member leaves at its last       *)
(* contribution and joins at its first.                                    *)
(***************************************************************************)
Reconcile(st, id, old, new, matching) ==
    LET joined == new \ old
        remaining == st.counts (-) SetToBag(old \ new)
        removed == BagToSet(st.counts) \ BagToSet(remaining)
        added == joined \ BagToSet(remaining)
    IN  [counts |-> remaining (+) SetToBag(joined),
         matching |-> IF matching THEN st.matching \cup {id} ELSE st.matching \ {id},
         set |-> (st.set \ removed) \cup added]

Contribution(matching, members) == IF matching THEN members ELSE {}

\* The index and the consumer after an item's labels and members are as given.
Reevaluated(st, s, id, before, after, labels) ==
    LET now == SelectorMatches(SelectorOf[s], labels)
    IN  Reconcile(st, id, Contribution(id \in st.matching, before),
                  Contribution(now, after), now)

\* The same for the items `ids`, in turn, `before` being what each offered.
Revisited(st, s, ids, before, ps) ==
    LET order == SetToSeq(ids)
        visit(last, id) == Reevaluated(last, s, id, before[id], items[id].members,
                                       EffectiveLabels(items[id], ps))
        after[n \in 0 .. Len(order)] == IF n = 0 THEN st ELSE visit(after[n - 1], order[n])
    IN  after[Len(order)]

Membership(s) == [counts |-> selectors[s].counts, matching |-> selectors[s].matching,
            set |-> sets[s]]

\* Every registered selector takes the state that `after` gives it.
Settle(after) ==
    /\ selectors' = [s \in DOMAIN selectors |-> [counts |-> after[s].counts,
                                                 matching |-> after[s].matching]]
    /\ sets' = [s \in DOMAIN sets |-> IF s \in DOMAIN selectors THEN after[s].set ELSE sets[s]]

-----------------------------------------------------------------------------
(* The references from parents to items. *)

ParentOf(ps, p) == IF p \in DOMAIN ps THEN ps[p] ELSE [labels |-> << >>, items |-> {}]

\* Those of `touched` that have neither labels nor items are dropped.
DiscardIfEmpty(ps, touched) ==
    LET empty(p) == ps[p].items = {} /\ ps[p].labels = << >>
    IN  [p \in {p \in DOMAIN ps : p \in touched => ~ empty(p)} |-> ps[p]]

\* MUTANT of UpdateParentRefs.  The former parents are dropped last, also those kept.
DropsKept(ps, id, old, new) ==
    LET refers(p) == (ParentOf(ps, p).items \cup (IF p \in new THEN {id} ELSE {}))
                         \ (IF p \in old THEN {id} ELSE {})
    IN  DiscardIfEmpty([p \in DOMAIN ps \cup new |->
                           [labels |-> ParentOf(ps, p).labels, items |-> refers(p)]], old)

UpdateParentRefs(ps, id, old, new) ==
    LET refers(p) == (ParentOf(ps, p).items \ (IF p \in old THEN {id} ELSE {}))
                         \cup (IF p \in new THEN {id} ELSE {})
    IN  DiscardIfEmpty([p \in DOMAIN ps \cup new |->
                           [labels |-> ParentOf(ps, p).labels, items |-> refers(p)]], old \ new)

-----------------------------------------------------------------------------
(* The calls. *)

UpdateItem(id, update) ==
    LET old == IF id \in DOMAIN items THEN items[id]
               ELSE [labels |-> << >>, parents |-> << >>, members |-> {}]
        ps == UpdateParentRefs(parents, id, ToSet(old.parents), ToSet(update.parents))
    IN  /\ parents' = ps
        /\ items' = Over([i \in {id} |-> update], items)
        /\ Settle([s \in DOMAIN selectors |->
                      Reevaluated(Membership(s), s, id, old.members, update.members,
                                  EffectiveLabels(update, ps))])

DeleteItem(id) ==
    /\ id \in DOMAIN items
    /\ items' = [i \in DOMAIN items \ {id} |-> items[i]]
    /\ parents' = UpdateParentRefs(parents, id, ToSet(items[id].parents), {})
    /\ LET before(s) == Contribution(id \in selectors[s].matching, items[id].members)
       IN  Settle([s \in DOMAIN selectors |-> Reconcile(Membership(s), id, before(s), {}, FALSE)])

\* Every item that refers to the parent is looked at again.
ReevalParentChildren(p, ps) ==
    LET before == [i \in DOMAIN items |-> items[i].members]
    IN  Settle([s \in DOMAIN selectors |-> Revisited(Membership(s), s, ps[p].items, before, ps)])

UpdateParent(p, labels) ==
    LET updated == [labels |-> labels, items |-> ParentOf(parents, p).items]
        ps == Over([q \in {p} |-> updated], parents)
    IN  parents' = ps /\ ReevalParentChildren(p, ps) /\ UNCHANGED items

DeleteParent(p) ==
    /\ p \in DOMAIN parents
    /\ LET ps == [parents EXCEPT ![p].labels = << >>]
       IN  ReevalParentChildren(p, ps) /\ parents' = DiscardIfEmpty(ps, {p})
    /\ UNCHANGED items

AddSelector(s) ==
    /\ s \notin DOMAIN selectors
    /\ LET start == [counts |-> EmptyBag, matching |-> {}, set |-> sets[s]]
           before == [i \in DOMAIN items |-> {}]
           after == Revisited(start, s, DOMAIN items, before, parents)
           added == [counts |-> after.counts, matching |-> after.matching]
       IN  /\ selectors' = Over([r \in {s} |-> added], selectors)
           /\ sets' = [sets EXCEPT ![s] = after.set]
    /\ UNCHANGED <<items, parents>>

RemoveSelector(s) ==
    /\ s \in DOMAIN selectors
    /\ selectors' = [r \in DOMAIN selectors \ {s} |-> selectors[r]]
    /\ sets' = [sets EXCEPT ![s] = @ \ BagToSet(selectors[s].counts)]
    /\ UNCHANGED <<items, parents>>

IndexInit ==
    /\ items = << >> /\ parents = << >> /\ selectors = << >>
    /\ sets = [s \in DOMAIN SelectorOf |-> {}]

IndexNext ==
    \/ \E id \in Items : DeleteItem(id) \/ \E u \in ItemUpdates : UpdateItem(id, u)
    \/ \E p \in Parents : DeleteParent(p) \/ \E l \in ParentLabels : UpdateParent(p, l)
    \/ \E s \in DOMAIN SelectorOf : AddSelector(s) \/ RemoveSelector(s)

IndexSpec == IndexInit /\ [][IndexNext]_indexVars

-----------------------------------------------------------------------------
(* The labels of an item read off its own and its parents', label by label. *)
Meant(item) ==
    LET carriers(k) == {i \in DOMAIN item.parents :
                           /\ item.parents[i] \in DOMAIN parents
                           /\ k \in DOMAIN parents[item.parents[i]].labels}
        keys == DOMAIN item.labels \cup
                UNION {DOMAIN parents[p].labels : p \in DOMAIN parents \cap ToSet(item.parents)}
    IN  [k \in keys |->
            IF k \in DOMAIN item.labels THEN item.labels[k]
            ELSE LET first == CHOOSE i \in carriers(k) : \A j \in carriers(k) : i <= j
                 IN  parents[item.parents[first]].labels[k]]

(***************************************************************************)
(* After any sequence of calls the consumer of the deltas holds, for each  *)
(* registered IP set, the members of the items that its selector matches,  *)
(* and nothing for the others: no member lost to a change that touched     *)
(* another contributor, none kept after its last one, and no change of a   *)
(* parent's labels missed by an item under it.                             *)
(***************************************************************************)
MembersExact ==
    \A s \in DOMAIN SelectorOf :
        sets[s] = IF s \notin DOMAIN selectors THEN {}
                  ELSE UNION {items[i].members : i \in
                          {i \in DOMAIN items : SelectorMatches(SelectorOf[s], Meant(items[i]))}}
=============================================================================
