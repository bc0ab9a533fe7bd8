---------------------------- MODULE DeltaTracker ----------------------------
(***************************************************************************)
(* The delta tracker of crates/reconcile: what a dataplane should hold     *)
(* and what was programmed into it, per key, and the work between the two. *)
(* A tracker is a record of two functions on the same keys; a key without  *)
(* an entry maps to Absent. SetDeltaTracker is the case of one value.      *)
(***************************************************************************)

CONSTANT Absent

EmptyTracker(K) ==
    [desired |-> [k \in K |-> Absent], dataplane |-> [k \in K |-> Absent]]

SetDesired(t, k, v) == [t EXCEPT !.desired[k] = v]
RemoveDesired(t, k) == SetDesired(t, k, Absent)
SetDataplane(t, k, v) == [t EXCEPT !.dataplane[k] = v]
RemoveDataplane(t, k) == SetDataplane(t, k, Absent)
ConfirmProgrammed(t, k) == SetDataplane(t, k, t.desired[k])

NewKeysOnly(t) ==  \* mutant: a changed value is not an update
    {k \in DOMAIN t.desired : t.desired[k] # Absent /\ t.dataplane[k] = Absent}

PendingUpdates(t) ==
    {k \in DOMAIN t.desired :
        t.desired[k] # Absent /\ t.dataplane[k] # t.desired[k]}

PendingDeletions(t) ==
    {k \in DOMAIN t.desired :
        t.dataplane[k] # Absent /\ t.desired[k] = Absent}

InSync(t) == PendingUpdates(t) = {} /\ PendingDeletions(t) = {}

=============================================================================
