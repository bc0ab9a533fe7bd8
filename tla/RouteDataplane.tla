--------------------------- MODULE RouteDataplane ---------------------------
(***************************************************************************)
(* Felix's dataplane loop (felix/src/dataplane.rs: throttle, first apply   *)
(* held back until InSync, retry with backoff) driving the route manager   *)
(* (route_manager.rs), which programs the difference between the desired   *)
(* routes and those it remembers programming.                              *)
(*                                                                         *)
(* Time is the number of ticks left until the next apply may run. Kernel   *)
(* operations are steps of their own and may fail; a failed one changed    *)
(* nothing. The agent may be restarted at any time: what it remembers is   *)
(* lost, the kernel's table is not. Other managers only matter by failing. *)
(***************************************************************************)
EXTENDS DeltaTracker, Naturals, FiniteSetsExt

CONSTANTS
    Dsts,           \* destination strings of messages
    Cidrs, CidrOf,  \* what they parse to: a prefix, or Malformed
    Malformed,
    Gateways, Bad,  \* next hops; a gateway string that is no address
    None,           \* a route without gateway: a local workload
    MinInterval,    \* ticks between successful applies
    MaxMessages, MaxFaults, MaxRestarts  \* bounds

ASSUME DstsAssumption ==
    /\ CidrOf \in [Dsts -> Cidrs \cup {Malformed}]
    /\ Malformed \notin Cidrs
    /\ {Bad, None, Absent} \cap Gateways = {}
    /\ Absent \notin {Bad, None}
ASSUME BoundsAssumption ==
    /\ MinInterval \in Nat \ {0}
    /\ MaxMessages \in Nat /\ MaxFaults \in Nat /\ MaxRestarts \in Nat

VARIABLES
    tracker,        \* RouteManager::routes: destination string -> gateway
    kernel,         \* main table: prefix -> gateway or Absent
    dirty, datastore_in_sync, in_sync_reported, force,
    failures,       \* consecutive failed rounds, up to the largest backoff
    wait,           \* ticks until next_eligible
    round,          \* a round in progress
    updates, deletions,  \* what the round has left to program
    stale,          \* history: routes in the kernel that no tracker knows
    aliased,        \* history: prefixes named by two tracked strings
    messages, faults, restarts

state == <<dirty, datastore_in_sync, in_sync_reported, force, failures, wait>>
work == <<round, updates, deletions>>
bounds == <<messages, faults, restarts>>
vars == <<tracker, kernel, state, work, stale, aliased, bounds>>

Values == Gateways \cup {Bad, None}

Fresh ==
    /\ tracker' = EmptyTracker(Dsts)
    /\ dirty' = FALSE /\ datastore_in_sync' = FALSE
    /\ in_sync_reported' = FALSE /\ force' = FALSE
    /\ failures' = 0 /\ wait' = 0
    /\ round' = FALSE /\ updates' = {} /\ deletions' = {}

Init ==
    /\ tracker = EmptyTracker(Dsts)
    /\ kernel = [c \in Cidrs |-> Absent]
    /\ dirty = FALSE /\ datastore_in_sync = FALSE
    /\ in_sync_reported = FALSE /\ force = FALSE
    /\ failures = 0 /\ wait = 0
    /\ round = FALSE /\ updates = {} /\ deletions = {}
    /\ stale = {} /\ aliased = {}
    /\ messages = 0 /\ faults = 0 /\ restarts = 0

-----------------------------------------------------------------------------
(* run: a message or the ticker wakes the loop, then a round may start.    *)

ShouldApply == dirty' /\ datastore_in_sync' /\ (force' \/ wait' = 0)

(* apply_all begins: the pending work is copied. A message has no other    *)
(* effect on dirty, so the flag is cleared at the end of the round.        *)
Wake ==
    IF ShouldApply
    THEN /\ round' = TRUE
         /\ updates' = PendingUpdates(tracker')
         /\ deletions' = PendingDeletions(tracker')
    ELSE UNCHANGED work

Names(t, c) == {d \in Dsts : CidrOf[d] = c /\ (t.desired[d] # Absent
                                              \/ t.dataplane[d] # Absent)}

(* dispatch. Ticks may have passed. *)
Absorb(t, insync) ==
    /\ ~ round /\ messages < MaxMessages
    /\ messages' = messages + 1
    /\ tracker' = t
    /\ aliased' = aliased \cup {c \in Cidrs : \E d, e \in Names(t, c) : d # e}
    /\ dirty' = TRUE
    /\ datastore_in_sync' = (datastore_in_sync \/ insync)
    /\ force' = (force \/ insync)
    /\ wait' \in {wait, IF wait = 0 THEN 0 ELSE wait - 1}
    /\ UNCHANGED <<kernel, in_sync_reported, failures, stale, faults, restarts>>
    /\ Wake

RouteUpdate(d, v) == Absorb(SetDesired(tracker, d, v), FALSE)
RouteRemove(d) == Absorb(RemoveDesired(tracker, d), FALSE)
InSyncMessage == Absorb(tracker, TRUE)

TickerFires ==
    /\ ~ round
    /\ wait' = IF wait = 0 THEN 0 ELSE wait - 1
    /\ UNCHANGED <<tracker, kernel, dirty, datastore_in_sync, in_sync_reported,
                   force, failures, stale, aliased, bounds>>
    /\ Wake

-----------------------------------------------------------------------------
(* complete_deferred_work: updates, then deletions, in the order of a hash *)
(* map; what was done is confirmed one by one.                             *)

Confirm(d) ==
    /\ tracker' = ConfirmProgrammed(tracker, d)
    /\ updates' = updates \ {d}
    /\ deletions' = deletions \ {d}
    /\ UNCHANGED <<round, state, aliased, bounds>>

(* What cannot be parsed is confirmed, not programmed. *)
DropMalformed(d) ==
    /\ round /\ d \in updates \cup (IF updates = {} THEN deletions ELSE {})
    /\ CidrOf[d] = Malformed
    /\ Confirm(d)
    /\ UNCHANGED <<kernel, stale>>

(* add_route replaces; without a gateway it reports success and leaves the *)
(* kernel as it is, also when that holds a route from before.              *)
AddRoute(d) ==
    LET c == CidrOf[d]  gateway == tracker.desired[d]
    IN  /\ round /\ d \in updates /\ c # Malformed /\ gateway # Bad
        /\ IF gateway = None
           THEN /\ UNCHANGED kernel
                /\ stale' = stale \cup {x \in {c} : kernel[x] # Absent}
           ELSE /\ kernel' = [kernel EXCEPT ![c] = gateway]
                /\ stale' = stale \ {c}
        /\ Confirm(d)

(* del_route: a route that is not there is no error. *)
DelRoute(d) ==
    /\ round /\ updates = {} /\ d \in deletions /\ CidrOf[d] # Malformed
    /\ kernel' = [kernel EXCEPT ![CidrOf[d]] = Absent]
    /\ stale' = stale \ {CidrOf[d]}
    /\ Confirm(d)

(* 2^n ticks, at most 10: from the fifth failure on. *)
Backoff(n) == Min({2 ^ n, 10})

NoRetry(failed) ==  \* mutant: a failed round leaves nothing owed
    /\ round' = FALSE /\ updates' = {} /\ deletions' = {}
    /\ force' = FALSE /\ dirty' = FALSE
    /\ failures' = IF failed THEN Min({failures + 1, 4}) ELSE 0
    /\ wait' = IF failed THEN Backoff(failures) ELSE MinInterval
    /\ in_sync_reported' = (in_sync_reported \/ (~ failed /\ datastore_in_sync))
    /\ UNCHANGED <<tracker, kernel, datastore_in_sync, stale, aliased, messages,
                   restarts>>

EndApply(failed) ==
    /\ round' = FALSE /\ updates' = {} /\ deletions' = {}
    /\ force' = FALSE
    /\ dirty' = failed
    /\ failures' = IF failed THEN Min({failures + 1, 4}) ELSE 0
    /\ wait' = IF failed THEN Backoff(failures) ELSE MinInterval
    /\ in_sync_reported' = (in_sync_reported \/ (~ failed /\ datastore_in_sync))
    /\ UNCHANGED <<tracker, kernel, datastore_in_sync, stale, aliased, messages,
                   restarts>>

RoundDone ==
    /\ round /\ updates = {} /\ deletions = {}
    /\ EndApply(FALSE)
    /\ UNCHANGED faults

(* An operation fails, or another manager. *)
RoundFails ==
    /\ round /\ faults < MaxFaults
    /\ faults' = faults + 1
    /\ EndApply(TRUE)

(* A gateway that is no address fails each time it is tried, and what the  *)
(* map lists after it is not tried.                                        *)
BadGateway(d) ==
    /\ round /\ d \in updates /\ CidrOf[d] # Malformed
    /\ tracker.desired[d] = Bad
    /\ EndApply(TRUE)
    /\ UNCHANGED faults

RoundStep ==
    \/ \E d \in Dsts : DropMalformed(d) \/ AddRoute(d) \/ DelRoute(d) \/ BadGateway(d)
    \/ RoundDone

Restart ==
    /\ restarts < MaxRestarts
    /\ restarts' = restarts + 1
    /\ stale' = {c \in Cidrs : kernel[c] # Absent}
    /\ aliased' = {}
    /\ Fresh
    /\ UNCHANGED <<kernel, messages, faults>>

Next ==
    \/ \E d \in Dsts : RouteRemove(d) \/ \E v \in Values : RouteUpdate(d, v)
    \/ InSyncMessage \/ TickerFires \/ RoundStep \/ RoundFails \/ Restart

(* The loop is a task that always has its timer; kernel calls return.      *)
Fairness == WF_vars(TickerFires) /\ WF_vars(RoundStep)

Spec == Init /\ [][Next]_vars /\ Fairness

-----------------------------------------------------------------------------
Wanted(c) ==
    LET gateways == {tracker.desired[d] : d \in {e \in Dsts : CidrOf[e] = c}}
    IN  IF gateways \cap Gateways = {} THEN Absent
        ELSE CHOOSE g \in gateways \cap Gateways : TRUE

(* Routes outside the known exceptions: one the agent found in the kernel  *)
(* when it started or left there for a route without gateway, and a prefix *)
(* spelled in two ways.                                                    *)
Programmed == \A c \in Cidrs \ (stale \cup aliased) : kernel[c] = Wanted(c)

(* When nothing is owed the kernel has the desired routes, through failed  *)
(* operations, changes that are undone before they are programmed, and     *)
(* restarts ("pending_count ... zero once fully reconciled",               *)
(* route_manager.rs:121-125; the retry of dataplane.rs:207-235).           *)
CleanMeansProgrammed == ~ dirty /\ ~ round => Programmed

(* Once messages and failures end, the kernel gets the desired routes and  *)
(* keeps them, unless a gateway that is no address is still desired: its   *)
(* round fails each time (route_manager.rs:177-180).                       *)
RoutesConverge ==
    <>[](\/ ~ datastore_in_sync
         \/ \E d \in Dsts : tracker.desired[d] = Bad
         \/ Programmed)

=============================================================================
