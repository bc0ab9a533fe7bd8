------------------------ MODULE RouteDataplaneProofs ------------------------
(***************************************************************************)
(* Machine-checked facts about the delta tracker and about the route       *)
(* manager that works from it, for any destinations, prefixes and gateways *)
(* and without the bounds on messages, faults and restarts.                *)
(***************************************************************************)
EXTENDS RouteDataplane, TLAPS

Tracker == [desired : [Dsts -> Values \cup {Absent}],
            dataplane : [Dsts -> Values \cup {Absent}]]

RouteTypes ==
    /\ tracker \in Tracker
    /\ kernel \in [Cidrs -> Gateways \cup {Absent}]
    /\ updates \subseteq Dsts /\ deletions \subseteq Dsts
    /\ stale \subseteq Cidrs /\ aliased \subseteq Cidrs

(* A prefix outside `aliased` has one name at most. *)
NamedOnce == \A c \in Cidrs \ aliased : \A d, e \in Names(tracker, c) : d = e

(* What the tracker remembers programming is what the kernel has. *)
Remembered(c) ==
    /\ \A d \in Dsts : CidrOf[d] = c /\ tracker.dataplane[d] \in Gateways
                          => kernel[c] = tracker.dataplane[d]
    /\ kernel[c] # Absent =>
          \E d \in Dsts : CidrOf[d] = c /\ tracker.dataplane[d] = kernel[c]
KernelRemembered == \A c \in Cidrs \ (stale \cup aliased) : Remembered(c)

(* A round has what is pending left to do, and what is pending is owed. *)
Owed ==
    /\ round => updates = PendingUpdates(tracker) /\ deletions = PendingDeletions(tracker)
    /\ ~ round /\ ~ dirty => InSync(tracker)

RouteInv == RouteTypes /\ NamedOnce /\ KernelRemembered /\ Owed

-----------------------------------------------------------------------------
(* The tracker. *)

LEMMA EmptyIsInSync ==
    EmptyTracker(Dsts) \in Tracker /\ InSync(EmptyTracker(Dsts))
BY DEF EmptyTracker, Tracker, InSync, PendingUpdates, PendingDeletions

LEMMA Desiring ==
    ASSUME NEW t \in Tracker, NEW d \in Dsts, NEW v \in Values \cup {Absent}
    PROVE  SetDesired(t, d, v) \in Tracker /\ SetDesired(t, d, v).dataplane = t.dataplane
BY DEF Tracker, SetDesired

(* Confirming an item of pending work makes the two sides agree on it and  *)
(* takes it, and nothing else, off the list.                               *)
LEMMA Confirming ==
    ASSUME NEW t \in Tracker, NEW d \in PendingUpdates(t) \cup PendingDeletions(t)
    PROVE  LET u == ConfirmProgrammed(t, d)
           IN  /\ u \in Tracker /\ u.desired = t.desired
               /\ u.dataplane = [t.dataplane EXCEPT ![d] = t.desired[d]]
               /\ PendingUpdates(u) = PendingUpdates(t) \ {d}
               /\ PendingDeletions(u) = PendingDeletions(t) \ {d}
<1> DEFINE u == ConfirmProgrammed(t, d)
<1>1. d \in Dsts
  BY DEF Tracker, PendingUpdates, PendingDeletions
<1>2. /\ u \in Tracker /\ u.desired = t.desired
      /\ u.dataplane = [t.dataplane EXCEPT ![d] = t.desired[d]]
  BY <1>1 DEF ConfirmProgrammed, SetDataplane, Tracker
<1> HIDE DEF u
<1>3. PendingUpdates(u) = PendingUpdates(t) \ {d}
  BY <1>1, <1>2 DEF PendingUpdates, Tracker
<1>4. PendingDeletions(u) = PendingDeletions(t) \ {d}
  BY <1>1, <1>2 DEF PendingUpdates, PendingDeletions, Tracker
<1> QED BY <1>2, <1>3, <1>4 DEF u

(* Nothing pending: the two sides agree on every key. *)
LEMMA InSyncAgrees ==
    ASSUME NEW t \in Tracker, InSync(t), NEW d \in Dsts
    PROVE  t.dataplane[d] = t.desired[d]
BY DEF Tracker, InSync, PendingUpdates, PendingDeletions

-----------------------------------------------------------------------------
(* The start of a round, after a message or a tick. *)
LEMMA WakeKeeps ==
    ASSUME RouteInv, ~ round, Wake, tracker' \in Tracker,
           dirty' \/ (tracker' = tracker /\ dirty' = dirty)
    PROVE  Owed' /\ updates' \subseteq Dsts /\ deletions' \subseteq Dsts
<1>1. CASE ShouldApply
  <2>1. round' /\ updates' = PendingUpdates(tracker') /\ deletions' = PendingDeletions(tracker')
    BY <1>1 DEF Wake
  <2> QED BY <2>1 DEF Owed, PendingUpdates, PendingDeletions, Tracker
<1>2. CASE ~ ShouldApply
  <2>1. ~ round' /\ updates' = updates /\ deletions' = deletions
    BY <1>2 DEF Wake, work
  <2> QED BY <2>1 DEF Owed, RouteInv, RouteTypes
<1> QED BY <1>1, <1>2

LEMMA AbsorbKeeps ==
    ASSUME RouteInv, NEW t \in Tracker, NEW insync, Absorb(t, insync),
           t.dataplane = tracker.dataplane
    PROVE  RouteInv'
<1>1. /\ ~ round /\ tracker' = t /\ dirty' /\ UNCHANGED <<kernel, stale>> /\ Wake
      /\ aliased' = aliased \cup {c \in Cidrs : \E d, e \in Names(t, c) : d # e}
  BY DEF Absorb
<1>2. Owed' /\ updates' \subseteq Dsts /\ deletions' \subseteq Dsts
  BY <1>1, WakeKeeps
<1>3. RouteTypes'
  BY <1>1, <1>2 DEF RouteInv, RouteTypes
<1>4. NamedOnce'
  BY <1>1 DEF NamedOnce, Names
<1>5. KernelRemembered'
  BY <1>1 DEF RouteInv, KernelRemembered, Remembered
<1> QED BY <1>2, <1>3, <1>4, <1>5 DEF RouteInv

LEMMA TickKeeps == ASSUME RouteInv, TickerFires PROVE RouteInv'
<1>1. ~ round /\ UNCHANGED <<tracker, kernel, dirty, stale, aliased>> /\ Wake
  BY DEF TickerFires
<1>2. Owed' /\ updates' \subseteq Dsts /\ deletions' \subseteq Dsts
  BY <1>1, WakeKeeps DEF RouteInv, RouteTypes
<1> QED BY <1>1, <1>2 DEF RouteInv, RouteTypes, NamedOnce, Names, KernelRemembered, Remembered

-----------------------------------------------------------------------------
(* One operation of a round: the prefix of d is settled with the kernel,   *)
(* or has become stale, or is none.                                        *)
LEMMA ConfirmKeeps ==
    ASSUME RouteInv, round, NEW d \in updates \cup deletions, Confirm(d),
           stale' \subseteq Cidrs, kernel' \in [Cidrs -> Gateways \cup {Absent}],
           \A c \in Cidrs : c # CidrOf[d] => kernel'[c] = kernel[c] /\ (c \in stale' <=> c \in stale),
           CidrOf[d] \in Cidrs \ stale' =>
               kernel'[CidrOf[d]] = IF tracker.desired[d] \in Gateways THEN tracker.desired[d]
                                    ELSE Absent
    PROVE  RouteInv'
<1>1. /\ tracker' = ConfirmProgrammed(tracker, d)
      /\ updates' = updates \ {d} /\ deletions' = deletions \ {d}
      /\ round' /\ UNCHANGED aliased
  BY DEF Confirm
<1>2. /\ tracker \in Tracker /\ d \in Dsts
      /\ updates = PendingUpdates(tracker) /\ deletions = PendingDeletions(tracker)
  BY DEF RouteInv, RouteTypes, Owed
<1>3. /\ tracker' \in Tracker /\ tracker'.desired = tracker.desired
      /\ tracker'.dataplane = [tracker.dataplane EXCEPT ![d] = tracker.desired[d]]
      /\ PendingUpdates(tracker') = updates' /\ PendingDeletions(tracker') = deletions'
  BY <1>1, <1>2, Confirming
<1>4. RouteTypes' /\ Owed'
  BY <1>1, <1>3 DEF RouteInv, RouteTypes, Owed
<1>5. \A c \in Cidrs : Names(tracker', c) \subseteq Names(tracker, c)
  BY <1>2, <1>3 DEF Names, Tracker
<1>6. NamedOnce'
  BY <1>1, <1>5 DEF RouteInv, NamedOnce
<1>7. ASSUME NEW c \in Cidrs \ (stale' \cup aliased') PROVE Remembered(c)'
  <2>1. CASE c # CidrOf[d]
    <3>1. c \in Cidrs \ (stale \cup aliased) /\ kernel'[c] = kernel[c]
      BY <1>1, <1>7, <2>1
    <3>2. \A e \in Dsts : CidrOf[e] = c => tracker'.dataplane[e] = tracker.dataplane[e]
      BY <1>2, <1>3, <2>1 DEF Tracker
    <3> QED BY <3>1, <3>2 DEF RouteInv, KernelRemembered, Remembered
  <2>2. CASE c = CidrOf[d]
    <3>1. d \in Names(tracker, c)
      BY <1>2, <2>2 DEF Names, PendingUpdates, PendingDeletions
    <3>2. \A e \in Dsts \ {d} : CidrOf[e] = c => tracker.dataplane[e] = Absent
      BY <1>1, <1>7, <3>1 DEF RouteInv, NamedOnce, Names
    <3>3. /\ tracker'.dataplane[d] = tracker.desired[d]
          /\ \A e \in Dsts \ {d} : CidrOf[e] = c => tracker'.dataplane[e] = Absent
      BY <1>2, <1>3, <3>2 DEF Tracker
    <3>4. kernel'[c] = IF tracker.desired[d] \in Gateways THEN tracker.desired[d] ELSE Absent
      BY <1>7, <2>2
    <3> QED BY <1>2, <2>2, <3>3, <3>4, DstsAssumption DEF Remembered
  <2> QED BY <2>1, <2>2
<1>8. KernelRemembered'
  BY <1>7 DEF KernelRemembered
<1> QED BY <1>4, <1>6, <1>8 DEF RouteInv

LEMMA DropKeeps == ASSUME RouteInv, NEW d \in Dsts, DropMalformed(d) PROVE RouteInv'
<1>1. /\ round /\ d \in updates \cup deletions /\ CidrOf[d] = Malformed /\ Confirm(d)
      /\ UNCHANGED <<kernel, stale>>
  BY DEF DropMalformed
<1> QED BY <1>1, ConfirmKeeps, DstsAssumption DEF RouteInv, RouteTypes

LEMMA AddKeeps == ASSUME RouteInv, NEW d \in Dsts, AddRoute(d) PROVE RouteInv'
<1>1. round /\ d \in updates /\ CidrOf[d] # Malformed /\ tracker.desired[d] # Bad /\ Confirm(d)
  BY DEF AddRoute
<1>2. CidrOf[d] \in Cidrs
  BY <1>1, DstsAssumption
<1>3. tracker.desired[d] \in Gateways \cup {None}
  BY <1>1 DEF RouteInv, RouteTypes, Owed, PendingUpdates, Tracker, Values
<1>4. kernel \in [Cidrs -> Gateways \cup {Absent}] /\ stale \subseteq Cidrs
  BY DEF RouteInv, RouteTypes
<1>5. CASE tracker.desired[d] = None
  <2>1. kernel' = kernel /\ stale' = stale \cup {x \in {CidrOf[d]} : kernel[x] # Absent}
    BY <1>5 DEF AddRoute
  <2>2. CidrOf[d] \notin stale' => kernel[CidrOf[d]] = Absent
    BY <2>1
  <2>3. None \notin Gateways
    BY DstsAssumption
  <2> QED BY <1>1, <1>2, <1>4, <1>5, <2>1, <2>2, <2>3, ConfirmKeeps
<1>6. CASE tracker.desired[d] # None
  <2>1. /\ kernel' = [kernel EXCEPT ![CidrOf[d]] = tracker.desired[d]]
        /\ stale' = stale \ {CidrOf[d]}
    BY <1>6 DEF AddRoute
  <2> QED BY <1>1, <1>2, <1>3, <1>4, <1>6, <2>1, ConfirmKeeps
<1> QED BY <1>5, <1>6

LEMMA DelKeeps == ASSUME RouteInv, NEW d \in Dsts, DelRoute(d) PROVE RouteInv'
<1>1. /\ round /\ d \in deletions /\ CidrOf[d] # Malformed /\ Confirm(d)
      /\ kernel' = [kernel EXCEPT ![CidrOf[d]] = Absent]
      /\ stale' = stale \ {CidrOf[d]}
  BY DEF DelRoute
<1>2. CidrOf[d] \in Cidrs
  BY <1>1, DstsAssumption
<1>3. tracker.desired[d] = Absent /\ Absent \notin Gateways
  BY <1>1, DstsAssumption DEF RouteInv, Owed, PendingDeletions
<1>4. kernel \in [Cidrs -> Gateways \cup {Absent}] /\ stale \subseteq Cidrs
  BY DEF RouteInv, RouteTypes
<1> QED BY <1>1, <1>2, <1>3, <1>4, ConfirmKeeps

(* The end of a round: work that is left over keeps the flag. *)
LEMMA EndKeeps ==
    ASSUME RouteInv, round, NEW failed \in BOOLEAN, EndApply(failed),
           failed \/ (updates = {} /\ deletions = {})
    PROVE  RouteInv'
<1>1. /\ ~ round' /\ updates' = {} /\ deletions' = {} /\ dirty' = failed
      /\ UNCHANGED <<tracker, kernel, stale, aliased>>
  BY DEF EndApply
<1>2. ~ failed => InSync(tracker)
  BY DEF RouteInv, Owed, InSync
<1>3. Owed'
  BY <1>1, <1>2 DEF Owed, InSync
<1> QED BY <1>1, <1>3 DEF RouteInv, RouteTypes, NamedOnce, Names, KernelRemembered, Remembered

LEMMA RestartKeeps == ASSUME RouteInv, Restart PROVE RouteInv'
<1>1. /\ tracker' = EmptyTracker(Dsts) /\ ~ round' /\ updates' = {} /\ deletions' = {}
      /\ stale' = {c \in Cidrs : kernel[c] # Absent} /\ aliased' = {} /\ kernel' = kernel
  BY DEF Restart, Fresh
<1>2. RouteTypes'
  BY <1>1, EmptyIsInSync DEF RouteInv, RouteTypes
<1>3. Owed'
  BY <1>1, EmptyIsInSync DEF Owed
<1>4. \A d \in Dsts : tracker'.desired[d] = Absent /\ tracker'.dataplane[d] = Absent
  BY <1>1 DEF EmptyTracker
<1>5. NamedOnce'
  BY <1>4 DEF NamedOnce, Names
<1>6. KernelRemembered'
  BY <1>1, <1>4, DstsAssumption DEF KernelRemembered, Remembered
<1> QED BY <1>2, <1>3, <1>5, <1>6 DEF RouteInv

-----------------------------------------------------------------------------
LEMMA RouteInitInv == Init => RouteInv
<1> SUFFICES ASSUME Init PROVE RouteInv
  OBVIOUS
<1>1. /\ tracker = EmptyTracker(Dsts) /\ kernel = [c \in Cidrs |-> Absent]
      /\ ~ round /\ updates = {} /\ deletions = {} /\ stale = {} /\ aliased = {}
  BY DEF Init
<1>2. \A d \in Dsts : tracker.desired[d] = Absent /\ tracker.dataplane[d] = Absent
  BY <1>1 DEF EmptyTracker
<1>3. RouteTypes /\ Owed
  BY <1>1, EmptyIsInSync DEF RouteTypes, Owed
<1>4. NamedOnce
  BY <1>2 DEF NamedOnce, Names
<1>5. KernelRemembered
  BY <1>1, <1>2, DstsAssumption DEF KernelRemembered, Remembered
<1> QED BY <1>3, <1>4, <1>5 DEF RouteInv

LEMMA RouteNextInv == RouteInv /\ [Next]_vars => RouteInv'
<1> SUFFICES ASSUME RouteInv, [Next]_vars PROVE RouteInv'
  OBVIOUS
<1>1. tracker \in Tracker
  BY DEF RouteInv, RouteTypes
<1>2. ASSUME NEW d \in Dsts, NEW v \in Values \cup {Absent}, Absorb(SetDesired(tracker, d, v), FALSE)
      PROVE  RouteInv'
  BY <1>1, <1>2, Desiring, AbsorbKeeps
<1>3. ASSUME NEW d \in Dsts, RouteRemove(d) \/ \E v \in Values : RouteUpdate(d, v)
      PROVE  RouteInv'
  BY <1>2, <1>3 DEF RouteRemove, RouteUpdate, RemoveDesired
<1>4. CASE InSyncMessage
  BY <1>1, <1>4, AbsorbKeeps DEF InSyncMessage
<1>5. CASE TickerFires
  BY <1>5, TickKeeps
<1>6. CASE RoundStep
  <2>1. ASSUME NEW d \in Dsts, DropMalformed(d) \/ AddRoute(d) \/ DelRoute(d) PROVE RouteInv'
    BY <2>1, DropKeeps, AddKeeps, DelKeeps
  <2>2. ASSUME NEW d \in Dsts, BadGateway(d) PROVE RouteInv'
    BY <2>2, EndKeeps DEF BadGateway
  <2>3. ASSUME RoundDone PROVE RouteInv'
    BY <2>3, EndKeeps DEF RoundDone
  <2> QED BY <1>6, <2>1, <2>2, <2>3 DEF RoundStep
<1>7. CASE RoundFails
  BY <1>7, EndKeeps DEF RoundFails
<1>8. CASE Restart
  BY <1>8, RestartKeeps
<1>9. CASE UNCHANGED vars
  BY <1>9 DEF vars, state, work, RouteInv, RouteTypes, NamedOnce, Names, KernelRemembered,
              Remembered, Owed, InSync
<1> QED BY <1>3, <1>4, <1>5, <1>6, <1>7, <1>8, <1>9 DEF Next

(* The inductive invariant: outside the exceptions the kernel has what the *)
(* tracker remembers, and what the tracker still has to do is owed.        *)
THEOREM RouteInvariant == Spec => []RouteInv
BY RouteInitInv, RouteNextInv, PTL DEF Spec

LEMMA CleanIsProgrammed == ASSUME RouteInv PROVE CleanMeansProgrammed
<1> SUFFICES ASSUME ~ dirty, ~ round, NEW c \in Cidrs \ (stale \cup aliased)
             PROVE  kernel[c] = Wanted(c)
  BY DEF CleanMeansProgrammed, Programmed
<1>1. \A d \in Dsts : tracker.dataplane[d] = tracker.desired[d]
  BY InSyncAgrees DEF RouteInv, RouteTypes, Owed
<1>2. Remembered(c) /\ kernel[c] \in Gateways \cup {Absent}
  BY DEF RouteInv, RouteTypes, KernelRemembered
<1> DEFINE wanted == {tracker.desired[d] : d \in {e \in Dsts : CidrOf[e] = c}} \cap Gateways
<1>3. \A g \in wanted : kernel[c] = g
  BY <1>1, <1>2 DEF Remembered
<1>4. wanted = {} => kernel[c] = Absent
  BY <1>1, <1>2 DEF Remembered
<1>5. CASE wanted = {}
  BY <1>4, <1>5 DEF Wanted
<1>6. CASE wanted # {}
  <2>1. Wanted(c) = CHOOSE g \in wanted : TRUE
    BY <1>6 DEF Wanted
  <2>2. (CHOOSE g \in wanted : TRUE) \in wanted
    BY <1>6
  <2> QED BY <1>3, <2>1, <2>2
<1> QED BY <1>5, <1>6

(* When the manager owes nothing the kernel's table has the desired routes *)
(* and no others, through failed operations, rounds cut short, changes     *)
(* undone before they were programmed and restarts of the agent; with the  *)
(* exceptions of `stale` and `aliased`.                                    *)
THEOREM CleanRoutesAreProgrammed == Spec => []CleanMeansProgrammed
BY RouteInvariant, CleanIsProgrammed, PTL

=============================================================================
