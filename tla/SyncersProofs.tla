--------------------------- MODULE SyncersProofs ---------------------------
(***************************************************************************)
(* Theorems about Syncers for any writers, keys, kinds and any number of   *)
(* writes and lost connections, and about the writers alone (KddStore).    *)
(*                                                                         *)
(* The writers come first: a revision names the write that made it, so no  *)
(* call overwrites what its caller never read.                             *)
(*                                                                         *)
(* What a consumer will know of a key follows from what it knows or will   *)
(* be listed (Base) and the changes still on their way (After); a watch    *)
(* that is not down leads to what the store holds.  The v1 events follow   *)
(* the consumer of the v3 events, whatever the watches do.                 *)
(***************************************************************************)
EXTENDS Syncers, TLAPS

-----------------------------------------------------------------------------
(* A process between two calls has a request, and one that is going to     *)
(* name a version has read one.                                            *)
HoldsWhatItNames ==
    \A c \in Clients :
        /\ IF pc[c] = "idle" THEN read[c] = Nothing ELSE job[c] \in Jobs
        /\ pc[c] \notin {"idle", "create"} => read[c] \in Versioned

StoreInv == StoreTypeOK /\ HoldsWhatItNames /\ RevisionsNameWrites

-----------------------------------------------------------------------------
(* What the calls do to the objects. *)

LEMMA BumpType ==
    ASSUME StoreTypeOK, NEW k \in Keys, NEW v \in Values, Bump(k, v)
    PROVE  /\ entries' \in [Keys -> Versioned \cup {Absent}]
           /\ next_revision' \in Nat
BY DEF StoreTypeOK, Bump, Stamped, Versioned

LEMMA DeleteType ==
    ASSUME StoreTypeOK, NEW k \in Keys, NEW r, Delete(k, r)
    PROVE  /\ entries' \in [Keys -> Versioned \cup {Absent}]
           /\ next_revision' \in Nat
BY DEF StoreTypeOK, Delete

(* A write gives its object a revision nobody holds, and a deletion leaves *)
(* none to compare with: whoever read the object before is out of date.    *)
LEMMA BumpDates ==
    ASSUME StoreInv, NEW k \in Keys, NEW v \in Values, Bump(k, v)
    PROVE  /\ \A x \in Keys : entries'[x] # Absent => entries'[x].revision < next_revision'
           /\ \A w \in Versioned : w.revision < next_revision => w.revision < next_revision'
           /\ \A w \in Versioned, x \in Keys :
                 w.revision < next_revision /\ Current(x, w.revision)'
                    => x # k /\ Current(x, w.revision) /\ entries'[x] = entries[x]
<1>1. entries'[k] = Stamped(v) /\ \A x \in Keys \ {k} : entries'[x] = entries[x]
  BY DEF StoreInv, StoreTypeOK, Bump
<1>2. next_revision' = next_revision + 1 /\ next_revision \in Nat
  BY DEF StoreInv, StoreTypeOK, Bump
<1>3. \A x \in Keys : entries[x] # Absent => entries[x] \in Versioned
  BY DEF StoreInv, StoreTypeOK
<1>4. Stamped(v).revision = next_revision
  BY DEF Stamped
<1>5. \A x \in Keys : entries[x] # Absent => entries[x].revision < next_revision
  BY DEF StoreInv, RevisionsNameWrites
<1>6. \A x \in Keys : entries'[x] # Absent => entries'[x].revision < next_revision'
  BY <1>1, <1>2, <1>3, <1>4, <1>5 DEF Versioned
<1>7. \A w \in Versioned : w.revision < next_revision => w.revision < next_revision'
  BY <1>2 DEF Versioned
<1>8. ASSUME NEW w \in Versioned, NEW x \in Keys, w.revision < next_revision,
             Current(x, w.revision)'
      PROVE  x # k /\ Current(x, w.revision) /\ entries'[x] = entries[x]
  <2>1. entries'[x] # Absent /\ entries'[x].revision = w.revision
    BY <1>8 DEF Current
  <2>2. x # k
    BY <2>1, <1>1, <1>2, <1>4, <1>8 DEF Versioned
  <2> QED BY <2>1, <2>2, <1>1 DEF Current
<1> QED BY <1>6, <1>7, <1>8

LEMMA DeleteDates ==
    ASSUME StoreInv, NEW k \in Keys, NEW r, Delete(k, r)
    PROVE  /\ \A x \in Keys : entries'[x] # Absent => entries'[x].revision < next_revision'
           /\ next_revision' = next_revision
           /\ \A s, x : x \in Keys /\ Current(x, s)' =>
                 x # k /\ Current(x, s) /\ entries'[x] = entries[x]
<1>1. entries'[k] = Absent /\ \A x \in Keys \ {k} : entries'[x] = entries[x]
  BY DEF StoreInv, StoreTypeOK, Delete
<1>2. next_revision' = next_revision
  BY DEF Delete
<1> QED BY <1>1, <1>2 DEF Current, StoreInv, RevisionsNameWrites

-----------------------------------------------------------------------------
(* A write whose process then ends its request keeps the versions of the   *)
(* other processes apart from what is stored.                              *)
Ends(c) ==
    /\ Done(c)
    /\ \/ UNCHANGED casVars
       \/ \E k \in Keys, v \in Values : Bump(k, v)
       \/ \E k \in Keys, r \in Nat : Delete(k, r)

LEMMA DoneLocals ==
    ASSUME StoreInv, NEW c \in Clients, Done(c)
    PROVE  /\ pc' \in [Clients -> Steps]
           /\ job' \in [Clients -> Jobs \cup {Nothing}]
           /\ read' \in [Clients -> Versioned \cup {Absent, Nothing}]
           /\ HoldsWhatItNames'
           /\ read'[c] \notin Versioned
           /\ \A d \in Clients \ {c} : read'[d] = read[d] /\ job'[d] = job[d]
<1>1. pc' \in [Clients -> Steps]
  BY DEF StoreInv, StoreTypeOK, Done, Steps
<1>2. /\ job' \in [Clients -> Jobs \cup {Nothing}]
      /\ read' \in [Clients -> Versioned \cup {Absent, Nothing}]
      /\ read'[c] = Nothing /\ pc'[c] = "idle"
      /\ \A d \in Clients \ {c} : read'[d] = read[d] /\ job'[d] = job[d] /\ pc'[d] = pc[d]
  BY DEF StoreInv, StoreTypeOK, Done
<1>3. read'[c] \notin Versioned
  BY <1>2, NothingAssumption DEF Versioned
<1>4. HoldsWhatItNames'
  BY <1>2 DEF StoreInv, HoldsWhatItNames
<1> QED BY <1>1, <1>2, <1>3, <1>4

(* The facts about stored and held versions, from one step to the next,    *)
(* for a process whose request and version did not change.                 *)
LEMMA HeldStaysDated ==
    ASSUME StoreInv, NEW d \in Clients, read'[d] = read[d], job'[d] = job[d],
           read[d] \in Versioned => job[d] \in Jobs,
           \/ UNCHANGED casVars
           \/ \E k \in Keys, v \in Values : Bump(k, v)
           \/ \E k \in Keys, r \in Nat : Delete(k, r)
    PROVE  read'[d] \in Versioned =>
             /\ read'[d].revision < next_revision'
             /\ Unmoved(d)' => read'[d] = entries'[job'[d].key]
<1> SUFFICES ASSUME read[d] \in Versioned
             PROVE  /\ read[d].revision < next_revision'
                    /\ Current(job[d].key, read[d].revision)' => read[d] = entries'[job[d].key]
  BY DEF Unmoved
<1>1. read[d].revision < next_revision /\ (Unmoved(d) => read[d] = entries[job[d].key])
  BY DEF StoreInv, RevisionsNameWrites
<1>2. job[d].key \in Keys
  BY DEF Jobs
<1>3. CASE UNCHANGED casVars
  BY <1>1, <1>3 DEF casVars, Unmoved, Current
<1>4. CASE \E k \in Keys, v \in Values : Bump(k, v)
  <2>1. PICK k \in Keys, v \in Values : Bump(k, v)
    BY <1>4
  <2> QED BY <2>1, <1>1, <1>2, BumpDates DEF Unmoved
<1>5. CASE \E k \in Keys, r \in Nat : Delete(k, r)
  <2>1. PICK k \in Keys, r \in Nat : Delete(k, r)
    BY <1>5
  <2> QED BY <2>1, <1>1, <1>2, DeleteDates DEF Unmoved
<1> QED BY <1>3, <1>4, <1>5

LEMMA EndsKeep == ASSUME StoreInv, NEW c \in Clients, Ends(c) PROVE StoreInv'
<1>1. StoreTypeOK /\ HoldsWhatItNames
  BY DEF StoreInv
<1>2. \/ UNCHANGED casVars
      \/ \E k \in Keys, v \in Values : Bump(k, v)
      \/ \E k \in Keys, r \in Nat : Delete(k, r)
  BY DEF Ends
<1>3. /\ entries' \in [Keys -> Versioned \cup {Absent}]
      /\ next_revision' \in Nat
  <2>1. CASE UNCHANGED casVars
    BY <1>1, <2>1 DEF casVars, StoreTypeOK
  <2> QED BY <1>1, <1>2, <2>1, BumpType, DeleteType
<1>4. \A k \in Keys : entries'[k] # Absent => entries'[k].revision < next_revision'
  <2>1. CASE UNCHANGED casVars
    BY <2>1 DEF casVars, StoreInv, RevisionsNameWrites
  <2> QED BY <1>2, <2>1, BumpDates, DeleteDates
<1>5. /\ pc' \in [Clients -> Steps]
      /\ job' \in [Clients -> Jobs \cup {Nothing}]
      /\ read' \in [Clients -> Versioned \cup {Absent, Nothing}]
      /\ HoldsWhatItNames'
      /\ read'[c] \notin Versioned
      /\ \A d \in Clients \ {c} : read'[d] = read[d] /\ job'[d] = job[d]
  BY DoneLocals DEF Ends
<1>6. ASSUME NEW d \in Clients, read'[d] \in Versioned
      PROVE  /\ read'[d].revision < next_revision'
             /\ Unmoved(d)' => read'[d] = entries'[job'[d].key]
  <2>1. d # c /\ read'[d] = read[d] /\ job'[d] = job[d]
    BY <1>5, <1>6
  <2>2. read[d] \in Versioned => job[d] \in Jobs
    BY <1>1, NothingAssumption DEF HoldsWhatItNames, Versioned
  <2> QED BY <1>2, <1>6, <2>1, <2>2, HeldStaysDated
<1> QED BY <1>3, <1>4, <1>5, <1>6 DEF StoreInv, StoreTypeOK, RevisionsNameWrites

-----------------------------------------------------------------------------
(* Every write stores an object, under the key of a request. *)
LEMMA JobParts ==
    ASSUME NEW j \in Jobs
    PROVE  j.key \in Keys /\ Fresh(j.spec) \in Values
BY ValuesAssumption DEF Jobs, Fresh, Object

LEMMA MarkedType == ASSUME NEW w \in Versioned PROVE Marked(w) \in Values
BY ValuesAssumption DEF Versioned, Marked, Object

LEMMA PatchedType ==
    ASSUME StoreInv, NEW j \in Jobs, entries[j.key] # Absent
    PROVE  [entries[j.key].value EXCEPT !.labels = Relabelled(@, j)] \in Values
<1>1. entries[j.key] \in Versioned
  BY JobParts DEF StoreInv, StoreTypeOK
<1>2. entries[j.key].value \in Object /\ j.labels \in SUBSET Labels
  BY <1>1, ValuesAssumption DEF Versioned, Jobs
<1> QED BY <1>2, ValuesAssumption DEF Object, Relabelled

(* The steps after which a request is over. *)
LEMMA WritesEnd ==
    ASSUME StoreInv, NEW c \in Clients,
           \/ PostObject(c) \/ ReplaceObject(c) \/ DeleteObject(c) \/ HardDelete(c)
           \/ Crash(c) \/ (SoftDelete(c) /\ ~ Unmoved(c))
    PROVE  Ends(c)
<1>1. HoldsWhatItNames
  BY DEF StoreInv
<1>2. ASSUME Refused(c) PROVE Ends(c)
  BY <1>2 DEF Refused, Ends
<1>3. CASE PostObject(c)
  <2>1. job[c] \in Jobs
    BY <1>1, <1>3 DEF HoldsWhatItNames, PostObject
  <2> QED BY <1>2, <1>3, <2>1, JobParts DEF PostObject, Create, Ends
<1>4. CASE ReplaceObject(c)
  <2>1. job[c] \in Jobs
    BY <1>1, <1>4 DEF HoldsWhatItNames, ReplaceObject
  <2> QED BY <1>2, <1>4, <2>1, JobParts DEF ReplaceObject, Update, Ends
<1>5. CASE DeleteObject(c) \/ HardDelete(c)
  <2>1. job[c] \in Jobs /\ read[c] \in Versioned
    BY <1>1, <1>5 DEF HoldsWhatItNames, DeleteObject, HardDelete
  <2>2. read[c].revision \in Nat
    BY <2>1 DEF Versioned
  <2> QED BY <1>2, <1>5, <2>1, <2>2, JobParts DEF DeleteObject, HardDelete, Ends
<1>6. CASE Crash(c) \/ (SoftDelete(c) /\ ~ Unmoved(c))
  BY <1>2, <1>6 DEF Crash, SoftDelete
<1> QED BY <1>3, <1>4, <1>5, <1>6

LEMMA GetKeeps ==
    ASSUME StoreInv, NEW c \in Clients, NEW j \in Jobs, Get(c, j)
    PROVE  StoreInv'
<1>1. j.key \in Keys
  BY JobParts
<1>2. entries' = entries /\ next_revision' = next_revision
  BY DEF Get, casVars
<1>3. /\ pc[c] = "idle" /\ job' = [job EXCEPT ![c] = j]
      /\ read' = [read EXCEPT ![c] = entries[j.key]]
      /\ pc' = [pc EXCEPT ![c] = IF entries[j.key] = Absent THEN WhenAbsent[j.verb]
                                                            ELSE WhenFound[j.verb]]
      /\ j.verb \in DOMAIN WhenFound
      /\ pc'[c] # "idle"
  BY DEF Get, StoreInv, StoreTypeOK
<1>4. entries[j.key] \in Versioned \cup {Absent}
  BY <1>1 DEF StoreInv, StoreTypeOK
<1>5. WhenFound[j.verb] \in Steps /\ WhenAbsent[j.verb] \in {"idle", "create"}
  BY <1>3 DEF WhenFound, WhenAbsent, Steps
<1>6. StoreTypeOK'
  BY <1>2, <1>3, <1>4, <1>5 DEF StoreInv, StoreTypeOK, Steps
<1>7. /\ job'[c] = j /\ read'[c] = entries[j.key]
      /\ \A d \in Clients \ {c} : pc'[d] = pc[d] /\ job'[d] = job[d] /\ read'[d] = read[d]
  BY <1>3 DEF StoreInv, StoreTypeOK
<1>8. pc'[c] \notin {"idle", "create"} => read'[c] \in Versioned
  BY <1>3, <1>4, <1>5, <1>7 DEF StoreInv, StoreTypeOK
<1>9. HoldsWhatItNames'
  BY <1>3, <1>7, <1>8 DEF StoreInv, HoldsWhatItNames
<1>10. \A k \in Keys : entries'[k] # Absent => entries'[k].revision < next_revision'
  BY <1>2 DEF StoreInv, RevisionsNameWrites
<1>11. ASSUME NEW d \in Clients, read'[d] \in Versioned
       PROVE  /\ read'[d].revision < next_revision'
              /\ Unmoved(d)' => read'[d] = entries'[job'[d].key]
  <2>1. CASE d = c
    <3>1. entries[j.key] # Absent
      BY <1>7, <1>11, <2>1, AbsentAssumption DEF Versioned
    <3> QED BY <1>1, <1>2, <1>7, <1>10, <2>1, <3>1
  <2>2. CASE d # c
    <3>1. read'[d] = read[d] /\ job'[d] = job[d]
      BY <1>7, <2>2
    <3> QED BY <1>2, <1>11, <3>1 DEF StoreInv, RevisionsNameWrites, Unmoved, Current
  <2> QED BY <2>1, <2>2
<1>12. RevisionsNameWrites'
  BY <1>10, <1>11 DEF RevisionsNameWrites
<1> QED BY <1>6, <1>9, <1>12 DEF StoreInv

LEMMA PatchKeeps ==
    ASSUME StoreInv, NEW c \in Clients, NEW j \in Jobs, PatchLabels(c, j)
    PROVE  StoreInv'
<1> DEFINE v == [entries[j.key].value EXCEPT !.labels = Relabelled(@, j)]
<1>1. j.key \in Keys /\ v \in Values /\ Bump(j.key, v)
  BY JobParts, PatchedType DEF PatchLabels
<1>2. pc' = pc /\ job' = job /\ read' = read
  BY DEF PatchLabels, clientVars
<1> HIDE DEF v
<1>3. StoreTypeOK /\ HoldsWhatItNames
  BY DEF StoreInv
<1>4. StoreTypeOK'
  BY <1>1, <1>2, <1>3, BumpType DEF StoreTypeOK
<1>5. HoldsWhatItNames'
  BY <1>2, <1>3 DEF HoldsWhatItNames
<1>6. \A d \in Clients : read[d] \in Versioned => job[d] \in Jobs
  BY <1>3, NothingAssumption DEF HoldsWhatItNames, Versioned
<1>7. \A d \in Clients : read'[d] \in Versioned =>
             /\ read'[d].revision < next_revision'
             /\ Unmoved(d)' => read'[d] = entries'[job'[d].key]
  BY <1>1, <1>2, <1>6, HeldStaysDated
<1>8. \A k \in Keys : entries'[k] # Absent => entries'[k].revision < next_revision'
  BY <1>1, BumpDates
<1> QED BY <1>4, <1>5, <1>7, <1>8 DEF StoreInv, RevisionsNameWrites

(* The soft delete goes on with the version it has just written. *)
LEMMA SoftDeleteKeeps ==
    ASSUME StoreInv, NEW c \in Clients, SoftDelete(c), Unmoved(c)
    PROVE  StoreInv'
<1>1. StoreTypeOK /\ HoldsWhatItNames
  BY DEF StoreInv
<1>2. job[c] \in Jobs /\ read[c] \in Versioned
  BY <1>1 DEF HoldsWhatItNames, SoftDelete
<1>3. job[c].key \in Keys /\ Marked(read[c]) \in Values
  BY <1>2, JobParts, MarkedType
<1>4. Bump(job[c].key, Marked(read[c])) /\ Holding(c, "purge", entries'[job[c].key])
  BY DEF SoftDelete, Update
<1>5. /\ entries' \in [Keys -> Versioned \cup {Absent}] /\ next_revision' \in Nat
      /\ next_revision' = next_revision + 1
      /\ entries'[job[c].key] = [value |-> Marked(read[c]), revision |-> next_revision]
  BY <1>1, <1>3, <1>4, BumpType DEF Bump, Stamped, StoreTypeOK
<1>6. entries'[job[c].key] \in Versioned
  BY <1>1, <1>3, <1>5 DEF StoreTypeOK, Versioned
<1>7. /\ job' = job /\ read' = [read EXCEPT ![c] = entries'[job[c].key]]
      /\ pc' = [pc EXCEPT ![c] = "purge"]
  BY <1>4 DEF Holding
<1>8. StoreTypeOK'
  BY <1>1, <1>5, <1>6, <1>7 DEF StoreTypeOK, Steps
<1>9. /\ read'[c] = entries'[job'[c].key] /\ pc'[c] = "purge"
      /\ \A d \in Clients \ {c} : read'[d] = read[d] /\ job'[d] = job[d] /\ pc'[d] = pc[d]
  BY <1>1, <1>7 DEF StoreTypeOK
<1>10. HoldsWhatItNames'
  BY <1>1, <1>2, <1>6, <1>7, <1>9 DEF HoldsWhatItNames
<1>11. \A d \in Clients : read[d] \in Versioned => job[d] \in Jobs
  BY <1>1, NothingAssumption DEF HoldsWhatItNames, Versioned
<1>12. \A d \in Clients \ {c} : read'[d] \in Versioned =>
             /\ read'[d].revision < next_revision'
             /\ Unmoved(d)' => read'[d] = entries'[job'[d].key]
  BY <1>3, <1>4, <1>9, <1>11, HeldStaysDated
<1>13. /\ read'[c].revision < next_revision'
       /\ read'[c] = entries'[job'[c].key]
  BY <1>1, <1>5, <1>7, <1>9 DEF StoreTypeOK
<1>14. \A k \in Keys : entries'[k] # Absent => entries'[k].revision < next_revision'
  BY <1>3, <1>4, BumpDates
<1> QED BY <1>8, <1>10, <1>12, <1>13, <1>14 DEF StoreInv, RevisionsNameWrites

-----------------------------------------------------------------------------
LEMMA StoreInitInv == StoreInit => StoreInv
<1> SUFFICES ASSUME StoreInit PROVE StoreInv
  OBVIOUS
<1> USE DEF StoreInit, CasInit
<1>1. \A k \in Keys : entries[k] \in Versioned \cup {Absent}
                     /\ (entries[k] # Absent => entries[k].revision < next_revision)
  <2> SUFFICES ASSUME NEW k \in Keys
               PROVE  /\ entries[k] \in Versioned \cup {Absent}
                      /\ entries[k] # Absent => entries[k].revision < next_revision
    OBVIOUS
  <2>1. CASE Preset[k] = Absent
    BY <2>1
  <2>2. CASE Preset[k] # Absent
    <3>1. Preset[k] \in Values
      BY <2>2, PresetAssumption
    <3>2. entries[k] = [value |-> Preset[k], revision |-> 1] /\ next_revision = 2
      BY <2>2
    <3> HIDE DEF StoreInit, CasInit
    <3>3. entries[k] \in Versioned
      BY <3>1, <3>2 DEF Versioned
    <3>4. entries[k].revision < next_revision
      BY <3>2
    <3> QED BY <3>3, <3>4
  <2> QED BY <2>1, <2>2
<1>2. entries \in [Keys -> Versioned \cup {Absent}]
  BY <1>1
<1>3. \A c \in Clients : pc[c] = "idle" /\ read[c] = Nothing
  OBVIOUS
<1>4. Nothing \notin Versioned
  BY NothingAssumption DEF Versioned
<1>5. StoreTypeOK
  BY <1>2 DEF StoreTypeOK, Steps
<1>6. HoldsWhatItNames
  BY <1>3 DEF HoldsWhatItNames
<1>7. RevisionsNameWrites
  BY <1>1, <1>3, <1>4 DEF RevisionsNameWrites
<1> QED BY <1>5, <1>6, <1>7 DEF StoreInv

LEMMA StoreNextInv == StoreInv /\ [StoreNext]_storeVars => StoreInv'
<1> SUFFICES ASSUME StoreInv, [StoreNext]_storeVars PROVE StoreInv'
  OBVIOUS
<1>1. CASE UNCHANGED storeVars
  BY <1>1 DEF storeVars, casVars, clientVars, StoreInv, StoreTypeOK, HoldsWhatItNames,
              RevisionsNameWrites, Unmoved, Current
<1>2. ASSUME NEW c \in Clients, NEW j \in Work, Get(c, j) \/ PatchLabels(c, j)
      PROVE  StoreInv'
  BY <1>2, WorkAssumption, GetKeeps, PatchKeeps
<1>3. ASSUME NEW c \in Clients, Write(c) \/ Crash(c)
      PROVE  StoreInv'
  <2>1. CASE SoftDelete(c) /\ Unmoved(c)
    BY <2>1, SoftDeleteKeeps
  <2>2. CASE ~ (SoftDelete(c) /\ Unmoved(c))
    <3>1. \/ PostObject(c) \/ ReplaceObject(c) \/ DeleteObject(c) \/ HardDelete(c)
          \/ Crash(c) \/ (SoftDelete(c) /\ ~ Unmoved(c))
      BY <1>3, <2>2 DEF Write
    <3>2. Ends(c)
      BY <3>1, WritesEnd
    <3> QED BY <3>2, EndsKeep
  <2> QED BY <2>1, <2>2
<1> QED BY <1>1, <1>2, <1>3 DEF StoreNext

(* The inductive invariant: the types, what a process between two calls    *)
(* holds, and that a revision names one write.                             *)
THEOREM StoreInvariant == StoreSpec => []StoreInv
BY StoreInitInv, StoreNextInv, PTL DEF StoreSpec

(* Stored objects and what their writers remember keep their types, with   *)
(* every verb of calicoctl, Backend and the soft-then-hard delete.         *)
THEOREM StoreTypeCorrect == StoreSpec => []StoreTypeOK
<1>1. StoreInv => StoreTypeOK
  BY DEF StoreInv
<1> QED BY <1>1, StoreInvariant, PTL

(* A resource version identifies one write for ever: who holds a version   *)
(* whose number is still the stored one holds what is stored, also when    *)
(* the object was deleted and created again in between (mem.rs counts all  *)
(* keys together, as the API server does).                                 *)
THEOREM RevisionsAreNames == StoreSpec => []RevisionsNameWrites
<1>1. StoreInv => RevisionsNameWrites
  BY DEF StoreInv
<1> QED BY <1>1, StoreInvariant, PTL

-----------------------------------------------------------------------------
(* A step that moves process c moves no other. *)
LEMMA OneMoves ==
    ASSUME StoreInv, NEW c \in Clients, NEW d \in Clients, pc'[d] # pc[d],
           Write(c) \/ Crash(c) \/ \E j \in Work : Get(c, j) \/ PatchLabels(c, j)
    PROVE  d = c
<1>1. pc \in [Clients -> Steps]
  BY DEF StoreInv, StoreTypeOK
<1> QED BY <1>1 DEF Write, Crash, Get, PatchLabels, PostObject, ReplaceObject, DeleteObject,
                   SoftDelete, HardDelete, Refused, Done, Holding, clientVars

LEMMA WritesWhatItRead ==
    ASSUME StoreInv, NEW c \in Clients, NEW k \in Keys, pc'[c] # pc[c],
           entries'[k] # entries[k], entries[k] # Absent,
           Write(c) \/ Crash(c) \/ \E j \in Work : Get(c, j) \/ PatchLabels(c, j)
    PROVE  read[c] = entries[k]
<1>1. entries \in [Keys -> Versioned \cup {Absent}] /\ HoldsWhatItNames
  BY DEF StoreInv, StoreTypeOK
<1>2. Write(c) /\ ~ PostObject(c)
  <2>1. ~ Crash(c) /\ \A j \in Work : ~ Get(c, j) /\ ~ PatchLabels(c, j)
    BY DEF Crash, Refused, Get, PatchLabels, clientVars, casVars
  <2>2. ~ PostObject(c)
    BY <1>1 DEF PostObject, Create, Bump, Refused, casVars
  <2> QED BY <2>1, <2>2
<1>3. k = job[c].key /\ Unmoved(c)
  BY <1>1, <1>2 DEF Write, ReplaceObject, DeleteObject, SoftDelete, HardDelete,
                    Update, Delete, Bump, Refused, casVars
<1>4. read[c] \in Versioned
  BY <1>1, <1>2 DEF HoldsWhatItNames, Write, ReplaceObject, DeleteObject, SoftDelete, HardDelete
<1> QED BY <1>3, <1>4 DEF StoreInv, RevisionsNameWrites

(* Nobody overwrites or deletes what it has not read (the compare-and-swap *)
(* of kdd.rs update and delete and of delete.rs suffices for upserts, for  *)
(* calicoctl and for the two phases of the soft delete), with any number   *)
(* of writers and however often objects come back under their names.       *)
THEOREM NoWriteIsLost == StoreSpec => NoLostWrite
<1>1. ASSUME StoreInv, [StoreNext]_storeVars
      PROVE  [\A c \in Clients, k \in Keys :
                 /\ pc'[c] # pc[c]
                 /\ entries'[k] # entries[k] /\ entries[k] # Absent
                 => read[c] = entries[k]]_storeVars
  <2> SUFFICES ASSUME NEW c \in Clients, NEW k \in Keys, StoreNext, pc'[c] # pc[c],
                      entries'[k] # entries[k], entries[k] # Absent
               PROVE  read[c] = entries[k]
    BY <1>1
  <2>1. PICK d \in Clients :
           Write(d) \/ Crash(d) \/ \E j \in Work : Get(d, j) \/ PatchLabels(d, j)
    BY DEF StoreNext
  <2> QED BY <1>1, <2>1, OneMoves, WritesWhatItRead
<1> QED BY <1>1, StoreInvariant, PTL DEF StoreSpec, NoLostWrite

-----------------------------------------------------------------------------
(* The content of k after the first n changes of a log, from b on. *)
After(log, b, k, n, v) ==
    \/ v = b /\ \A i \in 1 .. n : log[i].key # k
    \/ \E i \in 1 .. n : /\ log[i].key = k /\ v = Outcome(log[i])
                         /\ \A j \in i + 1 .. n : log[j].key # k

(* A log that leads from b to v, and whose deletions name what they delete. *)
Leads(log, b, k, v) ==
    /\ After(log, b, k, Len(log), v)
    /\ \A i \in 1 .. Len(log) :
          log[i].key = k /\ log[i].type = "delete" => After(log, b, k, i - 1, log[i].object)

LEMMA NoChanges == ASSUME NEW b, NEW k PROVE Leads(<< >>, b, k, b)
BY DEF Leads, After

LEMMA AppendLeads ==
    ASSUME NEW E, NEW log \in Seq(E), NEW b, NEW k, NEW v, NEW e \in E,
           Leads(log, b, k, v),
           e.key = k /\ e.type = "delete" => e.object = v
    PROVE  Leads(Append(log, e), b, k, IF e.key = k THEN Outcome(e) ELSE v)
<1> DEFINE q == Append(log, e)
           l == Len(log)
<1>1. /\ l \in Nat /\ Len(q) = l + 1 /\ q[l + 1] = e
      /\ \A i \in 1 .. l : q[i] = log[i]
  OBVIOUS
<1> HIDE DEF q, l
<1>2. ASSUME NEW n \in 0 .. l, NEW w, After(log, b, k, n, w) PROVE After(q, b, k, n, w)
  <2>1. \A i \in 1 .. n : q[i] = log[i]
    BY <1>1
  <2>2. CASE w = b /\ \A i \in 1 .. n : log[i].key # k
    BY <2>1, <2>2 DEF After
  <2>3. ASSUME NEW i \in 1 .. n, log[i].key = k, w = Outcome(log[i]),
               \A j \in i + 1 .. n : log[j].key # k
        PROVE  After(q, b, k, n, w)
    <3>1. \A j \in i + 1 .. n : q[j].key # k
      BY <2>1, <2>3
    <3> QED BY <2>1, <2>3, <3>1 DEF After
  <2> QED BY <1>2, <2>2, <2>3 DEF After
<1>3. After(log, b, k, l, v)
  BY DEF Leads, l
<1>4. After(q, b, k, Len(q), IF e.key = k THEN Outcome(e) ELSE v)
  <2>1. CASE e.key = k
    BY <1>1, <2>1 DEF After
  <2>2. CASE e.key # k
    BY <1>1, <1>2, <1>3, <2>2 DEF After
  <2> QED BY <2>1, <2>2
<1>5. ASSUME NEW i \in 1 .. Len(q), q[i].key = k, q[i].type = "delete"
      PROVE  After(q, b, k, i - 1, q[i].object)
  <2>1. CASE i = l + 1
    BY <1>1, <1>2, <1>3, <1>5, <2>1
  <2>2. CASE i # l + 1
    <3>1. i \in 1 .. l /\ i - 1 \in 0 .. l
      BY <1>1, <2>2
    <3>2. After(log, b, k, i - 1, log[i].object)
      BY <1>1, <1>5, <3>1 DEF Leads, l
    <3> QED BY <1>1, <1>2, <3>1, <3>2
  <2> QED BY <2>1, <2>2
<1> QED BY <1>4, <1>5 DEF Leads, q

LEMMA TailLeads ==
    ASSUME NEW E, NEW log \in Seq(E), log # << >>, NEW b, NEW k, NEW v, Leads(log, b, k, v)
    PROVE  /\ Leads(Tail(log), IF Head(log).key = k THEN Outcome(Head(log)) ELSE b, k, v)
           /\ Head(log).key = k /\ Head(log).type = "delete" => Head(log).object = b
<1> DEFINE q == Tail(log)
           l == Len(log)
           c == IF log[1].key = k THEN Outcome(log[1]) ELSE b
<1>1. /\ l \in Nat \ {0} /\ Len(q) = l - 1 /\ Head(log) = log[1]
      /\ \A i \in 1 .. l - 1 : q[i] = log[i + 1]
  OBVIOUS
<1> HIDE DEF q, l
<1>2. ASSUME NEW n \in 1 .. l, NEW w, After(log, b, k, n, w) PROVE After(q, c, k, n - 1, w)
  <2>1. CASE \A i \in 1 .. n : log[i].key # k
    BY <1>1, <1>2, <2>1 DEF After
  <2>2. ASSUME NEW i \in 1 .. n, log[i].key = k, w = Outcome(log[i]),
               \A j \in i + 1 .. n : log[j].key # k
        PROVE  After(q, c, k, n - 1, w)
    <3>1. ASSUME NEW j \in i .. n - 1 PROVE q[j].key # k
      <4>1. j \in 1 .. l - 1 /\ j + 1 \in i + 1 .. n
        BY <1>1
      <4> QED BY <1>1, <2>2, <4>1
    <3>2. CASE i = 1
      <4>1. w = c /\ \A j \in 1 .. n - 1 : q[j].key # k
        BY <2>2, <3>1, <3>2
      <4> QED BY <4>1 DEF After
    <3>3. CASE i # 1
      <4>1. i - 1 \in 1 .. n - 1 /\ q[i - 1] = log[i]
        BY <1>1, <3>3
      <4> QED BY <2>2, <3>1, <4>1 DEF After
    <3> QED BY <3>2, <3>3
  <2> QED BY <1>2, <2>1, <2>2 DEF After
<1>3. After(q, c, k, Len(q), v)
  BY <1>1, <1>2 DEF Leads, l
<1>4. ASSUME NEW i \in 1 .. Len(q), q[i].key = k, q[i].type = "delete"
      PROVE  After(q, c, k, i - 1, q[i].object)
  <2>1. i + 1 \in 1 .. l /\ q[i] = log[i + 1] /\ i \in 1 .. l
    BY <1>1
  <2>2. After(log, b, k, i, log[i + 1].object)
    BY <1>4, <2>1 DEF Leads, l
  <2> QED BY <1>2, <2>1, <2>2
<1>5. log[1].key = k /\ log[1].type = "delete" => log[1].object = b
  BY <1>1 DEF Leads, After, l
<1> QED BY <1>1, <1>3, <1>4, <1>5 DEF Leads, q

-----------------------------------------------------------------------------
(* The conversion: the pairs of a resource have keys of its kind's type,   *)
(* and one value for each.                                                 *)
LEMMA PairsByKind ==
    ASSUME NEW k, NEW spec
    PROVE  /\ k.kind = "NetworkPolicy" =>
                 Process(k, spec) \subseteq ProcessNetworkPolicy(k.namespace, k.name, spec)
           /\ k.kind = "IPPool" => Process(k, spec) \subseteq ProcessIpPool(spec)
           /\ k.kind = "WorkloadEndpoint" =>
                 Process(k, spec) \subseteq ProcessWorkloadEndpoint(k.namespace, k.name, spec)
           /\ k.kind = "FelixConfiguration" =>
                 Process(k, spec) \subseteq ProcessFelixConfiguration(k.name, spec)
           /\ k.kind \notin Processed => Process(k, spec) = {}
BY DEF Process, Processed

FieldPair(spec, h, f) == Pair(<<"config", h, f>>, spec[f])
LEMMA FieldPairs ==
    ASSUME NEW name, NEW spec, NEW kv \in ProcessFelixConfiguration(name, spec)
    PROVE  \E h, f : kv = FieldPair(spec, h, f)
BY DEF FieldPair, ProcessFelixConfiguration

LEMMA PairsTyped ==
    ASSUME NEW k, NEW spec, NEW kv \in Process(k, spec)
    PROVE  k.kind \in Processed /\ kv.key[1] = V1Type[k.kind]
<1>1. CASE k.kind = "NetworkPolicy"
  <2>1. PICK v : kv = Pair(<<"policy", TierOrDefault(spec.tier), k.namespace, k.name>>, v)
    BY <1>1, PairsByKind DEF ProcessNetworkPolicy
  <2> QED BY <1>1, <2>1 DEF Pair, V1Type, Processed
<1>2. CASE k.kind = "IPPool"
  <2>1. PICK v : kv = Pair(<<"ippool", spec.cidr>>, v)
    BY <1>2, PairsByKind DEF ProcessIpPool
  <2> QED BY <1>2, <2>1 DEF Pair, V1Type, Processed
<1>3. CASE k.kind = "WorkloadEndpoint"
  <2>1. PICK v : kv = Pair(<<"workload", spec.node, k.namespace, k.name>>, v)
    BY <1>3, PairsByKind DEF ProcessWorkloadEndpoint
  <2> QED BY <1>3, <2>1 DEF Pair, V1Type, Processed
<1>4. CASE k.kind = "FelixConfiguration"
  <2>1. kv \in ProcessFelixConfiguration(k.name, spec)
    BY <1>4, PairsByKind
  <2>2. PICK h, f : kv = FieldPair(spec, h, f)
    BY <2>1, FieldPairs
  <2> QED BY <1>4, <2>2 DEF FieldPair, Pair, V1Type, Processed
<1> QED BY <1>1, <1>2, <1>3, <1>4, PairsByKind DEF Processed

LEMMA PairsDistinct ==
    ASSUME NEW k, NEW spec, NEW kv \in Process(k, spec), NEW kw \in Process(k, spec),
           kv.key = kw.key
    PROVE  kv = kw
<1>1. CASE k.kind = "NetworkPolicy"
  <2>1. \E x : ProcessNetworkPolicy(k.namespace, k.name, spec) \subseteq {x}
    BY DEF ProcessNetworkPolicy
  <2> QED BY <1>1, <2>1, PairsByKind
<1>2. CASE k.kind = "IPPool"
  <2>1. \E x : ProcessIpPool(spec) \subseteq {x}
    BY DEF ProcessIpPool
  <2> QED BY <1>2, <2>1, PairsByKind
<1>3. CASE k.kind = "WorkloadEndpoint"
  BY <1>3, PairsByKind DEF ProcessWorkloadEndpoint
<1>4. CASE k.kind = "FelixConfiguration"
  <2>1. ASSUME NEW x \in Process(k, spec)
        PROVE  \E h, f : x = FieldPair(spec, h, f)
    <3>1. x \in ProcessFelixConfiguration(k.name, spec)
      BY <1>4, PairsByKind
    <3> QED BY <3>1, FieldPairs
  <2>2. PICK h, f : kv = FieldPair(spec, h, f)
    BY <2>1
  <2>3. PICK g, e : kw = FieldPair(spec, g, e)
    BY <2>1
  <2>4. <<"config", h, f>> = <<"config", g, e>>
    BY <2>2, <2>3 DEF FieldPair, Pair
  <2> QED BY <2>2, <2>3, <2>4 DEF FieldPair
<1> QED BY <1>1, <1>2, <1>3, <1>4, PairsByKind DEF Processed

-----------------------------------------------------------------------------
(* The consumer of the v1 events.  It has the pairs of what the other      *)
(* consumer has; a key that two resources have is disputed; and a key of   *)
(* nobody's was left behind.                                               *)
ConsumerInv ==
    /\ \A k \in Keys : mirror[k] # Absent =>
          \A kv \in Process(k, mirror[k].spec) : kv.key \notin disputed =>
             kv.key \in DOMAIN v1 /\ v1[kv.key] = kv.value
    /\ \A j \in Keys, k \in Keys : j # k => V1KeysOf(j) \cap V1KeysOf(k) \subseteq disputed
    /\ \A x \in DOMAIN v1 : x \in abandoned \cup disputed \/ \E k \in Keys : x \in V1KeysOf(k)

LEMMA UpsertKeeps ==
    ASSUME ConsumerInv, mirror \in [Keys -> Values \cup {Absent}],
           NEW k \in Keys, NEW object \in Values, Upserted(k, object)
    PROVE  ConsumerInv'
<1> DEFINE pairs == Process(k, object.spec)
           now == {kv.key : kv \in pairs}
           others == UNION {V1KeysOf(j) : j \in Keys \ {k}}
<1>1. /\ mirror' = [mirror EXCEPT ![k] = object] /\ v1' = Put(pairs, v1)
      /\ abandoned' = (abandoned \cup (V1KeysOf(k) \ now)) \ now
      /\ disputed' = disputed \cup (now \cap others)
  BY DEF Upserted
<1>2. mirror'[k] = object /\ object # Absent /\ \A j \in Keys \ {k} : mirror'[j] = mirror[j]
  BY <1>1, PresetAssumption
<1>3. V1KeysOf(k)' = now /\ \A j \in Keys \ {k} : V1KeysOf(j)' = V1KeysOf(j)
  BY <1>2 DEF V1KeysOf, ProcessKeys
<1>4. /\ DOMAIN v1' = DOMAIN v1 \cup now
      /\ \A x \in DOMAIN v1 \ now : v1'[x] = v1[x]
      /\ \A kv \in pairs : v1'[kv.key] = kv.value
  <2>1. v1' = [x \in DOMAIN v1 \cup now |->
                  IF x \in now THEN (CHOOSE kv \in pairs : kv.key = x).value ELSE v1[x]]
    BY <1>1 DEF Put
  <2>2. ASSUME NEW kv \in pairs PROVE v1'[kv.key] = kv.value
    <3>1. (CHOOSE kw \in pairs : kw.key = kv.key) = kv
      BY PairsDistinct
    <3> QED BY <2>1, <3>1
  <2> QED BY <2>1, <2>2
<1>5. ASSUME NEW j \in Keys, mirror'[j] # Absent, NEW kv \in Process(j, mirror'[j].spec),
             kv.key \notin disputed'
      PROVE  kv.key \in DOMAIN v1' /\ v1'[kv.key] = kv.value
  <2>1. CASE j = k
    BY <1>2, <1>4, <1>5, <2>1
  <2>2. CASE j # k
    <3>1. kv.key \in V1KeysOf(j) /\ mirror'[j] = mirror[j]
      BY <1>2, <1>5, <2>2 DEF V1KeysOf, ProcessKeys
    <3>2. kv.key \notin now /\ kv.key \notin disputed
      BY <1>1, <1>5, <2>2, <3>1
    <3>3. kv.key \in DOMAIN v1 /\ v1[kv.key] = kv.value
      BY <1>5, <3>1, <3>2 DEF ConsumerInv
    <3> QED BY <1>4, <3>2, <3>3
  <2> QED BY <2>1, <2>2
<1>6. ASSUME NEW i \in Keys, NEW j \in Keys, i # j
      PROVE  V1KeysOf(i)' \cap V1KeysOf(j)' \subseteq disputed'
  <2> HIDE DEF now
  <2>1. CASE i = k
    <3>1. V1KeysOf(j)' \subseteq others
      BY <1>3, <1>6, <2>1
    <3> QED BY <1>1, <1>3, <2>1, <3>1
  <2>2. CASE j = k
    <3>1. V1KeysOf(i)' \subseteq others
      BY <1>3, <1>6, <2>2
    <3> QED BY <1>1, <1>3, <2>2, <3>1
  <2>3. CASE i # k /\ j # k
    BY <1>1, <1>3, <1>6, <2>3 DEF ConsumerInv
  <2> QED BY <2>1, <2>2, <2>3
<1>7. ASSUME NEW x \in DOMAIN v1'
      PROVE  x \in abandoned' \cup disputed' \/ \E j \in Keys : x \in V1KeysOf(j)'
  <2> HIDE DEF now, others
  <2>1. CASE x \in now
    BY <1>3, <2>1
  <2>2. CASE x \notin now
    <3>1. x \in DOMAIN v1
      BY <1>4, <1>7, <2>2
    <3>2. CASE x \in abandoned \cup disputed
      BY <1>1, <2>2, <3>2
    <3>3. ASSUME NEW j \in Keys, x \in V1KeysOf(j)
          PROVE  x \in abandoned' \cup disputed' \/ \E i \in Keys : x \in V1KeysOf(i)'
      BY <1>1, <1>3, <2>2, <3>3
    <3> QED BY <3>1, <3>2, <3>3 DEF ConsumerInv
  <2> QED BY <2>1, <2>2
<1> QED BY <1>5, <1>6, <1>7 DEF ConsumerInv

LEMMA DeleteKeeps ==
    ASSUME ConsumerInv, mirror \in [Keys -> Values \cup {Absent}],
           NEW objects, DOMAIN objects \subseteq Keys,
           \A k \in DOMAIN objects : objects[k] = mirror[k] /\ mirror[k] # Absent,
           Deleted(objects)
    PROVE  ConsumerInv'
<1> DEFINE gone == UNION {ProcessKeys(k, objects[k].spec) : k \in DOMAIN objects}
<1>1. /\ mirror' = [k \in Keys |-> IF k \in DOMAIN objects THEN Absent ELSE mirror[k]]
      /\ v1' = Without(v1, gone) /\ abandoned' = abandoned \ gone /\ disputed' = disputed
  BY DEF Deleted
<1>2. /\ \A k \in DOMAIN objects : V1KeysOf(k) \subseteq gone /\ V1KeysOf(k)' = {}
      /\ \A k \in Keys \ DOMAIN objects : mirror'[k] = mirror[k] /\ V1KeysOf(k)' = V1KeysOf(k)
      /\ \A x \in gone : \E k \in DOMAIN objects : x \in V1KeysOf(k)
  BY <1>1 DEF V1KeysOf
<1> HIDE DEF gone
<1>3. DOMAIN v1' = DOMAIN v1 \ gone /\ \A x \in DOMAIN v1 \ gone : v1'[x] = v1[x]
  BY <1>1 DEF Without
<1>4. ASSUME NEW j \in Keys, mirror'[j] # Absent, NEW kv \in Process(j, mirror'[j].spec),
             kv.key \notin disputed'
      PROVE  kv.key \in DOMAIN v1' /\ v1'[kv.key] = kv.value
  <2>1. j \notin DOMAIN objects /\ mirror'[j] = mirror[j]
    BY <1>1, <1>4
  <2>2. kv.key \in V1KeysOf(j) /\ mirror[j] # Absent
    BY <1>4, <2>1 DEF V1KeysOf, ProcessKeys
  <2>3. kv.key \notin gone
    BY <1>1, <1>2, <1>4, <2>1, <2>2 DEF ConsumerInv
  <2>4. kv.key \in DOMAIN v1 /\ v1[kv.key] = kv.value
    BY <1>1, <1>4, <2>1, <2>2 DEF ConsumerInv
  <2> QED BY <1>3, <2>3, <2>4
<1>5. ASSUME NEW i \in Keys, NEW j \in Keys, i # j
      PROVE  V1KeysOf(i)' \cap V1KeysOf(j)' \subseteq disputed'
  <2>1. V1KeysOf(i)' \subseteq V1KeysOf(i) /\ V1KeysOf(j)' \subseteq V1KeysOf(j)
    BY <1>2
  <2>2. V1KeysOf(i) \cap V1KeysOf(j) \subseteq disputed
    BY <1>5 DEF ConsumerInv
  <2> QED BY <1>1, <2>1, <2>2
<1>6. ASSUME NEW x \in DOMAIN v1'
      PROVE  x \in abandoned' \cup disputed' \/ \E j \in Keys : x \in V1KeysOf(j)'
  <2>1. x \in DOMAIN v1 /\ x \notin gone
    BY <1>3, <1>6
  <2>2. CASE x \in abandoned \cup disputed
    BY <1>1, <2>1, <2>2
  <2>3. ASSUME NEW j \in Keys, x \in V1KeysOf(j) PROVE \E i \in Keys : x \in V1KeysOf(i)'
    BY <1>2, <2>1, <2>3
  <2> QED BY <2>1, <2>2, <2>3 DEF ConsumerInv
<1> QED BY <1>4, <1>5, <1>6 DEF ConsumerInv

-----------------------------------------------------------------------------
(* The watches.  What the consumer will hold when the list in progress, if *)
(* any, is done: what is to be listed, or has been; the rest is swept.     *)
Base(k) ==
    IF phase[k.kind] = "watching" THEN mirror[k]
    ELSE IF todo[k] # Absent THEN todo[k]
    ELSE IF k \in seen THEN known[k]
    ELSE Absent

Notices == [type : {"apply", "delete"}, key : Keys, object : Values]

WatchTypeOK ==
    /\ phase \in [Kinds -> {"down", "listing", "watching"}]
    /\ todo \in [Keys -> Values \cup {Absent}] /\ known \in [Keys -> Values \cup {Absent}]
    /\ mirror = known /\ seen \subseteq Keys
    /\ changes \in [Kinds -> Seq(Notices)]
    /\ \A kind \in Kinds : \A i \in 1 .. Len(changes[kind]) : changes[kind][i].key.kind = kind

Followed ==
    \A k \in Keys : k.kind \in Kinds /\ phase[k.kind] # "down" =>
        Leads(changes[k.kind], Base(k), k, Content(k))

StatusInv ==
    /\ per_kind_insync \subseteq Kinds /\ combined_insync \in BOOLEAN
    /\ statuses = IF combined_insync THEN <<"ResyncInProgress", "InSync">>
                                     ELSE <<"ResyncInProgress">>
    /\ combined_insync => per_kind_insync = Kinds

(* Objects nobody has written: no change of theirs is on its way, and once *)
(* their kind was in sync the consumer has had them.                       *)
Original(k) == entries[k] # Absent /\ entries[k].revision = 1
OriginalsKept ==
    /\ next_revision > 1
    /\ \A k \in Keys : k.kind \in Kinds /\ Original(k) =>
          /\ \A i \in 1 .. Len(changes[k.kind]) : changes[k.kind][i].key # k
          /\ k.kind \in per_kind_insync => known[k] = entries[k].value

SyncInv == /\ StoreInv /\ WatchTypeOK /\ Followed /\ StatusInv /\ OriginalsKept
           /\ ConsumerInv

LEMMA TypedLog ==
    ASSUME WatchTypeOK, NEW kind \in Kinds
    PROVE  /\ changes[kind] \in Seq(Notices)
           /\ Len(changes[kind]) \in Nat
           /\ \A i \in 1 .. Len(changes[kind]) : changes[kind][i].key.kind = kind
BY DEF WatchTypeOK

LEMMA ContentType ==
    ASSUME StoreInv, NEW k \in Keys
    PROVE  Content(k) \in Values \cup {Absent} /\ (Content(k) = Absent <=> entries[k] = Absent)
<1>1. entries[k] \in Versioned \cup {Absent}
  BY DEF StoreInv, StoreTypeOK
<1> QED BY <1>1, PresetAssumption DEF Content, Versioned

LEMMA InitSync == Init => SyncInv
<1> SUFFICES ASSUME Init PROVE SyncInv
  OBVIOUS
<1> USE DEF Init, Nowhere
<1>1. StoreInv
  BY StoreInitInv
<1>2. WatchTypeOK
  BY DEF WatchTypeOK
<1>3. Followed
  BY DEF Followed
<1>4. StatusInv
  BY DEF StatusInv
<1>5. OriginalsKept
  BY DEF OriginalsKept, StoreInit, CasInit
<1>6. ConsumerInv
  BY DEF ConsumerInv, V1KeysOf
<1> QED BY <1>1, <1>2, <1>3, <1>4, <1>5, <1>6 DEF SyncInv

(* What depends on the store is kept by the steps that leave it alone.     *)
LEMMA SameStore ==
    ASSUME StoreInv, UNCHANGED storeVars
    PROVE  /\ StoreInv' /\ UNCHANGED entries /\ next_revision' = next_revision
           /\ \A k : Content(k)' = Content(k) /\ (Original(k)' <=> Original(k))
<1>1. StoreInv'
  BY StoreNextInv
<1> QED BY <1>1 DEF storeVars, casVars, Content, Original

LEMMA StartListKeeps ==
    ASSUME SyncInv, NEW kind \in Kinds, StartList(kind)
    PROVE  SyncInv'
<1>1. /\ StoreInv /\ WatchTypeOK /\ Followed /\ StatusInv /\ OriginalsKept /\ ConsumerInv
  BY DEF SyncInv
<1>2. /\ phase[kind] = "down" /\ phase' = [phase EXCEPT ![kind] = "listing"]
      /\ todo' = [k \in Keys |-> IF k.kind = kind THEN Content(k) ELSE todo[k]]
      /\ changes' = [changes EXCEPT ![kind] = << >>] /\ seen' = seen \ KeysOf(kind)
      /\ UNCHANGED storeVars /\ UNCHANGED <<known, mirror, v1, abandoned, disputed>>
      /\ UNCHANGED <<per_kind_insync, combined_insync, statuses>>
  BY DEF StartList, syncVars, consumerVars
<1>3. /\ StoreInv' /\ entries' = entries /\ next_revision' = next_revision
      /\ \A k : Content(k)' = Content(k) /\ (Original(k)' <=> Original(k))
  BY <1>1, <1>2, SameStore
<1>4. WatchTypeOK'
  <2>1. \A x \in Kinds : changes'[x] = changes[x] \/ changes'[x] = << >>
    BY <1>1, <1>2 DEF WatchTypeOK
  <2>2. changes' \in [Kinds -> Seq(Notices)]
    BY <1>1, <1>2 DEF WatchTypeOK
  <2>3. todo' \in [Keys -> Values \cup {Absent}]
    BY <1>1, <1>2, ContentType DEF WatchTypeOK
  <2> QED BY <1>1, <1>2, <2>1, <2>2, <2>3 DEF WatchTypeOK
<1>5. ASSUME NEW k \in Keys, k.kind \in Kinds, phase'[k.kind] # "down"
      PROVE  Leads(changes'[k.kind], Base(k)', k, Content(k)')
  <2>1. CASE k.kind = kind
    <3>1. /\ phase'[k.kind] = "listing" /\ todo'[k] = Content(k) /\ changes'[k.kind] = << >>
          /\ k \notin seen'
      BY <1>1, <1>2, <2>1 DEF WatchTypeOK, KeysOf
    <3>2. Base(k)' = Content(k)
      BY <3>1 DEF Base
    <3> QED BY <1>3, <3>1, <3>2, NoChanges
  <2>2. CASE k.kind # kind
    <3>1. /\ phase'[k.kind] = phase[k.kind] /\ todo'[k] = todo[k]
          /\ changes'[k.kind] = changes[k.kind] /\ (k \in seen' <=> k \in seen)
      BY <1>1, <1>2, <1>5, <2>2 DEF WatchTypeOK, KeysOf
    <3>2. Base(k)' = Base(k)
      BY <1>2, <3>1 DEF Base
    <3> QED BY <1>1, <1>3, <1>5, <3>1, <3>2 DEF Followed
  <2> QED BY <2>1, <2>2
<1>6. StatusInv'
  BY <1>1, <1>2 DEF StatusInv
<1>7. OriginalsKept'
  <2>1. \A x \in Kinds : changes'[x] = changes[x] \/ changes'[x] = << >>
    BY <1>1, <1>2 DEF WatchTypeOK
  <2> QED BY <1>1, <1>2, <1>3, <2>1 DEF OriginalsKept
<1>8. ConsumerInv'
  BY <1>1, <1>2 DEF ConsumerInv, V1KeysOf
<1> QED BY <1>3, <1>4, <1>5, <1>6, <1>7, <1>8 DEF SyncInv, Followed

LEMMA DesyncKeeps ==
    ASSUME SyncInv, NEW kind \in Kinds, Desync(kind)
    PROVE  SyncInv'
<1>1. /\ StoreInv /\ WatchTypeOK /\ Followed /\ StatusInv /\ OriginalsKept /\ ConsumerInv
  BY DEF SyncInv
<1>2. /\ phase' = [phase EXCEPT ![kind] = "down"]
      /\ todo' = [k \in Keys |-> IF k.kind = kind THEN Absent ELSE todo[k]]
      /\ changes' = [changes EXCEPT ![kind] = << >>] /\ seen' = seen
      /\ UNCHANGED storeVars /\ UNCHANGED <<known, mirror, v1, abandoned, disputed>>
      /\ UNCHANGED <<per_kind_insync, combined_insync, statuses>>
  BY DEF Desync, syncVars, consumerVars
<1>3. /\ StoreInv' /\ entries' = entries /\ next_revision' = next_revision
      /\ \A k : Content(k)' = Content(k) /\ (Original(k)' <=> Original(k))
  BY <1>1, <1>2, SameStore
<1>4. WatchTypeOK'
  <2>1. \A x \in Kinds : changes'[x] = changes[x] \/ changes'[x] = << >>
    BY <1>1, <1>2 DEF WatchTypeOK
  <2>2. changes' \in [Kinds -> Seq(Notices)]
    BY <1>1, <1>2 DEF WatchTypeOK
  <2> QED BY <1>1, <1>2, <2>1, <2>2 DEF WatchTypeOK
<1>5. ASSUME NEW k \in Keys, k.kind \in Kinds, phase'[k.kind] # "down"
      PROVE  Leads(changes'[k.kind], Base(k)', k, Content(k)')
  <2>1. k.kind # kind
    BY <1>1, <1>2, <1>5 DEF WatchTypeOK
  <2>2. /\ phase'[k.kind] = phase[k.kind] /\ todo'[k] = todo[k]
        /\ changes'[k.kind] = changes[k.kind]
    BY <1>1, <1>2, <1>5, <2>1 DEF WatchTypeOK
  <2>3. Base(k)' = Base(k)
    BY <1>2, <2>2 DEF Base
  <2> QED BY <1>1, <1>3, <1>5, <2>2, <2>3 DEF Followed
<1>6. StatusInv'
  BY <1>1, <1>2 DEF StatusInv
<1>7. OriginalsKept'
  <2>1. \A x \in Kinds : changes'[x] = changes[x] \/ changes'[x] = << >>
    BY <1>1, <1>2 DEF WatchTypeOK
  <2> QED BY <1>1, <1>2, <1>3, <2>1 DEF OriginalsKept
<1>8. ConsumerInv'
  BY <1>1, <1>2 DEF ConsumerInv, V1KeysOf
<1> QED BY <1>3, <1>4, <1>5, <1>6, <1>7, <1>8 DEF SyncInv, Followed

(* An object nobody has written is what the list and its changes end in.   *)
LEMMA OriginalBase ==
    ASSUME SyncInv, NEW k \in Keys, k.kind \in Kinds, phase[k.kind] # "down", Original(k)
    PROVE  Base(k) = entries[k].value /\ Base(k) # Absent
<1>1. Leads(changes[k.kind], Base(k), k, Content(k))
  BY DEF SyncInv, Followed
<1>2. \A i \in 1 .. Len(changes[k.kind]) : changes[k.kind][i].key # k
  BY DEF SyncInv, OriginalsKept
<1>3. Base(k) = Content(k)
  BY <1>1, <1>2 DEF Leads, After
<1>4. Content(k) # Absent
  BY ContentType DEF SyncInv, Original
<1> QED BY <1>3, <1>4 DEF Content, Original

LEMMA InitApplyKeeps ==
    ASSUME SyncInv, NEW kind \in Kinds, NEW k \in KeysOf(kind), InitApply(k)
    PROVE  SyncInv'
<1>1. /\ StoreInv /\ WatchTypeOK /\ Followed /\ StatusInv /\ OriginalsKept /\ ConsumerInv
  BY DEF SyncInv
<1>2. /\ phase[kind] = "listing" /\ todo[k] # Absent /\ k \in Keys /\ k.kind = kind
      /\ todo' = [todo EXCEPT ![k] = Absent] /\ seen' = seen \cup {k}
      /\ known' = [known EXCEPT ![k] = todo[k]] /\ Upserted(k, todo[k])
      /\ phase' = phase /\ changes' = changes /\ UNCHANGED storeVars
      /\ UNCHANGED <<per_kind_insync, combined_insync, statuses>>
  BY DEF InitApply, syncVars, KeysOf
<1>3. /\ StoreInv' /\ entries' = entries /\ next_revision' = next_revision
      /\ \A x : Content(x)' = Content(x) /\ (Original(x)' <=> Original(x))
  BY <1>1, <1>2, SameStore
<1>4. todo[k] \in Values /\ mirror' = [mirror EXCEPT ![k] = todo[k]]
  BY <1>1, <1>2 DEF WatchTypeOK, Upserted
<1>5. WatchTypeOK'
  BY <1>1, <1>2, <1>4 DEF WatchTypeOK
<1>6. ASSUME NEW x \in Keys PROVE Base(x)' = Base(x)
  <2>1. CASE x = k
    BY <1>1, <1>2, <2>1 DEF Base, WatchTypeOK
  <2>2. CASE x # k
    BY <1>1, <1>2, <1>4, <2>2 DEF Base, WatchTypeOK
  <2> QED BY <2>1, <2>2
<1>7. Followed'
  BY <1>1, <1>2, <1>3, <1>6 DEF Followed
<1>8. StatusInv'
  BY <1>1, <1>2 DEF StatusInv
<1>9. ASSUME NEW x \in Keys, x.kind \in Kinds, Original(x), x.kind \in per_kind_insync
      PROVE  known'[x] = entries[x].value
  <2>1. CASE x = k
    <3>1. Base(k) = todo[k] /\ known'[k] = todo[k]
      BY <1>1, <1>2 DEF Base, WatchTypeOK
    <3> QED BY <1>2, <1>9, <2>1, <3>1, OriginalBase
  <2>2. CASE x # k
    BY <1>1, <1>2, <1>9, <2>2 DEF OriginalsKept, WatchTypeOK
  <2> QED BY <2>1, <2>2
<1>10. OriginalsKept'
  BY <1>1, <1>2, <1>3, <1>9 DEF OriginalsKept
<1>11. ConsumerInv'
  BY <1>1, <1>2, <1>4, UpsertKeeps DEF WatchTypeOK
<1> QED BY <1>3, <1>5, <1>7, <1>8, <1>10, <1>11 DEF SyncInv

LEMMA AppendToOne == ASSUME NEW x, NEW y PROVE Append(<<x>>, y) = <<x, y>>
<1>1. Append(<<x>>, y) = [i \in 1 .. 2 |-> IF i = 1 THEN x ELSE y]
  OBVIOUS
<1>2. <<x, y>> = [i \in 1 .. 2 |-> IF i = 1 THEN x ELSE y]
  OBVIOUS
<1> QED BY <1>1, <1>2

LEMMA KindInSyncKeeps ==
    ASSUME StatusInv, NEW kind \in Kinds, KindInSync(kind)
    PROVE  per_kind_insync' = per_kind_insync \cup {kind} /\ StatusInv'
<1> DEFINE all == per_kind_insync \cup {kind} = Kinds
<1>1. /\ per_kind_insync' = per_kind_insync \cup {kind}
      /\ combined_insync' = (combined_insync \/ all)
      /\ statuses' = IF all /\ ~ combined_insync THEN Append(statuses, "InSync") ELSE statuses
  BY DEF KindInSync
<1>2. /\ combined_insync \in BOOLEAN /\ per_kind_insync \subseteq Kinds
      /\ combined_insync => per_kind_insync = Kinds
  BY DEF StatusInv
<1>3. CASE combined_insync
  <2>1. combined_insync' = TRUE /\ statuses' = statuses
    BY <1>1, <1>3
  <2> QED BY <1>1, <1>2, <1>3, <2>1 DEF StatusInv
<1>4. CASE ~ combined_insync /\ all
  <2>1. combined_insync' = TRUE /\ statuses' = Append(statuses, "InSync")
    BY <1>1, <1>4
  <2>2. statuses = <<"ResyncInProgress">>
    BY <1>4 DEF StatusInv
  <2>3. statuses' = <<"ResyncInProgress", "InSync">>
    BY <2>1, <2>2, AppendToOne
  <2> QED BY <1>1, <1>4, <2>1, <2>3 DEF StatusInv
<1>5. CASE ~ combined_insync /\ ~ all
  <2>1. combined_insync' = FALSE /\ statuses' = statuses
    BY <1>1, <1>5
  <2> QED BY <1>1, <1>2, <1>5, <2>1 DEF StatusInv
<1> QED BY <1>3, <1>4, <1>5

LEMMA InitDoneKeeps ==
    ASSUME SyncInv, NEW kind \in Kinds, InitDone(kind)
    PROVE  SyncInv'
<1> DEFINE gone == Vanished(kind)
<1>1. /\ StoreInv /\ WatchTypeOK /\ Followed /\ StatusInv /\ OriginalsKept /\ ConsumerInv
  BY DEF SyncInv
<1>2. /\ phase[kind] = "listing" /\ \A k \in KeysOf(kind) : todo[k] = Absent
      /\ phase' = [phase EXCEPT ![kind] = "watching"]
      /\ known' = [k \in Keys |-> IF k \in gone THEN Absent ELSE known[k]]
      /\ seen' = seen \ KeysOf(kind) /\ Deleted([k \in gone |-> known[k]]) /\ KindInSync(kind)
      /\ UNCHANGED storeVars /\ todo' = todo /\ changes' = changes
  BY DEF InitDone
<1>3. /\ StoreInv' /\ entries' = entries /\ next_revision' = next_revision
      /\ \A x : Content(x)' = Content(x) /\ (Original(x)' <=> Original(x))
  BY <1>1, <1>2, SameStore
<1>4. /\ \A k \in Keys : k \in gone <=> k.kind = kind /\ known[k] # Absent /\ k \notin seen
      /\ gone \subseteq Keys
  BY DEF Vanished, KeysOf
<1> HIDE DEF gone
<1>5. mirror' = known'
  <2>1. mirror' = [k \in Keys |-> IF k \in gone THEN Absent ELSE mirror[k]]
    BY <1>2 DEF Deleted
  <2> QED BY <1>1, <1>2, <2>1 DEF WatchTypeOK
<1>6. WatchTypeOK'
  <2>1. known' \in [Keys -> Values \cup {Absent}] /\ seen' \subseteq Keys
    BY <1>1, <1>2 DEF WatchTypeOK
  <2>2. phase' \in [Kinds -> {"down", "listing", "watching"}]
    BY <1>1, <1>2 DEF WatchTypeOK
  <2>3. todo' = todo /\ changes' = changes
    BY <1>2
  <2> QED BY <1>1, <1>5, <2>1, <2>2, <2>3 DEF WatchTypeOK
<1>7. ASSUME NEW k \in Keys, k.kind \in Kinds, phase'[k.kind] # "down"
      PROVE  Base(k)' = Base(k) /\ phase[k.kind] # "down"
  <2>1. CASE k.kind = kind
    <3>1. phase'[k.kind] = "watching" /\ todo[k] = Absent /\ phase[k.kind] = "listing"
      BY <1>1, <1>2, <2>1 DEF WatchTypeOK, KeysOf
    <3>2. Base(k)' = known'[k] /\ Base(k) = IF k \in seen THEN known[k] ELSE Absent
      BY <1>5, <3>1 DEF Base
    <3> QED BY <1>2, <1>4, <2>1, <3>1, <3>2
  <2>2. CASE k.kind # kind
    <3>1. /\ phase'[k.kind] = phase[k.kind] /\ known'[k] = known[k] /\ (k \in seen' <=> k \in seen)
      BY <1>1, <1>2, <1>4, <1>7, <2>2 DEF WatchTypeOK, KeysOf
    <3>2. mirror'[k] = mirror[k]
      BY <1>1, <1>5, <3>1 DEF WatchTypeOK
    <3> QED BY <1>2, <1>7, <3>1, <3>2 DEF Base
  <2> QED BY <2>1, <2>2
<1>8. Followed'
  BY <1>1, <1>2, <1>3, <1>7 DEF Followed
<1>9. per_kind_insync' = per_kind_insync \cup {kind} /\ StatusInv'
  BY <1>1, <1>2, KindInSyncKeeps
<1>10. ASSUME NEW k \in Keys, k.kind \in Kinds, Original(k), k.kind \in per_kind_insync'
       PROVE  known'[k] = entries[k].value
  <2>1. CASE k.kind = kind
    <3>1. phase[k.kind] = "listing" /\ todo[k] = Absent
      BY <1>2, <2>1 DEF KeysOf
    <3>2. Base(k) = entries[k].value /\ Base(k) # Absent
      BY <1>10, <3>1, OriginalBase
    <3>3. k \in seen /\ known[k] = entries[k].value
      BY <3>1, <3>2 DEF Base
    <3> QED BY <1>2, <1>4, <3>3
  <2>2. CASE k.kind # kind
    <3>1. known[k] = entries[k].value
      BY <1>1, <1>9, <1>10, <2>2 DEF OriginalsKept
    <3> QED BY <1>2, <1>4, <2>2, <3>1
  <2> QED BY <2>1, <2>2
<1>11. OriginalsKept'
  BY <1>1, <1>2, <1>3, <1>10 DEF OriginalsKept
<1>12. ConsumerInv'
  <2> DEFINE objects == [k \in gone |-> known[k]]
  <2>1. /\ DOMAIN objects \subseteq Keys
        /\ \A k \in DOMAIN objects : objects[k] = mirror[k] /\ mirror[k] # Absent
    BY <1>1, <1>4 DEF WatchTypeOK
  <2>2. mirror \in [Keys -> Values \cup {Absent}] /\ Deleted(objects)
    BY <1>1, <1>2 DEF WatchTypeOK
  <2> HIDE DEF objects
  <2> QED BY <1>1, <2>1, <2>2, DeleteKeeps
<1> QED BY <1>3, <1>6, <1>8, <1>9, <1>11, <1>12 DEF SyncInv

LEMMA LiveKeeps ==
    ASSUME SyncInv, NEW kind \in Kinds, Live(kind)
    PROVE  SyncInv'
<1> DEFINE log == changes[kind]
           ev == Head(log)
<1>1. /\ StoreInv /\ WatchTypeOK /\ Followed /\ StatusInv /\ OriginalsKept /\ ConsumerInv
  BY DEF SyncInv
<1>2. /\ phase[kind] = "watching" /\ log # << >>
      /\ changes' = [changes EXCEPT ![kind] = Tail(log)]
      /\ IF ev.type = "apply"
         THEN known' = [known EXCEPT ![ev.key] = ev.object] /\ Upserted(ev.key, ev.object)
         ELSE known' = [known EXCEPT ![ev.key] = Absent] /\ Deleted([k \in {ev.key} |-> ev.object])
      /\ UNCHANGED storeVars /\ phase' = phase /\ todo' = todo /\ seen' = seen
      /\ UNCHANGED <<per_kind_insync, combined_insync, statuses>>
  BY DEF Live, syncVars
<1>3. /\ StoreInv' /\ entries' = entries /\ next_revision' = next_revision
      /\ \A x : Content(x)' = Content(x) /\ (Original(x)' <=> Original(x))
  BY <1>1, <1>2, SameStore
<1>4. /\ log \in Seq(Notices) /\ \A i \in 1 .. Len(log) : log[i].key.kind = kind
  BY <1>1, TypedLog
<1>5. /\ ev = log[1] /\ ev \in Notices /\ 1 \in 1 .. Len(log)
      /\ Tail(log) \in Seq(Notices) /\ Len(Tail(log)) = Len(log) - 1
      /\ \A i \in 1 .. Len(Tail(log)) : i + 1 \in 1 .. Len(log) /\ Tail(log)[i] = log[i + 1]
  BY <1>2, <1>4
<1>6. ev.key \in Keys /\ ev.object \in Values /\ ev.type \in {"apply", "delete"}
      /\ ev.key.kind = kind /\ ev.object # Absent
  BY <1>4, <1>5, PresetAssumption DEF Notices
<1>7. /\ changes'[kind] = Tail(log) /\ \A x \in Kinds \ {kind} : changes'[x] = changes[x]
      /\ changes' \in [Kinds -> Seq(Notices)]
  BY <1>1, <1>2, <1>5 DEF WatchTypeOK
<1> HIDE DEF log, ev
<1>8. ev.type = "delete" => ev.object = mirror[ev.key]
  <2>1. Leads(log, Base(ev.key), ev.key, Content(ev.key)) /\ Base(ev.key) = mirror[ev.key]
    BY <1>1, <1>2, <1>6 DEF Followed, Base, log
  <2> QED BY <1>2, <1>4, <2>1, TailLeads DEF ev
<1>9. known' = [known EXCEPT ![ev.key] = Outcome(ev)] /\ mirror' = known' /\ ConsumerInv'
  <2>1. mirror \in [Keys -> Values \cup {Absent}] /\ mirror = known
    BY <1>1 DEF WatchTypeOK
  <2>2. CASE ev.type = "apply"
    <3>1. Upserted(ev.key, ev.object) /\ known' = [known EXCEPT ![ev.key] = ev.object]
      BY <1>2, <2>2
    <3>2. ConsumerInv'
      BY <1>1, <1>6, <2>1, <3>1, UpsertKeeps
    <3> QED BY <2>1, <2>2, <3>1, <3>2 DEF Upserted, Outcome
  <2>3. CASE ev.type = "delete"
    <3> DEFINE objects == [k \in {ev.key} |-> ev.object]
    <3>1. Deleted(objects) /\ known' = [known EXCEPT ![ev.key] = Absent]
      BY <1>2, <2>3
    <3>2. mirror' = known'
      BY <2>1, <3>1 DEF Deleted
    <3>3. /\ DOMAIN objects \subseteq Keys
          /\ \A k \in DOMAIN objects : objects[k] = mirror[k] /\ mirror[k] # Absent
      BY <1>6, <1>8, <2>3
    <3> HIDE DEF objects
    <3>4. ConsumerInv'
      BY <1>1, <2>1, <3>1, <3>3, DeleteKeeps
    <3> QED BY <2>3, <3>1, <3>2, <3>4 DEF Outcome
  <2> QED BY <1>6, <2>2, <2>3
<1>10. WatchTypeOK'
  <2>1. Outcome(ev) \in Values \cup {Absent}
    BY <1>6 DEF Outcome
  <2>2. known' \in [Keys -> Values \cup {Absent}]
    BY <1>1, <1>9, <2>1 DEF WatchTypeOK
  <2>3. ASSUME NEW x \in Kinds, NEW i \in 1 .. Len(changes'[x])
        PROVE  changes'[x][i].key.kind = x
    <3>1. CASE x = kind
      BY <1>4, <1>5, <1>7, <2>3, <3>1
    <3>2. CASE x # kind
      BY <1>1, <1>7, <2>3, <3>2 DEF WatchTypeOK
    <3> QED BY <3>1, <3>2
  <2> QED BY <1>1, <1>2, <1>7, <1>9, <2>2, <2>3 DEF WatchTypeOK
<1>11. ASSUME NEW k \in Keys, k.kind \in Kinds, phase'[k.kind] # "down"
       PROVE  Leads(changes'[k.kind], Base(k)', k, Content(k)')
  <2>1. Leads(changes[k.kind], Base(k), k, Content(k))
    BY <1>1, <1>2, <1>11 DEF Followed
  <2>2. CASE k.kind = kind
    <3>1. Base(k) = mirror[k] /\ Base(k)' = mirror'[k]
      BY <1>2, <2>2 DEF Base
    <3>2. Base(k)' = IF ev.key = k THEN Outcome(ev) ELSE Base(k)
      BY <1>1, <1>9, <3>1 DEF WatchTypeOK
    <3>3. Leads(Tail(log), IF ev.key = k THEN Outcome(ev) ELSE Base(k), k, Content(k))
      BY <1>2, <1>4, <2>1, <2>2, TailLeads DEF log, ev
    <3>4. changes'[k.kind] = Tail(log) /\ Content(k)' = Content(k)
      BY <1>3, <1>7, <2>2
    <3> QED BY <3>2, <3>3, <3>4
  <2>3. CASE k.kind # kind
    <3>1. known'[k] = known[k] /\ mirror'[k] = mirror[k]
      BY <1>1, <1>6, <1>9, <2>3 DEF WatchTypeOK
    <3>2. Base(k)' = Base(k)
      BY <1>2, <3>1 DEF Base
    <3> QED BY <1>3, <1>7, <1>11, <2>1, <2>3, <3>2
  <2> QED BY <2>2, <2>3
<1>12. StatusInv'
  BY <1>1, <1>2 DEF StatusInv
<1>13. ASSUME NEW k \in Keys, k.kind \in Kinds, Original(k)
       PROVE  /\ \A i \in 1 .. Len(changes'[k.kind]) : changes'[k.kind][i].key # k
              /\ k.kind \in per_kind_insync => known'[k] = entries[k].value
  <2>1. /\ \A i \in 1 .. Len(changes[k.kind]) : changes[k.kind][i].key # k
        /\ k.kind \in per_kind_insync => known[k] = entries[k].value
    BY <1>1, <1>13 DEF OriginalsKept
  <2>2. CASE k.kind = kind
    <3>1. ev.key # k
      BY <1>5, <2>1, <2>2 DEF log
    <3>2. known'[k] = known[k]
      BY <1>1, <1>9, <3>1 DEF WatchTypeOK
    <3>3. \A i \in 1 .. Len(Tail(log)) : Tail(log)[i].key # k
      BY <1>5, <2>1, <2>2 DEF log
    <3> QED BY <1>7, <2>1, <2>2, <3>2, <3>3
  <2>3. CASE k.kind # kind
    <3>1. known'[k] = known[k]
      BY <1>1, <1>6, <1>9, <2>3 DEF WatchTypeOK
    <3> QED BY <1>7, <1>13, <2>1, <2>3, <3>1
  <2> QED BY <2>2, <2>3
<1>14. OriginalsKept'
  BY <1>1, <1>2, <1>3, <1>13 DEF OriginalsKept
<1> QED BY <1>3, <1>9, <1>10, <1>11, <1>12, <1>14 DEF SyncInv, Followed

-----------------------------------------------------------------------------
(* The writers change one object at a time, and date what they write.      *)
LEMMA StoreWrites ==
    ASSUME StoreInv, StoreNext
    PROVE  /\ next_revision' >= next_revision
           /\ UNCHANGED entries \/ \E k \in Keys :
                 /\ \A x \in Keys \ {k} : entries'[x] = entries[x]
                 /\ entries'[k] # Absent => entries'[k].revision = next_revision
<1> DEFINE Good == /\ next_revision' >= next_revision
                   /\ UNCHANGED entries \/ \E k \in Keys :
                         /\ \A x \in Keys \ {k} : entries'[x] = entries[x]
                         /\ entries'[k] # Absent => entries'[k].revision = next_revision
<1>1. entries \in [Keys -> Versioned \cup {Absent}] /\ next_revision \in Nat
  BY DEF StoreInv, StoreTypeOK
<1>2. ASSUME UNCHANGED casVars PROVE Good
  BY <1>1, <1>2 DEF casVars
<1>3. ASSUME NEW k \in Keys, NEW v, Bump(k, v) PROVE Good
  <2>1. entries' = [entries EXCEPT ![k] = Stamped(v)] /\ next_revision' = next_revision + 1
    BY <1>3 DEF Bump
  <2>2. entries'[k].revision = next_revision /\ \A x \in Keys \ {k} : entries'[x] = entries[x]
    BY <1>1, <2>1 DEF Stamped
  <2> QED BY <1>1, <2>1, <2>2
<1>4. ASSUME NEW k \in Keys, NEW r, Delete(k, r) PROVE Good
  <2>1. entries' = [entries EXCEPT ![k] = Absent] /\ next_revision' = next_revision
    BY <1>4 DEF Delete
  <2>2. entries'[k] = Absent /\ \A x \in Keys \ {k} : entries'[x] = entries[x]
    BY <1>1, <2>1
  <2> QED BY <1>1, <2>1, <2>2
<1> HIDE DEF Good
<1>5. ASSUME NEW c \in Clients, Write(c) \/ Crash(c) PROVE Good
  <2>1. CASE SoftDelete(c) /\ Unmoved(c)
    <3>1. job[c] \in Jobs
      BY <2>1 DEF SoftDelete, StoreInv, HoldsWhatItNames
    <3> QED BY <1>3, <2>1, <3>1, JobParts DEF SoftDelete, Update
  <2>2. CASE ~ (SoftDelete(c) /\ Unmoved(c))
    <3>1. Ends(c)
      BY <1>5, <2>2, WritesEnd DEF Write
    <3> QED BY <1>2, <1>3, <1>4, <3>1 DEF Ends
  <2> QED BY <2>1, <2>2
<1>6. ASSUME NEW c \in Clients, NEW j \in Work, Get(c, j) \/ PatchLabels(c, j) PROVE Good
  <2>1. j.key \in Keys
    BY WorkAssumption, JobParts
  <2> QED BY <1>2, <1>3, <1>6, <2>1 DEF Get, PatchLabels
<1>7. Good
  BY <1>5, <1>6 DEF StoreNext
<1> QED BY <1>7 DEF Good

LEMMA WritersKeep ==
    ASSUME SyncInv, Writers
    PROVE  SyncInv'
<1>1. /\ StoreInv /\ WatchTypeOK /\ Followed /\ StatusInv /\ OriginalsKept /\ ConsumerInv
  BY DEF SyncInv
<1>2. /\ StoreNext /\ Noticed
      /\ phase' = phase /\ todo' = todo /\ known' = known /\ seen' = seen
      /\ UNCHANGED <<per_kind_insync, combined_insync, statuses>>
      /\ UNCHANGED <<mirror, v1, abandoned, disputed>>
  BY DEF Writers, syncVars, consumerVars
<1>3. StoreInv'
  BY <1>1, <1>2, StoreNextInv
<1>4. /\ next_revision' >= next_revision
      /\ UNCHANGED entries \/ \E k \in Keys :
            /\ \A x \in Keys \ {k} : entries'[x] = entries[x]
            /\ entries'[k] # Absent => entries'[k].revision = next_revision
  BY <1>1, <1>2, StoreWrites
<1>5. \A x \in Keys, y \in Keys : entries'[x] # entries[x] /\ entries'[y] # entries[y] => x = y
  BY <1>4
<1>6. ASSUME NEW x \in Keys PROVE Base(x)' = Base(x)
  BY <1>2 DEF Base
(* One kind's log: as it was, or with the change of one of its keys. *)
<1>7. ASSUME NEW kind \in Kinds
      PROVE  \/ /\ changes'[kind] = changes[kind]
                /\ phase[kind] = "down" \/ \A k \in KeysOf(kind) : entries'[k] = entries[k]
             \/ \E k \in KeysOf(kind) :
                   /\ entries'[k] # entries[k]
                   /\ changes'[kind] = Append(changes[kind], Change(k))
  <2> DEFINE w == CHOOSE k \in Written(kind) : TRUE
  <2>1. changes'[kind] = IF phase[kind] = "down" \/ Written(kind) = {} THEN changes[kind]
                         ELSE Append(changes[kind], Change(w))
    BY <1>2 DEF Noticed
  <2>2. CASE phase[kind] = "down" \/ Written(kind) = {}
    BY <2>1, <2>2 DEF Written
  <2>3. CASE phase[kind] # "down" /\ Written(kind) # {}
    <3>1. w \in Written(kind)
      BY <2>3
    <3> HIDE DEF w
    <3> QED BY <2>1, <2>3, <3>1 DEF Written
  <2> QED BY <2>2, <2>3
<1>8. ASSUME NEW k \in Keys, entries'[k] # entries[k]
      PROVE  /\ Change(k) \in Notices /\ Change(k).key = k /\ Outcome(Change(k)) = Content(k)'
             /\ Change(k).type = "delete" => Change(k).object = Content(k)
  <2>1. entries[k] \in Versioned \cup {Absent} /\ entries'[k] \in Versioned \cup {Absent}
    BY <1>1, <1>3 DEF StoreInv, StoreTypeOK
  <2>2. CASE entries'[k] = Absent
    <3>1. entries[k] \in Versioned /\ entries[k] # Absent
      BY <1>8, <2>1, <2>2
    <3>2. Change(k) = [type |-> "delete", key |-> k, object |-> entries[k].value]
      BY <2>2 DEF Change
    <3>3. Content(k) = entries[k].value /\ Content(k)' = Absent
      BY <2>2, <3>1 DEF Content
    <3> QED BY <3>1, <3>2, <3>3 DEF Outcome, Notices, Versioned
  <2>3. CASE entries'[k] # Absent
    <3>1. Change(k) = [type |-> "apply", key |-> k, object |-> entries'[k].value]
      BY <2>3 DEF Change
    <3>2. Content(k)' = entries'[k].value /\ entries'[k].value \in Values
      BY <2>1, <2>3 DEF Content, Versioned
    <3> QED BY <3>1, <3>2 DEF Outcome, Notices
  <2> QED BY <2>2, <2>3
<1>9. ASSUME NEW kind \in Kinds
      PROVE  /\ changes'[kind] \in Seq(Notices)
             /\ \A i \in 1 .. Len(changes'[kind]) :
                   \/ i \in 1 .. Len(changes[kind]) /\ changes'[kind][i] = changes[kind][i]
                   \/ \E k \in KeysOf(kind) : entries'[k] # entries[k] /\ changes'[kind][i].key = k
  <2>1. changes[kind] \in Seq(Notices)
    BY <1>1, TypedLog
  <2>2. ASSUME NEW k \in KeysOf(kind), entries'[k] # entries[k],
               changes'[kind] = Append(changes[kind], Change(k))
        PROVE  /\ changes'[kind] \in Seq(Notices)
               /\ \A i \in 1 .. Len(changes'[kind]) :
                     \/ i \in 1 .. Len(changes[kind]) /\ changes'[kind][i] = changes[kind][i]
                     \/ changes'[kind][i].key = k
    <3> DEFINE e == Change(k)
    <3>1. e \in Notices /\ e.key = k
      BY <1>8, <2>2 DEF KeysOf
    <3>2. changes'[kind] = Append(changes[kind], e)
      BY <2>2
    <3> HIDE DEF e
    <3> QED BY <2>1, <3>1, <3>2
  <2> QED BY <1>7, <2>1, <2>2
<1>10. WatchTypeOK'
  <2>1. changes' \in [Kinds -> Seq(Notices)]
    <3>1. DOMAIN changes' = Kinds /\ changes' = [x \in Kinds |-> changes'[x]]
      BY <1>2 DEF Noticed
    <3> QED BY <1>9, <3>1
  <2>2. \A kind \in Kinds : \A i \in 1 .. Len(changes'[kind]) : changes'[kind][i].key.kind = kind
    BY <1>1, <1>9, TypedLog DEF KeysOf
  <2> QED BY <1>1, <1>2, <2>1, <2>2 DEF WatchTypeOK
<1>11. ASSUME NEW k \in Keys, k.kind \in Kinds, phase'[k.kind] # "down"
       PROVE  Leads(changes'[k.kind], Base(k)', k, Content(k)')
  <2> DEFINE log == changes[k.kind]
  <2>1. Leads(log, Base(k), k, Content(k)) /\ log \in Seq(Notices)
    BY <1>1, <1>2, <1>11, TypedLog DEF Followed
  <2>2. CASE changes'[k.kind] = log /\ entries'[k] = entries[k]
    BY <1>6, <2>1, <2>2 DEF Content
  <2>3. ASSUME NEW x \in KeysOf(k.kind), entries'[x] # entries[x],
               changes'[k.kind] = Append(log, Change(x))
        PROVE  Leads(changes'[k.kind], Base(k)', k, Content(k)')
    <3> DEFINE e == Change(x)
    <3>1. /\ e \in Notices /\ e.key = x /\ Outcome(e) = Content(x)'
          /\ e.type = "delete" => e.object = Content(x)
      BY <1>8, <2>3 DEF KeysOf
    <3>2. changes'[k.kind] = Append(log, e)
      BY <2>3
    <3> HIDE DEF e, log
    <3>3. Leads(Append(log, e), Base(k), k, IF e.key = k THEN Outcome(e) ELSE Content(k))
      BY <2>1, <3>1, AppendLeads
    <3>4. (IF e.key = k THEN Outcome(e) ELSE Content(k)) = Content(k)'
      <4>1. CASE x = k
        BY <3>1, <4>1
      <4>2. CASE x # k
        <5>1. entries'[k] = entries[k]
          BY <1>5, <2>3, <4>2 DEF KeysOf
        <5> QED BY <3>1, <4>2, <5>1 DEF Content
      <4> QED BY <4>1, <4>2
    <3> QED BY <1>6, <3>2, <3>3, <3>4
  <2> QED BY <1>2, <1>7, <1>11, <2>2, <2>3 DEF KeysOf
<1>12. StatusInv'
  BY <1>1, <1>2 DEF StatusInv
<1>13. ASSUME NEW k \in Keys, k.kind \in Kinds, Original(k)'
       PROVE  /\ entries'[k] = entries[k] /\ Original(k)
              /\ \A i \in 1 .. Len(changes'[k.kind]) : changes'[k.kind][i].key # k
              /\ k.kind \in per_kind_insync' => known'[k] = entries'[k].value
  <2>1. next_revision > 1 /\ next_revision \in Nat
    BY <1>1 DEF OriginalsKept, StoreInv, StoreTypeOK
  <2>2. entries'[k] = entries[k]
    BY <1>4, <1>13, <2>1 DEF Original
  <2>3. Original(k)
    BY <1>13, <2>2 DEF Original
  <2>4. /\ \A i \in 1 .. Len(changes[k.kind]) : changes[k.kind][i].key # k
        /\ k.kind \in per_kind_insync => known[k] = entries[k].value
    BY <1>1, <1>13, <2>3 DEF OriginalsKept
  <2>5. \A i \in 1 .. Len(changes'[k.kind]) : changes'[k.kind][i].key # k
    BY <1>9, <1>13, <2>2, <2>4
  <2> QED BY <1>2, <2>2, <2>3, <2>4, <2>5
<1>14. OriginalsKept'
  <2>1. next_revision' > 1
    BY <1>1, <1>3, <1>4 DEF OriginalsKept, StoreInv, StoreTypeOK
  <2> QED BY <1>13, <2>1 DEF OriginalsKept
<1>15. ConsumerInv'
  BY <1>1, <1>2 DEF ConsumerInv, V1KeysOf
<1> QED BY <1>3, <1>10, <1>11, <1>12, <1>14, <1>15 DEF SyncInv, Followed

-----------------------------------------------------------------------------
LEMMA NextSync == SyncInv /\ [Next]_vars => SyncInv'
<1> SUFFICES ASSUME SyncInv, [Next]_vars PROVE SyncInv'
  OBVIOUS
<1>1. CASE Writers
  BY <1>1, WritersKeep
<1>2. ASSUME NEW kind \in Kinds, SyncStep(kind) \/ Desync(kind) PROVE SyncInv'
  BY <1>2, StartListKeeps, InitApplyKeeps, InitDoneKeeps, LiveKeeps, DesyncKeeps DEF SyncStep
<1>3. CASE UNCHANGED vars
  <2>1. /\ StoreInv' /\ entries' = entries /\ next_revision' = next_revision
        /\ \A k : Content(k)' = Content(k) /\ (Original(k)' <=> Original(k))
    BY <1>3, SameStore DEF vars, SyncInv
  <2>2. /\ UNCHANGED <<phase, todo, changes, known, seen, mirror, v1, abandoned, disputed>>
        /\ UNCHANGED <<per_kind_insync, combined_insync, statuses>>
    BY <1>3 DEF vars, watchVars, syncVars, consumerVars
  <2>3. \A k : Base(k)' = Base(k)
    BY <2>2 DEF Base
  <2>4. WatchTypeOK' /\ Followed' /\ StatusInv'
    BY <2>1, <2>2, <2>3 DEF SyncInv, WatchTypeOK, Followed, StatusInv
  <2>5. OriginalsKept' /\ ConsumerInv'
    BY <2>1, <2>2 DEF SyncInv, OriginalsKept, ConsumerInv, V1KeysOf
  <2> QED BY <2>1, <2>4, <2>5 DEF SyncInv
<1> QED BY <1>1, <1>2, <1>3 DEF Next

(* The inductive invariant of the syncers: the writers' (StoreInv); that   *)
(* the list in progress and the changes behind it lead to what is stored;  *)
(* that an object nobody has written is on its way or delivered; and that  *)
(* the v1 consumer has what the v3 consumer's objects convert to.          *)
THEOREM SyncInvariant == Spec => []SyncInv
BY InitSync, NextSync, PTL DEF Spec

(* What a consumer expects is what the changes on their way end in.        *)
LEMMA ExpectedIsAfter ==
    ASSUME WatchTypeOK, NEW k \in Keys, k.kind \in Kinds, NEW v,
           After(changes[k.kind], mirror[k], k, Len(changes[k.kind]), v)
    PROVE  Expected(k) = v
<1> DEFINE log == changes[k.kind]
           n == Len(log)
           last == CHOOSE i \in Pending(k) : \A j \in Pending(k) : j <= i
<1>1. n \in Nat /\ DOMAIN log = 1 .. n
  BY TypedLog
<1>2. Pending(k) = {i \in 1 .. n : log[i].key = k}
  BY <1>1 DEF Pending
<1> HIDE DEF n
<1>3. CASE \A i \in 1 .. n : log[i].key # k
  <2>1. Pending(k) = {}
    BY <1>2, <1>3
  <2>2. v = mirror[k]
    BY <1>3 DEF After, n
  <2> QED BY <2>1, <2>2 DEF Expected
<1>4. ASSUME NEW i \in 1 .. n, log[i].key = k, v = Outcome(log[i]),
             \A j \in i + 1 .. n : log[j].key # k
      PROVE  Expected(k) = v
  <2>1. i \in Pending(k) /\ \A j \in Pending(k) : j <= i
    BY <1>1, <1>2, <1>4
  <2>2. last \in Pending(k) /\ \A j \in Pending(k) : j <= last
    BY <2>1
  <2> HIDE DEF last
  <2>3. last = i
    BY <1>1, <1>2, <2>1, <2>2
  <2> QED BY <1>4, <2>1, <2>3 DEF Expected, last
<1> QED BY <1>3, <1>4 DEF After, n

LEMMA KindOfType ==
    ASSUME NEW kind \in Processed, NEW other \in Processed, V1Type[kind] = V1Type[other]
    PROVE  kind = other
BY DEF Processed, V1Type

(* While a watch follows the store its consumer holds what the store       *)
(* holds, up to the changes on their way, whatever happened while it was   *)
(* down (syncer.rs: the synthetic deletes), and the consumer of the v1     *)
(* events what those objects convert to, outside the named exceptions.     *)
THEOREM ConsumersFollow == Spec => []Converged
<1>1. SyncInv => Converged
  <2> SUFFICES ASSUME SyncInv, NEW kind \in Kinds, phase[kind] = "watching"
               PROVE  /\ \A k \in KeysOf(kind) : Expected(k) = Content(k)
                      /\ \A kv \in ProducedBy(mirror, kind) : kv.key \notin disputed =>
                             kv.key \in DOMAIN v1 /\ v1[kv.key] = kv.value
                      /\ kind \in Processed => \A x \in DOMAIN v1 : x[1] = V1Type[kind] =>
                             \/ x \in abandoned \cup disputed
                             \/ x \in {kv.key : kv \in ProducedBy(mirror, kind)}
    BY DEF Converged
  <2>1. WatchTypeOK /\ Followed /\ ConsumerInv
    BY DEF SyncInv
  <2>2. ASSUME NEW k \in KeysOf(kind) PROVE Expected(k) = Content(k)
    <3>1. k \in Keys /\ k.kind = kind
      BY DEF KeysOf
    <3>2. Leads(changes[k.kind], mirror[k], k, Content(k))
      BY <2>1, <3>1 DEF Followed, Base
    <3> QED BY <2>1, <3>1, <3>2, ExpectedIsAfter DEF Leads
  <2>3. ASSUME NEW kv \in ProducedBy(mirror, kind), kv.key \notin disputed
        PROVE  kv.key \in DOMAIN v1 /\ v1[kv.key] = kv.value
    <3>1. PICK k \in KeysOf(kind) : mirror[k] # Absent /\ kv \in Process(k, mirror[k].spec)
      BY <2>3 DEF ProducedBy
    <3> QED BY <2>1, <2>3, <3>1 DEF ConsumerInv, KeysOf
  <2>4. ASSUME kind \in Processed, NEW x \in DOMAIN v1, x[1] = V1Type[kind],
               x \notin abandoned \cup disputed
        PROVE  x \in {kv.key : kv \in ProducedBy(mirror, kind)}
    <3>1. PICK k \in Keys : x \in V1KeysOf(k)
      BY <2>1, <2>4 DEF ConsumerInv
    <3>2. PICK kv \in Process(k, mirror[k].spec) : x = kv.key /\ mirror[k] # Absent
      BY <3>1 DEF V1KeysOf, ProcessKeys
    <3>3. k.kind \in Processed /\ x[1] = V1Type[k.kind]
      BY <3>2, PairsTyped
    <3>4. k \in KeysOf(kind)
      BY <2>4, <3>3, KindOfType DEF KeysOf
    <3>5. kv \in ProducedBy(mirror, kind)
      BY <3>2, <3>4 DEF ProducedBy
    <3> QED BY <3>2, <3>5
  <2> QED BY <2>2, <2>3, <2>4
<1> QED BY <1>1, SyncInvariant, PTL

(* InSync is sent once and last, and by then every object that was there   *)
(* before the syncer started and is unchanged has reached the consumer.    *)
THEOREM InSyncMeansListed == Spec => []InSyncIsEarned
<1>1. SyncInv => InSyncIsEarned
  <2> SUFFICES ASSUME SyncInv PROVE InSyncIsEarned
    OBVIOUS
  <2>1. StatusInv /\ OriginalsKept /\ WatchTypeOK
    BY DEF SyncInv
  <2>2. statuses \in {<<"ResyncInProgress">>, <<"ResyncInProgress", "InSync">>}
    BY <2>1 DEF StatusInv
  <2>3. Len(statuses) = 2 => combined_insync
    BY <2>1 DEF StatusInv
  <2>4. ASSUME Len(statuses) = 2, NEW k \in Keys, k.kind \in Kinds, Original(k)
        PROVE  mirror[k] = entries[k].value
    <3>1. k.kind \in per_kind_insync
      BY <2>1, <2>3, <2>4 DEF StatusInv
    <3> QED BY <2>1, <2>4, <3>1 DEF OriginalsKept, WatchTypeOK
  <2> QED BY <2>2, <2>4 DEF InSyncIsEarned, Original
<1> QED BY <1>1, SyncInvariant, PTL

(* The syncers leave the writers alone: with a syncer listening, too, no   *)
(* writer overwrites or deletes a version it has not read.                 *)
THEOREM SyncersOnlyRead == Spec => StoreSpec
<1>1. Init => StoreInit
  BY DEF Init
<1>2. [Next]_vars => [StoreNext]_storeVars
  BY DEF Next, vars, Writers, SyncStep, StartList, InitApply, InitDone, Live, Desync
<1> QED BY <1>1, <1>2, PTL DEF Spec, StoreSpec

(* What a writer overwrites or deletes is what it has read, while syncers *)
(* list and watch: the promise of Backend::update, apply and the           *)
(* soft-then-hard delete, for any number of writers, syncers and objects.  *)
COROLLARY NoWriteIsLostBesideSyncers == Spec => NoLostWrite
BY SyncersOnlyRead, NoWriteIsLost
=============================================================================
