------------------------------ MODULE KddStore ------------------------------
(***************************************************************************)
(* Writers of the Kubernetes datastore: calicoctl create / apply / label / *)
(* delete (crates/calicoctl/src/main.rs), Backend::update and Backend::    *)
(* apply (datastore/src/backend.rs) and the soft-then-hard delete          *)
(* (kdd/delete.rs), over the calls of KddBackend (kdd.rs).  None of them   *)
(* is one call: each reads the object first, and between two calls other   *)
(* writers run, or the process dies.                                       *)
(*                                                                         *)
(* A stored object is its spec, its labels and the `deleted` mark that the *)
(* soft delete puts inside the spec.  A replace (update) carries a name, a *)
(* version and a spec and nothing else, so it clears the labels.           *)
(***************************************************************************)
EXTENDS CasStore, FiniteSets

CONSTANTS
    Clients,      \* processes that write
    Specs,        \* contents a manifest can give an object
    Labels,       \* labels calicoctl can set
    Work,         \* requests processes may be given
    MaxRevision,  \* bound on writes
    Nothing       \* no request, no version held

Object == [spec : Specs, labels : SUBSET Labels, deleted : BOOLEAN]

Verbs == {"create", "apply", "update", "delete", "soft_delete", "label",
          "unlabel"}
Jobs == [verb : Verbs, key : Keys, spec : Specs, labels : SUBSET Labels]
Steps == {"idle", "create", "replace", "delete", "mark", "purge"}

ASSUME ValuesAssumption == Values = Object
ASSUME WorkAssumption == Work \subseteq Jobs
ASSUME NothingAssumption ==
    /\ Nothing # Absent
    /\ Nothing \notin [value : Values, revision : Nat]
    /\ Nothing \notin Jobs

VARIABLES
    pc,    \* the call a process makes next
    job,   \* what it was asked to do
    read   \* the version its next write names

clientVars == <<pc, job, read>>
storeVars == <<casVars, clientVars>>

StoreInit ==
    /\ CasInit
    /\ pc = [c \in Clients |-> "idle"]
    /\ job = [c \in Clients |-> Nothing]
    /\ read = [c \in Clients |-> Nothing]

(* A request that ends, well or with an error: neither is retried here. *)
Done(c) ==
    /\ pc' = [pc EXCEPT ![c] = "idle"]
    /\ job' = [job EXCEPT ![c] = Nothing]
    /\ read' = [read EXCEPT ![c] = Nothing]

Holding(c, step, version) ==
    /\ pc' = [pc EXCEPT ![c] = step]
    /\ read' = [read EXCEPT ![c] = version]
    /\ UNCHANGED job

Refused(c) == Done(c) /\ UNCHANGED casVars

(* A request starts with the read of the object. What a verb does when it   *)
(* exists, and when it does not; "idle" is an early return.                *)
WhenFound == [create |-> "idle", apply |-> "replace", update |-> "replace",
              delete |-> "delete", soft_delete |-> "mark"]
WhenAbsent == [create |-> "create", apply |-> "create", update |-> "idle",
               delete |-> "idle", soft_delete |-> "idle"]

Get(c, j) ==
    LET got == entries[j.key]
        step == IF got = Absent THEN WhenAbsent[j.verb] ELSE WhenFound[j.verb]
    IN  /\ pc[c] = "idle" /\ j.verb \in DOMAIN WhenFound
        /\ step # "idle"
        /\ job' = [job EXCEPT ![c] = j]
        /\ pc' = [pc EXCEPT ![c] = step]
        /\ read' = [read EXCEPT ![c] = got]
        /\ UNCHANGED casVars

Fresh(spec) == [spec |-> spec, labels |-> {}, deleted |-> FALSE]

PostObject(c) ==
    /\ pc[c] = "create"
    /\ IF entries[job[c].key] = Absent
       THEN Create(job[c].key, Fresh(job[c].spec)) /\ Done(c)
       ELSE Refused(c)

(* The calls that name the version read: a Conflict or a NotFound ends the *)
(* request.                                                                *)
Unmoved(c) == Current(job[c].key, read[c].revision)

ReplaceObject(c) ==
    /\ pc[c] = "replace"
    /\ IF Unmoved(c)
       THEN /\ Update(job[c].key, Fresh(job[c].spec), read[c].revision)
            /\ Done(c)
       ELSE Refused(c)

DeleteObject(c) ==
    /\ pc[c] = "delete"
    /\ IF Unmoved(c)
       THEN Delete(job[c].key, read[c].revision) /\ Done(c)
       ELSE Refused(c)

Marked(version) == [version.value EXCEPT !.deleted = TRUE]

SoftDelete(c) ==
    /\ pc[c] = "mark"
    /\ IF Unmoved(c)
       THEN /\ Update(job[c].key, Marked(read[c]), read[c].revision)
            /\ Holding(c, "purge", entries'[job[c].key])
       ELSE Refused(c)

HardDelete(c) ==
    /\ pc[c] = "purge"
    /\ IF Unmoved(c)
       THEN Delete(job[c].key, read[c].revision) /\ Done(c)
       ELSE Refused(c)

(* A merge patch names no version: one call, whatever the labels were. *)
Relabelled(old, j) ==
    IF j.verb = "label" THEN old \cup j.labels ELSE old \ j.labels

PatchLabels(c, j) ==
    /\ pc[c] = "idle" /\ j.verb \in {"label", "unlabel"}
    /\ entries[j.key] # Absent
    /\ Bump(j.key, [entries[j.key].value EXCEPT !.labels = Relabelled(@, j)])
    /\ UNCHANGED clientVars

(* The process dies or a call of it fails: what it wrote stays written. *)
Crash(c) == pc[c] # "idle" /\ Refused(c)

Write(c) ==
    \/ PostObject(c)
    \/ ReplaceObject(c)
    \/ DeleteObject(c)
    \/ SoftDelete(c)
    \/ HardDelete(c)

StoreNext ==
    \E c \in Clients :
        \/ \E j \in Work :
              next_revision <= MaxRevision /\ (Get(c, j) \/ PatchLabels(c, j))
        \/ Write(c)
        \/ Crash(c)

StoreSpec == StoreInit /\ [][StoreNext]_storeVars

-----------------------------------------------------------------------------
StoreTypeOK ==
    /\ entries \in [Keys -> Versioned \cup {Absent}]
    /\ next_revision \in Nat
    /\ pc \in [Clients -> Steps]
    /\ job \in [Clients -> Jobs \cup {Nothing}]
    /\ read \in [Clients -> Versioned \cup {Absent, Nothing}]

(* A revision names one write: every stored and every held version is      *)
(* older than the counter, and a held version with the revision of the     *)
(* stored one is the stored one.                                           *)
RevisionsNameWrites ==
    /\ \A k \in Keys : entries[k] # Absent => entries[k].revision < next_revision
    /\ \A c \in Clients :
           read[c] \in Versioned => read[c].revision < next_revision
    /\ \A c \in Clients : read[c] \in Versioned /\ Unmoved(c) =>
           read[c] = entries[job[c].key]

(* No process overwrites or removes a version it has not read, labels      *)
(* apart: between its read and its write nobody else's write got lost, an  *)
(* object deleted and created again included (kdd.rs update and delete,    *)
(* delete.rs; upsert and calicoctl rely on it).                            *)
NoLostWrite ==
    [][\A c \in Clients, k \in Keys :
          /\ pc'[c] # pc[c]
          /\ entries'[k] # entries[k] /\ entries[k] # Absent
          => read[c] = entries[k]]_storeVars

=============================================================================
