------------------------------ MODULE Syncers -------------------------------
(***************************************************************************)
(* From the datastore to its consumers: one list-then-watch per kind       *)
(* (datastore/src/syncer.rs), the merge of the kinds with one combined     *)
(* sync status (watchersyncer.rs), and the conversion to v1 events         *)
(* (syncers.rs) for a consumer that applies what it is told.  The writers  *)
(* are those of KddStore.                                                  *)
(*                                                                         *)
(* A watch lists a snapshot, delivers it, then follows the changes made    *)
(* since the snapshot; it may lose its connection at any time and start    *)
(* over, and what happened in between is only visible in the new snapshot. *)
(***************************************************************************)
EXTENDS KddStore, UpdateProcessors

CONSTANTS
    Kinds,       \* kinds the syncer selects
    MaxDesyncs   \* bound on lost connections

(* The kinds each purpose-built syncer selects (syncers.rs). *)
SyncerKinds ==
    [felix |-> {"NetworkPolicy", "GlobalNetworkPolicy", "Profile", "Tier",
                "WorkloadEndpoint", "HostEndpoint", "IPPool", "Node",
                "FelixConfiguration", "NetworkSet", "GlobalNetworkSet"},
     bgp |-> {"BGPConfiguration", "BGPPeer", "Node", "IPPool"},
     tunnel_ip |-> {"Node", "IPPool"},
     node_status |-> {"Node"}]

ASSUME KindsAssumption == \E s \in DOMAIN SyncerKinds : Kinds \subseteq SyncerKinds[s]
ASSUME DesyncsAssumption == MaxDesyncs \in Nat

VARIABLES
    phase,      \* per kind: "down", "listing" or "watching"
    todo,       \* per key: snapshot object not delivered yet
    changes,    \* per kind: changes made since the snapshot, in order
    known,      \* WatchState: last content delivered
    seen,       \* WatchState: keys delivered by the list in progress
    per_kind_insync, combined_insync,
    statuses,   \* statuses the consumer was sent
    mirror,     \* the consumer of the v3 events: content per key
    v1,         \* the consumer of the v1 events: value per v1 key
    abandoned,  \* history: v1 keys an update left without deleting them
    disputed,   \* history: v1 keys two resources converted to at one time
    desyncs

watchVars == <<phase, todo, changes, known, seen, desyncs>>
syncVars == <<per_kind_insync, combined_insync, statuses>>
consumerVars == <<mirror, v1, abandoned, disputed>>
vars == <<storeVars, watchVars, syncVars, consumerVars>>

KeysOf(kind) == {k \in Keys : k.kind = kind}
Content(k) == IF entries[k] = Absent THEN Absent ELSE entries[k].value
Nowhere == [k \in Keys |-> Absent]

(* Combined::start: the resync is announced before any snapshot. *)
Init ==
    /\ StoreInit
    /\ phase = [kind \in Kinds |-> "down"]
    /\ todo = Nowhere
    /\ changes = [kind \in Kinds |-> <<>>]
    /\ known = Nowhere
    /\ seen = {}
    /\ per_kind_insync = {}
    /\ combined_insync = (Kinds = {})
    /\ statuses = IF Kinds = {} THEN <<"ResyncInProgress", "InSync">>
                                ELSE <<"ResyncInProgress">>
    /\ mirror = Nowhere
    /\ v1 = <<>>
    /\ abandoned = {}
    /\ disputed = {}
    /\ desyncs = 0

-----------------------------------------------------------------------------
(* The consumer.  An update puts the pairs of the resource; a delete       *)
(* removes the keys that the last known spec converts to.                  *)
Put(pairs, f) ==
    LET new == {kv.key : kv \in pairs}
    IN  [x \in DOMAIN f \cup new |->
            IF x \in new THEN (CHOOSE kv \in pairs : kv.key = x).value
                         ELSE f[x]]

Without(f, S) == [x \in DOMAIN f \ S |-> f[x]]

V1KeysOf(k) == IF mirror[k] = Absent THEN {} ELSE ProcessKeys(k, mirror[k].spec)

Upserted(k, object) ==
    LET pairs == Process(k, object.spec)
        now == {kv.key : kv \in pairs}
        others == UNION {V1KeysOf(j) : j \in Keys \ {k}}
    IN  /\ mirror' = [mirror EXCEPT ![k] = object]
        /\ v1' = Put(pairs, v1)
        /\ abandoned' = (abandoned \cup (V1KeysOf(k) \ now)) \ now
        /\ disputed' = disputed \cup (now \cap others)

(* Deletes of several keys, each with the content it is announced with. *)
Deleted(objects) ==
    LET gone == UNION {ProcessKeys(k, objects[k].spec) : k \in DOMAIN objects}
    IN  /\ mirror' = [k \in Keys |-> IF k \in DOMAIN objects THEN Absent
                                                            ELSE mirror[k]]
        /\ v1' = Without(v1, gone)
        /\ abandoned' = abandoned \ gone
        /\ UNCHANGED disputed

-----------------------------------------------------------------------------
FirstKindInSync(kind) ==  \* mutant: any kind completes the resync
    /\ per_kind_insync' = per_kind_insync \cup {kind}
    /\ combined_insync' = TRUE
    /\ statuses' = IF combined_insync THEN statuses
                                      ELSE Append(statuses, "InSync")

(* Combined::on for a per-kind InSync; the per-kind resync is dropped. *)
KindInSync(kind) ==
    LET all == per_kind_insync \cup {kind} = Kinds
    IN  /\ per_kind_insync' = per_kind_insync \cup {kind}
        /\ combined_insync' = (combined_insync \/ all)
        /\ statuses' = IF all /\ ~ combined_insync
                       THEN Append(statuses, "InSync") ELSE statuses

(* watcher::Event::Init: the server takes a snapshot; changes made from    *)
(* here on will follow it.                                                 *)
StartList(kind) ==
    /\ phase[kind] = "down"
    /\ phase' = [phase EXCEPT ![kind] = "listing"]
    /\ todo' = [k \in Keys |-> IF k.kind = kind THEN Content(k) ELSE todo[k]]
    /\ changes' = [changes EXCEPT ![kind] = <<>>]
    /\ seen' = seen \ KeysOf(kind)
    /\ UNCHANGED <<storeVars, known, desyncs, syncVars, consumerVars>>

InitApply(k) ==
    /\ phase[k.kind] = "listing" /\ todo[k] # Absent
    /\ todo' = [todo EXCEPT ![k] = Absent]
    /\ seen' = seen \cup {k}
    /\ known' = [known EXCEPT ![k] = todo[k]]
    /\ Upserted(k, todo[k])
    /\ UNCHANGED <<storeVars, phase, changes, desyncs, syncVars>>

NotSwept(kind) == {}  \* mutant: a re-list deletes nothing

(* Known keys that the list did not contain vanished while the watch was   *)
(* down: each is deleted with the content last delivered.                  *)
Vanished(kind) == {k \in KeysOf(kind) : known[k] # Absent /\ k \notin seen}

InitDone(kind) ==
    /\ phase[kind] = "listing" /\ \A k \in KeysOf(kind) : todo[k] = Absent
    /\ phase' = [phase EXCEPT ![kind] = "watching"]
    /\ known' = [k \in Keys |-> IF k \in Vanished(kind) THEN Absent
                                                       ELSE known[k]]
    /\ seen' = seen \ KeysOf(kind)  \* not read before the next Init clears it
    /\ Deleted([k \in Vanished(kind) |-> known[k]])
    /\ KindInSync(kind)
    /\ UNCHANGED <<storeVars, todo, changes, desyncs>>

(* The next live change: an Apply, or a Delete with the object deleted. *)
Live(kind) ==
    LET ev == Head(changes[kind])
    IN  /\ phase[kind] = "watching" /\ changes[kind] # <<>>
        /\ changes' = [changes EXCEPT ![kind] = Tail(@)]
        /\ IF ev.type = "apply"
           THEN /\ known' = [known EXCEPT ![ev.key] = ev.object]
                /\ Upserted(ev.key, ev.object)
           ELSE /\ known' = [known EXCEPT ![ev.key] = Absent]
                /\ Deleted([k \in {ev.key} |-> ev.object])
        /\ UNCHANGED <<storeVars, phase, todo, seen, desyncs, syncVars>>

(* The connection is lost, in the middle of a list or after it; the error  *)
(* passes through the merge and the consumer goes on.                      *)
Desync(kind) ==
    /\ phase[kind] # "down" /\ desyncs < MaxDesyncs
    /\ desyncs' = desyncs + 1
    /\ phase' = [phase EXCEPT ![kind] = "down"]
    /\ todo' = [k \in Keys |-> IF k.kind = kind THEN Absent ELSE todo[k]]
    /\ changes' = [changes EXCEPT ![kind] = <<>>]
    /\ UNCHANGED <<storeVars, known, seen, syncVars, consumerVars>>

(* A step of a writer, and the change notice it causes. *)
Change(k) ==
    IF entries'[k] = Absent
    THEN [type |-> "delete", key |-> k, object |-> entries[k].value]
    ELSE [type |-> "apply", key |-> k, object |-> entries'[k].value]

Written(kind) == {k \in KeysOf(kind) : entries'[k] # entries[k]}

Noticed ==
    changes' = [kind \in Kinds |->
                   IF phase[kind] = "down" \/ Written(kind) = {}
                   THEN changes[kind]
                   ELSE Append(changes[kind],
                               Change(CHOOSE k \in Written(kind) : TRUE))]

Writers ==
    /\ StoreNext
    /\ Noticed
    /\ UNCHANGED <<phase, todo, known, seen, desyncs, syncVars,
                   consumerVars>>

SyncStep(kind) ==
    \/ StartList(kind)
    \/ \E k \in KeysOf(kind) : InitApply(k)
    \/ InitDone(kind)
    \/ Live(kind)

Next ==
    \/ Writers
    \/ \E kind \in Kinds : SyncStep(kind) \/ Desync(kind)

(* A watch keeps being polled. *)
Fairness == \A kind \in Kinds : WF_vars(SyncStep(kind))

Spec == Init /\ [][Next]_vars /\ Fairness

-----------------------------------------------------------------------------
(* What a consumer will hold of a key once the changes it has not yet been *)
(* told are delivered.                                                     *)
Pending(k) == {i \in DOMAIN changes[k.kind] : changes[k.kind][i].key = k}
Outcome(ev) == IF ev.type = "delete" THEN Absent ELSE ev.object
Expected(k) ==
    IF Pending(k) = {} THEN mirror[k]
    ELSE LET last == CHOOSE i \in Pending(k) : \A j \in Pending(k) : j <= i
         IN  Outcome(changes[k.kind][last])

ProducedBy(f, kind) ==
    UNION {IF f[k] = Absent THEN {} ELSE Process(k, f[k].spec) :
              k \in KeysOf(kind)}

V1Type == [NetworkPolicy |-> "policy", IPPool |-> "ippool",
           WorkloadEndpoint |-> "workload", FelixConfiguration |-> "config"]

(* While a watch follows the store, its consumer holds what the store      *)
(* holds, up to the changes on their way, whatever was created, changed or *)
(* deleted while the watch was down (syncer.rs: synthetic deletes); and    *)
(* the consumer of the v1 events holds what those objects convert to, and  *)
(* nothing else but keys that an update left behind (syncers.rs deletes no *)
(* key on an update) or that two resources share.                          *)
Converged ==
    \A kind \in Kinds : phase[kind] = "watching" =>
        /\ \A k \in KeysOf(kind) : Expected(k) = Content(k)
        /\ \A kv \in ProducedBy(mirror, kind) : kv.key \notin disputed =>
               kv.key \in DOMAIN v1 /\ v1[kv.key] = kv.value
        /\ kind \in Processed => \A x \in DOMAIN v1 : x[1] = V1Type[kind] =>
               \/ x \in abandoned \cup disputed
               \/ x \in {kv.key : kv \in ProducedBy(mirror, kind)}

(* InSync is sent once, after the resync, and means what it says: every    *)
(* object that was there before the syncer started and has not changed     *)
(* since has reached the consumer (watchersyncer.rs Combined).             *)
InSyncIsEarned ==
    /\ statuses \in {<<"ResyncInProgress">>, <<"ResyncInProgress", "InSync">>}
    /\ Len(statuses) = 2 => \A k \in Keys : k.kind \in Kinds =>
           (entries[k] # Absent /\ entries[k].revision = 1
                => mirror[k] = entries[k].value)

=============================================================================
