-------------------------- MODULE CniWorkloadProofs --------------------------
(***************************************************************************)
(* Machine-checked facts about the CNI plugin of one node, for any pods,   *)
(* sandboxes and addresses and any number of calls: what a running sandbox *)
(* keeps, and what a DEL leaves.                                           *)
(***************************************************************************)
EXTENDS CniWorkload, TLAPS

AddSteps == {"idle", "lock", "allocate", "get", "create", "patch", "veth", "host_end",
             "route", "inside"}
DelSteps == {"idle", "release", "read", "delete", "find", "unlink", "ended", "spared", "failed"}
AddProcess == [pc : AddSteps, ip : Addresses \cup {Free}, index : Nat]
DelProcess == [pc : DelSteps, revision : Nat, link : Nat]

Types ==
    /\ entries \in [Keys -> Versioned \cup {Absent}] /\ next_revision \in Nat
    /\ life \in [Sandboxes -> {"new", "adding", "failed", "wired", "dead"}]
    /\ lease \in [Addresses -> Sandboxes \cup {Free}]
    /\ add \in [Sandboxes -> AddProcess]
    /\ told \in [Sandboxes -> Addresses \cup {Free}]
    /\ del \in [DelCalls -> DelProcess]
    /\ veth \in [Keys -> Pair \cup {Absent}] /\ next_index \in Nat \ {0}

(* One sandbox of a pod is alive, and it alone runs an ADD. *)
SamePod(s, t) == s # t /\ PodOf[s] = PodOf[t]
Alone ==
    /\ \A s, t \in Sandboxes : SamePod(s, t) /\ life[s] \in {"adding", "failed", "wired"}
                                  => life[t] \in {"new", "dead"}
    /\ \A s \in Sandboxes : add[s].pc # "idle" <=> life[s] = "adding"
    /\ \A d \in DelCalls : del[d].pc # "idle" => life[d[1]] = "dead"

(* From its allocation on an ADD has its address, and so has the sandbox.  *)
Holding == {"get", "create", "patch", "veth", "host_end", "route", "inside"}
Leased ==
    \A s \in Sandboxes :
        /\ add[s].pc \in Holding => add[s].ip \in Addresses /\ lease[add[s].ip] = s
        /\ life[s] = "wired" => told[s] \in Addresses /\ lease[told[s]] = s

(* Once patched, the endpoint is that of the sandbox. *)
Patched(s) == add[s].pc \in {"veth", "host_end", "route", "inside"} \/ life[s] = "wired"
Address(s) == IF life[s] = "wired" THEN told[s] ELSE add[s].ip
Owned ==
    \A s \in Sandboxes : Patched(s) =>
        /\ Wep(s) # Absent
        /\ Wep(s).value.container = s /\ Wep(s).value.ip = Address(s)
        /\ "namespace" \in Wep(s).value.labels

(* Who wrote an endpoint was a sandbox of its pod, and while the creator   *)
(* lives nobody else has written.                                          *)
Recorded ==
    \A k \in Keys : entries[k] # Absent =>
        LET wep == entries[k].value
        IN  /\ entries[k].revision < next_revision
            /\ PodOf[wep.container] = k /\ PodOf[wep.creator] = k
            /\ life[wep.container] # "new" /\ life[wep.creator] # "new"
            /\ life[wep.creator] # "dead" => wep.labels \subseteq {"namespace", wep.creator}

(* An interface has an index of its own; the pair that an ADD made is what *)
(* the steps so far made of it.                                            *)
Indexed ==
    /\ \A k \in Keys : veth[k] # Absent => veth[k].index \in 1 .. next_index - 1
    /\ \A s \in Sandboxes : add[s].index < next_index
HalfWired == {"moved", "host end up"}
Staged ==
    \A s \in Sandboxes : Holds(s) =>
        /\ add[s].pc \in {"host_end", "route", "inside"} => Host(s).owner = s
        /\ add[s].pc = "host_end" => Host(s).ready = {}
        /\ add[s].pc = "route" => Host(s).ready = HalfWired
        /\ add[s].pc = "inside" => /\ Host(s).ready = HalfWired \cup {"proxy_arp"}
                                   /\ Host(s).route = add[s].ip
Wired ==
    \A s \in Sandboxes : life[s] = "wired" /\ s \notin raced =>
        /\ Host(s) # Absent
        /\ Host(s).owner = s /\ Host(s).route = told[s] /\ Host(s).address = told[s]
        /\ Host(s).ready = Complete

(* A DEL deletes no endpoint but its sandbox's, and no interface made      *)
(* after it looked; no DEL that could take an interface has missed the     *)
(* owner, who would be in `raced`.                                         *)
Deleting ==
    \A d \in DelCalls :
        /\ del[d].revision < next_revision /\ del[d].link < next_index
        /\ del[d].pc = "delete" /\ Current(PodOf[d[1]], del[d].revision)
              => Wep(d[1]).value.container = d[1]
Unseen ==
    \A s \in Sandboxes, d \in DelCalls :
        Patched(s) /\ s \notin raced /\ PodOf[d[1]] = PodOf[s] =>
            /\ del[d].pc \notin {"delete", "find"}
            /\ del[d].pc = "unlink" /\ life[s] = "wired" /\ Host(s) # Absent
                  => Host(s).index # del[d].link
            /\ del[d].pc = "unlink" /\ add[s].pc \in {"host_end", "route", "inside"}
                  => add[s].index # del[d].link

(* What a DEL that ignored no error has removed stays away. *)
Cleaning ==
    \A d \in DelCalls : d \notin swallowed =>
        /\ del[d].pc \in {"read", "delete", "find", "unlink", "ended", "spared"}
              => \A a \in Addresses : lease[a] # d[1]
        /\ del[d].pc \in {"find", "unlink", "ended", "spared"}
              => Wep(d[1]) = Absent \/ Wep(d[1]).value.container # d[1]
        /\ del[d].pc = "ended" => Host(d[1]) = Absent \/ Host(d[1]).owner # d[1]

CniInv == /\ Types /\ Alone /\ Leased /\ Owned /\ Recorded /\ AddressesBacked
          /\ Indexed /\ Staged /\ Wired /\ Deleting /\ Unseen /\ Cleaning


-----------------------------------------------------------------------------
(* How the processes move. *)
LEMMA AddGoes ==
    ASSUME Types, NEW s \in Sandboxes, NEW step \in AddSteps, Goto(s, step)
    PROVE  /\ add' \in [Sandboxes -> AddProcess]
           /\ add'[s].pc = step /\ add'[s].ip = add[s].ip /\ add'[s].index = add[s].index
           /\ \A t \in Sandboxes \ {s} : add'[t] = add[t]
BY DEF Types, Goto, AddProcess

LEMMA AddEnds ==
    ASSUME Types, NEW s \in Sandboxes, Over(s)
    PROVE  /\ add' \in [Sandboxes -> AddProcess]
           /\ add'[s].pc = "idle" /\ add'[s].index = 0
           /\ \A t \in Sandboxes \ {s} : add'[t] = add[t]
BY DEF Types, Over, AddProcess, AddSteps

LEMMA DelGoes ==
    ASSUME Types, NEW d \in DelCalls, NEW step \in DelSteps, DelGoto(d, step)
    PROVE  /\ del' \in [DelCalls -> DelProcess]
           /\ del'[d] = [pc |-> step, revision |-> 0, link |-> 0]
           /\ \A c \in DelCalls \ {d} : del'[c] = del[c]
BY DEF Types, DelGoto, DelProcess

LEMMA CallFacts ==
    /\ \A d \in DelCalls : d[1] \in Sandboxes /\ PodOf[d[1]] \in Keys
    /\ \A s \in Sandboxes : PodOf[s] \in Keys
BY PodOfAssumption DEF DelCalls

(* While a sandbox is being wired, no other of its pod is alive, and none  *)
(* of its DELs has begun.                                                  *)
LEMMA AloneAtWork ==
    ASSUME CniInv, NEW s \in Sandboxes, add[s].pc # "idle"
    PROVE  /\ life[s] = "adding"
           /\ \A t \in Sandboxes : SamePod(s, t) => life[t] \in {"new", "dead"} /\ add[t].pc = "idle"
           /\ \A d \in DelCalls : d[1] = s => del[d].pc = "idle"
BY DEF CniInv, Alone, Types

-----------------------------------------------------------------------------
(* ADD and the runtime: steps that write nothing that other processes read. *)
LEMMA StartAddKeeps == ASSUME CniInv, NEW s \in Sandboxes, StartAdd(s) PROVE CniInv'
<1>1. /\ UNCHANGED <<entries, next_revision, lease, told, del, veth, next_index, raced, swallowed>>
      /\ add[s].pc = "idle" /\ life[s] \in {"new", "failed"}
      /\ life' = [life EXCEPT ![s] = "adding"]
      /\ \A t \in Sandboxes : SamePod(t, s) => life[t] \in {"new", "dead"}
  BY DEF StartAdd, casVars, hostVars, history, SamePod, CniInv, Alone
<1>2. /\ add' \in [Sandboxes -> AddProcess]
      /\ add'[s].pc = "lock" /\ add'[s].ip = add[s].ip /\ add'[s].index = add[s].index
      /\ \A t \in Sandboxes \ {s} : add'[t] = add[t]
  BY AddGoes DEF StartAdd, CniInv, AddSteps
<1>3. /\ life' \in [Sandboxes -> {"new", "adding", "failed", "wired", "dead"}]
      /\ life'[s] = "adding" /\ \A t \in Sandboxes \ {s} : life'[t] = life[t]
  BY <1>1 DEF CniInv, Types
<1>4. Types'
  BY <1>1, <1>2, <1>3 DEF CniInv, Types, Versioned
<1>5. Alone'
  BY <1>1, <1>2, <1>3, CallFacts DEF CniInv, Alone, SamePod
<1>6. Leased' /\ Owned' /\ AddressesBacked'
  BY <1>1, <1>2, <1>3 DEF CniInv, Leased, Holding, Owned, Patched, Address, Wep, AddressesBacked
<1>7. Recorded'
  BY <1>1, <1>3, EndpointAssumption DEF CniInv, Types, Versioned, WorkloadEndpoint, Recorded
<1>8. Indexed' /\ Staged' /\ Wired'
  BY <1>1, <1>2, <1>3 DEF CniInv, Indexed, Staged, Wired, Holds, Host, LinkIndex
<1>9. Deleting' /\ Unseen' /\ Cleaning'
  BY <1>1, <1>2, <1>3 DEF CniInv, Deleting, Unseen, Cleaning, Patched, Current, Wep, Host
<1> QED BY <1>4, <1>5, <1>6, <1>7, <1>8, <1>9 DEF CniInv

LEMMA AddAdvances ==
    ASSUME CniInv, NEW s \in Sandboxes, NEW step \in {"allocate", "create", "patch"},
           Goto(s, step), add[s].pc # "idle", add[s].pc \in Holding \/ step = "allocate",
           UNCHANGED <<casVars, life, lease, told, del, hostVars, raced, swallowed>>
    PROVE  CniInv'
<1>1. /\ UNCHANGED <<entries, next_revision, life, lease, told, del, veth, next_index, raced, swallowed>>
      /\ life[s] = "adding"
  BY AloneAtWork DEF casVars, hostVars
<1>2. /\ add' \in [Sandboxes -> AddProcess]
      /\ add'[s].pc = step /\ add'[s].ip = add[s].ip /\ add'[s].index = add[s].index
      /\ \A t \in Sandboxes \ {s} : add'[t] = add[t]
  BY AddGoes DEF CniInv, AddSteps
<1>3. Types' /\ Alone' /\ Leased' /\ Owned' /\ AddressesBacked'
  BY <1>1, <1>2 DEF CniInv, Types, Versioned, Alone, SamePod, Leased, Holding, Owned, Patched,
                    Address, Wep, AddressesBacked
<1>4. Recorded' /\ Indexed' /\ Staged' /\ Wired'
  BY <1>1, <1>2 DEF CniInv, Recorded, Indexed, Staged, Wired, Holds, Host, LinkIndex
<1>5. Deleting' /\ Unseen' /\ Cleaning'
  BY <1>1, <1>2 DEF CniInv, Deleting, Unseen, Cleaning, Patched, Current, Wep, Host
<1> QED BY <1>3, <1>4, <1>5 DEF CniInv

LEMMA FailAddKeeps == ASSUME CniInv, NEW s \in Sandboxes, FailAdd(s) PROVE CniInv'
<1>1. /\ UNCHANGED <<entries, next_revision, lease, told, del, veth, next_index, raced, swallowed>>
      /\ life[s] = "adding" /\ life' = [life EXCEPT ![s] = "failed"]
  BY DEF FailAdd, casVars, hostVars, history
<1>2. /\ add' \in [Sandboxes -> AddProcess]
      /\ add'[s].pc = "idle" /\ add'[s].index = 0
      /\ \A t \in Sandboxes \ {s} : add'[t] = add[t]
  BY AddEnds DEF FailAdd, CniInv
<1>3. /\ life' \in [Sandboxes -> {"new", "adding", "failed", "wired", "dead"}]
      /\ life'[s] = "failed" /\ \A t \in Sandboxes \ {s} : life'[t] = life[t]
  BY <1>1 DEF CniInv, Types
<1>4. Types'
  BY <1>1, <1>2, <1>3 DEF CniInv, Types, Versioned
<1>5. Alone' /\ Leased' /\ Owned' /\ AddressesBacked'
  BY <1>1, <1>2, <1>3, CallFacts DEF CniInv, Alone, SamePod, Leased, Holding, Owned, Patched,
                                     Address, Wep, AddressesBacked
<1>6. Recorded'
  BY <1>1, <1>3, EndpointAssumption DEF CniInv, Types, Versioned, WorkloadEndpoint, Recorded
<1>7. Indexed' /\ Staged' /\ Wired'
  <2>1. next_index > 0
    BY DEF CniInv, Types
  <2> QED BY <2>1, <1>1, <1>2, <1>3 DEF CniInv, Indexed, Staged, Wired, Holds, Host, LinkIndex
<1>8. Deleting' /\ Unseen' /\ Cleaning'
  BY <1>1, <1>2, <1>3 DEF CniInv, Deleting, Unseen, Cleaning, Patched, Current, Wep, Host
<1> QED BY <1>4, <1>5, <1>6, <1>7, <1>8 DEF CniInv

(* The sandbox stops. *)
LEMMA DieKeeps == ASSUME CniInv, NEW s \in Sandboxes, Die(s) PROVE CniInv'
<1>1. /\ UNCHANGED <<entries, next_revision, lease, add, del, veth, next_index, raced, swallowed>>
      /\ life[s] \in {"wired", "failed"} /\ life' = [life EXCEPT ![s] = "dead"]
      /\ told' = [told EXCEPT ![s] = Free]
  BY DEF Die, casVars, hostVars, history
<1>2. /\ life' \in [Sandboxes -> {"new", "adding", "failed", "wired", "dead"}]
      /\ told' \in [Sandboxes -> Addresses \cup {Free}]
      /\ life'[s] = "dead"
      /\ \A t \in Sandboxes \ {s} : life'[t] = life[t] /\ told'[t] = told[t]
  BY <1>1 DEF CniInv, Types
<1>3. Types'
  BY <1>1, <1>2 DEF CniInv, Types, Versioned
<1>4. Alone' /\ Leased' /\ Owned' /\ AddressesBacked'
  BY <1>1, <1>2, CallFacts DEF CniInv, Alone, SamePod, Leased, Holding, Owned, Patched, Address,
                               Wep, AddressesBacked
<1>5. Recorded'
  BY <1>1, <1>2, EndpointAssumption DEF CniInv, Types, Versioned, WorkloadEndpoint, Recorded
<1>6. Indexed' /\ Staged' /\ Wired'
  BY <1>1, <1>2 DEF CniInv, Indexed, Staged, Wired, Holds, Host, LinkIndex
<1>7. Deleting' /\ Unseen' /\ Cleaning'
  BY <1>1, <1>2 DEF CniInv, Deleting, Unseen, Cleaning, Patched, Current, Wep, Host
<1> QED BY <1>3, <1>4, <1>5, <1>6, <1>7 DEF CniInv

LEMMA AllocateKeeps == ASSUME CniInv, NEW s \in Sandboxes, Allocate(s) PROVE CniInv'
<1>1. PICK a \in Addresses :
         /\ lease[a] = s \/ lease[a] = Free
         /\ lease' = [lease EXCEPT ![a] = s]
         /\ add' = [add EXCEPT ![s].pc = "get", ![s].ip = a]
  BY DEF Allocate, Handle
<1>2. /\ UNCHANGED <<entries, next_revision, life, told, del, veth, next_index, raced, swallowed>>
      /\ life[s] = "adding"
  BY AloneAtWork DEF Allocate, At, casVars, hostVars, history
<1>3. /\ add' \in [Sandboxes -> AddProcess]
      /\ add'[s].pc = "get" /\ add'[s].ip = a /\ add'[s].index = add[s].index
      /\ \A t \in Sandboxes \ {s} : add'[t] = add[t]
  BY <1>1 DEF CniInv, Types, AddProcess, AddSteps
<1>4. /\ lease' \in [Addresses -> Sandboxes \cup {Free}] /\ lease'[a] = s
      /\ \A b \in Addresses : lease'[b] = lease[b] \/ lease'[b] = s
      /\ \A b \in Addresses : lease[b] \in Sandboxes => lease'[b] = lease[b]
  BY <1>1, CallsAssumption DEF CniInv, Types
<1>5. Types'
  BY <1>2, <1>3, <1>4 DEF CniInv, Types, Versioned
<1>6. Alone' /\ Leased'
  BY <1>2, <1>3, <1>4 DEF CniInv, Alone, SamePod, Leased, Holding
<1>7. Owned' /\ Recorded' /\ Indexed' /\ Staged' /\ Wired'
  BY <1>2, <1>3 DEF CniInv, Owned, Patched, Address, Wep, Recorded, Indexed, Staged, Wired, Holds,
                    Host, LinkIndex
<1>8. AddressesBacked'
  <2> SUFFICES ASSUME NEW k \in Keys, entries[k] # Absent, lease[entries[k].value.ip] = entries[k].value.container
               PROVE  lease'[entries[k].value.ip] = entries[k].value.container
    BY <1>2 DEF CniInv, AddressesBacked
  <2>1. entries[k].value \in WorkloadEndpoint
    BY EndpointAssumption DEF CniInv, Types, Versioned
  <2> QED BY <1>4, <2>1 DEF WorkloadEndpoint
<1>9. Deleting' /\ Unseen'
  BY <1>2, <1>3 DEF CniInv, Deleting, Unseen, Patched, Current, Wep, Host
<1>10. Cleaning'
  BY <1>2, <1>4, CallFacts DEF CniInv, Cleaning, Alone, Wep, Host
<1> QED BY <1>5, <1>6, <1>7, <1>8, <1>9, <1>10 DEF CniInv

-----------------------------------------------------------------------------
(* Writes of an endpoint. *)
LEMMA OneWritten ==
    ASSUME CniInv, NEW k \in Keys, NEW v \in WorkloadEndpoint, Bump(k, v)
    PROVE  /\ next_revision \in Nat /\ next_revision' = next_revision + 1
           /\ entries' \in [Keys -> Versioned \cup {Absent}]
           /\ entries'[k] # Absent
           /\ entries'[k].value = v /\ entries'[k].revision = next_revision
           /\ \A j \in Keys \ {k} : entries'[j] = entries[j]
           /\ \A j \in Keys : entries'[j] # Absent => entries'[j].revision < next_revision'
           /\ \A d \in DelCalls : del[d].revision < next_revision
                                 /\ del[d].revision < next_revision'
<1>0. /\ next_revision \in Nat
      /\ \A j \in Keys : entries[j] # Absent => entries[j].revision \in Nat
      /\ \A d \in DelCalls : del[d].revision \in Nat
  BY DEF CniInv, Types, Versioned, DelProcess
<1>1. Stamped(v) \in Versioned /\ Stamped(v) # Absent
      /\ Stamped(v).value = v /\ Stamped(v).revision = next_revision
  BY EndpointAssumption, AbsentAssumption DEF Stamped, Versioned, CniInv, Types
<1> QED BY <1>0, <1>1 DEF Bump, CniInv, Types, Recorded, Deleting

(* An ADD that creates or patches the endpoint. *)
LEMMA WriteKeeps ==
    ASSUME CniInv, NEW s \in Sandboxes, add[s].pc \in {"create", "patch"},
           NEW step \in {"patch", "veth"}, Goto(s, step),
           NEW v \in WorkloadEndpoint, Bump(PodOf[s], v),
           v.container = s, v.ip = add[s].ip, step = "veth" => "namespace" \in v.labels,
           PodOf[v.creator] = PodOf[s], life[v.creator] # "new",
           life[v.creator] # "dead" => v.labels \subseteq {"namespace", v.creator},
           raced' = raced \cup Exposed(s),
           UNCHANGED <<life, lease, told, del, hostVars, swallowed>>
    PROVE  CniInv'
<1> DEFINE k == PodOf[s]
<1>0. k \in Keys /\ UNCHANGED <<life, lease, told, del, veth, next_index, swallowed>>
  BY CallFacts DEF hostVars
<1>1. /\ next_revision \in Nat /\ next_revision' = next_revision + 1
      /\ entries' \in [Keys -> Versioned \cup {Absent}]
      /\ entries'[k] # Absent
      /\ entries'[k].value = v /\ entries'[k].revision = next_revision
      /\ \A j \in Keys \ {k} : entries'[j] = entries[j]
      /\ \A j \in Keys : entries'[j] # Absent => entries'[j].revision < next_revision'
      /\ \A d \in DelCalls : del[d].revision < next_revision /\ del[d].revision < next_revision'
  BY <1>0, OneWritten
<1>2. /\ add' \in [Sandboxes -> AddProcess]
      /\ add'[s].pc = step /\ add'[s].ip = add[s].ip /\ add'[s].index = add[s].index
      /\ \A t \in Sandboxes \ {s} : add'[t] = add[t]
  BY AddGoes DEF CniInv, AddSteps
<1>3. /\ life[s] = "adding" /\ lease[add[s].ip] = s /\ add[s].ip \in Addresses
      /\ \A t \in Sandboxes : SamePod(s, t) => life[t] \in {"new", "dead"} /\ add[t].pc = "idle"
      /\ \A d \in DelCalls : d[1] = s => del[d].pc = "idle"
  BY AloneAtWork DEF CniInv, Leased, Holding
<1>4. raced \subseteq raced'
  OBVIOUS
<1> HIDE DEF k
<1>5. Types' /\ Alone' /\ Leased'
  <2>1. Types'
    BY <1>0, <1>1, <1>2 DEF CniInv, Types
  <2>2. Alone'
    BY <1>0, <1>2, <1>3 DEF CniInv, Alone, SamePod
  <2>3. Leased'
    BY <1>0, <1>2, <1>3 DEF CniInv, Leased, Holding
  <2> QED BY <2>1, <2>2, <2>3
<1>6. Owned'
  <2> SUFFICES ASSUME NEW t \in Sandboxes, Patched(t)'
               PROVE  /\ entries'[PodOf[t]] # Absent
                      /\ entries'[PodOf[t]].value.container = t
                      /\ entries'[PodOf[t]].value.ip = Address(t)'
                      /\ "namespace" \in entries'[PodOf[t]].value.labels
    BY DEF Owned, Wep
  <2>1. CASE t = s
    BY <2>1, <1>0, <1>1, <1>2, <1>3 DEF Patched, Address, k
  <2>2. CASE t # s
    <3>1. Patched(t) /\ Address(t)' = Address(t)
      BY <2>2, <1>0, <1>2 DEF Patched, Address
    <3>2. PodOf[t] \in Keys \ {k}
      BY <2>2, <3>1, <1>3, CallFacts DEF Patched, SamePod, k
    <3> QED BY <3>1, <3>2, <1>1 DEF CniInv, Owned, Wep
  <2> QED BY <2>1, <2>2
<1>7. Recorded'
  BY <1>0, <1>1, <1>3 DEF CniInv, Recorded, k
<1>8. AddressesBacked'
  BY <1>0, <1>1, <1>3 DEF CniInv, AddressesBacked
<1>9. Indexed' /\ Staged' /\ Wired'
  BY <1>0, <1>2, <1>3, <1>4 DEF CniInv, Indexed, Staged, Wired, Holds, Host, LinkIndex
<1>10. Deleting'
  BY <1>0, <1>1, CallFacts DEF CniInv, Deleting, Current, Wep
<1>11. Unseen'
  <2> SUFFICES ASSUME NEW t \in Sandboxes, NEW d \in DelCalls,
                      Patched(t)', t \notin raced', PodOf[d[1]] = PodOf[t]
               PROVE  /\ del[d].pc \notin {"delete", "find"}
                      /\ del[d].pc = "unlink" /\ life[t] = "wired" /\ Host(t) # Absent
                            => Host(t).index # del[d].link
                      /\ del[d].pc = "unlink" /\ add'[t].pc \in {"host_end", "route", "inside"}
                            => add'[t].index # del[d].link
    BY <1>0 DEF Unseen, Host
  <2>1. CASE t = s
    BY <2>1, <1>2, <1>3 DEF Exposed
  <2>2. CASE t # s
    BY <2>2, <1>0, <1>2, <1>4 DEF CniInv, Unseen, Patched
  <2> QED BY <2>1, <2>2
<1>12. Cleaning'
  BY <1>0, <1>1, <1>3, CallFacts DEF CniInv, Cleaning, Wep, Host
<1> QED BY <1>5, <1>6, <1>7, <1>8, <1>9, <1>10, <1>11, <1>12 DEF CniInv

LEMMA CreateWepKeeps == ASSUME CniInv, NEW s \in Sandboxes, CreateWep(s) PROVE CniInv'
<1>1. /\ add[s].pc = "create" /\ Goto(s, "patch")
      /\ UNCHANGED <<life, lease, told, del, hostVars, swallowed>>
      /\ life[s] = "adding" /\ add[s].ip \in Addresses
  BY AloneAtWork DEF CreateWep, At, CniInv, Leased, Holding
<1>2. CASE UNCHANGED <<casVars, raced>>
  BY <1>1, <1>2, AddAdvances DEF Holding
<1>3. CASE /\ Create(PodOf[s], [container |-> s, ip |-> BuildWepSpec(s).ip, labels |-> {}, creator |-> s])
           /\ raced' = raced \cup Exposed(s)
  <2> DEFINE v == [container |-> s, ip |-> add[s].ip, labels |-> {}, creator |-> s]
  <2>1. Bump(PodOf[s], v)
    BY <1>3 DEF Create, BuildWepSpec
  <2>2. v \in WorkloadEndpoint /\ v.container = s /\ v.ip = add[s].ip /\ v.creator = s /\ v.labels = {}
    BY <1>1 DEF WorkloadEndpoint
  <2> HIDE DEF v
  <2> QED BY <1>1, <1>3, <2>1, <2>2, WriteKeeps
<1> QED BY <1>2, <1>3 DEF CreateWep

LEMMA PatchWepKeeps == ASSUME CniInv, NEW s \in Sandboxes, PatchWep(s) PROVE CniInv'
<1>1. /\ add[s].pc = "patch" /\ Goto(s, "veth") /\ raced' = raced \cup Exposed(s)
      /\ Wep(s) # Absent /\ Bump(PodOf[s], Merged(Wep(s).value, s))
      /\ UNCHANGED <<life, lease, told, del, hostVars, swallowed>>
      /\ life[s] = "adding" /\ add[s].ip \in Addresses
  BY AloneAtWork DEF PatchWep, At, CniInv, Leased, Holding
<1> DEFINE w == Wep(s).value
           v == Merged(w, s)
<1>2. w \in WorkloadEndpoint
  BY <1>1, CallFacts, EndpointAssumption DEF CniInv, Types, Versioned, Wep
<1>3. /\ v \in WorkloadEndpoint /\ v.container = s /\ v.ip = add[s].ip /\ v.creator = w.creator
      /\ v.labels = w.labels \cup WepLabels(s)
  <2>1. WepLabels(s) \subseteq {"namespace"} \cup Sandboxes
    BY DEF WepLabels, FetchPodLabels
  <2> QED BY <1>1, <1>2, <2>1 DEF Merged, BuildWepSpec, WorkloadEndpoint
<1>4. "namespace" \in v.labels /\ v.labels \subseteq w.labels \cup {"namespace", s}
  BY <1>3 DEF WepLabels, FetchPodLabels
<1> HIDE DEF v
<1>5. /\ PodOf[w.creator] = PodOf[s] /\ life[w.creator] # "new"
      /\ life[w.creator] # "dead" => w.labels \subseteq {"namespace", w.creator}
  BY <1>1, CallFacts DEF CniInv, Recorded, Wep
<1>6. w.creator \in Sandboxes /\ (w.creator = s \/ life[w.creator] = "dead")
  <2>1. w.creator \in Sandboxes
    BY <1>2 DEF WorkloadEndpoint
  <2> QED BY <1>1, <1>5, <2>1, AloneAtWork DEF SamePod
<1>7. life[v.creator] # "dead" => v.labels \subseteq {"namespace", v.creator}
  BY <1>3, <1>4, <1>5, <1>6
<1> HIDE DEF w
<1>8. Bump(PodOf[s], v)
  BY <1>1 DEF v, w
<1> QED BY <1>1, <1>3, <1>4, <1>5, <1>7, <1>8, WriteKeeps

LEMMA TouchKeeps == ASSUME CniInv, NEW k \in Keys, Touch(k) PROVE CniInv'
<1> DEFINE v == entries[k].value
<1>1. /\ entries[k] # Absent /\ Bump(k, v)
      /\ UNCHANGED <<life, lease, add, told, del, veth, next_index, raced, swallowed>>
  BY DEF Touch, procVars, hostVars
<1>2. v \in WorkloadEndpoint
  BY <1>1, EndpointAssumption DEF CniInv, Types, Versioned
<1> HIDE DEF v
<1>3. /\ next_revision \in Nat /\ next_revision' = next_revision + 1
      /\ entries' \in [Keys -> Versioned \cup {Absent}]
      /\ entries'[k] # Absent
      /\ entries'[k].value = v /\ entries'[k].revision = next_revision
      /\ \A j \in Keys \ {k} : entries'[j] = entries[j]
      /\ \A j \in Keys : entries'[j] # Absent => entries'[j].revision < next_revision'
      /\ \A d \in DelCalls : del[d].revision < next_revision /\ del[d].revision < next_revision'
  BY <1>1, <1>2, OneWritten
<1>4. Types' /\ Alone' /\ Leased' /\ Indexed' /\ Staged' /\ Wired' /\ Unseen'
  BY <1>1, <1>3 DEF CniInv, Types, Alone, SamePod, Leased, Indexed, Staged, Wired, Holds, Host,
                    LinkIndex, Unseen, Patched
<1>5. Recorded' /\ AddressesBacked'
  BY <1>1, <1>3 DEF CniInv, Recorded, AddressesBacked, v
<1>6. Owned' /\ Cleaning'
  BY <1>1, <1>3, CallFacts DEF CniInv, Owned, Patched, Address, Wep, Cleaning, Host, v
<1>7. Deleting'
  BY <1>1, <1>3, CallFacts DEF CniInv, Deleting, Current, Wep
<1> QED BY <1>4, <1>5, <1>6, <1>7 DEF CniInv

-----------------------------------------------------------------------------
(* The interface pair of a sandbox that is being wired. *)
LEMMA PairChanged ==
    ASSUME CniInv, NEW s \in Sandboxes, NEW pair \in Pair,
           veth' = [veth EXCEPT ![PodOf[s]] = pair]
    PROVE  /\ veth' \in [Keys -> Pair \cup {Absent}]
           /\ veth'[PodOf[s]] = pair /\ pair # Absent
           /\ \A k \in Keys : k # PodOf[s] => veth'[k] = veth[k]
BY CallFacts, EndpointAssumption DEF CniInv, Types

(* The kernel's index of a pair is its own, and an ADD's is that of the    *)
(* pair it made or of one that is gone.                                    *)
LEMMA IndexFacts ==
    ASSUME CniInv
    PROVE  /\ next_index \in Nat \ {0}
           /\ \A k \in Keys : veth[k] # Absent =>
                 veth[k] \in Pair /\ veth[k].index \in Nat /\ veth[k].index < next_index
                 /\ veth[k].index # 0
           /\ \A s \in Sandboxes : add[s].index \in Nat /\ add[s].index < next_index
           /\ \A d \in DelCalls : del[d].link \in Nat /\ del[d].link < next_index
BY DEF CniInv, Types, AddProcess, DelProcess, Pair, Indexed, Deleting

LEMMA CreateVethKeeps == ASSUME CniInv, NEW s \in Sandboxes, CreateVeth(s) PROVE CniInv'
<1>1. /\ UNCHANGED <<entries, next_revision, life, lease, told, del, raced, swallowed>>
      /\ add[s].pc = "veth" /\ veth' = [veth EXCEPT ![PodOf[s]] = NewPair(s)]
      /\ next_index' = next_index + 1
      /\ add' = [add EXCEPT ![s].pc = "host_end", ![s].index = next_index]
  BY DEF CreateVeth, At, casVars, history
<1>2. /\ life[s] = "adding"
      /\ \A t \in Sandboxes : SamePod(s, t) => life[t] \in {"new", "dead"} /\ add[t].pc = "idle"
      /\ \A d \in DelCalls : d[1] = s => del[d].pc = "idle"
  BY <1>1, AloneAtWork
<1>3. /\ NewPair(s) \in Pair
      /\ NewPair(s).index = next_index /\ NewPair(s).owner = s /\ NewPair(s).ready = {}
  BY IndexFacts DEF NewPair, Pair
<1>4. /\ veth' \in [Keys -> Pair \cup {Absent}]
      /\ veth'[PodOf[s]] = NewPair(s) /\ veth'[PodOf[s]] # Absent
      /\ \A k \in Keys : k # PodOf[s] => veth'[k] = veth[k]
  BY <1>1, <1>3, PairChanged
<1>5. /\ add' \in [Sandboxes -> AddProcess]
      /\ add'[s].pc = "host_end" /\ add'[s].ip = add[s].ip /\ add'[s].index = next_index
      /\ \A t \in Sandboxes \ {s} : add'[t] = add[t]
  BY <1>1, IndexFacts DEF CniInv, Types, AddProcess, AddSteps
<1>6. Types'
  BY <1>1, <1>4, <1>5, IndexFacts DEF CniInv, Types, Versioned
<1>7. Alone' /\ Leased'
  BY <1>1, <1>2, <1>5 DEF CniInv, Alone, SamePod, Leased, Holding
<1>8. Owned' /\ Recorded' /\ AddressesBacked'
  BY <1>1, <1>2, <1>5 DEF CniInv, Owned, Patched, Address, Wep, Recorded, AddressesBacked
<1>9. Indexed'
  BY <1>1, <1>3, <1>4, <1>5, IndexFacts DEF Indexed
<1>10. Staged'
  <2> SUFFICES ASSUME NEW t \in Sandboxes, Holds(t)', add'[t].pc \in {"host_end", "route", "inside"}
               PROVE  /\ veth'[PodOf[t]].owner = t
                      /\ add'[t].pc = "host_end" => veth'[PodOf[t]].ready = {}
                      /\ add'[t].pc = "route" => veth'[PodOf[t]].ready = HalfWired
                      /\ add'[t].pc = "inside" =>
                            /\ veth'[PodOf[t]].ready = HalfWired \cup {"proxy_arp"}
                            /\ veth'[PodOf[t]].route = add'[t].ip
    BY DEF Staged, Host
  <2>1. CASE t = s
    BY <2>1, <1>3, <1>4, <1>5
  <2>2. CASE t # s
    <3>1. add'[t] = add[t] /\ PodOf[t] # PodOf[s]
      BY <2>2, <1>2, <1>5 DEF SamePod
    <3>2. veth'[PodOf[t]] = veth[PodOf[t]]
      BY <3>1, <1>4, CallFacts
    <3> QED BY <3>1, <3>2 DEF CniInv, Staged, Holds, Host, LinkIndex
  <2> QED BY <2>1, <2>2
<1>11. Wired' /\ Unseen'
  <2>1. \A t \in Sandboxes : life[t] = "wired" => veth'[PodOf[t]] = veth[PodOf[t]]
    BY <1>2, <1>4, CallFacts DEF SamePod
  <2>2. Wired'
    BY <2>1, <1>1 DEF CniInv, Wired, Host
  <2>3. Unseen'
    <3> SUFFICES ASSUME NEW t \in Sandboxes, NEW d \in DelCalls,
                        Patched(t)', t \notin raced, PodOf[d[1]] = PodOf[t]
                 PROVE  /\ del[d].pc \notin {"delete", "find"}
                        /\ del[d].pc = "unlink" /\ life[t] = "wired" /\ veth'[PodOf[t]] # Absent
                              => veth'[PodOf[t]].index # del[d].link
                        /\ del[d].pc = "unlink" /\ add'[t].pc \in {"host_end", "route", "inside"}
                              => add'[t].index # del[d].link
      BY <1>1 DEF Unseen, Host
    <3>1. Patched(t)
      BY <1>1, <1>5 DEF Patched
    <3>2. CASE t = s
      BY <3>1, <3>2, <1>2, <1>5, IndexFacts DEF CniInv, Unseen
    <3>3. CASE t # s
      BY <3>1, <3>3, <2>1, <1>5 DEF CniInv, Unseen, Host
    <3> QED BY <3>2, <3>3
  <2> QED BY <2>2, <2>3
<1>12. Deleting'
  BY <1>1, IndexFacts DEF CniInv, Deleting, Current, Wep
<1>13. Cleaning'
  BY <1>1, <1>2, <1>3, <1>4, CallFacts DEF CniInv, Cleaning, Wep, Host
<1> QED BY <1>6, <1>7, <1>8, <1>9, <1>10, <1>11, <1>12, <1>13 DEF CniInv

(* What a change of the pair by its maker leaves to show: where the        *)
(* process and the sandbox go with it.                                     *)
LEMMA PairKeeps ==
    ASSUME CniInv, NEW s \in Sandboxes, add[s].pc \in {"host_end", "route", "inside"}, Holds(s),
           NEW pair \in Pair, pair.index = Host(s).index, pair.owner = s,
           veth' = [veth EXCEPT ![PodOf[s]] = pair],
           UNCHANGED <<entries, next_revision, lease, del, next_index, raced, swallowed>>,
           \A t \in Sandboxes \ {s} : add'[t] = add[t] /\ life'[t] = life[t] /\ told'[t] = told[t],
           life'[s] # "new", life'[s] # "dead", Patched(s)',
           add'[s].index = add[s].index \/ (add'[s].index = 0 /\ add'[s].pc = "idle")
    PROVE  /\ veth' \in [Keys -> Pair \cup {Absent}] /\ veth'[PodOf[s]] = pair /\ pair # Absent
           /\ \A t \in Sandboxes \ {s} : Patched(t)' => veth'[PodOf[t]] = veth[PodOf[t]]
           /\ Recorded' /\ AddressesBacked' /\ Indexed' /\ Deleting' /\ Unseen' /\ Cleaning'
<1>1. /\ life[s] = "adding"
      /\ \A t \in Sandboxes : SamePod(s, t) => life[t] \in {"new", "dead"} /\ add[t].pc = "idle"
      /\ \A d \in DelCalls : d[1] = s => del[d].pc = "idle"
  BY AloneAtWork
<1>2. /\ veth' \in [Keys -> Pair \cup {Absent}]
      /\ veth'[PodOf[s]] = pair /\ pair # Absent
      /\ \A k \in Keys : k # PodOf[s] => veth'[k] = veth[k]
  BY PairChanged
<1>3. /\ veth[PodOf[s]] # Absent /\ veth[PodOf[s]].index = add[s].index
      /\ pair.index = add[s].index
  BY DEF Holds, Host, LinkIndex
<1>4. \A t \in Sandboxes \ {s} : Patched(t)' =>
          Patched(t) /\ PodOf[t] # PodOf[s] /\ veth'[PodOf[t]] = veth[PodOf[t]]
  BY <1>1, <1>2, CallFacts DEF Patched, SamePod
<1>5. \A t \in Sandboxes : /\ life'[t] = "new" <=> life[t] = "new"
                           /\ life'[t] = "dead" <=> life[t] = "dead"
  BY <1>1
<1>6. Recorded' /\ AddressesBacked'
  <2>1. \A k \in Keys : entries[k] # Absent =>
            entries[k].value.container \in Sandboxes /\ entries[k].value.creator \in Sandboxes
    BY EndpointAssumption DEF CniInv, Types, Versioned, WorkloadEndpoint
  <2> QED BY <2>1, <1>5 DEF CniInv, Recorded, AddressesBacked
<1>7. Indexed'
  <2>1. pair.index \in 1 .. next_index - 1
    BY <1>3, IndexFacts, CallFacts
  <2>2. \A t \in Sandboxes : add'[t].index < next_index
    BY IndexFacts
  <2> QED BY <1>2, <2>1, <2>2 DEF CniInv, Indexed
<1>8. Deleting'
  BY DEF CniInv, Deleting, Current, Wep
<1>9. Unseen'
  <2> SUFFICES ASSUME NEW t \in Sandboxes, NEW d \in DelCalls,
                      Patched(t)', t \notin raced, PodOf[d[1]] = PodOf[t]
               PROVE  /\ del[d].pc \notin {"delete", "find"}
                      /\ del[d].pc = "unlink" /\ life'[t] = "wired" /\ veth'[PodOf[t]] # Absent
                            => veth'[PodOf[t]].index # del[d].link
                      /\ del[d].pc = "unlink" /\ add'[t].pc \in {"host_end", "route", "inside"}
                            => add'[t].index # del[d].link
    BY DEF Unseen, Host
  <2>1. CASE t = s
    <3>1. /\ del[d].pc \notin {"delete", "find"}
          /\ del[d].pc = "unlink" => add[s].index # del[d].link
      BY <2>1 DEF CniInv, Unseen, Patched
    <3> QED BY <2>1, <3>1, <1>2, <1>3
  <2>2. CASE t # s
    BY <2>2, <1>4 DEF CniInv, Unseen, Host
  <2> QED BY <2>1, <2>2
<1>10. Cleaning'
  BY <1>1, <1>2, CallFacts DEF CniInv, Cleaning, Wep, Host
<1> QED BY <1>2, <1>4, <1>6, <1>7, <1>8, <1>9, <1>10

LEMMA WireKeeps ==
    ASSUME CniInv, NEW s \in Sandboxes, NEW from \in {"host_end", "route"}, NEW pair \in Pair,
           NEW to \in {"route", "inside"}, Wire(s, from, to, pair),
           pair.index = Host(s).index, pair.owner = s,
           pair.ready = (IF to = "route" THEN HalfWired ELSE HalfWired \cup {"proxy_arp"}),
           to = "inside" => pair.route = add[s].ip
    PROVE  CniInv'
<1>1. /\ add[s].pc = from /\ Holds(s) /\ veth' = [veth EXCEPT ![PodOf[s]] = pair]
      /\ UNCHANGED <<entries, next_revision, life, lease, told, del, next_index, raced, swallowed>>
  BY DEF Wire, At, casVars, history
<1>2. /\ add' \in [Sandboxes -> AddProcess]
      /\ add'[s].pc = to /\ add'[s].ip = add[s].ip /\ add'[s].index = add[s].index
      /\ \A t \in Sandboxes \ {s} : add'[t] = add[t]
  BY AddGoes DEF Wire, CniInv, AddSteps
<1>3. life[s] = "adding"
  BY <1>1, AloneAtWork
<1>4. /\ veth' \in [Keys -> Pair \cup {Absent}] /\ veth'[PodOf[s]] = pair /\ pair # Absent
      /\ \A t \in Sandboxes \ {s} : Patched(t)' => veth'[PodOf[t]] = veth[PodOf[t]]
      /\ Recorded' /\ AddressesBacked' /\ Indexed' /\ Deleting' /\ Unseen' /\ Cleaning'
  <2>1. Patched(s)'
    BY <1>2 DEF Patched
  <2>2. \A t \in Sandboxes \ {s} : add'[t] = add[t] /\ life'[t] = life[t] /\ told'[t] = told[t]
    BY <1>1, <1>2
  <2> QED BY <1>1, <1>2, <1>3, <2>1, <2>2, PairKeeps
<1>5. Types' /\ Alone' /\ Leased' /\ Owned'
  <2>1. Types'
    BY <1>1, <1>2, <1>4 DEF CniInv, Types, Versioned
  <2>2. Alone' /\ Leased'
    BY <1>1, <1>2, <1>3 DEF CniInv, Alone, SamePod, Leased, Holding
  <2>3. Owned'
    BY <1>1, <1>2, <1>3 DEF CniInv, Owned, Patched, Address, Wep
  <2> QED BY <2>1, <2>2, <2>3
<1>6. Staged' /\ Wired'
  <2>1. \A t \in Sandboxes \ {s} : Patched(t)' => Host(t)' = Host(t) /\ add'[t] = add[t]
    BY <1>2, <1>4 DEF Host
  <2>2. ASSUME NEW t \in Sandboxes, Holds(t)', add'[t].pc \in {"host_end", "route", "inside"}
        PROVE  /\ Host(t)'.owner = t
               /\ add'[t].pc = "host_end" => Host(t)'.ready = {}
               /\ add'[t].pc = "route" => Host(t)'.ready = HalfWired
               /\ add'[t].pc = "inside" => /\ Host(t)'.ready = HalfWired \cup {"proxy_arp"}
                                          /\ Host(t)'.route = add'[t].ip
    <3>1. CASE t = s
      BY <3>1, <1>2, <1>4 DEF Host
    <3>2. CASE t # s
      BY <3>2, <2>1, <2>2 DEF CniInv, Staged, Holds, LinkIndex, Patched
    <3> QED BY <3>1, <3>2
  <2>3. Staged'
    BY <2>2 DEF Staged
  <2>4. Wired'
    BY <2>1, <1>1, <1>3 DEF CniInv, Wired, Patched
  <2> QED BY <2>3, <2>4
<1> QED BY <1>4, <1>5, <1>6 DEF CniInv

LEMMA HostEndKeeps == ASSUME CniInv, NEW s \in Sandboxes, HostEnd(s) PROVE CniInv'
<1> DEFINE pair == SetUp(MoveLinkToNetns(Host(s)), "host end up")
<1>1. Wire(s, "host_end", "route", pair) /\ add[s].pc = "host_end" /\ Holds(s)
  BY DEF HostEnd, Wire, At
<1>2. Host(s) \in Pair /\ Host(s).owner = s /\ Host(s).ready = {}
  BY <1>1, CallFacts, IndexFacts DEF CniInv, Staged, Holds, Host
<1>3. /\ pair \in Pair /\ pair.index = Host(s).index /\ pair.owner = s
      /\ pair.ready = HalfWired
  BY <1>2 DEF SetUp, MoveLinkToNetns, Ready, Pair, Complete, HalfWired
<1> HIDE DEF pair
<1> QED BY <1>1, <1>3, WireKeeps

LEMMA AddRouteKeeps == ASSUME CniInv, NEW s \in Sandboxes, AddRoute(s) PROVE CniInv'
<1> DEFINE pair == HostSysctls([Host(s) EXCEPT !.route = add[s].ip])
<1>1. Wire(s, "route", "inside", pair) /\ add[s].pc = "route" /\ Holds(s)
  BY DEF AddRoute, Wire, At
<1>2. Host(s) \in Pair /\ Host(s).owner = s /\ Host(s).ready = HalfWired
  BY <1>1, CallFacts, IndexFacts DEF CniInv, Staged, Holds, Host
<1>3. add[s].ip \in Addresses
  BY <1>1 DEF CniInv, Leased, Holding
<1>4. /\ pair \in Pair /\ pair.index = Host(s).index /\ pair.owner = s /\ pair.route = add[s].ip
      /\ pair.ready = HalfWired \cup {"proxy_arp"}
  BY <1>2, <1>3 DEF HostSysctls, Ready, Pair, Complete
<1> HIDE DEF pair
<1> QED BY <1>1, <1>4, WireKeeps

(* The last step inside the sandbox: it runs, with all that it was told.   *)
LEMMA InsidePodKeeps == ASSUME CniInv, NEW s \in Sandboxes, InsidePod(s) PROVE CniInv'
<1> DEFINE up == SetUp(RenameLink(Host(s)), "pod end up")
           inside == AddAddr(up, add[s].ip)
           pair == AddGatewayRoute(AddLinkRoute(inside))
<1>1. /\ add[s].pc = "inside" /\ Holds(s) /\ veth' = [veth EXCEPT ![PodOf[s]] = pair]
      /\ life' = [life EXCEPT ![s] = "wired"] /\ told' = [told EXCEPT ![s] = add[s].ip]
      /\ UNCHANGED <<entries, next_revision, lease, del, next_index, raced, swallowed>>
  BY DEF InsidePod, At, CniResult, casVars, history
<1>2. /\ Host(s) \in Pair /\ Host(s).owner = s /\ Host(s).ready = HalfWired \cup {"proxy_arp"}
      /\ Host(s).route = add[s].ip
  BY <1>1, CallFacts, IndexFacts DEF CniInv, Staged, Holds, Host
<1>3. add[s].ip \in Addresses /\ lease[add[s].ip] = s /\ life[s] = "adding"
  BY <1>1, AloneAtWork DEF CniInv, Leased, Holding
<1>4. /\ pair \in Pair /\ pair.index = Host(s).index /\ pair.owner = s
      /\ pair.route = add[s].ip /\ pair.address = add[s].ip /\ pair.ready = Complete
  <2>1. /\ up \in Pair /\ up.index = Host(s).index /\ up.owner = s /\ up.route = add[s].ip
        /\ up.ready = HalfWired \cup {"proxy_arp", "named", "pod end up"}
    BY <1>2 DEF SetUp, RenameLink, Ready, Pair, Complete
  <2> HIDE DEF up
  <2>2. /\ inside \in Pair /\ inside.index = Host(s).index /\ inside.owner = s
        /\ inside.route = add[s].ip /\ inside.address = add[s].ip /\ inside.ready = up.ready
    BY <1>3, <2>1 DEF AddAddr, Pair
  <2> HIDE DEF inside
  <2>3. "pod end up" \in inside.ready
    BY <2>1, <2>2
  <2>4. /\ AddLinkRoute(inside) = [inside EXCEPT !.ready = @ \cup {"to gateway"}]
        /\ AddLinkRoute(inside) \in Pair
        /\ AddLinkRoute(inside).ready = inside.ready \cup {"to gateway"}
    BY <2>2, <2>3 DEF AddLinkRoute, Ready, Pair, Complete
  <2>5. pair = [AddLinkRoute(inside) EXCEPT !.ready = @ \cup {"default"}]
    BY <2>4 DEF AddGatewayRoute, Ready
  <2>6. inside.ready \cup {"to gateway"} \cup {"default"} = Complete
    BY <2>1, <2>2 DEF Complete, HalfWired
  <2> HIDE DEF pair
  <2> QED BY <2>2, <2>4, <2>5, <2>6 DEF Pair
<1> HIDE DEF up, inside, pair
<1>5. /\ add' \in [Sandboxes -> AddProcess]
      /\ add'[s].pc = "idle" /\ add'[s].index = 0
      /\ \A t \in Sandboxes \ {s} : add'[t] = add[t]
  BY AddEnds DEF InsidePod, CniInv
<1>6. /\ life' \in [Sandboxes -> {"new", "adding", "failed", "wired", "dead"}]
      /\ told' \in [Sandboxes -> Addresses \cup {Free}]
      /\ life'[s] = "wired" /\ told'[s] = add[s].ip
      /\ \A t \in Sandboxes \ {s} : life'[t] = life[t] /\ told'[t] = told[t]
  BY <1>1, <1>3 DEF CniInv, Types
<1>7. /\ veth' \in [Keys -> Pair \cup {Absent}] /\ veth'[PodOf[s]] = pair /\ pair # Absent
      /\ \A t \in Sandboxes \ {s} : Patched(t)' => veth'[PodOf[t]] = veth[PodOf[t]]
      /\ Recorded' /\ AddressesBacked' /\ Indexed' /\ Deleting' /\ Unseen' /\ Cleaning'
  <2>1. Patched(s)' /\ life'[s] # "new" /\ life'[s] # "dead"
    BY <1>6 DEF Patched
  <2>2. \A t \in Sandboxes \ {s} : add'[t] = add[t] /\ life'[t] = life[t] /\ told'[t] = told[t]
    BY <1>5, <1>6
  <2> QED BY <1>1, <1>4, <1>5, <2>1, <2>2, PairKeeps
<1>8. Types'
  BY <1>1, <1>5, <1>6, <1>7 DEF CniInv, Types, Versioned
<1>9. Alone' /\ Leased'
  <2>1. \A t \in Sandboxes : SamePod(s, t) => life[t] \in {"new", "dead"}
    BY <1>1, AloneAtWork
  <2>2. \A d \in DelCalls : d[1] = s => del[d].pc = "idle"
    BY <1>1, AloneAtWork
  <2>3. Alone'
    BY <1>1, <1>3, <1>5, <1>6, <2>1, <2>2, CallFacts DEF CniInv, Alone, SamePod
  <2>4. Leased'
    BY <1>1, <1>3, <1>5, <1>6 DEF CniInv, Leased, Holding
  <2> QED BY <2>3, <2>4
<1>10. Owned'
  BY <1>1, <1>3, <1>5, <1>6 DEF CniInv, Owned, Patched, Address, Wep
<1>11. Staged' /\ Wired'
  <2>1. \A t \in Sandboxes \ {s} : Patched(t)' =>
            Host(t)' = Host(t) /\ add'[t] = add[t] /\ life'[t] = life[t] /\ told'[t] = told[t]
    BY <1>5, <1>6, <1>7 DEF Host
  <2>2. Staged'
    BY <2>1, <1>5 DEF CniInv, Staged, Holds, LinkIndex, Patched
  <2>3. Wired'
    BY <2>1, <1>1, <1>4, <1>6, <1>7 DEF CniInv, Wired, Patched, Host
  <2> QED BY <2>2, <2>3
<1> QED BY <1>7, <1>8, <1>9, <1>10, <1>11 DEF CniInv

(* The pair of a dead sandbox goes with its namespace. *)
LEMMA UnplugKeeps == ASSUME CniInv, NEW s \in Sandboxes, Unplug(s) PROVE CniInv'
<1>1. /\ UNCHANGED <<entries, next_revision, life, lease, add, told, del, next_index, raced, swallowed>>
      /\ life[s] = "dead" /\ veth[PodOf[s]] # Absent /\ veth[PodOf[s]].owner = s
      /\ veth' = [veth EXCEPT ![PodOf[s]] = Absent]
  BY DEF Unplug, Host, casVars, procVars, history
<1>2. /\ veth' \in [Keys -> Pair \cup {Absent}] /\ veth'[PodOf[s]] = Absent
      /\ \A k \in Keys : k # PodOf[s] => veth'[k] = veth[k]
  BY <1>1, CallFacts DEF CniInv, Types
<1>3. Types' /\ Alone' /\ Leased' /\ Owned' /\ Recorded' /\ AddressesBacked'
  BY <1>1, <1>2 DEF CniInv, Types, Versioned, Alone, SamePod, Leased, Owned, Patched, Address, Wep,
                    Recorded, AddressesBacked
<1>4. Indexed' /\ Deleting' /\ Cleaning'
  BY <1>1, <1>2, CallFacts DEF CniInv, Indexed, Deleting, Current, Wep, Cleaning, Host
<1>5. Staged'
  BY <1>1, <1>2, CallFacts DEF CniInv, Staged, Holds, Host, LinkIndex
<1>6. Wired' /\ Unseen'
  <2>1. \A t \in Sandboxes : life[t] = "wired" /\ t \notin raced => PodOf[t] # PodOf[s]
    BY <1>1 DEF CniInv, Wired, Host
  <2>2. Wired'
    BY <2>1, <1>1, <1>2, CallFacts DEF CniInv, Wired, Host
  <2>3. Unseen'
    BY <1>1, <1>2, CallFacts DEF CniInv, Unseen, Patched, Host
  <2> QED BY <2>2, <2>3
<1> QED BY <1>3, <1>4, <1>5, <1>6 DEF CniInv

-----------------------------------------------------------------------------
(* An address that is no longer the endpoint's has been freed by a DEL. *)
Freed(d) == del[d].pc \in {"read", "delete", "failed"} \/ d \in swallowed
Backed(k) ==
    \/ lease[entries[k].value.ip] = entries[k].value.container
    \/ \E d \in DelCalls : d[1] = entries[k].value.container /\ Freed(d)

LEMMA EndpointBacked ==
    /\ AddressesBacked <=> \A k \in Keys : entries[k] # Absent => Backed(k)
    /\ AddressesBacked' <=> \A k \in Keys : entries'[k] # Absent => Backed(k)'
<1>1. AddressesBacked <=> \A k \in Keys : entries[k] # Absent => Backed(k)
  BY DEF AddressesBacked, Backed, Freed
<1>2. AddressesBacked' <=> \A k \in Keys : entries'[k] # Absent => Backed(k)'
  BY DEF AddressesBacked, Backed, Freed
<1> QED BY <1>1, <1>2

(* DEL.  A step that leaves the datastore, the interfaces and the leases:  *)
(* what the process knows is sound where it goes.                          *)
LEMMA DelKeeps ==
    ASSUME CniInv, NEW d \in DelCalls, life[d[1]] = "dead",
           UNCHANGED <<casVars, life, lease, add, told, hostVars>>,
           del' \in [DelCalls -> DelProcess], \A c \in DelCalls \ {d} : del'[c] = del[c],
           raced \subseteq raced', swallowed \subseteq swallowed',
           del'[d].revision < next_revision, del'[d].link < next_index,
           del'[d].pc = "delete" => Current(PodOf[d[1]], del'[d].revision)
                                    /\ Wep(d[1]).value.container = d[1],
           \/ del[d].pc \notin {"read", "delete", "failed"} \/ d \in swallowed'
           \/ del'[d].pc \in {"read", "delete", "failed"}
           \/ Wep(d[1]) = Absent \/ Wep(d[1]).value.container # d[1],
           \A s \in Sandboxes : Patched(s) /\ s \notin raced' /\ PodOf[d[1]] = PodOf[s] =>
               /\ del'[d].pc \notin {"delete", "find"}
               /\ del'[d].pc = "unlink" => del[d].pc = "find",
           d \notin swallowed' =>
               /\ del'[d].pc \in {"read", "delete", "find", "unlink", "ended", "spared"}
                     => \A a \in Addresses : lease[a] # d[1]
               /\ del'[d].pc \in {"find", "unlink", "ended", "spared"}
                     => Wep(d[1]) = Absent \/ Wep(d[1]).value.container # d[1]
               /\ del'[d].pc = "ended" => Host(d[1]) = Absent \/ Host(d[1]).owner # d[1]
    PROVE  CniInv'
<1>1. UNCHANGED <<entries, next_revision, life, lease, add, told, veth, next_index>>
  BY DEF casVars, hostVars
<1>2. Types' /\ Alone' /\ Leased' /\ Owned' /\ Recorded' /\ Indexed' /\ Staged' /\ Wired'
  BY <1>1 DEF CniInv, Types, Versioned, Alone, SamePod, Leased, Owned, Patched, Address, Wep,
              Recorded, Indexed, Staged, Wired, Holds, Host, LinkIndex
<1>3. AddressesBacked'
  <2> SUFFICES ASSUME NEW k \in Keys, entries[k] # Absent,
                      lease[entries[k].value.ip] # entries[k].value.container
               PROVE  \E c \in DelCalls : c[1] = entries[k].value.container /\ Freed(c)'
    BY <1>1, EndpointBacked DEF Backed
  <2>1. PICK c \in DelCalls : c[1] = entries[k].value.container /\ Freed(c)
    BY EndpointBacked DEF CniInv, Backed
  <2>2. PodOf[entries[k].value.container] = k
    BY DEF CniInv, Recorded
  <2>3. Freed(c)'
    <3>1. CASE c # d
      BY <2>1, <3>1 DEF Freed
    <3>2. CASE c = d
      <4>1. Wep(d[1]) = entries[k] /\ entries[k].value.container = d[1]
        BY <2>1, <2>2, <3>2 DEF Wep
      <4> QED BY <2>1, <3>2, <4>1 DEF Freed
    <3> QED BY <3>1, <3>2
  <2> QED BY <2>1, <2>3
<1>4. Deleting'
  BY <1>1 DEF CniInv, Deleting, Current, Wep
<1>5. Unseen'
  BY <1>1 DEF CniInv, Unseen, Patched, Host
<1>6. Cleaning'
  BY <1>1 DEF CniInv, Cleaning, Wep, Host
<1> QED BY <1>2, <1>3, <1>4, <1>5, <1>6 DEF CniInv

LEMMA StartDelKeeps == ASSUME CniInv, NEW d \in DelCalls, StartDel(d) PROVE CniInv'
<1>1. /\ life[d[1]] = "dead" /\ del[d].pc = "idle"
      /\ UNCHANGED <<casVars, life, lease, add, told, hostVars, raced, swallowed>>
  BY DEF StartDel, DelAt, DelOnly, procVars, hostVars
<1>2. /\ del' \in [DelCalls -> DelProcess]
      /\ del'[d] = [pc |-> "release", revision |-> 0, link |-> 0]
      /\ \A c \in DelCalls \ {d} : del'[c] = del[c]
  BY DelGoes DEF StartDel, DelSteps, CniInv
<1>3. 0 < next_revision /\ 0 < next_index
  BY DEF CniInv, Types, Deleting, DelProcess
<1> QED BY <1>1, <1>2, <1>3, DelKeeps

(* A DEL that cannot read the endpoint: its owner counts as exposed. *)
LEMMA BlindKeeps ==
    ASSUME CniInv, NEW d \in DelCalls, del[d].pc \in {"release", "read"}, Blind(d),
           UNCHANGED <<casVars, life, lease, add, told, hostVars>>
    PROVE  CniInv'
<1>1. /\ life[d[1]] = "dead" /\ d \in swallowed'
      /\ raced \subseteq raced' /\ swallowed \subseteq swallowed'
      /\ Wep(d[1]) # Absent => {Wep(d[1]).value.container} \ {d[1]} \subseteq raced'
  BY DEF CniInv, Alone, Blind
<1>2. /\ del' \in [DelCalls -> DelProcess]
      /\ del'[d] = [pc |-> "find", revision |-> 0, link |-> 0]
      /\ \A c \in DelCalls \ {d} : del'[c] = del[c]
  BY DelGoes DEF Blind, DelSteps, CniInv
<1>3. \A s \in Sandboxes : Patched(s) /\ PodOf[d[1]] = PodOf[s] => s \in raced'
  <2> SUFFICES ASSUME NEW s \in Sandboxes, Patched(s), PodOf[d[1]] = PodOf[s]
               PROVE  s \in raced'
    OBVIOUS
  <2>1. Wep(d[1]) # Absent /\ Wep(d[1]).value.container = s
    BY DEF CniInv, Owned, Wep
  <2>2. life[s] # "dead"
    BY AloneAtWork DEF Patched
  <2> QED BY <1>1, <2>1, <2>2
<1>4. 0 < next_revision /\ 0 < next_index
  BY DEF CniInv, Types, Deleting, DelProcess
<1> QED BY <1>1, <1>2, <1>3, <1>4, DelKeeps

LEMMA ReleaseKeeps == ASSUME CniInv, NEW d \in DelCalls, Release(d) PROVE CniInv'
<1>1. /\ del[d].pc = "release" /\ life[d[1]] = "dead" /\ d[1] \in Sandboxes
      /\ UNCHANGED <<casVars, life, add, told, hostVars>>
  BY CallFacts DEF Release, DelAt, DelOnly, CniInv, Alone, procVars, hostVars
<1>2. CASE Blind(d) /\ UNCHANGED lease
  BY <1>1, <1>2, BlindKeeps
<1>3. CASE /\ DelGoto(d, "read") /\ UNCHANGED raced
           /\ \/ swallowed' = swallowed \cup {d} /\ UNCHANGED lease
              \/ /\ swallowed' = swallowed
                 /\ lease' = [a \in Addresses |-> IF lease[a] = d[1] THEN Free ELSE lease[a]]
  <2>1. /\ del' \in [DelCalls -> DelProcess]
        /\ del'[d] = [pc |-> "read", revision |-> 0, link |-> 0]
        /\ \A c \in DelCalls \ {d} : del'[c] = del[c]
    BY <1>3, DelGoes DEF DelSteps, CniInv
  <2>2. 0 < next_revision /\ 0 < next_index
    BY DEF CniInv, Types, Deleting, DelProcess
  <2>3. CASE swallowed' = swallowed \cup {d} /\ UNCHANGED lease
    BY <1>1, <1>3, <2>1, <2>2, <2>3, DelKeeps
  <2>4. CASE /\ swallowed' = swallowed
             /\ lease' = [a \in Addresses |-> IF lease[a] = d[1] THEN Free ELSE lease[a]]
    <3>1. /\ UNCHANGED <<entries, next_revision, life, add, told, veth, next_index, raced, swallowed>>
          /\ lease' \in [Addresses -> Sandboxes \cup {Free}]
          /\ \A a \in Addresses : /\ lease'[a] # d[1]
                                  /\ lease[a] # d[1] => lease'[a] = lease[a]
                                  /\ lease'[a] \in {lease[a], Free}
      BY <1>1, <1>3, <2>4, CallsAssumption DEF CniInv, Types, casVars, hostVars
    <3>2. Types' /\ Alone'
      BY <1>1, <2>1, <3>1 DEF CniInv, Types, Versioned, Alone, SamePod
    <3>3. Leased'
      <4>1. \A s \in Sandboxes : add[s].pc \in Holding \/ life[s] = "wired" => s # d[1]
        BY <1>1, AloneAtWork DEF Holding
      <4> QED BY <3>1, <4>1 DEF CniInv, Leased
    <3>4. Owned' /\ Recorded' /\ Indexed' /\ Staged' /\ Wired'
      BY <3>1 DEF CniInv, Owned, Patched, Address, Wep, Recorded, Indexed, Staged, Wired, Holds,
                  Host, LinkIndex
    <3>5. AddressesBacked'
      <4> SUFFICES ASSUME NEW k \in Keys, entries[k] # Absent,
                          lease'[entries[k].value.ip] # entries[k].value.container
                   PROVE  \E c \in DelCalls : c[1] = entries[k].value.container /\ Freed(c)'
        BY <3>1, EndpointBacked DEF Backed
      <4>1. entries[k].value.ip \in Addresses
        BY EndpointAssumption DEF CniInv, Types, Versioned, WorkloadEndpoint
      <4>2. CASE entries[k].value.container = d[1]
        BY <4>2, <2>1 DEF Freed
      <4>3. CASE entries[k].value.container # d[1]
        <5>1. lease[entries[k].value.ip] # entries[k].value.container
          BY <3>1, <4>1, <4>3
        <5>2. PICK c \in DelCalls : c[1] = entries[k].value.container /\ Freed(c)
          BY <5>1, EndpointBacked DEF CniInv, Backed
        <5> QED BY <3>1, <4>3, <5>2, <2>1 DEF Freed
      <4> QED BY <4>2, <4>3
    <3>6. Deleting' /\ Unseen'
      BY <1>1, <2>1, <2>2, <3>1 DEF CniInv, Deleting, Current, Wep, Unseen, Patched, Host
    <3>7. Cleaning'
      <4>1. \A c \in DelCalls, a \in Addresses : lease[a] # c[1] => lease'[a] # c[1]
        BY <3>1, CallFacts, CallsAssumption
      <4> QED BY <2>1, <3>1, <4>1 DEF CniInv, Cleaning, Wep, Host
    <3> QED BY <3>2, <3>3, <3>4, <3>5, <3>6, <3>7 DEF CniInv
  <2> QED BY <1>3, <2>3, <2>4
<1> QED BY <1>2, <1>3 DEF Release, Handle

LEMMA ReadWepKeeps == ASSUME CniInv, NEW d \in DelCalls, ReadWep(d) PROVE CniInv'
<1>1. /\ del[d].pc = "read" /\ life[d[1]] = "dead" /\ d[1] \in Sandboxes
      /\ UNCHANGED <<casVars, life, lease, add, told, hostVars>>
  BY CallFacts DEF ReadWep, DelAt, DelOnly, CniInv, Alone, procVars, hostVars
<1>2. /\ 0 < next_revision /\ 0 < next_index
      /\ d \notin swallowed => \A a \in Addresses : lease[a] # d[1]
  BY <1>1 DEF CniInv, Types, Deleting, DelProcess, Cleaning
<1>3. \A s \in Sandboxes : Patched(s) /\ PodOf[d[1]] = PodOf[s] =>
          s # d[1] /\ Wep(d[1]) # Absent /\ Wep(d[1]).value.container = s
  BY <1>1, AloneAtWork DEF CniInv, Owned, Wep, Patched
<1>4. CASE Blind(d)
  BY <1>1, <1>4, BlindKeeps
<1>5. CASE Wep(d[1]) = Absent /\ DelGoto(d, "find") /\ UNCHANGED <<swallowed, raced>>
  <2>1. /\ del' \in [DelCalls -> DelProcess]
        /\ del'[d] = [pc |-> "find", revision |-> 0, link |-> 0]
        /\ \A c \in DelCalls \ {d} : del'[c] = del[c]
    BY <1>5, DelGoes DEF DelSteps, CniInv
  <2> QED BY <1>1, <1>2, <1>3, <1>5, <2>1, DelKeeps
<1>6. CASE /\ Wep(d[1]) # Absent /\ OwnedByOther(d) /\ DelGoto(d, "spared")
           /\ UNCHANGED <<swallowed, raced>>
  <2>1. /\ del' \in [DelCalls -> DelProcess]
        /\ del'[d] = [pc |-> "spared", revision |-> 0, link |-> 0]
        /\ \A c \in DelCalls \ {d} : del'[c] = del[c]
    BY <1>6, DelGoes DEF DelSteps, CniInv
  <2> QED BY <1>1, <1>2, <1>6, <2>1, DelKeeps DEF OwnedByOther
<1>7. CASE /\ Wep(d[1]) # Absent /\ ~OwnedByOther(d)
           /\ del' = [del EXCEPT ![d].pc = "delete", ![d].revision = Wep(d[1]).revision]
           /\ UNCHANGED <<swallowed, raced>>
  <2>1. Wep(d[1]).revision \in Nat /\ Wep(d[1]).revision < next_revision
    BY <1>7, CallFacts DEF CniInv, Types, Versioned, Recorded, Wep
  <2>2. /\ del' \in [DelCalls -> DelProcess]
        /\ del'[d].pc = "delete" /\ del'[d].revision = Wep(d[1]).revision
        /\ del'[d].link = del[d].link
        /\ \A c \in DelCalls \ {d} : del'[c] = del[c]
    BY <1>7, <2>1 DEF CniInv, Types, DelProcess, DelSteps
  <2>3. Current(PodOf[d[1]], del'[d].revision) /\ Wep(d[1]).value.container = d[1]
    BY <1>7, <2>2 DEF Current, Wep, OwnedByOther
  <2>4. del'[d].link < next_index
    BY <2>2 DEF CniInv, Deleting
  <2> QED BY <1>1, <1>2, <1>3, <1>7, <2>1, <2>2, <2>3, <2>4, DelKeeps
<1> QED BY <1>4, <1>5, <1>6, <1>7 DEF ReadWep

LEMMA DeleteWepKeeps == ASSUME CniInv, NEW d \in DelCalls, DeleteWep(d) PROVE CniInv'
<1>1. /\ del[d].pc = "delete" /\ life[d[1]] = "dead" /\ PodOf[d[1]] \in Keys
      /\ DelGoto(d, "find") /\ UNCHANGED <<life, lease, add, told, hostVars, raced>>
  BY CallFacts DEF DeleteWep, DelAt, DelOnly, CniInv, Alone, procVars, hostVars
<1>2. /\ del' \in [DelCalls -> DelProcess]
      /\ del'[d] = [pc |-> "find", revision |-> 0, link |-> 0]
      /\ \A c \in DelCalls \ {d} : del'[c] = del[c]
  BY <1>1, DelGoes DEF DelSteps, CniInv
<1>3. /\ 0 < next_revision /\ 0 < next_index
      /\ d \notin swallowed => \A a \in Addresses : lease[a] # d[1]
      /\ \A s \in Sandboxes : Patched(s) /\ PodOf[d[1]] = PodOf[s] => s \in raced
  BY <1>1 DEF CniInv, Types, Deleting, DelProcess, Cleaning, Unseen
<1>4. CASE Wep(d[1]) = Absent /\ UNCHANGED <<casVars, swallowed>>
  BY <1>1, <1>2, <1>3, <1>4, DelKeeps
<1>5. CASE swallowed' = swallowed \cup {d} /\ UNCHANGED casVars
  BY <1>1, <1>2, <1>3, <1>5, DelKeeps
<1>6. CASE Delete(PodOf[d[1]], del[d].revision) /\ UNCHANGED swallowed
  <2>1. /\ UNCHANGED <<next_revision, life, lease, add, told, veth, next_index, raced, swallowed>>
        /\ entries' \in [Keys -> Versioned \cup {Absent}] /\ entries'[PodOf[d[1]]] = Absent
        /\ \A k \in Keys : k # PodOf[d[1]] => entries'[k] = entries[k]
        /\ entries[PodOf[d[1]]] # Absent /\ entries[PodOf[d[1]]].value.container = d[1]
    BY <1>1, <1>6 DEF Delete, hostVars, CniInv, Types, Deleting, Wep, Current
  <2>2. Types' /\ Alone' /\ Leased' /\ Indexed' /\ Staged' /\ Wired'
    BY <1>1, <1>2, <2>1 DEF CniInv, Types, Versioned, Alone, SamePod, Leased, Indexed, Staged,
                            Wired, Holds, Host, LinkIndex
  <2>3. Owned'
    <3>1. \A s \in Sandboxes : Patched(s) => PodOf[s] # PodOf[d[1]]
      <4> SUFFICES ASSUME NEW s \in Sandboxes, Patched(s), PodOf[s] = PodOf[d[1]] PROVE FALSE
        OBVIOUS
      <4>1. d[1] = s
        BY <2>1 DEF CniInv, Owned, Wep
      <4> QED BY <4>1, <1>1, AloneAtWork DEF Patched
    <3> QED BY <3>1, <2>1, CallFacts DEF CniInv, Owned, Patched, Address, Wep
  <2>4. Recorded'
    BY <2>1 DEF CniInv, Recorded
  <2>5. AddressesBacked'
    <3> SUFFICES ASSUME NEW k \in Keys, entries'[k] # Absent,
                        lease[entries[k].value.ip] # entries[k].value.container
                 PROVE  \E c \in DelCalls : c[1] = entries[k].value.container /\ Freed(c)'
      BY <2>1, EndpointBacked DEF Backed
    <3>1. k # PodOf[d[1]] /\ entries[k] # Absent
      BY <2>1
    <3>2. PICK c \in DelCalls : c[1] = entries[k].value.container /\ Freed(c)
      BY <3>1, EndpointBacked DEF CniInv, Backed
    <3>3. c # d
      BY <3>1, <3>2 DEF CniInv, Recorded
    <3> QED BY <2>1, <3>2, <3>3, <1>2 DEF Freed
  <2>6. Deleting' /\ Unseen'
    BY <1>2, <1>3, <2>1, CallFacts DEF CniInv, Deleting, Current, Wep, Unseen, Patched, Host
  <2>7. Cleaning'
    BY <1>1, <1>2, <1>3, <2>1, CallFacts DEF CniInv, Cleaning, Wep, Host
  <2> QED BY <2>2, <2>3, <2>4, <2>5, <2>6, <2>7 DEF CniInv
<1> QED BY <1>4, <1>5, <1>6 DEF DeleteWep

LEMMA FindLinkKeeps == ASSUME CniInv, NEW d \in DelCalls, FindLink(d) PROVE CniInv'
<1>1. /\ del[d].pc = "find" /\ life[d[1]] = "dead" /\ PodOf[d[1]] \in Keys
      /\ UNCHANGED <<casVars, life, lease, add, told, hostVars, raced, swallowed>>
  BY CallFacts DEF FindLink, DelAt, DelOnly, CniInv, Alone, procVars, hostVars
<1>2. /\ 0 < next_revision /\ 0 < next_index
      /\ d \notin swallowed => \A a \in Addresses : lease[a] # d[1]
      /\ d \notin swallowed => Wep(d[1]) = Absent \/ Wep(d[1]).value.container # d[1]
  BY <1>1 DEF CniInv, Types, Deleting, DelProcess, Cleaning
<1>3. CASE LinkIndex(d[1]) = 0 /\ DelGoto(d, "ended")
  <2>1. /\ del' \in [DelCalls -> DelProcess]
        /\ del'[d] = [pc |-> "ended", revision |-> 0, link |-> 0]
        /\ \A c \in DelCalls \ {d} : del'[c] = del[c]
    BY <1>3, DelGoes DEF DelSteps, CniInv
  <2>2. Host(d[1]) = Absent
    BY <1>1, <1>3 DEF LinkIndex, Host, CniInv, Indexed, Types
  <2> QED BY <1>1, <1>2, <2>1, <2>2, DelKeeps
<1>4. CASE /\ LinkIndex(d[1]) # 0
           /\ del' = [del EXCEPT ![d].pc = "unlink", ![d].link = LinkIndex(d[1])]
  <2>1. LinkIndex(d[1]) \in Nat /\ LinkIndex(d[1]) < next_index
    BY <1>1, <1>4 DEF LinkIndex, Host, CniInv, Indexed, Types, Pair
  <2>2. /\ del' \in [DelCalls -> DelProcess]
        /\ del'[d].pc = "unlink" /\ del'[d].revision = del[d].revision
        /\ del'[d].link = LinkIndex(d[1])
        /\ \A c \in DelCalls \ {d} : del'[c] = del[c]
    BY <1>4, <2>1 DEF CniInv, Types, DelProcess, DelSteps
  <2>3. del'[d].revision < next_revision /\ del'[d].link < next_index
    BY <2>1, <2>2 DEF CniInv, Deleting
  <2> QED BY <1>1, <1>2, <2>2, <2>3, DelKeeps
<1> QED BY <1>3, <1>4 DEF FindLink

LEMMA FailDelKeeps == ASSUME CniInv, NEW d \in DelCalls, FailDel(d) PROVE CniInv'
<1>1. /\ del[d].pc # "idle" /\ life[d[1]] = "dead"
      /\ UNCHANGED <<casVars, life, lease, add, told, hostVars, raced, swallowed>>
  BY DEF FailDel, DelOnly, CniInv, Alone, procVars, hostVars
<1>2. /\ del' \in [DelCalls -> DelProcess]
      /\ del'[d] = [pc |-> "failed", revision |-> 0, link |-> 0]
      /\ \A c \in DelCalls \ {d} : del'[c] = del[c]
  BY DelGoes DEF FailDel, DelSteps, CniInv
<1>3. 0 < next_revision /\ 0 < next_index
  BY DEF CniInv, Types, Deleting, DelProcess
<1> QED BY <1>1, <1>2, <1>3, DelKeeps

(* The interface that goes is the one DEL found: not that of a live        *)
(* sandbox whose endpoint DEL could see.                                   *)
LEMMA UnlinkKeeps == ASSUME CniInv, NEW d \in DelCalls, Unlink(d) PROVE CniInv'
<1>1. /\ UNCHANGED <<entries, next_revision, life, lease, add, told, next_index, raced, swallowed>>
      /\ del[d].pc = "unlink" /\ life[d[1]] = "dead" /\ PodOf[d[1]] \in Keys
      /\ veth[PodOf[d[1]]] # Absent /\ veth[PodOf[d[1]]].index = del[d].link
      /\ veth' = [veth EXCEPT ![PodOf[d[1]]] = Absent]
  BY CallFacts DEF Unlink, DelAt, DelOnly, Host, casVars, procVars, CniInv, Alone
<1>2. /\ veth' \in [Keys -> Pair \cup {Absent}] /\ veth'[PodOf[d[1]]] = Absent
      /\ \A k \in Keys : k # PodOf[d[1]] => veth'[k] = veth[k]
  BY <1>1 DEF CniInv, Types
<1>3. /\ del' \in [DelCalls -> DelProcess]
      /\ del'[d] = [pc |-> "ended", revision |-> 0, link |-> 0]
      /\ \A c \in DelCalls \ {d} : del'[c] = del[c]
  BY DelGoes DEF Unlink, DelSteps, CniInv
<1>4. Types' /\ Alone' /\ Leased' /\ Owned' /\ Recorded'
  BY <1>1, <1>2, <1>3 DEF CniInv, Types, Versioned, Alone, SamePod, Leased, Owned, Patched, Address,
                          Wep, Recorded
<1>5. AddressesBacked'
  BY <1>1, <1>3, EndpointBacked DEF CniInv, Backed, Freed
<1>6. Indexed' /\ Staged'
  BY <1>1, <1>2, CallFacts DEF CniInv, Indexed, Staged, Holds, Host, LinkIndex
<1>7. Wired'
  <2>1. \A s \in Sandboxes : life[s] = "wired" /\ s \notin raced => PodOf[s] # PodOf[d[1]]
    BY <1>1 DEF CniInv, Wired, Unseen, Patched, Host
  <2> QED BY <2>1, <1>1, <1>2, CallFacts DEF CniInv, Wired, Host
<1>8. Deleting' /\ Unseen'
  <2>1. 0 < next_revision /\ 0 < next_index
    BY DEF CniInv, Types, Deleting, DelProcess
  <2> QED BY <2>1, <1>1, <1>2, <1>3, CallFacts DEF CniInv, Deleting, Current, Wep, Unseen, Patched, Host
<1>9. Cleaning'
  BY <1>1, <1>2, <1>3, CallFacts DEF CniInv, Cleaning, Wep, Host
<1> QED BY <1>4, <1>5, <1>6, <1>7, <1>8, <1>9 DEF CniInv

-----------------------------------------------------------------------------
LEMMA InitHolds == Init => CniInv
<1> SUFFICES ASSUME Init PROVE CniInv
  OBVIOUS
<1>1. entries = [k \in Keys |-> Absent] /\ next_revision = 2 /\ next_index = 1
  BY EndpointAssumption DEF Init, CasInit
<1>2. Types
  BY <1>1 DEF Init, Types, AddProcess, AddSteps, DelProcess, DelSteps
<1>3. Alone /\ Leased /\ Owned /\ Recorded /\ AddressesBacked
  BY <1>1, CallFacts DEF Init, Alone, Leased, Holding, Owned, Patched, Recorded, AddressesBacked
<1>4. Indexed /\ Staged /\ Wired
  BY <1>1, CallFacts DEF Init, Indexed, Staged, Wired, Holds, Host
<1>5. Deleting /\ Unseen /\ Cleaning
  BY <1>1, CallFacts DEF Init, Deleting, Current, Unseen, Patched, Cleaning
<1> QED BY <1>2, <1>3, <1>4, <1>5 DEF CniInv

LEMMA NextKeeps == CniInv /\ [Next]_vars => CniInv'
<1> SUFFICES ASSUME CniInv, [Next]_vars PROVE CniInv'
  OBVIOUS
<1>1. ASSUME NEW s \in Sandboxes, StartAdd(s) \/ FailAdd(s) \/ Die(s) \/ Unplug(s) PROVE CniInv'
  BY <1>1, StartAddKeeps, FailAddKeeps, DieKeeps, UnplugKeeps
<1>2. ASSUME NEW s \in Sandboxes, AcquireLock(s) \/ GetWep(s) PROVE CniInv'
  <2>1. PICK step \in {"allocate", "create", "patch"} :
           Goto(s, step) /\ (add[s].pc \in Holding \/ step = "allocate")
    BY <1>2 DEF AcquireLock, GetWep, At, Holding
  <2>2. /\ add[s].pc # "idle"
        /\ UNCHANGED <<casVars, life, lease, told, del, hostVars, raced, swallowed>>
    BY <1>2 DEF AcquireLock, GetWep, At, history
  <2> QED BY <2>1, <2>2, AddAdvances
<1>3. ASSUME NEW s \in Sandboxes, Allocate(s) \/ CreateWep(s) \/ PatchWep(s) PROVE CniInv'
  BY <1>3, AllocateKeeps, CreateWepKeeps, PatchWepKeeps
<1>4. ASSUME NEW s \in Sandboxes, CreateVeth(s) \/ HostEnd(s) \/ AddRoute(s) \/ InsidePod(s)
      PROVE  CniInv'
  BY <1>4, CreateVethKeeps, HostEndKeeps, AddRouteKeeps, InsidePodKeeps
<1>5. ASSUME NEW d \in DelCalls, StartDel(d) \/ DelStep(d) \/ FailDel(d) PROVE CniInv'
  BY <1>5, StartDelKeeps, ReleaseKeeps, ReadWepKeeps, DeleteWepKeeps, FindLinkKeeps, UnlinkKeeps,
     FailDelKeeps DEF DelStep
<1>6. ASSUME NEW k \in Keys, Touch(k) PROVE CniInv'
  BY <1>6, TouchKeeps
<1>7. CASE UNCHANGED vars
  BY <1>7 DEF vars, casVars, procVars, hostVars, history, CniInv, Types, Versioned, Alone, SamePod,
              Leased, Owned, Patched, Address, Wep, Recorded, AddressesBacked, Indexed, Staged, Wired,
              Holds, Host, LinkIndex, Deleting, Current, Unseen, Cleaning
<1> QED BY <1>1, <1>2, <1>3, <1>4, <1>5, <1>6, <1>7 DEF Next, AddStep

(* The inductive invariant, for any pods, sandboxes and addresses. *)
THEOREM Invariance == Spec => []CniInv
BY InitHolds, NextKeeps, PTL DEF Spec

LEMMA LivePod == CniInv => LivePodIntact
<1> SUFFICES ASSUME CniInv, NEW s \in Sandboxes, life[s] = "wired"
             PROVE  EndpointIntact(s) /\ (s \notin raced => WiringIntact(s))
  BY DEF LivePodIntact
<1>1. /\ Wep(s) # Absent
      /\ Wep(s).value.container = s /\ Wep(s).value.ip = told[s] /\ lease[told[s]] = s
      /\ "namespace" \in Wep(s).value.labels
  BY DEF CniInv, Owned, Patched, Address, Leased
<1>2. Wep(s).value.creator = s => Wep(s).value.labels \subseteq {"namespace", s}
  BY <1>1, CallFacts DEF CniInv, Recorded, Wep
<1>3. EndpointIntact(s)
  BY <1>1, <1>2 DEF EndpointIntact
<1>4. s \notin raced => WiringIntact(s)
  BY <1>1 DEF CniInv, Wired, WiringIntact
<1> QED BY <1>3, <1>4

(* However the ADDs and DELs of a pod's sandboxes interleave, and wherever *)
(* they fail or are killed, the running sandbox keeps its endpoint, its    *)
(* address, its labels, and, unless a DEL missed it, its interface.        *)
THEOREM RunningPodIsIntact == Spec => []LivePodIntact
BY Invariance, LivePod, PTL

(* Every endpoint's address is leased to its sandbox, unless a DEL of that *)
(* sandbox has freed it and not yet removed the endpoint.                  *)
THEOREM EndpointsAreBacked == Spec => []AddressesBacked
<1>1. CniInv => AddressesBacked
  BY DEF CniInv
<1> QED BY <1>1, Invariance, PTL

(* A DEL that ended without ignoring an error has left nothing of its      *)
(* sandbox, and nothing of it comes back.                                  *)
THEOREM DelLeavesNothing == Spec => []CleanedUp
<1>1. CniInv => CleanedUp
  BY DEF CniInv, Cleaning, CleanedUp
<1> QED BY <1>1, Invariance, PTL

=============================================================================
