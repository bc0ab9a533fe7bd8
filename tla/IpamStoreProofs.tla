-------------------------- MODULE IpamStoreProofs --------------------------
(***************************************************************************)
(* Machine-checked facts about the store-backed driver: who owns a block,  *)
(* for any hosts, processes, blocks and handles and any number of calls.   *)
(***************************************************************************)
EXTENDS IpamStore, FiniteSetTheorems, WellFoundedInduction, TLAPS

Stored == [value : AllValues, revision : Nat]

Steps == {"idle", "scan", "claim", "own", "confirm", "take", "put", "index",
          "release", "empty", "delete", "drop"}
Walks == [pass : 0..3, i : Nat, owned : Nat, got : Nat, taken : Nat]

(* What is stored under a key is of the key's kind. *)
StoreTypes ==
    /\ entries \in [AllKeys -> Stored \cup {Absent}]
    /\ next_revision \in Nat
    /\ \A h \in Hosts, b \in Blocks :
          entries[Affinity(h, b)] # Absent => entries[Affinity(h, b)].value \in BlockAffinity
    /\ \A b \in Blocks :
          entries[BlockKey(b)] # Absent => entries[BlockKey(b)].value \in AllocationBlock
    /\ \A i \in Handles :
          entries[HandleKey(i)] # Absent => entries[HandleKey(i)].value \in IpamHandle

ProcessTypes ==
    /\ pc \in [Procs -> Steps]
    /\ job \in [Procs -> Jobs \cup {NoJob}]
    /\ walk \in [Procs -> Walks]
    /\ read \in [Procs -> [aff : Nat, other : Stored \cup {Absent}]]
    /\ trespassed \subseteq Blocks /\ reborn \subseteq Blocks

(* Where a process can be in the call it makes. *)
Working == {"claim", "own", "confirm", "take", "put", "index"}
Placed(p) ==
    /\ pc[p] # "idle" => job[p] \in Jobs /\ (job[p].op # "assign" => job[p].block \in Blocks)
    /\ pc[p] \in {"scan", "take", "put", "index"} => job[p].op = "assign"
    /\ pc[p] \in {"claim", "own", "confirm"} => job[p].op \in {"claim", "assign"}
    /\ pc[p] \in {"release", "empty", "delete", "drop"} => job[p].op = "release"
    /\ pc[p] \in Working /\ job[p].op = "assign" => walk[p].i \in 1 .. Len(Candidates)
    /\ pc[p] # "idle" /\ job[p].op = "assign" /\ config.strict => walk[p].pass # 3
    /\ pc[p] = "scan" => walk[p].i # 0
    /\ pc[p] \in {"put", "delete"} =>
          read[p].other \in Stored /\ read[p].other.value \in AllocationBlock

(* Held revisions are in the past, and one that is still stored names what *)
(* was read.                                                               *)
Dated ==
    /\ \A k \in AllKeys : entries[k] # Absent => entries[k].revision < next_revision
    /\ \A p \in Procs : read[p].aff < next_revision
Copied(p) ==
    pc[p] \in {"put", "delete"} =>
        /\ read[p].other.revision < next_revision
        /\ Current(Theirs(p), read[p].other.revision) => entries[Theirs(p)] = read[p].other

Owns(h, b) == entries[BlockKey(b)] # Absent /\ entries[BlockKey(b)].value.owner = h

(* A claim that can still be confirmed is of a block that is the host's,   *)
(* and a strict assignment takes from its own host's blocks.               *)
Claimant(p) ==
    pc[p] = "confirm" /\ Block(p) \notin trespassed /\ Current(Mine(p), read[p].aff)
    /\ entries[Mine(p)].value.state # "pendingDeletion"
        => Owns(HostOf[p], Block(p))
Taker(p) ==
    config.strict /\ pc[p] \in {"confirm", "take", "put"} /\ job[p].op = "assign"
    /\ Block(p) \notin reborn
        => Owns(HostOf[p], Block(p))

Confirmed(h, b) == /\ entries[Affinity(h, b)] # Absent
                   /\ entries[Affinity(h, b)].value.state = "confirmed"
Confirmations == \A h \in Hosts, b \in Blocks \ trespassed : Confirmed(h, b) => Owns(h, b)
Strictness ==
    config.strict => \A p \in Procs, b \in Blocks \ reborn :
        UsedIn(b, HandleOf[p]) > 0 => Owns(HostOf[p], b)

OwnerInv ==
    /\ StoreTypes /\ ProcessTypes /\ Dated
    /\ \A p \in Procs : Placed(p) /\ Copied(p) /\ Claimant(p) /\ Taker(p)
    /\ Confirmations /\ Strictness

-----------------------------------------------------------------------------
LEMMA CandidatesTyped == Candidates \in Seq(Blocks) /\ Len(Candidates) \in Nat
<1>1. /\ Cardinality(Blocks) \in Nat
      /\ ExistsBijection(1 .. Cardinality(Blocks), Blocks)
  BY StoreAssumption, FS_CardinalityType
<1>2. PICK f \in [1 .. Cardinality(Blocks) -> Blocks] : IsInjective(f)
  BY <1>1 DEF ExistsBijection, Bijection, Injection, IsInjective
<1>3. Candidates \in [1 .. Cardinality(Blocks) -> Blocks]
  BY <1>2 DEF Candidates, SetToSeq
<1>4. Candidates \in Seq(Blocks)
  BY <1>1, <1>3
<1> QED BY <1>4

LEMMA KeyFacts ==
    /\ \A h \in Hosts, b \in Blocks : Affinity(h, b) \in AllKeys
    /\ \A b \in Blocks : BlockKey(b) \in AllKeys
    /\ \A i \in Handles : HandleKey(i) \in AllKeys
    /\ \A g, h \in Hosts, b, c \in Blocks : Affinity(h, b) = Affinity(g, c) => g = h /\ b = c
    /\ \A b, c \in Blocks : BlockKey(b) = BlockKey(c) => b = c
    /\ \A h \in Hosts, b, c \in Blocks : Affinity(h, b) # BlockKey(c)
    /\ \A h \in Hosts, b \in Blocks, i \in Handles : HandleKey(i) # Affinity(h, b)
    /\ \A b \in Blocks, i \in Handles : HandleKey(i) # BlockKey(b)
BY DEF AllKeys, Affinity, BlockKey, HandleKey

(* A process that works on a block has its keys. *)
LEMMA WorksOnBlock ==
    ASSUME OwnerInv, NEW p \in Procs, pc[p] \notin {"idle", "scan"}
    PROVE  Block(p) \in Blocks
BY CandidatesTyped DEF OwnerInv, Placed, ProcessTypes, Block, Working, Steps

-----------------------------------------------------------------------------
(* What a call does to the store, by kinds of write, and what each leaves  *)
(* of the invariant: the facts about the store, and those about a process  *)
(* whose own state stays.                                                  *)
Globals ==
    /\ StoreTypes
    /\ trespassed \subseteq Blocks /\ reborn \subseteq Blocks
    /\ \A k \in AllKeys : entries[k] # Absent => entries[k].revision < next_revision
    /\ Confirmations /\ Strictness

Same(q) == pc'[q] = pc[q] /\ job'[q] = job[q] /\ walk'[q] = walk[q] /\ read'[q] = read[q]
Bystander(q) == Same(q) => Copied(q)' /\ Claimant(q)' /\ Taker(q)' /\ read'[q].aff < next_revision'

Kept == Globals' /\ next_revision' >= next_revision /\ \A q \in Procs : Bystander(q)

LEMMA StoredFacts ==
    /\ \A v \in AllValues, n \in Nat : [value |-> v, revision |-> n] \in Stored
    /\ Absent \notin Stored
    /\ BlockAffinity \subseteq AllValues /\ AllocationBlock \subseteq AllValues
    /\ IpamHandle \subseteq AllValues
BY StoreAssumption DEF Stored, AllValues

LEMMA NoWriteKeeps ==
    ASSUME OwnerInv, UNCHANGED <<casVars, config, trespassed, reborn>>
    PROVE  Kept
<1>1. UNCHANGED <<entries, next_revision, config, trespassed, reborn>>
  BY DEF casVars
<1>2. Globals'
  BY <1>1 DEF OwnerInv, ProcessTypes, Dated, Globals, StoreTypes, Confirmations, Confirmed, Owns,
              Strictness, UsedIn
<1>3. ASSUME NEW q \in Procs PROVE Bystander(q)
  BY <1>1 DEF OwnerInv, Dated, Bystander, Same, Copied, Claimant, Taker, Current, Block, Mine,
              Theirs, Owns
<1> QED BY <1>1, <1>2, <1>3 DEF Kept, OwnerInv, StoreTypes

(* A write or a deletion of one key. *)
LEMMA OneKeyWritten ==
    ASSUME OwnerInv, NEW k \in AllKeys, NEW v \in AllValues, Bump(k, v)
    PROVE  /\ next_revision \in Nat /\ next_revision' = next_revision + 1
           /\ entries' \in [AllKeys -> Stored \cup {Absent}]
           /\ entries'[k] = [value |-> v, revision |-> next_revision] /\ entries'[k] # Absent
           /\ \A x \in AllKeys \ {k} : entries'[x] = entries[x]
           /\ \A x \in AllKeys : entries'[x] # Absent => entries'[x].revision < next_revision'
<1>1. next_revision \in Nat /\ entries \in [AllKeys -> Stored \cup {Absent}]
  BY DEF OwnerInv, StoreTypes
<1> DEFINE new == [value |-> v, revision |-> next_revision]
<1>2. new \in Stored /\ new # Absent /\ new.revision = next_revision
  BY <1>1, StoredFacts
<1>3. /\ next_revision' = next_revision + 1 /\ entries'[k] = new
      /\ entries' \in [AllKeys -> Stored \cup {Absent}]
      /\ \A x \in AllKeys \ {k} : entries'[x] = entries[x]
  BY <1>1, <1>2 DEF Bump, Stamped
<1> HIDE DEF new
<1>4. ASSUME NEW x \in AllKeys, entries'[x] # Absent PROVE entries'[x].revision < next_revision'
  <2>1. CASE x = k
    BY <2>1, <1>1, <1>2, <1>3
  <2>2. CASE x # k
    BY <2>2, <1>1, <1>3, <1>4 DEF OwnerInv, Dated, Stored
  <2> QED BY <2>1, <2>2
<1> QED BY <1>1, <1>2, <1>3, <1>4 DEF new

LEMMA OneKeyDeleted ==
    ASSUME OwnerInv, NEW k \in AllKeys,
           entries' = [entries EXCEPT ![k] = Absent], UNCHANGED next_revision
    PROVE  /\ entries' \in [AllKeys -> Stored \cup {Absent}] /\ entries'[k] = Absent
           /\ \A x \in AllKeys \ {k} : entries'[x] = entries[x]
           /\ \A x \in AllKeys : entries'[x] # Absent => entries'[x].revision < next_revision'
BY DEF OwnerInv, StoreTypes, Dated

(* Of a process between two calls: its block and keys are in place, and    *)
(* what it read is in the past.                                            *)
LEMMA BystanderFacts ==
    ASSUME OwnerInv, NEW q \in Procs, Same(q)
    PROVE  /\ read[q].aff < next_revision /\ read[q].aff \in Nat
           /\ pc[q] \notin {"idle", "scan"} => Block(q) \in Blocks
           /\ HostOf[q] \in Hosts /\ HandleOf[q] \in Handles
           /\ Block(q)' = Block(q) /\ Mine(q)' = Mine(q) /\ Theirs(q)' = Theirs(q)
           /\ Mine(q) = Affinity(HostOf[q], Block(q)) /\ Theirs(q) = BlockKey(Block(q))
           /\ pc[q] \in {"put", "delete"} => read[q].other \in Stored
<1>1. read[q].aff < next_revision /\ read[q].aff \in Nat
  BY DEF OwnerInv, Dated, ProcessTypes
<1>2. Block(q)' = Block(q) /\ Mine(q)' = Mine(q) /\ Theirs(q)' = Theirs(q)
  BY DEF Same, Block, Mine, Theirs
<1> QED BY <1>1, <1>2, WorksOnBlock, ProcsAssumption DEF Mine, Theirs, OwnerInv, Placed

(* A new state of an affinity. *)
LEMMA AffinityKeeps ==
    ASSUME OwnerInv, NEW h \in Hosts, NEW b \in Blocks, NEW s \in States,
           Bump(Affinity(h, b), [state |-> s]), UNCHANGED <<config, trespassed, reborn>>,
           s = "confirmed" => b \in trespassed \/ Owns(h, b)
    PROVE  Kept
<1>1. Affinity(h, b) \in AllKeys /\ [state |-> s] \in AllValues /\ [state |-> s] \in BlockAffinity
  BY KeyFacts, StoredFacts DEF BlockAffinity
<1>2. /\ next_revision \in Nat /\ next_revision' = next_revision + 1
      /\ entries' \in [AllKeys -> Stored \cup {Absent}]
      /\ entries'[Affinity(h, b)] = [value |-> [state |-> s], revision |-> next_revision]
      /\ \A x \in AllKeys \ {Affinity(h, b)} : entries'[x] = entries[x]
      /\ \A x \in AllKeys : entries'[x] # Absent => entries'[x].revision < next_revision'
  BY <1>1, OneKeyWritten
<1>3. /\ \A c \in Blocks : entries'[BlockKey(c)] = entries[BlockKey(c)]
      /\ \A g \in Hosts, c \in Blocks :
            (g = h /\ c = b) \/ entries'[Affinity(g, c)] = entries[Affinity(g, c)]
      /\ \A i \in Handles : entries'[HandleKey(i)] = entries[HandleKey(i)]
  BY <1>2, KeyFacts
<1>4. StoreTypes'
  BY <1>1, <1>2, <1>3 DEF OwnerInv, StoreTypes
<1>5. Confirmations'
  BY <1>2, <1>3 DEF OwnerInv, Confirmations, Confirmed, Owns
<1>6. Strictness'
  BY <1>3 DEF OwnerInv, Strictness, UsedIn, Owns
<1>7. ASSUME NEW q \in Procs, Same(q)
      PROVE  Copied(q)' /\ Claimant(q)' /\ Taker(q)' /\ read'[q].aff < next_revision'
  <2>1. Copied(q)'
    BY <1>2, <1>3, <1>7, BystanderFacts DEF OwnerInv, Copied, Same, Current, Stored
  <2>2. pc[q] = "confirm" /\ Current(Mine(q), read[q].aff)' => entries'[Mine(q)] = entries[Mine(q)]
    BY <1>2, <1>3, <1>7, BystanderFacts DEF Current, Same
  <2>3. Claimant(q)'
    BY <1>3, <1>7, <2>2, BystanderFacts DEF OwnerInv, Claimant, Same, Current, Owns
  <2>4. Taker(q)'
    BY <1>3, <1>7, BystanderFacts DEF OwnerInv, Taker, Same, Owns
  <2> QED BY <1>2, <1>7, <2>1, <2>3, <2>4, BystanderFacts DEF Same
<1> QED BY <1>2, <1>4, <1>5, <1>6, <1>7 DEF Kept, Globals, Bystander, OwnerInv, ProcessTypes

(* A block of a host, created or with other numbers of addresses. *)
LEMMA BlockKeeps ==
    ASSUME OwnerInv, NEW b \in Blocks, NEW v \in AllocationBlock, Bump(BlockKey(b), v),
           UNCHANGED <<config, trespassed, reborn>>,
           entries[BlockKey(b)] # Absent => v.owner = entries[BlockKey(b)].value.owner,
           config.strict /\ b \notin reborn => \A p \in Procs :
               v.used[HandleOf[p]] > 0 => v.owner = HostOf[p]
    PROVE  Kept
<1>1. BlockKey(b) \in AllKeys /\ v \in AllValues
  BY KeyFacts, StoredFacts
<1>2. /\ next_revision \in Nat /\ next_revision' = next_revision + 1
      /\ entries' \in [AllKeys -> Stored \cup {Absent}]
      /\ entries'[BlockKey(b)] = [value |-> v, revision |-> next_revision]
      /\ entries'[BlockKey(b)] # Absent
      /\ \A x \in AllKeys \ {BlockKey(b)} : entries'[x] = entries[x]
      /\ \A x \in AllKeys : entries'[x] # Absent => entries'[x].revision < next_revision'
  BY <1>1, OneKeyWritten
<1>3. \A h \in Hosts, c \in Blocks : entries'[Affinity(h, c)] = entries[Affinity(h, c)]
  BY <1>2, KeyFacts
<1>4. /\ \A c \in Blocks \ {b} : entries'[BlockKey(c)] = entries[BlockKey(c)]
      /\ \A i \in Handles : entries'[HandleKey(i)] = entries[HandleKey(i)]
  BY <1>2, KeyFacts
<1>5. StoreTypes'
  BY <1>2, <1>3, <1>4 DEF OwnerInv, StoreTypes
<1>6. \A h \in Hosts, c \in Blocks : Owns(h, c) => Owns(h, c)'
  BY <1>2, <1>4 DEF Owns
<1>7. Confirmations'
  BY <1>3, <1>6 DEF OwnerInv, Confirmations, Confirmed
<1>8. Strictness'
  <2> SUFFICES ASSUME config.strict, NEW p \in Procs, NEW c \in Blocks \ reborn,
                      UsedIn(c, HandleOf[p])' > 0
               PROVE  Owns(HostOf[p], c)'
    BY DEF Strictness
  <2>1. CASE c = b
    BY <2>1, <1>2 DEF UsedIn, Owns
  <2>2. CASE c # b
    BY <2>2, <1>4 DEF OwnerInv, Strictness, UsedIn, Owns
  <2> QED BY <2>1, <2>2
<1>9. ASSUME NEW q \in Procs, Same(q)
      PROVE  Copied(q)' /\ Claimant(q)' /\ Taker(q)' /\ read'[q].aff < next_revision'
  <2>1. Copied(q)'
    BY <1>1, <1>2, <1>4, <1>9, BystanderFacts DEF OwnerInv, Copied, Same, Current, Stored
  <2>2. Claimant(q)'
    BY <1>3, <1>6, <1>9, BystanderFacts DEF OwnerInv, Claimant, Same, Current
  <2>3. Taker(q)'
    BY <1>6, <1>9, BystanderFacts DEF OwnerInv, Taker, Same
  <2> QED BY <1>2, <1>9, <2>1, <2>2, <2>3, BystanderFacts DEF Same
<1> QED BY <1>2, <1>5, <1>7, <1>8, <1>9 DEF Kept, Globals, Bystander, OwnerInv, ProcessTypes

LEMMA HandleKeeps ==
    ASSUME OwnerInv, NEW i \in Handles, NEW v \in IpamHandle, Bump(HandleKey(i), v),
           UNCHANGED <<config, trespassed, reborn>>
    PROVE  Kept
<1>1. /\ next_revision \in Nat /\ next_revision' = next_revision + 1
      /\ entries' \in [AllKeys -> Stored \cup {Absent}]
      /\ entries'[HandleKey(i)] = [value |-> v, revision |-> next_revision]
      /\ \A x \in AllKeys \ {HandleKey(i)} : entries'[x] = entries[x]
      /\ \A x \in AllKeys : entries'[x] # Absent => entries'[x].revision < next_revision'
  BY OneKeyWritten, KeyFacts, StoredFacts
<1>2. /\ \A h \in Hosts, c \in Blocks : entries'[Affinity(h, c)] = entries[Affinity(h, c)]
      /\ \A c \in Blocks : entries'[BlockKey(c)] = entries[BlockKey(c)]
  BY <1>1, KeyFacts
<1>3. StoreTypes' /\ Confirmations' /\ Strictness'
  <2>1. \A j \in Handles : HandleKey(j) \in AllKeys /\
            (entries'[HandleKey(j)] # Absent => entries'[HandleKey(j)].value \in IpamHandle)
    BY <1>1, KeyFacts DEF OwnerInv, StoreTypes
  <2> QED BY <1>1, <1>2, <2>1
          DEF OwnerInv, StoreTypes, Confirmations, Confirmed, Owns, Strictness, UsedIn
<1>4. ASSUME NEW q \in Procs, Same(q)
      PROVE  Copied(q)' /\ Claimant(q)' /\ Taker(q)' /\ read'[q].aff < next_revision'
  <2>1. Copied(q)'
    BY <1>1, <1>2, <1>4, BystanderFacts DEF OwnerInv, Copied, Same, Current, Stored
  <2>2. Claimant(q)' /\ Taker(q)'
    BY <1>2, <1>4, BystanderFacts DEF OwnerInv, Claimant, Taker, Same, Current, Owns
  <2> QED BY <1>1, <1>4, <2>1, <2>2, BystanderFacts DEF Same
<1> QED BY <1>1, <1>3, <1>4 DEF Kept, Globals, Bystander, OwnerInv, ProcessTypes

(* A deleted affinity licenses nothing. *)
LEMMA AffinityDeletionKeeps ==
    ASSUME OwnerInv, NEW h \in Hosts, NEW b \in Blocks,
           entries' = [entries EXCEPT ![Affinity(h, b)] = Absent],
           UNCHANGED <<next_revision, config, trespassed, reborn>>
    PROVE  Kept
<1>1. /\ entries' \in [AllKeys -> Stored \cup {Absent}] /\ entries'[Affinity(h, b)] = Absent
      /\ \A x \in AllKeys \ {Affinity(h, b)} : entries'[x] = entries[x]
      /\ \A x \in AllKeys : entries'[x] # Absent => entries'[x].revision < next_revision'
  BY OneKeyDeleted, KeyFacts
<1>2. /\ \A g \in Hosts, c \in Blocks : entries'[Affinity(g, c)] \in {entries[Affinity(g, c)], Absent}
      /\ \A c \in Blocks : entries'[BlockKey(c)] = entries[BlockKey(c)]
      /\ \A i \in Handles : entries'[HandleKey(i)] = entries[HandleKey(i)]
  BY <1>1, KeyFacts
<1>3. StoreTypes' /\ Confirmations' /\ Strictness'
  BY <1>1, <1>2 DEF OwnerInv, StoreTypes, Confirmations, Confirmed, Owns, Strictness, UsedIn
<1>4. ASSUME NEW q \in Procs, Same(q)
      PROVE  Copied(q)' /\ Claimant(q)' /\ Taker(q)' /\ read'[q].aff < next_revision'
  <2>1. Copied(q)'
    BY <1>1, <1>2, <1>4, BystanderFacts DEF OwnerInv, Copied, Same, Current, Stored
  <2>2. Claimant(q)' /\ Taker(q)'
    BY <1>2, <1>4, BystanderFacts DEF OwnerInv, Claimant, Taker, Same, Current, Owns
  <2> QED BY <1>4, <2>1, <2>2, BystanderFacts DEF Same
<1> QED BY <1>1, <1>3, <1>4 DEF Kept, Globals, Bystander, OwnerInv, ProcessTypes, StoreTypes

(* A block is deleted by its host while its affinity says so, or it has    *)
(* been trespassed on: in the first case no host relies on it.             *)
LEMMA BlockDeletionKeeps ==
    ASSUME OwnerInv, NEW h \in Hosts, NEW b \in Blocks, entries[BlockKey(b)] # Absent,
           entries' = [entries EXCEPT ![BlockKey(b)] = Absent],
           UNCHANGED <<next_revision, config>>, reborn' = reborn \cup {b},
           \/ /\ trespassed' = trespassed
              /\ entries[BlockKey(b)].value.owner = h
              /\ entries[Affinity(h, b)] # Absent
              /\ entries[Affinity(h, b)].value.state = "pendingDeletion"
           \/ trespassed' = trespassed \cup {b}
    PROVE  Kept
<1>1. /\ entries' \in [AllKeys -> Stored \cup {Absent}] /\ entries'[BlockKey(b)] = Absent
      /\ \A x \in AllKeys \ {BlockKey(b)} : entries'[x] = entries[x]
      /\ \A x \in AllKeys : entries'[x] # Absent => entries'[x].revision < next_revision'
  BY OneKeyDeleted, KeyFacts
<1>2. /\ \A g \in Hosts, c \in Blocks : entries'[Affinity(g, c)] = entries[Affinity(g, c)]
      /\ \A c \in Blocks \ {b} : entries'[BlockKey(c)] = entries[BlockKey(c)]
      /\ \A i \in Handles : entries'[HandleKey(i)] = entries[HandleKey(i)]
  BY <1>1, KeyFacts
<1>3. StoreTypes'
  BY <1>1, <1>2 DEF OwnerInv, StoreTypes
<1>4. \A g \in Hosts, c \in Blocks \ {b} : Owns(g, c) => Owns(g, c)'
  BY <1>2 DEF Owns
<1>5. b \notin trespassed' => \A g \in Hosts : Owns(g, b) =>
          entries[Affinity(g, b)] # Absent /\ entries[Affinity(g, b)].value.state = "pendingDeletion"
  BY DEF Owns
<1>6. trespassed \subseteq trespassed' /\ trespassed' \subseteq Blocks
  BY DEF OwnerInv, ProcessTypes
<1>7. Confirmations'
  BY <1>2, <1>4, <1>5, <1>6 DEF OwnerInv, Confirmations, Confirmed
<1>8. Strictness'
  BY <1>2, <1>4 DEF OwnerInv, Strictness, UsedIn, Owns
<1>9. ASSUME NEW q \in Procs, Same(q)
      PROVE  Copied(q)' /\ Claimant(q)' /\ Taker(q)' /\ read'[q].aff < next_revision'
  <2>1. Copied(q)'
    BY <1>1, <1>2, <1>9, BystanderFacts DEF OwnerInv, Copied, Same, Current
  <2>2. Claimant(q)'
    <3> SUFFICES ASSUME pc[q] = "confirm", Block(q) \notin trespassed',
                        Current(Mine(q), read[q].aff)', entries'[Mine(q)].value.state # "pendingDeletion"
                 PROVE  Owns(HostOf[q], Block(q))'
      BY <1>9, BystanderFacts DEF Claimant, Same
    <3>1. Block(q) \in Blocks /\ Current(Mine(q), read[q].aff)
          /\ entries[Mine(q)].value.state # "pendingDeletion"
      BY <1>2, <1>9, BystanderFacts DEF Current, Same
    <3>2. Owns(HostOf[q], Block(q))
      BY <3>1, <1>6 DEF OwnerInv, Claimant
    <3>3. Block(q) # b
      BY <3>1, <3>2, <1>5, <1>9, BystanderFacts
    <3> QED BY <3>1, <3>2, <3>3, <1>4, <1>9, BystanderFacts
  <2>3. Taker(q)'
    BY <1>4, <1>9, BystanderFacts DEF OwnerInv, Taker, Same
  <2> QED BY <1>9, <2>1, <2>2, <2>3, BystanderFacts DEF Same
<1> QED BY <1>1, <1>3, <1>6, <1>7, <1>8, <1>9 DEF Kept, Globals, Bystander,
            OwnerInv, ProcessTypes, StoreTypes

-----------------------------------------------------------------------------
(* A step of a process: the kind of its write, and its own state after it. *)
Moves(p) ==
    /\ Kept
    /\ \A q \in Procs \ {p} : Same(q)
    /\ pc' \in [Procs -> Steps] /\ job' \in [Procs -> Jobs \cup {NoJob}]
    /\ walk' \in [Procs -> Walks]
    /\ read' \in [Procs -> [aff : Nat, other : Stored \cup {Absent}]]
    /\ read'[p].aff < next_revision'
    /\ Placed(p)' /\ Copied(p)' /\ Claimant(p)' /\ Taker(p)'
    /\ config' = config

LEMMA MovesKeep == ASSUME OwnerInv, NEW p \in Procs, Moves(p) PROVE OwnerInv'
<1>1. ASSUME NEW q \in Procs \ {p} PROVE Placed(q)'
  <2>1. pc'[q] = pc[q] /\ job'[q] = job[q] /\ walk'[q] = walk[q] /\ read'[q] = read[q]
        /\ config' = config
    BY DEF Moves, Same
  <2>2. Placed(q)
    BY DEF OwnerInv
  <2> QED BY <2>1, <2>2 DEF Placed
<1>2. \A q \in Procs : Copied(q)' /\ Claimant(q)' /\ Taker(q)' /\ read'[q].aff < next_revision'
  BY DEF Moves, Kept, Bystander
<1>3. ProcessTypes' /\ Dated'
  BY <1>2 DEF Moves, Kept, Globals, ProcessTypes, Dated
<1> QED BY <1>1, <1>2, <1>3 DEF OwnerInv, Moves, Kept, Globals

(* A call that is over. *)
LEMMA DoneMoves ==
    ASSUME OwnerInv, NEW p \in Procs, Done(p), Kept, config' = config
    PROVE  Moves(p)
<1>1. /\ pc' = [pc EXCEPT ![p] = "idle"] /\ job' = [job EXCEPT ![p] = NoJob]
      /\ walk' = [walk EXCEPT ![p] = NoWalk] /\ read' = [read EXCEPT ![p] = NoRead]
  BY DEF Done, To
<1>2. /\ pc \in [Procs -> Steps] /\ job \in [Procs -> Jobs \cup {NoJob}] /\ walk \in [Procs -> Walks]
      /\ read \in [Procs -> [aff : Nat, other : Stored \cup {Absent}]]
  BY DEF OwnerInv, ProcessTypes
<1>3. NoWalk \in Walks /\ NoRead \in [aff : Nat, other : Stored \cup {Absent}]
  BY DEF NoWalk, NoRead, Walks
<1>4. /\ pc' \in [Procs -> Steps] /\ job' \in [Procs -> Jobs \cup {NoJob}] /\ walk' \in [Procs -> Walks]
      /\ read' \in [Procs -> [aff : Nat, other : Stored \cup {Absent}]]
      /\ pc'[p] = "idle" /\ read'[p].aff = 0
      /\ \A q \in Procs \ {p} : Same(q)
  BY <1>1, <1>2, <1>3 DEF Steps, Same, NoRead
<1>5. Placed(p)' /\ Copied(p)' /\ Claimant(p)' /\ Taker(p)'
  BY <1>4 DEF Placed, Copied, Claimant, Taker, Working
<1>6. next_revision \in Nat /\ next_revision > 0
  BY DEF OwnerInv, Dated, StoreTypes, ProcessTypes
<1>7. read'[p].aff < next_revision'
  BY <1>4, <1>6 DEF Kept, Globals, StoreTypes
<1> QED BY <1>4, <1>5, <1>7 DEF Moves

LEMMA StartMoves ==
    ASSUME OwnerInv, NEW p \in Procs, NEW j \in JobsOf[p], Start(p, j)
    PROVE  Moves(p)
<1> DEFINE n == Cardinality({b \in Blocks : entries[Affinity(HostOf[p], b)] # Absent})
           start == IF j.op # "assign" THEN NoWalk
                    ELSE [NoWalk EXCEPT !.pass = 1, !.i = 1, !.owned = n]
<1>1. j \in Jobs /\ (j.op # "assign" => j.block \in Blocks)
  BY ProcsAssumption
<1>2. /\ pc' = [pc EXCEPT ![p] = IF j.op = "assign" THEN "scan" ELSE j.op]
      /\ job' = [job EXCEPT ![p] = j] /\ walk' = [walk EXCEPT ![p] = start]
      /\ UNCHANGED <<casVars, config, read, trespassed, reborn>>
  BY DEF Start, To, history
<1>3. start \in Walks /\ (j.op = "assign" => start.pass = 1 /\ start.i = 1)
  <2>1. n \in Nat
    BY FS_Subset, FS_CardinalityType, StoreAssumption
  <2> HIDE DEF n
  <2>2. CASE j.op = "assign"
    <3>1. start = [pass |-> 1, i |-> 1, owned |-> n, got |-> 0, taken |-> 0]
      BY <2>2 DEF NoWalk
    <3> HIDE DEF start
    <3> QED BY <2>1, <3>1 DEF Walks
  <2>3. CASE j.op # "assign"
    BY <2>3 DEF NoWalk, Walks
  <2> QED BY <2>2, <2>3
<1> HIDE DEF start, n
<1>4. /\ pc \in [Procs -> Steps] /\ job \in [Procs -> Jobs \cup {NoJob}] /\ walk \in [Procs -> Walks]
      /\ read \in [Procs -> [aff : Nat, other : Stored \cup {Absent}]]
  BY DEF OwnerInv, ProcessTypes
<1>5. /\ pc' \in [Procs -> Steps] /\ job' \in [Procs -> Jobs \cup {NoJob}] /\ walk' \in [Procs -> Walks]
      /\ pc'[p] = (IF j.op = "assign" THEN "scan" ELSE j.op)
      /\ job'[p] = j /\ walk'[p] = start
      /\ \A q \in Procs \ {p} : Same(q)
  BY <1>1, <1>2, <1>3, <1>4 DEF Steps, Same, Jobs
<1>6. pc'[p] \in {"scan", "claim", "release"}
  BY <1>1, <1>5 DEF Jobs
<1>7. Placed(p)'
  BY <1>1, <1>3, <1>5 DEF Placed, Working, Jobs
<1>8. Copied(p)' /\ Claimant(p)' /\ Taker(p)'
  BY <1>6 DEF Copied, Claimant, Taker
<1>9. Kept /\ read'[p].aff < next_revision'
  BY <1>2, NoWriteKeeps DEF OwnerInv, Dated, casVars
<1> QED BY <1>2, <1>4, <1>5, <1>7, <1>8, <1>9 DEF Moves

LEMMA InterruptedMoves ==
    ASSUME OwnerInv, NEW p \in Procs, Interrupted(p) PROVE Moves(p)
BY NoWriteKeeps, DoneMoves DEF Interrupted

(* A process that goes on: what changed of its position and its reads.     *)
LEMMA GoesOn ==
    ASSUME OwnerInv, NEW p \in Procs, NEW step \in Steps, NEW w \in Walks,
           NEW r \in [aff : Nat, other : Stored \cup {Absent}],
           pc' = [pc EXCEPT ![p] = step], job' = job,
           walk' = [walk EXCEPT ![p] = w], read' = [read EXCEPT ![p] = r]
    PROVE  /\ \A q \in Procs \ {p} : Same(q)
           /\ pc' \in [Procs -> Steps] /\ job' \in [Procs -> Jobs \cup {NoJob}]
           /\ walk' \in [Procs -> Walks]
           /\ read' \in [Procs -> [aff : Nat, other : Stored \cup {Absent}]]
           /\ pc'[p] = step /\ job'[p] = job[p] /\ walk'[p] = w /\ read'[p] = r
BY DEF OwnerInv, ProcessTypes, Same

(* The passes of an assignment: under strict affinity never the third. *)
LEMMA NextPassMoves ==
    ASSUME OwnerInv, NEW p \in Procs, pc[p] = "scan", NextPass(p),
           UNCHANGED <<casVars, config, trespassed, reborn>>
    PROVE  Moves(p)
<1>1. Kept
  BY NoWriteKeeps
<1>2. CASE Done(p)
  BY <1>1, <1>2, DoneMoves
<1>3. CASE ~ Done(p)
  <2> DEFINE later == {k \in walk[p].pass + 1 .. 3 : Ready(k)}
  <2>1. later # {} /\ walk' = [walk EXCEPT ![p].pass = Min(later), ![p].i = 1]
        /\ UNCHANGED <<pc, job, read>>
    BY <1>3 DEF NextPass
  <2>2. walk[p] \in Walks /\ walk \in [Procs -> Walks]
        /\ pc \in [Procs -> Steps] /\ read \in [Procs -> [aff : Nat, other : Stored \cup {Absent}]]
    BY DEF OwnerInv, ProcessTypes
  <2>3. walk[p].pass \in 0..3
    BY <2>2 DEF Walks
  <2>4. later \subseteq 1..3
    BY <2>3
  <2>5. Min(later) \in later
    <3>1. \E x \in later : \A y \in later : x <= y
      <4>1. later \subseteq {1, 2, 3}
        BY <2>4
      <4> HIDE DEF later
      <4> QED BY <2>1, <4>1
    <3> HIDE DEF later
    <3> QED BY <3>1 DEF Min
  <2>6. Ready(Min(later)) /\ Min(later) \in 0..3
    BY <2>4, <2>5
  <2> DEFINE w == [walk[p] EXCEPT !.pass = Min(later), !.i = 1]
  <2> HIDE DEF later
  <2>7. w \in Walks /\ w.pass = Min(later) /\ w.i = 1 /\ walk' = [walk EXCEPT ![p] = w]
    BY <2>1, <2>2, <2>6 DEF Walks
  <2> HIDE DEF w
  <2>8. /\ \A q \in Procs \ {p} : Same(q)
        /\ pc' \in [Procs -> Steps] /\ job' \in [Procs -> Jobs \cup {NoJob}]
        /\ walk' \in [Procs -> Walks]
        /\ read' \in [Procs -> [aff : Nat, other : Stored \cup {Absent}]]
        /\ walk'[p] = w
    BY <2>1, <2>2, <2>7 DEF OwnerInv, ProcessTypes, Same
  <2>9. pc'[p] = "scan" /\ job'[p] = job[p] /\ read'[p] = read[p] /\ config' = config
    BY <2>1
  <2>10. config.strict => Min(later) # 3
    BY <2>6 DEF Ready
  <2>11. Placed(p)
    BY DEF OwnerInv
  <2>12. Placed(p)'
    BY <2>7, <2>8, <2>9, <2>10, <2>11 DEF Placed, Working
  <2>13. Copied(p)' /\ Claimant(p)' /\ Taker(p)' /\ read'[p].aff < next_revision'
    BY <1>1, <2>9 DEF Copied, Claimant, Taker, OwnerInv, Dated, casVars
  <2> QED BY <1>1, <2>8, <2>9, <2>12, <2>13 DEF Moves
<1> QED BY <1>2, <1>3

LEMMA NextCandidate ==
    ASSUME NEW w \in Walks, NEW n \in Nat
    PROVE  /\ [w EXCEPT !.i = @ + 1] \in Walks
           /\ [w EXCEPT !.i = @ + 1].i # 0 /\ [w EXCEPT !.i = @ + 1].pass = w.pass
           /\ [w EXCEPT !.taken = n] \in Walks /\ [w EXCEPT !.taken = n].i = w.i
           /\ [w EXCEPT !.taken = n].pass = w.pass /\ [w EXCEPT !.taken = n].taken = n
           /\ [w EXCEPT !.owned = @ + 1] \in Walks
           /\ [w EXCEPT !.owned = @ + 1].i = w.i /\ [w EXCEPT !.owned = @ + 1].pass = w.pass
           /\ [w EXCEPT !.i = @ + 1, !.got = @ + w.taken, !.taken = 0] \in Walks
           /\ [w EXCEPT !.i = @ + 1, !.got = @ + w.taken, !.taken = 0].i # 0
           /\ [w EXCEPT !.i = @ + 1, !.got = @ + w.taken, !.taken = 0].pass = w.pass
<1>1. w.i + 1 \in Nat /\ w.i + 1 # 0 /\ w.got + w.taken \in Nat /\ w.owned + 1 \in Nat
  BY DEF Walks
<1> QED BY <1>1 DEF Walks

LEMMA ScanMoves == ASSUME OwnerInv, NEW p \in Procs, Scan(p) PROVE Moves(p)
<1>1. pc[p] = "scan" /\ UNCHANGED <<casVars, config, trespassed, reborn>>
  BY DEF Scan, Keep, history
<1>2. CASE NextPass(p)
  BY <1>1, <1>2, NextPassMoves
<1>3. CASE ~ NextPass(p)
  <2> DEFINE e == entries[Theirs(p)]
             own == e # Absent /\ e.value.owner = HostOf[p]
  <2>1. /\ walk[p].i \in Nat /\ Len(Candidates) \in Nat
        /\ walk[p] \in Walks /\ read[p] \in [aff : Nat, other : Stored \cup {Absent}]
        /\ walk \in [Procs -> Walks] /\ pc \in [Procs -> Steps]
        /\ read \in [Procs -> [aff : Nat, other : Stored \cup {Absent}]]
    BY CandidatesTyped DEF OwnerInv, ProcessTypes, Walks
  <2>2. /\ walk[p].i <= Len(Candidates)
        /\ UNCHANGED <<job, read>>
        /\ \/ /\ walk[p].pass = 2 /\ To(p, "claim") /\ UNCHANGED walk
           \/ /\ (walk[p].pass = 1 /\ own) \/ walk[p].pass = 3
              /\ To(p, "take") /\ UNCHANGED walk
           \/ Advance(p) /\ UNCHANGED pc
    <3>1. ~(walk[p].i > Len(Candidates) \/ walk[p].got >= job[p].count)
      BY <1>3 DEF Scan
    <3> DEFINE full == config.cap > 0 /\ walk[p].owned >= config.cap
    <3>2. (CASE walk[p].pass = 2 /\ e = Absent /\ full -> NextPass(p)
             [] walk[p].pass = 2 /\ e = Absent /\ ~full ->
                   To(p, "claim") /\ UNCHANGED <<job, walk, read>>
             [] \/ walk[p].pass = 1 /\ own
                \/ walk[p].pass = 3 /\ e # Absent /\ ~own ->
                   To(p, "take") /\ UNCHANGED <<job, walk, read>>
             [] OTHER -> Advance(p) /\ UNCHANGED <<pc, job, read>>)
      BY <3>1 DEF Scan
    <3> HIDE DEF e, own, full
    <3>3. walk[p].i <= Len(Candidates)
      BY <2>1, <3>1
    <3> QED BY <1>3, <3>2, <3>3
  <2>3. Placed(p) /\ job[p].op = "assign" /\ Len(Candidates) \in Nat
        /\ walk[p].i \in 1 .. Len(Candidates)
    <3>1. Len(Candidates) \in Nat
      BY CandidatesTyped
    <3> QED BY <1>1, <2>2, <2>1, <3>1 DEF OwnerInv, Placed, Walks
  <2>4. Kept /\ config' = config /\ read'[p].aff < next_revision'
    BY <1>1, <2>2, NoWriteKeeps DEF OwnerInv, Dated, casVars
  <2>5. CASE Advance(p) /\ UNCHANGED pc
    <3> DEFINE w == [walk[p] EXCEPT !.i = @ + 1]
    <3>1. w \in Walks /\ w.i # 0 /\ w.pass = walk[p].pass
      BY <2>1, NextCandidate
    <3>2. walk' = [walk EXCEPT ![p] = w]
      BY <2>5, <2>1 DEF Advance
    <3> HIDE DEF w
    <3>3. pc' = [pc EXCEPT ![p] = pc[p]] /\ read' = [read EXCEPT ![p] = read[p]] /\ pc[p] \in Steps
      BY <2>2, <2>1, <2>5
    <3>4. /\ \A q \in Procs \ {p} : Same(q)
          /\ pc' \in [Procs -> Steps] /\ job' \in [Procs -> Jobs \cup {NoJob}]
          /\ walk' \in [Procs -> Walks]
          /\ read' \in [Procs -> [aff : Nat, other : Stored \cup {Absent}]]
          /\ pc'[p] = "scan" /\ job'[p] = job[p] /\ walk'[p] = w
      BY <1>1, <2>2, <2>1, <3>1, <3>2, <3>3, GoesOn
    <3>5. Placed(p)' /\ Copied(p)' /\ Claimant(p)' /\ Taker(p)'
      BY <2>3, <2>4, <3>1, <3>4, <1>1 DEF Placed, Working, Copied, Claimant, Taker
    <3> QED BY <2>4, <3>4, <3>5 DEF Moves
  <2>6. ASSUME NEW step \in {"claim", "take"}, To(p, step), UNCHANGED walk,
               step = "take" => (walk[p].pass = 1 /\ own) \/ walk[p].pass = 3
        PROVE  Moves(p)
    <3>1. /\ pc' = [pc EXCEPT ![p] = step] /\ walk' = [walk EXCEPT ![p] = walk[p]]
          /\ read' = [read EXCEPT ![p] = read[p]] /\ step \in Steps
      BY <2>2, <2>1, <2>6 DEF To, Steps
    <3>2. /\ \A q \in Procs \ {p} : Same(q)
          /\ pc' \in [Procs -> Steps] /\ job' \in [Procs -> Jobs \cup {NoJob}]
          /\ walk' \in [Procs -> Walks]
          /\ read' \in [Procs -> [aff : Nat, other : Stored \cup {Absent}]]
          /\ pc'[p] = step /\ job'[p] = job[p] /\ walk'[p] = walk[p]
      BY <2>2, <2>1, <3>1, GoesOn
    <3>3. Placed(p)'
      BY <1>1, <2>3, <2>4, <3>2 DEF Placed, Working
    <3>4. Copied(p)' /\ Claimant(p)'
      BY <3>2 DEF Copied, Claimant
    <3>5. Taker(p)'
      <4> SUFFICES ASSUME config.strict, step = "take" PROVE Owns(HostOf[p], Block(p))'
        BY <2>4, <3>2 DEF Taker
      <4>1. own
        BY <1>1, <2>3, <2>6 DEF Placed
      <4>2. Block(p)' = Block(p) /\ entries' = entries
        BY <1>1, <3>2 DEF Block, casVars
      <4> QED BY <4>1, <4>2 DEF Owns, Theirs
    <3> QED BY <2>4, <3>2, <3>3, <3>4, <3>5 DEF Moves
  <2> QED BY <2>2, <2>5, <2>6
<1> QED BY <1>2, <1>3

-----------------------------------------------------------------------------
(* What a process at work has in hand. *)
AtHand(p) ==
    /\ pc[p] \notin {"idle", "scan"}
    /\ Block(p) \in Blocks /\ HostOf[p] \in Hosts /\ HandleOf[p] \in Handles
    /\ Mine(p) = Affinity(HostOf[p], Block(p)) /\ Theirs(p) = BlockKey(Block(p))
    /\ Counts(p) = HandleKey(HandleOf[p])
    /\ Mine(p) \in AllKeys /\ Theirs(p) \in AllKeys /\ Counts(p) \in AllKeys
    /\ Mine(p) # Theirs(p)
    /\ next_revision \in Nat /\ entries \in [AllKeys -> Stored \cup {Absent}]
    /\ walk[p] \in Walks /\ walk \in [Procs -> Walks] /\ pc \in [Procs -> Steps]
    /\ read[p] \in [aff : Nat, other : Stored \cup {Absent}] /\ read[p].aff < next_revision
    /\ read \in [Procs -> [aff : Nat, other : Stored \cup {Absent}]]
    /\ Placed(p) /\ job[p] \in Jobs
    /\ job[p].op \in {"claim", "release", "assign"} /\ job[p].count \in Nat

LEMMA AtWork ==
    ASSUME OwnerInv, NEW p \in Procs, pc[p] \notin {"idle", "scan"}
    PROVE  AtHand(p)
<1>1. Block(p) \in Blocks /\ HostOf[p] \in Hosts /\ HandleOf[p] \in Handles
  BY WorksOnBlock, ProcsAssumption
<1>2. Mine(p) \in AllKeys /\ Theirs(p) \in AllKeys /\ Counts(p) \in AllKeys /\ Mine(p) # Theirs(p)
  BY <1>1, KeyFacts DEF AtHand, Mine, Theirs, Counts
<1>3. Placed(p) /\ job[p] \in Jobs
  BY DEF OwnerInv, Placed
<1> QED BY <1>1, <1>2, <1>3
        DEF AtHand, Mine, Theirs, Counts, OwnerInv, StoreTypes, ProcessTypes, Dated, Jobs

LEMMA ClaimPendingMoves == ASSUME OwnerInv, NEW p \in Procs, ClaimPending(p) PROVE Moves(p)
<1>0. AtHand(p)
  BY AtWork DEF ClaimPending
<1> DEFINE e == entries[Mine(p)]
           aff == CASE e = Absent -> next_revision
                    [] e # Absent /\ e.value.state = "confirmed" -> 0
                    [] OTHER -> e.revision
           r == [read[p] EXCEPT !.aff = aff]
<1>1. /\ pc[p] = "claim" /\ To(p, "own") /\ read' = [read EXCEPT ![p].aff = aff]
      /\ UNCHANGED <<job, walk, config, trespassed, reborn>>
      /\ ((e # Absent /\ UNCHANGED casVars) \/ Create(Mine(p), [state |-> "pending"]))
  BY DEF ClaimPending, Keep, history
<1>2. Kept
  <2>1. CASE UNCHANGED casVars
    BY <1>1, <2>1, NoWriteKeeps
  <2>2. CASE Create(Mine(p), [state |-> "pending"])
    <3>1. Bump(Affinity(HostOf[p], Block(p)), [state |-> "pending"])
      BY <1>1, <2>2, <1>0 DEF Create, AtHand
    <3> QED BY <1>1, <3>1, AffinityKeeps, <1>0 DEF States, AtHand
  <2> QED BY <1>1, <2>1, <2>2
<1>3. aff \in Nat /\ aff < next_revision'
  <2>1. CASE e # Absent
    <3>1. e \in Stored /\ e.revision < next_revision /\ e.revision \in Nat /\ next_revision > 0
      BY <2>1, <1>1, <1>0 DEF OwnerInv, Dated, Stored, AtHand
    <3>2. next_revision' = next_revision
      BY <1>1, <2>1 DEF Create, casVars
    <3> QED BY <2>1, <3>1, <3>2
  <2>2. CASE e = Absent
    <3>1. next_revision' = next_revision + 1 /\ next_revision \in Nat
      BY <1>1, <2>2, <1>0 DEF Create, Bump, AtHand
    <3> QED BY <2>2, <3>1
  <2> QED BY <2>1, <2>2
<1> HIDE DEF aff
<1>4. r \in [aff : Nat, other : Stored \cup {Absent}] /\ r.aff = aff
      /\ read' = [read EXCEPT ![p] = r]
  BY <1>1, <1>3, <1>0 DEF AtHand
<1> HIDE DEF r
<1>5. /\ \A q \in Procs \ {p} : Same(q)
      /\ pc' \in [Procs -> Steps] /\ job' \in [Procs -> Jobs \cup {NoJob}]
      /\ walk' \in [Procs -> Walks]
      /\ read' \in [Procs -> [aff : Nat, other : Stored \cup {Absent}]]
      /\ pc'[p] = "own" /\ job'[p] = job[p] /\ walk'[p] = walk[p] /\ read'[p] = r
  <2>1. /\ pc' = [pc EXCEPT ![p] = "own"] /\ walk' = [walk EXCEPT ![p] = walk[p]]
        /\ job' = job /\ "own" \in Steps /\ walk[p] \in Walks
    BY <1>1, <1>0 DEF To, Steps, AtHand
  <2> QED BY <1>4, <2>1, GoesOn
<1>6. Placed(p)'
  BY <1>1, <1>5, <1>0 DEF Placed, Working, AtHand
<1>7. Copied(p)' /\ Claimant(p)' /\ Taker(p)'
  BY <1>5 DEF Copied, Claimant, Taker
<1> QED BY <1>1, <1>2, <1>3, <1>4, <1>5, <1>6, <1>7 DEF Moves

(* Once the block is the host's, and the affinity confirmed. *)
LEMMA ClaimedMoves ==
    ASSUME OwnerInv, NEW p \in Procs, pc[p] \in {"own", "confirm"}, Claimed(p), Kept,
           config' = config,
           config.strict /\ job[p].op = "assign" =>
               \/ Block(p) \in reborn'
               \/ entries'[Theirs(p)] # Absent /\ entries'[Theirs(p)].value.owner = HostOf[p]
    PROVE  Moves(p)
<1>0. AtHand(p)
  BY AtWork
<1>1. CASE job[p].op = "claim"
  BY <1>1, DoneMoves DEF Claimed
<1>2. CASE job[p].op # "claim"
  <2> DEFINE w == [walk[p] EXCEPT !.owned = @ + 1]
  <2>1. job[p].op = "assign"
    BY <1>2, <1>0 DEF Placed, AtHand
  <2>2. To(p, "take") /\ walk' = [walk EXCEPT ![p] = w] /\ UNCHANGED <<job, read>>
    BY <1>2, <1>0 DEF Claimed, AtHand
  <2>3. w \in Walks /\ w.i = walk[p].i /\ w.pass = walk[p].pass
    BY <1>0, NextCandidate DEF AtHand
  <2> HIDE DEF w
  <2>4. /\ \A q \in Procs \ {p} : Same(q)
        /\ pc' \in [Procs -> Steps] /\ job' \in [Procs -> Jobs \cup {NoJob}]
        /\ walk' \in [Procs -> Walks]
        /\ read' \in [Procs -> [aff : Nat, other : Stored \cup {Absent}]]
        /\ pc'[p] = "take" /\ job'[p] = job[p] /\ walk'[p] = w /\ read'[p] = read[p]
    <3>1. /\ pc' = [pc EXCEPT ![p] = "take"] /\ read' = [read EXCEPT ![p] = read[p]]
          /\ job' = job /\ "take" \in Steps
          /\ read[p] \in [aff : Nat, other : Stored \cup {Absent}]
      BY <2>2, <1>0 DEF To, Steps, AtHand
    <3> QED BY <2>2, <2>3, <3>1, GoesOn
  <2>5. Placed(p)'
    BY <2>1, <2>3, <2>4, <1>0 DEF Placed, Working, AtHand
  <2>6. Copied(p)' /\ Claimant(p)'
    BY <2>4 DEF Copied, Claimant
  <2>7. Taker(p)'
    <3>1. Block(p)' = Block(p)
      BY <2>3, <2>4 DEF Block
    <3> QED BY <2>1, <2>4, <3>1, <1>0 DEF Taker, Owns, AtHand
  <2>8. read'[p].aff < next_revision'
    BY <2>4, <1>0 DEF Kept, Globals, StoreTypes, AtHand
  <2> QED BY <2>4, <2>5, <2>6, <2>7, <2>8 DEF Moves
<1> QED BY <1>1, <1>2

LEMMA EnsureBlockOwnedMoves ==
    ASSUME OwnerInv, NEW p \in Procs, EnsureBlockOwned(p) PROVE Moves(p)
<1>0. AtHand(p)
  BY AtWork DEF EnsureBlockOwned
<1> DEFINE e == entries[Theirs(p)]
           new == [owner |-> HostOf[p], used |-> [i \in Handles |-> 0]]
<1>1. /\ pc[p] = "own" /\ UNCHANGED <<config, trespassed, reborn>>
      /\ IF e = Absent THEN Create(Theirs(p), new) ELSE UNCHANGED casVars
      /\ IF e = Absent \/ e.value.owner = HostOf[p] THEN BlockIsOurs(p) ELSE Done(p)
  BY DEF EnsureBlockOwned, Keep, history
<1>2. new \in AllocationBlock /\ new.owner = HostOf[p] /\ \A i \in Handles : new.used[i] = 0
  BY ProcsAssumption DEF AllocationBlock
<1> HIDE DEF new
<1>3. Kept
  <2>1. CASE e = Absent
    <3>1. Bump(BlockKey(Block(p)), new) /\ entries[BlockKey(Block(p))] = Absent
      BY <1>1, <2>1, <1>0 DEF Create, AtHand
    <3> QED BY <1>1, <1>2, <3>1, BlockKeeps, <1>0, ProcsAssumption DEF AtHand
  <2>2. CASE e # Absent
    BY <1>1, <2>2, NoWriteKeeps
  <2> QED BY <2>1, <2>2
<1>4. CASE Done(p)
  BY <1>1, <1>3, <1>4, DoneMoves
<1>5. CASE ~ Done(p)
  <2>1. e = Absent \/ e.value.owner = HostOf[p]
    BY <1>1, <1>5
  <2>2. BlockIsOurs(p)
    BY <1>1, <2>1
  <2>3. entries'[Theirs(p)] # Absent /\ entries'[Theirs(p)].value.owner = HostOf[p]
    <3>1. CASE e = Absent
      <4>1. Bump(Theirs(p), new) /\ new \in AllValues
        BY <1>1, <1>2, <3>1, StoredFacts DEF Create
      <4>2. Theirs(p) \in AllKeys
        BY <1>0 DEF AtHand
      <4>3. entries'[Theirs(p)] = [value |-> new, revision |-> next_revision]
            /\ entries'[Theirs(p)] # Absent
        BY <4>1, <4>2, OneKeyWritten
      <4> QED BY <1>2, <4>3
    <3>2. CASE e # Absent
      BY <1>1, <2>1, <3>2 DEF casVars
    <3> QED BY <3>1, <3>2
  <2>4. CASE Claimed(p)
    BY <1>1, <1>3, <2>3, <2>4, ClaimedMoves
  <2>5. CASE ~ Claimed(p)
    <3>1. To(p, "confirm") /\ UNCHANGED <<job, walk, read>>
      BY <2>2, <2>5 DEF BlockIsOurs
    <3>2. pc' = [pc EXCEPT ![p] = "confirm"] /\ job' = job
          /\ walk' = [walk EXCEPT ![p] = walk[p]] /\ read' = [read EXCEPT ![p] = read[p]]
      BY <1>1, <3>1, <1>0 DEF To, AtHand
    <3>3. /\ \A q \in Procs \ {p} : Same(q)
          /\ pc' \in [Procs -> Steps] /\ job' \in [Procs -> Jobs \cup {NoJob}]
          /\ walk' \in [Procs -> Walks]
          /\ read' \in [Procs -> [aff : Nat, other : Stored \cup {Absent}]]
          /\ pc'[p] = "confirm" /\ job'[p] = job[p] /\ walk'[p] = walk[p] /\ read'[p] = read[p]
      BY <1>1, <3>2, <1>0, GoesOn DEF Steps, AtHand
    <3>4. Placed(p)'
      BY <1>1, <3>3, <1>0 DEF Placed, Working, AtHand
    <3>5. Block(p)' = Block(p)
      BY <3>3 DEF Block
    <3>6. Copied(p)' /\ Claimant(p)' /\ Taker(p)'
      BY <2>3, <3>3, <3>5, <1>0 DEF Copied, Claimant, Taker, Owns, AtHand
    <3>7. read'[p].aff < next_revision'
      BY <1>1, <1>3, <3>3, <1>0 DEF Kept, Globals, StoreTypes, AtHand
    <3> QED BY <1>1, <1>3, <3>3, <3>4, <3>6, <3>7 DEF Moves
  <2> QED BY <2>4, <2>5
<1> QED BY <1>4, <1>5

LEMMA ConfirmMoves == ASSUME OwnerInv, NEW p \in Procs, Confirm(p) PROVE Moves(p)
<1>0. AtHand(p)
  BY AtWork DEF Confirm
<1> DEFINE b == Block(p)
<1>1. /\ pc[p] = "confirm" /\ entries[Mine(p)].value.state # "pendingDeletion"
      /\ Current(Mine(p), read[p].aff) /\ Bump(Mine(p), [state |-> "confirmed"])
      /\ Claimed(p) /\ UNCHANGED <<config, trespassed, reborn>>
  BY DEF Confirm, Update, Keep, history
<1>2. b \in trespassed \/ Owns(HostOf[p], b)
  BY <1>1 DEF OwnerInv, Claimant
<1>3. Kept
  BY <1>1, <1>2, AffinityKeeps, <1>0 DEF States, AtHand
<1>4. entries'[Theirs(p)] = entries[Theirs(p)]
  BY <1>1, <1>0 DEF Bump, AtHand
<1>5. config.strict /\ job[p].op = "assign" =>
          \/ b \in reborn'
          \/ entries'[Theirs(p)] # Absent /\ entries'[Theirs(p)].value.owner = HostOf[p]
  <2>1. Taker(p) /\ Theirs(p) = BlockKey(b)
    BY <1>0 DEF OwnerInv, AtHand
  <2> QED BY <1>1, <1>4, <2>1 DEF Taker, Owns
<1> QED BY <1>1, <1>3, <1>5, ClaimedMoves

LEMMA GetBlockMoves == ASSUME OwnerInv, NEW p \in Procs, GetBlock(p) PROVE Moves(p)
<1>0. AtHand(p)
  BY AtWork DEF GetBlock
<1> DEFINE e == entries[Theirs(p)]
           room == {n \in 1 .. job[p].count - walk[p].got : Total(e.value.used) + n <= Capacity}
<1>1. /\ pc[p] = "take" /\ e # Absent
      /\ UNCHANGED <<casVars, job, config, trespassed, reborn>>
      /\ IF room = {} THEN Advance(p) /\ To(p, "scan") /\ UNCHANGED read
         ELSE \E n \in room : /\ To(p, "put") /\ walk' = [walk EXCEPT ![p].taken = n]
                              /\ read' = [read EXCEPT ![p].other = e]
  BY DEF GetBlock, Keep, history
<1>2. room \subseteq Nat
  OBVIOUS
<1> HIDE DEF room
<1>3. Kept /\ entries' = entries /\ next_revision' = next_revision
  BY <1>1, NoWriteKeeps DEF casVars
<1>4. CASE room = {}
  <2> DEFINE w == [walk[p] EXCEPT !.i = @ + 1]
  <2>1. w \in Walks /\ w.i # 0 /\ w.pass = walk[p].pass
    BY <1>0, NextCandidate DEF AtHand
  <2>2. /\ pc' = [pc EXCEPT ![p] = "scan"] /\ walk' = [walk EXCEPT ![p] = w]
        /\ read' = [read EXCEPT ![p] = read[p]] /\ job' = job /\ "scan" \in Steps
        /\ read[p] \in [aff : Nat, other : Stored \cup {Absent}]
    BY <1>0, <1>1, <1>4 DEF AtHand, To, Advance, Steps
  <2> HIDE DEF w
  <2>3. /\ \A q \in Procs \ {p} : Same(q)
        /\ pc' \in [Procs -> Steps] /\ job' \in [Procs -> Jobs \cup {NoJob}]
        /\ walk' \in [Procs -> Walks]
        /\ read' \in [Procs -> [aff : Nat, other : Stored \cup {Absent}]]
        /\ pc'[p] = "scan" /\ job'[p] = job[p] /\ walk'[p] = w /\ read'[p] = read[p]
    BY <2>1, <2>2, GoesOn
  <2>4. Placed(p)'
    BY <1>0, <1>1, <2>1, <2>3 DEF AtHand, Placed, Working
  <2>5. Copied(p)' /\ Claimant(p)' /\ Taker(p)'
    BY <2>3 DEF Copied, Claimant, Taker
  <2>6. read'[p].aff < next_revision' /\ config' = config
    BY <1>0, <1>1, <1>3, <2>3 DEF AtHand
  <2> QED BY <1>3, <2>3, <2>4, <2>5, <2>6 DEF Moves
<1>5. CASE room # {}
  <2>1. PICK n \in room : /\ To(p, "put") /\ walk' = [walk EXCEPT ![p].taken = n]
                          /\ read' = [read EXCEPT ![p].other = e]
    BY <1>1, <1>5
  <2> DEFINE w == [walk[p] EXCEPT !.taken = n]
             r == [read[p] EXCEPT !.other = e]
  <2>2. w \in Walks /\ w.i = walk[p].i /\ w.pass = walk[p].pass
    BY <1>0, <1>2, NextCandidate DEF AtHand
  <2>3. e \in Stored /\ e.value \in AllocationBlock /\ e.revision < next_revision
    BY <1>0, <1>1 DEF AtHand, OwnerInv, StoreTypes, Dated
  <2>4. r \in [aff : Nat, other : Stored \cup {Absent}] /\ r.aff = read[p].aff /\ r.other = e
    BY <1>0, <2>3 DEF AtHand
  <2>5. /\ pc' = [pc EXCEPT ![p] = "put"] /\ walk' = [walk EXCEPT ![p] = w]
        /\ read' = [read EXCEPT ![p] = r] /\ job' = job /\ "put" \in Steps
    BY <1>0, <1>1, <2>1 DEF AtHand, To, Steps
  <2> HIDE DEF w, r
  <2>6. /\ \A q \in Procs \ {p} : Same(q)
        /\ pc' \in [Procs -> Steps] /\ job' \in [Procs -> Jobs \cup {NoJob}]
        /\ walk' \in [Procs -> Walks]
        /\ read' \in [Procs -> [aff : Nat, other : Stored \cup {Absent}]]
        /\ pc'[p] = "put" /\ job'[p] = job[p] /\ walk'[p] = w /\ read'[p] = r
    BY <2>2, <2>4, <2>5, GoesOn
  <2>7. Block(p)' = Block(p) /\ Theirs(p)' = Theirs(p) /\ config' = config /\ reborn' = reborn
    BY <1>1, <2>2, <2>6 DEF Block, Theirs
  <2>8. Placed(p)'
    BY <1>0, <1>1, <2>2, <2>3, <2>4, <2>6, <2>7 DEF AtHand, Placed, Working
  <2>9. Copied(p)'
    BY <1>3, <2>3, <2>4, <2>6, <2>7 DEF Copied
  <2>10. Claimant(p)'
    BY <2>6 DEF Claimant
  <2>11. Taker(p)'
    BY <1>1, <1>3, <2>6, <2>7 DEF Taker, Owns, OwnerInv
  <2>12. read'[p].aff < next_revision'
    BY <1>0, <1>3, <2>4, <2>6 DEF AtHand
  <2> QED BY <1>3, <2>6, <2>7, <2>8, <2>9, <2>10, <2>11, <2>12 DEF Moves
<1> QED BY <1>4, <1>5

(* The block that is written is the one that was read: its owner stays,    *)
(* and under strict affinity the new addresses are its own host's.         *)
LEMMA PutBlockMoves == ASSUME OwnerInv, NEW p \in Procs, PutBlock(p) PROVE Moves(p)
<1>0. AtHand(p)
  BY AtWork DEF PutBlock
<1> DEFINE b == Block(p)
           i == HandleOf[p]
           e == read[p].other
           v == [e.value EXCEPT !.used[i] = @ + walk[p].taken]
           r == [read[p] EXCEPT !.other = Absent]
<1>1. /\ pc[p] = "put" /\ UNCHANGED <<job, walk, config, trespassed, reborn>>
      /\ Current(Theirs(p), e.revision) /\ Bump(Theirs(p), v)
      /\ To(p, "index") /\ read' = [read EXCEPT ![p].other = Absent]
  BY DEF PutBlock, Update, Keep, history
<1>2. entries[Theirs(p)] = e /\ e \in Stored /\ e.value \in AllocationBlock
  BY <1>1 DEF OwnerInv, Placed, Copied
<1>3. v \in AllocationBlock /\ v.owner = e.value.owner
      /\ \A j \in Handles : j # i => v.used[j] = e.value.used[j]
  <2>1. walk[p].taken \in Nat /\ i \in Handles
    BY <1>0 DEF AtHand, Walks
  <2> HIDE DEF e, i
  <2> QED BY <1>2, <2>1 DEF AllocationBlock
<1> HIDE DEF v
<1>4. entries[BlockKey(b)] = e /\ entries[BlockKey(b)] # Absent /\ b \in Blocks
      /\ Bump(BlockKey(b), v)
  BY <1>0, <1>1, <1>2 DEF AtHand, Current
<1>5. ASSUME config.strict, b \notin reborn, NEW q \in Procs, v.used[HandleOf[q]] > 0
      PROVE  v.owner = HostOf[q]
  <2>1. Owns(HostOf[p], b) /\ Placed(p)
    BY <1>1, <1>5 DEF OwnerInv, Taker, Placed
  <2>2. CASE HandleOf[q] = i
    BY <1>3, <1>4, <2>1, <2>2, ProcsAssumption DEF Owns
  <2>3. CASE HandleOf[q] # i
    <3>1. UsedIn(b, HandleOf[q]) > 0
      BY <1>3, <1>4, <1>5, <2>3, ProcsAssumption DEF UsedIn
    <3> QED BY <1>3, <1>4, <1>5, <3>1 DEF OwnerInv, Strictness, Owns
  <2> QED BY <2>2, <2>3
<1>6. Kept
  BY <1>1, <1>3, <1>4, <1>5, BlockKeeps
<1>7. r \in [aff : Nat, other : Stored \cup {Absent}] /\ r.aff = read[p].aff
  BY <1>0 DEF AtHand
<1>8. /\ pc' = [pc EXCEPT ![p] = "index"] /\ walk' = [walk EXCEPT ![p] = walk[p]]
      /\ read' = [read EXCEPT ![p] = r] /\ job' = job /\ "index" \in Steps /\ walk[p] \in Walks
  BY <1>0, <1>1 DEF AtHand, To, Steps
<1> HIDE DEF r, e
<1>9. /\ \A q \in Procs \ {p} : Same(q)
      /\ pc' \in [Procs -> Steps] /\ job' \in [Procs -> Jobs \cup {NoJob}]
      /\ walk' \in [Procs -> Walks]
      /\ read' \in [Procs -> [aff : Nat, other : Stored \cup {Absent}]]
      /\ pc'[p] = "index" /\ job'[p] = job[p] /\ walk'[p] = walk[p] /\ read'[p] = r
  BY <1>7, <1>8, GoesOn
<1>10. Placed(p)'
  BY <1>0, <1>1, <1>9 DEF AtHand, Placed, Working
<1>11. Copied(p)' /\ Claimant(p)' /\ Taker(p)'
  BY <1>9 DEF Copied, Claimant, Taker
<1>12. read'[p].aff < next_revision'
  BY <1>0, <1>6, <1>7, <1>9 DEF AtHand, Kept, Globals, StoreTypes
<1> QED BY <1>1, <1>6, <1>9, <1>10, <1>11, <1>12 DEF Moves

LEMMA PutHandleMoves == ASSUME OwnerInv, NEW p \in Procs, PutHandle(p) PROVE Moves(p)
<1>0. AtHand(p)
  BY AtWork DEF PutHandle
<1> DEFINE e == entries[Counts(p)]
           v == Incremented(e, Block(p), walk[p].taken)
           w == [walk[p] EXCEPT !.i = @ + 1, !.got = @ + walk[p].taken, !.taken = 0]
<1>1. /\ pc[p] = "index" /\ UNCHANGED <<job, read, config, trespassed, reborn>>
      /\ Bump(Counts(p), v) /\ To(p, "scan")
      /\ walk' = [walk EXCEPT ![p].i = @ + 1, ![p].got = @ + walk[p].taken, ![p].taken = 0]
  BY DEF PutHandle, Keep, history
<1>2. v \in IpamHandle
  <2>1. walk[p].taken \in Nat /\ Block(p) \in Blocks
    BY <1>0 DEF AtHand, Walks
  <2>2. e = Absent \/ e.value \in IpamHandle
    BY <1>0 DEF AtHand, OwnerInv, StoreTypes
  <2>3. CASE e = Absent
    BY <2>1, <2>3 DEF Incremented, IpamHandle
  <2>4. CASE e.value \in IpamHandle /\ e # Absent
    <3>1. e.value.count \in [Blocks -> Nat]
      BY <2>4 DEF IpamHandle
    <3> QED BY <2>1, <2>4, <3>1 DEF Incremented, IpamHandle
  <2> QED BY <2>2, <2>3, <2>4
<1> HIDE DEF v
<1>3. Kept
  BY <1>0, <1>1, <1>2, HandleKeeps DEF AtHand
<1>4. w \in Walks /\ w.i # 0 /\ w.pass = walk[p].pass
  BY <1>0, NextCandidate DEF AtHand
<1>5. /\ pc' = [pc EXCEPT ![p] = "scan"] /\ walk' = [walk EXCEPT ![p] = w]
      /\ read' = [read EXCEPT ![p] = read[p]] /\ job' = job /\ "scan" \in Steps
      /\ read[p] \in [aff : Nat, other : Stored \cup {Absent}]
  BY <1>0, <1>1 DEF AtHand, To, Steps
<1> HIDE DEF w
<1>6. /\ \A q \in Procs \ {p} : Same(q)
      /\ pc' \in [Procs -> Steps] /\ job' \in [Procs -> Jobs \cup {NoJob}]
      /\ walk' \in [Procs -> Walks]
      /\ read' \in [Procs -> [aff : Nat, other : Stored \cup {Absent}]]
      /\ pc'[p] = "scan" /\ job'[p] = job[p] /\ walk'[p] = w /\ read'[p] = read[p]
  BY <1>4, <1>5, GoesOn
<1>7. Placed(p)'
  BY <1>0, <1>1, <1>4, <1>6 DEF AtHand, Placed, Working
<1>8. Copied(p)' /\ Claimant(p)' /\ Taker(p)'
  BY <1>6 DEF Copied, Claimant, Taker
<1>9. read'[p].aff < next_revision'
  BY <1>0, <1>3, <1>6 DEF AtHand, Kept, Globals, StoreTypes
<1> QED BY <1>1, <1>3, <1>6, <1>7, <1>8, <1>9 DEF Moves

-----------------------------------------------------------------------------
(* The steps of a release. *)
LEMMA BeginDeletionMoves == ASSUME OwnerInv, NEW p \in Procs, BeginDeletion(p) PROVE Moves(p)
<1>0. AtHand(p)
  BY AtWork DEF BeginDeletion
<1>1. /\ pc[p] = "release" /\ UNCHANGED <<config, trespassed, reborn>>
      /\ IF entries[Mine(p)] = Absent THEN Done(p) /\ UNCHANGED casVars
         ELSE /\ Bump(Mine(p), [state |-> "pendingDeletion"])
              /\ To(p, "empty") /\ read' = [read EXCEPT ![p].aff = next_revision]
              /\ UNCHANGED <<job, walk>>
  BY DEF BeginDeletion, Keep, history
<1>2. CASE entries[Mine(p)] = Absent
  BY <1>1, <1>2, NoWriteKeeps, DoneMoves
<1>3. CASE entries[Mine(p)] # Absent
  <2> DEFINE r == [read[p] EXCEPT !.aff = next_revision]
  <2>1. Bump(Affinity(HostOf[p], Block(p)), [state |-> "pendingDeletion"])
    BY <1>0, <1>1, <1>3 DEF AtHand
  <2>2. Kept /\ next_revision' = next_revision + 1
    BY <1>0, <1>1, <2>1, AffinityKeeps DEF AtHand, States, Bump
  <2>3. r \in [aff : Nat, other : Stored \cup {Absent}] /\ r.aff < next_revision'
    BY <1>0, <2>2 DEF AtHand
  <2>4. /\ pc' = [pc EXCEPT ![p] = "empty"] /\ walk' = [walk EXCEPT ![p] = walk[p]]
        /\ read' = [read EXCEPT ![p] = r] /\ job' = job /\ "empty" \in Steps /\ walk[p] \in Walks
    BY <1>0, <1>1, <1>3 DEF AtHand, To, Steps
  <2> HIDE DEF r
  <2>5. /\ \A q \in Procs \ {p} : Same(q)
        /\ pc' \in [Procs -> Steps] /\ job' \in [Procs -> Jobs \cup {NoJob}]
        /\ walk' \in [Procs -> Walks]
        /\ read' \in [Procs -> [aff : Nat, other : Stored \cup {Absent}]]
        /\ pc'[p] = "empty" /\ job'[p] = job[p] /\ walk'[p] = walk[p] /\ read'[p] = r
    BY <2>3, <2>4, GoesOn
  <2>6. Placed(p)'
    BY <1>0, <1>1, <2>5 DEF AtHand, Placed, Working
  <2>7. Copied(p)' /\ Claimant(p)' /\ Taker(p)'
    BY <2>5 DEF Copied, Claimant, Taker
  <2> QED BY <1>1, <2>2, <2>3, <2>5, <2>6, <2>7 DEF Moves
<1> QED BY <1>2, <1>3

LEMMA CheckEmptyMoves == ASSUME OwnerInv, NEW p \in Procs, CheckEmpty(p) PROVE Moves(p)
<1>0. AtHand(p)
  BY AtWork DEF CheckEmpty
<1> DEFINE e == entries[Theirs(p)]
           r == [read[p] EXCEPT !.other = e]
<1>1. /\ pc[p] = "empty" /\ UNCHANGED <<casVars, config, trespassed, reborn>>
      /\ \/ Done(p)
         \/ To(p, "drop") /\ UNCHANGED <<job, walk, read>>
         \/ /\ e # Absent /\ To(p, "delete") /\ read' = [read EXCEPT ![p].other = e]
            /\ UNCHANGED <<job, walk>>
  BY DEF CheckEmpty, Keep, history
<1>2. Kept /\ entries' = entries /\ next_revision' = next_revision
  BY <1>1, NoWriteKeeps DEF casVars
<1>3. CASE Done(p)
  BY <1>1, <1>2, <1>3, DoneMoves
<1>4. CASE To(p, "drop") /\ UNCHANGED <<job, walk, read>>
  <2>1. /\ pc' = [pc EXCEPT ![p] = "drop"] /\ walk' = [walk EXCEPT ![p] = walk[p]]
        /\ read' = [read EXCEPT ![p] = read[p]] /\ job' = job /\ "drop" \in Steps
        /\ walk[p] \in Walks /\ read[p] \in [aff : Nat, other : Stored \cup {Absent}]
    BY <1>0, <1>4 DEF AtHand, To, Steps
  <2>2. /\ \A q \in Procs \ {p} : Same(q)
        /\ pc' \in [Procs -> Steps] /\ job' \in [Procs -> Jobs \cup {NoJob}]
        /\ walk' \in [Procs -> Walks]
        /\ read' \in [Procs -> [aff : Nat, other : Stored \cup {Absent}]]
        /\ pc'[p] = "drop" /\ job'[p] = job[p] /\ walk'[p] = walk[p] /\ read'[p] = read[p]
    BY <2>1, GoesOn
  <2>3. Placed(p)'
    BY <1>0, <1>1, <2>2 DEF AtHand, Placed, Working
  <2>4. Copied(p)' /\ Claimant(p)' /\ Taker(p)'
    BY <2>2 DEF Copied, Claimant, Taker
  <2>5. read'[p].aff < next_revision'
    BY <1>0, <1>2, <2>2 DEF AtHand
  <2> QED BY <1>1, <1>2, <2>2, <2>3, <2>4, <2>5 DEF Moves
<1>5. CASE /\ e # Absent /\ To(p, "delete") /\ read' = [read EXCEPT ![p].other = e]
           /\ UNCHANGED <<job, walk>>
  <2>1. e \in Stored /\ e.value \in AllocationBlock /\ e.revision < next_revision
    BY <1>0, <1>5 DEF AtHand, OwnerInv, StoreTypes, Dated
  <2>2. r \in [aff : Nat, other : Stored \cup {Absent}] /\ r.aff = read[p].aff /\ r.other = e
    BY <1>0, <2>1 DEF AtHand
  <2>3. /\ pc' = [pc EXCEPT ![p] = "delete"] /\ walk' = [walk EXCEPT ![p] = walk[p]]
        /\ read' = [read EXCEPT ![p] = r] /\ job' = job /\ "delete" \in Steps /\ walk[p] \in Walks
    BY <1>0, <1>5 DEF AtHand, To, Steps
  <2> HIDE DEF r
  <2>4. /\ \A q \in Procs \ {p} : Same(q)
        /\ pc' \in [Procs -> Steps] /\ job' \in [Procs -> Jobs \cup {NoJob}]
        /\ walk' \in [Procs -> Walks]
        /\ read' \in [Procs -> [aff : Nat, other : Stored \cup {Absent}]]
        /\ pc'[p] = "delete" /\ job'[p] = job[p] /\ walk'[p] = walk[p] /\ read'[p] = r
    BY <2>2, <2>3, GoesOn
  <2>5. Placed(p)'
    BY <1>0, <1>1, <2>1, <2>2, <2>4 DEF AtHand, Placed, Working
  <2>6. Theirs(p)' = Theirs(p)
    BY <2>4 DEF Theirs, Block
  <2>7. Copied(p)'
    BY <1>2, <2>1, <2>2, <2>4, <2>6 DEF Copied
  <2>8. Claimant(p)' /\ Taker(p)'
    BY <2>4 DEF Claimant, Taker
  <2>9. read'[p].aff < next_revision'
    BY <1>0, <1>2, <2>2, <2>4 DEF AtHand
  <2> QED BY <1>1, <1>2, <2>4, <2>5, <2>7, <2>8, <2>9 DEF Moves
<1> QED BY <1>1, <1>3, <1>4, <1>5

(* Whom a deleted block may have served is what trespassed records. *)
LEMMA DeleteBlockMoves == ASSUME OwnerInv, NEW p \in Procs, DeleteBlock(p) PROVE Moves(p)
<1>0. AtHand(p)
  BY AtWork DEF DeleteBlock
<1> DEFINE b == Block(p)
           h == HostOf[p]
           r == [read[p] EXCEPT !.other = Absent]
<1>1. /\ pc[p] = "delete" /\ UNCHANGED <<job, walk, config, next_revision>>
      /\ Current(Theirs(p), read[p].other.revision)
      /\ entries' = [entries EXCEPT ![Theirs(p)] = Absent]
      /\ To(p, "drop") /\ read' = [read EXCEPT ![p].other = Absent]
      /\ reborn' = reborn \cup {b}
      /\ trespassed' = IF read[p].other.value.owner = h /\ Announced(p) THEN trespassed
                       ELSE trespassed \cup {b}
  BY DEF DeleteBlock, Delete, Removed
<1>2. entries[BlockKey(b)] = read[p].other /\ entries[BlockKey(b)] # Absent
      /\ b \in Blocks /\ h \in Hosts /\ entries' = [entries EXCEPT ![BlockKey(b)] = Absent]
  BY <1>0, <1>1 DEF AtHand, OwnerInv, Copied, Current
<1>3. Kept
  <2>1. \/ /\ trespassed' = trespassed /\ entries[BlockKey(b)].value.owner = h
           /\ entries[Affinity(h, b)] # Absent
           /\ entries[Affinity(h, b)].value.state = "pendingDeletion"
        \/ trespassed' = trespassed \cup {b}
    BY <1>0, <1>1, <1>2 DEF AtHand, Announced
  <2> QED BY <1>1, <1>2, <2>1, BlockDeletionKeeps
<1>4. r \in [aff : Nat, other : Stored \cup {Absent}] /\ r.aff = read[p].aff
  BY <1>0 DEF AtHand
<1>5. /\ pc' = [pc EXCEPT ![p] = "drop"] /\ walk' = [walk EXCEPT ![p] = walk[p]]
      /\ read' = [read EXCEPT ![p] = r] /\ job' = job /\ "drop" \in Steps /\ walk[p] \in Walks
  BY <1>0, <1>1 DEF AtHand, To, Steps
<1> HIDE DEF r
<1>6. /\ \A q \in Procs \ {p} : Same(q)
      /\ pc' \in [Procs -> Steps] /\ job' \in [Procs -> Jobs \cup {NoJob}]
      /\ walk' \in [Procs -> Walks]
      /\ read' \in [Procs -> [aff : Nat, other : Stored \cup {Absent}]]
      /\ pc'[p] = "drop" /\ job'[p] = job[p] /\ walk'[p] = walk[p] /\ read'[p] = r
  BY <1>4, <1>5, GoesOn
<1>7. Placed(p)'
  BY <1>0, <1>1, <1>6 DEF AtHand, Placed, Working
<1>8. Copied(p)' /\ Claimant(p)' /\ Taker(p)'
  BY <1>6 DEF Copied, Claimant, Taker
<1>9. read'[p].aff < next_revision'
  BY <1>0, <1>1, <1>4, <1>6 DEF AtHand
<1> QED BY <1>1, <1>3, <1>6, <1>7, <1>8, <1>9 DEF Moves

LEMMA DeleteAffinityMoves == ASSUME OwnerInv, NEW p \in Procs, DeleteAffinity(p) PROVE Moves(p)
<1>0. AtHand(p)
  BY AtWork DEF DeleteAffinity
<1>1. /\ entries' = [entries EXCEPT ![Affinity(HostOf[p], Block(p))] = Absent]
      /\ UNCHANGED <<next_revision, config, trespassed, reborn>> /\ Done(p)
  BY <1>0 DEF AtHand, DeleteAffinity, Delete, Keep, history
<1>2. Kept
  BY <1>0, <1>1, AffinityDeletionKeeps DEF AtHand
<1> QED BY <1>1, <1>2, DoneMoves

-----------------------------------------------------------------------------
LEMMA InitOwner == Init => OwnerInv
<1> SUFFICES ASSUME Init PROVE OwnerInv
  OBVIOUS
<1>1. /\ entries = [k \in AllKeys |-> IF Preset[k] = Absent THEN Absent
                                      ELSE [value |-> Preset[k], revision |-> 1]]
      /\ next_revision = 2
  BY StoreAssumption DEF Init, CasInit
<1>2. \A k \in AllKeys : Preset[k] \in AllValues \cup {Absent}
  <2>1. \A h \in Hosts, b \in Blocks : Preset[Affinity(h, b)] \in BlockAffinity \cup {Absent}
    BY StartAssumption
  <2>2. \A b \in Blocks : Preset[BlockKey(b)] \in AllocationBlock \cup {Absent}
    BY StartAssumption DEF AllocationBlock
  <2>3. \A i \in Handles : Preset[HandleKey(i)] \in IpamHandle \cup {Absent}
    BY StartAssumption DEF IpamHandle
  <2> QED BY <2>1, <2>2, <2>3 DEF AllKeys, AllValues
<1>3. \A k \in AllKeys : /\ Preset[k] = Absent => entries[k] = Absent
                         /\ Preset[k] # Absent => /\ entries[k] \in Stored /\ entries[k] # Absent
                                                  /\ entries[k].value = Preset[k]
                                                  /\ entries[k].revision = 1
  BY <1>1, <1>2, StoredFacts
<1>4. entries \in [AllKeys -> Stored \cup {Absent}]
  <2>1. \A k \in AllKeys : entries[k] \in Stored \cup {Absent}
    BY <1>3
  <2> QED BY <1>1, <2>1
<1>5. StoreTypes
  <2>1. \A h \in Hosts, b \in Blocks :
            entries[Affinity(h, b)] # Absent => entries[Affinity(h, b)].value \in BlockAffinity
    BY <1>3, KeyFacts, StartAssumption
  <2>2. \A b \in Blocks :
            entries[BlockKey(b)] # Absent => entries[BlockKey(b)].value \in AllocationBlock
    BY <1>3, KeyFacts, StartAssumption DEF AllocationBlock
  <2>3. \A i \in Handles :
            entries[HandleKey(i)] # Absent => entries[HandleKey(i)].value \in IpamHandle
    BY <1>3, KeyFacts, StartAssumption DEF IpamHandle
  <2> QED BY <1>1, <1>4, <2>1, <2>2, <2>3 DEF StoreTypes
<1>6. /\ pc = [p \in Procs |-> "idle"] /\ job = [p \in Procs |-> NoJob]
      /\ walk = [p \in Procs |-> NoWalk] /\ read = [p \in Procs |-> NoRead]
      /\ trespassed = {} /\ reborn = {}
  BY DEF Init
<1>7. ProcessTypes
  <2>1. NoWalk \in Walks /\ NoRead \in [aff : Nat, other : Stored \cup {Absent}]
    BY DEF NoWalk, NoRead, Walks
  <2> QED BY <1>6, <2>1 DEF ProcessTypes, Steps
<1>8. Dated
  BY <1>1, <1>3, <1>6 DEF Dated, NoRead
<1>9. \A p \in Procs : Placed(p) /\ Copied(p) /\ Claimant(p) /\ Taker(p)
  BY <1>6 DEF Placed, Copied, Claimant, Taker, Working
<1>10. Confirmations
  BY <1>3, KeyFacts, StartAssumption DEF Confirmations, Confirmed, Owns
<1>11. Strictness
  <2>1. ASSUME NEW p \in Procs, NEW b \in Blocks PROVE ~(UsedIn(b, HandleOf[p]) > 0)
    <3>1. CASE entries[BlockKey(b)] = Absent
      BY <3>1 DEF UsedIn
    <3>2. CASE entries[BlockKey(b)] # Absent
      <4>1. Preset[BlockKey(b)] # Absent /\ entries[BlockKey(b)].value = Preset[BlockKey(b)]
        BY <1>3, <3>2, KeyFacts
      <4>2. Preset[BlockKey(b)].used = [i \in Handles |-> 0]
        BY <4>1, StartAssumption
      <4> QED BY <3>2, <4>1, <4>2, ProcsAssumption DEF UsedIn
    <3> QED BY <3>1, <3>2
  <2> QED BY <2>1 DEF Strictness
<1> QED BY <1>5, <1>7, <1>8, <1>9, <1>10, <1>11 DEF OwnerInv

LEMMA StepOwner == OwnerInv /\ [Next]_vars => OwnerInv'
<1> SUFFICES ASSUME OwnerInv, [Next]_vars PROVE OwnerInv'
  OBVIOUS
<1>1. ASSUME NEW p \in Procs, Call(p) PROVE OwnerInv'
  <2>1. Moves(p)
    BY <1>1, ScanMoves, ClaimPendingMoves, EnsureBlockOwnedMoves, ConfirmMoves, GetBlockMoves,
       PutBlockMoves, PutHandleMoves, BeginDeletionMoves, CheckEmptyMoves, DeleteBlockMoves,
       DeleteAffinityMoves DEF Call
  <2> QED BY <2>1, MovesKeep
<1>2. ASSUME NEW p \in Procs, Interrupted(p) PROVE OwnerInv'
  BY <1>2, InterruptedMoves, MovesKeep
<1>3. ASSUME NEW p \in Procs, NEW j \in JobsOf[p], Start(p, j) PROVE OwnerInv'
  BY <1>3, StartMoves, MovesKeep
<1>4. CASE UNCHANGED vars
  BY <1>4 DEF vars, casVars, process, history, OwnerInv, StoreTypes, ProcessTypes, Dated, Placed,
              Copied, Claimant, Taker, Confirmations, Confirmed, Strictness, UsedIn, Owns, Current,
              Block, Mine, Theirs
<1> QED BY <1>1, <1>2, <1>3, <1>4 DEF Next

(***************************************************************************)
(* The ownership invariant holds of every behaviour of the driver, however *)
(* many hosts, processes, blocks and calls there are (allocate.rs:28-160): *)
(* a claim that can be confirmed and a strict assignment that can be       *)
(* written are of a block that is still the host's.                        *)
(***************************************************************************)
THEOREM OwnerInvariant == Spec => []OwnerInv
BY InitOwner, StepOwner, PTL DEF Spec

(***************************************************************************)
(* A confirmed affinity is never without the block, which is its host's;   *)
(* under strict affinity no host has addresses in the block of another;    *)
(* but for the blocks that a stale release has deleted.                    *)
(***************************************************************************)
THEOREM ConfirmedAffinityOwns == Spec => []ConfirmedOwnsBlock
<1>1. OwnerInv => ConfirmedOwnsBlock
  <2> SUFFICES ASSUME OwnerInv PROVE ConfirmedOwnsBlock
    OBVIOUS
  <2>1. Confirmations /\ Strictness
    BY DEF OwnerInv
  <2> QED BY <2>1 DEF ConfirmedOwnsBlock, Confirmations, Confirmed, Strictness, Owns
<1> QED BY <1>1, OwnerInvariant, PTL

-----------------------------------------------------------------------------
(* Sums over finite sets.                                                  *)
(* Induction, said of a set: a set of numbers that has 0 and with every    *)
(* number the next has all of them.                                        *)
LEMMA SetInduction ==
    ASSUME NEW S \in SUBSET Nat, 0 \in S, \A n \in S : n + 1 \in S
    PROVE  S = Nat
<1> SUFFICES ASSUME S # Nat PROVE FALSE
  OBVIOUS
<1>1. PICK m \in Nat \ S : \A k \in Nat \ S : ~ (<<k, m>> \in OpToRel(<, Nat))
  <2>1. IsWellFoundedOn(OpToRel(<, Nat), Nat)
    BY NatLessThanWellFounded
  <2>2. (Nat \ S) \subseteq Nat /\ (Nat \ S) # {}
    OBVIOUS
  <2> HIDE DEF OpToRel
  <2> QED BY <2>1, <2>2, WFMin
<1>2. m # 0 /\ m - 1 \in Nat \ S
  OBVIOUS
<1>3. <<m - 1, m>> \in OpToRel(<, Nat)
  BY <1>1, <1>2 DEF OpToRel
<1> QED BY <1>1, <1>2, <1>3

Chosen(s) == CHOOSE x \in s : TRUE
Iterated(f, w, s) == IF s = {} THEN 0 ELSE w[Chosen(s)] + f[s \ {Chosen(s)}]
Iterates(f, w, D) == f = [s \in SUBSET D |-> Iterated(f, w, s)]

(* The subsets of up to n elements: to lose one is to be of n - 1. *)
UpTo(D, n) == {s \in SUBSET D : Cardinality(s) <= n}

LEMMA UpToFacts ==
    ASSUME NEW D, IsFiniteSet(D)
    PROVE  /\ UpTo(D, 0) = {{}}
           /\ \A n \in Nat : UpTo(D, n) \subseteq UpTo(D, n + 1)
           /\ \A n \in Nat : \A s \in UpTo(D, n + 1) : \A x \in s : s \ {x} \in UpTo(D, n)
           /\ \A s \in SUBSET D : s \in UpTo(D, Cardinality(D))
<1>1. ASSUME NEW s \in SUBSET D
      PROVE  /\ IsFiniteSet(s) /\ Cardinality(s) \in Nat
             /\ Cardinality(s) <= Cardinality(D)
             /\ (Cardinality(s) = 0 <=> s = {})
  BY FS_Subset, FS_CardinalityType, FS_EmptySet
<1>2. \A s \in SUBSET D : \A x \in s : Cardinality(s \ {x}) = Cardinality(s) - 1
  BY <1>1, FS_RemoveElement
<1>3. UpTo(D, 0) = {{}}
  BY <1>1 DEF UpTo
<1>4. \A n \in Nat : UpTo(D, n) \subseteq UpTo(D, n + 1)
  BY <1>1 DEF UpTo
<1>5. \A n \in Nat : \A s \in UpTo(D, n + 1) : \A x \in s : s \ {x} \in UpTo(D, n)
  <2> SUFFICES ASSUME NEW n \in Nat, NEW s \in SUBSET D, Cardinality(s) <= n + 1, NEW x \in s
               PROVE  Cardinality(s \ {x}) <= n
    BY DEF UpTo
  <2>1. Cardinality(s) \in Nat /\ Cardinality(s \ {x}) = Cardinality(s) - 1
    BY <1>1, <1>2
  <2> QED BY <2>1
<1>6. \A s \in SUBSET D : s \in UpTo(D, Cardinality(D))
  BY <1>1 DEF UpTo
<1> QED BY <1>3, <1>4, <1>5, <1>6

LEMMA ChosenElement == \A s : s # {} => Chosen(s) \in s
BY DEF Chosen

LEMMA IterationExists ==
    ASSUME NEW D, IsFiniteSet(D), NEW w, \A x \in D : w[x] \in Nat
    PROVE  \E f : Iterates(f, w, D)
<1> DEFINE Good(g, n) == g \in [UpTo(D, n) -> Nat] /\ \A s \in UpTo(D, n) : g[s] = Iterated(g, w, s)
           N == {n \in Nat : \E g : Good(g, n)}
<1>1. 0 \in N
  <2>1. Good([s \in UpTo(D, 0) |-> 0], 0)
    BY UpToFacts DEF Iterated
  <2> QED BY <2>1
<1>2. ASSUME NEW n \in N PROVE n + 1 \in N
  <2>1. PICK g : Good(g, n)
    OBVIOUS
  <2> DEFINE h == [s \in UpTo(D, n + 1) |-> Iterated(g, w, s)]
  <2>2. ASSUME NEW s \in UpTo(D, n + 1) PROVE Iterated(g, w, s) \in Nat
    BY <2>1, UpToFacts, ChosenElement DEF Iterated, UpTo
  <2>3. ASSUME NEW s \in UpTo(D, n + 1) PROVE h[s] = Iterated(h, w, s)
    <3>1. CASE s = {}
      BY <3>1 DEF Iterated
    <3>2. CASE s # {}
      <4> DEFINE t == s \ {Chosen(s)}
      <4>1. t \in UpTo(D, n) /\ t \in UpTo(D, n + 1)
        BY <3>2, UpToFacts, ChosenElement
      <4>2. g[t] = Iterated(g, w, t)
        BY <2>1, <4>1
      <4>3. h[t] = g[t]
        BY <4>1, <4>2
      <4> QED BY <3>2, <4>3 DEF Iterated
    <3> QED BY <3>1, <3>2
  <2>4. Good(h, n + 1)
    BY <2>2, <2>3
  <2> HIDE DEF h, Good
  <2>5. n + 1 \in Nat
    OBVIOUS
  <2> QED BY <2>4, <2>5
<1>3. N = Nat
  <2> HIDE DEF N
  <2>1. N \in SUBSET Nat
    BY DEF N
  <2> QED BY <1>1, <1>2, <2>1, SetInduction
<1>4. PICK g : Good(g, Cardinality(D))
  BY <1>3, FS_CardinalityType
<1>5. UpTo(D, Cardinality(D)) = SUBSET D
  BY UpToFacts DEF UpTo
<1>6. Iterates(g, w, D)
  BY <1>4, <1>5 DEF Iterates
<1> QED BY <1>6

(* Any element may be taken first. *)
LEMMA IterationFacts ==
    ASSUME NEW D, IsFiniteSet(D), NEW w, \A x \in D : w[x] \in Nat, NEW f, Iterates(f, w, D)
    PROVE  \A s \in SUBSET D : f[s] \in Nat /\ \A y \in s : f[s] = w[y] + f[s \ {y}]
<1> DEFINE N == {n \in Nat : \A s \in UpTo(D, n) :
                               f[s] \in Nat /\ \A y \in s : f[s] = w[y] + f[s \ {y}]}
<1>0. /\ \A s \in SUBSET D : f[s] = Iterated(f, w, s)
      /\ \A n \in Nat : UpTo(D, n) \subseteq SUBSET D
  BY DEF Iterates, UpTo
<1>1. 0 \in N
  BY <1>0, UpToFacts DEF Iterated
<1>2. ASSUME NEW n \in N PROVE n + 1 \in N
  <2> SUFFICES ASSUME NEW s \in UpTo(D, n + 1)
               PROVE  f[s] \in Nat /\ \A y \in s : f[s] = w[y] + f[s \ {y}]
    OBVIOUS
  <2>0. s \in SUBSET D
    BY DEF UpTo
  <2>1. CASE s = {}
    <3>1. f[s] = 0
      BY <2>0, <2>1, <1>0 DEF Iterated
    <3> QED BY <2>1, <3>1
  <2>2. CASE s # {}
    <3> DEFINE x == Chosen(s)
    <3>1. x \in s /\ s \ {x} \in UpTo(D, n) /\ w[x] \in Nat
      BY <2>0, <2>2, ChosenElement, UpToFacts
    <3> HIDE DEF x
    <3>2. f[s] = w[x] + f[s \ {x}]
      BY <2>0, <2>2, <1>0 DEF Iterated, x
    <3>3. f[s \ {x}] \in Nat /\ \A y \in s \ {x} : f[s \ {x}] = w[y] + f[(s \ {x}) \ {y}]
      BY <3>1
    <3>4. ASSUME NEW y \in s, y # x PROVE f[s] = w[y] + f[s \ {y}]
      <4>1. s \ {y} \in UpTo(D, n) /\ x \in s \ {y} /\ y \in s \ {x} /\ w[y] \in Nat
        BY <3>1, <3>4, UpToFacts, <2>0
      <4>2. f[s \ {y}] = w[x] + f[(s \ {y}) \ {x}] /\ f[s \ {x}] = w[y] + f[(s \ {x}) \ {y}]
        BY <3>3, <4>1
      <4>3. (s \ {y}) \ {x} = (s \ {x}) \ {y} /\ (s \ {x}) \ {y} \in UpTo(D, n)
        <5>1. (s \ {y}) \ {x} = (s \ {x}) \ {y} /\ Cardinality(s \ {x}) \in Nat /\ IsFiniteSet(s \ {x})
          BY <3>1, FS_Subset, FS_CardinalityType DEF UpTo
        <5>2. Cardinality((s \ {x}) \ {y}) <= Cardinality(s \ {x}) /\ Cardinality((s \ {x}) \ {y}) \in Nat
          BY <5>1, FS_Subset, FS_CardinalityType
        <5> QED BY <3>1, <5>1, <5>2 DEF UpTo
      <4>4. f[(s \ {x}) \ {y}] \in Nat
        BY <4>3
      <4> QED BY <3>1, <3>2, <4>1, <4>2, <4>3, <4>4
    <3>5. f[s] \in Nat
      BY <3>1, <3>2, <3>3
    <3> QED BY <3>2, <3>4, <3>5
  <2> QED BY <2>1, <2>2
<1>3. N = Nat
  <2> HIDE DEF N
  <2>1. N \in SUBSET Nat
    BY DEF N
  <2> QED BY <1>1, <1>2, <2>1, SetInduction
<1>4. \A s \in SUBSET D : s \in UpTo(D, Cardinality(D)) /\ Cardinality(D) \in Nat
  BY UpToFacts, FS_CardinalityType
<1> QED BY <1>3, <1>4

LEMMA IterationsAgree ==
    ASSUME NEW D, NEW E, NEW f, NEW g, NEW w, NEW v, IsFiniteSet(D), Iterates(f, w, D), Iterates(g, v, E),
           D \subseteq E, \A x \in D : w[x] = v[x]
    PROVE  f[D] = g[D]
<1> DEFINE N == {n \in Nat : \A s \in UpTo(D, n) : f[s] = g[s]}
<1>0. \A s \in SUBSET D : f[s] = Iterated(f, w, s) /\ g[s] = Iterated(g, v, s)
  BY DEF Iterates
<1>1. 0 \in N
  BY <1>0, UpToFacts DEF Iterated
<1>2. ASSUME NEW n \in N PROVE n + 1 \in N
  <2> SUFFICES ASSUME NEW s \in UpTo(D, n + 1) PROVE f[s] = g[s]
    OBVIOUS
  <2>1. CASE s = {}
    BY <2>1, <1>0 DEF Iterated
  <2>2. CASE s # {}
    <3>1. s \in SUBSET D /\ Chosen(s) \in D /\ s \ {Chosen(s)} \in UpTo(D, n)
      BY <2>2, ChosenElement, UpToFacts DEF UpTo
    <3> QED BY <2>2, <3>1, <1>0 DEF Iterated
  <2> QED BY <2>1, <2>2
<1>3. N = Nat
  <2> HIDE DEF N
  <2>1. N \in SUBSET Nat
    BY DEF N
  <2> QED BY <1>1, <1>2, <2>1, SetInduction
<1>4. D \in UpTo(D, Cardinality(D)) /\ Cardinality(D) \in Nat
  BY UpToFacts, FS_CardinalityType
<1> QED BY <1>3, <1>4

LEMMA SumUnfolded ==
    ASSUME NEW D, IsFiniteSet(D), NEW w, \A x \in D : w[x] \in Nat
    PROVE  \E f : Iterates(f, w, D) /\ SumFunctionOnSet(w, D) = f[D]
<1> DEFINE iter == CHOOSE f : Iterates(f, w, D)
<1>1. Iterates(iter, w, D)
  BY IterationExists
<1>2. SumFunctionOnSet(w, D) = iter[D]
  BY DEF SumFunctionOnSet, FoldFunctionOnSet, MapThenFoldSet, Iterates, Iterated, Chosen
<1> QED BY <1>1, <1>2

LEMMA SumEmpty == ASSUME NEW w PROVE SumFunctionOnSet(w, {}) = 0
<1>1. PICK f : Iterates(f, w, {}) /\ SumFunctionOnSet(w, {}) = f[{}]
  BY SumUnfolded, FS_EmptySet
<1> QED BY <1>1 DEF Iterates, Iterated

LEMMA SumSame ==
    ASSUME NEW D, IsFiniteSet(D), NEW w, NEW v, \A x \in D : w[x] \in Nat /\ w[x] = v[x]
    PROVE  SumFunctionOnSet(w, D) = SumFunctionOnSet(v, D)
<1>1. PICK f : Iterates(f, w, D) /\ SumFunctionOnSet(w, D) = f[D]
  BY SumUnfolded
<1>2. PICK g : Iterates(g, v, D) /\ SumFunctionOnSet(v, D) = g[D]
  BY SumUnfolded
<1>3. f[D] = g[D]
  BY <1>1, <1>2, IterationsAgree
<1> QED BY <1>1, <1>2, <1>3

LEMMA SumElement ==
    ASSUME NEW D, IsFiniteSet(D), NEW w, \A x \in D : w[x] \in Nat
    PROVE  /\ SumFunctionOnSet(w, D) \in Nat
           /\ \A y \in D : SumFunctionOnSet(w, D) = w[y] + SumFunctionOnSet(w, D \ {y})
<1>1. PICK f : Iterates(f, w, D) /\ SumFunctionOnSet(w, D) = f[D]
  BY SumUnfolded
<1>2. f[D] \in Nat /\ \A y \in D : f[D] = w[y] + f[D \ {y}]
  BY <1>1, IterationFacts
<1>3. ASSUME NEW y \in D PROVE SumFunctionOnSet(w, D \ {y}) = f[D \ {y}]
  <2>1. IsFiniteSet(D \ {y})
    BY FS_Subset
  <2>2. PICK g : Iterates(g, w, D \ {y}) /\ SumFunctionOnSet(w, D \ {y}) = g[D \ {y}]
    BY <2>1, SumUnfolded
  <2>3. g[D \ {y}] = f[D \ {y}]
    BY <1>1, <2>1, <2>2, IterationsAgree
  <2> QED BY <2>2, <2>3
<1> QED BY <1>1, <1>2, <1>3

(* With and without one element. *)
LEMMA SumWithout ==
    ASSUME NEW S, IsFiniteSet(S), NEW w \in [S -> Nat], NEW A \in SUBSET S, NEW p
    PROVE  /\ SumFunctionOnSet(w, A \ {p}) \in Nat
           /\ SumFunctionOnSet(w, A) = SumFunctionOnSet(w, A \ {p}) + (IF p \in A THEN w[p] ELSE 0)
<1>1. IsFiniteSet(A) /\ IsFiniteSet(A \ {p})
  BY FS_Subset
<1>2. SumFunctionOnSet(w, A \ {p}) \in Nat
  BY <1>1, SumElement
<1>3. CASE p \in A
  <2>1. SumFunctionOnSet(w, A) = w[p] + SumFunctionOnSet(w, A \ {p}) /\ w[p] \in Nat
    BY <1>1, <1>3, SumElement
  <2> QED BY <1>2, <1>3, <2>1
<1>4. CASE p \notin A
  <2>1. A \ {p} = A
    BY <1>4
  <2> QED BY <1>2, <1>4, <2>1
<1> QED BY <1>2, <1>3, <1>4

(* A block without addresses has none of any handle. *)
LEMMA TotalIsZero ==
    ASSUME NEW used \in [Handles -> Nat], ~ (Total(used) > 0)
    PROVE  \A i \in Handles : used[i] = 0
<1> SUFFICES ASSUME NEW i \in Handles PROVE used[i] = 0
  OBVIOUS
<1>1. Total(used) = SumFunctionOnSet(used, Handles)
  BY DEF Total, SumFunction
<1>2. /\ SumFunctionOnSet(used, Handles \ {i}) \in Nat
      /\ SumFunctionOnSet(used, Handles) = SumFunctionOnSet(used, Handles \ {i}) + used[i]
  BY SumWithout, StoreAssumption
<1>3. used[i] \in Nat
  OBVIOUS
<1> QED BY <1>1, <1>2, <1>3

-----------------------------------------------------------------------------
(* The blocks and the index.  A block that is about to be deleted was seen *)
(* to hold no address.                                                     *)
Counted(i, b) == IF entries[HandleKey(i)] = Absent THEN 0 ELSE entries[HandleKey(i)].value.count[b]
Drained(p) == pc[p] = "delete" => \A i \in Handles : read[p].other.value.used[i] = 0

IndexInv ==
    /\ torn \in [Handles -> [Blocks -> Nat]]
    /\ \A p \in Procs : Drained(p)
    /\ IndexFollowsBlocks

LEMMA NumberTypes ==
    ASSUME NEW i \in Handles, NEW b \in Blocks
    PROVE  /\ StoreTypes => UsedIn(b, i) \in Nat /\ Counted(i, b) \in Nat
           /\ StoreTypes' => UsedIn(b, i)' \in Nat /\ Counted(i, b)' \in Nat
<1>1. StoreTypes => UsedIn(b, i) \in Nat /\ Counted(i, b) \in Nat
  BY DEF StoreTypes, UsedIn, Counted, AllocationBlock, IpamHandle
<1>2. StoreTypes' => UsedIn(b, i)' \in Nat /\ Counted(i, b)' \in Nat
  BY DEF StoreTypes, UsedIn, Counted, AllocationBlock, IpamHandle
<1> QED BY <1>1, <1>2

(* What a process is about to count; the others' share stays as it steps.  *)
Own(i, b, p) == IF pc[p] = "index" /\ HandleOf[p] = i /\ Block(p) = b THEN walk[p].taken ELSE 0

LEMMA PendingOfOthers ==
    ASSUME OwnerInv, OwnerInv', NEW p \in Procs, \A q \in Procs \ {p} : Same(q),
           NEW i \in Handles, NEW b \in Blocks
    PROVE  /\ Own(i, b, p) \in Nat /\ Own(i, b, p)' \in Nat
           /\ \E n \in Nat : /\ Pending(i, b) = n + Own(i, b, p)
                             /\ Pending(i, b)' = n + Own(i, b, p)'
<1> DEFINE w == [q \in Procs |-> walk[q].taken]
           v == [q \in Procs |-> walk'[q].taken]
           A == {q \in Procs : pc[q] = "index" /\ HandleOf[q] = i /\ Block(q) = b}
           B == {q \in Procs : pc'[q] = "index" /\ HandleOf[q] = i /\ Block(q)' = b}
<1>1. w \in [Procs -> Nat] /\ v \in [Procs -> Nat]
  BY DEF OwnerInv, ProcessTypes, Walks
<1>2. /\ Pending(i, b) = SumFunctionOnSet(w, A) /\ Pending(i, b)' = SumFunctionOnSet(v, B)
      /\ Own(i, b, p) = (IF p \in A THEN w[p] ELSE 0)
      /\ Own(i, b, p)' = (IF p \in B THEN v[p] ELSE 0)
  BY DEF Pending, Own
<1>3. A \ {p} = B \ {p} /\ \A q \in A \ {p} : w[q] = v[q]
  BY DEF Same, Block
<1> HIDE DEF w, v
<1>4. /\ A \in SUBSET Procs /\ B \in SUBSET Procs /\ IsFiniteSet(Procs) /\ IsFiniteSet(A \ {p})
  BY ProcsAssumption, FS_Subset
<1> HIDE DEF A, B
<1>5. SumFunctionOnSet(w, A \ {p}) = SumFunctionOnSet(v, B \ {p})
  <2>1. \A q \in A \ {p} : w[q] \in Nat /\ w[q] = v[q]
    BY <1>1, <1>3, <1>4
  <2> QED BY <1>3, <1>4, <2>1, SumSame
<1>6. /\ SumFunctionOnSet(w, A \ {p}) \in Nat
      /\ SumFunctionOnSet(w, A) = SumFunctionOnSet(w, A \ {p}) + (IF p \in A THEN w[p] ELSE 0)
  BY <1>1, <1>4, SumWithout
<1>7. SumFunctionOnSet(v, B) = SumFunctionOnSet(v, B \ {p}) + (IF p \in B THEN v[p] ELSE 0)
  BY <1>1, <1>4, SumWithout
<1> QED BY <1>1, <1>2, <1>4, <1>5, <1>6, <1>7

(* A step that keeps the books. *)
Balanced(i, b, p) ==
    UsedIn(b, i)' + Counted(i, b) + torn[i][b] + Own(i, b, p)
        = UsedIn(b, i) + Counted(i, b)' + torn'[i][b] + Own(i, b, p)'

LEMMA BalancedKeeps ==
    ASSUME OwnerInv, OwnerInv', IndexInv, NEW p \in Procs, \A q \in Procs \ {p} : Same(q),
           torn' \in [Handles -> [Blocks -> Nat]], Drained(p)',
           \A i \in Handles, b \in Blocks : Balanced(i, b, p)
    PROVE  IndexInv'
<1>1. \A q \in Procs : Drained(q)'
  BY DEF IndexInv, Drained, Same
<1>2. ASSUME NEW i \in Handles, NEW b \in Blocks
      PROVE  UsedIn(b, i)' = Counted(i, b)' + torn'[i][b] + Pending(i, b)'
  <2>1. /\ UsedIn(b, i) \in Nat /\ Counted(i, b) \in Nat
        /\ UsedIn(b, i)' \in Nat /\ Counted(i, b)' \in Nat
    BY NumberTypes DEF OwnerInv
  <2>2. torn[i][b] \in Nat /\ torn'[i][b] \in Nat
    BY DEF IndexInv
  <2>3. /\ Own(i, b, p) \in Nat /\ Own(i, b, p)' \in Nat
        /\ \E n \in Nat : /\ Pending(i, b) = n + Own(i, b, p)
                          /\ Pending(i, b)' = n + Own(i, b, p)'
    BY PendingOfOthers
  <2>4. UsedIn(b, i) = Counted(i, b) + torn[i][b] + Pending(i, b)
    BY DEF IndexInv, IndexFollowsBlocks, Counted
  <2>5. UsedIn(b, i)' + Counted(i, b) + torn[i][b] + Own(i, b, p)
            = UsedIn(b, i) + Counted(i, b)' + torn'[i][b] + Own(i, b, p)'
    BY DEF Balanced
  <2> HIDE DEF UsedIn, Counted, Own, Pending
  <2> QED BY <2>1, <2>2, <2>3, <2>4, <2>5
<1>3. IndexFollowsBlocks'
  BY <1>2 DEF IndexFollowsBlocks, Counted
<1> QED BY <1>1, <1>3 DEF IndexInv

(* A step that changes no block, no handle and no share. *)
LEMMA QuietKeeps ==
    ASSUME OwnerInv, OwnerInv', IndexInv, NEW p \in Procs, \A q \in Procs \ {p} : Same(q),
           pc[p] # "index", pc'[p] # "index", Drained(p)', UNCHANGED torn,
           \A b \in Blocks, i \in Handles :
               UsedIn(b, i)' = UsedIn(b, i) /\ Counted(i, b)' = Counted(i, b)
    PROVE  IndexInv'
<1>1. \A i \in Handles, b \in Blocks : Own(i, b, p) = 0 /\ Own(i, b, p)' = 0
  BY DEF Own
<1>2. \A i \in Handles, b \in Blocks : Balanced(i, b, p)
  BY <1>1 DEF Balanced
<1> QED BY <1>2, BalancedKeeps DEF IndexInv

LEMMA AffinityStepKeeps ==
    ASSUME OwnerInv, OwnerInv', IndexInv, NEW p \in Procs, \A q \in Procs \ {p} : Same(q),
           pc[p] # "index", pc'[p] \notin {"index", "delete"}, UNCHANGED torn,
           \A k \in AllKeys : entries'[k] = entries[k] \/ k = Mine(p),
           Mine(p) \in {Affinity(h, b) : h \in Hosts, b \in Blocks} \/ entries' = entries
    PROVE  IndexInv'
<1>1. /\ \A b \in Blocks : entries'[BlockKey(b)] = entries[BlockKey(b)]
      /\ \A i \in Handles : entries'[HandleKey(i)] = entries[HandleKey(i)]
  BY KeyFacts
<1>2. \A b \in Blocks, i \in Handles :
          UsedIn(b, i)' = UsedIn(b, i) /\ Counted(i, b)' = Counted(i, b)
  BY <1>1 DEF UsedIn, Counted
<1> QED BY <1>2, QuietKeeps DEF Drained

LEMMA ValueWritten ==
    ASSUME OwnerInv, NEW k \in AllKeys, NEW v \in AllValues, Bump(k, v)
    PROVE  /\ entries'[k] # Absent /\ entries'[k].value = v
           /\ \A x \in AllKeys \ {k} : entries'[x] = entries[x]
<1>1. /\ entries'[k] = [value |-> v, revision |-> next_revision] /\ entries'[k] # Absent
      /\ \A x \in AllKeys \ {k} : entries'[x] = entries[x]
  BY OneKeyWritten
<1> QED BY <1>1

LEMMA Arrives ==
    ASSUME OwnerInv, NEW p \in Procs
    PROVE  /\ Done(p) => pc'[p] = "idle"
           /\ \A step \in Steps : To(p, step) => pc'[p] = step
BY DEF OwnerInv, ProcessTypes, Done, To, Steps

(* The steps that look, claim or announce. *)
LEMMA AsideKeeps ==
    ASSUME OwnerInv, OwnerInv', IndexInv, NEW p \in Procs, \A q \in Procs \ {p} : Same(q),
           \/ Scan(p) \/ ClaimPending(p) \/ Confirm(p) \/ GetBlock(p) \/ BeginDeletion(p)
           \/ DeleteAffinity(p) \/ (Interrupted(p) /\ pc[p] # "index")
           \/ \E j \in JobsOf[p] : Start(p, j)
    PROVE  IndexInv'
<1>1. CASE Scan(p)
  <2>1. /\ pc[p] = "scan" /\ UNCHANGED <<entries, torn>>
        /\ Done(p) \/ To(p, "claim") \/ To(p, "take") \/ UNCHANGED pc
    BY <1>1 DEF Scan, NextPass, Keep, history, casVars
  <2>2. pc'[p] \notin {"index", "delete"}
    BY <2>1, Arrives DEF Steps
  <2> QED BY <2>1, <2>2, AffinityStepKeeps
<1>2. CASE ClaimPending(p)
  <2>1. /\ pc[p] = "claim" /\ To(p, "own") /\ UNCHANGED torn
        /\ UNCHANGED entries \/ entries' = [entries EXCEPT ![Mine(p)] = Stamped([state |-> "pending"])]
    BY <1>2 DEF ClaimPending, Create, Bump, Keep, history, casVars
  <2>2. AtHand(p)
    BY <2>1, AtWork
  <2>3. pc'[p] \notin {"index", "delete"}
    BY <2>1, Arrives DEF Steps
  <2> QED BY <2>1, <2>2, <2>3, AffinityStepKeeps DEF AtHand
<1>3. CASE Confirm(p)
  <2>1. /\ pc[p] = "confirm" /\ (Done(p) \/ To(p, "take")) /\ UNCHANGED torn
        /\ entries' = [entries EXCEPT ![Mine(p)] = Stamped([state |-> "confirmed"])]
    BY <1>3 DEF Confirm, Update, Bump, Claimed, Keep, history
  <2>2. AtHand(p)
    BY <2>1, AtWork
  <2>3. pc'[p] \notin {"index", "delete"}
    BY <2>1, Arrives DEF Steps
  <2> QED BY <2>1, <2>2, <2>3, AffinityStepKeeps DEF AtHand
<1>4. CASE GetBlock(p)
  <2>1. /\ pc[p] = "take" /\ UNCHANGED <<entries, torn>>
        /\ To(p, "scan") \/ To(p, "put")
    BY <1>4 DEF GetBlock, Keep, history, casVars
  <2>2. pc'[p] \notin {"index", "delete"}
    BY <2>1, Arrives DEF Steps
  <2> QED BY <2>1, <2>2, AffinityStepKeeps
<1>5. CASE BeginDeletion(p)
  <2>1. /\ pc[p] = "release" /\ (Done(p) \/ To(p, "empty")) /\ UNCHANGED torn
        /\ \/ UNCHANGED entries
           \/ entries' = [entries EXCEPT ![Mine(p)] = Stamped([state |-> "pendingDeletion"])]
    BY <1>5 DEF BeginDeletion, Bump, Keep, history, casVars
  <2>2. AtHand(p)
    BY <2>1, AtWork
  <2>3. pc'[p] \notin {"index", "delete"}
    BY <2>1, Arrives DEF Steps
  <2> QED BY <2>1, <2>2, <2>3, AffinityStepKeeps DEF AtHand
<1>6. CASE DeleteAffinity(p)
  <2>1. /\ pc[p] = "drop" /\ Done(p) /\ UNCHANGED torn
        /\ entries' = [entries EXCEPT ![Mine(p)] = Absent]
    BY <1>6 DEF DeleteAffinity, Delete, Keep, history
  <2>2. AtHand(p)
    BY <2>1, AtWork
  <2>3. pc'[p] \notin {"index", "delete"}
    BY <2>1, Arrives
  <2> QED BY <2>1, <2>2, <2>3, AffinityStepKeeps DEF AtHand
<1>7. CASE Interrupted(p) /\ pc[p] # "index"
  <2>1. Done(p) /\ UNCHANGED <<entries, torn>>
    BY <1>7 DEF Interrupted, casVars
  <2> QED BY <1>7, <2>1, Arrives, AffinityStepKeeps
<1>8. CASE \E j \in JobsOf[p] : Start(p, j)
  <2>1. PICK j \in Jobs : /\ UNCHANGED <<entries, torn>> /\ pc[p] = "idle"
                          /\ To(p, IF j.op = "assign" THEN "scan" ELSE j.op)
    BY <1>8, ProcsAssumption DEF Start, casVars, history
  <2>2. pc'[p] \in {"scan", "claim", "release"}
    BY <2>1, Arrives DEF Jobs, Steps
  <2> QED BY <2>1, <2>2, AffinityStepKeeps
<1> QED BY <1>1, <1>2, <1>3, <1>4, <1>5, <1>6, <1>7, <1>8

(* A new block is empty; one that is about to be deleted was seen empty,   *)
(* and has not been written since.                                         *)
LEMMA EnsureBlockOwnedKeeps ==
    ASSUME OwnerInv, OwnerInv', IndexInv, NEW p \in Procs, \A q \in Procs \ {p} : Same(q),
           EnsureBlockOwned(p)
    PROVE  IndexInv'
<1>1. /\ pc[p] = "own" /\ UNCHANGED torn
      /\ Done(p) \/ To(p, "take") \/ To(p, "confirm")
      /\ \/ UNCHANGED entries
         \/ /\ entries[Theirs(p)] = Absent
            /\ Bump(Theirs(p), [owner |-> HostOf[p], used |-> [i \in Handles |-> 0]])
  BY DEF EnsureBlockOwned, BlockIsOurs, Claimed, Create, Keep, history, casVars
<1>2. AtHand(p) /\ pc'[p] \notin {"index", "delete"}
  BY <1>1, AtWork, Arrives DEF Steps
<1>3. CASE UNCHANGED entries
  BY <1>1, <1>2, <1>3, AffinityStepKeeps
<1>4. CASE /\ entries[BlockKey(Block(p))] = Absent
           /\ Bump(BlockKey(Block(p)), [owner |-> HostOf[p], used |-> [i \in Handles |-> 0]])
  <2> DEFINE v == [owner |-> HostOf[p], used |-> [i \in Handles |-> 0]]
  <2>1. v \in AllocationBlock /\ v \in AllValues /\ BlockKey(Block(p)) \in AllKeys
    BY <1>2, StoredFacts DEF AtHand, AllocationBlock
  <2>2. /\ entries'[BlockKey(Block(p))] # Absent /\ entries'[BlockKey(Block(p))].value = v
        /\ \A x \in AllKeys \ {BlockKey(Block(p))} : entries'[x] = entries[x]
    BY <1>4, <2>1, ValueWritten
  <2>3. \A b \in Blocks, i \in Handles :
            UsedIn(b, i)' = UsedIn(b, i) /\ Counted(i, b)' = Counted(i, b)
    BY <1>2, <1>4, <2>2, KeyFacts DEF UsedIn, Counted, AtHand
  <2> QED BY <1>1, <1>2, <2>3, QuietKeeps DEF Drained
<1> QED BY <1>1, <1>2, <1>3, <1>4 DEF AtHand

LEMMA CheckEmptyKeeps ==
    ASSUME OwnerInv, OwnerInv', IndexInv, NEW p \in Procs, \A q \in Procs \ {p} : Same(q),
           CheckEmpty(p)
    PROVE  IndexInv'
<1> DEFINE e == entries[Theirs(p)]
<1>1. /\ pc[p] = "empty" /\ UNCHANGED <<entries, torn>>
      /\ \/ Done(p) \/ To(p, "drop")
         \/ /\ e # Absent /\ ~ (Total(e.value.used) > 0)
            /\ To(p, "delete") /\ read' = [read EXCEPT ![p].other = e]
  BY DEF CheckEmpty, Keep, history, casVars
<1>2. AtHand(p)
  BY <1>1, AtWork
<1>3. CASE Done(p) \/ To(p, "drop")
  BY <1>1, <1>3, Arrives, AffinityStepKeeps DEF Steps
<1>4. CASE /\ e # Absent /\ ~ (Total(e.value.used) > 0)
           /\ To(p, "delete") /\ read' = [read EXCEPT ![p].other = e]
  <2>1. e.value.used \in [Handles -> Nat]
    BY <1>2, <1>4 DEF AtHand, OwnerInv, StoreTypes, AllocationBlock
  <2>2. \A i \in Handles : e.value.used[i] = 0
    BY <1>4, <2>1, TotalIsZero
  <2>3. pc'[p] = "delete" /\ read'[p].other = e
    BY <1>2, <1>4, Arrives DEF Steps, AtHand
  <2>4. \A b \in Blocks, i \in Handles :
            UsedIn(b, i)' = UsedIn(b, i) /\ Counted(i, b)' = Counted(i, b)
    BY <1>1 DEF UsedIn, Counted
  <2>5. Drained(p)'
    BY <2>2, <2>3 DEF Drained
  <2> QED BY <1>1, <2>3, <2>4, <2>5, QuietKeeps
<1> QED BY <1>1, <1>3, <1>4

LEMMA DeleteBlockKeeps ==
    ASSUME OwnerInv, OwnerInv', IndexInv, NEW p \in Procs, \A q \in Procs \ {p} : Same(q),
           DeleteBlock(p)
    PROVE  IndexInv'
<1>1. /\ pc[p] = "delete" /\ To(p, "drop") /\ UNCHANGED torn
      /\ Current(Theirs(p), read[p].other.revision)
      /\ entries' = [entries EXCEPT ![Theirs(p)] = Absent]
  BY DEF DeleteBlock, Delete, Removed
<1>2. AtHand(p) /\ pc'[p] \notin {"index", "delete"}
  BY <1>1, AtWork, Arrives DEF Steps
<1>3. /\ entries[BlockKey(Block(p))] = read[p].other /\ entries[BlockKey(Block(p))] # Absent
      /\ entries' = [entries EXCEPT ![BlockKey(Block(p))] = Absent] /\ Block(p) \in Blocks
  BY <1>1, <1>2 DEF AtHand, OwnerInv, Copied, Current
<1>4. \A i \in Handles : read[p].other.value.used[i] = 0
  BY <1>1 DEF IndexInv, Drained
<1>5. \A b \in Blocks, i \in Handles :
          UsedIn(b, i)' = UsedIn(b, i) /\ Counted(i, b)' = Counted(i, b)
  BY <1>2, <1>3, <1>4, KeyFacts DEF UsedIn, Counted, AtHand
<1> QED BY <1>1, <1>2, <1>5, QuietKeeps DEF Drained

(* The two writes of an assignment, and a call that ends between them. *)
LEMMA PutBlockKeeps ==
    ASSUME OwnerInv, OwnerInv', IndexInv, NEW p \in Procs, \A q \in Procs \ {p} : Same(q),
           PutBlock(p)
    PROVE  IndexInv'
<1> DEFINE e == read[p].other
           h == HandleOf[p]
           c == Block(p)
           v == [e.value EXCEPT !.used[h] = @ + walk[p].taken]
<1>1. /\ pc[p] = "put" /\ To(p, "index") /\ UNCHANGED <<job, walk, torn>>
      /\ Current(Theirs(p), e.revision) /\ Bump(Theirs(p), v)
  BY DEF PutBlock, Update, Keep, history
<1>2. AtHand(p) /\ pc'[p] = "index"
  BY <1>1, AtWork, Arrives DEF Steps
<1>3. /\ e = entries[BlockKey(c)] /\ e # Absent /\ Theirs(p) = BlockKey(c)
      /\ e.value \in AllocationBlock /\ walk[p].taken \in Nat /\ c \in Blocks /\ h \in Handles
      /\ BlockKey(c) \in AllKeys
  BY <1>1, <1>2 DEF AtHand, OwnerInv, Copied, Current, StoreTypes, Walks
<1>4. /\ v \in AllocationBlock /\ v \in AllValues
      /\ v.used[h] = e.value.used[h] + walk[p].taken
      /\ \A i \in Handles \ {h} : v.used[i] = e.value.used[i]
  BY <1>3, StoredFacts DEF AllocationBlock
<1> HIDE DEF v
<1>5. /\ entries'[BlockKey(c)] # Absent /\ entries'[BlockKey(c)].value = v
      /\ \A x \in AllKeys \ {BlockKey(c)} : entries'[x] = entries[x]
  BY <1>1, <1>3, <1>4, ValueWritten DEF v
<1>6. \A i \in Handles, b \in Blocks :
          /\ Counted(i, b)' = Counted(i, b)
          /\ UsedIn(b, i)' = UsedIn(b, i) + (IF i = h /\ b = c THEN walk[p].taken ELSE 0)
  <2> TAKE i \in Handles, b \in Blocks
  <2>1. entries'[HandleKey(i)] = entries[HandleKey(i)]
        /\ (b # c => entries'[BlockKey(b)] = entries[BlockKey(b)])
    BY <1>3, <1>5, KeyFacts
  <2>2. UsedIn(b, i) \in Nat
    BY NumberTypes DEF OwnerInv
  <2>3. CASE b = c
    BY <2>1, <2>2, <2>3, <1>3, <1>4, <1>5 DEF UsedIn, Counted
  <2>4. CASE b # c
    BY <2>1, <2>2, <2>4 DEF UsedIn, Counted
  <2> QED BY <2>3, <2>4
<1>7. \A i \in Handles, b \in Blocks :
          /\ Own(i, b, p) = 0
          /\ Own(i, b, p)' = IF i = h /\ b = c THEN walk[p].taken ELSE 0
  BY <1>1, <1>2 DEF Own, Block
<1>8. ASSUME NEW i \in Handles, NEW b \in Blocks PROVE Balanced(i, b, p)
  <2>1. /\ UsedIn(b, i) \in Nat /\ Counted(i, b) \in Nat /\ torn[i][b] \in Nat
        /\ torn'[i][b] = torn[i][b]
    BY <1>1, NumberTypes DEF OwnerInv, IndexInv
  <2> DEFINE n == IF i = h /\ b = c THEN walk[p].taken ELSE 0
  <2>2. n \in Nat
    BY <1>3
  <2>3. /\ UsedIn(b, i)' = UsedIn(b, i) + n /\ Counted(i, b)' = Counted(i, b)
        /\ Own(i, b, p) = 0 /\ Own(i, b, p)' = n
    BY <1>6, <1>7
  <2> HIDE DEF n
  <2> QED BY <2>1, <2>2, <2>3 DEF Balanced
<1> QED BY <1>1, <1>2, <1>8, BalancedKeeps DEF Drained, IndexInv

LEMMA PutHandleKeeps ==
    ASSUME OwnerInv, OwnerInv', IndexInv, NEW p \in Procs, \A q \in Procs \ {p} : Same(q),
           PutHandle(p)
    PROVE  IndexInv'
<1> DEFINE h == HandleOf[p]
           c == Block(p)
           e == entries[HandleKey(h)]
           v == Incremented(e, c, walk[p].taken)
<1>1. pc[p] = "index" /\ To(p, "scan") /\ UNCHANGED torn
      /\ Bump(Counts(p), Incremented(entries[Counts(p)], c, walk[p].taken))
  BY DEF PutHandle, Keep, history
<1>2. AtHand(p) /\ pc'[p] = "scan"
  BY <1>1, AtWork, Arrives DEF Steps
<1>3. /\ walk[p].taken \in Nat /\ c \in Blocks /\ h \in Handles /\ HandleKey(h) \in AllKeys
      /\ Counts(p) = HandleKey(h) /\ (e # Absent => e.value \in IpamHandle)
  BY <1>2 DEF AtHand, OwnerInv, StoreTypes, Walks
<1>4. /\ v \in IpamHandle /\ v \in AllValues
      /\ v.count[c] = Counted(h, c) + walk[p].taken
      /\ \A b \in Blocks \ {c} : v.count[b] = Counted(h, b)
  <2>1. CASE e = Absent
    BY <1>3, <2>1, StoredFacts DEF Incremented, IpamHandle, Counted
  <2>2. CASE e # Absent
    BY <1>3, <2>2, StoredFacts DEF Incremented, IpamHandle, Counted
  <2> QED BY <2>1, <2>2
<1> HIDE DEF v
<1>5. /\ entries'[HandleKey(h)] # Absent /\ entries'[HandleKey(h)].value = v
      /\ \A x \in AllKeys \ {HandleKey(h)} : entries'[x] = entries[x]
  BY <1>1, <1>3, <1>4, ValueWritten DEF v
<1>6. \A i \in Handles, b \in Blocks :
          /\ UsedIn(b, i)' = UsedIn(b, i)
          /\ Counted(i, b)' = Counted(i, b) + (IF i = h /\ b = c THEN walk[p].taken ELSE 0)
  <2> TAKE i \in Handles, b \in Blocks
  <2>1. entries'[BlockKey(b)] = entries[BlockKey(b)]
        /\ (i # h => entries'[HandleKey(i)] = entries[HandleKey(i)])
    BY <1>3, <1>5, KeyFacts DEF HandleKey
  <2>2. Counted(i, b) \in Nat
    BY NumberTypes DEF OwnerInv
  <2>3. CASE i = h
    BY <2>1, <2>2, <2>3, <1>3, <1>4, <1>5 DEF UsedIn, Counted
  <2>4. CASE i # h
    BY <2>1, <2>2, <2>4 DEF UsedIn, Counted
  <2> QED BY <2>3, <2>4
<1>7. \A i \in Handles, b \in Blocks :
          /\ Own(i, b, p)' = 0
          /\ Own(i, b, p) = IF i = h /\ b = c THEN walk[p].taken ELSE 0
  BY <1>1, <1>2 DEF Own
<1>8. ASSUME NEW i \in Handles, NEW b \in Blocks PROVE Balanced(i, b, p)
  <2>1. /\ UsedIn(b, i) \in Nat /\ Counted(i, b) \in Nat /\ torn[i][b] \in Nat
        /\ torn'[i][b] = torn[i][b]
    BY <1>1, NumberTypes DEF OwnerInv, IndexInv
  <2> DEFINE n == IF i = h /\ b = c THEN walk[p].taken ELSE 0
  <2>2. n \in Nat
    BY <1>3
  <2>3. /\ UsedIn(b, i)' = UsedIn(b, i) /\ Counted(i, b)' = Counted(i, b) + n
        /\ Own(i, b, p) = n /\ Own(i, b, p)' = 0
    BY <1>6, <1>7
  <2> HIDE DEF n
  <2> QED BY <2>1, <2>2, <2>3 DEF Balanced
<1> QED BY <1>1, <1>2, <1>8, BalancedKeeps DEF Drained, IndexInv

LEMMA TornKeeps ==
    ASSUME OwnerInv, OwnerInv', IndexInv, NEW p \in Procs, \A q \in Procs \ {p} : Same(q),
           Interrupted(p), pc[p] = "index"
    PROVE  IndexInv'
<1> DEFINE h == HandleOf[p]
           c == Block(p)
<1>1. /\ Done(p) /\ UNCHANGED entries
      /\ torn' = [torn EXCEPT ![h][c] = @ + walk[p].taken]
  BY DEF Interrupted, casVars
<1>2. AtHand(p) /\ pc'[p] = "idle"
  BY <1>1, AtWork, Arrives DEF Steps
<1>3. walk[p].taken \in Nat /\ c \in Blocks /\ h \in Handles
  BY <1>2 DEF AtHand, Walks
<1>4. /\ torn' \in [Handles -> [Blocks -> Nat]] /\ torn'[h][c] = torn[h][c] + walk[p].taken
      /\ \A i \in Handles, b \in Blocks : i # h \/ b # c => torn'[i][b] = torn[i][b]
  BY <1>1, <1>3 DEF IndexInv
<1>5. \A i \in Handles, b \in Blocks :
          /\ UsedIn(b, i)' = UsedIn(b, i) /\ Counted(i, b)' = Counted(i, b)
          /\ Own(i, b, p)' = 0
          /\ Own(i, b, p) = IF i = h /\ b = c THEN walk[p].taken ELSE 0
  BY <1>1, <1>2 DEF Own, UsedIn, Counted
<1>6. ASSUME NEW i \in Handles, NEW b \in Blocks PROVE Balanced(i, b, p)
  <2>1. UsedIn(b, i) \in Nat /\ Counted(i, b) \in Nat /\ torn[i][b] \in Nat
    BY NumberTypes DEF OwnerInv, IndexInv
  <2> HIDE DEF c, h
  <2>2. CASE i = h /\ b = c
    BY <2>1, <2>2, <1>3, <1>4, <1>5 DEF Balanced
  <2>3. CASE i # h \/ b # c
    BY <2>1, <2>3, <1>4, <1>5 DEF Balanced
  <2> QED BY <2>2, <2>3
<1> QED BY <1>2, <1>4, <1>6, BalancedKeeps DEF Drained

-----------------------------------------------------------------------------
LEMMA InitIndex == Init => IndexInv
<1> SUFFICES ASSUME Init PROVE IndexInv
  OBVIOUS
<1>1. /\ torn = [i \in Handles |-> [b \in Blocks |-> 0]] /\ pc = [p \in Procs |-> "idle"]
      /\ entries = [k \in AllKeys |-> IF Preset[k] = Absent THEN Absent
                                      ELSE [value |-> Preset[k], revision |-> 1]]
  BY StoreAssumption DEF Init, CasInit
<1>2. \A i \in Handles, b \in Blocks : UsedIn(b, i) = 0 /\ Counted(i, b) = 0
  BY <1>1, StartAssumption, KeyFacts DEF UsedIn, Counted
<1>3. ASSUME NEW i \in Handles, NEW b \in Blocks PROVE Pending(i, b) = 0
  <2>1. {p \in Procs : pc[p] = "index" /\ HandleOf[p] = i /\ Block(p) = b} = {}
    BY <1>1
  <2> QED BY <2>1, SumEmpty DEF Pending
<1>4. IndexFollowsBlocks
  BY <1>1, <1>2, <1>3 DEF IndexFollowsBlocks, Counted
<1> QED BY <1>1, <1>4 DEF IndexInv, Drained

LEMMA StepIndex == OwnerInv /\ IndexInv /\ [Next]_vars => IndexInv'
<1> SUFFICES ASSUME OwnerInv, IndexInv, [Next]_vars PROVE IndexInv'
  OBVIOUS
<1>0. OwnerInv'
  BY StepOwner
<1>1. ASSUME NEW p \in Procs, Call(p) PROVE IndexInv'
  <2>1. \A q \in Procs \ {p} : Same(q)
    BY <1>1, ScanMoves, ClaimPendingMoves, EnsureBlockOwnedMoves, ConfirmMoves, GetBlockMoves,
       PutBlockMoves, PutHandleMoves, BeginDeletionMoves, CheckEmptyMoves, DeleteBlockMoves,
       DeleteAffinityMoves DEF Call, Moves
  <2> QED BY <1>0, <1>1, <2>1, AsideKeeps, EnsureBlockOwnedKeeps, CheckEmptyKeeps, DeleteBlockKeeps,
             PutBlockKeeps, PutHandleKeeps DEF Call
<1>2. ASSUME NEW p \in Procs, Interrupted(p) PROVE IndexInv'
  BY <1>0, <1>2, InterruptedMoves, AsideKeeps, TornKeeps DEF Moves
<1>3. ASSUME NEW p \in Procs, NEW j \in JobsOf[p], Start(p, j) PROVE IndexInv'
  BY <1>0, <1>3, StartMoves, AsideKeeps DEF Moves
<1>4. CASE UNCHANGED vars
  BY <1>4 DEF vars, casVars, process, history, IndexInv, Drained, IndexFollowsBlocks, UsedIn,
              Pending, Block
<1> QED BY <1>1, <1>2, <1>3, <1>4 DEF Next

(***************************************************************************)
(* The blocks and the handle index agree up to what is being counted and   *)
(* what a call that ended between its two writes tore off, for any hosts,  *)
(* processes, handles and calls; and no address goes with a block          *)
(* (allocate.rs:143-160, :291-330).                                        *)
(***************************************************************************)
THEOREM IndexAgreesWithBlocks == Spec => []IndexFollowsBlocks
<1>1. IndexInv => IndexFollowsBlocks
  BY DEF IndexInv
<1>2. OwnerInv /\ IndexInv /\ [Next]_vars => IndexInv'
  BY StepIndex
<1> QED BY <1>1, <1>2, InitIndex, OwnerInvariant, PTL DEF Spec

=============================================================================
