--------------------------- MODULE KddIpamProofs ---------------------------
(***************************************************************************)
(* Machine-checked facts about KddIpam for any number of nodes, sandboxes, *)
(* blocks, slots and processes, any retry limit and any number of calls    *)
(* cut short; and, in the last section, about IpamGc, where the collector  *)
(* runs next to the commands.                                              *)
(*                                                                         *)
(* No proof before that section cites an assumption of IpamGc, so the      *)
(* theorems about Spec hold for any Janitors, none included (Spec has no   *)
(* action that starts a call of a janitor).                                *)
(***************************************************************************)
EXTENDS IpamGc, TLAPS, WellFoundedInduction

-----------------------------------------------------------------------------
(* A set of blocks, or of slots, that is not empty has a first element. *)
LEMMA MinOfElement ==
    ASSUME NEW S, S \in SUBSET Blocks \/ S \in SUBSET Slots, S # {}
    PROVE  MinOf(S) \in S
<1>1. S \subseteq Nat
  <2>1. Blocks \subseteq Nat
    BY SizesAssumption DEF Blocks
  <2> QED BY <2>1, SlotsAssumption
<1>2. \E x \in S : \A y \in S : ~ (<<y, x>> \in OpToRel(<, Nat))
  BY <1>1, WFMin, NatLessThanWellFounded
<1>3. \A x, y \in Nat : y < x => <<y, x>> \in OpToRel(<, Nat)
  BY Zenon DEF OpToRel
<1>4. PICK x \in S : \A y \in S : ~ (<<y, x>> \in OpToRel(<, Nat))
  BY <1>2, Zenon
<1>5. \A y \in S : ~ (y < x)
  BY <1>1, <1>3, <1>4, Zenon
<1>6. \E z \in S : \A y \in S : z <= y
  BY <1>1, <1>5
<1> QED BY <1>6 DEF MinOf

(* The types, in the three groups that the steps change. *)
StoreType ==
    /\ blocks \in [Blocks -> {Absent} \cup Block]
    /\ affinities \in [Hosts \X Blocks -> AffinityStates]
    /\ handles \in [Handles -> {Absent} \cup SUBSET Blocks]
LocalType ==
    /\ pc \in [Procs -> {"idle"} \cup AddSteps \cup DelSteps \cup GcSteps]
    /\ job \in [Procs -> {None} \cup Handles]
    /\ pass \in [Procs -> {1, 2}]
    /\ cur \in [Procs -> Blocks]
    /\ tries \in [Procs -> Nat]
    /\ copy \in [Procs -> {Absent} \cup Block]
    /\ hcopy \in [Procs -> {Absent} \cup SUBSET Blocks]
    /\ todo \in [Procs -> SUBSET Blocks]
    /\ got \in [Procs -> {None} \cup Addresses]
WorldType ==
    /\ status \in [Handles ->
                      {"new", "adding", "up", "failed", "deleting", "gone"}]
    /\ held \in [Handles -> {None} \cup Addresses]
    /\ erred \subseteq Janitors
    /\ abandoned \subseteq Handles
    /\ abandons \in Nat
MovedType == moved \in [Procs -> SUBSET Kinds]

LEMMA TypeParts == TypeOK <=> StoreType /\ LocalType /\ MovedType /\ WorldType
BY DEF TypeOK, StoreType, LocalType, MovedType, WorldType

(* A process in a call of the driver has a job; one that recovers an       *)
(* address has blocks to look at, and one that writes back a release has   *)
(* the block.  Only the collector makes calls of its own.                  *)
Resting == {"idle", "gc_delete_block", "gc_delete_affinity"}
Busy ==
    /\ \A p \in Procs : pc[p] \notin Resting => job[p] \in Handles
    /\ \A p \in Procs \ Janitors : pc[p] \notin GcSteps
    /\ \A p \in Procs : pc[p] = "recover" => todo[p] # {}
    /\ \A p \in Procs : pc[p] = "release_write" => copy[p] # Absent

TypeInv == TypeOK /\ Busy

-----------------------------------------------------------------------------
(* The helpers keep the types. *)
LEMMA ClearTypes ==
    ASSUME LocalType, NEW p \in Procs, Clear(p), Busy
    PROVE  LocalType' /\ Busy'
<1>1. 1 \in Blocks
  BY SizesAssumption DEF Blocks
<1> QED BY <1>1 DEF LocalType, Clear, Busy, Resting, GcSteps

LEMMA EndTypes ==
    ASSUME TypeInv, NEW p \in Procs, pc[p] \notin Resting, NEW ok, End(p, ok)
    PROVE  LocalType' /\ WorldType' /\ Busy'
<1>1. LocalType /\ WorldType /\ Busy /\ job[p] \in Handles
  BY TypeParts DEF TypeInv, Busy, Resting, GcSteps
<1>2. LocalType' /\ Busy'
  BY <1>1, ClearTypes DEF End
<1>3. WorldType'
  BY <1>1 DEF WorldType, End, Outcome
<1> QED BY <1>2, <1>3

LEMMA ReturnTypes ==
    ASSUME TypeInv, NEW p \in Procs, pc[p] \notin Resting,
           NEW a \in {None} \cup Addresses, Return(p, a)
    PROVE  LocalType' /\ WorldType' /\ Busy'
<1>1. LocalType /\ WorldType /\ Busy /\ job[p] \in Handles
  BY TypeParts DEF TypeInv, Busy, Resting, GcSteps
<1>2. LocalType' /\ Busy'
  BY <1>1, ClearTypes DEF Return
<1>3. WorldType'
  BY <1>1 DEF WorldType, Return, Outcome
<1> QED BY <1>2, <1>3

LEMMA RetryTypes ==
    ASSUME TypeInv, NEW p \in Procs, pc[p] \notin Resting,
           NEW start \in {"get_block", "release_get"}, Retry(p, start)
    PROVE  LocalType' /\ WorldType' /\ Busy'
<1>1. LocalType /\ WorldType /\ Busy
  BY TypeParts DEF TypeInv
<1>2. CASE tries[p] + 1 < Retries
  BY <1>1, <1>2 DEF LocalType, WorldType, world, Retry, Busy, Resting, GcSteps, AddSteps, DelSteps
<1>3. CASE ~ (tries[p] + 1 < Retries)
  BY <1>3, EndTypes DEF Retry, Fail
<1> QED BY <1>2, <1>3

LEMMA NextBlockTypes ==
    ASSUME TypeInv, NEW p \in Procs, pc[p] \notin Resting, NextBlock(p)
    PROVE  LocalType' /\ WorldType' /\ Busy'
<1>1. LocalType /\ WorldType /\ Busy
  BY TypeParts DEF TypeInv
<1>2. BlockAfter(cur[p]) \in Blocks
  BY <1>1, SizesAssumption DEF BlockAfter, Blocks, LocalType
<1>3. CASE pass[p] = 2 /\ cur[p] = NBlocks
  BY <1>3, EndTypes DEF NextBlock, Done
<1>4. CASE ~ (pass[p] = 2 /\ cur[p] = NBlocks)
  BY <1>1, <1>2, <1>4 DEF LocalType, WorldType, world, NextBlock, Busy, Resting, GcSteps, AddSteps
<1> QED BY <1>3, <1>4

LEMMA VisitTypes ==
    ASSUME TypeInv, NEW p \in Procs, NEW rest \in SUBSET Blocks,
           pc[p] \notin Resting, Visit(p, rest), UNCHANGED <<job, pass, tries, hcopy, got>>
    PROVE  LocalType' /\ Busy'
<1>1. LocalType /\ Busy
  BY TypeParts DEF TypeInv
<1>2. rest # {} => MinOf(rest) \in Blocks
  BY MinOfElement
<1> QED BY <1>1, <1>2 DEF LocalType, Visit, Goto, Busy, Resting, GcSteps, DelSteps

LEMMA WroteTypes ==
    ASSUME MovedType, NEW p \in Procs
    PROVE  /\ \A b : WroteBlock(p, b) => MovedType'
           /\ \A x : WroteAffinity(p, x) => MovedType'
           /\ \A h : WroteHandle(p, h) => MovedType'
           /\ \A kind \in Kinds : Read(p, kind) => MovedType'
BY DEF MovedType, WroteBlock, WroteAffinity, WroteHandle, Wrote, Read, Kinds

-----------------------------------------------------------------------------
(* Each step keeps the types. *)
LEMMA BeginTypes ==
    ASSUME TypeInv, NEW p \in Procs, NEW h \in Handles,
           BeginAdd(p, h) \/ BeginDel(p, h)
    PROVE  TypeInv'
<1>1. StoreType /\ LocalType /\ MovedType /\ WorldType /\ Busy
  BY TypeParts DEF TypeInv
<1>2. StoreType' /\ MovedType'
  BY <1>1 DEF BeginAdd, BeginDel, store, StoreType, MovedType
<1>3. LocalType' /\ Busy'
  BY <1>1 DEF BeginAdd, BeginDel, Goto, LocalType, Busy, Resting, GcSteps, AddSteps, DelSteps
<1>4. WorldType'
  BY <1>1 DEF BeginAdd, BeginDel, WorldType
<1> QED BY <1>2, <1>3, <1>4 DEF TypeInv, TypeOK, StoreType, LocalType,
                                MovedType, WorldType

(* The steps that only read. *)
LEMMA ReadTypes ==
    ASSUME TypeInv, NEW p \in Procs,
           \/ IpsByHandle(p) \/ Recover(p) \/ BlockOwner(p) \/ GetBlock(p)
           \/ GetAffinity(p) \/ BlockFull(p) \/ GetHandle(p)
           \/ ReleaseGet(p) \/ ReleaseBlock(p)
    PROVE  TypeInv'
<1>1. StoreType /\ LocalType /\ MovedType /\ WorldType /\ Busy
  BY TypeParts DEF TypeInv
<1>2. StoreType'
  BY <1>1 DEF IpsByHandle, Recover, BlockOwner, GetBlock, GetAffinity,
              BlockFull, GetHandle, ReleaseGet, ReleaseBlock, store, StoreType
<1>3. MovedType'
  BY <1>1, WroteTypes DEF IpsByHandle, Recover, BlockOwner, GetBlock,
     GetAffinity, BlockFull, GetHandle, ReleaseGet, ReleaseBlock, MovedType, Kinds
<1>4. pc[p] \notin Resting
  BY DEF Resting, IpsByHandle, Recover, BlockOwner, GetBlock, GetAffinity,
         BlockFull, GetHandle, ReleaseGet, ReleaseBlock
<1>5. /\ job[p] \in Handles /\ cur[p] \in Blocks /\ todo[p] \in SUBSET Blocks
      /\ handles[job[p]] \in {Absent} \cup SUBSET Blocks
      /\ blocks[cur[p]] \in {Absent} \cup Block
  BY <1>1, <1>4 DEF LocalType, StoreType, Busy, Resting, GcSteps
<1> SUFFICES LocalType' /\ WorldType' /\ Busy'
  BY <1>2, <1>3 DEF TypeInv, TypeOK, StoreType, LocalType, MovedType, WorldType
<1>6. ASSUME UNCHANGED world PROVE WorldType'
  BY <1>1, <1>6 DEF world, WorldType
<1>7. CASE IpsByHandle(p)
  BY <1>1, <1>5, <1>6, <1>7 DEF IpsByHandle, Goto, LocalType, Busy, Resting, GcSteps, AddSteps
<1>8. CASE Recover(p)
  <2> DEFINE b == MinOf(todo[p])
             mine == IF blocks[b] = Absent THEN {} ELSE SlotsOf(blocks[b], job[p])
  <2>1. b \in Blocks
    BY <1>1, <1>5, <1>8, MinOfElement DEF Recover, Busy, Resting, GcSteps
  <2>2. CASE mine # {} /\ Return(p, <<b, MinOf(mine)>>)
    <3>1. mine \in SUBSET Slots
      BY DEF SlotsOf
    <3>2. MinOf(mine) \in Slots
      <4> HIDE DEF mine
      <4> QED BY <2>2, <3>1, MinOfElement
    <3>3. <<b, MinOf(mine)>> \in Addresses
      BY <2>1, <3>2 DEF Addresses
    <3> QED BY <1>4, <2>2, <3>3, ReturnTypes
  <2>3. CASE /\ todo' = [todo EXCEPT ![p] = @ \ {b}]
             /\ Goto(p, IF todo[p] = {b} THEN "block_owner" ELSE "recover")
             /\ UNCHANGED <<job, pass, cur, tries, copy, hcopy, got, world>>
    <3>1. todo[p] # {b} => todo[p] \ {b} # {}
      BY <1>1, <1>8 DEF Recover, Busy, Resting, GcSteps
    <3> HIDE DEF b
    <3>2. Busy'
      BY <1>1, <1>5, <2>3, <3>1 DEF Busy, Resting, GcSteps, Goto, LocalType
    <3>3. LocalType'
      BY <1>1, <2>3 DEF LocalType, Goto, AddSteps
    <3> QED BY <1>6, <2>3, <3>2, <3>3
  <2> QED BY <1>8, <2>2, <2>3 DEF Recover
<1>9. CASE BlockOwner(p)
  <2>1. CASE NextBlock(p)
    BY <1>4, <2>1, NextBlockTypes
  <2>2. CASE Goto(p, "get_block") /\ UNCHANGED <<local, world>>
    BY <1>1, <1>5, <1>6, <2>2 DEF Goto, local, LocalType, Busy, Resting, GcSteps, AddSteps
  <2> QED BY <1>9, <2>1, <2>2 DEF BlockOwner
<1>10. CASE GetBlock(p)
  <2>1. CASE NextBlock(p)
    BY <1>4, <2>1, NextBlockTypes
  <2>2. CASE /\ Goto(p, "get_affinity")
             /\ copy' = [copy EXCEPT ![p] = blocks[cur[p]]]
             /\ UNCHANGED <<job, pass, cur, tries, hcopy, todo, got, world>>
    BY <1>1, <1>5, <1>6, <2>2 DEF Goto, LocalType, Busy, Resting, GcSteps, AddSteps
  <2> QED BY <1>10, <2>1, <2>2 DEF GetBlock
<1>11. CASE GetAffinity(p)
  <2>1. HostOf[job[p]] \in Hosts
    BY <1>5, HostOfAssumption
  <2>2. affinities[Claim(p)] \in AffinityStates
    BY <1>1, <1>5, <2>1 DEF Claim, StoreType
  <2>3. ClaimStep(affinities[Claim(p)]) \in
           {"create_affinity", "confirm_affinity", "write_block"}
    BY <2>2 DEF ClaimStep, AffinityStates
  <2> QED BY <1>1, <1>5, <1>6, <1>11, <2>3
          DEF GetAffinity, Goto, local, LocalType, Busy, Resting, GcSteps, AddSteps
<1>12. CASE BlockFull(p)
  BY <1>4, <1>12, NextBlockTypes DEF BlockFull
<1>13. CASE GetHandle(p)
  BY <1>1, <1>5, <1>6, <1>13 DEF GetHandle, Goto, LocalType, Busy, Resting, GcSteps, AddSteps
<1>14. CASE ReleaseGet(p)
  <2>1. CASE Done(p)
    BY <1>4, <2>1, EndTypes DEF Done
  <2>2. CASE /\ handles[job[p]] # Absent /\ Visit(p, handles[job[p]])
             /\ UNCHANGED <<job, pass, tries, hcopy, got, world>>
    BY <1>4, <1>5, <1>6, <2>2, VisitTypes
  <2> QED BY <1>14, <2>1, <2>2 DEF ReleaseGet
<1>15. CASE ReleaseBlock(p)
  <2>1. CASE Visit(p, todo[p] \ {cur[p]})
    <3>1. todo[p] \ {cur[p]} \in SUBSET Blocks
      BY <1>5
    <3> QED BY <1>4, <1>6, <1>15, <2>1, <3>1, VisitTypes DEF ReleaseBlock
  <2>2. CASE /\ blocks[cur[p]] # Absent
             /\ copy' = [copy EXCEPT ![p] = blocks[cur[p]]]
             /\ Goto(p, "release_write")
             /\ UNCHANGED <<cur, todo>>
    BY <1>1, <1>5, <1>6, <1>15, <2>2
       DEF ReleaseBlock, Goto, LocalType, Busy, Resting, GcSteps, DelSteps
  <2> QED BY <1>15, <2>1, <2>2 DEF ReleaseBlock
<1> QED BY <1>7, <1>8, <1>9, <1>10, <1>11, <1>12, <1>13, <1>14, <1>15

(* The steps that write. *)
LEMMA WriteTypes ==
    ASSUME TypeInv, NEW p \in Procs,
           \/ CreateAffinity(p) \/ ConfirmAffinity(p) \/ UpdateBlock(p)
           \/ CreateBlock(p) \/ UpdateHandle(p) \/ CreateHandle(p)
           \/ ReleaseWrite(p) \/ DeleteHandle(p)
    PROVE  TypeInv'
<1>1. StoreType /\ LocalType /\ MovedType /\ WorldType /\ Busy
  BY TypeParts DEF TypeInv
<1>2. MovedType'
  BY <1>1, WroteTypes DEF CreateAffinity, ConfirmAffinity, UpdateBlock,
     CreateBlock, UpdateHandle, CreateHandle, ReleaseWrite, DeleteHandle, MovedType
<1>3. pc[p] \notin Resting
  BY DEF Resting, CreateAffinity, ConfirmAffinity, UpdateBlock, CreateBlock,
         UpdateHandle, CreateHandle, ReleaseWrite, DeleteHandle
<1>4. /\ job[p] \in Handles /\ cur[p] \in Blocks /\ todo[p] \in SUBSET Blocks
      /\ got[p] \in {None} \cup Addresses
      /\ copy[p] \in {Absent} \cup Block
      /\ hcopy[p] \in {Absent} \cup SUBSET Blocks
      /\ HostOf[job[p]] \in Hosts
  BY <1>1, <1>3, HostOfAssumption DEF LocalType, Busy, Resting, GcSteps
<1> SUFFICES StoreType' /\ LocalType' /\ WorldType' /\ Busy'
  BY <1>2 DEF TypeInv, TypeOK, StoreType, LocalType, MovedType, WorldType
<1>5. ASSUME UNCHANGED world PROVE WorldType'
  BY <1>1, <1>5 DEF world, WorldType
<1>6. ASSUME UNCHANGED store PROVE StoreType'
  BY <1>1, <1>6 DEF store, StoreType
<1>7. ASSUME NEW start \in {"get_block", "release_get"}, Retry(p, start)
      PROVE  LocalType' /\ WorldType' /\ Busy'
  BY <1>3, <1>7, RetryTypes
<1>8. ASSUME Fail(p) \/ Done(p) \/ Return(p, got[p])
      PROVE  LocalType' /\ WorldType' /\ Busy'
  BY <1>3, <1>4, <1>8, EndTypes, ReturnTypes DEF Fail, Done
<1>9. ASSUME NEW x, x \in AddSteps, pc[p] \in AddSteps, x # "recover",
             Goto(p, x), UNCHANGED <<local, world>>
      PROVE  LocalType' /\ WorldType' /\ Busy'
  BY <1>1, <1>4, <1>5, <1>9 DEF Goto, local, LocalType, Busy, Resting, GcSteps, AddSteps
<1>10. CASE CreateAffinity(p)
  <2>1. StoreType'
    BY <1>1, <1>4, <1>10 DEF CreateAffinity, StoreType, Claim, AffinityStates
  <2>2. CASE Retry(p, "get_block")
    BY <1>7, <2>1, <2>2
  <2>3. CASE Goto(p, "confirm_affinity") /\ UNCHANGED <<local, world>>
    BY <1>9, <1>10, <2>1, <2>3 DEF CreateAffinity, AddSteps
  <2> QED BY <1>10, <2>2, <2>3 DEF CreateAffinity
<1>11. CASE ConfirmAffinity(p)
  <2>1. StoreType'
    BY <1>1, <1>4, <1>11 DEF ConfirmAffinity, StoreType, Claim, AffinityStates
  <2>2. CASE Retry(p, "get_block")
    BY <1>7, <2>1, <2>2
  <2>3. CASE Goto(p, "write_block") /\ UNCHANGED <<local, world>>
    BY <1>9, <1>11, <2>1, <2>3 DEF ConfirmAffinity, AddSteps
  <2>4. CASE Fail(p)
    BY <1>8, <2>1, <2>4
  <2> QED BY <1>11, <2>2, <2>3, <2>4 DEF ConfirmAffinity
<1>12. ASSUME NEW block \in Block, NEW s \in Slots
       PROVE  WithSlot(block, s, job[p]) \in Block
  BY <1>4 DEF WithSlot, Block
<1>13. ASSUME NEW s \in Slots, got' = [got EXCEPT ![p] = <<cur[p], s>>],
              Goto(p, "get_handle"),
              UNCHANGED <<job, pass, cur, tries, copy, hcopy, todo, world>>
       PROVE  LocalType' /\ WorldType' /\ Busy'
  <2>1. <<cur[p], s>> \in Addresses
    BY <1>4 DEF Addresses
  <2> QED BY <1>1, <1>4, <1>5, <1>13, <2>1 DEF Goto, LocalType, Busy, Resting, GcSteps, AddSteps
<1>14. CASE UpdateBlock(p)
  <2>1. CASE \E s \in SlotsOf(copy[p], Free) :
                /\ blocks' = [blocks EXCEPT ![cur[p]] = WithSlot(copy[p], s, job[p])]
                /\ got' = [got EXCEPT ![p] = <<cur[p], s>>]
                /\ Goto(p, "get_handle")
                /\ UNCHANGED <<job, pass, cur, tries, copy, hcopy, todo, world>>
    <3>1. PICK s \in Slots :
                /\ blocks' = [blocks EXCEPT ![cur[p]] = WithSlot(copy[p], s, job[p])]
                /\ got' = [got EXCEPT ![p] = <<cur[p], s>>]
      BY <2>1 DEF SlotsOf
    <3>2. WithSlot(copy[p], s, job[p]) \in Block
      BY <1>4, <1>12, <1>14 DEF UpdateBlock
    <3>3. StoreType'
      BY <1>1, <1>14, <3>1, <3>2 DEF UpdateBlock, StoreType
    <3> QED BY <1>13, <2>1, <3>1, <3>3
  <2>2. CASE Retry(p, "get_block") /\ UNCHANGED blocks
    BY <1>6, <1>7, <1>14, <2>2 DEF UpdateBlock, store
  <2>3. CASE Fail(p) /\ UNCHANGED blocks
    BY <1>6, <1>8, <1>14, <2>3 DEF UpdateBlock, store
  <2> QED BY <1>14, <2>1, <2>2, <2>3 DEF UpdateBlock
<1>15. CASE CreateBlock(p)
  <2>1. CASE \E s \in Slots :
                /\ blocks' = [blocks EXCEPT ![cur[p]] =
                       WithSlot(FreshBlock(HostOf[job[p]]), s, job[p])]
                /\ got' = [got EXCEPT ![p] = <<cur[p], s>>]
                /\ Goto(p, "get_handle")
                /\ UNCHANGED <<job, pass, cur, tries, copy, hcopy, todo, world>>
    <3>1. PICK s \in Slots :
                /\ blocks' = [blocks EXCEPT ![cur[p]] =
                       WithSlot(FreshBlock(HostOf[job[p]]), s, job[p])]
                /\ got' = [got EXCEPT ![p] = <<cur[p], s>>]
      BY <2>1
    <3>2. FreshBlock(HostOf[job[p]]) \in Block
      BY <1>4 DEF FreshBlock, Block
    <3>3. StoreType'
      BY <1>1, <1>12, <1>15, <3>1, <3>2 DEF CreateBlock, StoreType
    <3> QED BY <1>13, <2>1, <3>1, <3>3
  <2>2. CASE Retry(p, "get_block") /\ UNCHANGED blocks
    BY <1>6, <1>7, <1>15, <2>2 DEF CreateBlock, store
  <2> QED BY <1>15, <2>1, <2>2 DEF CreateBlock
<1>16. CASE UpdateHandle(p)
  <2>1. StoreType'
    BY <1>1, <1>4, <1>16 DEF UpdateHandle, StoreType
  <2> QED BY <1>7, <1>8, <1>16, <2>1 DEF UpdateHandle
<1>17. CASE CreateHandle(p)
  <2>1. StoreType'
    BY <1>1, <1>4, <1>17 DEF CreateHandle, StoreType
  <2> QED BY <1>7, <1>8, <1>17, <2>1 DEF CreateHandle
<1>18. CASE ReleaseWrite(p)
  <2>1. CASE /\ blocks' = [blocks EXCEPT ![cur[p]] = Without(copy[p], job[p])]
             /\ Visit(p, todo[p] \ {cur[p]})
             /\ UNCHANGED <<job, pass, tries, hcopy, got, world>>
    <3>1. todo[p] \ {cur[p]} \in SUBSET Blocks
      BY <1>4
    <3>2. LocalType' /\ Busy'
      BY <1>3, <2>1, <3>1, VisitTypes
    <3>3. StoreType'
      <4>1. copy[p] \in Block
        BY <1>1, <1>4, <1>18 DEF ReleaseWrite, Busy, Resting, GcSteps
      <4>2. Without(copy[p], job[p]) \in Block
        BY <4>1 DEF Without, Block
      <4> QED BY <1>1, <1>18, <2>1, <4>2 DEF ReleaseWrite, StoreType
    <3> QED BY <1>5, <2>1, <3>2, <3>3
  <2>2. CASE Retry(p, "release_get") /\ UNCHANGED blocks
    BY <1>6, <1>7, <1>18, <2>2 DEF ReleaseWrite, store
  <2>3. CASE Fail(p) /\ UNCHANGED blocks
    BY <1>6, <1>8, <1>18, <2>3 DEF ReleaseWrite, store
  <2> QED BY <1>18, <2>1, <2>2, <2>3 DEF ReleaseWrite
<1>19. CASE DeleteHandle(p)
  <2>1. StoreType'
    BY <1>1, <1>4, <1>19 DEF DeleteHandle, StoreType
  <2> QED BY <1>7, <1>8, <1>19, <2>1 DEF DeleteHandle
<1> QED BY <1>10, <1>11, <1>14, <1>15, <1>16, <1>17, <1>18, <1>19

LEMMA AbandonTypes ==
    ASSUME TypeInv, NEW p \in Procs, Abandon(p)
    PROVE  TypeInv'
<1>1. StoreType /\ LocalType /\ MovedType /\ WorldType /\ Busy
  BY TypeParts DEF TypeInv
<1>2. job[p] \in Handles
  BY <1>1 DEF Abandon, Busy, Resting, GcSteps
<1>3. LocalType' /\ Busy'
  BY <1>1, ClearTypes DEF Abandon
<1>4. StoreType' /\ MovedType'
  BY <1>1 DEF Abandon, store, StoreType, MovedType
<1>5. WorldType'
  BY <1>1, <1>2 DEF Abandon, Outcome, WorldType
<1> QED BY <1>3, <1>4, <1>5 DEF TypeInv, TypeOK, StoreType, LocalType,
                                MovedType, WorldType

LEMMA InitTypes == Init => TypeInv
<1> SUFFICES ASSUME Init PROVE TypeInv
  OBVIOUS
<1>1. 1 \in Blocks
  BY SizesAssumption DEF Blocks
<1> QED BY <1>1 DEF Init, TypeInv, TypeOK, Busy, Resting, GcSteps, AffinityStates

LEMMA NextTypes == TypeInv /\ [Next]_vars => TypeInv'
<1> SUFFICES ASSUME TypeInv, [Next]_vars PROVE TypeInv'
  OBVIOUS
<1>1. CASE UNCHANGED vars
  BY <1>1 DEF vars, store, local, world, TypeInv, TypeOK, Busy, Resting, GcSteps
<1>2. ASSUME NEW p \in Procs, NEW h \in Handles, BeginAdd(p, h) \/ BeginDel(p, h)
      PROVE  TypeInv'
  BY <1>2, BeginTypes
<1>3. ASSUME NEW p \in Procs, Step(p)
      PROVE  TypeInv'
  BY <1>3, ReadTypes, WriteTypes DEF Step
<1>4. ASSUME NEW p \in Procs, Abandon(p)
      PROVE  TypeInv'
  BY <1>4, AbandonTypes
<1> QED BY <1>1, <1>2, <1>3, <1>4 DEF Next

(* Type correctness: whatever conflicts, errors and crashes occur, every   *)
(* object and every local of the driver keeps its shape.                   *)
THEOREM DriverTypeCorrect == Spec => []TypeOK
<1>1. Spec => []TypeInv
  BY InitTypes, NextTypes, PTL DEF Spec
<1>2. TypeInv => TypeOK
  BY DEF TypeInv
<1> QED BY <1>1, <1>2, PTL

-----------------------------------------------------------------------------
(* What a step of p leaves alone: the other processes' locals, and in the  *)
(* datastore everything but the object it writes.                          *)
Frame(p) ==
    \A q \in Procs : q # p =>
        /\ pc'[q] = pc[q] /\ job'[q] = job[q] /\ cur'[q] = cur[q]
        /\ copy'[q] = copy[q] /\ hcopy'[q] = hcopy[q]
        /\ todo'[q] = todo[q] /\ got'[q] = got[q]

LEMMA HelpersFrame ==
    ASSUME TypeInv, NEW p \in Procs
    PROVE  /\ Clear(p) => Frame(p)
           /\ \A ok : End(p, ok) => Frame(p)
           /\ \A a : Return(p, a) => Frame(p)
           /\ \A start : Retry(p, start) => Frame(p)
           /\ NextBlock(p) => Frame(p)
           /\ \A rest : Visit(p, rest) /\ UNCHANGED <<job, hcopy, got>> => Frame(p)
<1>1. LocalType
  BY TypeParts DEF TypeInv
<1>2. Clear(p) => Frame(p)
  BY <1>1 DEF Clear, Frame, LocalType
<1>3. \A ok : End(p, ok) => Frame(p)
  BY <1>2 DEF End
<1>4. \A a : Return(p, a) => Frame(p)
  BY <1>2 DEF Return
<1>5. ASSUME NEW start, Retry(p, start) PROVE Frame(p)
  <2>1. CASE tries[p] + 1 < Retries
    BY <1>1, <1>5, <2>1 DEF Retry, Frame, LocalType
  <2>2. CASE ~ (tries[p] + 1 < Retries)
    BY <1>3, <1>5, <2>2 DEF Retry, Fail
  <2> QED BY <2>1, <2>2
<1>6. ASSUME NextBlock(p) PROVE Frame(p)
  <2>1. CASE pass[p] = 2 /\ cur[p] = NBlocks
    BY <1>3, <1>6, <2>1 DEF NextBlock, Done
  <2>2. CASE ~ (pass[p] = 2 /\ cur[p] = NBlocks)
    BY <1>1, <1>6, <2>2 DEF NextBlock, Frame, LocalType
  <2> QED BY <2>1, <2>2
<1>7. \A rest : Visit(p, rest) /\ UNCHANGED <<job, hcopy, got>> => Frame(p)
  BY <1>1 DEF Visit, Goto, Frame, LocalType
<1> QED BY <1>2, <1>3, <1>4, <1>5, <1>6, <1>7

LEMMA StepFrame ==
    ASSUME TypeInv, NEW p \in Procs, Step(p) \/ Abandon(p)
    PROVE  Frame(p)
<1>1. LocalType
  BY TypeParts DEF TypeInv
<1>2. ASSUME NEW x, Goto(p, x), UNCHANGED local PROVE Frame(p)
  BY <1>1, <1>2 DEF Goto, local, Frame, LocalType
<1>3. CASE IpsByHandle(p)
  BY <1>1, <1>3 DEF IpsByHandle, Goto, Frame, LocalType
<1>4. CASE Recover(p)
  <2>1. CASE \E a : Return(p, a)
    BY <2>1, HelpersFrame
  <2>2. CASE ~ \E a : Return(p, a)
    BY <1>1, <1>4, <2>2 DEF Recover, Goto, Frame, LocalType
  <2> QED BY <2>1, <2>2
<1>5. CASE BlockOwner(p)
  BY <1>2, <1>5, HelpersFrame DEF BlockOwner
<1>6. CASE GetBlock(p)
  BY <1>1, <1>6, HelpersFrame DEF GetBlock, Goto, Frame, LocalType
<1>7. CASE GetAffinity(p)
  BY <1>2, <1>7 DEF GetAffinity
<1>8. CASE CreateAffinity(p)
  BY <1>2, <1>8, HelpersFrame DEF CreateAffinity
<1>9. CASE ConfirmAffinity(p)
  BY <1>2, <1>9, HelpersFrame DEF ConfirmAffinity, Fail
<1>10. CASE BlockFull(p)
  BY <1>10, HelpersFrame DEF BlockFull
<1>11. ASSUME NEW s, got' = [got EXCEPT ![p] = <<cur[p], s>>],
              Goto(p, "get_handle"), UNCHANGED <<job, cur, copy, hcopy, todo>>
       PROVE  Frame(p)
  BY <1>1, <1>11 DEF Goto, Frame, LocalType
<1>12. CASE UpdateBlock(p)
  BY <1>11, <1>12, HelpersFrame DEF UpdateBlock, Fail
<1>13. CASE CreateBlock(p)
  BY <1>11, <1>13, HelpersFrame DEF CreateBlock
<1>14. CASE GetHandle(p)
  BY <1>1, <1>14 DEF GetHandle, Goto, Frame, LocalType
<1>15. CASE UpdateHandle(p)
  BY <1>15, HelpersFrame DEF UpdateHandle, Fail
<1>16. CASE CreateHandle(p)
  BY <1>16, HelpersFrame DEF CreateHandle
<1>17. CASE ReleaseGet(p)
  BY <1>17, HelpersFrame DEF ReleaseGet, Done
<1>18. CASE ReleaseBlock(p)
  BY <1>1, <1>18, HelpersFrame DEF ReleaseBlock, Goto, Frame, LocalType
<1>19. CASE ReleaseWrite(p)
  BY <1>19, HelpersFrame DEF ReleaseWrite, Fail
<1>20. CASE DeleteHandle(p)
  BY <1>20, HelpersFrame DEF DeleteHandle, Done, Fail
<1>21. CASE Abandon(p)
  BY <1>21, HelpersFrame DEF Abandon
<1> QED BY <1>3, <1>4, <1>5, <1>6, <1>7, <1>8, <1>9, <1>10, <1>12, <1>13, <1>14,
           <1>15, <1>16, <1>17, <1>18, <1>19, <1>20, <1>21 DEF Step

(* Versions only go out of date under other processes, and a write is      *)
(* noticed by every process that holds a version of the object.            *)
LEMMA WritesNoticed ==
    ASSUME TypeInv, NEW p \in Procs, Step(p) \/ Abandon(p), NEW q \in Procs, q # p
    PROVE  /\ moved[q] \subseteq moved'[q]
           /\ \/ blocks'[cur[q]] = blocks[cur[q]]
              \/ blocks[cur[q]] = Absent
              \/ HoldsBlock(q, cur[q]) => "block" \in moved'[q]
           /\ \/ handles'[job[q]] = handles[job[q]]
              \/ handles[job[q]] = Absent
              \/ HoldsHandle(q, job[q]) => "handle" \in moved'[q]
<1>1. StoreType /\ MovedType /\ LocalType /\ job[p] \in {None} \cup Handles
      /\ cur[p] \in Blocks /\ cur[q] \in Blocks
  BY TypeParts DEF TypeInv, LocalType
<1>2. ASSUME UNCHANGED <<blocks, handles>>, \E kind : Read(p, kind)
      PROVE  moved[q] \subseteq moved'[q]
  BY <1>1, <1>2 DEF Read, MovedType
<1>3. CASE UNCHANGED <<blocks, handles, moved>>
  BY <1>3
<1>4. CASE GetBlock(p) \/ GetAffinity(p) \/ GetHandle(p) \/ ReleaseGet(p)
           \/ ReleaseBlock(p)
  BY <1>2, <1>4 DEF GetBlock, GetAffinity, GetHandle, ReleaseGet, ReleaseBlock,
                    store
<1>5. ASSUME WroteBlock(p, cur[p]), UNCHANGED handles,
             \A b \in Blocks : b # cur[p] => blocks'[b] = blocks[b]
      PROVE  /\ moved[q] \subseteq moved'[q]
             /\ \/ blocks'[cur[q]] = blocks[cur[q]]
                \/ HoldsBlock(q, cur[q]) => "block" \in moved'[q]
  BY <1>1, <1>5 DEF WroteBlock, Wrote, MovedType
<1>6. ASSUME WroteHandle(p, job[p]), UNCHANGED blocks,
             job[q] # job[p] => handles'[job[q]] = handles[job[q]]
      PROVE  /\ moved[q] \subseteq moved'[q]
             /\ \/ handles'[job[q]] = handles[job[q]]
                \/ HoldsHandle(q, job[q]) => "handle" \in moved'[q]
  BY <1>1, <1>6 DEF WroteHandle, Wrote, MovedType
<1>7. CASE ConfirmAffinity(p)
  <2>1. CASE WroteAffinity(p, Claim(p)) /\ UNCHANGED <<blocks, handles>>
    BY <1>1, <2>1 DEF WroteAffinity, Wrote, MovedType
  <2> QED BY <1>3, <1>7, <2>1 DEF ConfirmAffinity
<1>8. CASE UpdateBlock(p)
  <2>1. CASE UNCHANGED <<blocks, moved>>
    BY <1>8, <2>1 DEF UpdateBlock
  <2>2. CASE WroteBlock(p, cur[p]) /\ \E v : blocks' = [blocks EXCEPT ![cur[p]] = v]
    <3>1. \A b \in Blocks : b # cur[p] => blocks'[b] = blocks[b]
      BY <1>1, <2>2 DEF StoreType
    <3> QED BY <1>5, <1>8, <2>2, <3>1 DEF UpdateBlock
  <2> QED BY <1>8, <2>1, <2>2 DEF UpdateBlock
<1>9. CASE CreateBlock(p)
  <2>1. CASE UNCHANGED blocks
    BY <1>9, <2>1 DEF CreateBlock
  <2>2. CASE blocks[cur[p]] = Absent /\ \E v : blocks' = [blocks EXCEPT ![cur[p]] = v]
    BY <1>1, <1>9, <2>2 DEF CreateBlock, StoreType
  <2> QED BY <1>9, <2>1, <2>2 DEF CreateBlock
<1>10. CASE UpdateHandle(p) \/ DeleteHandle(p)
  <2>1. CASE UNCHANGED <<handles, moved>>
    BY <1>10, <2>1 DEF UpdateHandle, DeleteHandle
  <2>2. CASE /\ WroteHandle(p, job[p])
             /\ \E v : handles' = [handles EXCEPT ![job[p]] = v]
    <3>1. job[q] # job[p] => handles'[job[q]] = handles[job[q]]
      BY <1>1, <2>2 DEF StoreType
    <3> QED BY <1>6, <1>10, <2>2, <3>1 DEF UpdateHandle, DeleteHandle
  <2> QED BY <1>10, <2>1, <2>2 DEF UpdateHandle, DeleteHandle
<1>11. CASE CreateHandle(p)
  <2>1. CASE UNCHANGED handles
    BY <1>11, <2>1 DEF CreateHandle
  <2>2. CASE /\ handles[job[p]] = Absent
             /\ \E v : handles' = [handles EXCEPT ![job[p]] = v]
    BY <1>1, <1>11, <2>2 DEF CreateHandle, StoreType
  <2> QED BY <1>11, <2>1, <2>2 DEF CreateHandle
<1>12. CASE ReleaseWrite(p)
  <2>1. CASE UNCHANGED <<blocks, moved>>
    BY <1>12, <2>1 DEF ReleaseWrite
  <2>2. CASE WroteBlock(p, cur[p]) /\ \E v : blocks' = [blocks EXCEPT ![cur[p]] = v]
    <3>1. \A b \in Blocks : b # cur[p] => blocks'[b] = blocks[b]
      BY <1>1, <2>2 DEF StoreType
    <3> QED BY <1>5, <1>12, <2>2, <3>1 DEF ReleaseWrite
  <2> QED BY <1>12, <2>1, <2>2 DEF ReleaseWrite
<1>13. CASE IpsByHandle(p) \/ Recover(p) \/ BlockOwner(p) \/ CreateAffinity(p)
            \/ BlockFull(p) \/ Abandon(p)
  BY <1>3, <1>13 DEF IpsByHandle, Recover, BlockOwner, CreateAffinity, BlockFull,
                     Abandon, store
<1> QED BY <1>4, <1>7, <1>8, <1>9, <1>10, <1>11, <1>12, <1>13 DEF Step

-----------------------------------------------------------------------------
(* CopiesCurrent, process by process. *)
BlockSteps == {"get_affinity", "create_affinity", "confirm_affinity",
               "write_block", "release_write"}
CopyCurrent(p) ==
    /\ /\ pc[p] \in BlockSteps /\ "block" \notin moved[p] /\ copy[p] # Absent
       => blocks[cur[p]] = copy[p]
    /\ /\ pc[p] = "write_handle" /\ "handle" \notin moved[p] /\ hcopy[p] # Absent
       => handles[job[p]] = hcopy[p]

LEMMA CopiesByProcess == CopiesCurrent <=> \A p \in Procs : CopyCurrent(p)
BY DEF CopiesCurrent, CopyCurrent, BlockSteps

(* A step keeps the copies of the other processes current or marks them. *)
LEMMA OthersCopies ==
    ASSUME TypeInv, NEW p \in Procs, Step(p) \/ Abandon(p),
           NEW q \in Procs, q # p, CopyCurrent(q)
    PROVE  CopyCurrent(q)'
<1>1. /\ pc'[q] = pc[q] /\ job'[q] = job[q] /\ cur'[q] = cur[q]
      /\ copy'[q] = copy[q] /\ hcopy'[q] = hcopy[q]
  BY StepFrame DEF Frame
<1>2. /\ moved[q] \subseteq moved'[q]
      /\ \/ blocks'[cur[q]] = blocks[cur[q]]
         \/ blocks[cur[q]] = Absent
         \/ HoldsBlock(q, cur[q]) => "block" \in moved'[q]
      /\ \/ handles'[job[q]] = handles[job[q]]
         \/ handles[job[q]] = Absent
         \/ HoldsHandle(q, job[q]) => "handle" \in moved'[q]
  BY WritesNoticed
<1>3. ASSUME pc[q] \in BlockSteps, "block" \notin moved'[q], copy[q] # Absent
      PROVE  blocks'[cur[q]] = copy[q]
  <2>1. blocks[cur[q]] = copy[q]
    BY <1>2, <1>3 DEF CopyCurrent
  <2>2. HoldsBlock(q, cur[q])
    BY <1>3 DEF HoldsBlock, BlockSteps
  <2> QED BY <1>2, <1>3, <2>1, <2>2
<1>4. ASSUME pc[q] = "write_handle", "handle" \notin moved'[q], hcopy[q] # Absent
      PROVE  handles'[job[q]] = hcopy[q]
  <2>1. handles[job[q]] = hcopy[q]
    BY <1>2, <1>4 DEF CopyCurrent
  <2>2. HoldsHandle(q, job[q])
    BY <1>4 DEF HoldsHandle
  <2> QED BY <1>2, <1>4, <2>1, <2>2
<1> QED BY <1>1, <1>3, <1>4 DEF CopyCurrent

(* After an end, a retry or a move along the walk p holds no copy. *)
LEMMA NoCopy ==
    ASSUME TypeInv, NEW p \in Procs,
           \/ Clear(p) \/ Fail(p) \/ Done(p) \/ NextBlock(p)
           \/ \E a : Return(p, a)
           \/ \E start \in {"get_block", "release_get"} : Retry(p, start)
           \/ \E rest : Visit(p, rest)
    PROVE  CopyCurrent(p)'
<1>1. LocalType
  BY TypeParts DEF TypeInv
<1>2. ASSUME Clear(p) PROVE CopyCurrent(p)'
  BY <1>1, <1>2 DEF Clear, LocalType, CopyCurrent, BlockSteps
<1>3. ASSUME \E a : Return(p, a) PROVE CopyCurrent(p)'
  BY <1>2, <1>3 DEF Return
<1>4. ASSUME Fail(p) \/ Done(p) PROVE CopyCurrent(p)'
  BY <1>2, <1>4 DEF Fail, Done, End
<1>5. ASSUME NextBlock(p) PROVE CopyCurrent(p)'
  BY <1>1, <1>4, <1>5 DEF NextBlock, LocalType, CopyCurrent, BlockSteps
<1>6. ASSUME \E start \in {"get_block", "release_get"} : Retry(p, start)
      PROVE  CopyCurrent(p)'
  BY <1>1, <1>4, <1>6 DEF Retry, LocalType, CopyCurrent, BlockSteps
<1>7. ASSUME \E rest : Visit(p, rest) PROVE CopyCurrent(p)'
  BY <1>1, <1>7 DEF Visit, Goto, LocalType, CopyCurrent, BlockSteps
<1> QED BY <1>2, <1>3, <1>4, <1>5, <1>6, <1>7

LEMMA OwnCopies ==
    ASSUME TypeInv, NEW p \in Procs, Step(p) \/ Abandon(p), CopyCurrent(p)
    PROVE  CopyCurrent(p)'
<1>1. LocalType /\ MovedType
  BY TypeParts DEF TypeInv
<1>2. CASE IpsByHandle(p)
  BY <1>1, <1>2 DEF IpsByHandle, Goto, LocalType, CopyCurrent, BlockSteps
<1>3. CASE Recover(p)
  <2>1. CASE \E a : Return(p, a)
    BY <2>1, NoCopy
  <2>2. CASE ~ \E a : Return(p, a)
    BY <1>1, <1>3, <2>2 DEF Recover, Goto, LocalType, CopyCurrent, BlockSteps
  <2> QED BY <2>1, <2>2
<1>4. CASE BlockOwner(p) \/ BlockFull(p)
  <2>1. CASE NextBlock(p)
    BY <2>1, NoCopy
  <2>2. CASE Goto(p, "get_block")
    BY <1>1, <2>2 DEF Goto, LocalType, CopyCurrent, BlockSteps
  <2> QED BY <1>4, <2>1, <2>2 DEF BlockOwner, BlockFull
<1>5. CASE GetBlock(p)
  <2>1. CASE NextBlock(p)
    BY <2>1, NoCopy
  <2>2. CASE ~ NextBlock(p)
    BY <1>1, <1>5, <2>2 DEF GetBlock, Goto, store, LocalType, CopyCurrent, BlockSteps
  <2> QED BY <2>1, <2>2
<1>6. ASSUME UNCHANGED <<blocks, handles, local, moved>>,
             pc[p] \in BlockSteps, \E x \in BlockSteps : Goto(p, x)
      PROVE  CopyCurrent(p)'
  BY <1>1, <1>6 DEF Goto, local, LocalType, CopyCurrent, BlockSteps
<1>7. CASE GetAffinity(p)
  <2>1. UNCHANGED <<blocks, handles, local>>
    BY <1>7 DEF GetAffinity, store
  <2>2. "block" \in moved'[p] <=> "block" \in moved[p]
    BY <1>1, <1>7 DEF GetAffinity, Read, MovedType
  <2>3. pc[p] = "get_affinity" /\ pc'[p] # "write_handle"
    <3>1. affinities[Claim(p)] \in AffinityStates
      <4>1. job[p] \in Handles /\ cur[p] \in Blocks
        BY <1>1, <1>7 DEF GetAffinity, TypeInv, Busy, Resting, GcSteps, LocalType
      <4>2. Claim(p) \in Hosts \X Blocks
        BY <4>1, HostOfAssumption DEF Claim
      <4> QED BY <4>2 DEF TypeInv, TypeOK
    <3>2. ClaimStep(affinities[Claim(p)]) \in
             {"create_affinity", "confirm_affinity", "write_block"}
      BY <3>1 DEF ClaimStep, AffinityStates
    <3> QED BY <1>1, <1>7, <3>2 DEF GetAffinity, Goto, LocalType
  <2> QED BY <2>1, <2>2, <2>3 DEF local, CopyCurrent, BlockSteps
<1>8. CASE CreateAffinity(p)
  <2>1. CASE Retry(p, "get_block")
    BY <2>1, NoCopy
  <2> QED BY <1>6, <1>8, <2>1 DEF CreateAffinity, local, BlockSteps
<1>9. CASE ConfirmAffinity(p)
  <2>1. CASE Retry(p, "get_block") \/ Fail(p)
    BY <2>1, NoCopy
  <2>2. CASE Goto(p, "write_block") /\ WroteAffinity(p, Claim(p)) /\ UNCHANGED local
    <3>1. "block" \in moved'[p] <=> "block" \in moved[p]
      BY <1>1, <2>2 DEF WroteAffinity, Wrote, MovedType
    <3> QED BY <1>1, <1>9, <2>2, <3>1
            DEF ConfirmAffinity, Goto, local, LocalType, CopyCurrent, BlockSteps
  <2> QED BY <1>9, <2>1, <2>2 DEF ConfirmAffinity
<1>10. ASSUME Goto(p, "get_handle") PROVE CopyCurrent(p)'
  BY <1>1, <1>10 DEF Goto, LocalType, CopyCurrent, BlockSteps
<1>11. CASE UpdateBlock(p) \/ CreateBlock(p)
  <2>1. CASE Retry(p, "get_block") \/ Fail(p)
    BY <2>1, NoCopy
  <2> QED BY <1>10, <1>11, <2>1 DEF UpdateBlock, CreateBlock
<1>12. CASE GetHandle(p)
  BY <1>1, <1>12 DEF GetHandle, Goto, store, LocalType, CopyCurrent, BlockSteps
<1>13. CASE UpdateHandle(p) \/ CreateHandle(p)
  BY <1>13, NoCopy DEF UpdateHandle, CreateHandle
<1>14. CASE ReleaseGet(p)
  BY <1>14, NoCopy DEF ReleaseGet
<1>15. CASE ReleaseBlock(p)
  <2>1. CASE \E rest : Visit(p, rest)
    BY <2>1, NoCopy
  <2>2. CASE ~ \E rest : Visit(p, rest)
    BY <1>1, <1>15, <2>2 DEF ReleaseBlock, Goto, store, LocalType, CopyCurrent, BlockSteps
  <2> QED BY <2>1, <2>2
<1>16. CASE ReleaseWrite(p) \/ DeleteHandle(p)
  BY <1>16, NoCopy DEF ReleaseWrite, DeleteHandle
<1>17. CASE Abandon(p)
  BY <1>17, NoCopy DEF Abandon
<1> QED BY <1>2, <1>3, <1>4, <1>5, <1>7, <1>8, <1>9, <1>11, <1>12, <1>13, <1>14,
           <1>15, <1>16, <1>17 DEF Step

LEMMA BeginCopies ==
    ASSUME TypeInv, NEW p \in Procs, NEW h \in Handles, BeginAdd(p, h) \/ BeginDel(p, h),
           NEW q \in Procs, CopyCurrent(q)
    PROVE  CopyCurrent(q)'
BY DEF BeginAdd, BeginDel, Goto, store, TypeInv, TypeOK, CopyCurrent, BlockSteps

LEMMA NextCopies == TypeInv /\ CopiesCurrent /\ [Next]_vars => CopiesCurrent'
<1> SUFFICES ASSUME TypeInv, CopiesCurrent, [Next]_vars PROVE CopiesCurrent'
  OBVIOUS
<1>1. \A q \in Procs : CopyCurrent(q)
  BY CopiesByProcess
<1>2. ASSUME NEW p \in Procs, NEW h \in Handles, BeginAdd(p, h) \/ BeginDel(p, h)
      PROVE  \A q \in Procs : CopyCurrent(q)'
  BY <1>1, <1>2, BeginCopies
<1>3. ASSUME NEW p \in Procs, Step(p) \/ Abandon(p)
      PROVE  \A q \in Procs : CopyCurrent(q)'
  BY <1>1, <1>3, OthersCopies, OwnCopies
<1>4. CASE UNCHANGED vars
  BY <1>4 DEF vars, store, local, CopiesCurrent
<1>5. ASSUME \A q \in Procs : CopyCurrent(q)' PROVE CopiesCurrent'
  BY <1>5 DEF CopiesCurrent, CopyCurrent, BlockSteps
<1> QED BY <1>2, <1>3, <1>4, <1>5 DEF Next

(* Compare-and-swap is enough: a process whose version has not moved holds *)
(* the object as it is, so the copy it writes back loses no other update.  *)
THEOREM CopiesAreCurrent == Spec => []CopiesCurrent
<1>1. Spec => []TypeInv
  BY InitTypes, NextTypes, PTL DEF Spec
<1>2. Init => CopiesCurrent
  BY DEF Init, CopiesCurrent
<1> QED BY <1>1, <1>2, NextCopies, PTL DEF Spec

-----------------------------------------------------------------------------
(* Commands: at most one runs for a sandbox, the sandbox's status says     *)
(* which, and only a sandbox that is up holds an address.                  *)
JobsOk ==
    /\ \A p \in Procs : /\ p \in Janitors => pc[p] = "idle"
                        /\ pc[p] \notin GcSteps
                        /\ job[p] # None => pc[p] # "idle"
                        /\ pc[p] \in AddSteps => status[job[p]] = "adding"
                        /\ pc[p] \in DelSteps => status[job[p]] = "deleting"
    /\ \A p, q \in Procs : job[p] = job[q] /\ job[p] # None => p = q
    /\ \A h \in Handles : held[h] # None => status[h] = "up"

(* The same of the commands alone, with a collector whose calls are none.  *)
CommandOk(p) ==
    /\ job[p] # None => pc[p] # "idle"
    /\ pc[p] \in AddSteps => status[job[p]] = "adding"
    /\ pc[p] \in DelSteps => status[job[p]] = "deleting"
Commands == Procs \ Janitors
CommandsOk ==
    /\ \A p \in Commands : CommandOk(p)
    /\ \A p, q \in Commands : job[p] = job[q] /\ job[p] # None => p = q
    /\ \A h \in Handles : held[h] # None => status[h] = "up"

LEMMA JobsOfCommands ==
    ASSUME TypeInv
    PROVE  JobsOk <=> CommandsOk /\ \A p \in Janitors \cap Procs : pc[p] = "idle" /\ job[p] = None
BY DEF JobsOk, CommandsOk, CommandOk, Commands, TypeInv, Busy, AddSteps, DelSteps, GcSteps

(* A step goes on with p's command or ends it. *)
Goes(p) ==
    /\ UNCHANGED <<job, status, held, abandoned>>
    /\ pc[p] \in AddSteps => pc'[p] \in AddSteps
    /\ pc[p] \in DelSteps => pc'[p] \in DelSteps
Ends(p) ==
    /\ pc'[p] = "idle" /\ job'[p] = None /\ got'[p] = None
    /\ abandoned \subseteq abandoned'
    /\ \E s \in {"up", "failed", "gone"} :
          /\ status' = [status EXCEPT ![job[p]] = s]
          /\ \/ held' = held
             \/ s = "up" /\ \E a : held' = [held EXCEPT ![job[p]] = a]

LEMMA StepInCall == ASSUME NEW p, Step(p) \/ Abandon(p) PROVE pc[p] # "idle"
BY DEF Step, IpsByHandle, Recover, BlockOwner, GetBlock, GetAffinity,
       CreateAffinity, ConfirmAffinity, BlockFull, UpdateBlock, CreateBlock,
       GetHandle, UpdateHandle, CreateHandle, ReleaseGet, ReleaseBlock,
       ReleaseWrite, DeleteHandle, Abandon

LEMMA HelpersShape ==
    ASSUME TypeInv, NEW p \in Commands
    PROVE  /\ \A ok : End(p, ok) => Ends(p)
           /\ \A a : Return(p, a) => Ends(p)
           /\ pc[p] \in AddSteps /\ Retry(p, "get_block") => Goes(p) \/ Ends(p)
           /\ pc[p] \in DelSteps /\ Retry(p, "release_get") => Goes(p) \/ Ends(p)
           /\ pc[p] \in AddSteps /\ NextBlock(p) => Goes(p) \/ Ends(p)
           /\ \A rest : pc[p] \in DelSteps /\ Visit(p, rest)
                        /\ UNCHANGED <<job, world>> => Goes(p)
<1>1. LocalType /\ p \in Procs /\ p \notin Janitors
  BY TypeParts DEF TypeInv, Commands
<1>2. AddSteps \cap DelSteps = {}
  BY DEF AddSteps, DelSteps
<1>clear. Clear(p) => pc'[p] = "idle" /\ job'[p] = None /\ got'[p] = None
  BY <1>1 DEF Clear, LocalType
<1>3. ASSUME NEW ok, End(p, ok) PROVE Ends(p)
  <2>1. \E s \in {"failed", "gone"} : status' = [status EXCEPT ![job[p]] = s]
    BY <1>1, <1>3 DEF End, Outcome
  <2>2. held' = held /\ abandoned \subseteq abandoned'
    BY <1>3 DEF End
  <2>3. Clear(p)
    BY <1>3 DEF End
  <2> QED BY <1>clear, <2>1, <2>2, <2>3 DEF Ends
<1>4. ASSUME NEW a, Return(p, a) PROVE Ends(p)
  <2>1. /\ status' = [status EXCEPT ![job[p]] = "up"]
        /\ held' = [held EXCEPT ![job[p]] = a]
        /\ abandoned \subseteq abandoned' /\ Clear(p)
    BY <1>1, <1>4 DEF Return, Outcome
  <2> QED BY <1>clear, <2>1 DEF Ends
<1>5. ASSUME NEW x, pc' = [pc EXCEPT ![p] = x], UNCHANGED <<job, world>>,
             \/ pc[p] \in AddSteps /\ x \in AddSteps
             \/ pc[p] \in DelSteps /\ x \in DelSteps
      PROVE  Goes(p)
  BY <1>1, <1>2, <1>5 DEF world, Goes, LocalType
<1>6. "get_block" \in AddSteps /\ "block_owner" \in AddSteps
      /\ "release_get" \in DelSteps /\ "release_block" \in DelSteps
      /\ "delete_handle" \in DelSteps
  BY DEF AddSteps, DelSteps
<1>7. pc[p] \in AddSteps /\ Retry(p, "get_block") => Goes(p) \/ Ends(p)
  BY <1>3, <1>5, <1>6 DEF Retry, Fail
<1>8. pc[p] \in DelSteps /\ Retry(p, "release_get") => Goes(p) \/ Ends(p)
  BY <1>3, <1>5, <1>6 DEF Retry, Fail
<1>9. pc[p] \in AddSteps /\ NextBlock(p) => Goes(p) \/ Ends(p)
  BY <1>3, <1>5, <1>6 DEF NextBlock, Done
<1>10. ASSUME NEW rest, pc[p] \in DelSteps, Visit(p, rest), UNCHANGED <<job, world>>
       PROVE  Goes(p)
  BY <1>5, <1>6, <1>10 DEF Visit, Goto
<1> QED BY <1>3, <1>4, <1>7, <1>8, <1>9, <1>10

LEMMA StepShape ==
    ASSUME TypeInv, NEW p \in Commands, Step(p) \/ Abandon(p)
    PROVE  Goes(p) \/ Ends(p)
<1>1. LocalType /\ StoreType
  BY TypeParts DEF TypeInv
<1>2. pc[p] # "idle" /\ p \in Procs /\ p \notin Janitors
  BY StepInCall DEF Commands
<1>3. /\ \A ok : End(p, ok) => Ends(p)
      /\ \A a : Return(p, a) => Ends(p)
      /\ pc[p] \in AddSteps /\ Retry(p, "get_block") => Goes(p) \/ Ends(p)
      /\ pc[p] \in DelSteps /\ Retry(p, "release_get") => Goes(p) \/ Ends(p)
      /\ pc[p] \in AddSteps /\ NextBlock(p) => Goes(p) \/ Ends(p)
      /\ \A rest : pc[p] \in DelSteps /\ Visit(p, rest)
                   /\ UNCHANGED <<job, world>> => Goes(p)
  BY <1>2, HelpersShape
<1>4. ASSUME NEW x, Goto(p, x), UNCHANGED <<job, world>>,
             \/ pc[p] \in AddSteps /\ x \in AddSteps
             \/ pc[p] \in DelSteps /\ x \in DelSteps
      PROVE  Goes(p)
  BY <1>1, <1>4 DEF Goto, world, Goes, LocalType, AddSteps, DelSteps
<1>5. CASE IpsByHandle(p)
  BY <1>4, <1>5 DEF IpsByHandle, AddSteps
<1>6. CASE Recover(p)
  <2>1. CASE \E a : Return(p, a)
    BY <1>3, <2>1
  <2>2. CASE ~ \E a : Return(p, a)
    BY <1>4, <1>6, <2>2 DEF Recover, AddSteps
  <2> QED BY <2>1, <2>2
<1>7. CASE BlockOwner(p)
  BY <1>3, <1>4, <1>7 DEF BlockOwner, local, AddSteps
<1>8. CASE GetBlock(p)
  BY <1>3, <1>4, <1>8 DEF GetBlock, AddSteps
<1>9. CASE GetAffinity(p)
  <2>1. affinities[Claim(p)] \in AffinityStates
    <3>1. job[p] \in Handles /\ cur[p] \in Blocks
      BY <1>1, <1>2 DEF TypeInv, Busy, Resting, GcSteps, LocalType
    <3>2. Claim(p) \in Hosts \X Blocks
      BY <3>1, HostOfAssumption DEF Claim
    <3> QED BY <1>1, <3>2 DEF StoreType
  <2>2. ClaimStep(affinities[Claim(p)]) \in
           {"create_affinity", "confirm_affinity", "write_block"}
    BY <2>1 DEF ClaimStep, AffinityStates
  <2> QED BY <1>4, <1>9, <2>2 DEF GetAffinity, local, AddSteps
<1>10. CASE CreateAffinity(p)
  BY <1>3, <1>4, <1>10 DEF CreateAffinity, local, AddSteps
<1>11. CASE ConfirmAffinity(p)
  BY <1>3, <1>4, <1>11 DEF ConfirmAffinity, Fail, local, AddSteps
<1>12. CASE BlockFull(p)
  BY <1>3, <1>12 DEF BlockFull, AddSteps
<1>13. CASE UpdateBlock(p)
  BY <1>3, <1>4, <1>13 DEF UpdateBlock, Fail, AddSteps
<1>14. CASE CreateBlock(p)
  BY <1>3, <1>4, <1>14 DEF CreateBlock, AddSteps
<1>15. CASE GetHandle(p)
  BY <1>4, <1>15 DEF GetHandle, AddSteps
<1>16. CASE UpdateHandle(p)
  BY <1>3, <1>16 DEF UpdateHandle, Fail, AddSteps
<1>17. CASE CreateHandle(p)
  BY <1>3, <1>17 DEF CreateHandle, AddSteps
<1>18. CASE ReleaseGet(p)
  BY <1>3, <1>18 DEF ReleaseGet, Done, DelSteps
<1>19. CASE ReleaseBlock(p)
  BY <1>3, <1>4, <1>19 DEF ReleaseBlock, DelSteps
<1>20. CASE ReleaseWrite(p)
  BY <1>3, <1>20 DEF ReleaseWrite, Fail, DelSteps
<1>21. CASE DeleteHandle(p)
  BY <1>3, <1>21 DEF DeleteHandle, Done, Fail, DelSteps
<1>22. CASE Abandon(p)
  BY <1>1, <1>2, <1>22 DEF Abandon, Clear, Outcome, Ends, LocalType
<1> QED BY <1>5, <1>6, <1>7, <1>8, <1>9, <1>10, <1>11, <1>12, <1>13, <1>14, <1>15,
           <1>16, <1>17, <1>18, <1>19, <1>20, <1>21, <1>22 DEF Step

LEMMA BeginJobs ==
    ASSUME TypeInv, CommandsOk, NEW p \in Procs, NEW h \in Handles,
           BeginAdd(p, h) \/ BeginDel(p, h)
    PROVE  CommandsOk'
<1>1. LocalType /\ WorldType /\ Busy /\ None \notin Handles
  BY TypeParts, SentinelAssumption DEF TypeInv
<1>2. /\ p \in Commands /\ pc[p] = "idle"
      /\ status[h] \in {"new", "failed", "up"}
      /\ job' = [job EXCEPT ![p] = h]
  BY DEF BeginAdd, BeginDel, Commands
<1>3. \A q \in Commands : job[q] # h
  <2>1. ASSUME NEW q \in Commands, job[q] = h PROVE FALSE
    <3>1. CommandOk(q) /\ pc[q] # "idle" /\ pc[q] \notin GcSteps
      BY <1>1, <2>1 DEF CommandsOk, CommandOk, Busy, Commands
    <3> QED BY <1>1, <1>2, <2>1, <3>1 DEF CommandOk, LocalType, Commands
  <2> QED BY <2>1
<1>4. \A q, r \in Commands : job'[q] = job'[r] /\ job'[q] # None => q = r
  BY <1>1, <1>2, <1>3 DEF CommandsOk, LocalType, Commands
<1>5. ASSUME NEW q \in Commands, q # p PROVE CommandOk(q)'
  <2>1. /\ pc'[q] = pc[q] /\ job'[q] = job[q]
        /\ job[q] \in Handles => status'[job[q]] = status[job[q]]
    BY <1>1, <1>2, <1>3, <1>5 DEF BeginAdd, BeginDel, Goto, LocalType, WorldType, Commands
  <2>2. pc[q] \in AddSteps \cup DelSteps => job[q] \in Handles
    BY <1>1 DEF Busy, Resting, AddSteps, DelSteps, Commands
  <2> QED BY <2>1, <2>2 DEF CommandsOk, CommandOk
<1>6. CommandOk(p)'
  BY <1>1, <1>2 DEF BeginAdd, BeginDel, Goto, LocalType, WorldType, CommandOk, Commands,
                    AddSteps, DelSteps
<1>7. \A g \in Handles : held'[g] # None => status'[g] = "up"
  BY <1>1 DEF BeginAdd, BeginDel, CommandsOk, WorldType
<1> QED BY <1>4, <1>5, <1>6, <1>7 DEF CommandsOk, Commands

LEMMA StepJobs ==
    ASSUME TypeInv, CommandsOk, NEW p \in Commands, Step(p) \/ Abandon(p)
    PROVE  CommandsOk'
<1>1. LocalType /\ WorldType /\ Busy /\ None \notin Handles /\ p \in Procs
  BY TypeParts, SentinelAssumption DEF TypeInv, Commands
<1>2. Frame(p) /\ TypeInv'
  BY <1>1, StepFrame, ReadTypes, WriteTypes, AbandonTypes DEF Step
<1>3. pc[p] \in AddSteps \cup DelSteps /\ job[p] \in Handles
  <2>1. pc[p] # "idle" /\ pc[p] \notin GcSteps
    BY <1>1, StepInCall DEF Busy, Commands
  <2> QED BY <1>1, <2>1 DEF Busy, Resting, GcSteps, LocalType
<1>4. \A q \in Commands : q # p => job[q] # job[p]
  BY <1>1, <1>3 DEF CommandsOk
<1>5. \A q \in Procs : pc[q] \in AddSteps \cup DelSteps => job[q] \in Handles
  BY <1>1 DEF Busy, Resting, AddSteps, DelSteps
<1>6. CASE Goes(p)
  <2>1. /\ UNCHANGED <<job, status, held>>
        /\ pc[p] \in AddSteps => pc'[p] \in AddSteps
        /\ pc[p] \in DelSteps => pc'[p] \in DelSteps
    BY <1>6 DEF Goes
  <2>2. \A q \in Commands : q # p => pc'[q] = pc[q]
    BY <1>2 DEF Frame, Commands
  <2>3. CommandOk(p)'
    BY <1>3, <2>1 DEF CommandsOk, CommandOk, AddSteps, DelSteps
  <2>4. \A q \in Commands : q # p => CommandOk(q)'
    BY <2>1, <2>2 DEF CommandsOk, CommandOk
  <2> QED BY <2>1, <2>3, <2>4 DEF CommandsOk, Commands
<1>7. CASE Ends(p)
  <2>1. PICK s \in {"up", "failed", "gone"} :
           /\ status' = [status EXCEPT ![job[p]] = s]
           /\ \/ held' = held
              \/ s = "up" /\ \E a : held' = [held EXCEPT ![job[p]] = a]
    BY <1>7 DEF Ends
  <2>2. \A h \in Handles : status'[h] = IF h = job[p] THEN s ELSE status[h]
    BY <1>1, <2>1 DEF WorldType
  <2>3. held[job[p]] = None
    BY <1>3 DEF CommandsOk, CommandOk
  <2>4. \A h \in Handles : held'[h] # None => status'[h] = "up"
    BY <1>1, <2>1, <2>2, <2>3 DEF CommandsOk, WorldType
  <2>5. ASSUME NEW q \in Commands, q # p PROVE CommandOk(q)'
    <3>1. pc'[q] = pc[q] /\ job'[q] = job[q]
      BY <1>2, <2>5 DEF Frame, Commands
    <3>2. pc[q] \in AddSteps \cup DelSteps => status'[job[q]] = status[job[q]]
      BY <1>4, <1>5, <2>2, <2>5 DEF Commands
    <3> QED BY <3>1, <3>2 DEF CommandsOk, CommandOk
  <2>6. \A q, r \in Commands : job'[q] = job'[r] /\ job'[q] # None => q = r
    BY <1>2, <1>7 DEF Ends, Frame, CommandsOk, Commands
  <2>7. CommandOk(p)'
    BY <1>7 DEF Ends, CommandOk, AddSteps, DelSteps
  <2> QED BY <2>4, <2>5, <2>6, <2>7 DEF CommandsOk, Commands
<1> QED BY <1>6, <1>7, StepShape

LEMMA NextJobs == TypeInv /\ JobsOk /\ [Next]_vars => JobsOk'
<1> SUFFICES ASSUME TypeInv, JobsOk, [Next]_vars PROVE JobsOk'
  OBVIOUS
<1>1. TypeInv' /\ CommandsOk /\ \A p \in Janitors \cap Procs : pc[p] = "idle" /\ job[p] = None
  BY NextTypes, JobsOfCommands
<1> DEFINE Kept == CommandsOk' /\ \A p \in Janitors \cap Procs : pc'[p] = "idle" /\ job'[p] = None
<1>2. ASSUME Kept PROVE JobsOk'
  <2>1. TypeInv' /\ CommandsOk' /\ \A p \in Janitors \cap Procs : (pc[p] = "idle" /\ job[p] = None)'
    BY <1>1, <1>2
  <2> QED BY <2>1 DEF JobsOk, CommandsOk, CommandOk, Commands, TypeInv, Busy,
                      AddSteps, DelSteps, GcSteps
<1>3. ASSUME NEW p \in Procs, NEW h \in Handles, BeginAdd(p, h) \/ BeginDel(p, h)
      PROVE  Kept
  <2>1. p \notin Janitors /\ \A q \in Procs : q # p => pc'[q] = pc[q] /\ job'[q] = job[q]
    BY <1>3 DEF BeginAdd, BeginDel, Goto, TypeInv, TypeOK
  <2> QED BY <1>1, <1>3, <2>1, BeginJobs
<1>4. ASSUME NEW p \in Procs, Step(p) \/ Abandon(p)
      PROVE  Kept
  <2>1. p \in Commands
    BY <1>1, <1>4, StepInCall DEF Commands
  <2>2. Frame(p)
    BY <1>4, StepFrame
  <2>3. \A q \in Janitors \cap Procs : pc'[q] = pc[q] /\ job'[q] = job[q]
    BY <2>1, <2>2 DEF Frame, Commands
  <2> QED BY <1>1, <1>4, <2>1, <2>3, StepJobs
<1>5. CASE UNCHANGED vars
  BY <1>5 DEF vars, local, world, JobsOk
<1> HIDE DEF Kept
<1> QED BY <1>2, <1>3, <1>4, <1>5 DEF Next

-----------------------------------------------------------------------------
(* A block that p is about to allocate from is a block of p's node. *)
WriteSteps == {"get_affinity", "create_affinity", "confirm_affinity", "write_block"}
CopyOwned(p) ==
    pc[p] \in WriteSteps /\ copy[p] # Absent => copy[p].host = HostOf[job[p]]
CopiesOwned == \A p \in Procs : CopyOwned(p)

LEMMA BeginCopiesOwned ==
    ASSUME TypeInv, CopiesOwned, NEW p \in Procs, NEW h \in Handles,
           BeginAdd(p, h) \/ BeginDel(p, h)
    PROVE  CopiesOwned'
<1>1. LocalType
  BY TypeParts DEF TypeInv
<1> QED BY <1>1 DEF BeginAdd, BeginDel, Goto, LocalType, CopiesOwned, CopyOwned, WriteSteps

LEMMA StepCopiesOwned ==
    ASSUME TypeInv, CopiesOwned, NEW p \in Procs, Step(p) \/ Abandon(p)
    PROVE  CopiesOwned'
<1>type. LocalType
  BY TypeParts DEF TypeInv
<1>own. CopyOwned(p)'
  <2>1. CopyOwned(p)
    BY DEF CopiesOwned
  <2>2. ASSUME \/ pc'[p] \notin WriteSteps
               \/ copy'[p] = Absent
        PROVE  CopyOwned(p)'
    BY <2>2 DEF CopyOwned
  <2>3. ASSUME Clear(p) PROVE pc'[p] \notin WriteSteps
    BY <1>type, <2>3 DEF Clear, LocalType, WriteSteps
  <2>4. ASSUME \/ Fail(p) \/ Done(p) \/ \E a : Return(p, a)
        PROVE  pc'[p] \notin WriteSteps
    BY <2>3, <2>4 DEF Fail, Done, End, Return
  <2>5. ASSUME \E start \in {"get_block", "release_get"} : Retry(p, start)
        PROVE  pc'[p] \notin WriteSteps
    BY <1>type, <2>4, <2>5 DEF Retry, LocalType, WriteSteps
  <2>6. ASSUME NextBlock(p) PROVE pc'[p] \notin WriteSteps
    BY <1>type, <2>4, <2>6 DEF NextBlock, LocalType, WriteSteps
  <2>7. ASSUME \E rest : Visit(p, rest) PROVE pc'[p] \notin WriteSteps
    BY <1>type, <2>7 DEF Visit, Goto, LocalType, WriteSteps
  <2>8. CASE IpsByHandle(p) \/ BlockFull(p) \/ BlockOwner(p) \/ Recover(p)
    <3>1. CASE NextBlock(p) \/ \E a : Return(p, a)
      BY <2>2, <2>4, <2>6, <3>1
    <3>2. CASE ~ (NextBlock(p) \/ \E a : Return(p, a))
      BY <1>type, <2>8, <3>2 DEF IpsByHandle, BlockFull, BlockOwner, Recover, Goto,
                              LocalType, CopyOwned, WriteSteps
    <3> QED BY <3>1, <3>2
  <2>9. CASE GetBlock(p)
    <3>1. CASE NextBlock(p)
      BY <2>2, <2>6, <3>1
    <3>2. CASE ~ NextBlock(p)
      BY <1>type, <2>9, <3>2 DEF GetBlock, Foreign, LocalType, CopyOwned
    <3> QED BY <3>1, <3>2
  <2>10. ASSUME pc[p] \in WriteSteps, UNCHANGED local PROVE CopyOwned(p)'
    BY <2>1, <2>10 DEF local, CopyOwned
  <2>11. CASE GetAffinity(p)
    BY <2>10, <2>11 DEF GetAffinity, WriteSteps
  <2>12. CASE CreateAffinity(p) \/ ConfirmAffinity(p)
    BY <2>2, <2>4, <2>5, <2>10, <2>12 DEF CreateAffinity, ConfirmAffinity, WriteSteps
  <2>13. ASSUME NEW x, x \notin WriteSteps, Goto(p, x) PROVE pc'[p] \notin WriteSteps
    BY <1>type, <2>13 DEF Goto, LocalType
  <2>14. CASE UpdateBlock(p) \/ CreateBlock(p) \/ GetHandle(p)
    BY <2>2, <2>4, <2>5, <2>13, <2>14 DEF UpdateBlock, CreateBlock, GetHandle, WriteSteps
  <2>15. CASE UpdateHandle(p) \/ CreateHandle(p) \/ DeleteHandle(p)
    BY <2>2, <2>4, <2>5, <2>15 DEF UpdateHandle, CreateHandle, DeleteHandle
  <2>16. CASE ReleaseGet(p) \/ ReleaseBlock(p) \/ ReleaseWrite(p)
    BY <2>2, <2>4, <2>5, <2>7, <2>13, <2>16
       DEF ReleaseGet, ReleaseBlock, ReleaseWrite, WriteSteps
  <2>17. CASE Abandon(p)
    BY <2>2, <2>3, <2>17 DEF Abandon
  <2> QED BY <2>8, <2>9, <2>11, <2>12, <2>14, <2>15, <2>16, <2>17 DEF Step
<1> QED BY <1>own, StepFrame DEF Frame, CopiesOwned, CopyOwned

LEMMA NextCopiesOwned == TypeInv /\ CopiesOwned /\ [Next]_vars => CopiesOwned'
<1>1. UNCHANGED vars /\ CopiesOwned => CopiesOwned'
  BY DEF vars, local, CopiesOwned, CopyOwned
<1> QED BY <1>1, BeginCopiesOwned, StepCopiesOwned DEF Next

-----------------------------------------------------------------------------
(* What a step does to the leases: nothing, or p's handle gets a free      *)
(* address in a block of its node, or loses its addresses in one block.    *)
HostsKept ==
    \A b \in Blocks : blocks[b] # Absent =>
        blocks'[b] # Absent /\ blocks'[b].host = blocks[b].host
Grants(p) ==
    /\ pc[p] = "write_block" /\ pc'[p] = "get_handle"
    /\ \E s \in Slots :
          /\ got'[p] = <<cur[p], s>>
          /\ LeaseOf(<<cur[p], s>>) = Free
          /\ \A a \in Addresses :
                LeaseOf(a)' = IF a = <<cur[p], s>> THEN job[p] ELSE LeaseOf(a)
    /\ blocks'[cur[p]] # Absent /\ blocks'[cur[p]].host = HostOf[job[p]]
    /\ \A b \in Blocks : b # cur[p] => blocks'[b] = blocks[b]
    /\ UNCHANGED <<handles, affinities, job, cur, todo, world>>
Revokes(p) ==
    /\ pc[p] = "release_write"
    /\ \A a \in Addresses :
          LeaseOf(a)' = IF a[1] = cur[p] /\ LeaseOf(a) = job[p]
                        THEN Free ELSE LeaseOf(a)
    /\ \A b \in Blocks : blocks'[b] = Absent <=> blocks[b] = Absent
    /\ Visit(p, todo[p] \ {cur[p]})
    /\ UNCHANGED <<handles, affinities, job, world>>

LEMMA BlockEffect ==
    ASSUME TypeInv, CopiesCurrent, CopiesOwned, NEW p \in Procs,
           Step(p) \/ Abandon(p)
    PROVE  /\ UNCHANGED blocks \/ Grants(p) \/ Revokes(p)
           /\ HostsKept
           /\ UpdateBlock(p) \/ CreateBlock(p)
              => Grants(p) \/ Retry(p, "get_block") \/ Fail(p)
<1>1. LocalType /\ StoreType
  BY TypeParts DEF TypeInv
<1>2. ASSUME UpdateBlock(p), ~ Retry(p, "get_block"), ~ Fail(p)
      PROVE  Grants(p) /\ HostsKept
  <2>1. job[p] \in Handles /\ cur[p] \in Blocks
    BY <1>1, <1>2 DEF UpdateBlock, TypeInv, Busy, Resting, GcSteps, LocalType
  <2>2. PICK s \in SlotsOf(copy[p], Free) :
           /\ blocks' = [blocks EXCEPT ![cur[p]] = WithSlot(copy[p], s, job[p])]
           /\ got' = [got EXCEPT ![p] = <<cur[p], s>>]
    BY <1>2 DEF UpdateBlock
  <2>3. /\ pc[p] = "write_block" /\ copy[p] # Absent
        /\ blocks[cur[p]] # Absent /\ "block" \notin moved[p]
        /\ Goto(p, "get_handle")
        /\ UNCHANGED <<handles, affinities, job, cur, todo, world>>
    BY <1>2 DEF UpdateBlock, Matches
  <2>4. blocks[cur[p]] = copy[p]
    BY <2>3 DEF CopiesCurrent
  <2>5. copy[p].host = HostOf[job[p]]
    BY <2>3 DEF CopiesOwned, CopyOwned, WriteSteps
  <2>6. s \in Slots /\ copy[p].alloc[s] = Free
    BY <2>2 DEF SlotsOf
  <2>7. copy[p] \in Block /\ copy[p].alloc \in [Slots -> Handles \cup {Free}]
    BY <1>1, <2>3 DEF LocalType, Block
  <2> DEFINE new == WithSlot(copy[p], s, job[p])
  <2>8. /\ new # Absent /\ new.host = HostOf[job[p]]
        /\ \A t \in Slots : new.alloc[t] = IF t = s THEN job[p] ELSE copy[p].alloc[t]
    <3>1. new \in Block
      BY <2>1, <2>6, <2>7 DEF WithSlot, Block
    <3> QED BY <2>5, <2>6, <2>7, <3>1, SentinelAssumption DEF WithSlot
  <2> HIDE DEF new
  <2>9. /\ blocks'[cur[p]] = new
        /\ \A b \in Blocks : b # cur[p] => blocks'[b] = blocks[b]
        /\ got'[p] = <<cur[p], s>> /\ pc'[p] = "get_handle"
    BY <1>1, <2>1, <2>2, <2>3 DEF new, StoreType, LocalType, Goto
  <2>10. LeaseOf(<<cur[p], s>>) = Free
    BY <2>3, <2>4, <2>6 DEF LeaseOf
  <2>11. \A a \in Addresses :
            LeaseOf(a)' = IF a = <<cur[p], s>> THEN job[p] ELSE LeaseOf(a)
    <3>1. ASSUME NEW b \in Blocks, NEW t \in Slots
          PROVE  LeaseOf(<<b, t>>)' =
                    IF b = cur[p] /\ t = s THEN job[p] ELSE LeaseOf(<<b, t>>)
      BY <2>3, <2>4, <2>8, <2>9 DEF LeaseOf
    <3>2. \A a \in Addresses : \E b \in Blocks, t \in Slots : a = <<b, t>>
      BY DEF Addresses
    <3> QED BY <3>1, <3>2
  <2>12. Grants(p)
    BY <2>3, <2>6, <2>8, <2>9, <2>10, <2>11 DEF Grants
  <2>13. HostsKept
    BY <2>1, <2>4, <2>5, <2>8, <2>9 DEF HostsKept
  <2> QED BY <2>12, <2>13
<1>3. ASSUME CreateBlock(p), ~ Retry(p, "get_block")
      PROVE  Grants(p) /\ HostsKept
  <2>1. job[p] \in Handles /\ cur[p] \in Blocks /\ HostOf[job[p]] \in Hosts
    BY <1>1, <1>3, HostOfAssumption DEF CreateBlock, TypeInv, Busy, Resting, GcSteps, LocalType
  <2> DEFINE fresh == FreshBlock(HostOf[job[p]])
  <2>2. PICK s \in Slots :
           /\ blocks' = [blocks EXCEPT ![cur[p]] = WithSlot(fresh, s, job[p])]
           /\ got' = [got EXCEPT ![p] = <<cur[p], s>>]
    BY <1>3 DEF CreateBlock
  <2>3. /\ pc[p] = "write_block" /\ blocks[cur[p]] = Absent
        /\ Goto(p, "get_handle")
        /\ UNCHANGED <<handles, affinities, job, cur, todo, world>>
    BY <1>3 DEF CreateBlock
  <2> DEFINE new == WithSlot(fresh, s, job[p])
  <2>4. /\ new # Absent /\ new.host = HostOf[job[p]]
        /\ \A t \in Slots : new.alloc[t] = IF t = s THEN job[p] ELSE Free
    <3>1. fresh.alloc \in [Slots -> Handles \cup {Free}]
          /\ fresh.host = HostOf[job[p]] /\ \A t \in Slots : fresh.alloc[t] = Free
      BY DEF FreshBlock
    <3> HIDE DEF fresh
    <3>2. new \in Block
      BY <2>1, <3>1 DEF WithSlot, Block
    <3> QED BY <3>1, <3>2, SentinelAssumption DEF WithSlot
  <2> HIDE DEF new, fresh
  <2>5. /\ blocks'[cur[p]] = new
        /\ \A b \in Blocks : b # cur[p] => blocks'[b] = blocks[b]
        /\ got'[p] = <<cur[p], s>> /\ pc'[p] = "get_handle"
    BY <1>1, <2>1, <2>2, <2>3 DEF new, StoreType, LocalType, Goto
  <2>6. LeaseOf(<<cur[p], s>>) = Free
    BY <2>3 DEF LeaseOf
  <2>7. \A a \in Addresses :
           LeaseOf(a)' = IF a = <<cur[p], s>> THEN job[p] ELSE LeaseOf(a)
    <3>1. ASSUME NEW b \in Blocks, NEW t \in Slots
          PROVE  LeaseOf(<<b, t>>)' =
                    IF b = cur[p] /\ t = s THEN job[p] ELSE LeaseOf(<<b, t>>)
      BY <2>3, <2>4, <2>5 DEF LeaseOf
    <3>2. \A a \in Addresses : \E b \in Blocks, t \in Slots : a = <<b, t>>
      BY DEF Addresses
    <3> QED BY <3>1, <3>2
  <2>8. Grants(p)
    BY <2>3, <2>4, <2>5, <2>6, <2>7 DEF Grants
  <2>9. HostsKept
    BY <2>1, <2>3, <2>5 DEF HostsKept
  <2> QED BY <2>8, <2>9
<1>4. ASSUME ReleaseWrite(p), ~ UNCHANGED blocks
      PROVE  Revokes(p) /\ HostsKept
  <2>1. job[p] \in Handles /\ cur[p] \in Blocks /\ copy[p] \in Block
    BY <1>1, <1>4 DEF ReleaseWrite, TypeInv, Busy, Resting, GcSteps, LocalType
  <2>2. /\ pc[p] = "release_write" /\ blocks[cur[p]] # Absent
        /\ "block" \notin moved[p]
        /\ blocks' = [blocks EXCEPT ![cur[p]] = Without(copy[p], job[p])]
        /\ Visit(p, todo[p] \ {cur[p]})
        /\ UNCHANGED <<handles, affinities, job, world>>
    BY <1>4 DEF ReleaseWrite, Matches
  <2>3. blocks[cur[p]] = copy[p]
    BY <2>1, <2>2, SentinelAssumption DEF CopiesCurrent
  <2> DEFINE new == Without(copy[p], job[p])
  <2>4. /\ new # Absent /\ new.host = copy[p].host
        /\ \A t \in Slots : new.alloc[t] =
              IF copy[p].alloc[t] = job[p] THEN Free ELSE copy[p].alloc[t]
    <3>1. new \in Block
      BY <2>1 DEF Without, Block
    <3> QED BY <3>1, SentinelAssumption DEF Without
  <2> HIDE DEF new
  <2>5. /\ blocks'[cur[p]] = new
        /\ \A b \in Blocks : b # cur[p] => blocks'[b] = blocks[b]
    BY <1>1, <2>1, <2>2 DEF new, StoreType
  <2>6. \A a \in Addresses :
           LeaseOf(a)' = IF a[1] = cur[p] /\ LeaseOf(a) = job[p]
                         THEN Free ELSE LeaseOf(a)
    <3>1. ASSUME NEW b \in Blocks, NEW t \in Slots
          PROVE  LeaseOf(<<b, t>>)' =
                    IF b = cur[p] /\ LeaseOf(<<b, t>>) = job[p]
                    THEN Free ELSE LeaseOf(<<b, t>>)
      BY <2>2, <2>3, <2>4, <2>5 DEF LeaseOf
    <3>2. \A a \in Addresses : \E b \in Blocks, t \in Slots : a = <<b, t>>
      BY DEF Addresses
    <3> QED BY <3>1, <3>2
  <2>7. \A b \in Blocks : blocks'[b] = Absent <=> blocks[b] = Absent
    BY <2>2, <2>4, <2>5
  <2>8. HostsKept
    BY <2>3, <2>4, <2>5 DEF HostsKept
  <2> QED BY <2>2, <2>6, <2>7, <2>8 DEF Revokes
<1>5. UNCHANGED blocks => HostsKept
  BY DEF HostsKept
<1>6. UNCHANGED blocks \/ UpdateBlock(p) \/ CreateBlock(p) \/ ReleaseWrite(p)
  BY DEF Step, IpsByHandle, Recover, BlockOwner, GetBlock, GetAffinity,
         CreateAffinity, ConfirmAffinity, BlockFull, GetHandle, UpdateHandle,
         CreateHandle, ReleaseGet, ReleaseBlock, DeleteHandle, Abandon, store
<1>7. ASSUME \/ UpdateBlock(p) /\ (Retry(p, "get_block") \/ Fail(p))
             \/ CreateBlock(p) /\ Retry(p, "get_block")
      PROVE  UNCHANGED blocks
  <2>1. pc'[p] # "get_handle"
    BY <1>1, <1>7 DEF Retry, Fail, End, Clear, LocalType
  <2>2. ~ Goto(p, "get_handle")
    BY <1>1, <2>1 DEF Goto, LocalType
  <2> QED BY <1>7, <2>2 DEF UpdateBlock, CreateBlock
<1> QED BY <1>2, <1>3, <1>4, <1>5, <1>6, <1>7

-----------------------------------------------------------------------------
(* What an ADD has been given, and what it returned, stays leased to it.   *)
Written == {"get_handle", "write_handle"}
GotLeased ==
    \A p \in Procs : pc[p] \in Written =>
        /\ got[p] \in Addresses
        /\ LeaseOf(got[p]) = job[p]
        /\ blocks[got[p][1]].host = HostOf[job[p]]
Leased == GotLeased /\ HeldIsLeased /\ StrictAffinity
BlockInv == TypeInv /\ CopiesCurrent /\ CopiesOwned
DriverInv == TypeInv /\ CopiesCurrent /\ JobsOk /\ CopiesOwned

(* Only a release of the handle takes one of its leases away. *)
LEMMA LeaseKept ==
    ASSUME BlockInv, NEW p \in Procs, Step(p) \/ Abandon(p),
           NEW a \in Addresses, NEW h \in Handles, LeaseOf(a) = h,
           ~ (pc[p] = "release_write" /\ job[p] = h)
    PROVE  LeaseOf(a)' = h /\ blocks'[a[1]].host = blocks[a[1]].host
<1>1. a[1] \in Blocks /\ h # Free
  BY SentinelAssumption DEF Addresses
<1>2. blocks[a[1]] # Absent
  BY <1>1 DEF LeaseOf
<1>3. blocks'[a[1]].host = blocks[a[1]].host
  BY <1>1, <1>2, BlockEffect DEF BlockInv, HostsKept
<1>4. CASE UNCHANGED blocks
  BY <1>3, <1>4 DEF LeaseOf
<1>5. CASE Grants(p)
  BY <1>1, <1>3, <1>5 DEF Grants
<1>6. CASE Revokes(p)
  BY <1>1, <1>3, <1>6 DEF Revokes
<1> QED BY <1>4, <1>5, <1>6, BlockEffect DEF BlockInv

(* ADD reports an address that is leased to its sandbox, or that it has    *)
(* just written.                                                           *)
LEMMA HeldSource ==
    ASSUME TypeInv, NEW p \in Procs, Step(p) \/ Abandon(p)
    PROVE  \/ UNCHANGED held
           \/ \E a : /\ held' = [held EXCEPT ![job[p]] = a]
                    /\ \/ a \in Addresses /\ LeaseOf(a) = job[p]
                       \/ pc[p] \in Written /\ a = got[p]
                    /\ pc[p] \in AddSteps /\ UNCHANGED blocks
<1>1. LocalType /\ StoreType /\ Busy
  BY TypeParts DEF TypeInv
<1>2. CASE Recover(p)
  <2> DEFINE b == MinOf(todo[p])
             mine == IF blocks[b] = Absent THEN {} ELSE SlotsOf(blocks[b], job[p])
  <2>1. CASE mine # {} /\ Return(p, <<b, MinOf(mine)>>)
    <3>1. b \in Blocks /\ job[p] \in Handles
      BY <1>1, <1>2, MinOfElement DEF Recover, Busy, Resting, GcSteps, LocalType
    <3>2. blocks[b] # Absent /\ mine = SlotsOf(blocks[b], job[p])
      BY <2>1
    <3>3. mine \in SUBSET Slots
      BY <3>2 DEF SlotsOf
    <3>4. MinOf(mine) \in mine
      <4> HIDE DEF mine
      <4> QED BY <2>1, <3>3, MinOfElement
    <3>5. MinOf(mine) \in Slots /\ blocks[b].alloc[MinOf(mine)] = job[p]
      BY <3>2, <3>4 DEF SlotsOf
    <3> DEFINE a == <<b, MinOf(mine)>>
    <3>6. held' = [held EXCEPT ![job[p]] = a] /\ UNCHANGED blocks
      BY <1>2, <2>1 DEF Recover, Return, store
    <3> HIDE DEF mine, b
    <3>7. a \in Addresses /\ LeaseOf(a) = job[p]
      BY <3>1, <3>2, <3>5 DEF Addresses, LeaseOf
    <3> QED BY <1>2, <3>6, <3>7 DEF Recover, AddSteps
  <2>2. CASE UNCHANGED world
    BY <2>2 DEF world
  <2> QED BY <1>2, <2>1, <2>2 DEF Recover
<1>3. CASE UpdateHandle(p) \/ CreateHandle(p)
  <2>1. UNCHANGED blocks /\ pc[p] = "write_handle"
    BY <1>3 DEF UpdateHandle, CreateHandle
  <2>2. CASE Return(p, got[p])
    BY <2>1, <2>2 DEF Return, Written, AddSteps
  <2>3. CASE Retry(p, "get_block") \/ Fail(p)
    BY <2>3 DEF Retry, Fail, End, world
  <2> QED BY <1>3, <2>2, <2>3 DEF UpdateHandle, CreateHandle
<1>4. (\E start : Retry(p, start)) \/ NextBlock(p) \/ Fail(p) \/ Done(p)
      \/ UNCHANGED world
      => UNCHANGED held
  BY DEF Retry, NextBlock, Fail, Done, End, world
<1>5. CASE \/ IpsByHandle(p) \/ BlockOwner(p) \/ GetBlock(p) \/ GetAffinity(p)
           \/ CreateAffinity(p) \/ ConfirmAffinity(p) \/ BlockFull(p)
           \/ UpdateBlock(p) \/ CreateBlock(p) \/ GetHandle(p) \/ ReleaseGet(p)
           \/ ReleaseBlock(p) \/ ReleaseWrite(p) \/ DeleteHandle(p)
  BY <1>4, <1>5 DEF IpsByHandle, BlockOwner, GetBlock, GetAffinity,
     CreateAffinity, ConfirmAffinity, BlockFull, UpdateBlock, CreateBlock,
     GetHandle, ReleaseGet, ReleaseBlock, ReleaseWrite, DeleteHandle
<1>6. CASE Abandon(p)
  BY <1>6 DEF Abandon
<1> QED BY <1>2, <1>3, <1>5, <1>6 DEF Step

LEMMA HeldEffect ==
    ASSUME DriverInv, Leased, NEW p \in Procs, Step(p) \/ Abandon(p)
    PROVE  \/ UNCHANGED held
           \/ \E a \in Addresses :
                 /\ held' = [held EXCEPT ![job[p]] = a]
                 /\ LeaseOf(a) = job[p]
                 /\ blocks[a[1]].host = HostOf[job[p]]
                 /\ UNCHANGED blocks
<1>1. ASSUME NEW a, held' = [held EXCEPT ![job[p]] = a], pc[p] \in AddSteps, UNCHANGED blocks,
             \/ a \in Addresses /\ LeaseOf(a) = job[p]
             \/ pc[p] \in Written /\ a = got[p]
      PROVE  a \in Addresses /\ LeaseOf(a) = job[p] /\ blocks[a[1]].host = HostOf[job[p]]
  <2>1. CASE pc[p] \in Written /\ a = got[p]
    BY <2>1 DEF Leased, GotLeased
  <2>2. CASE a \in Addresses /\ LeaseOf(a) = job[p]
    <3>1. job[p] \in Handles /\ job[p] # Free
      BY <1>1, SentinelAssumption DEF DriverInv, TypeInv, Busy, Resting, AddSteps
    <3>2. \E b \in Blocks, s \in Slots : a = <<b, s>>
      BY <2>2 DEF Addresses
    <3> QED BY <2>2, <3>1, <3>2 DEF Leased, StrictAffinity, LeaseOf
  <2> QED BY <1>1, <2>1, <2>2
<1> QED BY <1>1, HeldSource DEF DriverInv

(* An address reaches "get_handle" by being granted, and goes from there.  *)
LEMMA WrittenEffect ==
    ASSUME BlockInv, NEW p \in Procs, Step(p) \/ Abandon(p), pc'[p] \in Written
    PROVE  \/ Grants(p)
           \/ pc[p] = "get_handle" /\ UNCHANGED <<blocks, got, job>>
<1>1. LocalType
  BY TypeParts DEF BlockInv, TypeInv
<1>2. ASSUME Clear(p) PROVE FALSE
  BY <1>1, <1>2 DEF Clear, LocalType, Written
<1>3. ASSUME \/ Fail(p) \/ Done(p) \/ NextBlock(p)
             \/ \E a : Return(p, a)
             \/ \E start \in {"get_block", "release_get"} : Retry(p, start)
             \/ \E rest : Visit(p, rest)
      PROVE  FALSE
  BY <1>1, <1>2, <1>3 DEF Fail, Done, End, Return, Retry, NextBlock, Visit, Goto,
                          LocalType, Written
<1>4. ASSUME NEW x, x \notin Written, Goto(p, x) PROVE FALSE
  BY <1>1, <1>4 DEF Goto, LocalType
<1>5. CASE GetHandle(p)
  BY <1>5 DEF GetHandle, store
<1>6. CASE UpdateBlock(p) \/ CreateBlock(p)
  BY <1>3, <1>6, BlockEffect DEF BlockInv
<1>7. CASE \/ IpsByHandle(p) \/ BlockOwner(p) \/ GetBlock(p) \/ Recover(p)
           \/ CreateAffinity(p) \/ ConfirmAffinity(p) \/ BlockFull(p)
           \/ UpdateHandle(p) \/ CreateHandle(p) \/ ReleaseGet(p)
           \/ ReleaseBlock(p) \/ ReleaseWrite(p) \/ DeleteHandle(p) \/ Abandon(p)
  BY <1>2, <1>3, <1>4, <1>7 DEF IpsByHandle, BlockOwner, GetBlock, Recover,
     CreateAffinity, ConfirmAffinity, BlockFull, UpdateHandle, CreateHandle,
     ReleaseGet, ReleaseBlock, ReleaseWrite, DeleteHandle, Abandon, Written
<1>8. CASE GetAffinity(p)
  <2>1. affinities[Claim(p)] \in AffinityStates
    <3>1. job[p] \in Handles /\ cur[p] \in Blocks
      BY <1>1, <1>8 DEF GetAffinity, BlockInv, TypeInv, Busy, Resting, GcSteps, LocalType
    <3>2. Claim(p) \in Hosts \X Blocks
      BY <3>1, HostOfAssumption DEF Claim
    <3> QED BY <3>2 DEF BlockInv, TypeInv, TypeOK
  <2>2. ClaimStep(affinities[Claim(p)]) \in
           {"create_affinity", "confirm_affinity", "write_block"}
    BY <2>1 DEF ClaimStep, AffinityStates
  <2>3. ClaimStep(affinities[Claim(p)]) \notin Written
    BY <2>2 DEF Written
  <2> QED BY <1>4, <1>8, <2>3 DEF GetAffinity
<1> QED BY <1>5, <1>6, <1>7, <1>8 DEF Step

(* The lease of an address, itself chosen before or after a step, after it. *)
NewLease(a) == IF blocks'[a[1]] = Absent THEN Free ELSE blocks'[a[1]].alloc[a[2]]

LEMMA NewLeaseOf == \A a : LeaseOf(a)' = NewLease(a)
BY DEF LeaseOf, NewLease

(* No step mixes the nodes of a block's addresses. *)
LEMMA StepStrict ==
    ASSUME BlockInv, StrictAffinity, NEW p \in Procs, Step(p) \/ Abandon(p)
    PROVE  StrictAffinity'
<1>1. ASSUME NEW b \in Blocks, NEW s \in Slots, blocks'[b] # Absent,
             blocks'[b].alloc[s] # Free
      PROVE  HostOf[blocks'[b].alloc[s]] = blocks'[b].host
  <2>1. LeaseOf(<<b, s>>)' = blocks'[b].alloc[s] /\ <<b, s>> \in Addresses
    BY <1>1 DEF LeaseOf, Addresses
  <2>2. CASE LeaseOf(<<b, s>>)' = LeaseOf(<<b, s>>)
    <3>1. blocks[b] # Absent /\ blocks[b].alloc[s] = blocks'[b].alloc[s]
      BY <1>1, <2>1, <2>2 DEF LeaseOf
    <3>2. blocks'[b].host = blocks[b].host
      BY <3>1, BlockEffect DEF BlockInv, HostsKept
    <3> QED BY <1>1, <3>1, <3>2 DEF StrictAffinity
  <2>3. CASE LeaseOf(<<b, s>>)' # LeaseOf(<<b, s>>)
    <3>1. ~ UNCHANGED blocks
      BY <2>3 DEF LeaseOf
    <3>2. ~ Revokes(p)
      BY <1>1, <2>1, <2>3 DEF Revokes
    <3>3. Grants(p)
      BY <3>1, <3>2, BlockEffect DEF BlockInv
    <3>4. b = cur[p] /\ LeaseOf(<<b, s>>)' = job[p]
      BY <2>1, <2>3, <3>3 DEF Grants
    <3> QED BY <2>1, <3>3, <3>4 DEF Grants
  <2> QED BY <2>2, <2>3
<1> QED BY <1>1 DEF StrictAffinity

LEMMA NextLeased == DriverInv /\ Leased /\ [Next]_vars => Leased'
<1> SUFFICES ASSUME DriverInv, Leased, [Next]_vars PROVE Leased'
  OBVIOUS
<1>1. LocalType /\ StoreType /\ WorldType /\ Busy
  BY TypeParts DEF DriverInv, TypeInv
<1>2. TypeInv'
  BY NextTypes DEF DriverInv
<1>3. ASSUME NEW p \in Procs, NEW h \in Handles, BeginAdd(p, h) \/ BeginDel(p, h)
      PROVE  Leased'
  <2>1. UNCHANGED <<blocks, got>>
    BY <1>3 DEF BeginAdd, BeginDel, store
  <2>2. \A a : LeaseOf(a)' = LeaseOf(a)
    BY <2>1 DEF LeaseOf
  <2>3. \A g \in Handles : held'[g] = held[g] \/ held'[g] = None
    BY <1>1, <1>3 DEF BeginAdd, BeginDel, WorldType
  <2>4. HeldIsLeased'
    BY <2>1, <2>2, <2>3 DEF Leased, HeldIsLeased
  <2>5. \A q \in Procs : pc'[q] \in Written => pc[q] \in Written /\ job'[q] = job[q]
    BY <1>1, <1>3 DEF BeginAdd, BeginDel, Goto, LocalType, Written
  <2>6. GotLeased' /\ StrictAffinity'
    BY <2>1, <2>2, <2>5 DEF Leased, GotLeased, StrictAffinity
  <2> QED BY <2>4, <2>6 DEF Leased
<1>4. ASSUME NEW p \in Procs, Step(p) \/ Abandon(p)
      PROVE  Leased'
  <2>1. Frame(p)
    BY <1>4, StepFrame DEF DriverInv
  <2>2. ASSUME NEW a \in Addresses, NEW h \in Handles, LeaseOf(a) = h,
               pc[p] \notin DelSteps \/ job[p] # h
        PROVE  NewLease(a) = h /\ blocks'[a[1]].host = blocks[a[1]].host
    BY <1>4, <2>2, LeaseKept, NewLeaseOf DEF DelSteps, BlockInv, DriverInv
  <2>3. GotLeased'
    <3>1. ASSUME NEW q \in Procs, q # p, pc[q] \in Written
          PROVE  /\ NewLease(got[q]) = job[q]
                 /\ blocks'[got[q][1]].host = HostOf[job[q]]
      <4>1. /\ got[q] \in Addresses /\ LeaseOf(got[q]) = job[q]
            /\ blocks[got[q][1]].host = HostOf[job[q]]
        BY <3>1 DEF Leased, GotLeased
      <4>2. job[q] \in Handles
        BY <1>1, <3>1 DEF Busy, Resting, GcSteps, Written
      <4>3. job[p] # job[q]
        BY <3>1, <4>2, SentinelAssumption DEF DriverInv, JobsOk
      <4> QED BY <2>2, <4>1, <4>2, <4>3
    <3>2. ASSUME pc'[p] \in Written
          PROVE  /\ got'[p] \in Addresses /\ NewLease(got'[p]) = job'[p]
                 /\ blocks'[got'[p][1]].host = HostOf[job'[p]]
      <4>1. CASE Grants(p)
        <5>1. cur[p] \in Blocks
          BY <1>1 DEF LocalType
        <5>2. PICK s \in Slots :
                 /\ got'[p] = <<cur[p], s>>
                 /\ \A a \in Addresses :
                       LeaseOf(a)' = IF a = <<cur[p], s>> THEN job[p] ELSE LeaseOf(a)
          BY <4>1 DEF Grants
        <5>3. <<cur[p], s>> \in Addresses
          BY <5>1 DEF Addresses
        <5>4. NewLease(<<cur[p], s>>) = job[p]
          BY <5>2, <5>3, NewLeaseOf
        <5> QED BY <4>1, <5>2, <5>3, <5>4 DEF Grants
      <4>2. CASE pc[p] = "get_handle" /\ UNCHANGED <<blocks, got, job>>
        BY <4>2 DEF Leased, GotLeased, Written, LeaseOf, NewLease
      <4> QED BY <1>4, <3>2, <4>1, <4>2, WrittenEffect DEF BlockInv, DriverInv
    <3>3. ASSUME NEW q \in Procs, q # p, pc'[q] \in Written
          PROVE  /\ got'[q] \in Addresses /\ NewLease(got'[q]) = job'[q]
                 /\ blocks'[got'[q][1]].host = HostOf[job'[q]]
      BY <2>1, <3>1, <3>3 DEF Frame, Leased, GotLeased
    <3>4. ASSUME NEW q \in Procs, pc'[q] \in Written
          PROVE  /\ got'[q] \in Addresses /\ NewLease(got'[q]) = job'[q]
                 /\ blocks'[got'[q][1]].host = HostOf[job'[q]]
      BY <3>2, <3>3, <3>4
    <3> QED BY <3>4 DEF GotLeased, LeaseOf, NewLease
  <2>4. HeldIsLeased'
    <3>1. ASSUME NEW h \in Handles, held[h] # None
          PROVE  NewLease(held[h]) = h /\ blocks'[held[h][1]].host = HostOf[h]
      <4>1. /\ held[h] \in Addresses /\ LeaseOf(held[h]) = h
            /\ blocks[held[h][1]].host = HostOf[h]
        BY <1>1, <3>1 DEF WorldType, Leased, HeldIsLeased
      <4>2. pc[p] \notin DelSteps \/ job[p] # h
        BY <3>1 DEF DriverInv, JobsOk
      <4> QED BY <2>2, <4>1, <4>2
    <3>2. CASE UNCHANGED held
      BY <3>1, <3>2 DEF HeldIsLeased, LeaseOf, NewLease
    <3>3. ASSUME NEW a \in Addresses, held' = [held EXCEPT ![job[p]] = a],
                 LeaseOf(a) = job[p], blocks[a[1]].host = HostOf[job[p]],
                 UNCHANGED blocks
          PROVE  HeldIsLeased'
      <4>1. \A h \in Handles : held'[h] = IF h = job[p] THEN a ELSE held[h]
        BY <1>1, <3>3 DEF WorldType
      <4>2. NewLease(a) = job[p] /\ blocks'[a[1]].host = HostOf[job[p]]
        BY <3>3 DEF LeaseOf, NewLease
      <4>3. ASSUME NEW h \in Handles, held'[h] # None
            PROVE  NewLease(held'[h]) = h /\ blocks'[held'[h][1]].host = HostOf[h]
        BY <3>1, <4>1, <4>2, <4>3
      <4> QED BY <4>3 DEF HeldIsLeased, LeaseOf, NewLease
    <3> QED BY <1>4, <3>2, <3>3, HeldEffect
  <2>5. StrictAffinity'
    BY <1>4, StepStrict DEF BlockInv, DriverInv, Leased
  <2> QED BY <2>3, <2>4, <2>5 DEF Leased
<1>5. CASE UNCHANGED vars
  BY <1>5 DEF vars, store, local, world, Leased, GotLeased, HeldIsLeased,
              StrictAffinity, LeaseOf
<1> QED BY <1>3, <1>4, <1>5 DEF Next

(* Everything proved so far, as one inductive invariant. *)
LeaseInv == DriverInv /\ Leased

LEMMA InitLeaseInv == Init => LeaseInv
<1> SUFFICES ASSUME Init PROVE LeaseInv
  OBVIOUS
<1>1. TypeInv /\ CopiesCurrent
  BY InitTypes DEF Init, CopiesCurrent
<1>2. JobsOk /\ CopiesOwned
  BY DEF Init, JobsOk, CopiesOwned, CopyOwned, WriteSteps, GcSteps, AddSteps, DelSteps
<1>3. Leased
  BY DEF Init, Leased, GotLeased, Written, HeldIsLeased, StrictAffinity
<1> QED BY <1>1, <1>2, <1>3 DEF LeaseInv, DriverInv

LEMMA NextLeaseInv == LeaseInv /\ [Next]_vars => LeaseInv'
BY NextTypes, NextCopies, NextJobs, NextCopiesOwned, NextLeased DEF LeaseInv, DriverInv

THEOREM LeaseInvariant == Spec => []LeaseInv
BY InitLeaseInv, NextLeaseInv, PTL DEF Spec

(* Whatever other ADDs, DELs, crashes and API errors do, the address that  *)
(* ADD reported stays with its sandbox until DEL: no two running sandboxes *)
(* have the same address.                                                  *)
THEOREM HeldAddressesAreLeased == Spec => []HeldIsLeased
<1>1. LeaseInv => HeldIsLeased
  BY DEF LeaseInv, Leased
<1> QED BY <1>1, LeaseInvariant, PTL

(* A node allocates only from blocks it owns. *)
THEOREM AffinityIsStrict == Spec => []StrictAffinity
<1>1. LeaseInv => StrictAffinity
  BY DEF LeaseInv, Leased
<1> QED BY <1>1, LeaseInvariant, PTL

-----------------------------------------------------------------------------
(* A step is a step of the lease promise, or leaves every lease alone. *)
LEMMA StepRefines == LeaseInv /\ [Next]_vars => Lease!Next \/ UNCHANGED Leases
<1> SUFFICES ASSUME LeaseInv, [Next]_vars PROVE Lease!Next \/ UNCHANGED Leases
  OBVIOUS
<1>1. ASSUME UNCHANGED blocks PROVE UNCHANGED Leases
  BY <1>1 DEF Leases, LeaseOf
<1>2. ASSUME NEW p \in Procs, Step(p) \/ Abandon(p), ~ UNCHANGED blocks
      PROVE  Lease!Next
  <2>1. /\ pc[p] # "idle"
        /\ cur[p] \in Blocks
        /\ pc[p] # "idle" => job[p] \in Handles
    BY <1>2, BlockEffect DEF LeaseInv, DriverInv, TypeInv, TypeOK, Busy, Resting, GcSteps, Grants, Revokes
  <2>2. \A a \in Addresses : Leases[a] = LeaseOf(a) /\ Leases'[a] = LeaseOf(a)'
    BY DEF Leases, LeaseOf
  <2>3. CASE Grants(p)
    <3>1. PICK s \in Slots :
             /\ LeaseOf(<<cur[p], s>>) = Free
             /\ \A a \in Addresses :
                   LeaseOf(a)' = IF a = <<cur[p], s>> THEN job[p] ELSE LeaseOf(a)
      BY <2>3 DEF Grants
    <3> DEFINE S == {<<cur[p], s>>}
    <3>2. S \in SUBSET Addresses
      BY <2>1 DEF Addresses
    <3>3. \A a \in S : Leases[a] = Free
      BY <2>2, <3>1, <3>2
    <3>4. \A a \in Addresses : Leases'[a] = IF a \in S THEN job[p] ELSE Leases[a]
      BY <2>2, <3>1
    <3>5. Leases' = [a \in Addresses |-> IF a \in S THEN job[p] ELSE Leases[a]]
      <4> HIDE DEF S
      <4> QED BY <3>4 DEF Leases
    <3> QED BY <2>1, <3>2, <3>3, <3>5 DEF Lease!Next, Lease!Grant
  <2>4. CASE Revokes(p)
    <3> DEFINE S == {a \in Addresses : a[1] = cur[p] /\ LeaseOf(a) = job[p]}
    <3>1. \A a \in Addresses : LeaseOf(a)' = IF a \in S THEN Free ELSE LeaseOf(a)
      BY <2>4 DEF Revokes
    <3>2. S \in SUBSET Addresses /\ \A a \in S : Leases[a] = job[p]
      BY <2>2
    <3>3. Leases' = [a \in Addresses |-> IF a \in S THEN Free ELSE Leases[a]]
      <4> HIDE DEF S
      <4> QED BY <2>2, <3>1 DEF Leases
    <3> HIDE DEF S
    <3> QED BY <2>1, <3>2, <3>3 DEF Lease!Next, Lease!Revoke
  <2> QED BY <1>2, <2>3, <2>4, BlockEffect DEF LeaseInv, DriverInv
<1>3. ASSUME NEW p \in Procs, NEW h \in Handles, BeginAdd(p, h) \/ BeginDel(p, h)
      PROVE  UNCHANGED blocks
  BY <1>3 DEF BeginAdd, BeginDel, store
<1>4. CASE UNCHANGED vars
  BY <1>1, <1>4 DEF vars, store
<1> QED BY <1>1, <1>2, <1>3, <1>4 DEF Next

(* The driver keeps the lease promise over the whole pool. *)
THEOREM DriverImplementsLease == Spec => LeaseSpec
<1>1. Init => Lease!Init
  BY DEF Init, Lease!Init, Leases, LeaseOf, Addresses
<1>2. LeaseInv /\ [Next]_vars => [Lease!Next]_Leases
  BY StepRefines
<1> QED BY <1>1, <1>2, LeaseInvariant, PTL DEF Spec, LeaseSpec, Lease!Spec

-----------------------------------------------------------------------------
(* Nothing takes a confirmed claim back, and only a confirmed claim leads  *)
(* to "write_block".                                                       *)
ClaimConfirmed(p) == pc[p] = "write_block" => affinities[Claim(p)] = "confirmed"
ClaimInv == (\A p \in Procs : ClaimConfirmed(p)) /\ OwnerIsConfirmed

LEMMA ConfirmedStays ==
    ASSUME DriverInv, NEW p \in Procs, Step(p) \/ Abandon(p)
    PROVE  /\ \A x \in Hosts \X Blocks :
                 affinities[x] = "confirmed" => affinities'[x] = "confirmed"
           /\ pc'[p] = "write_block" =>
                 job'[p] = job[p] /\ cur'[p] = cur[p]
                 /\ affinities'[Claim(p)] = "confirmed"
<1>1. LocalType /\ StoreType /\ Busy
  BY TypeParts DEF DriverInv, TypeInv
<1>2. ASSUME NEW x, Goto(p, x) PROVE pc'[p] = x
  BY <1>1, <1>2 DEF Goto, LocalType
<1>3. ASSUME \/ Clear(p) \/ Fail(p) \/ Done(p) \/ NextBlock(p)
             \/ \E a : Return(p, a)
             \/ \E start \in {"get_block", "release_get"} : Retry(p, start)
             \/ \E rest : Visit(p, rest)
      PROVE  pc'[p] # "write_block"
  BY <1>1, <1>3 DEF Clear, Fail, Done, End, Return, Retry, NextBlock, Visit, Goto,
                    LocalType
<1>4. ASSUME UNCHANGED affinities, pc'[p] # "write_block"
      PROVE  /\ \A x \in Hosts \X Blocks :
                   affinities[x] = "confirmed" => affinities'[x] = "confirmed"
             /\ pc'[p] # "write_block"
  BY <1>4
<1>5. CASE \/ IpsByHandle(p) \/ BlockOwner(p) \/ GetBlock(p) \/ Recover(p)
           \/ BlockFull(p) \/ UpdateHandle(p) \/ CreateHandle(p)
           \/ UpdateBlock(p) \/ CreateBlock(p) \/ GetHandle(p)
           \/ ReleaseGet(p) \/ ReleaseBlock(p) \/ ReleaseWrite(p)
           \/ DeleteHandle(p) \/ Abandon(p)
  <2>1. UNCHANGED affinities
    BY <1>5 DEF IpsByHandle, BlockOwner, GetBlock, Recover, BlockFull,
       UpdateHandle, CreateHandle, UpdateBlock, CreateBlock, GetHandle,
       ReleaseGet, ReleaseBlock, ReleaseWrite, DeleteHandle, Abandon, store
  <2>2. pc'[p] # "write_block"
    BY <1>2, <1>3, <1>5 DEF IpsByHandle, BlockOwner, GetBlock, Recover, BlockFull,
       UpdateHandle, CreateHandle, UpdateBlock, CreateBlock, GetHandle,
       ReleaseGet, ReleaseBlock, ReleaseWrite, DeleteHandle, Abandon
  <2> QED BY <2>1, <2>2
<1>6. CASE GetAffinity(p)
  <2>1. affinities[Claim(p)] \in AffinityStates
    <3>1. job[p] \in Handles /\ cur[p] \in Blocks
      BY <1>1, <1>6 DEF GetAffinity, Busy, Resting, GcSteps, LocalType
    <3>2. Claim(p) \in Hosts \X Blocks
      BY <3>1, HostOfAssumption DEF Claim
    <3> QED BY <1>1, <3>2 DEF StoreType
  <2>2. ClaimStep(affinities[Claim(p)]) = "write_block"
           => affinities[Claim(p)] = "confirmed"
    BY <2>1 DEF ClaimStep, AffinityStates
  <2>3. UNCHANGED <<affinities, job, cur>>
        /\ pc'[p] = ClaimStep(affinities[Claim(p)])
    BY <1>2, <1>6 DEF GetAffinity, store, local
  <2> QED BY <2>2, <2>3
<1>7. CASE CreateAffinity(p)
  <2>1. pc'[p] # "write_block"
    BY <1>2, <1>3, <1>7 DEF CreateAffinity
  <2>2. \A x \in Hosts \X Blocks : affinities'[x] = affinities[x]
                                   \/ affinities[x] = "absent"
    BY <1>1, <1>7 DEF CreateAffinity, StoreType
  <2> QED BY <2>1, <2>2
<1>8. CASE ConfirmAffinity(p)
  <2>1. CASE UNCHANGED affinities /\ (Retry(p, "get_block") \/ Fail(p))
    BY <1>3, <2>1
  <2>2. CASE /\ affinities' = [affinities EXCEPT ![Claim(p)] = "confirmed"]
             /\ UNCHANGED <<local, world>>
    <3>1. job[p] \in Handles /\ cur[p] \in Blocks
      BY <1>1, <1>8 DEF ConfirmAffinity, Busy, Resting, GcSteps, LocalType
    <3>2. Claim(p) \in Hosts \X Blocks
      BY <3>1, HostOfAssumption DEF Claim
    <3> QED BY <1>1, <2>2, <3>2 DEF local, StoreType
  <2> QED BY <1>8, <2>1, <2>2 DEF ConfirmAffinity
<1> QED BY <1>5, <1>6, <1>7, <1>8 DEF Step

LEMMA NextClaims == DriverInv /\ ClaimInv /\ [Next]_vars => ClaimInv'
<1> SUFFICES ASSUME DriverInv, ClaimInv, [Next]_vars PROVE ClaimInv'
  OBVIOUS
<1>1. LocalType /\ StoreType /\ Busy
  BY TypeParts DEF DriverInv, TypeInv
<1>2. ASSUME NEW q \in Procs, pc[q] = "write_block" PROVE Claim(q) \in Hosts \X Blocks
  BY <1>1, <1>2, HostOfAssumption DEF LocalType, Busy, Resting, GcSteps, Claim
<1>3. ASSUME NEW p \in Procs, NEW h \in Handles, BeginAdd(p, h) \/ BeginDel(p, h)
      PROVE  ClaimInv'
  BY <1>1, <1>3 DEF BeginAdd, BeginDel, Goto, store, LocalType, ClaimInv,
                    ClaimConfirmed, Claim, OwnerIsConfirmed
<1>4. ASSUME NEW p \in Procs, Step(p) \/ Abandon(p)
      PROVE  ClaimInv'
  <2>1. /\ \A x \in Hosts \X Blocks :
              affinities[x] = "confirmed" => affinities'[x] = "confirmed"
        /\ pc'[p] = "write_block" =>
              job'[p] = job[p] /\ cur'[p] = cur[p]
              /\ affinities'[Claim(p)] = "confirmed"
    BY <1>4, ConfirmedStays
  <2>2. ASSUME NEW q \in Procs, pc'[q] = "write_block"
        PROVE  affinities'[<<HostOf[job'[q]], cur'[q]>>] = "confirmed"
    <3>1. CASE q = p
      BY <2>1, <2>2, <3>1 DEF Claim
    <3>2. CASE q # p
      <4>1. pc[q] = "write_block" /\ job'[q] = job[q] /\ cur'[q] = cur[q]
        BY <1>4, <2>2, <3>2, StepFrame DEF DriverInv, Frame
      <4> QED BY <1>2, <2>1, <4>1 DEF ClaimInv, ClaimConfirmed, Claim
    <3> QED BY <3>1, <3>2
  <2>3. ASSUME NEW b \in Blocks, blocks'[b] # Absent
        PROVE  affinities'[<<blocks'[b].host, b>>] = "confirmed"
    <3>1. CASE blocks[b] # Absent
      <4>1. blocks'[b].host = blocks[b].host
        BY <1>4, <3>1, BlockEffect DEF DriverInv, HostsKept
      <4>2. blocks[b].host \in Hosts
        BY <1>1, <3>1 DEF StoreType, Block
      <4> QED BY <2>1, <3>1, <4>1, <4>2 DEF ClaimInv, OwnerIsConfirmed
    <3>2. CASE blocks[b] = Absent
      <4>1. Grants(p) /\ b = cur[p]
        <5>1. ~ UNCHANGED blocks /\ ~ Revokes(p)
          BY <2>3, <3>2 DEF Revokes
        <5>2. Grants(p)
          BY <1>4, <5>1, BlockEffect DEF DriverInv
        <5> QED BY <2>3, <3>2, <5>2 DEF Grants
      <4>2. pc[p] = "write_block" /\ blocks'[b].host = HostOf[job[p]]
        BY <4>1 DEF Grants
      <4> QED BY <1>2, <2>1, <4>1, <4>2 DEF ClaimInv, ClaimConfirmed, Claim
    <3> QED BY <3>1, <3>2
  <2>4. \A q \in Procs : ClaimConfirmed(q)'
    BY <2>2 DEF ClaimConfirmed, Claim
  <2>5. OwnerIsConfirmed'
    BY <2>3 DEF OwnerIsConfirmed
  <2> QED BY <2>4, <2>5 DEF ClaimInv
<1>5. CASE UNCHANGED vars
  BY <1>5 DEF vars, store, local, ClaimInv, ClaimConfirmed, Claim, OwnerIsConfirmed
<1> QED BY <1>3, <1>4, <1>5 DEF Next

(* The owner of a block holds a confirmed affinity for it. *)
THEOREM OwnersAreConfirmed == Spec => []OwnerIsConfirmed
<1>1. Init => ClaimInv
  BY DEF Init, ClaimInv, ClaimConfirmed, OwnerIsConfirmed
<1>2. LeaseInv => DriverInv
  BY DEF LeaseInv
<1>3. ClaimInv => OwnerIsConfirmed
  BY DEF ClaimInv
<1> QED BY <1>1, <1>2, <1>3, NextClaims, LeaseInvariant, PTL DEF Spec

-----------------------------------------------------------------------------
(* What the handle objects cover.  An address is with its ADD from the     *)
(* write of the block to the write of the handle; nobody else writes that  *)
(* handle meanwhile; and a release visits every block its handle has       *)
(* addresses in before it deletes the handle.                              *)
Releasing == {"release_block", "release_write", "delete_handle"}
GotSteps ==
    \A p \in Procs :
        /\ pc[p] \in Written => got[p] \in Addresses /\ got[p][1] = cur[p]
        /\ pc[p] \notin Written => got[p] = None
HandleCopies ==
    \A p \in Procs : pc[p] = "write_handle" =>
        "handle" \notin moved[p] /\ hcopy[p] = handles[job[p]]
ToVisit ==
    \A p \in Procs : pc[p] \in Releasing =>
        \/ job[p] \in abandoned
        \/ \A a \in Addresses : LeaseOf(a) = job[p] =>
              pc[p] # "delete_handle" /\ a[1] \in todo[p]
CoverInv ==
    GotSteps /\ HandleCopies /\ ToVisit /\ HandleCoversLeases /\ GoneIsReleased

(* The two writes of a handle object. *)
Records(p) ==
    /\ pc[p] = "write_handle" /\ pc'[p] = "idle" /\ got'[p] = None
    /\ handles'[job[p]] # Absent /\ cur[p] \in handles'[job[p]]
    /\ handles[job[p]] # Absent => handles[job[p]] \subseteq handles'[job[p]]
    /\ \A h \in Handles : h # job[p] => handles'[h] = handles[h]
    /\ UNCHANGED blocks
Deletes(p) ==
    /\ pc[p] = "delete_handle" /\ pc'[p] = "idle" /\ got'[p] = None
    /\ handles'[job[p]] = Absent
    /\ \A h \in Handles : h # job[p] => handles'[h] = handles[h]
    /\ UNCHANGED blocks

(* From "get_handle" an ADD goes on to record its address or gives up. *)
LEMMA WrittenStep ==
    ASSUME LeaseInv, CoverInv, NEW p \in Procs, Step(p) \/ Abandon(p),
           pc[p] \in Written
    PROVE  \/ /\ pc'[p] = "write_handle"
              /\ "handle" \notin moved'[p] /\ hcopy'[p] = handles[job[p]]
              /\ UNCHANGED <<got, job, cur, handles, blocks>>
           \/ /\ pc'[p] = "idle" /\ got'[p] = None /\ job[p] \in abandoned'
              /\ UNCHANGED <<handles, blocks>>
           \/ Records(p)
<1>1. LocalType /\ StoreType /\ MovedType /\ job[p] \in Handles /\ p \notin Janitors
  <2>1. TypeInv /\ JobsOk
    BY DEF LeaseInv, DriverInv
  <2>2. LocalType /\ StoreType /\ MovedType
    BY <2>1, TypeParts DEF TypeInv
  <2> QED BY <2>1, <2>2 DEF TypeInv, Busy, Resting, GcSteps, JobsOk, Written
<1>2. ASSUME Clear(p) PROVE pc'[p] = "idle" /\ got'[p] = None
  BY <1>1, <1>2 DEF Clear, LocalType
<1>3. CASE Abandon(p)
  BY <1>2, <1>3 DEF Abandon, store
<1>4. CASE GetHandle(p)
  BY <1>1, <1>4 DEF GetHandle, Goto, Read, store, LocalType, MovedType
<1>5. ASSUME Fail(p)
      PROVE  pc'[p] = "idle" /\ got'[p] = None /\ job[p] \in abandoned'
  BY <1>1, <1>2, <1>5 DEF Fail, End
<1>6. CASE UpdateHandle(p)
  <2>1. /\ pc[p] = "write_handle" /\ hcopy[p] # Absent /\ UNCHANGED blocks
        /\ "handle" \notin moved[p] /\ hcopy[p] = handles[job[p]]
    BY <1>6 DEF UpdateHandle, CoverInv, HandleCopies
  <2>2. CASE /\ handles' = [handles EXCEPT ![job[p]] = hcopy[p] \cup {cur[p]}]
             /\ Return(p, got[p])
    <3>1. /\ handles'[job[p]] = hcopy[p] \cup {cur[p]}
          /\ \A h \in Handles : h # job[p] => handles'[h] = handles[h]
      BY <1>1, <2>2 DEF StoreType
    <3>2. handles'[job[p]] # Absent
      <4>1. hcopy[p] \cup {cur[p]} \in SUBSET Blocks
        BY <1>1, <2>1 DEF LocalType
      <4> QED BY <3>1, <4>1, SentinelAssumption
    <3>3. pc'[p] = "idle" /\ got'[p] = None
      BY <1>2, <2>2 DEF Return
    <3> QED BY <2>1, <3>1, <3>2, <3>3 DEF Records
  <2>3. CASE handles[job[p]] = Absent
    BY <2>1, <2>3
  <2> QED BY <1>6, <2>1, <2>2, <2>3 DEF UpdateHandle, Matches
<1>7. CASE CreateHandle(p)
  <2>1. /\ pc[p] = "write_handle" /\ UNCHANGED blocks
        /\ handles[job[p]] = Absent
    BY <1>7 DEF CreateHandle, CoverInv, HandleCopies
  <2>2. handles' = [handles EXCEPT ![job[p]] = {cur[p]}] /\ Return(p, got[p])
    BY <1>7, <2>1 DEF CreateHandle
  <2>3. /\ handles'[job[p]] = {cur[p]}
        /\ \A h \in Handles : h # job[p] => handles'[h] = handles[h]
    BY <1>1, <2>2 DEF StoreType
  <2>4. handles'[job[p]] # Absent
    <3>1. {cur[p]} \in SUBSET Blocks
      BY <1>1 DEF LocalType
    <3> QED BY <2>3, <3>1, SentinelAssumption
  <2>5. pc'[p] = "idle" /\ got'[p] = None
    BY <1>2, <2>2 DEF Return
  <2> QED BY <2>1, <2>3, <2>4, <2>5 DEF Records
<1> QED BY <1>3, <1>4, <1>6, <1>7 DEF Step, IpsByHandle, Recover, BlockOwner,
   GetBlock, GetAffinity, CreateAffinity, ConfirmAffinity, BlockFull, UpdateBlock,
   CreateBlock, ReleaseGet, ReleaseBlock, ReleaseWrite, DeleteHandle, Written

(* Every other step leaves the handles alone or deletes p's. *)
LEMMA OtherStep ==
    ASSUME LeaseInv, CoverInv, NEW p \in Procs, Step(p) \/ Abandon(p),
           pc[p] \notin Written
    PROVE  /\ UNCHANGED handles \/ Deletes(p)
           /\ Grants(p) \/ (pc'[p] \notin Written /\ got'[p] = None)
<1>1. LocalType /\ StoreType /\ Busy /\ DriverInv
  BY TypeParts DEF LeaseInv, DriverInv, TypeInv
<1>2. ASSUME Clear(p) PROVE pc'[p] = "idle" /\ got'[p] = None
  BY <1>1, <1>2 DEF Clear, LocalType
<1>3. UNCHANGED handles \/ Deletes(p)
  <2>1. CASE DeleteHandle(p) /\ ~ UNCHANGED handles
    <3>1. /\ pc[p] = "delete_handle" /\ Done(p) /\ UNCHANGED blocks
          /\ handles' = [handles EXCEPT ![job[p]] = Absent]
      BY <2>1 DEF DeleteHandle
    <3>2. job[p] \in Handles
      BY <1>1, <3>1 DEF Busy, Resting, GcSteps
    <3> QED BY <1>1, <1>2, <3>1, <3>2 DEF Done, End, Deletes, StoreType
  <2> QED BY <2>1 DEF Step, IpsByHandle, Recover, BlockOwner, GetBlock, GetAffinity,
     CreateAffinity, ConfirmAffinity, BlockFull, UpdateBlock, CreateBlock,
     GetHandle, UpdateHandle, CreateHandle, ReleaseGet, ReleaseBlock, ReleaseWrite,
     DeleteHandle, Abandon, store, Written
<1>4. CASE pc'[p] \in Written
  BY <1>1, <1>3, <1>4, WrittenEffect DEF Written, BlockInv, DriverInv, LeaseInv
<1>5. CASE pc'[p] \notin Written
  <2>1. got[p] = None
    BY DEF CoverInv, GotSteps
  <2>2. UNCHANGED got => got'[p] = None
    BY <2>1
  <2>3. \/ Clear(p) \/ Fail(p) \/ Done(p) \/ NextBlock(p)
        \/ (\E a : Return(p, a))
        \/ (\E start \in {"get_block", "release_get"} : Retry(p, start))
        => got'[p] = None
    BY <1>1, <1>2, <2>2 DEF Fail, Done, End, Return, Retry, NextBlock, LocalType
  <2>4. ~ Goto(p, "get_handle")
    BY <1>1, <1>5 DEF Goto, LocalType, Written
  <2>5. got'[p] = None
    BY <2>2, <2>3, <2>4 DEF Step, IpsByHandle, Recover, BlockOwner,
     GetBlock, GetAffinity, CreateAffinity, ConfirmAffinity, BlockFull,
     UpdateBlock, CreateBlock, GetHandle, UpdateHandle, CreateHandle, ReleaseGet,
     ReleaseBlock, ReleaseWrite, DeleteHandle, Abandon, local, Written
  <2> QED BY <1>3, <1>5, <2>5
<1> QED BY <1>4, <1>5

(* Where a lease after a step comes from. *)
LEMMA LeaseOrigin ==
    ASSUME LeaseInv, NEW p \in Procs, Step(p) \/ Abandon(p),
           NEW a \in Addresses, NEW h \in Handles, NewLease(a) = h
    PROVE  \/ LeaseOf(a) = h
           \/ Grants(p) /\ job[p] = h /\ got'[p] = a /\ a[1] = cur[p]
<1>1. LeaseOf(a)' = h /\ h # Free
  BY NewLeaseOf, SentinelAssumption
<1>2. CASE UNCHANGED blocks
  BY <1>1, <1>2 DEF LeaseOf
<1>3. CASE Grants(p)
  BY <1>1, <1>3 DEF Grants
<1>4. CASE Revokes(p)
  BY <1>1, <1>4 DEF Revokes
<1> QED BY <1>2, <1>3, <1>4, BlockEffect DEF LeaseInv, DriverInv

(* A release keeps on its list the blocks its handle has addresses in. *)
LEMMA ReleasingStep ==
    ASSUME LeaseInv, CoverInv, NEW p \in Procs, Step(p) \/ Abandon(p),
           pc'[p] \in Releasing
    PROVE  /\ job'[p] = job[p]
           /\ job[p] \in abandoned'
              \/ \A a \in Addresses : NewLease(a) = job[p] =>
                    pc'[p] # "delete_handle" /\ a[1] \in todo'[p]
<1>1. LocalType /\ StoreType /\ Busy /\ DriverInv
  BY TypeParts DEF LeaseInv, DriverInv, TypeInv
<1>2. ASSUME \/ Clear(p) \/ Fail(p) \/ Done(p) \/ NextBlock(p)
             \/ \E a : Return(p, a)
             \/ \E start \in {"get_block", "release_get"} : Retry(p, start)
      PROVE  FALSE
  BY <1>1, <1>2 DEF Clear, Fail, Done, End, Return, Retry, NextBlock, LocalType,
                    Releasing
<1>3. ASSUME NEW x, x \notin Releasing, Goto(p, x) PROVE FALSE
  BY <1>1, <1>3 DEF Goto, LocalType
<1>4. ASSUME NEW rest, Visit(p, rest)
      PROVE  todo'[p] = rest /\ (pc'[p] = "delete_handle" => rest = {})
  BY <1>1, <1>4 DEF Visit, Goto, LocalType
<1>5. pc[p] # "idle" => job[p] \in Handles
  BY <1>1 DEF Busy, Resting, GcSteps, DriverInv, JobsOk
<1>6. CASE ReleaseGet(p)
  <2>1. /\ handles[job[p]] # Absent /\ Visit(p, handles[job[p]])
        /\ UNCHANGED <<job, abandoned, blocks>>
    BY <1>2, <1>6 DEF ReleaseGet, world, store
  <2>2. job[p] \in Handles /\ got[p] = None /\ pc[p] = "release_get"
    BY <1>5, <1>6 DEF ReleaseGet, CoverInv, GotSteps, Written
  <2>3. ASSUME NEW a \in Addresses, NewLease(a) = job[p], job[p] \notin abandoned
        PROVE  a[1] \in handles[job[p]]
    <3>1. LeaseOf(a) = job[p]
      BY <1>6, <2>2, <2>3, LeaseOrigin DEF Grants
    <3>2. LeaseOf(a) # Free /\ None \notin Addresses
      BY <2>2, <3>1, SentinelAssumption DEF Addresses
    <3>3. \A q \in Procs : job[q] = job[p] => got[q] # a
      BY <1>1, <2>2, <3>2, SentinelAssumption DEF DriverInv, JobsOk
    <3> QED BY <2>3, <3>1, <3>2, <3>3 DEF CoverInv, HandleCoversLeases
  <2> QED BY <1>4, <2>1, <2>3
<1>7. ASSUME pc[p] \in Releasing, job'[p] = job[p], UNCHANGED abandoned,
             \A a \in Addresses : NewLease(a) = job[p] /\ a[1] \in todo[p]
                => pc'[p] # "delete_handle" /\ a[1] \in todo'[p]
      PROVE  job[p] \in abandoned'
             \/ \A a \in Addresses : NewLease(a) = job[p] =>
                   pc'[p] # "delete_handle" /\ a[1] \in todo'[p]
  <2>1. CASE job[p] \in abandoned
    BY <1>7, <2>1
  <2>2. CASE job[p] \notin abandoned
    <3>1. ASSUME NEW a \in Addresses, NewLease(a) = job[p]
          PROVE  a[1] \in todo[p]
      <4>1. job[p] \in Handles /\ pc[p] # "write_block"
        BY <1>5, <1>7 DEF Releasing
      <4>2. LeaseOf(a) = job[p]
        BY <3>1, <4>1, LeaseOrigin DEF Grants
      <4> QED BY <1>7, <2>2, <4>2 DEF CoverInv, ToVisit
    <3> QED BY <1>7, <3>1
  <2> QED BY <2>1, <2>2
<1>8. CASE ReleaseBlock(p)
  <2>1. pc[p] \in Releasing /\ UNCHANGED <<job, abandoned, blocks>>
        /\ pc[p] = "release_block"
    BY <1>8 DEF ReleaseBlock, Releasing, store, world
  <2>2. CASE /\ (IF blocks[cur[p]] = Absent THEN {}
                 ELSE SlotsOf(blocks[cur[p]], job[p])) = {}
             /\ Visit(p, todo[p] \ {cur[p]})
    <3>1. ASSUME NEW a \in Addresses, NewLease(a) = job[p]
          PROVE  a[1] # cur[p]
      <4>1. a[2] \in Slots /\ job[p] # Free
        BY <1>5, <2>1, SentinelAssumption DEF Addresses
      <4> QED BY <2>1, <2>2, <3>1, <4>1 DEF NewLease, SlotsOf
    <3>2. todo'[p] = todo[p] \ {cur[p]}
          /\ (pc'[p] = "delete_handle" => todo[p] \ {cur[p]} = {})
      BY <1>4, <2>2
    <3> QED BY <1>7, <2>1, <3>1, <3>2
  <2>3. CASE Goto(p, "release_write") /\ UNCHANGED <<cur, todo>>
    <3>1. pc'[p] = "release_write"
      BY <1>1, <2>3 DEF Goto, LocalType
    <3> QED BY <1>7, <2>1, <2>3, <3>1
  <2> QED BY <1>8, <2>2, <2>3 DEF ReleaseBlock
<1>9. CASE ReleaseWrite(p)
  <2>1. /\ Visit(p, todo[p] \ {cur[p]}) /\ UNCHANGED <<job, abandoned>>
        /\ pc[p] = "release_write" /\ pc[p] \in Releasing
    BY <1>2, <1>9 DEF ReleaseWrite, world, Releasing
  <2>2. ASSUME NEW a \in Addresses, NewLease(a) = job[p]
        PROVE  a[1] # cur[p]
    <3>1. /\ blocks' = [blocks EXCEPT ![cur[p]] = Without(copy[p], job[p])]
          /\ job[p] \in Handles /\ cur[p] \in Blocks /\ copy[p] \in Block
      BY <1>1, <1>2, <1>5, <1>9 DEF ReleaseWrite, LocalType, Busy, Resting, GcSteps
    <3>2. a[2] \in Slots /\ job[p] # Free
      BY <3>1, SentinelAssumption DEF Addresses
    <3>3. Without(copy[p], job[p]).alloc[a[2]] # job[p]
      BY <3>1, <3>2 DEF Without
    <3> QED BY <1>1, <2>2, <3>1, <3>2, <3>3 DEF NewLease, StoreType
  <2>3. todo'[p] = todo[p] \ {cur[p]}
        /\ (pc'[p] = "delete_handle" => todo[p] \ {cur[p]} = {})
    BY <1>4, <2>1
  <2> QED BY <1>7, <2>1, <2>2, <2>3
<1>10. CASE GetAffinity(p)
  <2>1. affinities[Claim(p)] \in AffinityStates
    <3>1. job[p] \in Handles /\ cur[p] \in Blocks
      BY <1>1, <1>10 DEF GetAffinity, Busy, Resting, GcSteps, LocalType
    <3>2. Claim(p) \in Hosts \X Blocks
      BY <3>1, HostOfAssumption DEF Claim
    <3> QED BY <1>1, <3>2 DEF StoreType
  <2>2. ClaimStep(affinities[Claim(p)]) \in
           {"create_affinity", "confirm_affinity", "write_block"}
    BY <2>1 DEF ClaimStep, AffinityStates
  <2>3. ClaimStep(affinities[Claim(p)]) \notin Releasing
    BY <2>2 DEF Releasing
  <2> QED BY <1>3, <1>10, <2>3 DEF GetAffinity
<1>11. CASE \/ IpsByHandle(p) \/ Recover(p) \/ BlockOwner(p) \/ GetBlock(p)
            \/ CreateAffinity(p) \/ ConfirmAffinity(p) \/ BlockFull(p)
            \/ UpdateBlock(p) \/ CreateBlock(p) \/ GetHandle(p)
            \/ UpdateHandle(p) \/ CreateHandle(p) \/ DeleteHandle(p) \/ Abandon(p)
  BY <1>2, <1>3, <1>11 DEF IpsByHandle, Recover, BlockOwner, GetBlock,
     CreateAffinity, ConfirmAffinity, BlockFull, UpdateBlock, CreateBlock,
     GetHandle, UpdateHandle, CreateHandle, DeleteHandle, Abandon, Releasing
<1> QED BY <1>6, <1>8, <1>9, <1>10, <1>11 DEF Step

(* A sandbox is gone, with no call cut short, only when DEL found no handle *)
(* or has deleted it.                                                       *)
LEMMA GoneStep ==
    ASSUME LeaseInv, NEW p \in Procs, Step(p) \/ Abandon(p), pc[p] # "idle",
           status'[job[p]] = "gone", job[p] \notin abandoned'
    PROVE  \/ Deletes(p)
           \/ /\ handles[job[p]] = Absent /\ pc[p] = "release_get"
              /\ UNCHANGED <<handles, blocks>>
<1>1. LocalType /\ StoreType /\ WorldType /\ JobsOk /\ job[p] \in Handles
      /\ p \notin Janitors
  <2>1. TypeInv /\ JobsOk
    BY DEF LeaseInv, DriverInv
  <2> QED BY <2>1, TypeParts DEF TypeInv, Busy, Resting, GcSteps, JobsOk
<1>2. status[job[p]] # "gone" /\ pc[p] \in AddSteps \cup DelSteps
  BY <1>1 DEF JobsOk, LocalType
<1>3. ASSUME UNCHANGED world PROVE FALSE
  BY <1>2, <1>3 DEF world
<1>4. ASSUME Fail(p) PROVE FALSE
  BY <1>1, <1>4 DEF Fail, End
<1>5. ASSUME \E a : Return(p, a) PROVE FALSE
  BY <1>1, <1>5 DEF Return, Outcome, WorldType
<1>6. ASSUME pc[p] \in AddSteps, Done(p) PROVE FALSE
  BY <1>1, <1>6 DEF Done, End, Outcome, WorldType
<1>7. ASSUME \E start : Retry(p, start) PROVE FALSE
  BY <1>3, <1>4, <1>7 DEF Retry, world
<1>8. ASSUME pc[p] \in AddSteps, NextBlock(p) PROVE FALSE
  BY <1>3, <1>6, <1>8 DEF NextBlock, world
<1>9. CASE ReleaseGet(p)
  BY <1>3, <1>9 DEF ReleaseGet, store
<1>10. CASE DeleteHandle(p)
  <2>1. /\ pc[p] = "delete_handle" /\ Done(p) /\ UNCHANGED blocks
        /\ handles' = [handles EXCEPT ![job[p]] = Absent]
    BY <1>4, <1>7, <1>10 DEF DeleteHandle
  <2> QED BY <1>1, <2>1 DEF Done, End, Clear, Deletes, StoreType, LocalType
<1>11. CASE Abandon(p)
  BY <1>11 DEF Abandon
<1>12. CASE ReleaseBlock(p) \/ ReleaseWrite(p)
  BY <1>3, <1>4, <1>7, <1>12 DEF ReleaseBlock, ReleaseWrite
<1>13. CASE \/ IpsByHandle(p) \/ Recover(p) \/ BlockOwner(p) \/ GetBlock(p)
            \/ GetAffinity(p) \/ CreateAffinity(p) \/ ConfirmAffinity(p)
            \/ BlockFull(p) \/ UpdateBlock(p) \/ CreateBlock(p) \/ GetHandle(p)
            \/ UpdateHandle(p) \/ CreateHandle(p)
  <2>1. pc[p] \in AddSteps
    BY <1>13 DEF IpsByHandle, Recover, BlockOwner, GetBlock, GetAffinity,
       CreateAffinity, ConfirmAffinity, BlockFull, UpdateBlock, CreateBlock,
       GetHandle, UpdateHandle, CreateHandle, AddSteps
  <2> QED BY <1>3, <1>4, <1>5, <1>6, <1>7, <1>8, <1>13, <2>1
     DEF IpsByHandle, Recover, BlockOwner, GetBlock, GetAffinity, CreateAffinity,
         ConfirmAffinity, BlockFull, UpdateBlock, CreateBlock, GetHandle,
         UpdateHandle, CreateHandle
<1> QED BY <1>9, <1>10, <1>11, <1>12, <1>13 DEF Step

(* A process notices no write of its handle object by another. *)
LEMMA HandleUnmoved ==
    ASSUME LeaseInv, CoverInv, NEW p \in Procs, Step(p) \/ Abandon(p),
           NEW q \in Procs, q # p, job[q] # job[p], pc[q] = "write_handle"
    PROVE  "handle" \notin moved'[q]
<1>1. LocalType /\ StoreType /\ MovedType
  BY TypeParts DEF LeaseInv, DriverInv, TypeInv
<1>2. "handle" \notin moved[q]
  BY DEF CoverInv, HandleCopies
<1>3. moved'[q] \in {moved[q], moved[q] \cup {"block"}, moved[q] \cup {"affinity"}}
  <2>1. UNCHANGED moved => moved'[q] = moved[q]
    OBVIOUS
  <2>2. \A kind : Read(p, kind) => moved'[q] = moved[q]
    BY <1>1 DEF Read, MovedType
  <2>3. \A b : WroteBlock(p, b) => moved'[q] \in {moved[q], moved[q] \cup {"block"}}
    BY DEF WroteBlock, Wrote
  <2>4. \A x : WroteAffinity(p, x)
               => moved'[q] \in {moved[q], moved[q] \cup {"affinity"}}
    BY DEF WroteAffinity, Wrote
  <2>5. WroteHandle(p, job[p]) => moved'[q] = moved[q]
    BY DEF WroteHandle, Wrote, HoldsHandle
  <2> QED BY <2>1, <2>2, <2>3, <2>4, <2>5
     DEF Step, IpsByHandle, Recover, BlockOwner, GetBlock, GetAffinity,
         CreateAffinity, ConfirmAffinity, BlockFull, UpdateBlock, CreateBlock,
         GetHandle, UpdateHandle, CreateHandle, ReleaseGet, ReleaseBlock,
         ReleaseWrite, DeleteHandle, Abandon
<1> QED BY <1>2, <1>3

(* The handle of p's command is the only one a step of p changes, and only *)
(* p's command can give its sandbox an address or an end.                  *)
LEMMA StepFacts ==
    ASSUME LeaseInv, CoverInv, NEW p \in Procs, Step(p) \/ Abandon(p)
    PROVE  /\ pc[p] # "idle" /\ job[p] \in Handles
           /\ \A h \in Handles : h # job[p] =>
                 handles'[h] = handles[h] /\ status'[h] = status[h]
           /\ abandoned \subseteq abandoned'
           /\ UNCHANGED handles \/ Records(p) \/ Deletes(p)
<1>1. TypeInv /\ JobsOk /\ LocalType /\ WorldType
  BY TypeParts DEF LeaseInv, DriverInv, TypeInv
<1>2. pc[p] # "idle" /\ p \in Commands
  BY <1>1, StepInCall DEF JobsOk, Commands
<1>3. job[p] \in Handles
  BY <1>1, <1>2 DEF TypeInv, Busy, Resting, GcSteps, JobsOk
<1>4. UNCHANGED handles \/ Records(p) \/ Deletes(p)
  BY WrittenStep, OtherStep
<1>5. Goes(p) \/ Ends(p)
  BY <1>1, <1>2, StepShape
<1>6. abandoned \subseteq abandoned'
  BY <1>5 DEF Goes, Ends
<1>7. \A h \in Handles : h # job[p] => status'[h] = status[h]
  BY <1>1, <1>5 DEF Goes, Ends, WorldType
<1> QED BY <1>2, <1>3, <1>4, <1>6, <1>7 DEF Records, Deletes

LEMMA StepCover ==
    ASSUME LeaseInv, CoverInv, NEW p \in Procs, Step(p) \/ Abandon(p)
    PROVE  CoverInv'
<1>1. /\ TypeInv /\ JobsOk /\ LocalType /\ StoreType /\ DriverInv
      /\ Frame(p) /\ LeaseInv'
  <2>1. TypeInv /\ JobsOk /\ LocalType /\ StoreType /\ DriverInv
    BY TypeParts DEF LeaseInv, DriverInv, TypeInv
  <2> QED BY <2>1, StepFrame, NextLeaseInv DEF Next
<1>2. /\ pc[p] # "idle" /\ job[p] \in Handles
      /\ \A h \in Handles : h # job[p] =>
            handles'[h] = handles[h] /\ status'[h] = status[h]
      /\ abandoned \subseteq abandoned'
      /\ UNCHANGED handles \/ Records(p) \/ Deletes(p)
  BY StepFacts
<1>3. ASSUME NEW q \in Procs, q # p
      PROVE  /\ pc'[q] = pc[q] /\ job'[q] = job[q] /\ cur'[q] = cur[q]
             /\ hcopy'[q] = hcopy[q] /\ todo'[q] = todo[q] /\ got'[q] = got[q]
             /\ job[q] # job[p]
  BY <1>1, <1>2, <1>3, SentinelAssumption DEF Frame, JobsOk
<1>4. GotSteps'
  <2>1. ASSUME pc'[p] \in Written
        PROVE  got'[p] \in Addresses /\ got'[p][1] = cur'[p]
    <3>1. CASE Grants(p)
      <4>1. PICK s \in Slots : got'[p] = <<cur[p], s>>
        BY <3>1 DEF Grants
      <4>2. cur'[p] = cur[p] /\ cur[p] \in Blocks
        BY <1>1, <3>1 DEF Grants, LocalType
      <4> QED BY <4>1, <4>2 DEF Addresses
    <3>2. CASE ~ Grants(p)
      <4>1. pc[p] \in Written
        BY <2>1, <3>2, OtherStep
      <4>2. UNCHANGED <<got, cur>>
        BY <2>1, <4>1, WrittenStep DEF Records, Written
      <4> QED BY <4>1, <4>2 DEF CoverInv, GotSteps
    <3> QED BY <3>1, <3>2
  <2>2. ASSUME pc'[p] \notin Written PROVE got'[p] = None
    <3>1. CASE pc[p] \in Written
      BY <2>2, <3>1, WrittenStep DEF Records, Written
    <3>2. CASE pc[p] \notin Written
      BY <2>2, <3>2, OtherStep DEF Grants, Written
    <3> QED BY <3>1, <3>2
  <2> QED BY <1>3, <2>1, <2>2 DEF CoverInv, GotSteps
<1>5. HandleCopies'
  <2>1. ASSUME pc'[p] = "write_handle"
        PROVE  "handle" \notin moved'[p] /\ hcopy'[p] = handles'[job'[p]]
    <3>1. pc[p] \in Written
      BY <2>1, OtherStep DEF Grants, Written
    <3> QED BY <2>1, <3>1, WrittenStep DEF Records
  <2>2. ASSUME NEW q \in Procs, q # p, pc'[q] = "write_handle"
        PROVE  "handle" \notin moved'[q] /\ hcopy'[q] = handles'[job'[q]]
    <3>1. pc[q] = "write_handle" /\ job[q] \in Handles
      BY <1>1, <1>3, <2>2 DEF TypeInv, Busy, Resting, GcSteps
    <3>2. "handle" \notin moved'[q]
      BY <1>3, <2>2, <3>1, HandleUnmoved
    <3> QED BY <1>2, <1>3, <2>2, <3>1, <3>2 DEF CoverInv, HandleCopies
  <2> QED BY <2>1, <2>2 DEF HandleCopies
<1>6. ToVisit'
  <2>1. ASSUME pc'[p] \in Releasing
        PROVE  \/ job'[p] \in abandoned'
               \/ \A a \in Addresses : NewLease(a) = job'[p] =>
                     pc'[p] # "delete_handle" /\ a[1] \in todo'[p]
    BY <2>1, ReleasingStep
  <2>2. ASSUME NEW q \in Procs, q # p, pc'[q] \in Releasing
        PROVE  \/ job'[q] \in abandoned'
               \/ \A a \in Addresses : NewLease(a) = job'[q] =>
                     pc'[q] # "delete_handle" /\ a[1] \in todo'[q]
    <3>1. pc[q] \in Releasing /\ job[q] \in Handles
      BY <1>1, <1>3, <2>2 DEF TypeInv, Busy, Resting, GcSteps, Releasing
    <3>2. \A a \in Addresses : NewLease(a) = job[q] => LeaseOf(a) = job[q]
      BY <1>3, <2>2, <3>1, LeaseOrigin
    <3> QED BY <1>2, <1>3, <2>2, <3>1, <3>2 DEF CoverInv, ToVisit
  <2>3. ASSUME NEW q \in Procs, pc'[q] \in Releasing
        PROVE  \/ job'[q] \in abandoned'
               \/ \A a \in Addresses : NewLease(a) = job'[q] =>
                     pc'[q] # "delete_handle" /\ a[1] \in todo'[q]
    BY <2>1, <2>2, <2>3
  <2> QED BY <2>3 DEF ToVisit, LeaseOf, NewLease
<1>7. HandleCoversLeases'
  <2>1. ASSUME NEW a \in Addresses, NEW h \in Handles, NewLease(a) = h
        PROVE  \/ h \in abandoned'
               \/ \E q \in Procs : job'[q] = h /\ got'[q] = a
               \/ handles'[h] # Absent /\ a[1] \in handles'[h]
    <3>1. CASE Grants(p) /\ job[p] = h /\ got'[p] = a
      BY <3>1 DEF Grants
    <3>2. CASE LeaseOf(a) = h /\ h \in abandoned
      BY <1>2, <3>2
    <3>3. CASE \E q \in Procs : job[q] = h /\ got[q] = a
      <4>1. PICK q \in Procs : job[q] = h /\ got[q] = a
        BY <3>3
      <4>2. CASE q # p
        BY <1>3, <4>1, <4>2
      <4>3. CASE q = p
        <5>1. a # None
          BY SentinelAssumption DEF Addresses
        <5>2. pc[p] \in Written /\ a[1] = cur[p]
          BY <4>1, <4>3, <5>1 DEF CoverInv, GotSteps
        <5> QED BY <4>1, <4>3, <5>2, WrittenStep DEF Records
      <4> QED BY <4>2, <4>3
    <3>4. CASE LeaseOf(a) = h /\ handles[h] # Absent /\ a[1] \in handles[h]
               /\ h \notin abandoned
      <4>1. CASE UNCHANGED handles
        BY <3>4, <4>1
      <4>2. CASE Records(p)
        BY <3>4, <4>2 DEF Records
      <4>3. CASE Deletes(p)
        <5>1. job[p] # h
          BY <3>4, <4>3 DEF Deletes, CoverInv, ToVisit, Releasing
        <5> QED BY <3>4, <4>3, <5>1 DEF Deletes
      <4> QED BY <1>2, <4>1, <4>2, <4>3
    <3>5. h # Free
      BY SentinelAssumption
    <3>6. LeaseOf(a) = h =>
             \/ h \in abandoned
             \/ \E q \in Procs : job[q] = h /\ got[q] = a
             \/ handles[h] # Absent /\ a[1] \in handles[h]
      BY <3>5 DEF CoverInv, HandleCoversLeases
    <3> QED BY <2>1, <3>1, <3>2, <3>3, <3>4, <3>6, LeaseOrigin
  <2>2. \A a \in Addresses : NewLease(a) # Free => NewLease(a) \in Handles
    <3>1. blocks' \in [Blocks -> {Absent} \cup Block]
      BY <1>1 DEF LeaseInv, DriverInv, TypeInv, TypeOK
    <3> QED BY <3>1 DEF NewLease, Addresses, Block
  <2>3. ASSUME NEW a \in Addresses, NewLease(a) # Free
        PROVE  \/ NewLease(a) \in abandoned'
               \/ \E q \in Procs : job'[q] = NewLease(a) /\ got'[q] = a
               \/ handles'[NewLease(a)] # Absent /\ a[1] \in handles'[NewLease(a)]
    BY <2>1, <2>2, <2>3
  <2> QED BY <2>3 DEF HandleCoversLeases, LeaseOf, NewLease
<1>8. GoneIsReleased'
  <2>1. ASSUME NEW h \in Handles, status'[h] = "gone", h \notin abandoned'
        PROVE  (\A a \in Addresses : NewLease(a) # h) /\ handles'[h] = Absent
    <3>1. CASE h # job[p]
      <4>1. /\ \A a \in Addresses : LeaseOf(a) # h
            /\ handles[h] = Absent
        BY <1>2, <2>1, <3>1 DEF CoverInv, GoneIsReleased
      <4>2. \A a \in Addresses : NewLease(a) # h
        BY <3>1, <4>1, LeaseOrigin
      <4> QED BY <1>2, <3>1, <4>1, <4>2
    <3>2. CASE h = job[p]
      <4>1. CASE Deletes(p)
        <5>1. \A a \in Addresses : LeaseOf(a) # h
          BY <1>2, <2>1, <3>2, <4>1 DEF Deletes, CoverInv, ToVisit, Releasing
        <5>2. \A a \in Addresses : NewLease(a) = LeaseOf(a)
          BY <4>1 DEF Deletes, NewLease, LeaseOf
        <5> QED BY <3>2, <4>1, <5>1, <5>2 DEF Deletes
      <4>2. CASE /\ handles[job[p]] = Absent /\ pc[p] = "release_get"
                 /\ UNCHANGED <<handles, blocks>>
        <5>1. got[p] = None
          BY <4>2 DEF CoverInv, GotSteps, Written
        <5>2. \A q \in Procs : job[q] = h => q = p
          BY <1>3, <3>2
        <5>3. None \notin Addresses /\ h # Free
          BY SentinelAssumption DEF Addresses
        <5>4. \A a \in Addresses : LeaseOf(a) # h
          BY <1>2, <2>1, <3>2, <4>2, <5>1, <5>2, <5>3 DEF CoverInv, HandleCoversLeases
        <5>5. \A a \in Addresses : NewLease(a) = LeaseOf(a)
          BY <4>2 DEF NewLease, LeaseOf
        <5> QED BY <3>2, <4>2, <5>4, <5>5
      <4> QED BY <1>2, <2>1, <3>2, <4>1, <4>2, GoneStep
    <3> QED BY <3>1, <3>2
  <2> QED BY <2>1 DEF GoneIsReleased, LeaseOf, NewLease
<1> QED BY <1>4, <1>5, <1>6, <1>7, <1>8 DEF CoverInv

LEMMA BeginCover ==
    ASSUME LeaseInv, CoverInv, NEW p \in Procs, NEW h \in Handles,
           BeginAdd(p, h) \/ BeginDel(p, h)
    PROVE  CoverInv'
<1>1. LocalType /\ WorldType
  BY TypeParts DEF LeaseInv, DriverInv, TypeInv
<1>2. /\ UNCHANGED <<blocks, handles, cur, hcopy, todo, got, moved, abandoned>>
      /\ pc[p] = "idle" /\ pc'[p] \in {"ips_by_handle", "release_get"}
      /\ \A q \in Procs : q # p => pc'[q] = pc[q] /\ job'[q] = job[q]
      /\ \A g \in Handles : status'[g] = "gone" => status[g] = "gone"
  BY <1>1 DEF BeginAdd, BeginDel, Goto, store, LocalType, WorldType
<1>3. \A a : LeaseOf(a)' = LeaseOf(a)
  BY <1>2 DEF LeaseOf
<1>4. got[p] = None /\ None \notin Addresses
  BY <1>2, SentinelAssumption DEF CoverInv, GotSteps, Written, Addresses
<1>5. GotSteps' /\ HandleCopies' /\ ToVisit'
  BY <1>2, <1>3, <1>4 DEF CoverInv, GotSteps, HandleCopies, ToVisit, Written, Releasing
<1>6. HandleCoversLeases'
  BY <1>2, <1>3, <1>4 DEF CoverInv, HandleCoversLeases
<1>7. GoneIsReleased'
  BY <1>2, <1>3 DEF CoverInv, GoneIsReleased
<1> QED BY <1>5, <1>6, <1>7 DEF CoverInv

LEMMA NextCover == LeaseInv /\ CoverInv /\ [Next]_vars => CoverInv'
<1> SUFFICES ASSUME LeaseInv, CoverInv, [Next]_vars PROVE CoverInv'
  OBVIOUS
<1>1. CASE UNCHANGED vars
  BY <1>1 DEF vars, store, local, world, CoverInv, GotSteps, HandleCopies, ToVisit,
              HandleCoversLeases, GoneIsReleased, LeaseOf
<1> QED BY <1>1, StepCover, BeginCover DEF Next

LEMMA CoverInvariant == Spec => []CoverInv
<1>1. Init => CoverInv
  BY DEF Init, CoverInv, GotSteps, HandleCopies, ToVisit, HandleCoversLeases,
         GoneIsReleased, LeaseOf, Written, Releasing, Addresses
<1> QED BY <1>1, NextCover, LeaseInvariant, PTL DEF Spec

(* The handle object leads to every address of a sandbox none of whose     *)
(* calls was cut short or gave up, except the one ADD is about to record:  *)
(* a release that starts from the handle misses none.                      *)
THEOREM HandlesCoverLeases == Spec => []HandleCoversLeases
<1>1. CoverInv => HandleCoversLeases
  BY DEF CoverInv
<1> QED BY <1>1, CoverInvariant, PTL

(* After a DEL of such a sandbox neither an address nor a handle is left.  *)
THEOREM GoneSandboxesAreReleased == Spec => []GoneIsReleased
<1>1. CoverInv => GoneIsReleased
  BY DEF CoverInv
<1> QED BY <1>1, CoverInvariant, PTL

-----------------------------------------------------------------------------
(* The collector next to the commands (IpamGc).  Its release passes are    *)
(* calls of the driver, so the lemmas above hold of them as they stand;    *)
(* only the layers that say who may take a lease away are other ones.      *)

(* What the collector has in hand between two of its calls.                *)
GcStepOk ==
    /\ pc[Gc] \in {"idle"} \cup DelSteps \cup GcSteps
    /\ pc[Gc] \in DelSteps => gpc = "release" /\ job[Gc] \in judged
    /\ pc[Gc] \in GcSteps => gpc = "reclaim" /\ target \in dead /\ cur[Gc] = target[2]
ListsOk ==
    /\ nodes \subseteq Hosts /\ judged \subseteq Handles /\ orphans \subseteq judged
    /\ dead \subseteq Hosts \X Blocks /\ \A x \in dead : x[1] \notin nodes \ joined
    /\ gpc = "list_affinities" => nodes \ joined \subseteq live
    /\ gpc \notin {"list_affinities", "reclaim"} => joined = {} /\ dead = {}
CollectorOk == GcStepOk /\ ListsOk

(* No exception of AddressesSurviveGc applies to h.                        *)
Safe(h) == h \notin judged \cup wrecked \cup unlisted
GotSurvives ==
    \A p \in Commands : pc[p] \in Written =>
        /\ got[p] \in Addresses
        /\ Safe(job[p]) => LeaseOf(got[p]) = job[p]
GcInv ==
    /\ BlockInv /\ CommandsOk /\ CollectorOk
    /\ StrictAffinity /\ GotSurvives /\ AddressesSurviveGc

(* The steps that are the collector's own, and the ones that change no     *)
(* object: both leave every command and every sandbox as it is.            *)
Reclaims == GetAffineBlock \/ DeleteAffineBlock \/ DeleteAffinity
OwnStep == ReleaseOrphan \/ ListNodes \/ Reclaims
Looks ==
    \/ \E pod \in Pods : CreatePod(pod) \/ DeletePod(pod)
    \/ \E n \in Hosts : DeleteNode(n) \/ RegisterNode(n)
    \/ ListPods \/ ListBlocks \/ ListAffinities \/ Sleep

LEMMA GcIsJanitor == Gc \in Procs /\ Gc \in Janitors /\ Commands = Procs \ {Gc}
BY GcAssumption DEF Commands

LEMMA GcStepKinds ==
    ASSUME [GcNext]_allVars
    PROVE  \/ \E p \in Procs : StartCni(p) \/ RunCni(p)
           \/ ReleaseStep \/ OwnStep \/ Looks \/ UNCHANGED allVars
BY DEF GcNext, GcLoop, OwnStep, Reclaims, Looks

LEMMA GcDriverStep ==
    ASSUME (\E p \in Procs : StartCni(p) \/ RunCni(p)) \/ ReleaseStep \/ Looks
           \/ UNCHANGED allVars
    PROVE  [Next]_vars
<1>1. CASE Looks
  BY <1>1 DEF Looks, CreatePod, DeletePod, DeleteNode, RegisterNode, ListPods, ListBlocks,
                    ListAffinities, Sleep
<1>2. CASE UNCHANGED allVars
  BY <1>2 DEF allVars
<1>3. CASE ReleaseStep
  BY <1>3, GcIsJanitor DEF ReleaseStep, Next
<1> QED BY <1>1, <1>2, <1>3 DEF StartCni, RunCni, Next

(* An own step changes nothing of the commands and the sandboxes, and ends *)
(* where the collector holds no copy.                                      *)
LEMMA OwnFrame ==
    ASSUME TypeInv, CollectorOk, OwnStep
    PROVE  /\ Frame(Gc) /\ UNCHANGED <<copy, status, held>>
           /\ pc'[Gc] \in Resting \cup {"release_get"}
<1>1. LocalType /\ Gc \in Procs
  BY TypeParts, GcIsJanitor DEF TypeInv
<1>2. CASE ReleaseOrphan
  BY <1>1, <1>2 DEF ReleaseOrphan, Goto, LocalType, Frame, world
<1>3. CASE ListNodes
  BY <1>1, <1>3 DEF ListNodes, local, Frame, Resting
<1>4. CASE GetAffineBlock
  BY <1>1, <1>4 DEF GetAffineBlock, Goto, LocalType, Frame, Resting, world
<1>5. CASE DeleteAffineBlock
  BY <1>1, <1>5 DEF DeleteAffineBlock, Goto, LocalType, Frame, Resting, world, local
<1>6. CASE DeleteAffinity
  BY <1>1, <1>6 DEF DeleteAffinity, Goto, LocalType, Frame, Resting, world
<1> QED BY <1>2, <1>3, <1>4, <1>5, <1>6 DEF OwnStep, Reclaims

LEMMA OwnTypes ==
    ASSUME TypeInv, CollectorOk, OwnStep
    PROVE  TypeInv'
<1>1. /\ LocalType /\ StoreType /\ WorldType /\ MovedType /\ Busy
      /\ Gc \in Procs /\ Gc \in Janitors /\ ListsOk /\ GcStepOk
  BY TypeParts, GcIsJanitor DEF TypeInv, CollectorOk
<1>2. 1 \in Blocks
  BY SizesAssumption DEF Blocks
<1>3. CASE ReleaseOrphan
  <2>1. PICK h \in Handles : job' = [job EXCEPT ![Gc] = h]
    BY <1>1, <1>3 DEF ReleaseOrphan, ListsOk
  <2>2. LocalType' /\ Busy'
    BY <1>1, <1>3, <2>1 DEF ReleaseOrphan, Goto, LocalType, Busy, Resting, DelSteps, GcSteps
  <2> QED BY <1>1, <1>3, <2>2, TypeParts
          DEF ReleaseOrphan, store, world, StoreType, WorldType, MovedType, TypeInv, TypeOK,
              LocalType
<1>4. CASE ListNodes
  BY <1>1, <1>4 DEF ListNodes, store, local, TypeInv, TypeOK, Busy
<1>5. CASE GetAffineBlock
  <2>1. PICK x \in dead : cur' = [cur EXCEPT ![Gc] = x[2]]
    BY <1>5 DEF GetAffineBlock
  <2>2. x[2] \in Blocks
    BY <1>1, <2>1 DEF ListsOk
  <2>3. \E step \in Resting : pc' = [pc EXCEPT ![Gc] = step]
    BY <1>5 DEF GetAffineBlock, Goto, Resting
  <2>4. LocalType' /\ Busy'
    BY <1>1, <1>5, <2>1, <2>2, <2>3 DEF GetAffineBlock, LocalType, Busy, Resting, GcSteps
  <2>5. MovedType'
    BY <1>1, <1>5, WroteTypes DEF GetAffineBlock, Kinds
  <2> QED BY <1>1, <1>5, <2>4, <2>5
          DEF GetAffineBlock, store, world, StoreType, WorldType, MovedType, TypeInv, TypeOK,
              LocalType
<1>6. CASE DeleteAffineBlock
  <2>1. LocalType' /\ Busy'
    BY <1>1, <1>6 DEF DeleteAffineBlock, local, Goto, LocalType, Busy, Resting, GcSteps
  <2>2. MovedType'
    BY <1>1, <1>6, WroteTypes DEF DeleteAffineBlock, MovedType
  <2>3. StoreType'
    BY <1>1, <1>6 DEF DeleteAffineBlock, StoreType
  <2> QED BY <1>1, <1>6, <2>1, <2>2, <2>3
          DEF DeleteAffineBlock, world, StoreType, WorldType, MovedType, TypeInv, TypeOK,
              LocalType
<1>7. CASE DeleteAffinity
  <2>1. LocalType' /\ Busy'
    BY <1>1, <1>2, <1>7 DEF DeleteAffinity, Goto, LocalType, Busy, Resting, GcSteps
  <2>2. MovedType'
    BY <1>1, <1>7, WroteTypes DEF DeleteAffinity, MovedType
  <2>3. StoreType'
    BY <1>1, <1>7 DEF DeleteAffinity, StoreType, AffinityStates
  <2> QED BY <1>1, <1>7, <2>1, <2>2, <2>3
          DEF DeleteAffinity, world, StoreType, WorldType, MovedType, TypeInv, TypeOK,
              LocalType
<1> QED BY <1>3, <1>4, <1>5, <1>6, <1>7 DEF OwnStep, Reclaims

(* What an own step does to the blocks: nothing, or it deletes the one it  *)
(* has read, which every process that holds its version will notice.  All  *)
(* its tenants are then wrecked or unlisted, for the affinity it reclaims  *)
(* is that of a node that was not there when it listed them, and has gone  *)
(* since or joined since.                                                  *)
LEMMA OwnBlocks ==
    ASSUME TypeInv, CollectorOk, OwnStep
    PROVE  \/ UNCHANGED blocks
           \/ /\ DeleteAffineBlock /\ target[2] \in Blocks
              /\ blocks' = [blocks EXCEPT ![target[2]] = Absent]
              /\ wrecked' \cup unlisted' = wrecked \cup unlisted \cup Tenants(target[2])
              /\ WroteBlock(Gc, target[2])
<1>1. CASE DeleteAffineBlock /\ ~ UNCHANGED blocks
  <2>1. target \in dead
    BY <1>1 DEF DeleteAffineBlock, CollectorOk, GcStepOk, GcSteps
  <2>2. target[2] \in Blocks /\ target[1] \notin nodes \ joined
    BY <2>1 DEF CollectorOk, ListsOk
  <2> QED BY <1>1, <2>2 DEF DeleteAffineBlock
<1> QED BY <1>1 DEF OwnStep, Reclaims, ReleaseOrphan, ListNodes, GetAffineBlock,
                    DeleteAffinity, store, history

(* Other processes' versions: none is forgotten to have moved.             *)
LEMMA OwnMoves ==
    ASSUME TypeInv, CollectorOk, OwnStep, NEW q \in Procs, q # Gc
    PROVE  /\ moved[q] \subseteq moved'[q]
           /\ UNCHANGED handles
<1>1. moved \in [Procs -> SUBSET Kinds] /\ Gc \in Procs
  BY GcIsJanitor DEF TypeInv, TypeOK
<1>2. CASE GetAffineBlock
  BY <1>1, <1>2 DEF GetAffineBlock, Read, store
<1>3. CASE DeleteAffineBlock
  BY <1>1, <1>3 DEF DeleteAffineBlock, WroteBlock, Wrote
<1>4. CASE DeleteAffinity
  BY <1>1, <1>4 DEF DeleteAffinity, WroteAffinity, Wrote
<1>5. CASE ReleaseOrphan \/ ListNodes
  BY <1>5 DEF ReleaseOrphan, ListNodes, store
<1> QED BY <1>2, <1>3, <1>4, <1>5 DEF OwnStep, Reclaims

LEMMA OwnBlockInv ==
    ASSUME BlockInv, CollectorOk, OwnStep
    PROVE  BlockInv'
<1>1. /\ TypeInv /\ Frame(Gc) /\ UNCHANGED copy
      /\ pc'[Gc] \in Resting \cup {"release_get"}
  BY OwnFrame DEF BlockInv
<1>2. LocalType /\ StoreType /\ MovedType
  BY <1>1, TypeParts DEF TypeInv
<1>3. ASSUME NEW q \in Procs PROVE CopyCurrent(q)'
  <2>1. CASE q = Gc
    BY <1>1, <2>1 DEF CopyCurrent, BlockSteps, Resting
  <2>2. CASE q # Gc
    <3>1. /\ pc'[q] = pc[q] /\ cur'[q] = cur[q] /\ copy'[q] = copy[q]
          /\ hcopy'[q] = hcopy[q] /\ job'[q] = job[q]
          /\ moved[q] \subseteq moved'[q] /\ handles' = handles
      BY <1>1, <2>2, OwnMoves DEF Frame
    <3>2. CopyCurrent(q)
      BY CopiesByProcess DEF BlockInv
    <3>3. CASE UNCHANGED blocks
      BY <3>1, <3>2, <3>3 DEF CopyCurrent
    <3>4. CASE /\ target[2] \in Blocks /\ WroteBlock(Gc, target[2])
               /\ blocks' = [blocks EXCEPT ![target[2]] = Absent]
      <4>1. CASE cur[q] = target[2] /\ pc[q] \in BlockSteps
        <5>1. HoldsBlock(q, target[2])
          BY <4>1 DEF HoldsBlock, BlockSteps
        <5>2. "block" \in moved'[q]
          BY <1>2, <2>2, <3>4, <5>1 DEF WroteBlock, Wrote, MovedType
        <5> QED BY <3>1, <3>2, <4>1, <5>2 DEF CopyCurrent, BlockSteps
      <4>2. CASE cur[q] # target[2] \/ pc[q] \notin BlockSteps
        <5>1. cur[q] \in Blocks
          BY <1>2 DEF LocalType
        <5>2. cur[q] # target[2] => blocks'[cur[q]] = blocks[cur[q]]
          BY <1>2, <3>4, <5>1 DEF StoreType
        <5> QED BY <3>1, <3>2, <4>2, <5>2 DEF CopyCurrent
      <4> QED BY <4>1, <4>2
    <3> QED BY <1>1, <3>3, <3>4, OwnBlocks
  <2> QED BY <2>1, <2>2
<1>4. CopiesCurrent'
  BY <1>3 DEF CopiesCurrent, CopyCurrent, BlockSteps
<1>5. CopiesOwned'
  BY <1>1 DEF BlockInv, Frame, CopiesOwned, CopyOwned, WriteSteps, Resting
<1> QED BY <1>1, <1>4, <1>5, OwnTypes DEF BlockInv

(* One janitor's call: it touches no sandbox, and stays with its handle.   *)
LEMMA ReleaseFrame ==
    ASSUME TypeInv, Step(Gc), pc[Gc] \in DelSteps
    PROVE  /\ Frame(Gc) /\ UNCHANGED <<status, held>>
           /\ pc'[Gc] \in {"idle"} \cup DelSteps
           /\ pc'[Gc] \in DelSteps => job'[Gc] = job[Gc]
<1>1. LocalType /\ Gc \in Procs /\ Gc \in Janitors
  BY TypeParts, GcIsJanitor DEF TypeInv
<1> DEFINE Kept == /\ UNCHANGED <<status, held>>
                   /\ pc'[Gc] \in {"idle"} \cup DelSteps
                   /\ pc'[Gc] \in DelSteps => job'[Gc] = job[Gc]
<1>2. ASSUME NEW ok, End(Gc, ok) PROVE Kept
  BY <1>1, <1>2 DEF End, Clear, Outcome, LocalType, DelSteps
<1>3. ASSUME Retry(Gc, "release_get") PROVE Kept
  <2>1. CASE Fail(Gc)
    BY <1>2, <2>1 DEF Fail
  <2>2. CASE ~ Fail(Gc)
    BY <1>1, <1>3, <2>2 DEF Retry, world, LocalType, DelSteps
  <2> QED BY <2>1, <2>2
<1>4. ASSUME NEW rest, Visit(Gc, rest), UNCHANGED <<job, world>> PROVE Kept
  BY <1>1, <1>4 DEF Visit, Goto, world, LocalType, DelSteps
<1>5. ASSUME Goto(Gc, "release_write"), UNCHANGED <<job, world>> PROVE Kept
  BY <1>1, <1>5 DEF Goto, world, LocalType, DelSteps
<1> HIDE DEF Kept
<1>6. ASSUME ReleaseGet(Gc) PROVE Kept
  BY <1>2, <1>4, <1>6 DEF ReleaseGet, Done
<1>7. ASSUME ReleaseBlock(Gc) PROVE Kept
  BY <1>4, <1>5, <1>7 DEF ReleaseBlock
<1>8. ASSUME ReleaseWrite(Gc) PROVE Kept
  BY <1>2, <1>3, <1>4, <1>8 DEF ReleaseWrite, Fail
<1>9. ASSUME DeleteHandle(Gc) PROVE Kept
  BY <1>2, <1>3, <1>9 DEF DeleteHandle, Done, Fail
<1>10. ReleaseGet(Gc) \/ ReleaseBlock(Gc) \/ ReleaseWrite(Gc) \/ DeleteHandle(Gc)
  BY DEF Step, DelSteps, IpsByHandle, Recover, BlockOwner, GetBlock, GetAffinity,
     CreateAffinity, ConfirmAffinity, BlockFull, UpdateBlock, CreateBlock,
     GetHandle, UpdateHandle, CreateHandle
<1>11. Kept
  BY <1>6, <1>7, <1>8, <1>9, <1>10
<1> QED BY <1>1, <1>11, StepFrame DEF Kept

(* The parts that a step of nobody else than the collector cannot disturb. *)
LEMMA CommandsApart ==
    ASSUME TypeInv, CommandsOk, Frame(Gc), UNCHANGED <<status, held>>
    PROVE  CommandsOk'
<1>1. \A q \in Commands : pc'[q] = pc[q] /\ job'[q] = job[q] /\ q # Gc
  BY GcIsJanitor DEF Frame
<1>2. \A q \in Commands : CommandOk(q)'
  BY <1>1 DEF CommandsOk, CommandOk
<1> QED BY <1>1, <1>2 DEF CommandsOk

(* A step of the collector, or of the commands, keeps what it has in hand. *)
LEMMA NextCollector ==
    ASSUME TypeInv, CollectorOk, [GcNext]_allVars
    PROVE  CollectorOk'
<1>1. LocalType /\ Gc \in Procs /\ Gc \in Janitors /\ GcStepOk /\ ListsOk
  BY TypeParts, GcIsJanitor DEF TypeInv, CollectorOk
<1>2. ASSUME NEW p \in Procs, StartCni(p)
      PROVE  CollectorOk'
  <2>1. p # Gc
    BY <1>1, <1>2 DEF StartCni, BeginAdd, BeginDel
  <2>2. pc'[Gc] = pc[Gc] /\ job'[Gc] = job[Gc] /\ UNCHANGED cur
    BY <1>1, <1>2, <2>1 DEF StartCni, BeginAdd, BeginDel, Goto, LocalType
  <2> QED BY <1>1, <1>2, <2>2
          DEF StartCni, clusterVars, gcVars, history, CollectorOk, GcStepOk, ListsOk
<1>3. ASSUME NEW p \in Procs, RunCni(p)
      PROVE  CollectorOk'
  <2>1. pc'[Gc] = pc[Gc] /\ job'[Gc] = job[Gc] /\ cur'[Gc] = cur[Gc]
    BY <1>1, <1>3, StepFrame DEF RunCni, Frame
  <2> QED BY <1>1, <1>3, <2>1
          DEF RunCni, clusterVars, history, CollectorOk, GcStepOk, ListsOk
<1>4. CASE ReleaseStep
  <2>1. pc[Gc] # "idle" /\ gpc = "release"
    BY <1>1, <1>4, StepInCall DEF ReleaseStep
  <2>2. pc[Gc] \in DelSteps
    BY <1>1, <2>1 DEF GcStepOk
  <2>3. /\ pc'[Gc] \in {"idle"} \cup DelSteps
        /\ pc'[Gc] \in DelSteps => job'[Gc] = job[Gc]
    BY <1>4, <2>2, ReleaseFrame DEF ReleaseStep
  <2> QED BY <1>1, <1>4, <2>2, <2>3
          DEF ReleaseStep, clusterVars, gcVars, history, CollectorOk, GcStepOk, ListsOk,
              DelSteps, GcSteps
<1>5. CASE ReleaseOrphan
  BY <1>1, <1>5 DEF ReleaseOrphan, Goto, LocalType, clusterVars, history, CollectorOk,
                    GcStepOk, ListsOk, DelSteps, GcSteps
<1>6. CASE ListNodes
  BY <1>1, <1>6 DEF ListNodes, clusterVars, history, CollectorOk, GcStepOk, ListsOk,
                    DelSteps, GcSteps
<1>7. CASE GetAffineBlock
  <2>1. PICK x \in dead : /\ target' = x /\ cur' = [cur EXCEPT ![Gc] = x[2]]
                          /\ pc'[Gc] \in GcSteps
    BY <1>1, <1>7 DEF GetAffineBlock, Goto, GcSteps, LocalType
  <2>2. cur'[Gc] = target'[2]
    BY <1>1, <2>1 DEF LocalType
  <2> QED BY <1>1, <1>7, <2>1, <2>2
          DEF GetAffineBlock, clusterVars, history, CollectorOk, GcStepOk, ListsOk,
              DelSteps, GcSteps
<1>8. CASE DeleteAffineBlock
  BY <1>1, <1>8 DEF DeleteAffineBlock, Goto, LocalType, local, clusterVars, gcVars,
                    CollectorOk, GcStepOk, ListsOk, DelSteps, GcSteps
<1>9. CASE DeleteAffinity
  <2>1. dead' \subseteq dead /\ pc'[Gc] = "idle"
    BY <1>1, <1>9 DEF DeleteAffinity, Goto, LocalType
  <2> QED BY <1>1, <1>9, <2>1
          DEF DeleteAffinity, clusterVars, history, CollectorOk, GcStepOk, ListsOk,
              DelSteps, GcSteps
<1>10. ASSUME NEW n \in Hosts, DeleteNode(n)
       PROVE  CollectorOk'
  BY <1>1, <1>10 DEF DeleteNode, vars, local, gcVars, history, CollectorOk, GcStepOk, ListsOk
<1>11. CASE ListBlocks
  BY <1>1, <1>11 DEF ListBlocks, OrphanedHandles, vars, local, clusterVars, CollectorOk,
                     GcStepOk, ListsOk
<1>12. CASE ListAffinities
  BY <1>1, <1>12 DEF ListAffinities, DeadAffinities, vars, local, clusterVars, history,
                     CollectorOk, GcStepOk, ListsOk
<1>13. CASE (\E pod \in Pods : CreatePod(pod) \/ DeletePod(pod)) \/ ListPods \/ Sleep
            \/ UNCHANGED allVars
  BY <1>1, <1>13 DEF CreatePod, DeletePod, ListPods, Sleep, allVars, vars, local, gcVars,
                     clusterVars, history, CollectorOk, GcStepOk, ListsOk
<1>14. ASSUME NEW n \in Hosts, RegisterNode(n)
       PROVE  CollectorOk'
  BY <1>1, <1>14, GcAssumption
     DEF RegisterNode, vars, local, gcVars, CollectorOk, GcStepOk, ListsOk
<1> QED BY <1>2, <1>3, <1>4, <1>5, <1>6, <1>7, <1>8, <1>9, <1>10, <1>11, <1>12, <1>13,
           <1>14, GcStepKinds DEF OwnStep, Reclaims, Looks

(* A handle that has once been an exception stays one.                     *)
LEMMA SafeBefore ==
    ASSUME [GcNext]_allVars, NEW h, Safe(h)'
    PROVE  Safe(h)
<1>1. judged \subseteq judged' /\ wrecked \subseteq wrecked' /\ unlisted \subseteq unlisted'
  BY DEF GcNext, GcLoop, CreatePod, DeletePod, DeleteNode, RegisterNode, StartCni, RunCni, ListPods, ListBlocks,
         ReleaseOrphan, ReleaseStep, ListNodes, ListAffinities, GetAffineBlock,
         DeleteAffineBlock, DeleteAffinity, Sleep, allVars, clusterVars, gcVars, history
<1> QED BY <1>1 DEF Safe

(* A step of a command: each safe sandbox keeps its address until its own  *)
(* DEL, and an ADD the one it has written.                                 *)
LEMMA CommandKeeps ==
    ASSUME GcInv, [GcNext]_allVars, NEW p \in Procs, RunCni(p)
    PROVE  GotSurvives' /\ AddressesSurviveGc'
<1>1. /\ LocalType /\ StoreType /\ WorldType /\ Busy /\ TypeInv
      /\ p \in Commands /\ (Step(p) \/ Abandon(p))
  BY TypeParts, GcIsJanitor DEF GcInv, BlockInv, TypeInv, RunCni
<1>2. ASSUME NEW a \in Addresses, NEW h \in Handles, LeaseOf(a) = h,
             pc[p] \notin DelSteps \/ job[p] # h
      PROVE  NewLease(a) = h
  BY <1>1, <1>2, LeaseKept, NewLeaseOf DEF DelSteps, GcInv
<1>3. ASSUME NEW q \in Commands, pc'[q] \in Written
      PROVE  /\ got'[q] \in Addresses
             /\ Safe(job'[q]) => NewLease(got'[q]) = job'[q]
  <2>1. CASE q = p
    <3>1. CASE Grants(p)
      <4>1. PICK s \in Slots :
               /\ got'[p] = <<cur[p], s>>
               /\ \A a \in Addresses :
                     LeaseOf(a)' = IF a = <<cur[p], s>> THEN job[p] ELSE LeaseOf(a)
        BY <3>1 DEF Grants
      <4>2. <<cur[p], s>> \in Addresses
        BY <1>1 DEF LocalType, Addresses, Commands
      <4>3. NewLease(<<cur[p], s>>) = job[p]
        BY <4>1, <4>2, NewLeaseOf
      <4> QED BY <2>1, <3>1, <4>1, <4>2, <4>3 DEF Grants
    <3>2. CASE pc[p] = "get_handle" /\ UNCHANGED <<blocks, got, job>>
      BY <1>1, <2>1, <3>2 DEF GcInv, GotSurvives, Written, LeaseOf, NewLease
    <3> QED BY <1>1, <1>3, <2>1, <3>1, <3>2, WrittenEffect DEF GcInv
  <2>2. CASE q # p
    <3>1. pc'[q] = pc[q] /\ got'[q] = got[q] /\ job'[q] = job[q] /\ q \in Procs
      BY <1>1, <2>2, StepFrame DEF Frame, Commands
    <3>2. job[q] \in Handles
      BY <1>1, <1>3, <3>1 DEF Busy, Resting, Written
    <3>3. job[p] # job[q]
      BY <1>1, <2>2, <3>2, SentinelAssumption DEF GcInv, CommandsOk
    <3>4. /\ got[q] \in Addresses
          /\ Safe(job[q]) => LeaseOf(got[q]) = job[q]
      BY <1>3, <3>1 DEF GcInv, GotSurvives
    <3> QED BY <1>2, <3>1, <3>2, <3>3, <3>4
  <2> QED BY <2>1, <2>2
<1>4. ASSUME NEW h \in Handles, held[h] # None, Safe(h)
      PROVE  NewLease(held[h]) = h
  <2>1. held[h] \in Addresses /\ LeaseOf(held[h]) = h
    BY <1>1, <1>4 DEF WorldType, GcInv, AddressesSurviveGc, Safe
  <2>2. pc[p] \notin DelSteps \/ job[p] # h
    BY <1>1, <1>4 DEF GcInv, CommandsOk, CommandOk
  <2> QED BY <1>2, <2>1, <2>2
<1>5. ASSUME NEW h \in Handles, held'[h] # None, Safe(h)
      PROVE  NewLease(held'[h]) = h
  <2>1. CASE held'[h] = held[h]
    BY <1>4, <1>5, <2>1
  <2>2. CASE held'[h] # held[h]
    <3>1. PICK a : /\ held' = [held EXCEPT ![job[p]] = a]
                   /\ \/ a \in Addresses /\ LeaseOf(a) = job[p]
                      \/ pc[p] \in Written /\ a = got[p]
                   /\ pc[p] \in AddSteps /\ UNCHANGED blocks
      BY <1>1, <2>2, HeldSource DEF Commands
    <3>2. h = job[p] /\ held'[h] = a
      BY <1>1, <2>2, <3>1 DEF WorldType
    <3>3. LeaseOf(a) = h
      BY <1>1, <1>5, <3>1, <3>2 DEF GcInv, GotSurvives
    <3> QED BY <3>1, <3>2, <3>3 DEF LeaseOf, NewLease
  <2> QED BY <2>1, <2>2
<1>6. GotSurvives'
  <2>1. ASSUME NEW q \in Commands, pc'[q] \in Written
        PROVE  /\ got'[q] \in Addresses
               /\ Safe(job[q])' => LeaseOf(got[q])' = job'[q]
    BY <1>3, <2>1, SafeBefore, NewLeaseOf DEF LeaseOf, NewLease, Safe
  <2> QED BY <2>1 DEF GotSurvives
<1>7. AddressesSurviveGc'
  <2>1. ASSUME NEW h \in Handles, held'[h] # None, Safe(h)'
        PROVE  LeaseOf(held[h])' = h
    <3>1. Safe(h)
      BY <1>1, <2>1 DEF RunCni, clusterVars, history, Safe
    <3> QED BY <1>5, <2>1, <3>1 DEF LeaseOf, NewLease
  <2> QED BY <2>1 DEF AddressesSurviveGc, Safe
<1> QED BY <1>6, <1>7

(* A step of somebody else: it suffices that the leases of safe sandboxes  *)
(* stay, and that sandboxes and commands are as they were.                 *)
LEMMA OthersKeep ==
    ASSUME GcInv, [GcNext]_allVars,
           \A q \in Commands : pc'[q] \in Written =>
               pc[q] \in Written /\ job'[q] = job[q] /\ got'[q] = got[q],
           \A h \in Handles : held'[h] = held[h] \/ held'[h] = None,
           \A a \in Addresses, h \in Handles :
               LeaseOf(a) = h /\ Safe(h)' => LeaseOf(a)' = h
    PROVE  GotSurvives' /\ AddressesSurviveGc'
<1>1. WorldType /\ Busy
  BY TypeParts DEF GcInv, BlockInv, TypeInv
<1>2. ASSUME NEW q \in Commands, pc'[q] \in Written
      PROVE  /\ got'[q] \in Addresses
             /\ Safe(job[q])' => LeaseOf(got[q])' = job'[q]
  <2>1. job[q] \in Handles /\ got[q] \in Addresses
    BY <1>1, <1>2 DEF Busy, Resting, Written, Commands, GcInv, GotSurvives
  <2>2. ASSUME Safe(job[q])' PROVE NewLease(got'[q]) = job'[q]
    <3>1. Safe(job[q])
      BY <1>2, <2>2, SafeBefore DEF Safe
    <3>2. LeaseOf(got[q]) = job[q]
      BY <1>2, <3>1 DEF GcInv, GotSurvives
    <3> QED BY <1>2, <2>1, <2>2, <3>2, NewLeaseOf DEF Safe
  <2> QED BY <1>2, <2>1, <2>2 DEF LeaseOf, NewLease
<1>3. ASSUME NEW h \in Handles, held'[h] # None, Safe(h)'
      PROVE  LeaseOf(held[h])' = h
  <2>1. held'[h] = held[h] /\ held[h] \in Addresses
    BY <1>1, <1>3 DEF WorldType
  <2>2. Safe(h)
    BY <1>3, <2>1, SafeBefore DEF Safe
  <2>3. LeaseOf(held[h]) = h
    BY <1>3, <2>1, <2>2 DEF GcInv, AddressesSurviveGc, Safe
  <2>4. NewLease(held'[h]) = h
    BY <1>3, <2>1, <2>3, NewLeaseOf DEF Safe
  <2> QED BY <2>4 DEF LeaseOf, NewLease
<1> QED BY <1>2, <1>3 DEF GotSurvives, AddressesSurviveGc, Safe

(* The two ways in which the collector takes a lease away: a release, of a *)
(* handle it has judged; the deletion of a block, whose tenants are all    *)
(* unlisted when its owner is the node missed, or else wrecked.            *)
LEMMA CollectorTakes ==
    ASSUME GcInv, [GcNext]_allVars, ReleaseStep \/ OwnStep,
           NEW a \in Addresses, NEW h \in Handles, LeaseOf(a) = h, Safe(h)'
    PROVE  LeaseOf(a)' = h
<1>1. TypeInv /\ LocalType /\ StoreType /\ CollectorOk /\ Gc \in Procs
  BY TypeParts, GcIsJanitor DEF GcInv, BlockInv, TypeInv
<1>2. Safe(h)
  BY SafeBefore
<1>3. CASE ReleaseStep
  <2>1. pc[Gc] \in DelSteps => job[Gc] # h
    BY <1>1, <1>2 DEF CollectorOk, GcStepOk, Safe
  <2> QED BY <1>1, <1>3, <2>1, LeaseKept DEF ReleaseStep, GcInv, DelSteps
<1>4. CASE OwnStep
  <2>1. CASE UNCHANGED blocks
    BY <2>1 DEF LeaseOf
  <2>2. CASE /\ target[2] \in Blocks
             /\ blocks' = [blocks EXCEPT ![target[2]] = Absent]
             /\ wrecked' \cup unlisted' = wrecked \cup unlisted \cup Tenants(target[2])
    <3>1. PICK b \in Blocks, s \in Slots : a = <<b, s>>
      BY DEF Addresses
    <3>4. h \notin Tenants(target[2])
      BY <2>2 DEF Safe
    <3>5. b # target[2]
      BY <3>1, <3>4 DEF Tenants
    <3>6. blocks'[b] = blocks[b]
      BY <1>1, <2>2, <3>5 DEF StoreType
    <3> QED BY <3>1, <3>6 DEF LeaseOf
  <2> QED BY <1>1, <1>4, <2>1, <2>2, OwnBlocks
<1> QED BY <1>3, <1>4

LEMMA CollectorKeeps ==
    ASSUME GcInv, [GcNext]_allVars, ReleaseStep \/ OwnStep
    PROVE  CommandsOk' /\ StrictAffinity' /\ GotSurvives' /\ AddressesSurviveGc'
<1>1. TypeInv /\ StoreType /\ CollectorOk /\ Gc \in Procs
  BY TypeParts, GcIsJanitor DEF GcInv, BlockInv, TypeInv
<1>2. CASE ReleaseStep
  <2>1. pc[Gc] \in DelSteps /\ Step(Gc)
    BY <1>1, <1>2, StepInCall DEF ReleaseStep, CollectorOk, GcStepOk, GcSteps
  <2>2. Frame(Gc) /\ UNCHANGED <<status, held>>
    BY <1>1, <2>1, ReleaseFrame
  <2>3. StrictAffinity'
    BY <1>1, <2>1, StepStrict DEF GcInv
  <2> QED BY <1>1, <1>2, <2>2, <2>3, CommandsApart, CollectorTakes, OthersKeep, GcIsJanitor
          DEF GcInv, Frame
<1>3. CASE OwnStep
  <2>1. Frame(Gc) /\ UNCHANGED <<status, held>>
    BY <1>1, <1>3, OwnFrame
  <2>2. UNCHANGED blocks \/ blocks' = [blocks EXCEPT ![target[2]] = Absent]
    BY <1>1, <1>3, OwnBlocks
  <2>3. StrictAffinity'
    BY <1>1, <2>2 DEF GcInv, StrictAffinity, StoreType
  <2> QED BY <1>1, <1>3, <2>1, <2>3, CommandsApart, CollectorTakes, OthersKeep, GcIsJanitor
          DEF GcInv, Frame
<1> QED BY <1>2, <1>3

LEMMA InitGcInv == GcInit => GcInv
<1> SUFFICES ASSUME GcInit PROVE GcInv
  OBVIOUS
<1>1. BlockInv /\ StrictAffinity
  BY InitLeaseInv DEF GcInit, LeaseInv, DriverInv, Leased, BlockInv
<1>2. CommandsOk
  BY DEF GcInit, Init, Commands, CommandsOk, CommandOk, AddSteps, DelSteps
<1>3. CollectorOk
  BY GcIsJanitor DEF GcInit, Init, CollectorOk, GcStepOk, ListsOk, DelSteps, GcSteps
<1>4. GotSurvives /\ AddressesSurviveGc
  BY DEF GcInit, Init, Commands, GotSurvives, Written, AddressesSurviveGc
<1> QED BY <1>1, <1>2, <1>3, <1>4 DEF GcInv

LEMMA NextGcInv == GcInv /\ [GcNext]_allVars => GcInv'
<1> SUFFICES ASSUME GcInv, [GcNext]_allVars PROVE GcInv'
  OBVIOUS
<1>1. TypeInv /\ CommandsOk /\ CollectorOk /\ BlockInv /\ StrictAffinity
  BY DEF GcInv, BlockInv
<1>2. CollectorOk'
  BY <1>1, NextCollector
<1>3. BlockInv'
  <2>1. CASE OwnStep
    BY <1>1, <2>1, OwnBlockInv
  <2>2. CASE [Next]_vars
    BY <1>1, <2>2, NextTypes, NextCopies, NextCopiesOwned DEF BlockInv
  <2> QED BY <2>1, <2>2, GcStepKinds, GcDriverStep
<1> DEFINE Kept == CommandsOk' /\ StrictAffinity' /\ GotSurvives' /\ AddressesSurviveGc'
<1>4. ASSUME ReleaseStep \/ OwnStep PROVE Kept
  BY <1>4, CollectorKeeps
<1>5. ASSUME NEW p \in Procs, RunCni(p) PROVE Kept
  <2>1. p \in Commands /\ (Step(p) \/ Abandon(p))
    BY <1>5, GcIsJanitor DEF RunCni
  <2>2. GotSurvives' /\ AddressesSurviveGc'
    BY <1>5, CommandKeeps
  <2>3. CommandsOk' /\ StrictAffinity'
    BY <1>1, <2>1, StepJobs, StepStrict DEF Commands
  <2> QED BY <2>2, <2>3
<1>6. ASSUME NEW p \in Procs, StartCni(p) PROVE Kept
  <2>1. PICK h \in Handles : BeginAdd(p, h) \/ BeginDel(p, h)
    BY <1>6 DEF StartCni
  <2>2. LocalType /\ WorldType
    BY <1>1, TypeParts DEF TypeInv
  <2>3. CommandsOk' /\ UNCHANGED blocks
    BY <1>1, <2>1, BeginJobs DEF BeginAdd, BeginDel, store
  <2>4. \A g \in Handles : held'[g] = held[g] \/ held'[g] = None
    BY <2>1, <2>2 DEF BeginAdd, BeginDel, WorldType
  <2>5. \A q \in Commands : pc'[q] \in Written =>
            pc[q] \in Written /\ job'[q] = job[q] /\ got'[q] = got[q]
    BY <2>1, <2>2 DEF BeginAdd, BeginDel, Goto, LocalType, Written, Commands
  <2>6. \A a \in Addresses, g \in Handles :
            LeaseOf(a) = g /\ Safe(g)' => LeaseOf(a)' = g
    BY <2>3 DEF LeaseOf
  <2>7. GotSurvives' /\ AddressesSurviveGc'
    BY <2>4, <2>5, <2>6, OthersKeep
  <2> QED BY <1>1, <2>3, <2>7 DEF StrictAffinity
<1>7. ASSUME Looks \/ UNCHANGED allVars PROVE Kept
  <2>1. UNCHANGED vars
    BY <1>7 DEF Looks, CreatePod, DeletePod, DeleteNode, RegisterNode, ListPods, ListBlocks,
                ListAffinities, Sleep, allVars
  <2>2. UNCHANGED <<blocks, pc, job, got, status, held>>
    BY <2>1 DEF vars, store, local, world
  <2>3. CommandsOk' /\ StrictAffinity'
    BY <1>1, <2>2 DEF CommandsOk, CommandOk, StrictAffinity
  <2>4. \A a \in Addresses, g \in Handles :
            LeaseOf(a) = g /\ Safe(g)' => LeaseOf(a)' = g
    BY <2>2 DEF LeaseOf
  <2>5. GotSurvives' /\ AddressesSurviveGc'
    BY <2>2, <2>4, OthersKeep
  <2> QED BY <2>3, <2>5
<1>8. Kept
  BY <1>4, <1>5, <1>6, <1>7, GcStepKinds
<1> QED BY <1>2, <1>3, <1>8 DEF GcInv

(* The collector and the commands together: copies are current and owned,  *)
(* commands agree with their sandboxes, the collector releases only what   *)
(* it has judged, and reclaims only the affinities of nodes that are not   *)
(* there, or were not when it listed them and have registered since.       *)
THEOREM CollectorInvariant == GcSpec => []GcInv
BY InitGcInv, NextGcInv, PTL DEF GcSpec

(* No sandbox loses the address ADD gave it to the collector, whatever     *)
(* commands, conflicts, errors, crashes, and nodes and pods that come and  *)
(* go there are in between, but for the three cases that the property      *)
(* names: a pod created between the list of pods and the list of blocks, a *)
(* block that another node's claim names, and a node that has gone, or has *)
(* registered after the nodes were listed.                                 *)
THEOREM AddressesSurviveCollection == GcSpec => []AddressesSurviveGc
<1>1. GcInv => AddressesSurviveGc
  BY DEF GcInv
<1> QED BY <1>1, CollectorInvariant, PTL

(* The collector does not mix nodes in a block either: it deletes a block  *)
(* with all its allocations, and whoever held a copy cannot write it back. *)
THEOREM AffinityStaysStrict == GcSpec => []StrictAffinity
<1>1. GcInv => StrictAffinity
  BY DEF GcInv
<1> QED BY <1>1, CollectorInvariant, PTL

=============================================================================
