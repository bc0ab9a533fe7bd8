------------------------------ MODULE KddIpam -------------------------------
(***************************************************************************)
(* The cluster-backed IPAM driver (crates/ipam/src/kdd.rs) as the CNI      *)
(* plugin and the garbage collector run it: processes that read and write  *)
(* IPAMBlock, BlockAffinity and IPAMHandle objects in the Kubernetes API.  *)
(* Every call of the backend is one step; between two of its calls a       *)
(* process may be overtaken by others, crash, or get an error.             *)
(*                                                                         *)
(* Compare-and-swap.  A resource version is only ever compared for         *)
(* equality with the version a process read, so instead of numbers each    *)
(* process keeps in `moved` the kinds of object it holds a version of that *)
(* have been written since it read them.  A write whose object has moved   *)
(* is a Conflict; a write or delete of an absent object is NotFound, which *)
(* is not retried.                                                         *)
(*                                                                         *)
(* Data.  A block is its owner and the handle of each slot (IpamBlock is   *)
(* the detail: which free slot the FIFO hands out is a choice here).  A    *)
(* handle object is the set of blocks it refers to: its counts are written *)
(* but never read by this driver.  Requests are for one address, as the    *)
(* CNI plugin's are.                                                       *)
(***************************************************************************)
EXTENDS Integers, FiniteSets

CONSTANTS
    Hosts,        \* node names
    Handles,      \* handle ids: one per sandbox (container id)
    HostOf,       \* the node of a sandbox
    NBlocks,      \* number of blocks in the pool, tried in this order
    Slots,        \* addresses of a block
    Procs,        \* driver processes that can run at the same time
    Janitors,     \* those of them that belong to the garbage collector
    Retries,      \* DATASTORE_RETRIES
    MaxAbandons,  \* bound on calls cut short by a crash or an API error
    Absent,       \* an object that does not exist
    Free, None    \* an unallocated slot; no address, no job

Blocks == 1 .. NBlocks
Block == [host : Hosts, alloc : [Slots -> Handles \cup {Free}]]

ASSUME SizesAssumption == NBlocks \in Nat \ {0} /\ Retries \in Nat \ {0}
ASSUME SlotsAssumption == Slots \subseteq Nat
ASSUME HostOfAssumption == HostOf \in [Handles -> Hosts]
ASSUME BoundAssumption == MaxAbandons \in Nat /\ Janitors \subseteq Procs
ASSUME SentinelAssumption ==
    /\ Absent \notin Block /\ \A S \in SUBSET Blocks : Absent # S
    /\ Free \notin Handles
    /\ None \notin Handles /\ None \notin Blocks \X Slots

VARIABLES
    \* the datastore
    blocks,      \* [Blocks -> Block or Absent]
    affinities,  \* [Hosts \X Blocks -> state of the BlockAffinity]
    handles,     \* [Handles -> blocks of the IPAMHandle, or Absent]
    \* the processes
    pc, job,     \* what the process does, and for which handle
    pass, cur,   \* pass over the pool, block at hand
    tries,       \* attempts that ended in a Conflict
    copy, hcopy, \* the block and the handle object as read
    todo,        \* blocks still to visit
    got,         \* address written for the job in this attempt
    moved,       \* kinds of held object written by others since read
    \* the sandboxes, and history
    status,      \* life of a sandbox as the container runtime sees it
    held,        \* address that ADD returned for the sandbox
    erred,       \* janitors whose last call returned an error
    abandoned,   \* sandboxes one of whose calls was cut short or gave up
    abandons     \* number of calls cut short so far

store == <<blocks, affinities, handles>>
local == <<job, pass, cur, tries, copy, hcopy, todo, got>>
world == <<status, held, erred, abandoned, abandons>>
vars == <<store, pc, local, moved, world>>

AffinityStates == {"absent", "pending", "confirmed"}
Kinds == {"block", "affinity", "handle"}
AddSteps == {"ips_by_handle", "recover", "block_owner", "get_block",
             "get_affinity", "create_affinity", "confirm_affinity",
             "write_block", "get_handle", "write_handle"}
DelSteps == {"release_get", "release_block", "release_write", "delete_handle"}
GcSteps == {"gc_delete_block", "gc_delete_affinity"}  \* see IpamGc
Addresses == Blocks \X Slots

MinOf(S) == CHOOSE x \in S : \A y \in S : x <= y
SlotsOf(block, h) == {s \in Slots : block.alloc[s] = h}

Init ==
    /\ blocks = [b \in Blocks |-> Absent]
    /\ affinities = [x \in Hosts \X Blocks |-> "absent"]
    /\ handles = [h \in Handles |-> Absent]
    /\ pc = [p \in Procs |-> "idle"]
    /\ job = [p \in Procs |-> None]
    /\ pass = [p \in Procs |-> 1]
    /\ cur = [p \in Procs |-> 1]
    /\ tries = [p \in Procs |-> 0]
    /\ copy = [p \in Procs |-> Absent]
    /\ hcopy = [p \in Procs |-> Absent]
    /\ todo = [p \in Procs |-> {}]
    /\ got = [p \in Procs |-> None]
    /\ moved = [p \in Procs |-> {}]
    /\ status = [h \in Handles |-> "new"]
    /\ held = [h \in Handles |-> None]
    /\ erred = {}
    /\ abandoned = {}
    /\ abandons = 0

-----------------------------------------------------------------------------
(* Versions.  Which object a process holds a version of depends on where   *)
(* it is: it keeps a version from the read to the write that names it.     *)
HoldsBlock(p, b) ==
    /\ cur[p] = b
    /\ pc[p] \in {"get_affinity", "create_affinity", "confirm_affinity",
                  "write_block", "release_write", "gc_delete_block"}
HoldsAffinity(p, x) ==
    /\ pc[p] = "confirm_affinity"
    /\ x = <<HostOf[job[p]], cur[p]>>
HoldsHandle(p, h) ==
    /\ job[p] = h
    /\ pc[p] \in {"write_handle", "release_block", "release_write",
                  "delete_handle"}

(* p wrote an object: it has moved under every other process holding it. *)
Wrote(p, kind, Holds(_)) ==
    moved' = [q \in Procs |->
                 IF q # p /\ Holds(q) THEN moved[q] \cup {kind} ELSE moved[q]]

(* Slip: a backend whose writes leave the resource version as it was. *)
WroteUnnoticed(p, b) == UNCHANGED moved
WroteBlock(p, b) == Wrote(p, "block", LAMBDA q : HoldsBlock(q, b))
WroteAffinity(p, x) == Wrote(p, "affinity", LAMBDA q : HoldsAffinity(q, x))
WroteHandle(p, h) == Wrote(p, "handle", LAMBDA q : HoldsHandle(q, h))

(* The backend's check of a write: the version named is the current one.   *)
(* Slip: an unconditional write, what a revision of 0 would ask for.       *)
AnyVersion(p, kind) == TRUE
Matches(p, kind) == kind \notin moved[p]

(* p read an object of this kind: the version it holds is the current one. *)
Read(p, kind) == moved' = [moved EXCEPT ![p] = @ \ {kind}]

-----------------------------------------------------------------------------
(* The end of a driver call.                                               *)
Clear(p) ==
    /\ pc' = [pc EXCEPT ![p] = "idle"]
    /\ job' = [job EXCEPT ![p] = None]
    /\ pass' = [pass EXCEPT ![p] = 1]
    /\ cur' = [cur EXCEPT ![p] = 1]
    /\ tries' = [tries EXCEPT ![p] = 0]
    /\ copy' = [copy EXCEPT ![p] = Absent]
    /\ hcopy' = [hcopy EXCEPT ![p] = Absent]
    /\ todo' = [todo EXCEPT ![p] = {}]
    /\ got' = [got EXCEPT ![p] = None]

(* A CNI command of p ends and leaves its sandbox in state s; the garbage  *)
(* collector's calls mean nothing to the container runtime.                *)
Outcome(p, s) ==
    status' = IF p \in Janitors THEN status ELSE [status EXCEPT ![job[p]] = s]

(* The call ends without an address, ok or with an error.  ADD reports     *)
(* both as an error; DEL ignores what release_by_handle returns.           *)
End(p, ok) ==
    /\ Clear(p)
    /\ Outcome(p, IF pc[p] \in AddSteps THEN "failed" ELSE "gone")
    /\ erred' = IF p \in Janitors /\ ~ok THEN erred \cup {p} ELSE erred
    /\ abandoned' = IF p \notin Janitors /\ ~ok
                    THEN abandoned \cup {job[p]} ELSE abandoned
    /\ UNCHANGED <<held, abandons>>

Fail(p) == End(p, FALSE)
Done(p) == End(p, TRUE)

(* A Conflict: the whole flow starts over, Retries times in all.  Slip: a  *)
(* Conflict taken for success.                                             *)
ConflictIsDone(p, start) == Done(p)
Retry(p, start) ==
    IF tries[p] + 1 < Retries
    THEN /\ pc' = [pc EXCEPT ![p] = start]
         /\ tries' = [tries EXCEPT ![p] = @ + 1]
         /\ copy' = [copy EXCEPT ![p] = Absent]
         /\ hcopy' = [hcopy EXCEPT ![p] = Absent]
         /\ todo' = [todo EXCEPT ![p] = {}]
         /\ got' = [got EXCEPT ![p] = None]
         /\ UNCHANGED <<job, pass, cur, world>>
    ELSE Fail(p)

(* ADD returns address a to the container runtime. *)
Return(p, a) ==
    /\ Clear(p)
    /\ Outcome(p, "up")
    /\ held' = [held EXCEPT ![job[p]] = a]
    /\ UNCHANGED <<erred, abandoned, abandons>>

(* The blocks of a pass in order.  Slip: a second pass that runs on beyond *)
(* the last block.                                                         *)
BlockAfterUnbounded(b) == b + 1
BlockAfter(b) == IF b = NBlocks THEN 1 ELSE b + 1

(* The current block gave nothing: next block, next pass, or pool exhausted. *)
NextBlock(p) ==
    IF pass[p] = 2 /\ cur[p] = NBlocks
    THEN Done(p)
    ELSE /\ pc' = [pc EXCEPT ![p] = "block_owner"]
         /\ cur' = [cur EXCEPT ![p] = BlockAfter(@)]
         /\ pass' = [pass EXCEPT ![p] = IF cur[p] = NBlocks THEN 2 ELSE @]
         /\ tries' = [tries EXCEPT ![p] = 0]
         /\ copy' = [copy EXCEPT ![p] = Absent]
         /\ UNCHANGED <<job, hcopy, todo, got, world>>

Goto(p, step) == pc' = [pc EXCEPT ![p] = step]

-----------------------------------------------------------------------------
(* ADD: allocate_or_reuse.                                                 *)

(* The container runtime starts ADD, once more if the last one failed.  It *)
(* runs one command at a time for a sandbox.                               *)
BeginAdd(p, h) ==
    /\ p \notin Janitors /\ pc[p] = "idle"
    /\ status[h] \in {"new", "failed"}
    /\ status' = [status EXCEPT ![h] = "adding"]
    /\ job' = [job EXCEPT ![p] = h]
    /\ Goto(p, "ips_by_handle")
    /\ UNCHANGED <<store, pass, cur, tries, copy, hcopy, todo, got, moved,
                   held, erred, abandoned, abandons>>

(* ips_by_handle reads the handle object. *)
IpsByHandle(p) ==
    /\ pc[p] = "ips_by_handle"
    /\ IF handles[job[p]] \in {Absent, {}}
       THEN Goto(p, "block_owner") /\ UNCHANGED todo
       ELSE Goto(p, "recover") /\ todo' = [todo EXCEPT ![p] = handles[job[p]]]
    /\ UNCHANGED <<store, job, pass, cur, tries, copy, hcopy, got, moved,
                   world>>

(* ... and each block it refers to, up to the first address found. *)
Recover(p) ==
    LET b == MinOf(todo[p])
        mine == IF blocks[b] = Absent THEN {} ELSE SlotsOf(blocks[b], job[p])
    IN  /\ pc[p] = "recover"
        /\ \/ /\ mine # {}
              /\ Return(p, <<b, MinOf(mine)>>)
           \/ /\ mine = {}
              /\ todo' = [todo EXCEPT ![p] = @ \ {b}]
              /\ Goto(p, IF todo[p] = {b} THEN "block_owner" ELSE "recover")
              /\ UNCHANGED <<job, pass, cur, tries, copy, hcopy, got, world>>
        /\ UNCHANGED <<store, moved>>

(* block_owner: pass 1 takes the host's own blocks, pass 2 unowned ones. *)
BlockOwner(p) ==
    LET block == blocks[cur[p]]
        wanted == IF pass[p] = 2 THEN block = Absent
                  ELSE block # Absent /\ block.host = HostOf[job[p]]
    IN  /\ pc[p] = "block_owner"
        /\ \/ /\ wanted
              /\ Goto(p, "get_block")
              /\ UNCHANGED <<local, world>>
           \/ ~wanted /\ NextBlock(p)
        /\ UNCHANGED <<store, moved>>

(* try_assign reads the block; another host's block gives nothing.  Slip:  *)
(* trusting the block_owner check made before.                             *)
ForeignAllowed(p, block) == FALSE
Foreign(p, block) == block # Absent /\ block.host # HostOf[job[p]]

GetBlock(p) ==
    LET block == blocks[cur[p]]
    IN  /\ pc[p] = "get_block"
        /\ \/ Foreign(p, block) /\ NextBlock(p)
           \/ /\ ~Foreign(p, block)
              /\ Goto(p, "get_affinity")
              /\ copy' = [copy EXCEPT ![p] = block]
              /\ UNCHANGED <<job, pass, cur, tries, hcopy, todo, got, world>>
        /\ Read(p, "block")
        /\ UNCHANGED store

(* ensure_affinity_confirmed: the first step after reading the affinity.   *)
(* Slip: a pending claim taken for an owned block.                         *)
Claim(p) == <<HostOf[job[p]], cur[p]>>

PendingIsOwned(state) ==
    IF state = "absent" THEN "create_affinity" ELSE "write_block"
ClaimStep(state) ==
    CASE state = "absent" -> "create_affinity"
      [] state = "pending" -> "confirm_affinity"
      [] state = "confirmed" -> "write_block"

GetAffinity(p) ==
    /\ pc[p] = "get_affinity"
    /\ Goto(p, ClaimStep(affinities[Claim(p)]))
    /\ Read(p, "affinity")
    /\ UNCHANGED <<store, local, world>>

CreateAffinity(p) ==
    /\ pc[p] = "create_affinity"
    /\ \/ /\ affinities[Claim(p)] = "absent"
          /\ affinities' = [affinities EXCEPT ![Claim(p)] = "pending"]
          /\ Goto(p, "confirm_affinity")
          /\ UNCHANGED <<local, world>>
       \/ /\ affinities[Claim(p)] # "absent"
          /\ Retry(p, "get_block")
          /\ UNCHANGED affinities
    /\ UNCHANGED <<blocks, handles, moved>>

ConfirmAffinity(p) ==
    /\ pc[p] = "confirm_affinity"
    /\ \/ /\ affinities[Claim(p)] # "absent" /\ Matches(p, "affinity")
          /\ affinities' = [affinities EXCEPT ![Claim(p)] = "confirmed"]
          /\ Goto(p, "write_block")
          /\ WroteAffinity(p, Claim(p))
          /\ UNCHANGED <<local, world>>
       \/ /\ affinities[Claim(p)] # "absent" /\ ~Matches(p, "affinity")
          /\ Retry(p, "get_block")
          /\ UNCHANGED <<affinities, moved>>
       \/ /\ affinities[Claim(p)] = "absent"
          /\ Fail(p)
          /\ UNCHANGED <<affinities, moved>>
    /\ UNCHANGED <<blocks, handles>>

WithSlot(block, s, h) ==
    [host |-> block.host, alloc |-> [block.alloc EXCEPT ![s] = h]]

FreshBlock(host) == [host |-> host, alloc |-> [s \in Slots |-> Free]]

(* The copy has no free slot: nothing to write, next block. *)
BlockFull(p) ==
    /\ pc[p] = "write_block"
    /\ copy[p] # Absent /\ SlotsOf(copy[p], Free) = {}
    /\ NextBlock(p)
    /\ UNCHANGED <<store, moved>>

(* auto_assign on the copy, then update with the version that was read. *)
UpdateBlock(p) ==
    LET b == cur[p]
    IN  /\ pc[p] = "write_block"
        /\ copy[p] # Absent /\ SlotsOf(copy[p], Free) # {}
        /\ \/ /\ blocks[b] # Absent /\ Matches(p, "block")
              /\ \E s \in SlotsOf(copy[p], Free) :
                    /\ blocks' = [blocks EXCEPT ![b] =
                                     WithSlot(copy[p], s, job[p])]
                    /\ got' = [got EXCEPT ![p] = <<b, s>>]
              /\ Goto(p, "get_handle")
              /\ WroteBlock(p, b)
              /\ UNCHANGED <<job, pass, cur, tries, copy, hcopy, todo, world>>
           \/ /\ blocks[b] # Absent /\ ~Matches(p, "block")
              /\ Retry(p, "get_block")
              /\ UNCHANGED <<blocks, moved>>
           \/ /\ blocks[b] = Absent
              /\ Fail(p)
              /\ UNCHANGED <<blocks, moved>>
        /\ UNCHANGED <<affinities, handles>>

(* The block did not exist: create it for this host with one slot taken. *)
CreateBlock(p) ==
    LET b == cur[p]
    IN  /\ pc[p] = "write_block" /\ copy[p] = Absent
        /\ \/ /\ blocks[b] = Absent
              /\ \E s \in Slots :
                    /\ blocks' = [blocks EXCEPT ![b] =
                          WithSlot(FreshBlock(HostOf[job[p]]), s, job[p])]
                    /\ got' = [got EXCEPT ![p] = <<b, s>>]
              /\ Goto(p, "get_handle")
              /\ UNCHANGED <<job, pass, cur, tries, copy, hcopy, todo, world>>
           \/ /\ blocks[b] # Absent
              /\ Retry(p, "get_block")
              /\ UNCHANGED blocks
        /\ UNCHANGED <<affinities, handles, moved>>

(* bump_handle: record the block in the handle object. *)
GetHandle(p) ==
    /\ pc[p] = "get_handle"
    /\ hcopy' = [hcopy EXCEPT ![p] = handles[job[p]]]
    /\ Goto(p, "write_handle")
    /\ Read(p, "handle")
    /\ UNCHANGED <<store, job, pass, cur, tries, copy, todo, got, world>>

UpdateHandle(p) ==
    LET h == job[p]
    IN  /\ pc[p] = "write_handle" /\ hcopy[p] # Absent
        /\ \/ /\ handles[h] # Absent /\ Matches(p, "handle")
              /\ handles' = [handles EXCEPT ![h] = hcopy[p] \cup {cur[p]}]
              /\ Return(p, got[p])
              /\ WroteHandle(p, h)
           \/ /\ handles[h] # Absent /\ ~Matches(p, "handle")
              /\ Retry(p, "get_block")
              /\ UNCHANGED <<handles, moved>>
           \/ /\ handles[h] = Absent
              /\ Fail(p)
              /\ UNCHANGED <<handles, moved>>
        /\ UNCHANGED <<blocks, affinities>>

CreateHandle(p) ==
    LET h == job[p]
    IN  /\ pc[p] = "write_handle" /\ hcopy[p] = Absent
        /\ \/ /\ handles[h] = Absent
              /\ handles' = [handles EXCEPT ![h] = {cur[p]}]
              /\ Return(p, got[p])
           \/ /\ handles[h] # Absent
              /\ Retry(p, "get_block")
              /\ UNCHANGED handles
        /\ UNCHANGED <<blocks, affinities, moved>>

-----------------------------------------------------------------------------
(* DEL and garbage collection: release_by_handle.                          *)

(* DEL of a sandbox; from here on its address is no longer in use.  Like   *)
(* ADD it does not overlap another command for the sandbox.                *)
BeginDel(p, h) ==
    /\ p \notin Janitors /\ pc[p] = "idle"
    /\ status[h] \in {"up", "failed"}
    /\ status' = [status EXCEPT ![h] = "deleting"]
    /\ held' = [held EXCEPT ![h] = None]
    /\ job' = [job EXCEPT ![p] = h]
    /\ Goto(p, "release_get")
    /\ UNCHANGED <<store, pass, cur, tries, copy, hcopy, todo, got, moved,
                   erred, abandoned, abandons>>

(* Visit the next block that the handle refers to, or delete the handle.   *)
(* Slip: deleting the handle first.                                        *)
DeleteFirst(p, rest) ==
    /\ Goto(p, "delete_handle")
    /\ UNCHANGED <<todo, copy, cur>>
Visit(p, rest) ==
    /\ todo' = [todo EXCEPT ![p] = rest]
    /\ copy' = [copy EXCEPT ![p] = Absent]
    /\ IF rest = {}
       THEN Goto(p, "delete_handle") /\ UNCHANGED cur
       ELSE Goto(p, "release_block") /\ cur' = [cur EXCEPT ![p] = MinOf(rest)]

ReleaseGet(p) ==
    /\ pc[p] = "release_get"
    /\ \/ /\ handles[job[p]] = Absent
          /\ Done(p)
       \/ /\ handles[job[p]] # Absent
          /\ Visit(p, handles[job[p]])
          /\ UNCHANGED <<job, pass, tries, hcopy, got, world>>
    /\ Read(p, "handle")
    /\ UNCHANGED store

ReleaseBlock(p) ==
    LET block == blocks[cur[p]]
        mine == IF block = Absent THEN {} ELSE SlotsOf(block, job[p])
    IN  /\ pc[p] = "release_block"
        /\ \/ /\ mine = {}
              /\ Visit(p, todo[p] \ {cur[p]})
           \/ /\ mine # {}
              /\ copy' = [copy EXCEPT ![p] = block]
              /\ Goto(p, "release_write")
              /\ UNCHANGED <<cur, todo>>
        /\ Read(p, "block")
        /\ UNCHANGED <<store, job, pass, tries, hcopy, got, world>>

(* The block with every slot of h free: AllocationBlock::release_by_handle *)
Without(block, h) ==
    [host |-> block.host,
     alloc |-> [s \in Slots |->
                   IF block.alloc[s] = h THEN Free ELSE block.alloc[s]]]

ReleaseWrite(p) ==
    LET b == cur[p]
    IN  /\ pc[p] = "release_write"
        /\ \/ /\ blocks[b] # Absent /\ Matches(p, "block")
              /\ blocks' = [blocks EXCEPT ![b] = Without(copy[p], job[p])]
              /\ Visit(p, todo[p] \ {b})
              /\ WroteBlock(p, b)
              /\ UNCHANGED <<job, pass, tries, hcopy, got, world>>
           \/ /\ blocks[b] # Absent /\ ~Matches(p, "block")
              /\ Retry(p, "release_get")
              /\ UNCHANGED <<blocks, moved>>
           \/ /\ blocks[b] = Absent
              /\ Fail(p)
              /\ UNCHANGED <<blocks, moved>>
        /\ UNCHANGED <<affinities, handles>>

DeleteHandle(p) ==
    LET h == job[p]
    IN  /\ pc[p] = "delete_handle"
        /\ \/ /\ handles[h] # Absent /\ Matches(p, "handle")
              /\ handles' = [handles EXCEPT ![h] = Absent]
              /\ Done(p)
              /\ WroteHandle(p, h)
           \/ /\ handles[h] # Absent /\ ~Matches(p, "handle")
              /\ Retry(p, "release_get")
              /\ UNCHANGED <<handles, moved>>
           \/ /\ handles[h] = Absent
              /\ Fail(p)
              /\ UNCHANGED <<handles, moved>>
        /\ UNCHANGED <<blocks, affinities>>

-----------------------------------------------------------------------------
(* A call is cut short between two steps: the process dies and the runtime *)
(* will issue DEL (again), or the backend returns an error other than a    *)
(* Conflict, which ADD reports and DEL ignores.                            *)
Abandon(p) ==
    /\ pc[p] # "idle" /\ p \notin Janitors /\ abandons < MaxAbandons
    /\ Clear(p)
    /\ \/ Outcome(p, "failed")
       \/ pc[p] \in DelSteps /\ Outcome(p, "gone")
    /\ abandoned' = abandoned \cup {job[p]}
    /\ abandons' = abandons + 1
    /\ UNCHANGED <<store, moved, held, erred>>

Step(p) ==
    \/ IpsByHandle(p) \/ Recover(p) \/ BlockOwner(p) \/ GetBlock(p)
    \/ GetAffinity(p) \/ CreateAffinity(p) \/ ConfirmAffinity(p)
    \/ BlockFull(p) \/ UpdateBlock(p) \/ CreateBlock(p)
    \/ GetHandle(p) \/ UpdateHandle(p) \/ CreateHandle(p)
    \/ ReleaseGet(p) \/ ReleaseBlock(p) \/ ReleaseWrite(p) \/ DeleteHandle(p)

Next ==
    \E p \in Procs :
        \/ \E h \in Handles : BeginAdd(p, h) \/ BeginDel(p, h)
        \/ Step(p)
        \/ Abandon(p)

Spec == Init /\ [][Next]_vars

-----------------------------------------------------------------------------
TypeOK ==
    /\ blocks \in [Blocks -> {Absent} \cup Block]
    /\ affinities \in [Hosts \X Blocks -> AffinityStates]
    /\ handles \in [Handles -> {Absent} \cup SUBSET Blocks]
    /\ pc \in [Procs -> {"idle"} \cup AddSteps \cup DelSteps \cup GcSteps]
    /\ job \in [Procs -> {None} \cup Handles]
    /\ pass \in [Procs -> {1, 2}]
    /\ cur \in [Procs -> Blocks]
    /\ tries \in [Procs -> Nat]
    /\ copy \in [Procs -> {Absent} \cup Block]
    /\ hcopy \in [Procs -> {Absent} \cup SUBSET Blocks]
    /\ todo \in [Procs -> SUBSET Blocks]
    /\ got \in [Procs -> {None} \cup Addresses]
    /\ moved \in [Procs -> SUBSET Kinds]
    /\ status \in [Handles ->
                      {"new", "adding", "up", "failed", "deleting", "gone"}]
    /\ held \in [Handles -> {None} \cup Addresses]
    /\ erred \subseteq Janitors
    /\ abandoned \subseteq Handles
    /\ abandons \in Nat

(* The datastore's view of an address. *)
LeaseOf(a) == IF blocks[a[1]] = Absent THEN Free ELSE blocks[a[1]].alloc[a[2]]

(* A version that has not moved means a copy that is still the object. *)
CopiesCurrent ==
    \A p \in Procs :
        /\ /\ pc[p] \in {"get_affinity", "create_affinity",
                         "confirm_affinity", "write_block", "release_write"}
           /\ "block" \notin moved[p] /\ copy[p] # Absent
           => blocks[cur[p]] = copy[p]
        /\ /\ pc[p] = "write_handle"
           /\ "handle" \notin moved[p] /\ hcopy[p] # Absent
           => handles[job[p]] = hcopy[p]

(* An address that ADD reported belongs to its sandbox in the datastore    *)
(* until DEL, in a block of the sandbox's node: no two running sandboxes   *)
(* have the same address, whatever other ADDs, DELs and errors do.         *)
HeldIsLeased ==
    \A h \in Handles : held[h] # None =>
        /\ LeaseOf(held[h]) = h
        /\ blocks[held[h][1]].host = HostOf[h]

(* Strict affinity: a node allocates from its own blocks only. *)
StrictAffinity ==
    \A b \in Blocks : blocks[b] # Absent =>
        \A s \in Slots : blocks[b].alloc[s] # Free
            => HostOf[blocks[b].alloc[s]] = blocks[b].host

(* A block's owner has confirmed its affinity first: the two-phase claim   *)
(* is complete before the first address of the block is handed out.        *)
OwnerIsConfirmed ==
    \A b \in Blocks : blocks[b] # Absent
        => affinities[<<blocks[b].host, b>>] = "confirmed"

(* The handle object covers every allocation that no running command is    *)
(* about to record: release_by_handle will find it.  Sandboxes one of      *)
(* whose calls was cut short or gave up are excepted.                      *)
HandleCoversLeases ==
    \A a \in Addresses : LeaseOf(a) # Free =>
        LET h == LeaseOf(a)
        IN  \/ h \in abandoned
            \/ \E p \in Procs : job[p] = h /\ got[p] = a
            \/ handles[h] # Absent /\ a[1] \in handles[h]

(* After DEL nothing of the sandbox is left, unless one of its calls was   *)
(* cut short or gave up.                                                   *)
GoneIsReleased ==
    \A h \in Handles : status[h] = "gone" /\ h \notin abandoned =>
        /\ \A a \in Addresses : LeaseOf(a) # h
        /\ handles[h] = Absent

(* The driver implements the lease promise over all addresses of the pool. *)
Leases == [a \in Addresses |-> LeaseOf(a)]
Lease == INSTANCE AddressLease WITH
    Addresses <- Addresses, Holders <- Handles, Free <- Free,
    lease <- Leases
LeaseSpec == Lease!Spec

=============================================================================
