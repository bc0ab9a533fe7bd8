----------------------------- MODULE IpamStore -----------------------------
(***************************************************************************)
(* The allocation driver over the compare-and-swap contract                *)
(* (crates/ipam/src/allocate.rs): the two-phase claim and release of block *)
(* affinities and the assignment from a pool, run by processes of several  *)
(* hosts, one store call at a time.  A read and the write or the create    *)
(* that depends on it are one step where nothing happens in between and    *)
(* losing that race ends the call without effect: Interrupted covers it.   *)
(* The block's own reads and writes, on which addresses depend, are not    *)
(* merged.  No block is marked deleted: nothing here does so.              *)
(*                                                                         *)
(* A block is its owner and the number of addresses that each handle has   *)
(* in it; which addresses is IpamBlock's subject.  A call that meets a     *)
(* Conflict ends, and the caller's retry is another call.                  *)
(***************************************************************************)
EXTENDS CasStore, FiniteSets, SequencesExt, FiniteSetsExt

CONSTANTS Hosts, Blocks,  \* the pool's blocks
          Handles,
          Procs, HostOf, HandleOf,  \* processes, [Procs -> hosts], [-> handles]
          Capacity,       \* addresses of a block
          Configs,        \* [strict, auto, cap]
          JobsOf,         \* [Procs -> their calls [op, block, count]]
          MaxJobs         \* bound on how many are made

Affinity(h, b) == <<"aff", h, b>>
BlockKey(b) == <<"block", b>>
HandleKey(i) == <<"handle", i>>
Candidates == SetToSeq(Blocks)

States == {"pending", "confirmed", "pendingDeletion"}
BlockAffinity == [state : States]
AllocationBlock == [owner : Hosts, used : [Handles -> Nat]]
IpamHandle == [count : [Blocks -> Nat]]
AllValues == BlockAffinity \cup AllocationBlock \cup IpamHandle
AllKeys == {Affinity(h, b) : h \in Hosts, b \in Blocks} \cup {BlockKey(b) : b \in Blocks}
           \cup {HandleKey(i) : i \in Handles}
ASSUME StoreAssumption ==
    /\ Keys = AllKeys /\ Absent \notin [value : AllValues, revision : Nat]
    /\ Blocks # {} /\ IsFiniteSet(Blocks) /\ IsFiniteSet(Handles)

\* A handle is one host's, a claim or a release names its block.
Jobs == [op : {"claim", "release", "assign"}, block : Blocks \cup {Absent}, count : Nat]
ASSUME ProcsAssumption ==
    /\ IsFiniteSet(Procs) /\ HostOf \in [Procs -> Hosts] /\ HandleOf \in [Procs -> Handles]
    /\ \A p, q \in Procs : HandleOf[p] = HandleOf[q] => HostOf[p] = HostOf[q]
    /\ JobsOf \in [Procs -> SUBSET Jobs]
    /\ \A p \in Procs : \A j \in JobsOf[p] : j.op # "assign" => j.block \in Blocks

\* The store starts with nothing that the protocol could not have left.
ASSUME StartAssumption ==
    /\ Absent \notin AllValues
    /\ \A h \in Hosts, b \in Blocks :
          LET aff == Preset[Affinity(h, b)]
              block == Preset[BlockKey(b)]
          IN  /\ aff \in BlockAffinity \cup {Absent}
              /\ aff # Absent /\ aff.state = "confirmed" => block # Absent /\ block.owner = h
    /\ \A b \in Blocks : Preset[BlockKey(b)] \in
          [owner : Hosts, used : {[i \in Handles |-> 0]}] \cup {Absent}
    /\ \A i \in Handles : Preset[HandleKey(i)] \in [count : {[b \in Blocks |-> 0]}] \cup {Absent}

\* IpamConfig::validate
ValidConfig(c) == (c.strict \/ c.auto) /\ (c.cap > 0 => c.strict)
ASSUME ConfigAssumption == \A c \in Configs : ValidConfig(c)

VARIABLES config, jobs,  \* the configuration; calls made so far
          pc, job,       \* a process: its next store call, and what it does
          walk,          \* [pass, i, owned, got, taken]: where an assignment is
          read,          \* [aff, other]: the revisions its writes name
          torn,          \* [Handles -> [Blocks -> addresses never indexed]]
          trespassed,    \* blocks deleted by a host that did not own them, or
                         \* whose release was no longer announced
          reborn         \* blocks deleted so far

history == <<torn, trespassed, reborn>>
process == <<pc, job, walk, read>>
vars == <<casVars, config, jobs, process, history>>

NoWalk == [pass |-> 0, i |-> 0, owned |-> 0, got |-> 0, taken |-> 0]
NoRead == [aff |-> 0, other |-> Absent]
NoJob == [op |-> "none", block |-> Absent, count |-> 0]
Block(p) == IF job[p].op = "assign" THEN Candidates[walk[p].i] ELSE job[p].block
Mine(p) == Affinity(HostOf[p], Block(p))
Theirs(p) == BlockKey(Block(p))
Counts(p) == HandleKey(HandleOf[p])

To(p, step) == pc' = [pc EXCEPT ![p] = step]
Keep == UNCHANGED <<config, jobs, history>>

Done(p) ==
    /\ To(p, "idle") /\ job' = [job EXCEPT ![p] = NoJob]
    /\ walk' = [walk EXCEPT ![p] = NoWalk] /\ read' = [read EXCEPT ![p] = NoRead]

\* A conflict, another error or the end of the process.
Interrupted(p) ==
    /\ pc[p] # "idle" /\ Done(p)
    /\ torn' = IF pc[p] # "index" THEN torn
               ELSE [torn EXCEPT ![HandleOf[p]][Block(p)] = @ + walk[p].taken]
    /\ UNCHANGED <<casVars, config, jobs, trespassed, reborn>>

Start(p, j) ==
    LET owned == Cardinality({b \in Blocks : entries[Affinity(HostOf[p], b)] # Absent})
    IN  /\ pc[p] = "idle" /\ jobs < MaxJobs /\ jobs' = jobs + 1
        /\ job' = [job EXCEPT ![p] = j]
        /\ To(p, IF j.op = "assign" THEN "scan" ELSE j.op)
        /\ walk' = [walk EXCEPT ![p] = IF j.op # "assign" THEN NoWalk
                                       ELSE [NoWalk EXCEPT !.pass = 1, !.i = 1, !.owned = owned]]
        /\ UNCHANGED <<casVars, config, read, history>>

-----------------------------------------------------------------------------
(* auto_assign *)

Advance(p) == walk' = [walk EXCEPT ![p].i = @ + 1]
Ready(pass) == CASE pass = 2 -> config.auto [] pass = 3 -> ~config.strict [] OTHER -> FALSE

\* Own blocks first, then new ones, then those of others.
NextPass(p) ==
    LET later == {k \in walk[p].pass + 1 .. 3 : Ready(k)}
    IN  IF walk[p].got >= job[p].count \/ later = {} THEN Done(p)
        ELSE /\ walk' = [walk EXCEPT ![p].pass = Min(later), ![p].i = 1]
             /\ UNCHANGED <<pc, job, read>>

Scan(p) ==
    /\ pc[p] = "scan"
    /\ IF walk[p].i > Len(Candidates) \/ walk[p].got >= job[p].count THEN NextPass(p)
       ELSE LET e == entries[Theirs(p)]
                own == e # Absent /\ e.value.owner = HostOf[p]
                full == config.cap > 0 /\ walk[p].owned >= config.cap
            IN  CASE walk[p].pass = 2 /\ e = Absent /\ full -> NextPass(p)
                  [] walk[p].pass = 2 /\ e = Absent /\ ~full ->
                        To(p, "claim") /\ UNCHANGED <<job, walk, read>>
                  [] \/ walk[p].pass = 1 /\ own
                     \/ walk[p].pass = 3 /\ e # Absent /\ ~own ->
                        To(p, "take") /\ UNCHANGED <<job, walk, read>>
                  [] OTHER -> Advance(p) /\ UNCHANGED <<pc, job, read>>
    /\ UNCHANGED casVars /\ Keep

-----------------------------------------------------------------------------
(* claim_affinity *)

\* The affinity is there, or is created; 0: confirmed already.
ClaimPending(p) ==
    LET e == entries[Mine(p)]
        confirmed == e # Absent /\ e.value.state = "confirmed"
    IN  /\ pc[p] = "claim" /\ To(p, "own")
        /\ \/ e # Absent /\ UNCHANGED casVars
           \/ Create(Mine(p), [state |-> "pending"])
        /\ read' = [read EXCEPT ![p].aff = CASE e = Absent -> next_revision
                                             [] confirmed -> 0
                                             [] OTHER -> e.revision]
        /\ UNCHANGED <<job, walk>> /\ Keep

\* The block is this host's: a claim ends, an assignment goes on to take.
Claimed(p) ==
    IF job[p].op = "claim" THEN Done(p)
    ELSE /\ To(p, "take") /\ walk' = [walk EXCEPT ![p].owned = @ + 1]
         /\ UNCHANGED <<job, read>>

BlockIsOurs(p) ==
    IF read[p].aff = 0 THEN Claimed(p) ELSE To(p, "confirm") /\ UNCHANGED <<job, walk, read>>

EnsureBlockOwned(p) ==
    LET e == entries[Theirs(p)]
    IN  /\ pc[p] = "own"
        /\ IF e = Absent THEN Create(Theirs(p), [owner |-> HostOf[p], used |-> [i \in Handles |-> 0]])
           ELSE UNCHANGED casVars
        /\ IF e = Absent \/ e.value.owner = HostOf[p] THEN BlockIsOurs(p) ELSE Done(p)
        /\ Keep

\* MUTANT of Confirm.  The revision of the claim is not compared.
ConfirmAnyway(p) ==
    LET e == entries[Mine(p)]
    IN  /\ pc[p] = "confirm" /\ e # Absent /\ e.value.state # "pendingDeletion"
        /\ Bump(Mine(p), [state |-> "confirmed"]) /\ Claimed(p) /\ Keep

Confirm(p) ==
    LET e == entries[Mine(p)]
    IN  /\ pc[p] = "confirm" /\ e # Absent /\ e.value.state # "pendingDeletion"
        /\ Update(Mine(p), [state |-> "confirmed"], read[p].aff) /\ Claimed(p) /\ Keep

-----------------------------------------------------------------------------
(* allocate_from_block *)

Total(used) == SumFunction(used)

\* As much of what is outstanding as the block can give.
GetBlock(p) ==
    LET e == entries[Theirs(p)]
        room == {n \in 1 .. job[p].count - walk[p].got : Total(e.value.used) + n <= Capacity}
    IN  /\ pc[p] = "take" /\ e # Absent
        /\ IF room = {} THEN Advance(p) /\ To(p, "scan") /\ UNCHANGED read
           ELSE \E n \in room :
                   /\ \A k \in room : k <= n
                   /\ To(p, "put") /\ walk' = [walk EXCEPT ![p].taken = n]
                   /\ read' = [read EXCEPT ![p].other = e]
        /\ UNCHANGED <<casVars, job>> /\ Keep

PutBlock(p) ==
    LET e == read[p].other
    IN  /\ pc[p] = "put"
        /\ Update(Theirs(p), [e.value EXCEPT !.used[HandleOf[p]] = @ + walk[p].taken], e.revision)
        /\ To(p, "index") /\ read' = [read EXCEPT ![p].other = Absent]
        /\ UNCHANGED <<job, walk>> /\ Keep

\* IpamHandle::new and increment
Incremented(e, b, n) ==
    [count |-> [(IF e = Absent THEN [x \in Blocks |-> 0] ELSE e.value.count) EXCEPT ![b] = @ + n]]

PutHandle(p) ==
    LET e == entries[Counts(p)]
    IN  /\ pc[p] = "index" /\ Bump(Counts(p), Incremented(e, Block(p), walk[p].taken))
        /\ To(p, "scan") /\ UNCHANGED <<job, read>> /\ Keep
        /\ walk' = [walk EXCEPT ![p].i = @ + 1, ![p].got = @ + walk[p].taken, ![p].taken = 0]

-----------------------------------------------------------------------------
(* release_affinity *)

BeginDeletion(p) ==
    /\ pc[p] = "release"
    /\ IF entries[Mine(p)] = Absent THEN Done(p) /\ UNCHANGED casVars
       ELSE /\ Bump(Mine(p), [state |-> "pendingDeletion"])
            /\ To(p, "empty") /\ read' = [read EXCEPT ![p].aff = next_revision]
            /\ UNCHANGED <<job, walk>>
    /\ Keep

\* Whose block it is, is not asked, nor whether the affinity still says so.
CheckEmpty(p) ==
    LET e == entries[Theirs(p)]
    IN  /\ pc[p] = "empty"
        /\ CASE e = Absent -> To(p, "drop") /\ UNCHANGED <<job, walk, read>>
             [] e # Absent /\ Total(e.value.used) > 0 -> Done(p)
             [] OTHER -> /\ To(p, "delete") /\ read' = [read EXCEPT ![p].other = e]
                         /\ UNCHANGED <<job, walk>>
        /\ UNCHANGED casVars /\ Keep

Announced(p) == entries[Mine(p)] # Absent /\ entries[Mine(p)].value.state = "pendingDeletion"

Removed(p) ==
    /\ To(p, "drop") /\ read' = [read EXCEPT ![p].other = Absent]
    /\ reborn' = reborn \cup {Block(p)}
    /\ trespassed' = IF read[p].other.value.owner = HostOf[p] /\ Announced(p) THEN trespassed
                     ELSE trespassed \cup {Block(p)}
    /\ UNCHANGED <<job, walk, config, jobs, torn>>

\* MUTANT of DeleteBlock.  The block is deleted whatever became of it.
DeleteAnyway(p) ==
    /\ pc[p] = "delete" /\ entries' = [entries EXCEPT ![Theirs(p)] = Absent]
    /\ UNCHANGED next_revision /\ Removed(p)

DeleteBlock(p) ==
    /\ pc[p] = "delete" /\ Delete(Theirs(p), read[p].other.revision) /\ Removed(p)

DeleteAffinity(p) ==
    /\ pc[p] = "drop" /\ Delete(Mine(p), read[p].aff) /\ Done(p) /\ Keep

-----------------------------------------------------------------------------
Init ==
    /\ CasInit /\ config \in Configs /\ jobs = 0
    /\ pc = [p \in Procs |-> "idle"] /\ job = [p \in Procs |-> NoJob]
    /\ walk = [p \in Procs |-> NoWalk] /\ read = [p \in Procs |-> NoRead]
    /\ torn = [i \in Handles |-> [b \in Blocks |-> 0]]
    /\ trespassed = {} /\ reborn = {}

Call(p) == \/ Scan(p) \/ ClaimPending(p) \/ EnsureBlockOwned(p) \/ Confirm(p)
           \/ GetBlock(p) \/ PutBlock(p) \/ PutHandle(p)
           \/ BeginDeletion(p) \/ CheckEmpty(p) \/ DeleteBlock(p) \/ DeleteAffinity(p)

Next == \E p \in Procs : Call(p) \/ Interrupted(p) \/ \E j \in JobsOf[p] : Start(p, j)

Spec == Init /\ [][Next]_vars

-----------------------------------------------------------------------------
UsedIn(b, i) == IF entries[BlockKey(b)] = Absent THEN 0 ELSE entries[BlockKey(b)].value.used[i]

(***************************************************************************)
(* A confirmed affinity, the licence to route a block (affinity.rs:15), is *)
(* never without the block, and the block is that host's; and under strict *)
(* affinity no host has addresses in the block of another.  Exceptions: a  *)
(* block that was deleted by the release of another host's leftover        *)
(* affinity, or by a release that two others of its host have overtaken    *)
(* (allocate.rs:143), and, for strictness, one that was deleted and may be *)
(* another's when the assignment reads it again (allocate.rs:206, :291).   *)
(***************************************************************************)
ConfirmedOwnsBlock ==
    /\ \A h \in Hosts, b \in Blocks \ trespassed :
          LET a == entries[Affinity(h, b)]
              e == entries[BlockKey(b)]
          IN  a # Absent /\ a.value.state = "confirmed" => e # Absent /\ e.value.owner = h
    /\ config.strict =>
          \A p \in Procs, b \in Blocks \ reborn :
              UsedIn(b, HandleOf[p]) > 0 => entries[BlockKey(b)].value.owner = HostOf[p]

(***************************************************************************)
(* Whatever the interleaving, the handle index and the blocks agree: each  *)
(* address of a handle is counted by its record, is about to be, or was    *)
(* torn off by a call that ended between the two writes; and no release of *)
(* a block takes an address with it.                                       *)
(***************************************************************************)
Pending(i, b) ==
    LET ps == {p \in Procs : pc[p] = "index" /\ HandleOf[p] = i /\ Block(p) = b}
    IN  SumFunctionOnSet([p \in Procs |-> walk[p].taken], ps)

IndexFollowsBlocks ==
    \A i \in Handles, b \in Blocks :
        LET e == entries[HandleKey(i)]
        IN  UsedIn(b, i) = (IF e = Absent THEN 0 ELSE e.value.count[b]) + torn[i][b] + Pending(i, b)
=============================================================================
