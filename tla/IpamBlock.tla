----------------------------- MODULE IpamBlock ------------------------------
(***************************************************************************)
(* One allocation block (crates/ipam/src/block.rs): the unit that the IPAM *)
(* drivers read, change in memory and write back by compare-and-swap.      *)
(*                                                                         *)
(* allocations holds, per ordinal, an index into the attribute table: None *)
(* is 0 here and Some(i) is i + 1, because TLA+ sequences start at 1.  The *)
(* table is interned on allocation and compacted on release by handle.     *)
(* A missing sequence record is 0: the code reads it with unwrap_or(0) and *)
(* never records 0.  Address arithmetic is left out: an address is its     *)
(* ordinal in the block.                                                   *)
(***************************************************************************)
EXTENDS Integers, Sequences, FiniteSets

CONSTANTS
    Capacity,   \* number of addresses in the block
    Handles,    \* handle ids
    Owners,     \* values of the secondary attributes (pod, namespace, node)
    Free,       \* the handle of an unallocated ordinal
    MaxSeq,     \* bound: no operation starts once sequence_number reaches it
    MaxTickets  \* bound on release guards outstanding at a time

ASSUME CapacityAssumption == Capacity \in Nat \ {0}
ASSUME BoundsAssumption == MaxSeq \in Nat /\ MaxTickets \in Nat
ASSUME FreeAssumption == Free \notin Handles

VARIABLES
    allocations,      \* [Ordinals -> index into attributes, or 0]
    unallocated,      \* the FIFO free list of ordinals
    attributes,       \* the interned attribute table
    sequence_number,  \* bumped by every change of an allocation
    seq_at,           \* sequence_number_for_allocation
    deleted,          \* soft-delete marker
    tickets,          \* release guards that scanners hold: (ordinal, number)
    outdated          \* history: the tickets whose ordinal was freed since

blockVars == <<allocations, unallocated, attributes, sequence_number,
               seq_at, deleted>>
vars == <<blockVars, tickets, outdated>>

Ordinals == 0 .. Capacity - 1
Attribute == [handle_id : Handles, attrs : Owners]
Ticket == [ord : Ordinals, seq : Nat]

-----------------------------------------------------------------------------
(* Finite sets of integers in ascending order, without recursion.          *)

(* How many elements of K are at most k. *)
Rank(K, k) == Cardinality({j \in K : j <= k})

(* The elements of K, smallest first. *)
Ascending(K) == [i \in 1 .. Cardinality(K) |-> CHOOSE k \in K : Rank(K, k) = i]

(* The elements of s at the positions K, in the order of s. *)
At(s, K) == [i \in 1 .. Cardinality(K) |-> s[Ascending(K)[i]]]

-----------------------------------------------------------------------------
(* The handle of an ordinal, as handle_of reads it through the table. *)
HandleOf(o) ==
    IF allocations[o] = 0 THEN Free ELSE attributes[allocations[o]].handle_id

(* ips_for_handle *)
OrdinalsOf(h) == {o \in Ordinals : HandleOf(o) = h}

(* Slip: interning that does not look for an equal entry. *)
InternedTwice(a) == Append(attributes, a)

(* intern_attribute: the table with a in it, and the index of a there. *)
Interned(a) ==
    IF \E i \in DOMAIN attributes : attributes[i] = a
    THEN attributes
    ELSE Append(attributes, a)

IndexOf(a) == CHOOSE i \in DOMAIN Interned(a) : Interned(a)[i] = a

(* What freeing the ordinals F does to the scanners' tickets. *)
Outdate(F) == outdated' = outdated \cup {t \in tickets : t.ord \in F}

Init ==
    /\ allocations = [o \in Ordinals |-> 0]
    /\ unallocated = [i \in 1 .. Capacity |-> i - 1]
    /\ attributes = <<>>
    /\ sequence_number = 0
    /\ seq_at = [o \in Ordinals |-> 0]
    /\ deleted = FALSE
    /\ tickets = {}
    /\ outdated = {}

(***************************************************************************)
(* The positions of the free list that auto_assign pops.  It pops from the *)
(* front until count ordinals outside skip are found or the list is empty; *)
(* the popped ordinals inside skip go to the back afterwards.              *)
(***************************************************************************)
Eligible(skip) == {i \in DOMAIN unallocated : unallocated[i] \notin skip}
Taken(count, skip) ==
    {i \in Eligible(skip) : Rank(Eligible(skip), i) <= count}
Popped(count, skip) ==
    IF Cardinality(Eligible(skip)) < count
    THEN DOMAIN unallocated
    ELSE {i \in DOMAIN unallocated : \E t \in Taken(count, skip) : i <= t}

(* The free list afterwards: what was not popped, then what was skipped.    *)
(* Slip: the skipped ordinals are not put back.                            *)
SkippedDropped(count, skip) ==
    At(unallocated, DOMAIN unallocated \ Popped(count, skip))
Remaining(count, skip) ==
    At(unallocated, DOMAIN unallocated \ Popped(count, skip))
    \o At(unallocated, Popped(count, skip) \ Taken(count, skip))

(* The sequence number of the allocation at position i of T: the counter   *)
(* is bumped before each.  Slip: numbering every call from 1.              *)
NumberedFromOne(T, i) == Rank(T, i)
Number(T, i) == sequence_number + Rank(T, i)

(* commit_allocation of the ordinals at the positions T, in list order. *)
Commit(T, a) ==
    LET got == {unallocated[i] : i \in T}
        pos(o) == CHOOSE i \in T : unallocated[i] = o
    IN  /\ attributes' = Interned(a)
        /\ allocations' = [o \in Ordinals |->
                IF o \in got THEN IndexOf(a) ELSE allocations[o]]
        /\ seq_at' = [o \in Ordinals |->
                IF o \in got THEN Number(T, pos(o)) ELSE seq_at[o]]
        /\ sequence_number' = sequence_number + Cardinality(T)

AutoAssign(count, a, skip) ==
    /\ sequence_number < MaxSeq
    /\ Commit(Taken(count, skip), a)
    /\ unallocated' = Remaining(count, skip)
    /\ UNCHANGED <<deleted, tickets, outdated>>

(* A specific address; an address already taken is an error. *)
Assign(o, a) ==
    LET here == {i \in DOMAIN unallocated : unallocated[i] = o}
    IN  /\ sequence_number < MaxSeq
        /\ allocations[o] = 0
        /\ Commit(here, a)
        /\ unallocated' = At(unallocated, DOMAIN unallocated \ here)
        /\ UNCHANGED <<deleted, tickets, outdated>>

(***************************************************************************)
(* Releasing.  free_ordinal of every ordinal of F, in ascending order:     *)
(* it goes to the back of the free list and loses its sequence record.     *)
(* Slips: pushing to the front; keeping the record.                        *)
(***************************************************************************)
PushedFront(F) == Ascending(F) \o unallocated
Pushed(F) == unallocated \o Ascending(F)

RecordsKept(F) == seq_at
RecordsWithout(F) == [o \in Ordinals |-> IF o \in F THEN 0 ELSE seq_at[o]]

FreeOrdinals(F) ==
    /\ sequence_number < MaxSeq
    /\ sequence_number' = sequence_number + Cardinality(F)
    /\ seq_at' = RecordsWithout(F)
    /\ unallocated' = Pushed(F)
    /\ Outdate(F)

(* release(ip, None); a free address is a successful no-op. *)
Release(o) ==
    /\ allocations[o] # 0
    /\ FreeOrdinals({o})
    /\ allocations' = [allocations EXCEPT ![o] = 0]
    /\ UNCHANGED <<attributes, deleted, tickets>>

(* A scanner notes the guard it will release the ordinal with. *)
Scan(o) ==
    /\ allocations[o] # 0
    /\ Cardinality(tickets) < MaxTickets
    /\ tickets' = tickets \cup {[ord |-> o, seq |-> seq_at[o]]}
    /\ UNCHANGED <<blockVars, outdated>>

(* release(ip, Some(seq)): freed only if the recorded number still matches. *)
GuardedRelease(t) ==
    /\ allocations[t.ord] # 0
    /\ seq_at[t.ord] = t.seq
    /\ FreeOrdinals({t.ord})
    /\ allocations' = [allocations EXCEPT ![t.ord] = 0]
    /\ UNCHANGED <<attributes, deleted, tickets>>

(* compact_attributes on the allocations al: an attribute's new index is   *)
(* the rank of the first ordinal that refers to it.  Slips: truncating the *)
(* table instead of selecting from it; not reindexing the allocations.     *)
FirstRefs(al) ==
    {o \in Ordinals : al[o] # 0 /\ \A p \in Ordinals : p < o => al[p] # al[o]}
Truncated(al) == SubSeq(attributes, 1, Cardinality(FirstRefs(al)))
Compacted(al) ==
    [i \in 1 .. Cardinality(FirstRefs(al)) |->
        attributes[al[Ascending(FirstRefs(al))[i]]]]
NotReindexed(al) == al
Reindexed(al) ==
    [o \in Ordinals |->
        IF al[o] = 0 THEN 0
        ELSE Rank(FirstRefs(al), CHOOSE p \in FirstRefs(al) : al[p] = al[o])]

ReleaseByHandle(h) ==
    LET freed == OrdinalsOf(h)
        al == [o \in Ordinals |-> IF o \in freed THEN 0 ELSE allocations[o]]
    IN  /\ freed # {}
        /\ FreeOrdinals(freed)
        /\ allocations' = Reindexed(al)
        /\ attributes' = Compacted(al)
        /\ UNCHANGED <<deleted, tickets>>

MarkDeleted ==
    /\ sequence_number < MaxSeq
    /\ deleted' = TRUE
    /\ sequence_number' = sequence_number + 1
    /\ UNCHANGED <<allocations, unallocated, attributes, seq_at,
                   tickets, outdated>>

Next ==
    \/ \E count \in 0 .. Capacity, a \in Attribute, skip \in SUBSET Ordinals :
          AutoAssign(count, a, skip)
    \/ \E o \in Ordinals, a \in Attribute : Assign(o, a)
    \/ \E o \in Ordinals : Release(o) \/ Scan(o)
    \/ \E t \in tickets : GuardedRelease(t)
    \/ \E h \in Handles : ReleaseByHandle(h)
    \/ MarkDeleted

Spec == Init /\ [][Next]_vars

-----------------------------------------------------------------------------
(* Every variable has the shape block.rs gives it; the table is finite and *)
(* every allocation refers to an entry of it.                              *)
TypeOK ==
    /\ attributes \in Seq(Attribute)
    /\ allocations \in [Ordinals -> 0 .. Len(attributes)]
    /\ unallocated \in Seq(Ordinals)
    /\ sequence_number \in Nat
    /\ seq_at \in [Ordinals -> Nat]
    /\ deleted \in BOOLEAN
    /\ tickets \subseteq Ticket
    /\ outdated \subseteq tickets

(* The free list names exactly the unallocated ordinals, each once: skip   *)
(* sets, specific assignments and releases never lose an address, never    *)
(* list one twice and never leave an allocated one in the list.            *)
FreeListExact ==
    /\ \A i, j \in DOMAIN unallocated :
          unallocated[i] = unallocated[j] => i = j
    /\ {unallocated[i] : i \in DOMAIN unallocated}
          = {o \in Ordinals : allocations[o] = 0}

(* The sequence record of an ordinal exists while it is allocated, is not  *)
(* in the future, and no two live allocations share a number.              *)
SeqRecordsExact ==
    /\ \A o \in Ordinals : seq_at[o] \in 0 .. sequence_number
    /\ \A o \in Ordinals : seq_at[o] = 0 <=> allocations[o] = 0
    /\ \A o, p \in Ordinals :
          seq_at[o] = seq_at[p] /\ seq_at[o] # 0 => o = p

(* Interning keeps the table free of duplicates. *)
AttributesDistinct ==
    \A i, j \in DOMAIN attributes : attributes[i] = attributes[j] => i = j

(* The ABA guard: a guard taken before its ordinal was freed never matches *)
(* the ordinal's record again, so a late guarded release is refused even   *)
(* when the address has been handed out anew.                              *)
OutdatedTicketsRejected == \A t \in outdated : seq_at[t.ord] # t.seq

(* No operation re-attributes a live allocation: what was allocated before *)
(* and after a step has the same attribute, through every interning and    *)
(* compaction of the table.                                                *)
OwnersUndisturbed ==
    [][\A o \in Ordinals :
          allocations[o] # 0 /\ allocations'[o] # 0
             => attributes'[allocations'[o]] = attributes[allocations[o]]]_vars

(* FIFO reuse: an ordinal freed by a step is behind every ordinal that was *)
(* free before the step and still is.                                      *)
FreedGoesLast ==
    [][\A i, j \in DOMAIN unallocated' :
          /\ allocations[unallocated'[i]] = 0
          /\ allocations[unallocated'[j]] # 0
          => i < j]_vars

(* The block implements the lease promise for its ordinals. *)
Lease == INSTANCE AddressLease WITH
    Addresses <- Ordinals, Holders <- Handles, Free <- Free,
    lease <- [o \in Ordinals |-> HandleOf(o)]
LeaseSpec == Lease!Spec

=============================================================================
