-------------------------- MODULE IpamBlockProofs ---------------------------
(***************************************************************************)
(* Machine-checked facts about IpamBlock for a block of any capacity and   *)
(* any number of handles.  The first part is about the ascending           *)
(* enumeration of a finite set of integers, on which the free list and the *)
(* attribute table rest; the second about the invariants.                  *)
(***************************************************************************)
EXTENDS IpamBlock, TLAPS, FiniteSetTheorems, SequenceTheorems, FunctionTheorems

-----------------------------------------------------------------------------
(* Ranks lie in 1 .. Cardinality(K) and grow strictly. *)
LEMMA RankType ==
    ASSUME NEW K \in SUBSET Int, IsFiniteSet(K), NEW k \in K
    PROVE  Rank(K, k) \in 1 .. Cardinality(K)
<1> DEFINE below == {j \in K : j <= k}
<1>1. IsFiniteSet(below) /\ Cardinality(below) <= Cardinality(K)
  BY FS_Subset, below \in SUBSET K
<1>2. Cardinality(below) \in Nat /\ Cardinality(K) \in Nat
  BY <1>1, FS_CardinalityType
<1>3. Cardinality(below) # 0
  BY <1>1, FS_EmptySet, k \in below
<1> QED BY <1>1, <1>2, <1>3 DEF Rank

LEMMA RankMonotone ==
    ASSUME NEW K \in SUBSET Int, IsFiniteSet(K),
           NEW j \in K, NEW k \in K, j < k
    PROVE  Rank(K, j) < Rank(K, k)
<1> DEFINE low == {i \in K : i <= j}
           high == {i \in K : i <= k}
<1>1. low \in SUBSET high /\ k \in high /\ k \notin low
  <2>1. K \subseteq Int /\ j \in Int /\ k \in Int
    OBVIOUS
  <2>2. \A i \in low : i \in high
    BY <2>1
  <2>3. k \in high
    BY <2>1
  <2>4. k \notin low
    BY <2>1
  <2> QED BY <2>2, <2>3, <2>4
<1>2. IsFiniteSet(high)
  BY FS_Subset, high \in SUBSET K
<1>3. Cardinality(low) <= Cardinality(high) /\ Cardinality(low) # Cardinality(high)
  <2> HIDE DEF low, high
  <2> QED BY <1>1, <1>2, FS_Subset
<1>4. Cardinality(low) \in Nat /\ Cardinality(high) \in Nat
  <2> HIDE DEF low, high
  <2> QED BY <1>1, <1>2, FS_Subset, FS_CardinalityType
<1> QED BY <1>3, <1>4 DEF Rank

LEMMA RankInjective ==
    ASSUME NEW K \in SUBSET Int, IsFiniteSet(K),
           NEW j \in K, NEW k \in K, Rank(K, j) = Rank(K, k)
    PROVE  j = k
<1>1. ~(j < k) /\ ~(k < j)
  BY RankMonotone, RankType
<1> QED BY <1>1

(* Every number up to the cardinality is the rank of an element. *)
LEMMA RankOnto ==
    ASSUME NEW K \in SUBSET Int, IsFiniteSet(K), NEW i \in 1 .. Cardinality(K)
    PROVE  \E k \in K : Rank(K, k) = i
<1> DEFINE n == Cardinality(K)
           r == [k \in K |-> Rank(K, k)]
<1>1. n \in Nat
  BY FS_CardinalityType
<1>2. r \in Injection(K, 1 .. n)
  <2>1. r \in [K -> 1 .. n]
    BY RankType
  <2>2. \A j, k \in K : r[j] = r[k] => j = k
    BY RankInjective
  <2> QED BY <2>1, <2>2 DEF Injection, IsInjective
<1>3. IsFiniteSet(1 .. n) /\ Cardinality(1 .. n) = n
  BY <1>1, FS_Interval
<1>4. r \in Surjection(K, 1 .. n)
  BY <1>2, <1>3, FS_Injection
<1> QED BY <1>4 DEF Surjection

(* Ascending(K) lists exactly the elements of K, in order, each once. *)
LEMMA AscendingElements ==
    ASSUME NEW K \in SUBSET Int, IsFiniteSet(K)
    PROVE  /\ Cardinality(K) \in Nat
           /\ DOMAIN Ascending(K) = 1 .. Cardinality(K)
           /\ \A i \in 1 .. Cardinality(K) :
                 Ascending(K)[i] \in K /\ Rank(K, Ascending(K)[i]) = i
           /\ \A k \in K : /\ Rank(K, k) \in 1 .. Cardinality(K)
                           /\ Ascending(K)[Rank(K, k)] = k
<1>1. Cardinality(K) \in Nat
  BY FS_CardinalityType
<1>2. \A i \in 1 .. Cardinality(K) :
          Ascending(K)[i] \in K /\ Rank(K, Ascending(K)[i]) = i
  BY RankOnto DEF Ascending
<1>3. \A k \in K : Rank(K, k) \in 1 .. Cardinality(K)
  BY RankType
<1>4. ASSUME NEW k \in K
      PROVE  Ascending(K)[Rank(K, k)] = k
  <2> DEFINE a == Ascending(K)[Rank(K, k)]
  <2>1. a \in K /\ Rank(K, a) = Rank(K, k)
    BY <1>2, <1>3
  <2> HIDE DEF a
  <2>2. a = k
    BY <2>1, RankInjective
  <2> QED BY <2>2 DEF a
<1> QED BY <1>1, <1>2, <1>3, <1>4 DEF Ascending

(* The elements of s at K: a sequence over S of length Cardinality(K),     *)
(* with the values of s at K, each as often as s has it there.             *)
LEMMA AtElements ==
    ASSUME NEW S, NEW s \in Seq(S), NEW K \in SUBSET DOMAIN s
    PROVE  /\ IsFiniteSet(K) /\ Cardinality(K) \in Nat
           /\ At(s, K) \in Seq(S)
           /\ Len(At(s, K)) = Cardinality(K)
           /\ \A k \in K : \E i \in DOMAIN At(s, K) : At(s, K)[i] = s[k]
           /\ \A i \in DOMAIN At(s, K) : /\ Ascending(K)[i] \in K
                                         /\ At(s, K)[i] = s[Ascending(K)[i]]
           /\ \A i, j \in DOMAIN At(s, K) :
                 Ascending(K)[i] = Ascending(K)[j] => i = j
<1>1. K \in SUBSET Int /\ IsFiniteSet(K)
  <2>1. DOMAIN s = 1 .. Len(s) /\ Len(s) \in Nat
    BY LenProperties
  <2>2. IsFiniteSet(1 .. Len(s))
    BY <2>1, FS_Interval
  <2> QED BY <2>1, <2>2, FS_Subset
<1>2. /\ Cardinality(K) \in Nat
      /\ \A i \in 1 .. Cardinality(K) :
            Ascending(K)[i] \in K /\ Rank(K, Ascending(K)[i]) = i
      /\ \A k \in K : /\ Rank(K, k) \in 1 .. Cardinality(K)
                      /\ Ascending(K)[Rank(K, k)] = k
  BY <1>1, AscendingElements
<1>3. /\ DOMAIN At(s, K) = 1 .. Cardinality(K)
      /\ \A i \in 1 .. Cardinality(K) : At(s, K)[i] = s[Ascending(K)[i]]
  BY DEF At
<1>4. \A i \in 1 .. Cardinality(K) : At(s, K)[i] \in S
  BY <1>2, <1>3, ElementOfSeq, LenProperties
<1>5. At(s, K) \in Seq(S) /\ Len(At(s, K)) = Cardinality(K)
  <2>1. At(s, K) \in [1 .. Cardinality(K) -> S]
    BY <1>3, <1>4 DEF At
  <2> QED BY <2>1, <1>2, SeqDef
<1>6. \A k \in K : \E i \in DOMAIN At(s, K) : At(s, K)[i] = s[k]
  BY <1>2, <1>3
<1> QED BY <1>1, <1>2, <1>3, <1>5, <1>6

-----------------------------------------------------------------------------
(* Sequences without duplicates, and their elements. *)
NoDup(s) == \A i, j \in DOMAIN s : s[i] = s[j] => i = j
Elems(s) == {s[i] : i \in DOMAIN s}

LEMMA ConcatNoDup ==
    ASSUME NEW S, NEW s \in Seq(S), NEW t \in Seq(S), NoDup(s), NoDup(t),
           Elems(s) \cap Elems(t) = {}
    PROVE  /\ s \o t \in Seq(S)
           /\ NoDup(s \o t)
           /\ Elems(s \o t) = Elems(s) \cup Elems(t)
<1> DEFINE m == Len(s)
           n == Len(t)
           st == s \o t
<1>1. /\ m \in Nat /\ n \in Nat
      /\ DOMAIN s = 1 .. m /\ DOMAIN t = 1 .. n
  BY LenProperties
<1>2. /\ st \in Seq(S) /\ Len(st) = m + n
      /\ \A i \in 1 .. m + n : st[i] = IF i <= m THEN s[i] ELSE t[i - m]
  BY ConcatProperties
<1>3. DOMAIN st = 1 .. m + n
  BY <1>2, LenProperties
<1> HIDE DEF m, n, st
<1>4. \A i \in 1 .. m : i \in 1 .. m + n /\ st[i] = s[i]
  BY <1>1, <1>2
<1>5. \A i \in 1 .. n : i + m \in 1 .. m + n /\ st[i + m] = t[i]
  BY <1>1, <1>2
<1>6. \A i \in 1 .. m + n : i \in 1 .. m \/ i - m \in 1 .. n
  BY <1>1
<1>7. \A i \in 1 .. m + n :
          i \notin 1 .. m => i - m \in 1 .. n /\ st[i] = t[i - m]
  BY <1>1, <1>2
<1>8. Elems(st) = Elems(s) \cup Elems(t)
  <2>1. ASSUME NEW i \in DOMAIN st PROVE st[i] \in Elems(s) \cup Elems(t)
    BY <1>1, <1>3, <1>4, <1>7 DEF Elems
  <2>2. ASSUME NEW i \in DOMAIN s PROVE s[i] \in Elems(st)
    BY <1>1, <1>3, <1>4 DEF Elems
  <2>3. ASSUME NEW i \in DOMAIN t PROVE t[i] \in Elems(st)
    <3>1. i + m \in DOMAIN st /\ st[i + m] = t[i]
      BY <1>1, <1>3, <1>5
    <3> QED BY <3>1 DEF Elems
  <2> QED BY <2>1, <2>2, <2>3 DEF Elems
<1>9. ASSUME NEW i \in 1 .. m + n, NEW j \in 1 .. m + n, st[i] = st[j]
      PROVE  i = j
  <2>1. CASE i \in 1 .. m /\ j \in 1 .. m
    BY <2>1, <1>1, <1>4, <1>9 DEF NoDup
  <2>2. CASE i \notin 1 .. m /\ j \notin 1 .. m
    <3>1. i - m = j - m
      BY <2>2, <1>1, <1>7, <1>9 DEF NoDup
    <3> QED BY <3>1, <1>1
  <2>3. CASE i \in 1 .. m /\ j \notin 1 .. m
    <3>1. st[i] \in Elems(s) /\ st[j] \in Elems(t)
      BY <2>3, <1>1, <1>4, <1>7 DEF Elems
    <3> QED BY <3>1, <1>9
  <2>4. CASE i \notin 1 .. m /\ j \in 1 .. m
    <3>1. st[j] \in Elems(s) /\ st[i] \in Elems(t)
      BY <2>4, <1>1, <1>4, <1>7 DEF Elems
    <3> QED BY <3>1, <1>9
  <2> QED BY <2>1, <2>2, <2>3, <2>4
<1> QED BY <1>2, <1>3, <1>8, <1>9 DEF NoDup, st

LEMMA AtNoDup ==
    ASSUME NEW S, NEW s \in Seq(S), NEW K \in SUBSET DOMAIN s, NoDup(s)
    PROVE  /\ At(s, K) \in Seq(S)
           /\ NoDup(At(s, K))
           /\ Elems(At(s, K)) = {s[k] : k \in K}
<1>1. /\ At(s, K) \in Seq(S)
      /\ \A k \in K : \E i \in DOMAIN At(s, K) : At(s, K)[i] = s[k]
      /\ \A i \in DOMAIN At(s, K) : /\ Ascending(K)[i] \in K
                                    /\ At(s, K)[i] = s[Ascending(K)[i]]
      /\ \A i, j \in DOMAIN At(s, K) :
            Ascending(K)[i] = Ascending(K)[j] => i = j
  BY AtElements
<1>2. ASSUME NEW i \in DOMAIN At(s, K), NEW j \in DOMAIN At(s, K),
             At(s, K)[i] = At(s, K)[j]
      PROVE  i = j
  <2>1. Ascending(K)[i] = Ascending(K)[j]
    BY <1>1, <1>2 DEF NoDup
  <2> QED BY <2>1, <1>1
<1>3. Elems(At(s, K)) = {s[k] : k \in K}
  BY <1>1 DEF Elems
<1> QED BY <1>1, <1>2, <1>3 DEF NoDup

(* The ascending list of a finite set of ordinals. *)
LEMMA AscendingNoDup ==
    ASSUME NEW F \in SUBSET Ordinals
    PROVE  /\ IsFiniteSet(F) /\ Cardinality(F) \in Nat
           /\ Ascending(F) \in Seq(Ordinals)
           /\ NoDup(Ascending(F))
           /\ Elems(Ascending(F)) = F
<1>1. IsFiniteSet(F) /\ F \in SUBSET Int
  <2>1. IsFiniteSet(Ordinals) /\ Ordinals \in SUBSET Int
    BY FS_Interval, CapacityAssumption DEF Ordinals
  <2> QED BY <2>1, FS_Subset
<1>2. /\ Cardinality(F) \in Nat
      /\ DOMAIN Ascending(F) = 1 .. Cardinality(F)
      /\ \A i \in 1 .. Cardinality(F) :
            Ascending(F)[i] \in F /\ Rank(F, Ascending(F)[i]) = i
      /\ \A k \in F : /\ Rank(F, k) \in 1 .. Cardinality(F)
                      /\ Ascending(F)[Rank(F, k)] = k
  BY <1>1, AscendingElements
<1>3. Ascending(F) \in Seq(Ordinals)
  <2>1. Ascending(F) \in [1 .. Cardinality(F) -> Ordinals]
    BY <1>2 DEF Ascending
  <2> QED BY <2>1, <1>2, SeqDef
<1>4. NoDup(Ascending(F))
  BY <1>2 DEF NoDup
<1>5. Elems(Ascending(F)) = F
  <2>1. \A k \in F : \E i \in DOMAIN Ascending(F) : Ascending(F)[i] = k
    BY <1>2
  <2>2. \A i \in DOMAIN Ascending(F) : Ascending(F)[i] \in F
    BY <1>2
  <2> QED BY <2>1, <2>2 DEF Elems
<1> QED BY <1>1, <1>2, <1>3, <1>4, <1>5

-----------------------------------------------------------------------------
(* The inductive invariant.  The free list is exact only together with the *)
(* range of the indices (TypeOK), and an outdated ticket is refused only   *)
(* because every ticket carries a number that was already given out.       *)
TicketsDated == \A t \in tickets : t.seq \in 1 .. sequence_number

BlockInv ==
    /\ TypeOK
    /\ FreeListExact
    /\ SeqRecordsExact
    /\ AttributesDistinct
    /\ TicketsDated
    /\ OutdatedTicketsRejected

Unused == {o \in Ordinals : allocations[o] = 0}

LEMMA FreeListForm ==
    FreeListExact <=> NoDup(unallocated) /\ Elems(unallocated) = Unused
BY DEF FreeListExact, NoDup, Elems, Unused

(* Interning extends the table, keeps it free of duplicates and finds a.   *)
LEMMA InternedProps ==
    ASSUME TypeOK, AttributesDistinct, NEW a \in Attribute
    PROVE  /\ Interned(a) \in Seq(Attribute)
           /\ Len(Interned(a)) \in Nat /\ Len(Interned(a)) >= Len(attributes)
           /\ \A i \in 1 .. Len(attributes) : Interned(a)[i] = attributes[i]
           /\ IndexOf(a) \in 1 .. Len(Interned(a))
           /\ Interned(a)[IndexOf(a)] = a
           /\ \A i, j \in DOMAIN Interned(a) :
                 Interned(a)[i] = Interned(a)[j] => i = j
<1> DEFINE n == Len(attributes)
<1>1. attributes \in Seq(Attribute)
  BY DEF TypeOK
<1>2. n \in Nat /\ DOMAIN attributes = 1 .. n
  BY <1>1, LenProperties
<1>3. CASE \E i \in DOMAIN attributes : attributes[i] = a
  <2>1. Interned(a) = attributes
    BY <1>3 DEF Interned
  <2>2. IndexOf(a) \in DOMAIN attributes /\ attributes[IndexOf(a)] = a
    BY <1>3, <2>1 DEF IndexOf
  <2> QED BY <1>1, <1>2, <2>1, <2>2 DEF AttributesDistinct
<1>4. CASE ~ \E i \in DOMAIN attributes : attributes[i] = a
  <2>1. Interned(a) = Append(attributes, a)
    BY <1>4 DEF Interned
  <2>2. /\ Interned(a) \in Seq(Attribute)
        /\ Len(Interned(a)) = n + 1
        /\ \A i \in 1 .. n : Interned(a)[i] = attributes[i]
        /\ Interned(a)[n + 1] = a
    BY <2>1, <1>1, AppendProperties
  <2>3. DOMAIN Interned(a) = 1 .. n + 1
    BY <2>2, LenProperties
  <2>4. IndexOf(a) \in DOMAIN Interned(a) /\ Interned(a)[IndexOf(a)] = a
    <3>1. n + 1 \in DOMAIN Interned(a)
      BY <2>3, <1>2
    <3> QED BY <2>2, <3>1 DEF IndexOf
  <2>5. ASSUME NEW i \in 1 .. n + 1, NEW j \in 1 .. n + 1,
               Interned(a)[i] = Interned(a)[j]
        PROVE  i = j
    <3>1. \A k \in 1 .. n + 1 : k \in 1 .. n \/ k = n + 1
      BY <1>2
    <3>2. CASE i \in 1 .. n /\ j \in 1 .. n
      BY <3>2, <2>2, <2>5, <1>2 DEF AttributesDistinct
    <3>3. CASE i \in 1 .. n /\ j = n + 1
      BY <3>3, <2>2, <2>5, <1>2, <1>4
    <3>4. CASE i = n + 1 /\ j \in 1 .. n
      BY <3>4, <2>2, <2>5, <1>2, <1>4
    <3> QED BY <3>1, <3>2, <3>3, <3>4
  <2> QED BY <1>2, <2>2, <2>3, <2>4, <2>5
<1> QED BY <1>3, <1>4

(* Allocating the ordinals at the positions T of the free list. *)
LEMMA CommitProps ==
    ASSUME BlockInv, NEW T \in SUBSET DOMAIN unallocated, NEW a \in Attribute,
           Commit(T, a)
    PROVE  /\ attributes' \in Seq(Attribute) /\ AttributesDistinct'
           /\ allocations' \in [Ordinals -> 0 .. Len(attributes')]
           /\ Unused' = Unused \ {unallocated[i] : i \in T}
           /\ sequence_number' \in Nat /\ sequence_number' >= sequence_number
           /\ seq_at' \in [Ordinals -> Nat] /\ SeqRecordsExact'
           /\ \A o \in Ordinals :
                 seq_at'[o] = seq_at[o] \/ seq_at'[o] > sequence_number
<1> DEFINE got == {unallocated[i] : i \in T}
           pos(o) == CHOOSE i \in T : unallocated[i] = o
<1>1. /\ attributes' = Interned(a)
      /\ allocations' = [o \in Ordinals |->
            IF o \in got THEN IndexOf(a) ELSE allocations[o]]
      /\ seq_at' = [o \in Ordinals |->
            IF o \in got THEN Number(T, pos(o)) ELSE seq_at[o]]
      /\ sequence_number' = sequence_number + Cardinality(T)
  BY DEF Commit
<1>2. TypeOK /\ AttributesDistinct /\ SeqRecordsExact
  BY DEF BlockInv
<1>3. /\ Interned(a) \in Seq(Attribute)
      /\ Len(Interned(a)) \in Nat /\ Len(Interned(a)) >= Len(attributes)
      /\ IndexOf(a) \in 1 .. Len(Interned(a))
      /\ \A i, j \in DOMAIN Interned(a) :
            Interned(a)[i] = Interned(a)[j] => i = j
  BY <1>2, InternedProps
<1>4. Len(attributes) \in Nat /\ sequence_number \in Nat
  BY <1>2, LenProperties DEF TypeOK
<1>5. attributes' \in Seq(Attribute) /\ AttributesDistinct'
  BY <1>1, <1>3 DEF AttributesDistinct
<1>6. allocations' \in [Ordinals -> 0 .. Len(attributes')]
  <2>1. \A o \in Ordinals : allocations[o] \in 0 .. Len(attributes)
    BY <1>2 DEF TypeOK
  <2>2. \A k \in 0 .. Len(attributes) : k \in 0 .. Len(Interned(a))
    BY <1>3, <1>4
  <2>3. IndexOf(a) \in 0 .. Len(Interned(a))
    BY <1>3
  <2> QED BY <1>1, <2>1, <2>2, <2>3
<1>7. IndexOf(a) # 0
  BY <1>3
<1>8. Unused' = Unused \ got
  BY <1>1, <1>7 DEF Unused
<1>9. /\ T \in SUBSET Int /\ IsFiniteSet(T) /\ Cardinality(T) \in Nat
  <2>1. unallocated \in Seq(Ordinals)
    BY <1>2 DEF TypeOK
  <2>2. Len(unallocated) \in Nat /\ DOMAIN unallocated = 1 .. Len(unallocated)
    BY <2>1, LenProperties
  <2>3. IsFiniteSet(1 .. Len(unallocated))
    BY <2>2, FS_Interval
  <2> QED BY <2>2, <2>3, FS_Subset, FS_CardinalityType
<1>10. \A o \in got : /\ pos(o) \in T /\ unallocated[pos(o)] = o
                      /\ Rank(T, pos(o)) \in 1 .. Cardinality(T)
  BY <1>9, RankType
<1>11. \A o, p \in got : Rank(T, pos(o)) = Rank(T, pos(p)) => o = p
  BY <1>9, <1>10, RankInjective
<1> DEFINE rank(o) == Rank(T, pos(o))
<1>12. \A o \in Ordinals :
          seq_at'[o] = IF o \in got THEN sequence_number + rank(o) ELSE seq_at[o]
  BY <1>1 DEF Number
<1>13. /\ \A o \in got : rank(o) \in 1 .. Cardinality(T)
       /\ \A o, p \in got : rank(o) = rank(p) => o = p
  BY <1>10, <1>11
<1> HIDE DEF got, pos, rank
<1>14. sequence_number' \in Nat /\ sequence_number' >= sequence_number
  BY <1>1, <1>4, <1>9
<1>15. /\ \A o \in Ordinals : seq_at[o] \in 0 .. sequence_number
       /\ \A o \in Ordinals : seq_at[o] = 0 <=> allocations[o] = 0
       /\ \A o, p \in Ordinals :
             seq_at[o] = seq_at[p] /\ seq_at[o] # 0 => o = p
  BY <1>2 DEF SeqRecordsExact
<1>16. \A o \in got : sequence_number + rank(o) \in
                          sequence_number + 1 .. sequence_number'
  BY <1>1, <1>4, <1>9, <1>13
<1>17. \A o \in Ordinals : seq_at'[o] \in 0 .. sequence_number'
  BY <1>12, <1>14, <1>15, <1>16, <1>4
<1>18. \A o \in Ordinals : seq_at'[o] = 0 <=> allocations'[o] = 0
  BY <1>1, <1>7, <1>12, <1>15, <1>16, <1>4 DEF got
<1>19. ASSUME NEW o \in Ordinals, NEW p \in Ordinals,
              seq_at'[o] = seq_at'[p], seq_at'[o] # 0
       PROVE  o = p
  <2>1. CASE o \in got /\ p \in got
    BY <2>1, <1>19, <1>12, <1>13, <1>4
  <2>2. CASE o \notin got /\ p \notin got
    BY <2>2, <1>19, <1>12, <1>15
  <2>3. CASE o \in got /\ p \notin got
    BY <2>3, <1>19, <1>12, <1>15, <1>16, <1>4
  <2>4. CASE o \notin got /\ p \in got
    BY <2>4, <1>19, <1>12, <1>15, <1>16, <1>4
  <2> QED BY <2>1, <2>2, <2>3, <2>4
<1>20. SeqRecordsExact'
  BY <1>17, <1>18, <1>19 DEF SeqRecordsExact
<1>21. seq_at' \in [Ordinals -> Nat]
  <2>1. \A o \in Ordinals : seq_at'[o] \in Nat
    BY <1>17
  <2>2. seq_at' = [o \in Ordinals |-> seq_at'[o]]
    BY <1>1
  <2> QED BY <2>1, <2>2
<1>22. \A o \in Ordinals :
          seq_at'[o] = seq_at[o] \/ seq_at'[o] > sequence_number
  BY <1>12, <1>16, <1>4
<1> QED BY <1>5, <1>6, <1>8, <1>14, <1>20, <1>21, <1>22 DEF got

(* Freeing the ordinals F, all of them allocated. *)
LEMMA FreeProps ==
    ASSUME BlockInv, NEW F \in SUBSET Ordinals,
           \A o \in F : allocations[o] # 0,
           FreeOrdinals(F)
    PROVE  /\ unallocated' \in Seq(Ordinals)
           /\ NoDup(unallocated')
           /\ Elems(unallocated') = Unused \cup F
           /\ sequence_number' \in Nat /\ sequence_number' >= sequence_number
           /\ seq_at' = [o \in Ordinals |-> IF o \in F THEN 0 ELSE seq_at[o]]
           /\ outdated' = outdated \cup {t \in tickets : t.ord \in F}
<1>1. /\ unallocated \in Seq(Ordinals) /\ NoDup(unallocated)
      /\ Elems(unallocated) = Unused
      /\ sequence_number \in Nat
  BY FreeListForm DEF BlockInv, TypeOK
<1>2. /\ Ascending(F) \in Seq(Ordinals) /\ NoDup(Ascending(F))
      /\ Elems(Ascending(F)) = F
      /\ Cardinality(F) \in Nat
  BY AscendingNoDup
<1>3. Elems(unallocated) \cap Elems(Ascending(F)) = {}
  BY <1>1, <1>2 DEF Unused
<1>4. unallocated' = unallocated \o Ascending(F)
  BY DEF FreeOrdinals, Pushed
<1>5. /\ unallocated' \in Seq(Ordinals)
      /\ NoDup(unallocated')
      /\ Elems(unallocated') = Unused \cup F
  BY <1>1, <1>2, <1>3, <1>4, ConcatNoDup
<1>6. sequence_number' \in Nat /\ sequence_number' >= sequence_number
  BY <1>1, <1>2 DEF FreeOrdinals
<1> QED BY <1>5, <1>6 DEF FreeOrdinals, RecordsWithout, Outdate

(* Dropping the sequence records of the ordinals that become free. *)
LEMMA FreeRecords ==
    ASSUME BlockInv, NEW F \in SUBSET Ordinals,
           \A o \in F : allocations[o] # 0,
           FreeOrdinals(F),
           \A o \in Ordinals : allocations'[o] = 0 <=> o \in F \/ allocations[o] = 0,
           UNCHANGED tickets
    PROVE  /\ seq_at' \in [Ordinals -> Nat]
           /\ outdated' \subseteq tickets'
           /\ FreeListExact'
           /\ SeqRecordsExact'
           /\ TicketsDated'
           /\ OutdatedTicketsRejected'
<1>1. /\ NoDup(unallocated') /\ Elems(unallocated') = Unused \cup F
      /\ sequence_number' \in Nat /\ sequence_number' >= sequence_number
      /\ seq_at' = [o \in Ordinals |-> IF o \in F THEN 0 ELSE seq_at[o]]
      /\ outdated' = outdated \cup {t \in tickets : t.ord \in F}
  BY FreeProps
<1>2. /\ seq_at \in [Ordinals -> Nat] /\ sequence_number \in Nat
      /\ tickets \subseteq Ticket /\ outdated \subseteq tickets
  BY DEF BlockInv, TypeOK
<1>3. seq_at' \in [Ordinals -> Nat]
  BY <1>1, <1>2
<1>4. FreeListExact'
  <2>1. Unused' = Unused \cup F
    BY DEF Unused
  <2> QED BY <1>1, <2>1 DEF FreeListExact, NoDup, Elems, Unused
<1>5. SeqRecordsExact'
  <2>1. /\ \A o \in Ordinals : seq_at[o] \in 0 .. sequence_number
        /\ \A o \in Ordinals : seq_at[o] = 0 <=> allocations[o] = 0
        /\ \A o, p \in Ordinals :
              seq_at[o] = seq_at[p] /\ seq_at[o] # 0 => o = p
    BY DEF BlockInv, SeqRecordsExact
  <2>2. \A o \in Ordinals : seq_at'[o] \in 0 .. sequence_number'
    BY <1>1, <1>2, <2>1
  <2>3. \A o \in Ordinals : seq_at'[o] = 0 <=> allocations'[o] = 0
    BY <1>1, <2>1
  <2>4. \A o, p \in Ordinals :
           seq_at'[o] = seq_at'[p] /\ seq_at'[o] # 0 => o = p
    BY <1>1, <2>1
  <2> QED BY <2>2, <2>3, <2>4 DEF SeqRecordsExact
<1>6. TicketsDated'
  <2>1. \A t \in tickets : t.seq \in 1 .. sequence_number
    BY DEF BlockInv, TicketsDated
  <2> QED BY <1>1, <1>2, <2>1 DEF TicketsDated
<1>7. OutdatedTicketsRejected'
  <2>1. \A t \in outdated : seq_at[t.ord] # t.seq
    BY DEF BlockInv, OutdatedTicketsRejected
  <2>2. \A t \in tickets : t.ord \in Ordinals /\ t.seq \in 1 .. sequence_number
    BY <1>2 DEF BlockInv, TicketsDated, Ticket
  <2>3. \A t \in outdated' : seq_at'[t.ord] # t.seq
    BY <1>1, <1>2, <2>1, <2>2
  <2> QED BY <2>3 DEF OutdatedTicketsRejected
<1> QED BY <1>1, <1>2, <1>3, <1>4, <1>5, <1>6, <1>7

(* Every index in use has a first reference. *)
LEMMA FirstRefExists ==
    ASSUME NEW al \in [Ordinals -> Nat], NEW o \in Ordinals, al[o] # 0
    PROVE  \E p \in FirstRefs(al) : al[p] = al[o]
<1> DEFINE K == {q \in Ordinals : al[q] = al[o]}
           first == Ascending(K)[1]
<1>1. IsFiniteSet(K) /\ K \in SUBSET Int /\ o \in K
  BY AscendingNoDup DEF Ordinals
<1>2. Cardinality(K) \in Nat /\ Cardinality(K) # 0
  <2> HIDE DEF K
  <2> QED BY <1>1, FS_EmptySet, FS_CardinalityType
<1>3. first \in K /\ Rank(K, first) = 1
  <2> HIDE DEF K
  <2> QED BY <1>1, <1>2, AscendingElements
<1>4. ASSUME NEW q \in K, q < first
      PROVE  FALSE
  <2> HIDE DEF K, first
  <2>1. Rank(K, q) < 1
    BY <1>1, <1>3, <1>4, RankMonotone
  <2>2. Rank(K, q) \in 1 .. Cardinality(K)
    BY <1>1, RankType
  <2> QED BY <2>1, <2>2, <1>2
<1>5. first \in FirstRefs(al)
  <2>1. first \in Ordinals /\ al[first] = al[o]
    BY <1>3
  <2>2. \A p \in Ordinals : p < first => al[p] # al[first]
    BY <1>4, <2>1
  <2> HIDE DEF first
  <2> QED BY <2>1, <2>2 DEF FirstRefs
<1> QED BY <1>3, <1>5

(* compact_attributes: every allocation of al keeps its attribute. *)
LEMMA CompactProps ==
    ASSUME attributes \in Seq(Attribute), AttributesDistinct,
           NEW al \in [Ordinals -> 0 .. Len(attributes)]
    PROVE  /\ Compacted(al) \in Seq(Attribute)
           /\ \A i, j \in DOMAIN Compacted(al) :
                 Compacted(al)[i] = Compacted(al)[j] => i = j
           /\ Reindexed(al) \in [Ordinals -> 0 .. Len(Compacted(al))]
           /\ \A o \in Ordinals : Reindexed(al)[o] = 0 <=> al[o] = 0
           /\ \A o \in Ordinals : al[o] # 0 =>
                 Compacted(al)[Reindexed(al)[o]] = attributes[al[o]]
<1> DEFINE K == FirstRefs(al)
           n == Cardinality(K)
           A == Ascending(K)
<1>1. Len(attributes) \in Nat /\ DOMAIN attributes = 1 .. Len(attributes)
  BY LenProperties
<1>2. K \in SUBSET Ordinals /\ \A p \in K : al[p] \in 1 .. Len(attributes)
  BY <1>1 DEF FirstRefs
<1>3. IsFiniteSet(K) /\ K \in SUBSET Int
  BY <1>2, AscendingNoDup DEF Ordinals
<1>4. /\ n \in Nat
      /\ \A i \in 1 .. n : A[i] \in K /\ Rank(K, A[i]) = i
      /\ \A k \in K : Rank(K, k) \in 1 .. n /\ A[Rank(K, k)] = k
  BY <1>3, AscendingElements
<1>5. Compacted(al) = [i \in 1 .. n |-> attributes[al[A[i]]]]
  BY DEF Compacted
<1>6. Reindexed(al) = [o \in Ordinals |->
          IF al[o] = 0 THEN 0
          ELSE Rank(K, CHOOSE p \in K : al[p] = al[o])]
  BY DEF Reindexed
<1>7. ASSUME NEW p \in K, NEW q \in K, al[p] = al[q]
      PROVE  p = q
  <2>1. ~(p < q) /\ ~(q < p)
    BY <1>2, <1>7 DEF FirstRefs
  <2> QED BY <2>1, <1>3
<1> DEFINE ref(o) == CHOOSE p \in K : al[p] = al[o]
<1>8. \A o \in Ordinals : al[o] # 0 => ref(o) \in K /\ al[ref(o)] = al[o]
  <2>1. al \in [Ordinals -> Nat]
    BY <1>1
  <2> QED BY <2>1, FirstRefExists
<1>9. \A o \in Ordinals :
         Reindexed(al)[o] = IF al[o] = 0 THEN 0 ELSE Rank(K, ref(o))
  BY <1>6
<1> HIDE DEF K, n, A, ref
<1>10. Compacted(al) \in Seq(Attribute) /\ Len(Compacted(al)) = n
  <2>1. \A i \in 1 .. n : attributes[al[A[i]]] \in Attribute
    BY <1>1, <1>2, <1>4, ElementOfSeq
  <2>2. Compacted(al) \in [1 .. n -> Attribute]
    BY <1>5, <2>1
  <2> QED BY <2>2, <1>4, SeqDef, LenProperties
<1>11. ASSUME NEW i \in 1 .. n, NEW j \in 1 .. n,
              Compacted(al)[i] = Compacted(al)[j]
       PROVE  i = j
  <2>1. al[A[i]] = al[A[j]]
    <3>1. attributes[al[A[i]]] = attributes[al[A[j]]]
      BY <1>5, <1>11
    <3>2. al[A[i]] \in DOMAIN attributes /\ al[A[j]] \in DOMAIN attributes
      BY <1>1, <1>2, <1>4
    <3> QED BY <3>1, <3>2 DEF AttributesDistinct
  <2>2. A[i] = A[j]
    BY <2>1, <1>4, <1>7
  <2> QED BY <2>2, <1>4
<1>12. \A o \in Ordinals : al[o] # 0 => Reindexed(al)[o] \in 1 .. n
  BY <1>4, <1>8, <1>9
<1>13. \A o \in Ordinals : Reindexed(al)[o] \in 0 .. n
  BY <1>9, <1>12, <1>4
<1>14. Reindexed(al) \in [Ordinals -> 0 .. n]
  BY <1>6, <1>13
<1>15. ASSUME NEW o \in Ordinals, al[o] # 0
       PROVE  Compacted(al)[Reindexed(al)[o]] = attributes[al[o]]
  <2>1. Reindexed(al)[o] = Rank(K, ref(o)) /\ ref(o) \in K /\ al[ref(o)] = al[o]
    BY <1>15, <1>8, <1>9
  <2>2. A[Rank(K, ref(o))] = ref(o) /\ Rank(K, ref(o)) \in 1 .. n
    BY <2>1, <1>4
  <2> QED BY <2>1, <2>2, <1>5
<1>16. \A o \in Ordinals : Reindexed(al)[o] = 0 <=> al[o] = 0
  BY <1>9, <1>12
<1>17. DOMAIN Compacted(al) = 1 .. n
  BY <1>5
<1> QED BY <1>10, <1>11, <1>14, <1>15, <1>16, <1>17

-----------------------------------------------------------------------------
(* What auto_assign takes is among what it pops, and the list it leaves    *)
(* holds every other ordinal once.                                         *)
LEMMA RemainingProps ==
    ASSUME BlockInv, NEW count \in Nat, NEW skip
    PROVE  /\ Taken(count, skip) \in SUBSET DOMAIN unallocated
           /\ Remaining(count, skip) \in Seq(Ordinals)
           /\ NoDup(Remaining(count, skip))
           /\ \A o : o \in Elems(Remaining(count, skip)) <=>
                 /\ o \in Elems(unallocated)
                 /\ \A i \in Taken(count, skip) : unallocated[i] # o
<1> DEFINE D == DOMAIN unallocated
           T == Taken(count, skip)
           P == Popped(count, skip)
           kept == At(unallocated, D \ P)
           back == At(unallocated, P \ T)
<1>1. unallocated \in Seq(Ordinals) /\ NoDup(unallocated)
  BY FreeListForm DEF BlockInv, TypeOK
<1>2. D = 1 .. Len(unallocated) /\ Len(unallocated) \in Nat
  BY <1>1, LenProperties
<1>3. T \in SUBSET D
  BY DEF Taken, Eligible
<1>4. P \in SUBSET D /\ T \in SUBSET P
  <2>1. P \in SUBSET D
    BY DEF Popped
  <2>2. ASSUME NEW i \in T PROVE i \in P
    <3>1. i \in D /\ i <= i
      BY <1>2, <1>3
    <3> QED BY <3>1 DEF Popped
  <2> QED BY <2>1, <2>2
<1>5. Remaining(count, skip) = kept \o back
  BY DEF Remaining
<1> HIDE DEF D, T, P
<1>6. /\ kept \in Seq(Ordinals) /\ NoDup(kept)
      /\ Elems(kept) = {unallocated[k] : k \in D \ P}
  <2>1. D \ P \in SUBSET DOMAIN unallocated
    BY DEF D
  <2> QED BY <1>1, <2>1, AtNoDup
<1>7. /\ back \in Seq(Ordinals) /\ NoDup(back)
      /\ Elems(back) = {unallocated[k] : k \in P \ T}
  <2>1. P \ T \in SUBSET DOMAIN unallocated
    BY <1>4 DEF D
  <2> QED BY <1>1, <2>1, AtNoDup
<1>8. \A i, j \in D : unallocated[i] = unallocated[j] => i = j
  BY <1>1 DEF NoDup, D
<1>9. Elems(kept) \cap Elems(back) = {}
  BY <1>4, <1>6, <1>7, <1>8
<1>10. /\ kept \o back \in Seq(Ordinals) /\ NoDup(kept \o back)
       /\ Elems(kept \o back) = Elems(kept) \cup Elems(back)
  <2> HIDE DEF kept, back
  <2> QED BY <1>6, <1>7, <1>9, ConcatNoDup
<1>11. ASSUME NEW o
       PROVE  o \in Elems(kept) \cup Elems(back) <=>
                 /\ \E i \in D : unallocated[i] = o
                 /\ \A i \in T : unallocated[i] # o
  <2>1. o \in Elems(kept) \cup Elems(back) <=>
           \E i \in D : i \notin T /\ unallocated[i] = o
    BY <1>4, <1>6, <1>7
  <2> QED BY <2>1, <1>3, <1>8
<1>12. \A o : o \in Elems(unallocated) <=> \E i \in D : unallocated[i] = o
  BY DEF Elems, D
<1> QED BY <1>3, <1>5, <1>10, <1>11, <1>12 DEF T, D

(* Allocating preserves the invariant when the list loses what is taken.   *)
LEMMA CommitInv ==
    ASSUME BlockInv, NEW T \in SUBSET DOMAIN unallocated, NEW a \in Attribute,
           Commit(T, a),
           unallocated' \in Seq(Ordinals), NoDup(unallocated'),
           \A o : o \in Elems(unallocated') <=>
              o \in Elems(unallocated) /\ \A i \in T : unallocated[i] # o,
           UNCHANGED <<deleted, tickets, outdated>>
    PROVE  BlockInv'
<1>1. /\ attributes' \in Seq(Attribute) /\ AttributesDistinct'
      /\ allocations' \in [Ordinals -> 0 .. Len(attributes')]
      /\ Unused' = Unused \ {unallocated[i] : i \in T}
      /\ sequence_number' \in Nat /\ sequence_number' >= sequence_number
      /\ seq_at' \in [Ordinals -> Nat] /\ SeqRecordsExact'
      /\ \A o \in Ordinals :
            seq_at'[o] = seq_at[o] \/ seq_at'[o] > sequence_number
  BY CommitProps
<1>2. /\ deleted \in BOOLEAN /\ tickets \subseteq Ticket /\ outdated \subseteq tickets
      /\ sequence_number \in Nat /\ seq_at \in [Ordinals -> Nat]
  BY DEF BlockInv, TypeOK
<1>3. TypeOK'
  BY <1>1, <1>2 DEF TypeOK
<1>4. FreeListExact'
  <2>1. Elems(unallocated) = Unused
    BY FreeListForm DEF BlockInv
  <2>2. Elems(unallocated') = Unused'
    BY <1>1, <2>1
  <2> QED BY <2>2 DEF FreeListExact, NoDup, Elems, Unused
<1>5. TicketsDated'
  BY <1>1, <1>2 DEF BlockInv, TicketsDated
<1>6. OutdatedTicketsRejected'
  <2>1. \A t \in outdated : /\ seq_at[t.ord] # t.seq
                            /\ t.seq \in 1 .. sequence_number
                            /\ t.ord \in Ordinals
    BY <1>2 DEF BlockInv, OutdatedTicketsRejected, TicketsDated, Ticket
  <2>2. \A t \in outdated : seq_at'[t.ord] # t.seq
    BY <1>1, <1>2, <2>1
  <2> QED BY <2>2 DEF OutdatedTicketsRejected
<1> QED BY <1>1, <1>3, <1>4, <1>5, <1>6 DEF BlockInv

-----------------------------------------------------------------------------
(* Each operation preserves the invariant.                                 *)
LEMMA AutoAssignInv ==
    ASSUME BlockInv, NEW count \in 0 .. Capacity, NEW a \in Attribute,
           NEW skip \in SUBSET Ordinals, AutoAssign(count, a, skip)
    PROVE  BlockInv'
<1>1. count \in Nat
  BY CapacityAssumption
<1>2. /\ Taken(count, skip) \in SUBSET DOMAIN unallocated
      /\ Remaining(count, skip) \in Seq(Ordinals)
      /\ NoDup(Remaining(count, skip))
      /\ \A o : o \in Elems(Remaining(count, skip)) <=>
            /\ o \in Elems(unallocated)
            /\ \A i \in Taken(count, skip) : unallocated[i] # o
  BY <1>1, RemainingProps
<1>3. /\ Commit(Taken(count, skip), a)
      /\ unallocated' = Remaining(count, skip)
      /\ UNCHANGED <<deleted, tickets, outdated>>
  BY DEF AutoAssign
<1> QED BY <1>2, <1>3, CommitInv

LEMMA AssignInv ==
    ASSUME BlockInv, NEW o \in Ordinals, NEW a \in Attribute, Assign(o, a)
    PROVE  BlockInv'
<1> DEFINE D == DOMAIN unallocated
           here == {i \in D : unallocated[i] = o}
<1>1. /\ Commit(here, a)
      /\ unallocated' = At(unallocated, D \ here)
      /\ UNCHANGED <<deleted, tickets, outdated>>
  BY DEF Assign
<1>2. unallocated \in Seq(Ordinals) /\ NoDup(unallocated)
  BY FreeListForm DEF BlockInv, TypeOK
<1>3. /\ At(unallocated, D \ here) \in Seq(Ordinals)
      /\ NoDup(At(unallocated, D \ here))
      /\ Elems(At(unallocated, D \ here)) = {unallocated[k] : k \in D \ here}
  <2> HIDE DEF here
  <2> QED BY <1>2, AtNoDup
<1>4. \A p : p \in Elems(unallocated') <=>
         p \in Elems(unallocated) /\ \A i \in here : unallocated[i] # p
  <2>1. Elems(unallocated') = {unallocated[k] : k \in D \ here}
    BY <1>1, <1>3
  <2>2. \A p : p \in Elems(unallocated) <=> \E k \in D : unallocated[k] = p
    BY DEF Elems
  <2>3. \A i, j \in D : unallocated[i] = unallocated[j] => i = j
    BY <1>2 DEF NoDup
  <2>4. here \in SUBSET D
    OBVIOUS
  <2> HIDE DEF here, D
  <2> QED BY <2>1, <2>2, <2>3, <2>4
<1> HIDE DEF here
<1> QED
  <2>1. here \in SUBSET DOMAIN unallocated
    BY DEF here
  <2> QED BY <1>1, <1>3, <1>4, <2>1, CommitInv

(* Freeing one ordinal, guarded or not. *)
LEMMA ReleaseInv ==
    ASSUME BlockInv, NEW o \in Ordinals, allocations[o] # 0,
           FreeOrdinals({o}),
           allocations' = [allocations EXCEPT ![o] = 0],
           UNCHANGED <<attributes, deleted, tickets>>
    PROVE  BlockInv'
<1>1. TypeOK
  BY DEF BlockInv
<1>2. \A p \in Ordinals : allocations'[p] = 0 <=> p \in {o} \/ allocations[p] = 0
  BY <1>1 DEF TypeOK
<1>3. /\ unallocated' \in Seq(Ordinals) /\ sequence_number' \in Nat
  BY FreeProps
<1>4. /\ seq_at' \in [Ordinals -> Nat] /\ outdated' \subseteq tickets'
      /\ FreeListExact' /\ SeqRecordsExact'
      /\ TicketsDated' /\ OutdatedTicketsRejected'
  BY <1>2, FreeRecords
<1>5. allocations' \in [Ordinals -> 0 .. Len(attributes')]
  <2>1. Len(attributes) \in Nat
    BY <1>1, LenProperties DEF TypeOK
  <2> QED BY <1>1, <2>1 DEF TypeOK
<1>6. TypeOK'
  BY <1>1, <1>3, <1>4, <1>5 DEF TypeOK
<1>7. AttributesDistinct'
  BY DEF BlockInv, AttributesDistinct
<1> QED BY <1>4, <1>6, <1>7 DEF BlockInv

LEMMA ReleaseByHandleInv ==
    ASSUME BlockInv, NEW h \in Handles, ReleaseByHandle(h)
    PROVE  BlockInv'
<1> DEFINE freed == OrdinalsOf(h)
           al == [o \in Ordinals |-> IF o \in freed THEN 0 ELSE allocations[o]]
<1>1. /\ FreeOrdinals(freed)
      /\ allocations' = Reindexed(al)
      /\ attributes' = Compacted(al)
      /\ UNCHANGED <<deleted, tickets>>
  BY DEF ReleaseByHandle
<1>2. TypeOK /\ AttributesDistinct
  BY DEF BlockInv
<1>3. freed \in SUBSET Ordinals /\ \A o \in freed : allocations[o] # 0
  BY FreeAssumption DEF OrdinalsOf, HandleOf
<1>4. al \in [Ordinals -> 0 .. Len(attributes)]
  <2>1. Len(attributes) \in Nat
    BY <1>2, LenProperties DEF TypeOK
  <2> QED BY <1>2, <2>1 DEF TypeOK
<1>5. /\ attributes' \in Seq(Attribute)
      /\ \A i, j \in DOMAIN attributes' : attributes'[i] = attributes'[j] => i = j
      /\ allocations' \in [Ordinals -> 0 .. Len(attributes')]
      /\ \A o \in Ordinals : allocations'[o] = 0 <=> al[o] = 0
  <2>1. attributes \in Seq(Attribute)
    BY <1>2 DEF TypeOK
  <2> HIDE DEF al
  <2> QED BY <1>1, <1>2, <1>4, <2>1, CompactProps
<1>6. \A o \in Ordinals : allocations'[o] = 0 <=> o \in freed \/ allocations[o] = 0
  BY <1>5
<1> HIDE DEF freed
<1>7. /\ unallocated' \in Seq(Ordinals) /\ sequence_number' \in Nat
  BY <1>1, <1>3, FreeProps
<1>8. /\ seq_at' \in [Ordinals -> Nat] /\ outdated' \subseteq tickets'
      /\ FreeListExact' /\ SeqRecordsExact'
      /\ TicketsDated' /\ OutdatedTicketsRejected'
  BY <1>1, <1>3, <1>6, FreeRecords
<1>9. TypeOK'
  BY <1>1, <1>2, <1>5, <1>7, <1>8 DEF TypeOK
<1>10. AttributesDistinct'
  BY <1>5 DEF AttributesDistinct
<1> QED BY <1>8, <1>9, <1>10 DEF BlockInv

(* A new ticket carries the live number of its ordinal, so it is neither   *)
(* undated nor one of the outdated ones.                                   *)
LEMMA ScanInv ==
    ASSUME BlockInv, NEW o \in Ordinals, Scan(o)
    PROVE  BlockInv'
<1> DEFINE t == [ord |-> o, seq |-> seq_at[o]]
<1>1. TypeOK /\ SeqRecordsExact
  BY DEF BlockInv
<1>2. tickets' = tickets \cup {t} /\ UNCHANGED <<blockVars, outdated>>
  BY DEF Scan
<1>3. t \in Ticket /\ t.seq \in 1 .. sequence_number
  BY <1>1 DEF Scan, TypeOK, SeqRecordsExact, Ticket
<1> HIDE DEF t
<1>4. TypeOK'
  BY <1>1, <1>2, <1>3 DEF TypeOK, blockVars
<1>5. TicketsDated'
  BY <1>2, <1>3 DEF BlockInv, TicketsDated, blockVars
<1>6. FreeListExact' /\ SeqRecordsExact' /\ AttributesDistinct'
      /\ OutdatedTicketsRejected'
  BY <1>2 DEF BlockInv, FreeListExact, SeqRecordsExact, AttributesDistinct,
              OutdatedTicketsRejected, blockVars
<1> QED BY <1>4, <1>5, <1>6 DEF BlockInv

LEMMA MarkDeletedInv ==
    ASSUME BlockInv, MarkDeleted
    PROVE  BlockInv'
<1>1. /\ deleted' = TRUE /\ sequence_number' = sequence_number + 1
      /\ UNCHANGED <<allocations, unallocated, attributes, seq_at,
                     tickets, outdated>>
  BY DEF MarkDeleted
<1>2. TypeOK /\ sequence_number \in Nat
  BY DEF BlockInv, TypeOK
<1>3. TypeOK'
  BY <1>1, <1>2 DEF TypeOK
<1>4. SeqRecordsExact'
  BY <1>1, <1>2 DEF BlockInv, SeqRecordsExact
<1>5. TicketsDated'
  BY <1>1, <1>2 DEF BlockInv, TicketsDated
<1>6. FreeListExact' /\ AttributesDistinct' /\ OutdatedTicketsRejected'
  BY <1>1 DEF BlockInv, FreeListExact, AttributesDistinct,
              OutdatedTicketsRejected
<1> QED BY <1>3, <1>4, <1>5, <1>6 DEF BlockInv

-----------------------------------------------------------------------------
LEMMA InitInv == Init => BlockInv
<1> SUFFICES ASSUME Init PROVE BlockInv
  OBVIOUS
<1>1. attributes = <<>> /\ Len(attributes) = 0 /\ attributes \in Seq(Attribute)
  BY EmptySeq DEF Init
<1>2. unallocated = [i \in 1 .. Capacity |-> i - 1]
  BY DEF Init
<1>3. unallocated \in Seq(Ordinals)
  <2>1. \A i \in 1 .. Capacity : i - 1 \in Ordinals
    BY CapacityAssumption DEF Ordinals
  <2>2. unallocated \in [1 .. Capacity -> Ordinals]
    BY <1>2, <2>1
  <2> QED BY <2>2, CapacityAssumption, SeqDef
<1>4. TypeOK
  <2>1. allocations \in [Ordinals -> 0 .. Len(attributes)]
    BY <1>1 DEF Init
  <2>2. seq_at \in [Ordinals -> Nat] /\ sequence_number \in Nat
    BY DEF Init
  <2>3. deleted \in BOOLEAN /\ tickets \subseteq Ticket /\ outdated \subseteq tickets
    BY DEF Init
  <2> QED BY <1>1, <1>3, <2>1, <2>2, <2>3 DEF TypeOK
<1>5. FreeListExact
  <2>1. \A i, j \in DOMAIN unallocated : unallocated[i] = unallocated[j] => i = j
    BY <1>2, CapacityAssumption
  <2>2. \A o \in Ordinals : o + 1 \in 1 .. Capacity /\ unallocated[o + 1] = o
    BY <1>2, CapacityAssumption DEF Ordinals
  <2>3. \A i \in DOMAIN unallocated : unallocated[i] \in Ordinals
    BY <1>3, ElementOfSeq, LenProperties
  <2>4. \A o \in Ordinals : allocations[o] = 0
    BY DEF Init
  <2>5. {unallocated[i] : i \in DOMAIN unallocated} = Ordinals
    BY <1>2, <2>2, <2>3
  <2> QED BY <2>1, <2>4, <2>5 DEF FreeListExact
<1>6. SeqRecordsExact /\ AttributesDistinct /\ TicketsDated /\ OutdatedTicketsRejected
  BY <1>1 DEF Init, SeqRecordsExact, AttributesDistinct, TicketsDated,
              OutdatedTicketsRejected
<1> QED BY <1>4, <1>5, <1>6 DEF BlockInv

LEMMA NextInv == BlockInv /\ [Next]_vars => BlockInv'
<1> SUFFICES ASSUME BlockInv, [Next]_vars PROVE BlockInv'
  OBVIOUS
<1>1. ASSUME NEW count \in 0 .. Capacity, NEW a \in Attribute,
             NEW skip \in SUBSET Ordinals, AutoAssign(count, a, skip)
      PROVE  BlockInv'
  BY <1>1, AutoAssignInv
<1>2. ASSUME NEW o \in Ordinals, NEW a \in Attribute, Assign(o, a)
      PROVE  BlockInv'
  BY <1>2, AssignInv
<1>3. ASSUME NEW o \in Ordinals, Release(o)
      PROVE  BlockInv'
  BY <1>3, ReleaseInv DEF Release
<1>4. ASSUME NEW o \in Ordinals, Scan(o)
      PROVE  BlockInv'
  BY <1>4, ScanInv
<1>5. ASSUME NEW t \in tickets, GuardedRelease(t)
      PROVE  BlockInv'
  <2>1. t.ord \in Ordinals
    BY DEF BlockInv, TypeOK, Ticket
  <2> QED BY <1>5, <2>1, ReleaseInv DEF GuardedRelease
<1>6. ASSUME NEW h \in Handles, ReleaseByHandle(h)
      PROVE  BlockInv'
  BY <1>6, ReleaseByHandleInv
<1>7. CASE MarkDeleted
  BY <1>7, MarkDeletedInv
<1>8. CASE UNCHANGED vars
  BY <1>8 DEF vars, blockVars, BlockInv, TypeOK, FreeListExact,
              SeqRecordsExact, AttributesDistinct, TicketsDated,
              OutdatedTicketsRejected
<1> QED BY <1>1, <1>2, <1>3, <1>4, <1>5, <1>6, <1>7, <1>8 DEF Next

(* The strengthened invariant holds of every behaviour of a block.         *)
THEOREM BlockInvariant == Spec => []BlockInv
BY InitInv, NextInv, PTL DEF Spec

(* Type correctness: through every interning and compaction, allocations   *)
(* refer to entries of the attribute table (block.rs expects the index to  *)
(* be in range when it reads a handle).                                    *)
THEOREM TypeCorrect == Spec => []TypeOK
<1>1. BlockInv => TypeOK
  BY DEF BlockInv
<1> QED BY <1>1, BlockInvariant, PTL

(* auto_assign, assign and the releases keep the free list exact.          *)
THEOREM FreeListIsExact == Spec => []FreeListExact
<1>1. BlockInv => FreeListExact
  BY DEF BlockInv
<1> QED BY <1>1, BlockInvariant, PTL

(* The sequence records follow the allocations and never collide.          *)
THEOREM SeqRecordsAreExact == Spec => []SeqRecordsExact
<1>1. BlockInv => SeqRecordsExact
  BY DEF BlockInv
<1> QED BY <1>1, BlockInvariant, PTL

(* intern_attribute and compact_attributes keep the table duplicate-free.  *)
THEOREM AttributesAreDistinct == Spec => []AttributesDistinct
<1>1. BlockInv => AttributesDistinct
  BY DEF BlockInv
<1> QED BY <1>1, BlockInvariant, PTL

(* The guard of release(ip, Some(seq)) refuses every ticket taken before   *)
(* its address was freed, however often the address is handed out again.   *)
THEOREM StaleGuardsAreRefused == Spec => []OutdatedTicketsRejected
<1>1. BlockInv => OutdatedTicketsRejected
  BY DEF BlockInv
<1> QED BY <1>1, BlockInvariant, PTL

-----------------------------------------------------------------------------
(* Interning only extends the table, and an allocation changes only what   *)
(* was free: every attribution stands.                                     *)
LEMMA CommitKeepsOwners ==
    ASSUME BlockInv, NEW T \in SUBSET DOMAIN unallocated, NEW a \in Attribute,
           Commit(T, a), NEW o \in Ordinals, allocations[o] # 0
    PROVE  attributes'[allocations'[o]] = attributes[allocations[o]]
<1>1. TypeOK /\ AttributesDistinct
  BY DEF BlockInv
<1>2. \A i \in 1 .. Len(attributes) : Interned(a)[i] = attributes[i]
  BY <1>1, InternedProps
<1>3. allocations[o] \in 1 .. Len(attributes)
  <2>1. Len(attributes) \in Nat
    BY <1>1, LenProperties DEF TypeOK
  <2> QED BY <1>1, <2>1 DEF TypeOK
<1>4. \A i \in T : unallocated[i] # o
  <2>1. Elems(unallocated) = Unused
    BY FreeListForm DEF BlockInv
  <2> QED BY <2>1 DEF Elems, Unused
<1>5. attributes' = Interned(a) /\ allocations'[o] = allocations[o]
  BY <1>4 DEF Commit
<1> QED BY <1>2, <1>3, <1>5

LEMMA StepKeepsOwners ==
    ASSUME BlockInv, Next, NEW o \in Ordinals,
           allocations[o] # 0, allocations'[o] # 0
    PROVE  attributes'[allocations'[o]] = attributes[allocations[o]]
<1>1. ASSUME NEW count \in 0 .. Capacity, NEW a \in Attribute,
             NEW skip \in SUBSET Ordinals, AutoAssign(count, a, skip)
      PROVE  attributes'[allocations'[o]] = attributes[allocations[o]]
  <2>1. Taken(count, skip) \in SUBSET DOMAIN unallocated
    BY DEF Taken, Eligible
  <2> QED BY <1>1, <2>1, CommitKeepsOwners DEF AutoAssign
<1>2. ASSUME NEW p \in Ordinals, NEW a \in Attribute, Assign(p, a)
      PROVE  attributes'[allocations'[o]] = attributes[allocations[o]]
  <2> DEFINE here == {i \in DOMAIN unallocated : unallocated[i] = p}
  <2>1. here \in SUBSET DOMAIN unallocated /\ Commit(here, a)
    BY <1>2 DEF Assign
  <2> HIDE DEF here
  <2> QED BY <2>1, CommitKeepsOwners
<1>3. ASSUME NEW p \in Ordinals, allocations' = [allocations EXCEPT ![p] = 0],
             UNCHANGED attributes
      PROVE  attributes'[allocations'[o]] = attributes[allocations[o]]
  BY <1>3 DEF BlockInv, TypeOK
<1>4. ASSUME NEW h \in Handles, ReleaseByHandle(h)
      PROVE  attributes'[allocations'[o]] = attributes[allocations[o]]
  <2> DEFINE freed == OrdinalsOf(h)
             al == [q \in Ordinals |-> IF q \in freed THEN 0 ELSE allocations[q]]
  <2>1. allocations' = Reindexed(al) /\ attributes' = Compacted(al)
    BY <1>4 DEF ReleaseByHandle
  <2>2. attributes \in Seq(Attribute) /\ AttributesDistinct
    BY DEF BlockInv, TypeOK
  <2>3. al \in [Ordinals -> 0 .. Len(attributes)]
    <3>1. Len(attributes) \in Nat
      BY <2>2, LenProperties
    <3> QED BY <3>1 DEF BlockInv, TypeOK
  <2>4. al[o] = 0 \/ al[o] = allocations[o]
    OBVIOUS
  <2> HIDE DEF al
  <2>5. /\ Reindexed(al)[o] = 0 <=> al[o] = 0
        /\ al[o] # 0 => Compacted(al)[Reindexed(al)[o]] = attributes[al[o]]
    BY <2>2, <2>3, CompactProps
  <2> QED BY <2>1, <2>4, <2>5
<1>5. ASSUME UNCHANGED <<allocations, attributes>>
      PROVE  attributes'[allocations'[o]] = attributes[allocations[o]]
  BY <1>5
<1>6. ASSUME NEW t \in tickets, GuardedRelease(t)
      PROVE  attributes'[allocations'[o]] = attributes[allocations[o]]
  <2>1. t.ord \in Ordinals
    BY DEF BlockInv, TypeOK, Ticket
  <2> QED BY <1>3, <1>6, <2>1 DEF GuardedRelease
<1> QED BY <1>1, <1>2, <1>3, <1>4, <1>5, <1>6
        DEF Next, Release, Scan, MarkDeleted, blockVars

(* No operation of block.rs re-attributes an address that stays allocated. *)
THEOREM OwnersAreUndisturbed == Spec => OwnersUndisturbed
<1>1. BlockInv /\ [Next]_vars =>
        [\A o \in Ordinals :
            allocations[o] # 0 /\ allocations'[o] # 0
               => attributes'[allocations'[o]] = attributes[allocations[o]]]_vars
  BY StepKeepsOwners
<1> QED BY <1>1, BlockInvariant, PTL DEF Spec, OwnersUndisturbed

-----------------------------------------------------------------------------
(* The block as a lease: who holds an ordinal after each kind of change.   *)
Holder == [o \in Ordinals |-> HandleOf(o)]

LEMMA CommitGrants ==
    ASSUME BlockInv, NEW T \in SUBSET DOMAIN unallocated, NEW a \in Attribute,
           Commit(T, a)
    PROVE  Lease!Next
<1> DEFINE got == {unallocated[i] : i \in T}
<1>1. TypeOK /\ AttributesDistinct
  BY DEF BlockInv
<1>2. /\ IndexOf(a) \in 1 .. Len(Interned(a))
      /\ Interned(a)[IndexOf(a)] = a
  BY <1>1, InternedProps
<1>3. got \in SUBSET Ordinals /\ \A o \in got : allocations[o] = 0
  <2>1. Elems(unallocated) = Unused
    BY FreeListForm DEF BlockInv
  <2>2. got \in SUBSET Unused
    BY <2>1 DEF Elems
  <2> QED BY <2>2 DEF Unused
<1>4. /\ attributes' = Interned(a)
      /\ allocations' = [o \in Ordinals |->
            IF o \in got THEN IndexOf(a) ELSE allocations[o]]
  BY DEF Commit
<1>5. ASSUME NEW o \in Ordinals
      PROVE  HandleOf(o)' = IF o \in got THEN a.handle_id ELSE HandleOf(o)
  <2>1. CASE o \in got
    BY <2>1, <1>2, <1>4 DEF HandleOf
  <2>2. CASE o \notin got /\ allocations[o] = 0
    BY <2>2, <1>4 DEF HandleOf
  <2>3. CASE o \notin got /\ allocations[o] # 0
    <3>1. attributes'[allocations'[o]] = attributes[allocations[o]]
      BY <2>3, CommitKeepsOwners
    <3> QED BY <2>3, <3>1, <1>4 DEF HandleOf
  <2> QED BY <2>1, <2>2, <2>3
<1>6. \A o \in got : HandleOf(o) = Free
  BY <1>3 DEF HandleOf
<1>7. a.handle_id \in Handles
  BY DEF Attribute
<1> HIDE DEF got
<1>8. Lease!Grant(got, a.handle_id)
  BY <1>3, <1>5, <1>6 DEF Lease!Grant
<1> QED BY <1>3, <1>7, <1>8 DEF Lease!Next

(* Freeing the ordinals F of one handle, every other attribution standing. *)
LEMMA FreeRevokes ==
    ASSUME BlockInv, NEW h \in Handles, NEW F \in SUBSET Ordinals,
           \A o \in F : HandleOf(o) = h /\ allocations'[o] = 0,
           \A o \in Ordinals \ F : allocations'[o] = 0 <=> allocations[o] = 0,
           \A o \in Ordinals : allocations[o] # 0 /\ allocations'[o] # 0 =>
              attributes'[allocations'[o]] = attributes[allocations[o]]
    PROVE  Lease!Next
<1>1. \A o \in Ordinals :
         HandleOf(o)' = IF o \in F THEN Free ELSE HandleOf(o)
  BY DEF HandleOf
<1>2. Lease!Revoke(F, h)
  BY <1>1 DEF Lease!Revoke
<1> QED BY <1>2 DEF Lease!Next

LEMMA ReleaseRevokes ==
    ASSUME BlockInv, Next, NEW o \in Ordinals, allocations[o] # 0,
           allocations' = [allocations EXCEPT ![o] = 0]
    PROVE  Lease!Next
<1>1. allocations \in [Ordinals -> 0 .. Len(attributes)]
      /\ attributes \in Seq(Attribute) /\ Len(attributes) \in Nat
  BY LenProperties DEF BlockInv, TypeOK
<1>2. HandleOf(o) \in Handles
  <2>1. allocations[o] \in 1 .. Len(attributes)
    BY <1>1
  <2>2. attributes[allocations[o]] \in Attribute
    BY <2>1, <1>1, ElementOfSeq
  <2> QED BY <2>2 DEF HandleOf, Attribute
<1>3. /\ \A p \in {o} : HandleOf(p) = HandleOf(o) /\ allocations'[p] = 0
      /\ \A p \in Ordinals \ {o} : allocations'[p] = 0 <=> allocations[p] = 0
  BY <1>1
<1>4. \A p \in Ordinals : allocations[p] # 0 /\ allocations'[p] # 0 =>
         attributes'[allocations'[p]] = attributes[allocations[p]]
  BY StepKeepsOwners
<1> QED BY <1>2, <1>3, <1>4, FreeRevokes

LEMMA ReleaseByHandleRevokes ==
    ASSUME BlockInv, NEW h \in Handles, ReleaseByHandle(h)
    PROVE  Lease!Next
<1> DEFINE freed == OrdinalsOf(h)
           al == [o \in Ordinals |-> IF o \in freed THEN 0 ELSE allocations[o]]
<1>1. allocations' = Reindexed(al)
  BY DEF ReleaseByHandle
<1>2. /\ attributes \in Seq(Attribute) /\ Len(attributes) \in Nat
      /\ AttributesDistinct
  BY LenProperties DEF BlockInv, TypeOK
<1>3. al \in [Ordinals -> 0 .. Len(attributes)]
  BY <1>2 DEF BlockInv, TypeOK
<1>4. \A o \in Ordinals : allocations'[o] = 0 <=> al[o] = 0
  <2> HIDE DEF al
  <2> QED BY <1>1, <1>2, <1>3, CompactProps
<1>5. /\ \A o \in freed : HandleOf(o) = h /\ allocations'[o] = 0
      /\ \A o \in Ordinals \ freed : allocations'[o] = 0 <=> allocations[o] = 0
  BY <1>4 DEF OrdinalsOf
<1>6. \A o \in Ordinals : allocations[o] # 0 /\ allocations'[o] # 0 =>
         attributes'[allocations'[o]] = attributes[allocations[o]]
  BY StepKeepsOwners DEF Next
<1>7. freed \in SUBSET Ordinals
  BY DEF OrdinalsOf
<1> HIDE DEF freed
<1> QED BY <1>5, <1>6, <1>7, FreeRevokes

LEMMA StepRefines == BlockInv /\ [Next]_vars => Lease!Next \/ UNCHANGED Holder
<1> SUFFICES ASSUME BlockInv, [Next]_vars
             PROVE  Lease!Next \/ UNCHANGED Holder
  OBVIOUS
<1>1. ASSUME NEW count \in 0 .. Capacity, NEW a \in Attribute,
             NEW skip \in SUBSET Ordinals, AutoAssign(count, a, skip)
      PROVE  Lease!Next
  <2>1. Taken(count, skip) \in SUBSET DOMAIN unallocated
    BY DEF Taken, Eligible
  <2> QED BY <1>1, <2>1, CommitGrants DEF AutoAssign
<1>2. ASSUME NEW o \in Ordinals, NEW a \in Attribute, Assign(o, a)
      PROVE  Lease!Next
  <2> DEFINE here == {i \in DOMAIN unallocated : unallocated[i] = o}
  <2>1. here \in SUBSET DOMAIN unallocated /\ Commit(here, a)
    BY <1>2 DEF Assign
  <2> HIDE DEF here
  <2> QED BY <2>1, CommitGrants
<1>3. ASSUME NEW o \in Ordinals, Release(o)
      PROVE  Lease!Next
  BY <1>3, ReleaseRevokes DEF Release, Next
<1>4. ASSUME NEW t \in tickets, GuardedRelease(t)
      PROVE  Lease!Next
  <2>1. t.ord \in Ordinals
    BY DEF BlockInv, TypeOK, Ticket
  <2> QED BY <1>4, <2>1, ReleaseRevokes DEF GuardedRelease, Next
<1>5. ASSUME NEW h \in Handles, ReleaseByHandle(h)
      PROVE  Lease!Next
  BY <1>5, ReleaseByHandleRevokes
<1>6. ASSUME UNCHANGED <<allocations, attributes>>
      PROVE  UNCHANGED Holder
  BY <1>6 DEF Holder, HandleOf
<1> QED BY <1>1, <1>2, <1>3, <1>4, <1>5, <1>6
        DEF Next, Scan, MarkDeleted, vars, blockVars

(* A block keeps the lease promise: it grants only free addresses, to one  *)
(* handle, and every release frees addresses of one handle only.           *)
THEOREM BlockImplementsLease == Spec => LeaseSpec
<1>1. Init => Lease!Init
  BY DEF Init, Lease!Init, HandleOf
<1>2. BlockInv /\ [Next]_vars => [Lease!Next]_Holder
  BY StepRefines
<1> QED BY <1>1, <1>2, BlockInvariant, PTL DEF Spec, LeaseSpec, Lease!Spec, Holder

-----------------------------------------------------------------------------
(* What a release frees comes after everything that was free before.       *)
LEMMA PushedLast ==
    ASSUME BlockInv, NEW F \in SUBSET Ordinals,
           unallocated' = unallocated \o Ascending(F),
           \A o \in F : allocations[o] # 0,
           NEW i \in DOMAIN unallocated', NEW j \in DOMAIN unallocated',
           allocations[unallocated'[i]] = 0, allocations[unallocated'[j]] # 0
    PROVE  i < j
<1> DEFINE m == Len(unallocated)
           n == Len(Ascending(F))
<1>1. /\ unallocated \in Seq(Ordinals)
      /\ \A k \in DOMAIN unallocated : allocations[unallocated[k]] = 0
  BY DEF BlockInv, TypeOK, FreeListExact
<1>2. /\ Ascending(F) \in Seq(Ordinals)
      /\ \A k \in DOMAIN Ascending(F) : Ascending(F)[k] \in F
  BY AscendingNoDup DEF Elems
<1>3. /\ m \in Nat /\ n \in Nat
      /\ DOMAIN unallocated = 1 .. m /\ DOMAIN Ascending(F) = 1 .. n
  BY <1>1, <1>2, LenProperties
<1>4. /\ DOMAIN unallocated' = 1 .. m + n
      /\ \A k \in 1 .. m + n :
            unallocated'[k] = IF k <= m THEN unallocated[k]
                              ELSE Ascending(F)[k - m]
  BY <1>1, <1>2, ConcatProperties, LenProperties
<1> HIDE DEF m, n
<1>5. i \in 1 .. m + n /\ j \in 1 .. m + n
  BY <1>4
<1>6. i <= m
  <2>1. ASSUME ~(i <= m) PROVE FALSE
    <3>1. i - m \in 1 .. n
      BY <1>3, <1>5, <2>1
    <3> QED BY <1>2, <1>3, <1>4, <1>5, <2>1, <3>1
  <2> QED BY <2>1
<1>7. ~(j <= m)
  <2>1. ASSUME j <= m PROVE FALSE
    <3>1. j \in 1 .. m
      BY <1>3, <1>5, <2>1
    <3> QED BY <1>1, <1>3, <1>4, <1>5, <2>1, <3>1
  <2> QED BY <2>1
<1> QED BY <1>3, <1>5, <1>6, <1>7

LEMMA StepFreedLast ==
    ASSUME BlockInv, Next,
           NEW i \in DOMAIN unallocated', NEW j \in DOMAIN unallocated',
           allocations[unallocated'[i]] = 0, allocations[unallocated'[j]] # 0
    PROVE  i < j
<1>1. \A o \in Elems(unallocated) : allocations[o] = 0
  BY FreeListForm DEF BlockInv, Unused
<1>2. unallocated'[j] \notin Elems(unallocated)
  BY <1>1
<1>3. ASSUME NEW count \in 0 .. Capacity, NEW a \in Attribute,
             NEW skip \in SUBSET Ordinals, AutoAssign(count, a, skip)
      PROVE  i < j
  <2>1. count \in Nat
    BY CapacityAssumption
  <2>2. \A o : o \in Elems(Remaining(count, skip)) => o \in Elems(unallocated)
    BY <2>1, RemainingProps
  <2>3. unallocated' = Remaining(count, skip)
    BY <1>3 DEF AutoAssign
  <2> QED BY <1>2, <2>2, <2>3 DEF Elems
<1>4. ASSUME NEW o \in Ordinals, NEW a \in Attribute, Assign(o, a)
      PROVE  i < j
  <2> DEFINE K == DOMAIN unallocated \ {k \in DOMAIN unallocated : unallocated[k] = o}
  <2>1. unallocated' = At(unallocated, K) /\ K \in SUBSET DOMAIN unallocated
    BY <1>4 DEF Assign
  <2>2. unallocated \in Seq(Ordinals)
    BY DEF BlockInv, TypeOK
  <2> HIDE DEF K
  <2>3. unallocated'[j] \in Elems(unallocated)
    <3>1. /\ Ascending(K)[j] \in K
          /\ unallocated'[j] = unallocated[Ascending(K)[j]]
      BY <2>1, <2>2, AtElements
    <3> QED BY <2>1, <3>1 DEF Elems
  <2> QED BY <1>2, <2>3
<1>5. ASSUME NEW F \in SUBSET Ordinals, \A o \in F : allocations[o] # 0,
             FreeOrdinals(F)
      PROVE  i < j
  BY <1>5, PushedLast DEF FreeOrdinals, Pushed
<1>6. ASSUME NEW o \in Ordinals, Release(o)
      PROVE  i < j
  <2>1. FreeOrdinals({o}) /\ \A p \in {o} : allocations[p] # 0
    BY <1>6 DEF Release
  <2> QED BY <2>1, <1>5
<1>7. ASSUME NEW t \in tickets, GuardedRelease(t)
      PROVE  i < j
  <2>1. FreeOrdinals({t.ord}) /\ \A p \in {t.ord} : allocations[p] # 0
    BY <1>7 DEF GuardedRelease
  <2>2. t.ord \in Ordinals
    BY DEF BlockInv, TypeOK, Ticket
  <2> QED BY <2>1, <2>2, <1>5
<1>8. ASSUME NEW h \in Handles, ReleaseByHandle(h)
      PROVE  i < j
  <2>1. FreeOrdinals(OrdinalsOf(h))
    BY <1>8 DEF ReleaseByHandle
  <2>2. /\ OrdinalsOf(h) \in SUBSET Ordinals
        /\ \A o \in OrdinalsOf(h) : allocations[o] # 0
    BY FreeAssumption DEF OrdinalsOf, HandleOf
  <2> QED BY <2>1, <2>2, <1>5
<1>9. ASSUME UNCHANGED unallocated
      PROVE  i < j
  BY <1>2, <1>9 DEF Elems
<1> QED BY <1>3, <1>4, <1>6, <1>7, <1>8, <1>9
        DEF Next, Scan, MarkDeleted, blockVars

(* First in, first out: an address just freed is reused after every other  *)
(* free address.                                                           *)
THEOREM FreedIsReusedLast == Spec => FreedGoesLast
<1>1. BlockInv /\ [Next]_vars =>
        [\A i, j \in DOMAIN unallocated' :
            /\ allocations[unallocated'[i]] = 0
            /\ allocations[unallocated'[j]] # 0
            => i < j]_vars
  BY StepFreedLast
<1> QED BY <1>1, BlockInvariant, PTL DEF Spec, FreedGoesLast

=============================================================================
