------------------------------ MODULE CasStore ------------------------------
(***************************************************************************)
(* The compare-and-swap contract every mutation of the datastore goes      *)
(* through (crates/datastore/src/cas.rs) and its reference implementation  *)
(* MemStore (mem.rs), which the Kubernetes API server of KddStore shares.  *)
(* A refused call (NotFound, AlreadyExists, Conflict) changes nothing, so  *)
(* only the calls that succeed are operators here.                         *)
(***************************************************************************)
EXTENDS Integers

CONSTANTS
    Keys,    \* names of objects
    Values,  \* what is stored under them
    Preset,  \* what is there before the behaviour starts
    Absent   \* no object

ASSUME AbsentAssumption == Absent \notin [value : Values, revision : Nat]
ASSUME PresetAssumption ==
    /\ Absent \notin Values
    /\ Preset \in [Keys -> Values \cup {Absent}]

VARIABLES
    entries,        \* [Keys -> Versioned or Absent]
    next_revision   \* one counter for all keys: a revision names one write

casVars == <<entries, next_revision>>

Versioned == [value : Values, revision : Nat]

CasInit ==
    /\ entries = [k \in Keys |-> IF Preset[k] = Absent THEN Absent
                                 ELSE [value |-> Preset[k], revision |-> 1]]
    /\ next_revision = 2

Stamped(v) == [value |-> v, revision |-> next_revision]

Bump(k, v) ==
    /\ entries' = [entries EXCEPT ![k] = Stamped(v)]
    /\ next_revision' = next_revision + 1

Create(k, v) ==
    /\ entries[k] = Absent
    /\ Bump(k, v)

AnyRevision(k, r) == entries[k] # Absent  \* mutant: no compare

Current(k, r) == entries[k] # Absent /\ entries[k].revision = r

Update(k, v, r) ==
    /\ Current(k, r)
    /\ Bump(k, v)

Delete(k, r) ==
    /\ Current(k, r)
    /\ entries' = [entries EXCEPT ![k] = Absent]
    /\ UNCHANGED next_revision

=============================================================================
