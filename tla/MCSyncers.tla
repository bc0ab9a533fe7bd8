----------------------------- MODULE MCSyncers ------------------------------
(* Two writers and a syncer of two kinds: a configuration that flattens    *)
(* into several v1 keys, and two pools of which one can take the CIDR of   *)
(* the other. The configuration and one pool are there from the start.     *)
EXTENDS Syncers, TLC

CONSTANT l

PoolA == [kind |-> "IPPool", namespace |-> "", name |-> "a"]
PoolB == [kind |-> "IPPool", namespace |-> "", name |-> "b"]
Config == [kind |-> "FelixConfiguration", namespace |-> "", name |-> "default"]

PoolSpec(cidr) ==
    [cidr |-> cidr, ipip_mode |-> "Always", vxlan_mode |-> "Never",
     nat_outgoing |-> TRUE, disabled |-> FALSE]
ConfigSpec(prefix) == [BPFEnabled |-> "true", InterfacePrefix |-> prefix]

MCKeys == {Config, PoolA, PoolB}
MCKinds == {k.kind : k \in MCKeys}
MCSpecs == {Garbage, PoolSpec("c1"), PoolSpec("c2"), ConfigSpec(""),
            ConfigSpec("cali")}
MCValues == [spec : MCSpecs, labels : SUBSET Labels, deleted : BOOLEAN]

MCPreset == [k \in MCKeys |-> IF k = PoolB THEN Absent
                              ELSE Fresh(IF k = Config THEN ConfigSpec("cali")
                                         ELSE PoolSpec("c1"))]

Job(verb, k, spec) == [verb |-> verb, key |-> k, spec |-> spec, labels |-> {}]
Mark(verb, k) == [verb |-> verb, key |-> k, spec |-> Garbage, labels |-> {l}]
MCWork ==
    {Job("apply", Config, ConfigSpec("")), Job("update", Config, Garbage),
     Job("delete", Config, Garbage),
     Job("apply", PoolA, PoolSpec("c1")), Job("apply", PoolA, PoolSpec("c2")),
     Job("soft_delete", PoolA, Garbage), Job("create", PoolB, PoolSpec("c2")),
     Mark("label", PoolA), Mark("unlabel", PoolA)}

(* Writers are interchangeable. *)
Symmetry == Permutations(Clients)

=============================================================================
