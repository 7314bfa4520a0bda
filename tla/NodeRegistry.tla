---------------------------- MODULE NodeRegistry ----------------------------
(***************************************************************************)
(* What InsertSensorData promises about the nodes it registers (the        *)
(* comment on bindNodeToHub in internal/service/garden.go and              *)
(* docs/HUB_PROVISIONING.md): a node is pinned to the first hub that       *)
(* reports it, and from then on only that hub's readings are taken.        *)
(***************************************************************************)

CONSTANTS Hub, Node

VARIABLES pinned,     \* the hub a node is pinned to
          reported    \* the hubs whose readings of the node were taken

registryVars == <<pinned, reported>>

Unpinned == "unpinned"

RegistryInit == /\ pinned = [n \in Node |-> Unpinned]
                /\ reported = [n \in Node |-> {}]

Pin(n, h) == /\ pinned[n] = Unpinned
             /\ pinned' = [pinned EXCEPT ![n] = h]
             /\ UNCHANGED reported

Take(n, h) == /\ pinned[n] = h
              /\ reported' = [reported EXCEPT ![n] = @ \cup {h}]
              /\ UNCHANGED pinned

RegistryNext == \E n \in Node, h \in Hub : Pin(n, h) \/ Take(n, h)

RegistrySpec == RegistryInit /\ [][RegistryNext]_registryVars
=============================================================================
