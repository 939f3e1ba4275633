----------------------------- MODULE MCOperator -----------------------------
(***************************************************************************)
(* An instance of Operator for TLC.                                        *)
(***************************************************************************)
EXTENDS Operator, TLC

CONSTANTS n1, c1, p1

FirmwareSpecs == {[version |-> 1, paused |-> FALSE, auto |-> TRUE, halt |-> TRUE,
                   drain |-> TRUE, force |-> FALSE]}
SelectAll == [c \in Crs |-> Nodes]
OneAtATime == [c \in Crs |-> 1]
Kmd(v) == [version |-> v, paused |-> FALSE, drain |-> TRUE, fullNode |-> TRUE,
           force |-> FALSE, deleteEmptyDir |-> TRUE, podSelectorLabel |-> "",
           forceUnload |-> FALSE]
KmdSpecs == {Kmd(v) : v \in KmdVersions}
KmdUpgrade == {<<Kmd(1), Kmd(2)>>}
OneWorkload == p1 :> [node |-> n1, operatorNs |-> FALSE, device |-> TRUE,
                      owner |-> "ReplicaSet", tolerates |-> FALSE, guarded |-> FALSE]
=============================================================================
