--------------------------- MODULE MCDriverPolicy ---------------------------
(***************************************************************************)
(* Instances of DriverPolicy for TLC.                                      *)
(***************************************************************************)
EXTENDS DriverPolicy, TLC

CONSTANTS n1, n2, p1, p2

Active(v) == [version |-> v, paused |-> FALSE, drain |-> TRUE, fullNode |-> TRUE,
              force |-> FALSE, deleteEmptyDir |-> TRUE, podSelectorLabel |-> "",
              forceUnload |-> FALSE]
Undrained(v) == [Active(v) EXCEPT !.drain = FALSE]
Upgrade == {Active(1), Active(2)}
Paused(v) == [Active(v) EXCEPT !.paused = TRUE]
UpgradeSpecs == Upgrade \cup {Undrained(2), Paused(1)}
InstallSpecs == Upgrade \cup {Paused(2)}
OneVersion == {Active(1)}
NoEdits == {}
\* The edits of an upgrade that is paused first, or whose drain is switched off, before
\* a reconcile has seen it or in the middle.
UpgradeEdits == {<<Active(1), Paused(1)>>, <<Paused(1), Active(2)>>,
                 <<Active(1), Active(2)>>, <<Active(2), Undrained(2)>>}
\* An upgrade, at once or asked for while paused and then let go.
InstallEdits == {<<Active(1), Active(2)>>, <<Active(1), Paused(2)>>,
                 <<Paused(2), Active(2)>>}

\* A privileged workload that uses the device without declaring it, and a telemetry
\* DaemonSet pod behind a deploy gate.
Privileged == [node |-> n1, operatorNs |-> FALSE, device |-> FALSE,
               owner |-> "ReplicaSet", tolerates |-> FALSE, guarded |-> FALSE,
               holds |-> TRUE, gated |-> FALSE, emptyDir |-> FALSE, selected |-> FALSE]
Telemetry == [Privileged EXCEPT !.device = TRUE, !.owner = "DaemonSet",
                                !.tolerates = TRUE, !.gated = TRUE]
WorkloadAndTelemetry == p1 :> Privileged @@ p2 :> Telemetry
NoPods == <<>>

\* Policies and hosts start at version 1; a first install of version 2 is one of
\* version 1 that is edited before its first reconcile.
InitAtVersionOne == Init /\ spec = Active(1) /\ \A n \in Host : loaded[n] = 1
FromVersionOne == InitAtVersionOne /\ [][Next]_vars /\ Fairness

\* A first install of version 2, or version 1 rolled out and upgraded.
InitInstallOrUpgrade == Init /\ spec = Active(IF ds = None THEN 2 ELSE 1)
InstallOrUpgrade == InitInstallOrUpgrade /\ [][Next]_vars /\ Fairness
=============================================================================
