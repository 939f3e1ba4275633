-------------------------- MODULE MCFirmwarePolicy --------------------------
(***************************************************************************)
(* Instances of FirmwarePolicy for TLC.                                    *)
(***************************************************************************)
EXTENDS FirmwarePolicy, TLC

CONSTANTS n1, n2, n3, c1, c2, p1, p2

Active(v) == [version |-> v, paused |-> FALSE, auto |-> TRUE, halt |-> TRUE,
              drain |-> TRUE, force |-> FALSE]

\* Specs of the instances: with a drain and without, one upgrade, and every
\* position of the switches a user may flip during a rollout.
DrainV1 == {Active(1)}
DrainUpgrade == {Active(1), Active(2)}
DrainOrNot == {Active(1), [Active(1) EXCEPT !.drain = FALSE]}
PlainV1 == {[Active(1) EXCEPT !.drain = FALSE]}
Switches == {Active(1), [Active(1) EXCEPT !.paused = TRUE],
             [Active(1) EXCEPT !.drain = FALSE], [Active(1) EXCEPT !.auto = FALSE]}

NoEdits == {}
\* Any edit, and the edits that never return to an earlier version.
AnyEdits == {<<s, t>> \in Specs \X Specs : s # t}
ForwardEdits == {<<s, t>> \in Specs \X Specs : s # t /\ s.version <= t.version}

SelectAll == [c \in Crs |-> Nodes]
OneAtATime == [c \in Crs |-> 1]
DefaultParallel == [c \in Crs |-> 0]

Workload(n) == [node |-> n, operatorNs |-> FALSE, device |-> TRUE,
                owner |-> "ReplicaSet", tolerates |-> FALSE, guarded |-> TRUE]
\* One workload pod, with and without a disruption budget, and beside it a bare
\* pod, which a drain without force leaves alone.
GuardedPod == p1 :> Workload(n1)
GuardedAndBare == GuardedPod @@
  (p2 :> [Workload(n1) EXCEPT !.owner = "none", !.guarded = FALSE])
OnePod == p1 :> [Workload(n1) EXCEPT !.guarded = FALSE]
NoPods == <<>>

CrSymmetry == Permutations(Crs)
NodeSymmetry == Permutations(Nodes)

\* No step reads status or chip, so states that differ only in those behave
\* alike: the view of the runs whose properties do not mention them.
ControlView == <<crVars, node, job, pod, cacheVars, localVars>>

\* The same with what ReadyIsTrue asks of status and chip.
ReadyView ==
  <<crVars, [c \in Crs |-> IF status[c].ready # "AllUpToDate" THEN <<>>
                           ELSE <<status[c].version,
                                  {n \in Nodes : status[c].nodes[n].state = "Done"}>>],
    node, job, pod, cacheVars, chip, localVars>>
=============================================================================
