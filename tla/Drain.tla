------------------------------- MODULE Drain -------------------------------
(***************************************************************************)
(* The primitives of internal/drain that both controllers share: cordon    *)
(* and uncordon as merge patches of a node, and the choice of the pods a   *)
(* drain covers.  Pure operators; the state they act on belongs to the     *)
(* modules that extend this one.                                           *)
(***************************************************************************)
CONSTANTS
  None,      \* an absent label or annotation
  Pods,      \* the pods that may ever run on the nodes
  PodSpec    \* the fields of each pod the drain filter reads, and its node

\* The outcomes of CordonElapsed the controllers tell apart: no stamp (or a
\* malformed one, which counts as zero time), within the drain deadline, past it.
Stamps == {None, "fresh", "expired"}

(***************************************************************************)
(* A write is client.Patch(node, MergeFrom(copy)): the fields in which the *)
(* local object differs from the copy taken before it was edited reach the *)
(* server, every other field keeps the server's value, and no resource     *)
(* version is compared.                                                    *)
(***************************************************************************)
MergePatch(server, old, new) ==
  [unsched |-> IF new.unsched # old.unsched THEN new.unsched ELSE server.unsched,
   by      |-> IF new.by      # old.by      THEN new.by      ELSE server.by,
   at      |-> IF new.at      # old.at      THEN new.at      ELSE server.at,
   owner   |-> IF new.owner   # old.owner   THEN new.owner   ELSE server.owner,
   skip    |-> IF new.skip    # old.skip    THEN new.skip    ELSE server.skip,
   fwver   |-> IF new.fwver   # old.fwver   THEN new.fwver   ELSE server.fwver]

\* CordonNode's edit of its local copy of the node.  A node this owner already
\* cordoned is left alone, and an earlier stamp is kept.
CordonNode(local, owner) ==
  IF local.unsched /\ local.by = owner
  THEN local
  ELSE [local EXCEPT !.unsched = TRUE,
                     !.by = owner,
                     !.at = IF @ = None THEN "fresh" ELSE @]

\* UncordonNode's edit of its local copy: only a node this owner cordoned.
UncordonNode(local, owner) ==
  IF local.by # owner
  THEN local
  ELSE [local EXCEPT !.unsched = FALSE, !.by = None, !.at = None]

PodPhases == {"absent", "running", "terminating", "finished"}

\* Mutant: pods that are already terminating count as gone.
RunningDevicePods(phase, n, force) ==
  {p \in Pods : /\ PodSpec[p].node = n
                /\ ~PodSpec[p].operatorNs
                /\ PodSpec[p].device
                /\ phase[p] = "running"
                /\ PodSpec[p].owner # "DaemonSet"
                /\ force \/ PodSpec[p].owner # "none"}

\* The pods of a listing that a drain of node n covers: those the filter picks, in
\* some other namespace than the operator's, not in a terminal phase, not owned by
\* a DaemonSet and, unless forced, not bare.  A pod being deleted is listed until
\* it is gone.
ListPodsOnNode(phase, n, force, filter) ==
  {p \in filter : /\ PodSpec[p].node = n
                  /\ ~PodSpec[p].operatorNs
                  /\ phase[p] \in {"running", "terminating"}
                  /\ PodSpec[p].owner # "DaemonSet"
                  /\ force \/ PodSpec[p].owner # "none"}

\* The canonical filter: the pods that mount /dev/tenstorrent.
PodUsesTenstorrentDevice == {p \in Pods : PodSpec[p].device}
ListDevicePodsOnNode(phase, n, force) ==
  ListPodsOnNode(phase, n, force, PodUsesTenstorrentDevice)

\* EvictPod on each of the pods in evicted: the API server starts their graceful
\* deletion; a pod that is already gone, or going, is a success that changes nothing.
EvictPods(phase, evicted) ==
  [p \in Pods |-> IF p \in evicted /\ phase[p] = "running"
                  THEN "terminating" ELSE phase[p]]
=============================================================================
