------------------------------ MODULE Operator ------------------------------
(***************************************************************************)
(* The manager runs both controllers, each with a worker of its own, over  *)
(* the same nodes and pods.  Of a node they share spec.unschedulable: each *)
(* keeps its own cordoned-by annotation, and each its own skip label, so a *)
(* node is the firmware side's record and the driver side's, which agree   *)
(* on unsched.                                                             *)
(***************************************************************************)
EXTENDS FirmwarePolicy

CONSTANTS
  Policy, KmdVersions,   \* the driver policy, the versions of tt-kmd
  DriverSpecs, DriverEdits, DriverMaxGen

VARIABLES
  dSpec, dGen, dLive, dStatus, ds, dsStat, dNode, bp, loaded, dFaults,
  dPc, dRspec, dRgen, desired, rstat, rmatched, rnodes, dSnap, dTodo, dTarget

driverVars == <<dSpec, dGen, dLive, dStatus, ds, dsStat, bp, loaded, dFaults, dPc,
                dRspec, dRgen, desired, rstat, rmatched, rnodes, dSnap, dTodo, dTarget>>
opVars == <<vars, dNode, driverVars>>

\* The driver side's view of the pods: each uses the device it mounts.
DriverPods ==
  [p \in Pods |-> [node |-> PodSpec[p].node, operatorNs |-> PodSpec[p].operatorNs,
                   device |-> PodSpec[p].device, owner |-> PodSpec[p].owner,
                   tolerates |-> PodSpec[p].tolerates, guarded |-> PodSpec[p].guarded,
                   holds |-> PodSpec[p].device, gated |-> FALSE,
                   emptyDir |-> FALSE, selected |-> FALSE]]

D == INSTANCE DriverPolicy WITH
  Cr <- Policy, Versions <- KmdVersions, Matched <- Nodes, Host <- {},
  Specs <- DriverSpecs, Edits <- DriverEdits, MaxGen <- DriverMaxGen,
  Orders <- {0}, Env <- {}, MaxFaults <- 0, PodSpec <- DriverPods,
  spec <- dSpec, gen <- dGen, live <- dLive, status <- dStatus, node <- dNode,
  faults <- dFaults, pc <- dPc, rspec <- dRspec, rgen <- dRgen,
  snap <- dSnap, todo <- dTodo, target <- dTarget

\* The driver is installed when the firmware policies are created.
OpInit == Init /\ D!Settled

\* A step of the firmware side, or of the cluster both live in.
FirmwareStep ==
  /\ Next
  /\ dNode' = [n \in Nodes |-> [dNode[n] EXCEPT !.unsched = node'[n].unsched]]
  /\ UNCHANGED driverVars

\* A flash Job on the node holds the device open.
Flashing(n) == \E c \in Crs, v \in Versions : job[<<c, n, v>>] = "running"

\* A step of the driver controller, its DaemonSet or a builder pod.  No rmmod
\* succeeds under a flash.
DriverStep ==
  /\ D!Reconcile \/ D!Cluster \/ D!EditSpec
  /\ \A n \in Nodes : Flashing(n) => loaded'[n] = loaded[n]
  /\ node' = [n \in Nodes |-> [node[n] EXCEPT !.unsched = dNode'[n].unsched]]
  /\ UNCHANGED <<crVars, status, job, cacheVars, chip, localVars>>

OpNext == FirmwareStep \/ DriverStep
OpSpec == OpInit /\ [][OpNext]_opVars

-----------------------------------------------------------------------------
\* What labels.go says the two annotations are for ("so the two controllers don't
\* accidentally uncordon each other's cordons"): a node that either controller has
\* marked as cordoned stays cordoned.
CordonsApart ==
  \A n \in Nodes : node[n].by # None \/ dNode[n].by # None => node[n].unsched
=============================================================================
