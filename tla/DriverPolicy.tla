---------------------------- MODULE DriverPolicy ----------------------------
(***************************************************************************)
(* The driver controller and what it steers: one TenstorrentDriverPolicy,  *)
(* DriverPolicyReconciler.Reconcile, the DaemonSet it renders and, on each *)
(* node, the builder pod that runs images/driver-build/entrypoint.sh and   *)
(* swaps the tt-kmd kernel module.  Policies have to select disjoint nodes *)
(* (docs/driver.md), so one policy stands for all of them.                 *)
(*                                                                         *)
(* A reconcile is Start; then Create, or for a changed template Cordon,    *)
(* FlipGates and Evict per node and UpdateDs; then PopulateNodeStatuses,   *)
(* Publish, CleanLabel per node, ListReady, and Uncordon and RemoveGates   *)
(* per node.  A local is cleared once the code no longer reads it.         *)
(***************************************************************************)
EXTENDS Drain, Integers, FiniteSets

CONSTANTS
  Nodes, Cr, Versions,
  Matched,     \* the nodes the policy's affinity and the NFD label admit
  Host,        \* the nodes whose host has a DKMS install of its own
  Specs,       \* the specs a user may write
  Edits,       \* the pairs <<old, new>> of specs a user may go through
  MaxGen,      \* bound: edits of the spec
  Orders,      \* the orders in which a range over spec's matchLabels may come out
  Env,         \* the failures and outside interventions that may happen
  MaxFaults    \* bound: failures and interventions in one behaviour

EnvKinds == {"cordon", "gate", "evict", "dswrite", "status", "clean", "uncordon",
             "ungate", "crash", "build", "badtag", "label", "pull",
             "skip", "human", "delete", "recreate"}
SpecRec == [version : Versions, paused : BOOLEAN, drain : BOOLEAN,
            fullNode : BOOLEAN, force : BOOLEAN, deleteEmptyDir : BOOLEAN,
            podSelectorLabel : {"", "label", "malformed"}, forceUnload : BOOLEAN]
PodSpecRec == [node : Nodes, operatorNs : BOOLEAN, device : BOOLEAN,
               owner : {"none", "DaemonSet", "ReplicaSet"},
               tolerates : BOOLEAN, guarded : BOOLEAN, holds : BOOLEAN,
               gated : BOOLEAN, emptyDir : BOOLEAN, selected : BOOLEAN]
Template == [version : Versions, forceUnload : BOOLEAN, order : Orders]
Steps == {"none", "pull", "start", "build", "loaded", "marked", "ready"}
MaxRestarts == 3   \* bound: a status only tells fewer than three from three or more

ASSUME DNodesFinite == IsFiniteSet(Nodes)
ASSUME DNoneFresh == None # Cr /\ None \notin Versions /\ None \notin Template
                     /\ None \notin {"true", "false", "host", "container"}
ASSUME DMatchedType == Matched \subseteq Nodes /\ Host \subseteq Nodes
ASSUME DSpecsType == Specs \subseteq SpecRec /\ Edits \subseteq Specs \X Specs
ASSUME DBounds == MaxGen \in Nat /\ MaxFaults \in Nat
ASSUME DOrders == Orders # {}
ASSUME DEnvType == Env \subseteq EnvKinds
ASSUME DPodSpecType == PodSpec \in [Pods -> PodSpecRec]

VARIABLES
  spec, gen, live, status,   \* the policy on the API server
  ds, dsStat,                \* its DaemonSet's template and last reported counts
  node,                      \* the nodes
  bp,                        \* the builder pod of each node
  loaded,                    \* the version of the module each kernel runs
  pod,                       \* the other pods
  faults,                    \* the failures and interventions that have happened
  pc, rspec, rgen,           \* the reconcile: its step and the policy as read
  desired, rstat, rmatched,  \* desiredDS, existing.Status, matched
  rnodes,                    \* cr.Status.NodeStatuses as assembled, not written yet
  snap, todo, target         \* its copies of the nodes, its loop

crVars == <<spec, gen, live>>
dsVars == <<ds, dsStat>>
hostVars == <<bp, loaded>>
readVars == <<rspec, rgen, desired, rstat, rmatched, rnodes>>
localVars == <<pc, readVars, snap, todo, target>>
vars == <<crVars, status, dsVars, node, hostVars, pod, faults, localVars>>

NodeStates == {"unlisted", "Pending", "Draining", "Upgrading", "Uncordoning",
               "Done", "Failed", "HostManaged"}
Conditions == {"unset", "Paused", "NoMatchingNodes", "AllReady", "Installing"}
NodeRec == [unsched : BOOLEAN, by : {Cr, None}, at : Stamps, gate : BOOLEAN,
            kmd : Versions \cup {None}, mode : {"host", "container", None},
            skip : {"true", "false", None}]
BuilderPod == [step : Steps, tmpl : Template \cup {None}, restarts : 0..MaxRestarts]
Counts == [desired : Nat, ready : Nat]
Status == [gen : 0..MaxGen, version : Versions \cup {None}, ready : Conditions,
           nodes : [Nodes -> NodeStates]]
Pcs == {"idle", "create", "cordon", "gate", "evict", "update", "populate", "publish",
        "cleanup", "uncordon", "ungate"}

PolicyTypes ==
  /\ spec \in Specs /\ gen \in 0..MaxGen /\ live \in BOOLEAN
  /\ status \in Status
ClusterTypes ==
  /\ ds \in Template \cup {None} /\ dsStat \in Counts
  /\ node \in [Nodes -> NodeRec]
  /\ bp \in [Nodes -> BuilderPod]
  /\ \A n \in Nodes : bp[n].step # "none" => bp[n].tmpl \in Template
  /\ loaded \in [Nodes -> Versions \cup {None}]
  /\ pod \in [Pods -> PodPhases]
  /\ faults \subseteq Env
ReconcileTypes ==
  /\ pc \in Pcs
  /\ rspec \in Specs \cup {None} /\ rgen \in 0..MaxGen
  /\ desired \in Template \cup {None}
  /\ pc # "idle" => rspec \in Specs
  /\ pc \in {"create", "cordon", "gate", "evict", "update"} => desired \in Template
  /\ rstat \in Counts \cup {None} /\ rmatched \in Nat
  /\ rnodes \in [Nodes -> NodeStates]
  /\ snap \in [Nodes -> NodeRec]
  /\ todo \in SUBSET Nodes
  /\ target \in Nodes \cup {None}
  /\ pc \in {"gate", "evict", "ungate"} => target \in Nodes

\* Type correctness: a reconcile under way has a spec and a rendered template, one
\* in the middle of a node has that node, and a builder pod has a template.
TypeOK == PolicyTypes /\ ClusterTypes /\ ReconcileTypes

-----------------------------------------------------------------------------
(* The Go helpers. *)

\* The nodes the controller takes for the policy's: a skip label with any value
\* but "true" does not count.
listMatchedNodes(nodes) == {n \in Matched : nodes[n].skip # "true"}
countMatchedNodes == Cardinality(listMatchedNodes(node))

\* The nodes the DaemonSet's affinity admits: it asks that there is no skip label.
Admitted == {n \in Matched : node[n].skip = None}

\* The template for a spec.  Its affinity lists spec's matchLabels in the order a
\* range over a Go map happens to visit them, o.
buildDaemonSet(s, o) ==
  [version |-> s.version, forceUnload |-> s.forceUnload, order |-> o]

\* Mutant: the hash leaves the version out.
SameButForVersion(existing, wanted) == [existing EXCEPT !.version = wanted.version] # wanted

\* The hashes of two templates differ when anything in them does.
daemonSetNeedsUpdate(existing, wanted) == existing # wanted

\* A patch carries the fields in which the edited copy differs from the one taken
\* before the edit.
PatchNode(server, old, new) ==
  [unsched |-> IF new.unsched # old.unsched THEN new.unsched ELSE server.unsched,
   by      |-> IF new.by      # old.by      THEN new.by      ELSE server.by,
   at      |-> IF new.at      # old.at      THEN new.at      ELSE server.at,
   gate    |-> IF new.gate    # old.gate    THEN new.gate    ELSE server.gate,
   kmd |-> server.kmd, mode |-> server.mode, skip |-> server.skip]

\* The pods the two passes of a drain cover on node n.
FullNodeFilter(s) ==
  {p \in Pods : /\ s.podSelectorLabel = "" \/ PodSpec[p].selected
                /\ s.deleteEmptyDir \/ ~PodSpec[p].emptyDir}
ToEvict(s, n) ==
  ListDevicePodsOnNode(pod, n, s.force) \cup
  (IF s.fullNode THEN ListPodsOnNode(pod, n, s.force, FullNodeFilter(s)) ELSE {})

\* computeDriverNodeStateReason: a node's state from its labels, its cordon and its
\* builder pod.
NodeState(local, p, version) ==
  IF local.mode = "host" THEN "HostManaged"
  ELSE IF p.step = "pull" \/ (p.restarts >= 3 /\ p.step # "ready") THEN "Failed"
  ELSE IF p.step # "none" /\ p.tmpl.version = version
  THEN IF p.step # "ready" THEN "Upgrading"
       ELSE IF local.by = Cr THEN "Uncordoning" ELSE "Done"
  ELSE IF local.by = Cr THEN "Draining" ELSE "Pending"

\* setDriverConditions: the reason of the Ready condition.
ReadyCondition(s, counts, matched) ==
  IF s.paused THEN "Paused"
  ELSE IF counts.desired = 0 /\ matched = 0 THEN "NoMatchingNodes"
  ELSE IF counts.ready = counts.desired /\ counts.desired > 0 THEN "AllReady"
  ELSE "Installing"

NoCounts == [desired |-> 0, ready |-> 0]
NoPod == [step |-> "none", tmpl |-> None, restarts |-> 0]

\* Mutant: any Ready builder pod counts, whatever version it was rendered for.
ReadyAtAnyVersion(version) == {n \in Nodes : bp[n].step = "ready"}

\* Mutant: a builder that had to be restarted never counts as ready.
ReadyFirstTry(version) ==
  {n \in Nodes : /\ bp[n].step = "ready" /\ bp[n].tmpl.version = version
                 /\ bp[n].restarts = 0}

\* readyAtTarget: the nodes with a Ready builder pod rendered for the version.
ReadyAtTarget(version) ==
  {n \in Nodes : bp[n].step = "ready" /\ bp[n].tmpl.version = version}

-----------------------------------------------------------------------------
(* Initial states. *)

NewNode == [unsched |-> FALSE, by |-> None, at |-> None, gate |-> TRUE,
            kmd |-> None, mode |-> None, skip |-> None]
NoCopies == [n \in Nodes |-> NewNode]
NoStatuses == [n \in Nodes |-> "unlisted"]
Idle ==
  /\ pc = "idle" /\ rspec = None /\ rgen = 0 /\ desired = None /\ rstat = None
  /\ rmatched = 0 /\ rnodes = NoStatuses /\ snap = NoCopies /\ todo = {} /\ target = None

\* A policy that was just created, and has no DaemonSet.
Created ==
  /\ spec \in Specs /\ gen = 0 /\ live = TRUE
  /\ status = [gen |-> 0, version |-> None, ready |-> "unset", nodes |-> NoStatuses]
  /\ ds = None /\ dsStat = NoCounts
  /\ bp = [n \in Nodes |-> NoPod]
  /\ loaded \in [Nodes -> Versions \cup {None}]
  /\ pod = [p \in Pods |-> "absent"]
  /\ Idle

\* On nodes that have had none.
Fresh ==
  /\ Created /\ faults = {}
  /\ node = [n \in Nodes |-> NewNode]
  /\ \A n \in Nodes \ Host : loaded[n] = None

\* On the nodes of a policy of its name that was deleted, maybe in the middle of an
\* upgrade: the module stays, and so do the labels, the cordon and the gates.
LeftBehind ==
  {l \in NodeRec :
     /\ l.gate = ~l.unsched /\ l.skip = None
     /\ l.by = (IF l.unsched THEN Cr ELSE None)
     /\ l.at = (IF l.unsched THEN "fresh" ELSE None)
     /\ l.mode = None => l = NewNode}
Recreated ==
  /\ "recreate" \in Env /\ MaxFaults > 0 /\ faults = {"recreate"}
  /\ Created
  /\ node \in [Nodes -> LeftBehind]
  /\ \A n \in Nodes : node[n].mode \in {None, IF n \in Host THEN "host" ELSE "container"}

\* A policy that has been rolled out.
Settled ==
  /\ faults = {}
  /\ spec \in Specs /\ ~spec.paused /\ gen = 0 /\ live = TRUE
  /\ \E o \in Orders : ds = buildDaemonSet(spec, o)
  /\ dsStat = [desired |-> Cardinality(Matched), ready |-> Cardinality(Matched)]
  /\ loaded \in [Nodes -> Versions \cup {None}]
  /\ \A n \in Nodes \ Host : loaded[n] = IF n \in Matched THEN spec.version ELSE None
  /\ bp = [n \in Nodes |-> IF n \in Matched
                           THEN [step |-> "ready", tmpl |-> ds, restarts |-> 0] ELSE NoPod]
  /\ node = [n \in Nodes |->
               IF n \notin Matched THEN NewNode
               ELSE [NewNode EXCEPT !.kmd = loaded[n],
                                    !.mode = IF n \in Host THEN "host" ELSE "container"]]
  /\ status = [gen |-> 0, version |-> spec.version,
               ready |-> ReadyCondition(spec, dsStat, Cardinality(Matched)),
               nodes |-> [n \in Nodes |-> IF n \notin Matched THEN "unlisted"
                                          ELSE NodeState(node[n], bp[n], spec.version)]]
  /\ pod = [p \in Pods |-> "absent"]
  /\ Idle

Init == Fresh \/ Recreated \/ Settled

-----------------------------------------------------------------------------
(* The reconcile. *)

\* A single call fails, the manager dies or a person intervenes.
Fault(kind) ==
  kind \in Env /\ Cardinality(faults) < MaxFaults /\ faults' = faults \cup {kind}

\* The reconcile returns; nothing of it survives but what is on the server.
Return ==
  /\ pc' = "idle" /\ rspec' = None /\ rgen' = 0 /\ desired' = None /\ rstat' = None
  /\ rmatched' = 0 /\ rnodes' = NoStatuses /\ snap' = NoCopies /\ todo' = {}
  /\ target' = None

\* Reconcile's head: read the policy, count its nodes, render the template, read the
\* DaemonSet, and for an update list the nodes to prepare.  Nothing is prepared when
\* podSelectorLabel does not parse.
Start ==
  /\ pc = "idle" /\ live
  /\ rspec' = spec /\ rgen' = gen
  /\ rmatched' = countMatchedNodes
  /\ rstat' = IF ds = None THEN None ELSE dsStat
  /\ \E o \in Orders :
       /\ desired' = buildDaemonSet(spec, o)
       /\ pc' = IF ds = None THEN IF spec.paused THEN "populate" ELSE "create"
                ELSE IF spec.paused \/ ~daemonSetNeedsUpdate(ds, desired') THEN "populate"
                ELSE IF spec.drain THEN "cordon" ELSE "update"
  /\ todo' = IF pc' = "cordon" /\ spec.podSelectorLabel # "malformed"
             THEN listMatchedNodes(node) ELSE {}
  /\ snap' = IF todo' = {} THEN NoCopies ELSE node
  /\ UNCHANGED <<crVars, status, dsVars, node, hostVars, pod, faults, rnodes, target>>

\* Create the DaemonSet.  Its nodes are not drained first.
Create ==
  /\ pc = "create"
  /\ \/ /\ ds' = desired /\ dsStat' = NoCounts
        /\ rstat' = NoCounts /\ pc' = "populate" /\ desired' = None
        /\ UNCHANGED <<faults, rspec, rgen, rmatched, rnodes, snap, todo, target>>
     \/ Fault("dswrite") /\ Return /\ UNCHANGED dsVars
  /\ UNCHANGED <<crVars, status, node, hostVars, pod>>

\* prepareUpgrade takes a node: CordonNode.  A node it cannot cordon is passed over,
\* and the reply to a patch refreshes the local copy.
Cordon(n) ==
  /\ pc = "cordon" /\ n \in todo
  /\ LET new == CordonNode(snap[n], Cr)
         patched == PatchNode(node[n], snap[n], new)
     IN \/ /\ node' = [node EXCEPT ![n] = patched]
           /\ snap' = [snap EXCEPT ![n] = IF new = @ THEN @ ELSE patched]
           /\ pc' = "gate" /\ target' = n
           /\ UNCHANGED <<faults, todo>>
        \/ /\ Fault("cordon") /\ todo' = todo \ {n}
           /\ UNCHANGED <<node, snap, pc, target>>
  /\ UNCHANGED <<crVars, status, dsVars, hostVars, pod, readVars>>

\* Mutant: the loop variable is cleared before the evictions.
FlipForgetting ==
  /\ pc = "gate" /\ pc' = "evict" /\ target' = None
  /\ node' = [node EXCEPT ![target].gate = FALSE]
  /\ UNCHANGED <<crVars, status, dsVars, hostVars, pod, faults, readVars, snap, todo>>

\* flipDeployGatesOff on that node, best effort.
FlipGates ==
  /\ pc = "gate" /\ pc' = "evict"
  /\ LET new == [snap[target] EXCEPT !.gate = FALSE]
     IN \/ /\ node' = [node EXCEPT ![target] = PatchNode(@, snap[target], new)]
           /\ UNCHANGED faults
        \/ Fault("gate") /\ UNCHANGED node
  /\ UNCHANGED <<crVars, status, dsVars, hostVars, pod, readVars, snap, todo, target>>

\* Both passes of evictMatching on that node.  What a disruption budget refuses, or
\* another error, is passed over.
Evict ==
  /\ pc = "evict"
  /\ LET pods == ToEvict(rspec, target) IN
     \E evicted \in SUBSET pods :
       /\ \/ pods \ evicted \subseteq {p \in pods : PodSpec[p].guarded} /\ UNCHANGED faults
          \/ Fault("evict")
       /\ pod' = EvictPods(pod, evicted)
  /\ pc' = "cordon" /\ todo' = todo \ {target} /\ target' = None
  /\ UNCHANGED <<crVars, status, dsVars, node, hostVars, readVars, snap>>

\* Update the DaemonSet.  The API server refuses it when the object has changed
\* since it was read: then, or on another error, the reconcile is retried.
UpdateDs ==
  /\ pc = "update" \/ (pc = "cordon" /\ todo = {})
  /\ \/ /\ rstat = dsStat /\ ds' = desired
        /\ pc' = "populate" /\ desired' = None /\ snap' = NoCopies
        /\ UNCHANGED <<faults, rspec, rgen, rstat, rmatched, rnodes, todo, target>>
     \/ /\ \/ rstat # dsStat /\ UNCHANGED faults
           \/ Fault("dswrite")
        /\ Return /\ UNCHANGED ds
  /\ UNCHANGED <<crVars, status, dsStat, node, hostVars, pod>>

\* Mutant: the state of a node is worked out for the version its pod was rendered for.
StatesOfPods ==
  [n \in Nodes |->
     IF n \notin listMatchedNodes(node) THEN "unlisted"
     ELSE NodeState(node[n], bp[n], IF bp[n].step = "none" THEN rspec.version
                                    ELSE bp[n].tmpl.version)]

\* The states of the nodes, from their labels and their builder pods.
StatesOfNodes ==
  [n \in Nodes |-> IF n \notin listMatchedNodes(node) THEN "unlisted"
                   ELSE NodeState(node[n], bp[n], rspec.version)]

\* updateStatus lists the nodes and the pods and works the states out.
PopulateNodeStatuses ==
  /\ pc = "populate" /\ pc' = "publish" /\ rnodes' = StatesOfNodes
  /\ UNCHANGED <<crVars, status, dsVars, node, hostVars, pod, faults,
                 rspec, rgen, desired, rstat, rmatched, snap, todo, target>>

\* The status it goes on to write: the counts are the DaemonSet's own, as read.
NewStatus ==
  [gen |-> rgen, version |-> rspec.version,
   ready |-> ReadyCondition(rspec, IF rstat = None THEN NoCounts ELSE rstat, rmatched),
   nodes |-> rnodes]

\* It writes it, refused when the policy was edited or deleted since it was read: the
\* reconcile ends there.  It also ends for a paused policy without a DaemonSet; else
\* it lists the nodes whose builder pod is not Ready.
Publish ==
  /\ pc = "publish"
  /\ \/ /\ live /\ rgen = gen /\ status' = NewStatus
        /\ IF rstat = None THEN Return
           ELSE /\ pc' = "cleanup"
                /\ todo' = {n \in Nodes : bp[n].step \notin {"none", "ready"}}
                /\ rgen' = 0 /\ desired' = None /\ rstat' = None /\ rmatched' = 0
                /\ rnodes' = NoStatuses
                /\ UNCHANGED <<rspec, snap, target>>
        /\ UNCHANGED faults
     \/ /\ \/ (~live \/ rgen # gen) /\ UNCHANGED faults
           \/ Fault("status")
        /\ Return /\ UNCHANGED status
  /\ UNCHANGED <<crVars, dsVars, node, hostVars, pod>>

\* cleanupKMDVersionLabels, one of those nodes.
CleanLabel(n) ==
  /\ pc = "cleanup" /\ n \in todo
  /\ \/ node' = [node EXCEPT ![n].kmd = None] /\ UNCHANGED faults
     \/ Fault("clean") /\ UNCHANGED node
  /\ todo' = todo \ {n}
  /\ UNCHANGED <<crVars, status, dsVars, hostVars, pod, pc, readVars, snap, target>>

\* uncordonReadyNodes lists the nodes this policy cordoned that are ready at the
\* version the reconcile read; without a drain the reconcile is over.
ListReady ==
  /\ pc = "cleanup" /\ todo = {}
  /\ IF ~rspec.drain THEN Return
     ELSE /\ pc' = "uncordon" /\ snap' = node
          /\ todo' = {n \in listMatchedNodes(node) : node[n].by = Cr}
                       \cap ReadyAtTarget(rspec.version)
          /\ UNCHANGED <<readVars, target>>
  /\ UNCHANGED <<crVars, status, dsVars, node, hostVars, pod, faults>>

\* UncordonNode; a failure leaves the node for a later reconcile.
Uncordon(n) ==
  /\ pc = "uncordon" /\ n \in todo
  /\ LET new == UncordonNode(snap[n], Cr)
         patched == PatchNode(node[n], snap[n], new)
     IN \/ /\ node' = [node EXCEPT ![n] = patched]
           /\ snap' = [snap EXCEPT ![n] = patched]
           /\ pc' = "ungate" /\ target' = n
           /\ UNCHANGED <<faults, todo>>
        \/ /\ Fault("uncordon") /\ todo' = todo \ {n}
           /\ UNCHANGED <<node, snap, pc, target>>
  /\ UNCHANGED <<crVars, status, dsVars, hostVars, pod, readVars>>

\* Mutant: the gates stay off.
KeepGates ==
  /\ pc = "ungate"
  /\ pc' = "uncordon" /\ todo' = todo \ {target} /\ target' = None
  /\ UNCHANGED <<crVars, status, dsVars, node, hostVars, pod, faults, readVars, snap>>

\* removeDeployGates on the uncordoned node; a failure is only logged.
RemoveGates ==
  /\ pc = "ungate"
  /\ LET new == [snap[target] EXCEPT !.gate = TRUE]
     IN \/ /\ node' = [node EXCEPT ![target] = PatchNode(@, snap[target], new)]
           /\ UNCHANGED faults
        \/ Fault("ungate") /\ UNCHANGED node
  /\ pc' = "uncordon" /\ todo' = todo \ {target} /\ target' = None
  /\ UNCHANGED <<crVars, status, dsVars, hostVars, pod, readVars, snap>>

\* The reconcile ends, or the manager dies and restarts.
Finish ==
  /\ \/ pc = "uncordon" /\ todo = {} /\ UNCHANGED faults
     \/ pc # "idle" /\ Fault("crash")
  /\ Return
  /\ UNCHANGED <<crVars, status, dsVars, node, hostVars, pod>>

Reconcile ==
  \/ Start \/ Create \/ FlipGates \/ Evict \/ UpdateDs \/ PopulateNodeStatuses \/ Publish
  \/ ListReady \/ RemoveGates \/ Finish
  \/ \E n \in Nodes : Cordon(n) \/ CleanLabel(n) \/ Uncordon(n)

-----------------------------------------------------------------------------
(* The DaemonSet controller and the kubelets. *)

Unready == {n \in Admitted : bp[n].step # "ready"}
\* maxUnavailable, 25% of the admitted nodes rounded up.
MaxUnavailable == (Cardinality(Admitted) + 3) \div 4

\* A pod for an admitted node that has none, with its image or without.
DsCreatesPod(n) ==
  /\ ds # None /\ live /\ n \in Admitted /\ bp[n].step = "none"
  /\ \/ /\ bp' = [bp EXCEPT ![n] = [step |-> "start", tmpl |-> ds, restarts |-> 0]]
        /\ UNCHANGED faults
     \/ /\ Fault("pull")
        /\ bp' = [bp EXCEPT ![n] = [step |-> "pull", tmpl |-> ds, restarts |-> 0]]
  /\ UNCHANGED <<crVars, status, dsVars, node, loaded, pod, localVars>>

\* The rolling update deletes an outdated pod: one that is not Ready at any time, a
\* Ready one within maxUnavailable.
DsRollsPod(n) ==
  /\ ds # None /\ live /\ bp[n].step # "none" /\ bp[n].tmpl # ds
  /\ bp[n].step # "ready" \/ Cardinality(Unready) < MaxUnavailable
  /\ bp' = [bp EXCEPT ![n] = NoPod]
  /\ UNCHANGED <<crVars, status, dsVars, node, loaded, pod, faults, localVars>>

\* A pod whose node is no longer admitted, or whose policy is gone, is deleted.  The
\* module stays.
DsDropsPod(n) ==
  /\ bp[n].step # "none" /\ (n \notin Admitted \/ ~live)
  /\ bp' = [bp EXCEPT ![n] = NoPod]
  /\ UNCHANGED <<crVars, status, dsVars, node, loaded, pod, faults, localVars>>

\* The DaemonSet's status follows its pods.
PodCounts ==
  [desired |-> Cardinality(Admitted),
   ready |-> Cardinality({n \in Nodes : bp[n].step = "ready"})]
DsReports ==
  /\ ds # None /\ live /\ dsStat # PodCounts /\ dsStat' = PodCounts
  /\ UNCHANGED <<crVars, status, ds, node, hostVars, pod, faults, localVars>>

\* The image arrives; the readiness probe finds the marker file.
ImagePulled(n) ==
  /\ bp[n].step = "pull" /\ bp' = [bp EXCEPT ![n].step = "start"]
  /\ UNCHANGED <<crVars, status, dsVars, node, loaded, pod, faults, localVars>>
PodReady(n) ==
  /\ bp[n].step = "marked" /\ bp' = [bp EXCEPT ![n].step = "ready"]
  /\ UNCHANGED <<crVars, status, dsVars, node, loaded, pod, faults, localVars>>

-----------------------------------------------------------------------------
(* The builder, images/driver-build/entrypoint.sh. *)

Goto(n, l) == bp' = [bp EXCEPT ![n].step = l]
\* exit 1, or set -e: the kubelet restarts the container.
Exit(n) ==
  bp' = [bp EXCEPT ![n].step = "start",
                   ![n].restarts = IF @ < MaxRestarts THEN @ + 1 ELSE @]

\* label_node for install-mode and kmd-version.
SetLabels(n, mode) ==
  node' = [node EXCEPT ![n].mode = mode,
                       ![n].kmd = IF loaded[n] = None THEN @ ELSE loaded[n]]
\* The labels, best effort, then the marker.
Label(n, mode) ==
  /\ \/ SetLabels(n, mode) /\ UNCHANGED faults
     \/ Fault("label") /\ UNCHANGED node
  /\ Goto(n, "marked")
\* The module is there: label the node, install tt-smi and the udev rule, and touch
\* the marker.  Under set -e a failing install ends the script in between.
Settle(n) ==
  Label(n, "container") \/ (Fault("build") /\ SetLabels(n, "container") /\ Exit(n))

\* The processes that have the device open on a node.
Holders(n) ==
  {p \in Pods : /\ PodSpec[p].node = n /\ PodSpec[p].holds
                /\ pod[p] \in {"running", "terminating"}}

\* Host-managed, or the module is loaded at the wanted version: stand by.
StandDown(n) ==
  /\ bp[n].step = "start" /\ n \in Host /\ Label(n, "host")
  /\ UNCHANGED <<crVars, status, dsVars, loaded, pod, localVars>>
VersionMatches(n) ==
  /\ bp[n].step = "start" /\ n \notin Host /\ loaded[n] = bp[n].tmpl.version
  /\ Settle(n)
  /\ UNCHANGED <<crVars, status, dsVars, loaded, pod, localVars>>

\* rmmod, when nothing has the device open or forceUnload has killed what had.  With
\* no module there is nothing to unload.
Unload(n) ==
  /\ bp[n].step = "start" /\ n \notin Host /\ loaded[n] # bp[n].tmpl.version
  /\ Holders(n) = {} \/ bp[n].tmpl.forceUnload \/ loaded[n] = None
  /\ loaded' = [loaded EXCEPT ![n] = None] /\ Goto(n, "build")
  /\ UNCHANGED <<crVars, status, dsVars, node, pod, faults, localVars>>

\* refcnt > 0 without forceUnload, or still after the kill.
Busy(n) ==
  /\ bp[n].step = "start" /\ n \notin Host
  /\ loaded[n] \notin {None, bp[n].tmpl.version} /\ Holders(n) # {}
  /\ Exit(n)
  /\ UNCHANGED <<crVars, status, dsVars, node, loaded, pod, faults, localVars>>

\* Mutant: whatever insmod loaded is taken for the wanted version.
LoadUnchecked(n) ==
  /\ bp[n].step = "build"
  /\ \/ /\ loaded' = [loaded EXCEPT ![n] = bp[n].tmpl.version] /\ Goto(n, "loaded")
        /\ UNCHANGED faults
     \/ /\ Fault("badtag") /\ Goto(n, "loaded")
        /\ \E v \in Versions \ {bp[n].tmpl.version} : loaded' = [loaded EXCEPT ![n] = v]
     \/ Fault("build") /\ Exit(n) /\ UNCHANGED loaded
  /\ UNCHANGED <<crVars, status, dsVars, node, pod, localVars>>

\* Build or take from the cache, insmod, and read the version back: a tag may hold
\* another version than its name says.  Headers, clone, make or insmod may fail.
Load(n) ==
  /\ bp[n].step = "build"
  /\ \/ /\ loaded' = [loaded EXCEPT ![n] = bp[n].tmpl.version] /\ Goto(n, "loaded")
        /\ UNCHANGED faults
     \/ /\ Fault("badtag") /\ Exit(n)
        /\ \E v \in Versions \ {bp[n].tmpl.version} : loaded' = [loaded EXCEPT ![n] = v]
     \/ Fault("build") /\ Exit(n) /\ UNCHANGED loaded
  /\ UNCHANGED <<crVars, status, dsVars, node, pod, localVars>>
Announce(n) ==
  /\ bp[n].step = "loaded" /\ Settle(n)
  /\ UNCHANGED <<crVars, status, dsVars, loaded, pod, localVars>>

Builder(n) ==
  StandDown(n) \/ VersionMatches(n) \/ Unload(n) \/ Busy(n) \/ Load(n) \/ Announce(n)

-----------------------------------------------------------------------------
(* Workloads and users. *)

\* A pod starts on its node: a cordon keeps out those that do not tolerate it, a
\* deploy gate the DaemonSet pods that honour it.
PodStarts(p) ==
  /\ pod[p] = "absent"
  /\ ~node[PodSpec[p].node].unsched \/ PodSpec[p].tolerates
  /\ node[PodSpec[p].node].gate \/ ~PodSpec[p].gated
  /\ pod' = [pod EXCEPT ![p] = "running"]
  /\ UNCHANGED <<crVars, status, dsVars, node, hostVars, faults, localVars>>
\* A DaemonSet pod whose gate is off is deleted.
PodGatedOff(p) ==
  /\ pod[p] = "running" /\ PodSpec[p].gated /\ ~node[PodSpec[p].node].gate
  /\ pod' = [pod EXCEPT ![p] = "terminating"]
  /\ UNCHANGED <<crVars, status, dsVars, node, hostVars, faults, localVars>>
PodRemoved(p) ==
  /\ pod[p] = "terminating" /\ pod' = [pod EXCEPT ![p] = "absent"]
  /\ UNCHANGED <<crVars, status, dsVars, node, hostVars, faults, localVars>>

\* A user edits the spec or deletes the policy; the DaemonSet is collected with it.
EditSpec ==
  /\ live /\ gen < MaxGen /\ gen' = gen + 1
  /\ \E s \in Specs : <<spec, s>> \in Edits /\ spec' = s
  /\ UNCHANGED <<live, status, dsVars, node, hostVars, pod, faults, localVars>>
DeletePolicy ==
  /\ Fault("delete") /\ live /\ live' = FALSE
  /\ UNCHANGED <<spec, gen, status, dsVars, node, hostVars, pod, localVars>>

\* A person cordons or uncordons a node, or edits its skip label.
HumanCordon(n) ==
  /\ Fault("human") /\ node' = [node EXCEPT ![n].unsched = ~@]
  /\ UNCHANGED <<crVars, status, dsVars, hostVars, pod, localVars>>
SetSkip(n) ==
  /\ Fault("skip")
  /\ \E l \in {"true", "false", None} :
       node[n].skip # l /\ node' = [node EXCEPT ![n].skip = l]
  /\ UNCHANGED <<crVars, status, dsVars, hostVars, pod, localVars>>

Cluster ==
  \/ DsReports
  \/ \E n \in Nodes : DsCreatesPod(n) \/ DsRollsPod(n) \/ DsDropsPod(n)
                      \/ ImagePulled(n) \/ PodReady(n) \/ Builder(n)
Users ==
  \/ EditSpec \/ DeletePolicy
  \/ \E n \in Nodes : HumanCordon(n) \/ SetSkip(n)
Workloads == \E p \in Pods : PodStarts(p) \/ PodGatedOff(p) \/ PodRemoved(p)

Next == Reconcile \/ Cluster \/ Workloads \/ Users

Spec == Init /\ [][Next]_vars

\* The controller is requeued while pods are not Ready and by every event of the
\* policy, its DaemonSet or any node (kubelets report every few minutes); a reconcile
\* that began runs on; the DaemonSet controller and the kubelets do their work, and a
\* container that exits is restarted.  Nothing is assumed of users or failures.
Fairness ==
  /\ WF_vars(Reconcile)
  /\ WF_vars(DsReports)
  /\ \A n \in Nodes :
       /\ WF_vars(DsCreatesPod(n)) /\ WF_vars(DsRollsPod(n)) /\ WF_vars(DsDropsPod(n))
       /\ WF_vars(ImagePulled(n)) /\ WF_vars(PodReady(n)) /\ WF_vars(Builder(n))
  /\ \A p \in Pods : WF_vars(PodGatedOff(p)) /\ WF_vars(PodRemoved(p))
FairSpec == Spec /\ Fairness

-----------------------------------------------------------------------------
(* Properties. *)

\* A Ready builder pod means what uncordonReadyNodes and the status take it to mean:
\* on a container-managed node the kernel runs the version the pod was rendered for.
ReadyIsLoaded ==
  \A n \in Nodes \ Host : bp[n].step = "ready" => loaded[n] = bp[n].tmpl.version

\* A node that the status calls Done, for the spec as it stands, runs that version,
\* until the spec is edited.  (Under a paused spec the DaemonSet may still be rolling
\* an earlier template out.)
DoneIsTrue ==
  live /\ ~spec.paused /\ status.gen = gen =>
    \A n \in Nodes \ Host :
      status.nodes[n] = "Done" => loaded[n] = spec.version

\* Every spec of the instance asks for a drain.
DrainAlways == \A s \in Specs : s.drain /\ s.podSelectorLabel # "malformed"

\* An upgrade takes the module out from under nobody: the version a node announces in
\* its kmd-version label is only unloaded while the policy has the node cordoned.
\* A failed cordon, which prepareUpgrade passes over, and people may break this; so
\* does a policy that is paused at a version it has left, and one that is created over
\* the module of a deleted one, since only an update of the DaemonSet is drained.
SwapOutOfService ==
  [][/\ DrainAlways /\ faults \cap {"cordon", "human", "skip", "recreate"} = {}
     => \A n \in Nodes :
          node[n].kmd = loaded[n] /\ loaded[n] # None /\ loaded'[n] = None =>
            node[n].unsched /\ node[n].by = Cr]_vars

\* A deploy gate is only off while the policy's cordon is on, but for the step
\* between the two patches that lift them: nothing else would ever open it again.
\* Losing the second patch, or dying before it, does leave it off.
GateHeldByCordon ==
  faults \cap {"ungate", "crash"} = {} =>
    \A n \in Nodes : ~node[n].gate => node[n].by = Cr \/ (pc = "ungate" /\ target = n)

\* The failures the controller does not make good: it drains once, before an update
\* (a first install that meets another version is not drained at all), and a gate
\* it did not open stays shut.
NotRetried == {"cordon", "gate", "evict", "ungate", "crash", "badtag", "human", "skip",
               "delete", "recreate"}

\* A node that has lost its way back: it was cordoned for an upgrade and drain.enable
\* was switched off before it was given back, which only a policy that drains does.
Stranded(n) == ~spec.drain /\ node[n].by = Cr

\* The last spec is rolled out: every node the DaemonSet admits runs its version (or is
\* left to its host), is uncordoned with its gates open, and the status says so.
Landed ==
  /\ status.gen = gen /\ status.version = spec.version /\ status.ready = "AllReady"
  /\ \A n \in Admitted :
       /\ n \notin Host => loaded[n] = spec.version
       /\ \/ Stranded(n)
          \/ /\ status.nodes[n] = IF n \in Host THEN "HostManaged" ELSE "Done"
             /\ ~node[n].unsched /\ node[n].gate

\* The last spec, if it is not paused, lands for good, whatever build, install, image
\* pull or write failed once on the way; but for the nodes that are stranded.
UpgradeLands == <>[](Landed \/ spec.paused \/ faults \cap NotRetried # {})

\* What the tests say of the template hash (TestDaemonSetNeedsUpdate: "identical DSes
\* report needing update; would cause reconcile churn"): the DaemonSet is only
\* updated when a field of the spec it is rendered from has changed.
TemplateFollowsSpec ==
  [][ds # None /\ ds' # ds =>
       ds'.version # ds.version \/ ds'.forceUnload # ds.forceUnload]_vars

\* What docs/driver.md says of the kmd-version label: a node whose builder pod is
\* Ready carries the version its kernel runs.
LabelSettles ==
  <>[](\A n \in Admitted : bp[n].step = "ready" => node[n].kmd = loaded[n])
=============================================================================
