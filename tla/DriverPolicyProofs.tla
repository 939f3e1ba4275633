------------------------ MODULE DriverPolicyProofs ------------------------
(***************************************************************************)
(* Theorems about DriverPolicy, for every set of nodes, versions, specs    *)
(* and pods, every failure in any number and any number of edits.          *)
(***************************************************************************)
EXTENDS DriverPolicy, TLAPS, FiniteSetTheorems

\* A patch of a well-formed node by well-formed copies is well formed.
LEMMA PatchType ==
  ASSUME NEW s \in NodeRec, NEW o \in NodeRec, NEW w \in NodeRec
  PROVE  PatchNode(s, o, w) \in NodeRec
BY DEF PatchNode, NodeRec

\* So are the copies CordonNode and UncordonNode edit.
LEMMA CordonType ==
  ASSUME NEW l \in NodeRec
  PROVE  CordonNode(l, Cr) \in NodeRec /\ UncordonNode(l, Cr) \in NodeRec
BY DEF CordonNode, UncordonNode, NodeRec, Stamps

\* A new node, no copies, no states, no builder pod and no counts are well formed.
LEMMA BlankTypes ==
  /\ NewNode \in NodeRec /\ NoCopies \in [Nodes -> NodeRec]
  /\ NoStatuses \in [Nodes -> NodeStates]
  /\ NoPod \in BuilderPod /\ NoCounts \in Counts
<1>1. NewNode \in NodeRec
  BY DEF NewNode, NodeRec, Stamps
<1>2. NoPod \in BuilderPod
  BY DEF NoPod, BuilderPod, Steps, MaxRestarts
<1>3. NoStatuses \in [Nodes -> NodeStates]
  BY DEF NoStatuses, NodeStates
<1> QED BY <1>1, <1>2, <1>3 DEF NoCopies, NoCounts, Counts

\* Sets of nodes are finite.
LEMMA NodeSetsFinite ==
  ASSUME NEW S, S \subseteq Nodes
  PROVE  IsFiniteSet(S) /\ Cardinality(S) \in Nat
BY DNodesFinite, FS_Subset, FS_CardinalityType

\* What is left of a reconcile that returned is well typed.
LEMMA ReturnType == ASSUME Return PROVE ReconcileTypes'
BY BlankTypes, DBounds DEF Return, ReconcileTypes, Pcs

\* A template rendered from a spec is well formed.
LEMMA TemplateType ==
  ASSUME NEW s \in Specs, NEW o \in Orders
  PROVE  buildDaemonSet(s, o) \in Template
BY DSpecsType DEF buildDaemonSet, Template, SpecRec

\* So are the states of the nodes, and the status the reconcile writes.
LEMMA StatesType == StatesOfNodes \in [Nodes -> NodeStates]
<1>1. \A l, p, v : NodeState(l, p, v) \in NodeStates
  BY DEF NodeState, NodeStates
<1>2. "unlisted" \in NodeStates
  BY DEF NodeStates
<1> QED BY <1>1, <1>2 DEF StatesOfNodes
LEMMA StatusType ==
  ASSUME TypeOK, pc = "publish"
  PROVE  NewStatus \in Status
<1>1. rspec \in Specs /\ rspec.version \in Versions /\ rgen \in 0..MaxGen
  BY DSpecsType DEF TypeOK, ReconcileTypes, SpecRec
<1>2. rnodes \in [Nodes -> NodeStates]
  BY DEF TypeOK, ReconcileTypes
<1>3. \A s, k, m : ReadyCondition(s, k, m) \in Conditions
  BY DEF ReadyCondition, Conditions
<1> QED BY <1>1, <1>2, <1>3 DEF NewStatus, Status

\* The initial states are well typed.
LEMMA InitType == Init => TypeOK
<1>1. ASSUME Idle PROVE ReconcileTypes
  BY <1>1, BlankTypes, DBounds DEF Idle, ReconcileTypes, Pcs
<1>2. ASSUME Fresh \/ Recreated PROVE TypeOK
  <2>1. Created /\ faults \subseteq Env
    BY <1>2 DEF Fresh, Recreated
  <2>2. PolicyTypes
    BY <2>1, BlankTypes, DBounds DEF Created, PolicyTypes, Status, Conditions
  <2>3. node \in [Nodes -> NodeRec]
    BY <1>2, BlankTypes DEF Fresh, Recreated, LeftBehind
  <2>4. ClusterTypes
    BY <2>1, <2>3, BlankTypes DEF Created, ClusterTypes, NoPod, PodPhases
  <2> QED BY <1>1, <2>1, <2>2, <2>4 DEF Created, TypeOK
<1>3. ASSUME Settled PROVE TypeOK
  <2>1. PICK o \in Orders : ds = buildDaemonSet(spec, o)
    BY <1>3 DEF Settled
  <2>2. spec \in Specs /\ ds \in Template /\ spec.version \in Versions
    BY <1>3, <2>1, TemplateType, DSpecsType DEF Settled, SpecRec
  <2>3. dsStat \in Counts
    BY <1>3, NodeSetsFinite, DMatchedType DEF Settled, Counts
  <2>4. bp \in [Nodes -> BuilderPod]
        /\ \A n \in Nodes : bp[n].step # "none" => bp[n].tmpl \in Template
    <3>1. [step |-> "ready", tmpl |-> ds, restarts |-> 0] \in BuilderPod
      BY <2>2 DEF BuilderPod, Steps, MaxRestarts
    <3> QED BY <1>3, <2>2, <3>1, BlankTypes DEF Settled, NoPod
  <2>5. node \in [Nodes -> NodeRec]
    <3>1. loaded \in [Nodes -> Versions \cup {None}]
      BY <1>3 DEF Settled
    <3>2. ASSUME NEW n \in Nodes
          PROVE  [NewNode EXCEPT !.kmd = loaded[n],
                                 !.mode = IF n \in Host THEN "host" ELSE "container"] \in NodeRec
      BY <3>1, BlankTypes DEF NodeRec
    <3> QED BY <1>3, <3>2, BlankTypes DEF Settled
  <2>6. status \in Status
    <3>1. \A l, p, v : NodeState(l, p, v) \in NodeStates
      BY DEF NodeState, NodeStates
    <3>2. \A s, k, m : ReadyCondition(s, k, m) \in Conditions
      BY DEF ReadyCondition, Conditions
    <3>3. "unlisted" \in NodeStates /\ 0 \in 0..MaxGen
      BY DBounds DEF NodeStates
    <3> QED BY <1>3, <2>2, <3>1, <3>2, <3>3 DEF Settled, Status
  <2>7. PolicyTypes
    <3>1. spec \in Specs /\ gen = 0 /\ live = TRUE
      BY <1>3 DEF Settled
    <3> QED BY <3>1, <2>6, DBounds DEF PolicyTypes
  <2>8. ClusterTypes
    BY <1>3, <2>2, <2>3, <2>4, <2>5 DEF Settled, ClusterTypes, PodPhases
  <2> QED BY <1>3, <1>1, <2>7, <2>8 DEF Settled, TypeOK
<1> QED BY <1>2, <1>3 DEF Init

\* A step that leaves the policy or the cluster alone leaves their types alone.
LEMMA PolicyKept ==
  ASSUME PolicyTypes, UNCHANGED <<crVars, status>> PROVE PolicyTypes'
BY DEF PolicyTypes, crVars
LEMMA ReconcileKept ==
  ASSUME ReconcileTypes, UNCHANGED localVars PROVE ReconcileTypes'
BY DEF ReconcileTypes, localVars, readVars
LEMMA ClusterKept ==
  ASSUME ClusterTypes, UNCHANGED <<dsVars, hostVars>>,
         node' \in [Nodes -> NodeRec], pod' \in [Pods -> PodPhases], faults' \subseteq Env
  PROVE  ClusterTypes'
BY DEF ClusterTypes, dsVars, hostVars

\* A failure that happens is one the environment allows.
LEMMA FaultType ==
  ASSUME TypeOK, NEW k, Fault(k) \/ UNCHANGED faults PROVE faults' \subseteq Env
BY DEF TypeOK, ClusterTypes, Fault

\* Every step of a reconcile keeps the types.
LEMMA ReconcileType == ASSUME TypeOK, Reconcile PROVE TypeOK'
<1> USE DEF TypeOK
<1>0. /\ node \in [Nodes -> NodeRec] /\ snap \in [Nodes -> NodeRec]
      /\ pod \in [Pods -> PodPhases] /\ faults \subseteq Env
  BY DEF ClusterTypes, ReconcileTypes
<1>1. Start => TypeOK'
  <2> SUFFICES ASSUME Start PROVE TypeOK' OBVIOUS
  <2>1. PolicyTypes' /\ ClusterTypes'
    BY <1>0, PolicyKept, ClusterKept DEF Start
  <2>2. PICK o \in Orders : desired' = buildDaemonSet(spec, o)
    BY DEF Start
  <2>3. spec \in Specs /\ desired' \in Template /\ gen \in 0..MaxGen
    BY <2>2, TemplateType DEF PolicyTypes
  <2>4. listMatchedNodes(node) \subseteq Nodes
    BY DMatchedType DEF listMatchedNodes
  <2>5. rmatched' \in Nat
    BY <2>4, NodeSetsFinite DEF Start, countMatchedNodes
  <2>6. rstat' \in Counts \cup {None}
    BY DEF Start, ClusterTypes
  <2>7. todo' \in SUBSET Nodes /\ snap' \in [Nodes -> NodeRec]
    BY <1>0, <2>4, BlankTypes DEF Start
  <2>8. pc' \in {"populate", "create", "cordon", "update"}
    BY DEF Start
  <2>9. rspec' = spec /\ rgen' = gen /\ rnodes' = rnodes /\ target' = target
    BY DEF Start
  <2>10. ReconcileTypes'
    BY <2>3, <2>5, <2>6, <2>7, <2>8, <2>9 DEF ReconcileTypes, Pcs
  <2> QED BY <2>1, <2>10
<1>2. Create => TypeOK'
  <2> SUFFICES ASSUME Create PROVE TypeOK' OBVIOUS
  <2>1. PolicyTypes'
    BY PolicyKept DEF Create
  <2>2. desired \in Template
    BY DEF Create, ReconcileTypes
  <2>3. faults' \subseteq Env
    BY FaultType DEF Create
  <2>4. ClusterTypes'
    BY <2>2, <2>3, BlankTypes DEF Create, ClusterTypes, hostVars, dsVars
  <2>5. ReconcileTypes'
    <3>1. CASE Return
      BY <3>1, ReturnType
    <3>2. CASE ~Return
      <4>1. /\ rstat' = NoCounts /\ pc' = "populate" /\ desired' = None
            /\ UNCHANGED <<rspec, rgen, rmatched, rnodes, snap, todo, target>>
        BY <3>2 DEF Create
      <4>2. rspec \in Specs
        BY DEF Create, ReconcileTypes
      <4> QED BY <4>1, <4>2, BlankTypes DEF ReconcileTypes, Pcs
    <3> QED BY <3>1, <3>2
  <2> QED BY <2>1, <2>4, <2>5
<1>3. ASSUME NEW n \in Nodes, Cordon(n) PROVE TypeOK'
  <2> DEFINE new == CordonNode(snap[n], Cr)
             patched == PatchNode(node[n], snap[n], new)
  <2>1. new \in NodeRec /\ patched \in NodeRec
    BY <1>0, CordonType, PatchType
  <2>2. /\ node' \in {node, [node EXCEPT ![n] = patched]}
        /\ snap' \in {snap, [snap EXCEPT ![n] = patched]}
    BY <1>0, <1>3 DEF Cordon
  <2> HIDE DEF new, patched
  <2>3. node' \in [Nodes -> NodeRec] /\ snap' \in [Nodes -> NodeRec]
    BY <1>0, <2>1, <2>2
  <2>4. faults' \subseteq Env
    BY <1>3, FaultType DEF Cordon
  <2>5. PolicyTypes' /\ ClusterTypes'
    BY <1>0, <1>3, <2>3, <2>4, PolicyKept, ClusterKept DEF Cordon
  <2>6. /\ pc' \in {"cordon", "gate"} /\ todo' \subseteq todo /\ UNCHANGED readVars
        /\ target' = n \/ (target' = target /\ pc' = pc)
    BY <1>3 DEF Cordon
  <2>7. pc = "cordon"
    BY <1>3 DEF Cordon
  <2>8. ReconcileTypes'
    BY <2>3, <2>6, <2>7 DEF ReconcileTypes, readVars, Pcs
  <2> QED BY <2>5, <2>8
<1>4. FlipGates => TypeOK'
  <2> SUFFICES ASSUME FlipGates PROVE TypeOK' OBVIOUS
  <2> DEFINE new == [snap[target] EXCEPT !.gate = FALSE]
             patched == PatchNode(node[target], snap[target], new)
  <2>1. target \in Nodes
    BY DEF FlipGates, ReconcileTypes
  <2>2. new \in NodeRec
    BY <1>0, <2>1 DEF NodeRec
  <2>3. patched \in NodeRec
    BY <1>0, <2>1, <2>2, PatchType
  <2>4. node' \in {node, [node EXCEPT ![target] = patched]}
    BY DEF FlipGates
  <2> HIDE DEF new, patched
  <2>5. node' \in [Nodes -> NodeRec]
    BY <1>0, <2>1, <2>3, <2>4
  <2>6. faults' \subseteq Env
    BY FaultType DEF FlipGates
  <2>7. PolicyTypes' /\ ClusterTypes'
    BY <1>0, <2>5, <2>6, PolicyKept, ClusterKept DEF FlipGates
  <2>8. ReconcileTypes'
    BY DEF FlipGates, ReconcileTypes, readVars, Pcs
  <2> QED BY <2>7, <2>8
<1>5. Evict => TypeOK'
  <2> SUFFICES ASSUME Evict PROVE TypeOK' OBVIOUS
  <2>1. PICK evicted : pod' = EvictPods(pod, evicted)
    BY DEF Evict
  <2>2. pod' \in [Pods -> PodPhases]
    BY <1>0, <2>1 DEF EvictPods, PodPhases
  <2>3. faults' \subseteq Env
    BY FaultType DEF Evict
  <2>4. PolicyTypes' /\ ClusterTypes'
    BY <1>0, <2>2, <2>3, PolicyKept, ClusterKept DEF Evict
  <2>5. ReconcileTypes'
    BY DEF Evict, ReconcileTypes, readVars, Pcs
  <2> QED BY <2>4, <2>5
<1>6. UpdateDs => TypeOK'
  <2> SUFFICES ASSUME UpdateDs PROVE TypeOK' OBVIOUS
  <2>1. desired \in Template /\ rspec \in Specs
    BY DEF UpdateDs, ReconcileTypes
  <2>2. faults' \subseteq Env
    BY FaultType DEF UpdateDs
  <2>3. PolicyTypes'
    BY PolicyKept DEF UpdateDs
  <2>4. ClusterTypes'
    BY <2>1, <2>2 DEF UpdateDs, ClusterTypes, hostVars
  <2>5. ReconcileTypes'
    <3>1. CASE Return
      BY <3>1, ReturnType
    <3>2. CASE ~Return
      <4>1. /\ snap' = NoCopies /\ pc' = "populate" /\ desired' = None
            /\ UNCHANGED <<rspec, rgen, rstat, rmatched, rnodes, todo, target>>
        BY <3>2 DEF UpdateDs
      <4> QED BY <4>1, <2>1, BlankTypes DEF ReconcileTypes, Pcs
    <3> QED BY <3>1, <3>2
  <2> QED BY <2>3, <2>4, <2>5
<1>7. Publish => TypeOK'
  <2> SUFFICES ASSUME Publish PROVE TypeOK' OBVIOUS
  <2>1. faults' \subseteq Env
    BY FaultType DEF Publish
  <2>2. ClusterTypes'
    BY <1>0, <2>1, ClusterKept DEF Publish
  <2>3. NewStatus \in Status
    BY StatusType DEF Publish
  <2>4. PolicyTypes'
    BY <2>3 DEF Publish, PolicyTypes, crVars
  <2>5. ReconcileTypes'
    <3>1. CASE Return
      BY <3>1, ReturnType
    <3>2. CASE ~Return
      <4>1. /\ pc' = "cleanup" /\ todo' \subseteq Nodes
            /\ rgen' = 0 /\ desired' = None /\ rstat' = None /\ rmatched' = 0
            /\ rnodes' = NoStatuses /\ UNCHANGED <<rspec, snap, target>>
        BY <3>2 DEF Publish
      <4>2. rspec \in Specs
        BY DEF Publish, ReconcileTypes
      <4> QED BY <4>1, <4>2, BlankTypes, DBounds DEF ReconcileTypes, Pcs
    <3> QED BY <3>1, <3>2
  <2> QED BY <2>2, <2>4, <2>5
<1>8. ASSUME NEW n \in Nodes, CleanLabel(n) PROVE TypeOK'
  <2>1. node' \in {node, [node EXCEPT ![n].kmd = None]}
    BY <1>8 DEF CleanLabel
  <2>2. node' \in [Nodes -> NodeRec]
    <3>1. [node[n] EXCEPT !.kmd = None] \in NodeRec
      BY <1>0 DEF NodeRec
    <3> QED BY <1>0, <2>1, <3>1
  <2>3. faults' \subseteq Env
    BY <1>8, FaultType DEF CleanLabel
  <2>4. PolicyTypes' /\ ClusterTypes'
    BY <1>0, <1>8, <2>2, <2>3, PolicyKept, ClusterKept DEF CleanLabel
  <2>5. ReconcileTypes'
    BY <1>8 DEF CleanLabel, ReconcileTypes, readVars
  <2> QED BY <2>4, <2>5
<1>9. ListReady => TypeOK'
  <2> SUFFICES ASSUME ListReady PROVE TypeOK' OBVIOUS
  <2>1. PolicyTypes' /\ ClusterTypes'
    BY <1>0, PolicyKept, ClusterKept DEF ListReady
  <2>2. ReconcileTypes'
    <3>1. CASE Return
      BY <3>1, ReturnType
    <3>2. CASE ~Return
      <4>1. /\ pc' = "uncordon" /\ snap' = node /\ todo' \subseteq Nodes
            /\ UNCHANGED <<readVars, target>>
        BY <3>2, DMatchedType DEF ListReady, listMatchedNodes
      <4>2. rspec \in Specs
        BY DEF ListReady, ReconcileTypes
      <4> QED BY <1>0, <4>1, <4>2 DEF ReconcileTypes, readVars, Pcs
    <3> QED BY <3>1, <3>2
  <2> QED BY <2>1, <2>2
<1>10. ASSUME NEW n \in Nodes, Uncordon(n) PROVE TypeOK'
  <2> DEFINE new == UncordonNode(snap[n], Cr)
             patched == PatchNode(node[n], snap[n], new)
  <2>1. new \in NodeRec /\ patched \in NodeRec
    BY <1>0, CordonType, PatchType
  <2>2. /\ node' \in {node, [node EXCEPT ![n] = patched]}
        /\ snap' \in {snap, [snap EXCEPT ![n] = patched]}
    BY <1>0, <1>10 DEF Uncordon
  <2> HIDE DEF new, patched
  <2>3. node' \in [Nodes -> NodeRec] /\ snap' \in [Nodes -> NodeRec]
    BY <1>0, <2>1, <2>2
  <2>4. faults' \subseteq Env
    BY <1>10, FaultType DEF Uncordon
  <2>5. PolicyTypes' /\ ClusterTypes'
    BY <1>0, <1>10, <2>3, <2>4, PolicyKept, ClusterKept DEF Uncordon
  <2>6. /\ pc' \in {"uncordon", "ungate"} /\ todo' \subseteq todo /\ UNCHANGED readVars
        /\ target' = n \/ (target' = target /\ pc' = pc)
    BY <1>10 DEF Uncordon
  <2>7. pc = "uncordon"
    BY <1>10 DEF Uncordon
  <2>8. ReconcileTypes'
    BY <2>3, <2>6, <2>7 DEF ReconcileTypes, readVars, Pcs
  <2> QED BY <2>5, <2>8
<1>11. RemoveGates => TypeOK'
  <2> SUFFICES ASSUME RemoveGates PROVE TypeOK' OBVIOUS
  <2> DEFINE new == [snap[target] EXCEPT !.gate = TRUE]
             patched == PatchNode(node[target], snap[target], new)
  <2>1. target \in Nodes
    BY DEF RemoveGates, ReconcileTypes
  <2>2. new \in NodeRec
    BY <1>0, <2>1 DEF NodeRec
  <2>3. patched \in NodeRec
    BY <1>0, <2>1, <2>2, PatchType
  <2>4. node' \in {node, [node EXCEPT ![target] = patched]}
    BY DEF RemoveGates
  <2> HIDE DEF new, patched
  <2>5. node' \in [Nodes -> NodeRec]
    BY <1>0, <2>1, <2>3, <2>4
  <2>6. faults' \subseteq Env
    BY FaultType DEF RemoveGates
  <2>7. PolicyTypes' /\ ClusterTypes'
    BY <1>0, <2>5, <2>6, PolicyKept, ClusterKept DEF RemoveGates
  <2>8. ReconcileTypes'
    BY DEF RemoveGates, ReconcileTypes, readVars, Pcs
  <2> QED BY <2>7, <2>8
<1>12. Finish => TypeOK'
  <2> SUFFICES ASSUME Finish PROVE TypeOK' OBVIOUS
  <2>1. faults' \subseteq Env
    BY FaultType DEF Finish
  <2> QED BY <1>0, <2>1, PolicyKept, ClusterKept, ReturnType DEF Finish
<1>13. PopulateNodeStatuses => TypeOK'
  <2> SUFFICES ASSUME PopulateNodeStatuses PROVE TypeOK' OBVIOUS
  <2>1. PolicyTypes' /\ ClusterTypes'
    BY <1>0, PolicyKept, ClusterKept DEF PopulateNodeStatuses
  <2>2. /\ pc = "populate" /\ pc' = "publish" /\ rnodes' = StatesOfNodes
        /\ UNCHANGED <<rspec, rgen, desired, rstat, rmatched, snap, todo, target>>
    BY DEF PopulateNodeStatuses
  <2>3. ReconcileTypes'
    BY <2>2, StatesType DEF ReconcileTypes, Pcs
  <2> QED BY <2>1, <2>3
<1> QED
  BY <1>1, <1>2, <1>3, <1>4, <1>5, <1>6, <1>7, <1>8, <1>9, <1>10, <1>11, <1>12, <1>13
  DEF Reconcile

\* A builder pod that moves to another step, or exits, is well formed.
LEMMA BuilderStepType ==
  ASSUME ClusterTypes, NEW n \in Nodes, NEW l \in Steps, bp[n].step # "none",
         Goto(n, l) \/ Exit(n)
  PROVE  /\ bp' \in [Nodes -> BuilderPod]
         /\ \A m \in Nodes : bp'[m].step # "none" => bp'[m].tmpl \in Template
<1>1. bp \in [Nodes -> BuilderPod] /\ bp[n].tmpl \in Template
      /\ \A m \in Nodes : bp[m].step # "none" => bp[m].tmpl \in Template
  BY DEF ClusterTypes
<1> DEFINE r == IF bp[n].restarts < MaxRestarts THEN bp[n].restarts + 1 ELSE bp[n].restarts
           moved == [bp[n] EXCEPT !.step = l]
           exited == [bp[n] EXCEPT !.step = "start", !.restarts = r]
<1>2. r \in 0..MaxRestarts
  BY <1>1 DEF BuilderPod, MaxRestarts
<1>3. moved \in BuilderPod /\ moved.tmpl = bp[n].tmpl
  BY <1>1 DEF BuilderPod
<1>4. exited \in BuilderPod /\ exited.tmpl = bp[n].tmpl
  <2> HIDE DEF r
  <2> QED BY <1>1, <1>2 DEF BuilderPod, Steps
<1>5. bp' \in {[bp EXCEPT ![n] = moved], [bp EXCEPT ![n] = exited]}
  BY <1>1 DEF Goto, Exit
<1> HIDE DEF moved, exited
<1> QED BY <1>1, <1>3, <1>4, <1>5

\* Labelling a node keeps its type, and so does a failing install after it.
LEMMA LabelType ==
  ASSUME TypeOK, NEW n \in Nodes, Label(n, "host") \/ Settle(n)
  PROVE  /\ node' \in [Nodes -> NodeRec] /\ faults' \subseteq Env
         /\ Goto(n, "marked") \/ Exit(n)
<1>1. node \in [Nodes -> NodeRec] /\ loaded[n] \in Versions \cup {None}
  BY DEF TypeOK, ClusterTypes
<1>2. PICK m \in {"host", "container"} : SetLabels(n, m) \/ UNCHANGED node
  BY DEF Label, Settle
<1> DEFINE k == IF loaded[n] = None THEN node[n].kmd ELSE loaded[n]
           labelled == [node[n] EXCEPT !.mode = m, !.kmd = k]
<1>3. k \in Versions \cup {None}
  BY <1>1 DEF NodeRec
<1>4. labelled \in NodeRec
  <2> HIDE DEF k
  <2> QED BY <1>1, <1>3 DEF NodeRec
<1>5. node' \in {node, [node EXCEPT ![n] = labelled]}
  BY <1>1, <1>2 DEF SetLabels
<1>6. node' \in [Nodes -> NodeRec]
  <2> HIDE DEF labelled
  <2> QED BY <1>1, <1>4, <1>5
<1> QED BY <1>6, FaultType DEF Label, Settle

\* Every step of the DaemonSet controller, the kubelets and the builders keeps the
\* types.
LEMMA ClusterType == ASSUME TypeOK, Cluster PROVE TypeOK'
<1> USE DEF TypeOK
<1>0. /\ node \in [Nodes -> NodeRec] /\ bp \in [Nodes -> BuilderPod]
      /\ loaded \in [Nodes -> Versions \cup {None}]
      /\ \A n \in Nodes : bp[n].step # "none" => bp[n].tmpl \in Template
      /\ ds \in Template \cup {None} /\ faults \subseteq Env
  BY DEF ClusterTypes
<1>1. DsReports => TypeOK'
  <2> SUFFICES ASSUME DsReports PROVE TypeOK' OBVIOUS
  <2>1. Admitted \subseteq Nodes /\ {n \in Nodes : bp[n].step = "ready"} \subseteq Nodes
    BY DMatchedType DEF Admitted
  <2>2. PodCounts \in Counts
    BY <2>1, NodeSetsFinite DEF PodCounts, Counts
  <2> QED BY <2>2, PolicyKept, ReconcileKept DEF DsReports, ClusterTypes, hostVars
<1>2. ASSUME NEW n \in Nodes, DsCreatesPod(n) PROVE TypeOK'
  <2>1. PICK l \in {"start", "pull"} :
          bp' = [bp EXCEPT ![n] = [step |-> l, tmpl |-> ds, restarts |-> 0]]
    BY <1>2 DEF DsCreatesPod
  <2>2. ds \in Template
    BY <1>0, <1>2 DEF DsCreatesPod
  <2>3. [step |-> l, tmpl |-> ds, restarts |-> 0] \in BuilderPod
    BY <2>2 DEF BuilderPod, Steps, MaxRestarts
  <2>4. /\ bp' \in [Nodes -> BuilderPod]
        /\ \A m \in Nodes : bp'[m].step # "none" => bp'[m].tmpl \in Template
    BY <1>0, <2>1, <2>2, <2>3
  <2>5. faults' \subseteq Env
    BY <1>2, FaultType DEF DsCreatesPod
  <2> QED BY <1>2, <2>4, <2>5, PolicyKept, ReconcileKept DEF DsCreatesPod, ClusterTypes, dsVars
<1>3. ASSUME NEW n \in Nodes, DsRollsPod(n) \/ DsDropsPod(n) PROVE TypeOK'
  <2>1. bp' = [bp EXCEPT ![n] = NoPod]
    BY <1>3 DEF DsRollsPod, DsDropsPod
  <2>2. /\ bp' \in [Nodes -> BuilderPod]
        /\ \A m \in Nodes : bp'[m].step # "none" => bp'[m].tmpl \in Template
    BY <1>0, <2>1, BlankTypes DEF NoPod
  <2> QED BY <1>3, <2>2, PolicyKept, ReconcileKept
          DEF DsRollsPod, DsDropsPod, ClusterTypes, dsVars
<1>4. ASSUME NEW n \in Nodes, ImagePulled(n) \/ PodReady(n) PROVE TypeOK'
  <2>1. bp[n].step # "none" /\ (Goto(n, "start") \/ Goto(n, "ready"))
    BY <1>4 DEF ImagePulled, PodReady, Goto
  <2>2. /\ bp' \in [Nodes -> BuilderPod]
        /\ \A m \in Nodes : bp'[m].step # "none" => bp'[m].tmpl \in Template
    BY <2>1, BuilderStepType DEF Steps
  <2> QED BY <1>4, <2>2, PolicyKept, ReconcileKept
          DEF ImagePulled, PodReady, ClusterTypes, dsVars
<1>5. ASSUME NEW n \in Nodes, StandDown(n) \/ VersionMatches(n) \/ Announce(n) PROVE TypeOK'
  <2>1. Label(n, "host") \/ Settle(n)
    BY <1>5 DEF StandDown, VersionMatches, Announce
  <2>2. /\ node' \in [Nodes -> NodeRec] /\ faults' \subseteq Env
        /\ Goto(n, "marked") \/ Exit(n)
    BY <2>1, LabelType
  <2>3. bp[n].step # "none"
    BY <1>5 DEF StandDown, VersionMatches, Announce
  <2>4. /\ bp' \in [Nodes -> BuilderPod]
        /\ \A m \in Nodes : bp'[m].step # "none" => bp'[m].tmpl \in Template
    BY <2>2, <2>3, BuilderStepType DEF Steps
  <2>5. UNCHANGED <<crVars, status, dsVars, loaded, pod, localVars>>
    BY <1>5 DEF StandDown, VersionMatches, Announce
  <2> QED BY <2>2, <2>4, <2>5, PolicyKept, ReconcileKept DEF ClusterTypes, dsVars
<1>6. ASSUME NEW n \in Nodes, Unload(n) \/ Busy(n) \/ Load(n) PROVE TypeOK'
  <2>1. bp[n].step # "none" /\ (Goto(n, "build") \/ Goto(n, "loaded") \/ Exit(n))
    BY <1>6 DEF Unload, Busy, Load
  <2>2. /\ bp' \in [Nodes -> BuilderPod]
        /\ \A m \in Nodes : bp'[m].step # "none" => bp'[m].tmpl \in Template
    BY <2>1, BuilderStepType DEF Steps
  <2>3. bp[n].tmpl.version \in Versions
    BY <1>0, <2>1 DEF Template
  <2>4. \/ loaded' = loaded
        \/ \E v \in Versions \cup {None} : loaded' = [loaded EXCEPT ![n] = v]
    BY <1>6, <2>3 DEF Unload, Busy, Load
  <2>5. loaded' \in [Nodes -> Versions \cup {None}]
    BY <1>0, <2>4
  <2>6. faults' \subseteq Env
    BY <1>6, FaultType DEF Unload, Busy, Load
  <2>7. UNCHANGED <<crVars, status, dsVars, node, pod, localVars>>
    BY <1>6 DEF Unload, Busy, Load
  <2> QED BY <2>2, <2>5, <2>6, <2>7, PolicyKept, ReconcileKept DEF ClusterTypes, dsVars
<1> QED BY <1>1, <1>2, <1>3, <1>4, <1>5, <1>6 DEF Cluster, Builder

\* So does every step of workloads and users.
LEMMA OutsideType == ASSUME TypeOK, Workloads \/ Users PROVE TypeOK'
<1> USE DEF TypeOK
<1>0. /\ node \in [Nodes -> NodeRec] /\ pod \in [Pods -> PodPhases] /\ faults \subseteq Env
  BY DEF ClusterTypes
<1>1. ASSUME NEW p \in Pods, PodStarts(p) \/ PodGatedOff(p) \/ PodRemoved(p) PROVE TypeOK'
  <2>1. pod' \in [Pods -> PodPhases]
    BY <1>0, <1>1 DEF PodStarts, PodGatedOff, PodRemoved, PodPhases
  <2>2. UNCHANGED <<crVars, status, dsVars, node, hostVars, faults, localVars>>
    BY <1>1 DEF PodStarts, PodGatedOff, PodRemoved
  <2> QED BY <1>0, <2>1, <2>2, PolicyKept, ReconcileKept, ClusterKept
<1>2. EditSpec => TypeOK'
  <2> SUFFICES ASSUME EditSpec PROVE TypeOK' OBVIOUS
  <2>1. spec' \in Specs /\ live' = live /\ status' = status
    BY DEF EditSpec
  <2>2. gen' \in 0..MaxGen
    BY DBounds DEF EditSpec, PolicyTypes
  <2>3. PolicyTypes'
    BY <2>1, <2>2 DEF PolicyTypes
  <2> QED BY <1>0, <2>3, ReconcileKept, ClusterKept DEF EditSpec
<1>3. DeletePolicy => TypeOK'
  <2> SUFFICES ASSUME DeletePolicy PROVE TypeOK' OBVIOUS
  <2>1. PolicyTypes'
    <3>1. live' = FALSE /\ UNCHANGED <<spec, gen, status>>
      BY DEF DeletePolicy
    <3> QED BY <3>1 DEF PolicyTypes
  <2>2. faults' \subseteq Env
    BY FaultType DEF DeletePolicy
  <2> QED BY <1>0, <2>1, <2>2, ReconcileKept, ClusterKept DEF DeletePolicy
<1>4. ASSUME NEW n \in Nodes, HumanCordon(n) \/ SetSkip(n) PROVE TypeOK'
  <2>1. \/ node' = [node EXCEPT ![n].unsched = ~@]
        \/ \E l \in {"true", "false", None} : node' = [node EXCEPT ![n].skip = l]
    BY <1>4 DEF HumanCordon, SetSkip
  <2>2. [node[n] EXCEPT !.unsched = ~@] \in NodeRec
    BY <1>0 DEF NodeRec
  <2>3. \A l \in {"true", "false", None} : [node[n] EXCEPT !.skip = l] \in NodeRec
    BY <1>0 DEF NodeRec
  <2>4. node' \in [Nodes -> NodeRec]
    BY <1>0, <2>1, <2>2, <2>3
  <2>5. faults' \subseteq Env /\ UNCHANGED <<crVars, status, dsVars, hostVars, pod, localVars>>
    BY <1>4, FaultType DEF HumanCordon, SetSkip
  <2> QED BY <1>0, <2>4, <2>5, PolicyKept, ReconcileKept, ClusterKept
<1> QED BY <1>1, <1>2, <1>3, <1>4 DEF Workloads, Users

\* The driver controller's state is always well typed: in particular a reconcile that
\* is cordoning has a template to roll out, one that is in the middle of a node has
\* that node, and no builder pod runs without a template.
THEOREM DriverTypeCorrect == Spec => []TypeOK
<1>1. TypeOK /\ [Next]_vars => TypeOK'
  <2> SUFFICES ASSUME TypeOK, [Next]_vars PROVE TypeOK' OBVIOUS
  <2>1. CASE UNCHANGED vars
    <3>1. UNCHANGED <<crVars, status, dsVars, node, hostVars, pod, faults, localVars>>
      BY <2>1 DEF vars
    <3>2. node \in [Nodes -> NodeRec] /\ pod \in [Pods -> PodPhases] /\ faults \subseteq Env
      BY DEF TypeOK, ClusterTypes
    <3> QED BY <3>1, <3>2, PolicyKept, ReconcileKept, ClusterKept DEF TypeOK
  <2> QED BY <2>1, ReconcileType, ClusterType, OutsideType DEF Next
<1> QED BY <1>1, InitType, PTL DEF Spec
=============================================================================
