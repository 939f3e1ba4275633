-------------------------- MODULE OwnershipProofs --------------------------
(***************************************************************************)
(* A node's chips are flashed, and its cordon held, only by the CR that    *)
(* its owned-by label names.                                               *)
(***************************************************************************)
EXTENDS FirmwarePolicyProofs

\* What first-write-wins rests on: the node cache is caught up when a reconcile
\* lists the nodes.
CurrentNodeReads == "node" \notin Lagging

\* A claim's patch writes the label and leaves the cordon's owner alone.
LEMMA ClaimPatch ==
  ASSUME NEW s \in NodeRec, NEW o \in NodeRec, NEW c \in Crs, o.owner # c
  PROVE  /\ MergePatch(s, o, [o EXCEPT !.owner = c]).owner = c
         /\ MergePatch(s, o, [o EXCEPT !.owner = c]).by = s.by
BY DEF MergePatch, NodeRec

\* A cordon's patch leaves the label alone and can only name its own CR.
LEMMA CordonPatch ==
  ASSUME NEW s \in NodeRec, NEW o \in NodeRec, NEW c \in Crs
  PROVE  /\ MergePatch(s, o, CordonNode(o, c)).owner = s.owner
         /\ MergePatch(s, o, CordonNode(o, c)).by \in {c, s.by}
BY DEF MergePatch, CordonNode, NodeRec

\* An uncordon's patch leaves the label alone and can only clear the name.
LEMMA UncordonPatch ==
  ASSUME NEW s \in NodeRec, NEW o \in NodeRec, NEW c \in Crs
  PROVE  /\ MergePatch(s, o, UncordonNode(o, c)).owner = s.owner
         /\ MergePatch(s, o, UncordonNode(o, c)).by \in {None, s.by}
BY DEF MergePatch, UncordonNode, NodeRec

\* The labels and annotations that say who owns and who cordoned a node stay.
KeepOwners ==
  \A n \in Nodes : node'[n].owner = node[n].owner /\ node'[n].by = node[n].by

\* Where they stay and no Job starts, ownership is kept.
LEMMA OwnershipKept ==
  ASSUME TypeOK, [Next]_vars, ~Spawn, KeepOwners, FlasherOwnsNode
  PROVE  FlasherOwnsNode'
<1>1. ASSUME NEW n \in Nodes, NEW c \in Crs, NEW v \in Versions,
             job'[<<c, n, v>>] = "running"
      PROVE  job[<<c, n, v>>] = "running"
  <2>1. InFlightJobs(c, job') \subseteq InFlightJobs(c, job)
    BY OnlySpawnStartsJobs
  <2>2. <<n, v>> \in InFlightJobs(c, job')
    BY <1>1 DEF InFlightJobs
  <2> QED BY <2>1, <2>2 DEF InFlightJobs
<1> QED BY <1>1 DEF FlasherOwnsNode, KeepOwners

\* Nobody but the controller touches them.
LEMMA EnvironmentKeepsOwners ==
  ASSUME TypeOK, Environment
  PROVE  KeepOwners /\ UNCHANGED localVars
<1>1. UNCHANGED localVars
  BY DEF Environment, SyncNodes, SyncJobs, SyncPods, JobSucceeds, JobFails, JobExpires,
         CollectJob, DeleteCr, EditSpec, HumanCordon, HumanUncordon, ToggleSkip,
         DrainDeadline, PodStarts, PodFinishes, PodRemoved
<1>2. node \in [Nodes -> NodeRec]
  BY DEF TypeOK, ObjectTypes
<1>3. ASSUME NEW n \in Nodes,
             HumanCordon(n) \/ HumanUncordon(n) \/ ToggleSkip(n) \/ DrainDeadline(n)
      PROVE  KeepOwners
  <2>1. node[n] \in NodeRec
    BY <1>2
  <2>2. \/ node' = [node EXCEPT ![n] = [node[n] EXCEPT !.unsched = TRUE]]
        \/ node' = [node EXCEPT ![n] = [node[n] EXCEPT !.unsched = FALSE]]
        \/ node' = [node EXCEPT ![n] = [node[n] EXCEPT !.skip = ~node[n].skip]]
        \/ node' = [node EXCEPT ![n] = [node[n] EXCEPT !.at = "expired"]]
    BY <1>3 DEF HumanCordon, HumanUncordon, ToggleSkip, DrainDeadline
  <2> QED BY <1>2, <2>1, <2>2 DEF KeepOwners, NodeRec
<1>4. \/ UNCHANGED node
      \/ \E n \in Nodes :
           HumanCordon(n) \/ HumanUncordon(n) \/ ToggleSkip(n) \/ DrainDeadline(n)
  BY DEF Environment, SyncNodes, SyncJobs, SyncPods, JobSucceeds, JobFails, JobExpires,
         CollectJob, DeleteCr, EditSpec, PodStarts, PodFinishes, PodRemoved
<1> QED BY <1>1, <1>3, <1>4 DEF KeepOwners

\* Where they stay and the reconcile does not move, its reads stay current.
LEMMA ReadsKept ==
  ASSUME TypeOK, KeepOwners, UNCHANGED localVars, ClaimsAreCurrent
  PROVE  ClaimsAreCurrent'
<1>1. /\ pc' = pc /\ cur' = cur /\ snap' = snap /\ ns' = ns
      /\ todo' = todo /\ target' = target
  BY DEF localVars, readVars, loopVars
<1>2. todo \in SUBSET Nodes /\ (pc = "act" => target \in Nodes)
  BY DEF TypeOK, LoopTypes
<1> QED BY <1>1, <1>2 DEF ClaimsAreCurrent, KeepOwners

\* The inductive invariant: ownership alone is not inductive, since a claim is a
\* blind patch; it needs to know that the reconcile's reads are still current.
OwnInv == TypeOK /\ FlasherOwnsNode /\ ClaimsAreCurrent

\* A claim of a node on the reconcile's list takes it from nobody.
LEMMA ClaimStep ==
  ASSUME OwnInv, NEW n \in Nodes, Claim(n)
  PROVE  FlasherOwnsNode' /\ ClaimsAreCurrent'
<1>1. TypeOK /\ FlasherOwnsNode /\ ClaimsAreCurrent
  BY DEF OwnInv
<1>2. /\ pc = "advance" /\ n \in todo /\ cur \in Crs /\ cur' = cur /\ ns' = ns /\ job' = job
      /\ node \in [Nodes -> NodeRec] /\ snap \in [Nodes -> NodeRec] /\ todo \in SUBSET Nodes
  BY <1>1 DEF Claim, TypeOK, ReadTypes, ObjectTypes, LoopTypes, readVars
<1>3. snap[n].owner = node[n].owner /\ snap[n].owner \in {None, cur}
  BY <1>1, <1>2 DEF ClaimsAreCurrent
<1> DEFINE new == [snap[n] EXCEPT !.owner = cur]
           r == MergePatch(node[n], snap[n], new)
           patched == [node EXCEPT ![n] = r]
<1>4. snap[n] \in NodeRec /\ node[n] \in NodeRec
  BY <1>2
<1>5. CASE snap[n].owner = cur /\ pc' = "act" /\ target' = n /\ UNCHANGED <<node, snap, todo>>
  <2>1. FlasherOwnsNode'
    BY <1>1, <1>2, <1>5 DEF FlasherOwnsNode
  <2>2. ClaimsAreCurrent'
    BY <1>1, <1>2, <1>3, <1>5 DEF ClaimsAreCurrent
  <2> QED BY <2>1, <2>2
<1>6. CASE snap[n].owner # cur
  <2>1. r.owner = cur /\ r.by = node[n].by
    BY <1>2, <1>4, <1>6, ClaimPatch
  <2>2. node[n].owner = None
    BY <1>3, <1>6
  <2>3. node[n].by = None
    BY <1>1, <2>2 DEF FlasherOwnsNode
  <2>4. \A c \in Crs, v \in Versions : job[<<c, n, v>>] # "running"
    BY <1>1, <2>2, NoneFresh DEF FlasherOwnsNode
  <2>5. node' \in {node, patched}
    BY <1>6 DEF Claim
  <2> HIDE DEF r
  <2>6. FlasherOwnsNode'
    <3>1. CASE node' = node
      BY <1>1, <1>2, <3>1 DEF FlasherOwnsNode
    <3>2. CASE node' = patched
      <4>1. node'[n] = r /\ \A x \in Nodes : x # n => node'[x] = node[x]
        BY <1>2, <3>2
      <4> QED BY <1>1, <1>2, <2>1, <2>3, <2>4, <4>1 DEF FlasherOwnsNode
    <3> QED BY <2>5, <3>1, <3>2
  <2>7. CASE /\ node' = patched /\ snap' = [snap EXCEPT ![n] = patched[n]]
             /\ pc' = "act" /\ target' = n /\ UNCHANGED todo
    <3>1. node'[n] = r /\ snap'[n] = r
      BY <1>2, <2>7
    <3>2. \A x \in Nodes : x # n => node'[x] = node[x] /\ snap'[x] = snap[x]
      BY <1>2, <2>7
    <3> QED BY <1>1, <1>2, <2>1, <2>6, <2>7, <3>1, <3>2 DEF ClaimsAreCurrent
  <2>8. CASE /\ snap' = [snap EXCEPT ![n] = new]
             /\ todo' = todo \ {n} /\ UNCHANGED <<pc, target>>
    <3>1. \A x \in Nodes : x # n => node'[x] = node[x] /\ snap'[x] = snap[x]
      BY <1>2, <2>5, <2>8
    <3> QED BY <1>1, <1>2, <2>6, <2>8, <3>1 DEF ClaimsAreCurrent
  <2> QED BY <1>6, <2>7, <2>8 DEF Claim, r
<1> QED BY <1>5, <1>6 DEF Claim

\* advanceNode's patches of the cordon stay within what the CR owns.
LEMMA CordonStep ==
  ASSUME OwnInv, Cordon \/ Uncordon
  PROVE  FlasherOwnsNode' /\ ClaimsAreCurrent'
<1>1. TypeOK /\ FlasherOwnsNode /\ ClaimsAreCurrent
  BY DEF OwnInv
<1>2. /\ pc = "act" /\ cur \in Crs /\ cur' = cur /\ snap' = snap /\ job' = job
      /\ target \in Nodes /\ pc' = "advance" /\ todo' = todo \ {target}
      /\ node \in [Nodes -> NodeRec] /\ snap \in [Nodes -> NodeRec] /\ todo \in SUBSET Nodes
  BY <1>1 DEF Cordon, Uncordon, NodeVisited, TypeOK, ReadTypes, ObjectTypes, LoopTypes, readVars
<1>3. node[target].owner = cur
  BY <1>1, <1>2 DEF ClaimsAreCurrent
<1>4. snap[target] \in NodeRec /\ node[target] \in NodeRec
  BY <1>2
<1>5. \A x \in Nodes : x # target => node'[x] = node[x]
  BY <1>2 DEF Cordon, Uncordon
<1>6. node'[target].owner = cur /\ node'[target].by \in {None, cur, node[target].by}
  <2>1. CASE node' = node
    BY <1>3, <2>1
  <2>2. CASE node' = [node EXCEPT ![target] =
                        MergePatch(node[target], snap[target], CordonNode(snap[target], cur))]
    BY <1>2, <1>3, <1>4, <2>2, CordonPatch
  <2>3. CASE node' = [node EXCEPT ![target] =
                        MergePatch(node[target], snap[target], UncordonNode(snap[target], cur))]
    BY <1>2, <1>3, <1>4, <2>3, UncordonPatch
  <2> QED BY <2>1, <2>2, <2>3 DEF Cordon, Uncordon
<1>7. FlasherOwnsNode'
  BY <1>1, <1>2, <1>3, <1>5, <1>6 DEF FlasherOwnsNode
<1>8. ClaimsAreCurrent'
  BY <1>1, <1>2, <1>5 DEF ClaimsAreCurrent
<1> QED BY <1>7, <1>8

\* A flash Job is created for the node's owner.
LEMMA SpawnStep ==
  ASSUME OwnInv, Spawn
  PROVE  FlasherOwnsNode' /\ ClaimsAreCurrent'
<1>1. TypeOK /\ FlasherOwnsNode /\ ClaimsAreCurrent
  BY DEF OwnInv
<1>2. /\ pc = "act" /\ cur \in Crs /\ cur' = cur /\ snap' = snap /\ node' = node
      /\ target \in Nodes /\ pc' = "advance" /\ todo' = todo \ {target}
      /\ todo \in SUBSET Nodes /\ job \in [JobKeys -> JobStates]
  BY <1>1 DEF Spawn, NodeVisited, TypeOK, ReadTypes, ObjectTypes, LoopTypes, readVars
<1>3. node[target].owner = cur
  BY <1>1, <1>2 DEF ClaimsAreCurrent
<1>4. \A k \in JobKeys : k # FlashJob => job'[k] = job[k]
  BY <1>2 DEF Spawn
<1>5. ASSUME NEW n \in Nodes, NEW c \in Crs, NEW v \in Versions, job'[<<c, n, v>>] = "running"
      PROVE  node[n].owner = c
  <2>1. <<c, n, v>> \in JobKeys
    BY DEF JobKeys
  <2>2. CASE <<c, n, v>> = FlashJob
    BY <1>3, <2>2 DEF FlashJob
  <2>3. CASE <<c, n, v>> # FlashJob
    BY <1>1, <1>4, <1>5, <2>1, <2>3 DEF FlasherOwnsNode
  <2> QED BY <2>2, <2>3
<1>6. FlasherOwnsNode'
  BY <1>1, <1>2, <1>5 DEF FlasherOwnsNode
<1>7. ClaimsAreCurrent'
  BY <1>1, <1>2 DEF ClaimsAreCurrent
<1> QED BY <1>6, <1>7

\* Every other step of a reconcile leaves owners alone; those that build its list
\* of nodes put none on it that another CR owns.
LEMMA OtherSteps ==
  ASSUME CurrentNodeReads, OwnInv, Reconcile,
         ~Spawn, ~Cordon, ~Uncordon, \A n \in Nodes : ~Claim(n)
  PROVE  FlasherOwnsNode' /\ ClaimsAreCurrent'
<1>1. TypeOK /\ FlasherOwnsNode /\ ClaimsAreCurrent
  BY DEF OwnInv
<1>2. /\ node \in [Nodes -> NodeRec] /\ snap \in [Nodes -> NodeRec]
      /\ ns \in [Nodes -> NodeStatus] /\ todo \in SUBSET Nodes
  BY <1>1 DEF TypeOK, ObjectTypes, LoopTypes
<1>3. KeepOwners => FlasherOwnsNode'
  BY <1>1, OwnershipKept DEF Next
<1>4. UNCHANGED node => KeepOwners
  BY DEF KeepOwners
<1>5. ASSUME NEW c \in Crs, Start(c) PROVE FlasherOwnsNode' /\ ClaimsAreCurrent'
  <2>1. NodeView = node
    BY DEF NodeView, CurrentNodeReads
  <2>2. /\ pc' = "observe" /\ cur' = c /\ snap' = node /\ node' = node /\ todo' = owned(c, node)
        /\ ns' = [n \in Nodes |->
              IF n \in matchedNodes(c, node) \ owned(c, node)
              THEN Is("Pending", "NodeConflict") ELSE Unlisted]
    BY <1>5, <2>1 DEF Start
  <2>3. \A n \in Nodes : ns'[n].state = "unlisted" \/ ns'[n].reason = "NodeConflict"
    BY <2>2 DEF Is, Unlisted
  <2>4. \A n \in todo' : node[n].owner \in {None, c}
    BY <2>2 DEF owned
  <2>5. ClaimsAreCurrent'
    BY <2>2, <2>3, <2>4 DEF ClaimsAreCurrent
  <2> QED BY <1>3, <1>4, <2>2, <2>5
<1>6. ASSUME NEW n \in Nodes, Observe(n) PROVE FlasherOwnsNode' /\ ClaimsAreCurrent'
  <2>1. /\ pc = "observe" /\ pc' = "observe" /\ n \in todo /\ todo' = todo \ {n}
        /\ cur' = cur /\ snap' = snap /\ node' = node
    BY <1>6 DEF Observe, readVars
  <2>2. \A x \in Nodes : x # n => ns'[x] = ns[x]
    BY <1>2, <1>6 DEF Observe
  <2>3. ClaimsAreCurrent'
    BY <1>1, <1>2, <2>1, <2>2 DEF ClaimsAreCurrent
  <2> QED BY <1>3, <1>4, <2>1, <2>3
<1>7. ASSUME CountJobs PROVE FlasherOwnsNode' /\ ClaimsAreCurrent'
  <2>1. /\ pc = "observe" /\ pc' = "advance" /\ todo' = ToAdvance(rspec, ns)
        /\ cur' = cur /\ snap' = snap /\ node' = node
    BY <1>7 DEF CountJobs, readVars
  <2>2. \A n \in todo' : n \in Nodes /\ ns[n].state # "unlisted" /\ ns[n].reason # "NodeConflict"
    BY <2>1 DEF ToAdvance, isAdvanceable
  <2>3. ClaimsAreCurrent'
    BY <1>1, <2>1, <2>2 DEF ClaimsAreCurrent
  <2> QED BY <1>3, <1>4, <2>1, <2>3
<1>8. ASSUME Evict \/ \E n \in Nodes : SkipFull(n) PROVE FlasherOwnsNode' /\ ClaimsAreCurrent'
  <2>1. /\ pc \in {"advance", "act"} /\ pc' = "advance" /\ todo' \subseteq todo
        /\ cur' = cur /\ snap' = snap /\ node' = node
    BY <1>8 DEF Evict, SkipFull, NodeVisited, readVars
  <2>2. ClaimsAreCurrent'
    BY <1>1, <2>1 DEF ClaimsAreCurrent
  <2> QED BY <1>3, <1>4, <2>1, <2>2
<1>9. ASSUME Publish \/ Abandon PROVE FlasherOwnsNode' /\ ClaimsAreCurrent'
  <2>1. pc' = "idle"
    BY <1>9 DEF Publish, Abandon, Return
  <2>2. ClaimsAreCurrent'
    BY <2>1 DEF ClaimsAreCurrent
  <2>3. KeepOwners
    <3>1. CASE Abandon
      BY <1>4, <3>1 DEF Abandon
    <3>2. CASE Publish
      <4>1. PICK labelled : node' = [n \in Nodes |-> IF n \in labelled
                                THEN [node[n] EXCEPT !.fwver = rspec.version]
                                ELSE node[n]]
        BY <3>2 DEF Publish
      <4> QED BY <1>2, <4>1 DEF KeepOwners, NodeRec
    <3> QED BY <1>9, <3>1, <3>2
  <2> QED BY <1>3, <2>2, <2>3
<1> QED BY <1>5, <1>6, <1>7, <1>8, <1>9 DEF Reconcile

\* Every step keeps the invariant.
LEMMA OwnInvStep ==
  ASSUME CurrentNodeReads, OwnInv, [Next]_vars
  PROVE  OwnInv'
<1>1. TypeOK /\ FlasherOwnsNode /\ ClaimsAreCurrent
  BY DEF OwnInv
<1>2. TypeOK'
  BY <1>1, ReconcileType, EnvironmentType, StutterType DEF Next
<1>3. CASE Reconcile
  BY <1>2, <1>3, ClaimStep, CordonStep, SpawnStep, OtherSteps DEF OwnInv
<1>4. CASE Environment
  <2>1. KeepOwners /\ UNCHANGED localVars
    BY <1>1, <1>4, EnvironmentKeepsOwners
  <2>2. ~Spawn
    BY <2>1 DEF Spawn, NodeVisited, localVars
  <2>3. FlasherOwnsNode'
    BY <1>1, <1>4, <2>1, <2>2, OwnershipKept DEF Next
  <2>4. ClaimsAreCurrent'
    BY <1>1, <2>1, ReadsKept
  <2> QED BY <1>2, <2>3, <2>4 DEF OwnInv
<1>5. CASE UNCHANGED vars
  <2>1. UNCHANGED <<localVars, node, job>>
    BY <1>5 DEF vars
  <2> QED BY <1>1, <1>2, <2>1, ReadsKept DEF OwnInv, FlasherOwnsNode, KeepOwners
<1> QED BY <1>3, <1>4, <1>5 DEF Next

\* It holds at the start.
LEMMA OwnInvInit == Init => OwnInv
<1> SUFFICES ASSUME Init PROVE OwnInv OBVIOUS
<1>1. TypeOK
  BY InitType
<1>2. ClaimsAreCurrent
  BY DEF Init, ClaimsAreCurrent
<1>3. \A n \in Nodes : node[n].by = None
  BY DEF Init, NewNode
<1>4. \A c \in Crs, n \in Nodes, v \in Versions : job[<<c, n, v>>] # "running"
  BY DEF Init, JobKeys
<1> QED BY <1>1, <1>2, <1>3, <1>4 DEF OwnInv, FlasherOwnsNode

\* So it always holds.
LEMMA OwnInvariant == CurrentNodeReads => (Spec => []OwnInv)
<1> SUFFICES ASSUME CurrentNodeReads PROVE Spec => []OwnInv OBVIOUS
<1>1. OwnInv /\ [Next]_vars => OwnInv'
  BY OwnInvStep
<1> QED BY <1>1, OwnInvInit, PTL DEF Spec

\* First write wins, for every set of CRs and nodes: with current node reads a
\* flash Job only runs for the CR its node's owned-by label names, and only that
\* CR holds the firmware cordon, whatever fails, crashes or is edited, and
\* whatever people do to cordons, skip labels and CRs.
THEOREM OwnerFlashes == CurrentNodeReads => (Spec => []FlasherOwnsNode)
<1>1. OwnInv => FlasherOwnsNode
  BY DEF OwnInv
<1> QED BY <1>1, OwnInvariant, PTL

\* The blind claim is safe: the label it overwrites is still the one the reconcile
\* read, so advanceNode never works on a node that has become another CR's.
THEOREM ClaimsHold == CurrentNodeReads => (Spec => []ClaimsAreCurrent)
<1>1. OwnInv => ClaimsAreCurrent
  BY DEF OwnInv
<1> QED BY <1>1, OwnInvariant, PTL
=============================================================================
