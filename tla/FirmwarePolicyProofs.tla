------------------------ MODULE FirmwarePolicyProofs ------------------------
(***************************************************************************)
(* Theorems about FirmwarePolicy, for every set of nodes, CRs, versions    *)
(* and pods and every environment.                                         *)
(***************************************************************************)
EXTENDS FirmwarePolicy, TLAPS, FiniteSetTheorems

\* A merge patch of a well-formed node by well-formed copies is well formed.
LEMMA MergePatchType ==
  ASSUME NEW s \in NodeRec, NEW o \in NodeRec, NEW w \in NodeRec
  PROVE  MergePatch(s, o, w) \in NodeRec
BY DEF MergePatch, NodeRec

\* So are the copies CordonNode and UncordonNode edit.
LEMMA CordonType ==
  ASSUME NEW l \in NodeRec, NEW c \in Crs
  PROVE  CordonNode(l, c) \in NodeRec /\ UncordonNode(l, c) \in NodeRec
BY DEF CordonNode, UncordonNode, NodeRec, Stamps

\* What observeNode derives is a node status, and so is what it reports when a
\* read fails.
LEMMA ObserveType ==
  ASSUME NEW c \in Crs, NEW s \in Specs, NEW l \in NodeRec, NEW n \in Nodes,
         NEW jobs, NEW phase
  PROVE  /\ observeNode(c, s, l, n, jobs, phase) \in NodeStatus
         /\ ObserveErrors(c, s, l, n, jobs) \subseteq NodeStatus
<1>1. ObservePreFlash(c, s, l, n, phase) \in NodeStatus
  BY DEF ObservePreFlash, Is, NodeStatus, NodeStates, Reasons
<1>2. observeNode(c, s, l, n, jobs, phase) \in NodeStatus
  BY <1>1 DEF observeNode, Is, NodeStatus, NodeStates, Reasons
<1>3. ObserveErrors(c, s, l, n, jobs) \subseteq NodeStatus
  <2>1. Is("Pending", "TransientAPIError") \in NodeStatus
    BY DEF Is, NodeStatus, NodeStates, Reasons
  <2>2. Is("Draining", "TransientAPIError") \in NodeStatus
    BY DEF Is, NodeStatus, NodeStates, Reasons
  <2> QED BY <2>1, <2>2 DEF ObserveErrors
<1> QED BY <1>2, <1>3

\* The initial states are well typed.
LEMMA InitType == Init => TypeOK
<1> SUFFICES ASSUME Init PROVE TypeOK OBVIOUS
<1>1. NewNode \in NodeRec
  BY DEF NewNode, NodeRec, Stamps
<1>2. Unlisted \in NodeStatus
  BY DEF Unlisted, NodeStatus, Reasons
<1>3. CrTypes
  <2>1. [version |-> None, ready |-> "unset", nodes |-> [n \in Nodes |-> Unlisted]] \in Status
    BY <1>2 DEF Status
  <2> QED BY <2>1, MaxGenType DEF Init, CrTypes
<1>4. ObjectTypes /\ CacheTypes
  BY <1>1 DEF Init, ObjectTypes, CacheTypes, JobStates, PodPhases
<1>5. ReadTypes
  BY MaxGenType DEF Init, ReadTypes
<1>6. LoopTypes
  <2>1. /\ snap = [n \in Nodes |-> NewNode] /\ ns = [n \in Nodes |-> Unlisted]
        /\ todo = {} /\ target = None /\ cap = 0 /\ halted = FALSE /\ pc = "idle"
    BY DEF Init
  <2>2. snap \in [Nodes -> NodeRec]
    BY <2>1, <1>1
  <2>3. ns \in [Nodes -> NodeStatus]
    BY <2>1, <1>2
  <2>4. todo \in SUBSET Nodes
    BY <2>1
  <2>5. halted \in BOOLEAN
    BY <2>1
  <2>6. cap \in Int
    BY <2>1
  <2>7. target \in Nodes \cup {None} /\ (pc = "act" => target \in Nodes)
    BY <2>1
  <2> QED BY <2>2, <2>3, <2>4, <2>5, <2>6, <2>7 DEF LoopTypes
<1> QED BY <1>3, <1>4, <1>5, <1>6 DEF TypeOK

\* The views are well typed.
LEMMA ViewTypes ==
  ASSUME ObjectTypes, CacheTypes
  PROVE  NodeView \in [Nodes -> NodeRec] /\ JobView \in [JobKeys -> JobStates]
BY DEF ObjectTypes, CacheTypes, NodeView, JobView

\* The unfinished Jobs of a CR are finitely many.
LEMMA InFlightFinite ==
  ASSUME NEW c, NEW jobs
  PROVE  /\ IsFiniteSet(InFlightJobs(c, jobs))
         /\ countInFlightJobs(c, jobs) \in Nat
<1>1. IsFiniteSet(Nodes \X Versions)
  BY NodesFinite, VersionsFinite, FS_Product
<1>2. IsFiniteSet(InFlightJobs(c, jobs))
  BY <1>1, FS_Subset DEF InFlightJobs
<1> QED BY <1>2, FS_CardinalityType DEF countInFlightJobs

\* What is left of a reconcile that returned is well typed.
LEMMA ReturnType == Return => ReadTypes' /\ LoopTypes'
<1> SUFFICES ASSUME Return PROVE ReadTypes' /\ LoopTypes' OBVIOUS
<1>1. NewNode \in NodeRec /\ Unlisted \in NodeStatus
  BY DEF NewNode, NodeRec, Stamps, Unlisted, NodeStatus, Reasons
<1>2. ReadTypes'
  BY MaxGenType DEF Return, ReadTypes
<1>3. snap' \in [Nodes -> NodeRec]
  BY <1>1 DEF Return
<1>4. ns' \in [Nodes -> NodeStatus]
  BY <1>1 DEF Return
<1>5. todo' \in SUBSET Nodes
  BY DEF Return
<1>6. target' \in Nodes \cup {None} /\ (pc' = "act" => target' \in Nodes)
  BY DEF Return
<1>7. halted' \in BOOLEAN
  BY DEF Return
<1>8. cap' \in Int
  BY DEF Return
<1> QED BY <1>2, <1>3, <1>4, <1>5, <1>6, <1>7, <1>8 DEF LoopTypes

\* Every step of a reconcile keeps the types.
LEMMA ReconcileType == ASSUME TypeOK, Reconcile PROVE TypeOK'
<1> USE DEF TypeOK
<1>1. ASSUME NEW c \in Crs, Start(c) PROVE TypeOK'
  <2>1. CrTypes' /\ ObjectTypes' /\ CacheTypes'
    BY <1>1 DEF Start, CrTypes, ObjectTypes, CacheTypes, crVars, cacheVars
  <2>2. ReadTypes'
    BY <1>1 DEF Start, ReadTypes, CrTypes
  <2>3. Is("Pending", "NodeConflict") \in NodeStatus /\ Unlisted \in NodeStatus
    BY DEF Is, Unlisted, NodeStatus, NodeStates, Reasons
  <2>4. LoopTypes'
    BY <1>1, <2>3, ViewTypes, SelectorType DEF Start, LoopTypes, owned, matchedNodes
  <2> QED BY <2>1, <2>2, <2>4
<1>2. ASSUME NEW n \in Nodes, Observe(n) PROVE TypeOK'
  <2>1. CrTypes' /\ ObjectTypes' /\ CacheTypes' /\ ReadTypes'
    BY <1>2 DEF Observe, CrTypes, ObjectTypes, CacheTypes, ReadTypes, crVars, cacheVars, readVars
  <2>2. cur \in Crs /\ rspec \in Specs /\ snap[n] \in NodeRec
    BY <1>2 DEF Observe, ReadTypes, LoopTypes
  <2>3. PICK st \in NodeStatus : ns' = [ns EXCEPT ![n] = st]
    BY <1>2, <2>2, ObserveType DEF Observe
  <2>4. LoopTypes'
    BY <1>2, <2>3 DEF Observe, LoopTypes
  <2> QED BY <2>1, <2>4
<1>3. ASSUME NEW n \in Nodes, SkipFull(n) PROVE TypeOK'
  BY <1>3 DEF SkipFull, CrTypes, ObjectTypes, CacheTypes, ReadTypes, LoopTypes,
              crVars, cacheVars, readVars
<1>4. ASSUME NEW n \in Nodes, Claim(n) PROVE TypeOK'
  <2> DEFINE new == [snap[n] EXCEPT !.owner = cur]
             patched == [node EXCEPT ![n] = MergePatch(node[n], snap[n], new)]
  <2>1. cur \in Crs /\ snap[n] \in NodeRec /\ node[n] \in NodeRec
    BY <1>4 DEF Claim, ReadTypes, LoopTypes, ObjectTypes
  <2>2. new \in NodeRec
    BY <2>1 DEF NodeRec
  <2>3. patched \in [Nodes -> NodeRec]
    BY <2>1, <2>2, MergePatchType DEF ObjectTypes
  <2>4. node' \in [Nodes -> NodeRec] /\ snap' \in [Nodes -> NodeRec]
    <3> HIDE DEF new, patched
    <3>1. \/ node' = node /\ snap' = snap
          \/ node' = patched /\ snap' = [snap EXCEPT ![n] = patched[n]]
          \/ node' \in {node, patched} /\ snap' = [snap EXCEPT ![n] = new]
      BY <1>4 DEF Claim, new, patched
    <3> QED BY <3>1, <2>2, <2>3 DEF LoopTypes, ObjectTypes
  <2>5. CrTypes' /\ ObjectTypes' /\ CacheTypes'
    BY <1>4, <2>4 DEF Claim, CrTypes, ObjectTypes, CacheTypes, crVars, cacheVars
  <2>6. pc' \in {"advance", "act"} /\ (pc' = "act" => target' = n)
        /\ target' \in {n, target} /\ todo' \in SUBSET Nodes
    BY <1>4 DEF Claim, LoopTypes
  <2>7. ReadTypes'
    BY <1>4, <2>1, <2>6 DEF Claim, ReadTypes, readVars
  <2>8. LoopTypes'
    BY <1>4, <2>4, <2>6 DEF Claim, LoopTypes
  <2> QED BY <2>5, <2>7, <2>8
<1>5. CountJobs => TypeOK'
  <2> SUFFICES ASSUME CountJobs PROVE TypeOK' OBVIOUS
  <2>1. CrTypes' /\ ObjectTypes' /\ CacheTypes' /\ ReadTypes'
    BY DEF CountJobs, CrTypes, ObjectTypes, CacheTypes, ReadTypes, crVars, cacheVars, readVars
  <2>2. cur \in Crs
    BY DEF CountJobs, ReadTypes
  <2>3. maxParallel(cur) \in Int /\ countInFlightJobs(cur, JobView) \in Int
    BY <2>2, MaxParallelType, InFlightFinite DEF maxParallel
  <2>4. todo' \subseteq Nodes /\ halted' \in BOOLEAN
    BY DEF CountJobs, ToAdvance, Halted
  <2>5. LoopTypes'
    BY <2>3, <2>4 DEF CountJobs, LoopTypes
  <2> QED BY <2>1, <2>5
<1>6. Cordon => TypeOK'
  <2> SUFFICES ASSUME Cordon PROVE TypeOK' OBVIOUS
  <2>1. cur \in Crs /\ target \in Nodes /\ snap[target] \in NodeRec /\ node[target] \in NodeRec
    BY DEF Cordon, ReadTypes, LoopTypes, ObjectTypes
  <2>2. MergePatch(node[target], snap[target], CordonNode(snap[target], cur)) \in NodeRec
    BY <2>1, MergePatchType, CordonType
  <2>3. node' \in [Nodes -> NodeRec]
    BY <2>2 DEF Cordon, ObjectTypes
  <2> QED BY <2>3 DEF Cordon, NodeVisited, CrTypes, ObjectTypes, CacheTypes, ReadTypes,
                      LoopTypes, crVars, cacheVars, readVars
<1>7. Evict => TypeOK'
  <2> SUFFICES ASSUME Evict PROVE TypeOK' OBVIOUS
  <2>1. target \in Nodes
    BY DEF Evict, LoopTypes
  <2>2. PICK evicted : pod' = EvictPods(pod, evicted)
    BY DEF Evict
  <2>3. pod' \in [Pods -> PodPhases]
    BY <2>2 DEF EvictPods, ObjectTypes, PodPhases
  <2>4. ns' \in {ns, [ns EXCEPT ![target].reason = "EvictionBlocked"]}
    BY DEF Evict
  <2>5. ns' \in [Nodes -> NodeStatus]
    BY <2>1, <2>4 DEF LoopTypes, NodeStatus, Reasons
  <2> QED BY <2>3, <2>5 DEF Evict, NodeVisited, CrTypes, ObjectTypes, CacheTypes, ReadTypes,
                      LoopTypes, crVars, cacheVars, readVars
<1>8. Spawn => TypeOK'
  <2> SUFFICES ASSUME Spawn PROVE TypeOK' OBVIOUS
  <2>1. target \in Nodes /\ cap \in Int
    BY DEF Spawn, LoopTypes
  <2>2. job' \in [JobKeys -> JobStates]
    BY DEF Spawn, ObjectTypes, JobStates
  <2>3. Is("Flashing", "Flashing") \in NodeStatus
    BY DEF Is, NodeStatus, NodeStates, Reasons
  <2>4. ns' \in [Nodes -> NodeStatus] /\ cap' \in Int
    BY <2>1, <2>3 DEF Spawn, LoopTypes
  <2> QED BY <2>2, <2>4 DEF Spawn, NodeVisited, CrTypes, ObjectTypes, CacheTypes, ReadTypes,
                      LoopTypes, crVars, cacheVars, readVars
<1>9. Uncordon => TypeOK'
  <2> SUFFICES ASSUME Uncordon PROVE TypeOK' OBVIOUS
  <2>1. cur \in Crs /\ target \in Nodes /\ snap[target] \in NodeRec /\ node[target] \in NodeRec
    BY DEF Uncordon, ReadTypes, LoopTypes, ObjectTypes
  <2>2. MergePatch(node[target], snap[target], UncordonNode(snap[target], cur)) \in NodeRec
    BY <2>1, MergePatchType, CordonType
  <2>3. node' \in [Nodes -> NodeRec]
    BY <2>2 DEF Uncordon, ObjectTypes
  <2> QED BY <2>3 DEF Uncordon, NodeVisited, CrTypes, ObjectTypes, CacheTypes, ReadTypes,
                      LoopTypes, crVars, cacheVars, readVars
<1>10. Publish => TypeOK'
  <2> SUFFICES ASSUME Publish PROVE TypeOK' OBVIOUS
  <2>1. cur \in Crs /\ rspec \in Specs /\ rspec.version \in Versions
    BY SpecsType DEF Publish, ReadTypes, SpecRec
  <2>2. ObjectTypes'
    <3>1. PICK labelled : node' = [n \in Nodes |-> IF n \in labelled
                                THEN [node[n] EXCEPT !.fwver = rspec.version]
                                ELSE node[n]]
      BY DEF Publish
    <3>2. node' \in [Nodes -> NodeRec]
      BY <3>1, <2>1 DEF ObjectTypes, NodeRec
    <3> QED BY <3>2 DEF Publish, ObjectTypes
  <2> DEFINE states == [n \in Nodes |-> Explain(rspec, halted, ns[n])]
             new == [version |-> rspec.version,
                     ready |-> TopLevelCondition(states), nodes |-> states]
  <2>3. \A n \in Nodes : Explain(rspec, halted, ns[n]) \in NodeStatus
    BY DEF Explain, LoopTypes, NodeStatus, Is, Reasons, NodeStates
  <2>4. new \in Status
    BY <2>1, <2>3 DEF Status, TopLevelCondition
  <2>5. status' \in [Crs -> Status]
    <3> HIDE DEF new
    <3>1. status' \in {status, [status EXCEPT ![cur] = new]}
      BY DEF Publish, new
    <3> QED BY <3>1, <2>1, <2>4 DEF CrTypes
  <2>6. CrTypes' /\ CacheTypes'
    BY <2>5 DEF Publish, CrTypes, CacheTypes, crVars, cacheVars
  <2> QED BY <2>2, <2>6, ReturnType DEF Publish
<1>11. Abandon => TypeOK'
  <2> SUFFICES ASSUME Abandon PROVE TypeOK' OBVIOUS
  <2>1. CrTypes' /\ ObjectTypes' /\ CacheTypes'
    BY DEF Abandon, CrTypes, ObjectTypes, CacheTypes, crVars, cacheVars
  <2> QED BY <2>1, ReturnType DEF Abandon
<1> QED
  BY <1>1, <1>2, <1>3, <1>4, <1>5, <1>6, <1>7, <1>8, <1>9, <1>10, <1>11 DEF Reconcile

\* Every step of the rest of the cluster keeps the types.
LEMMA EnvironmentType == ASSUME TypeOK, Environment PROVE TypeOK'
<1> USE DEF TypeOK
<1>1. UNCHANGED localVars
  BY DEF Environment, SyncNodes, SyncJobs, SyncPods, JobSucceeds, JobFails, JobExpires,
         CollectJob, DeleteCr, EditSpec, HumanCordon, HumanUncordon, ToggleSkip,
         DrainDeadline, PodStarts, PodFinishes, PodRemoved
<1>2. ReadTypes' /\ LoopTypes'
  BY <1>1 DEF localVars, readVars, loopVars, ReadTypes, LoopTypes
<1>3. CASE SyncNodes \/ SyncJobs \/ SyncPods
  BY <1>2, <1>3 DEF SyncNodes, SyncJobs, SyncPods, CrTypes, ObjectTypes, CacheTypes, crVars
<1>4. ASSUME NEW c \in Crs, NEW n \in Nodes, NEW v \in Versions,
             JobSucceeds(c, n, v) \/ JobFails(c, n, v) \/ JobExpires(c, n, v)
             \/ CollectJob(c, n, v)
      PROVE  TypeOK'
  <2>1. CrTypes' /\ CacheTypes'
    BY <1>4 DEF JobSucceeds, JobFails, JobExpires, CollectJob, CrTypes, CacheTypes,
                crVars, cacheVars
  <2>2. ObjectTypes'
    BY <1>4 DEF JobSucceeds, JobFails, JobExpires, CollectJob, ObjectTypes, JobStates
  <2> QED BY <1>2, <2>1, <2>2
<1>5. ASSUME NEW c \in Crs, DeleteCr(c) \/ EditSpec(c) PROVE TypeOK'
  <2>1. ObjectTypes' /\ CacheTypes'
    BY <1>5 DEF DeleteCr, EditSpec, ObjectTypes, CacheTypes, cacheVars
  <2>2. CASE DeleteCr(c)
    BY <1>2, <2>1, <2>2 DEF DeleteCr, CrTypes
  <2>3. CASE EditSpec(c)
    <3>1. gen[c] + 1 \in 0..MaxGen
      BY <2>3, MaxGenType DEF EditSpec, CrTypes
    <3> QED BY <1>2, <2>1, <2>3, <3>1 DEF EditSpec, CrTypes
  <2> QED BY <1>5, <2>2, <2>3
<1>6. ASSUME NEW n \in Nodes,
             HumanCordon(n) \/ HumanUncordon(n) \/ ToggleSkip(n) \/ DrainDeadline(n)
      PROVE  TypeOK'
  <2>1. CrTypes' /\ CacheTypes'
    BY <1>6 DEF HumanCordon, HumanUncordon, ToggleSkip, DrainDeadline, CrTypes, CacheTypes,
                crVars, cacheVars
  <2>2. node[n] \in NodeRec
    BY DEF ObjectTypes
  <2>3. PICK r \in NodeRec : node' = [node EXCEPT ![n] = r]
    <3>1. \A u \in BOOLEAN : [node[n] EXCEPT !.unsched = u] \in NodeRec
      BY <2>2 DEF NodeRec
    <3>2. [node[n] EXCEPT !.skip = ~node[n].skip] \in NodeRec
      BY <2>2 DEF NodeRec
    <3>3. [node[n] EXCEPT !.at = "expired"] \in NodeRec
      BY <2>2 DEF NodeRec, Stamps
    <3> QED BY <1>6, <3>1, <3>2, <3>3 DEF HumanCordon, HumanUncordon, ToggleSkip,
                                          DrainDeadline, ObjectTypes
  <2>4. ObjectTypes'
    BY <1>6, <2>3 DEF HumanCordon, HumanUncordon, ToggleSkip, DrainDeadline, ObjectTypes
  <2> QED BY <1>2, <2>1, <2>4
<1>7. ASSUME NEW p \in Pods, PodStarts(p) \/ PodFinishes(p) \/ PodRemoved(p)
      PROVE  TypeOK'
  BY <1>2, <1>7 DEF PodStarts, PodFinishes, PodRemoved, CrTypes, ObjectTypes, CacheTypes,
                    PodPhases, crVars, cacheVars
<1> QED BY <1>3, <1>4, <1>5, <1>6, <1>7 DEF Environment

\* A step that changes nothing keeps the types.
LEMMA StutterType == ASSUME TypeOK, UNCHANGED vars PROVE TypeOK'
BY DEF TypeOK, CrTypes, ObjectTypes, CacheTypes, ReadTypes, LoopTypes,
       vars, crVars, cacheVars, localVars, readVars, loopVars

\* The firmware controller and its cluster stay well typed, whatever fails: a
\* reconcile never acts without the CR, spec and node it was started for.
THEOREM TypeCorrect == Spec => []TypeOK
<1>1. Init => TypeOK
  BY InitType
<1>2. TypeOK /\ [Next]_vars => TypeOK'
  BY ReconcileType, EnvironmentType, StutterType DEF Next
<1> QED BY <1>1, <1>2, PTL DEF Spec

-----------------------------------------------------------------------------
(* maxParallel *)

\* What the slot arithmetic rests on: the Job cache is caught up when it is read,
\* and no Create is accepted without its reply arriving.
TrueJobReads == "job" \notin Lagging /\ "lostreply" \notin Env

\* With no unfinished Job that was not there before, the count does not grow.
LEMMA FewerJobs ==
  ASSUME NEW c, NEW j1, NEW j2, InFlightJobs(c, j2) \subseteq InFlightJobs(c, j1)
  PROVE  countInFlightJobs(c, j2) <= countInFlightJobs(c, j1)
BY InFlightFinite, FS_Subset DEF countInFlightJobs

\* With one more, it grows by at most one.
LEMMA OneMoreJob ==
  ASSUME NEW c, NEW j1, NEW j2, NEW x,
         InFlightJobs(c, j2) \subseteq InFlightJobs(c, j1) \cup {x}
  PROVE  countInFlightJobs(c, j2) <= countInFlightJobs(c, j1) + 1
<1> DEFINE S == InFlightJobs(c, j1) \cup {x}
<1>1. IsFiniteSet(S) /\ Cardinality(S) <= countInFlightJobs(c, j1) + 1
  BY InFlightFinite, FS_AddElement DEF countInFlightJobs
<1>2. Cardinality(InFlightJobs(c, j2)) <= Cardinality(S)
  BY <1>1, FS_Subset
<1>3. Cardinality(S) \in Nat
  BY <1>1, FS_CardinalityType
<1> QED BY <1>1, <1>2, <1>3, InFlightFinite DEF countInFlightJobs

\* Only Spawn adds an unfinished Job.
LEMMA OnlySpawnStartsJobs ==
  ASSUME TypeOK, [Next]_vars, ~Spawn, NEW c \in Crs
  PROVE  InFlightJobs(c, job') \subseteq InFlightJobs(c, job)
<1>1. CASE UNCHANGED job
  BY <1>1 DEF InFlightJobs
<1>2. ASSUME NEW d \in Crs, NEW n \in Nodes, NEW v \in Versions, NEW r \in JobStates \ {"running"},
             job' = [job EXCEPT ![<<d, n, v>>] = r]
      PROVE  InFlightJobs(c, job') \subseteq InFlightJobs(c, job)
  <2>1. \A k \in JobKeys : job'[k] = "running" => job[k] = "running"
    BY <1>2 DEF TypeOK, ObjectTypes
  <2>2. \A nv \in Nodes \X Versions : <<c, nv[1], nv[2]>> \in JobKeys
    BY DEF JobKeys
  <2> QED BY <2>1, <2>2 DEF InFlightJobs
<1>3. \/ UNCHANGED job
      \/ \E d \in Crs, n \in Nodes, v \in Versions, r \in JobStates \ {"running"} :
           job' = [job EXCEPT ![<<d, n, v>>] = r]
  <2>1. CASE UNCHANGED vars
    BY <2>1 DEF vars
  <2>2. CASE Reconcile
    BY <2>2 DEF Reconcile, Start, Observe, SkipFull, Claim, CountJobs, Cordon, Evict,
                Uncordon, Publish, Abandon
  <2>3. CASE Environment
    <3>1. ASSUME NEW d \in Crs, NEW n \in Nodes, NEW v \in Versions,
                 JobSucceeds(d, n, v) \/ JobFails(d, n, v) \/ JobExpires(d, n, v)
                 \/ CollectJob(d, n, v)
          PROVE  \E r \in JobStates \ {"running"} : job' = [job EXCEPT ![<<d, n, v>>] = r]
      <4>1. /\ "succeeded" \in JobStates \ {"running"}
            /\ "failed" \in JobStates \ {"running"}
            /\ "none" \in JobStates \ {"running"}
        BY DEF JobStates
      <4> QED BY <3>1, <4>1 DEF JobSucceeds, JobFails, JobExpires, CollectJob
    <3>2. \/ UNCHANGED job
          \/ \E d \in Crs, n \in Nodes, v \in Versions :
               JobSucceeds(d, n, v) \/ JobFails(d, n, v) \/ JobExpires(d, n, v)
               \/ CollectJob(d, n, v)
      BY <2>3 DEF Environment, SyncNodes, SyncJobs, SyncPods, DeleteCr, EditSpec,
         HumanCordon, HumanUncordon, ToggleSkip, DrainDeadline, PodStarts, PodFinishes,
         PodRemoved
    <3> QED BY <3>1, <3>2
  <2> QED BY <2>1, <2>2, <2>3 DEF Next
<1> QED BY <1>1, <1>2, <1>3

\* The inductive invariant: the bound alone is not inductive, it needs to know
\* that the slots a reconcile still believes free are free.
SlotInv == TypeOK /\ ParallelismBound /\ SlotAccounting

\* Every step keeps it.
LEMMA SlotInvStep ==
  ASSUME TrueJobReads, SlotInv, [Next]_vars
  PROVE  SlotInv'
<1>1. TypeOK /\ ParallelismBound /\ SlotAccounting
  BY DEF SlotInv
<1>2. TypeOK'
  BY <1>1, ReconcileType, EnvironmentType, StutterType DEF Next
<1>3. \A c \in Crs : /\ maxParallel(c) \in Nat
                     /\ countInFlightJobs(c, job) \in Nat
                     /\ countInFlightJobs(c, job') \in Nat
  BY MaxParallelType, InFlightFinite DEF maxParallel
<1>4. CASE Spawn
  <2>1. /\ cur \in Crs /\ target \in Nodes /\ rspec.version \in Versions
        /\ cap \in Int /\ cap > 0 /\ pc = "act"
        /\ countInFlightJobs(cur, job) + cap <= maxParallel(cur)
    BY <1>1, <1>4, SpecsType DEF Spawn, TypeOK, ReadTypes, LoopTypes, SpecRec,
                                 SlotAccounting, NeedsSlot
  <2>2. pc' = "advance" /\ cur' = cur
    BY <1>4 DEF Spawn, NodeVisited, readVars
  <2>3. \/ UNCHANGED <<job, cap>>
        \/ /\ job' = [job EXCEPT ![FlashJob] = IF @ = "none" THEN "running" ELSE @]
           /\ cap' = cap - 1
    BY <1>4 DEF Spawn, TrueJobReads
  <2>4. CASE UNCHANGED <<job, cap>>
    <3>1. ParallelismBound'
      BY <1>1, <2>4 DEF ParallelismBound
    <3>2. SlotAccounting'
      BY <2>1, <2>2, <2>4 DEF SlotAccounting
    <3> QED BY <1>2, <3>1, <3>2 DEF SlotInv
  <2>5. CASE /\ job' = [job EXCEPT ![FlashJob] = IF @ = "none" THEN "running" ELSE @]
             /\ cap' = cap - 1
    <3>1. FlashJob \in JobKeys
      BY <2>1 DEF FlashJob, JobKeys
    <3>2. \A k \in JobKeys : k # FlashJob => job'[k] = job[k]
      BY <2>5 DEF TypeOK, ObjectTypes
    <3>3. InFlightJobs(cur, job') \subseteq
            InFlightJobs(cur, job) \cup {<<target, rspec.version>>}
      <4> SUFFICES ASSUME NEW nv \in Nodes \X Versions, nv # <<target, rspec.version>>,
                          job'[<<cur, nv[1], nv[2]>>] = "running"
                   PROVE  job[<<cur, nv[1], nv[2]>>] = "running"
        BY DEF InFlightJobs
      <4>1. <<cur, nv[1], nv[2]>> \in JobKeys /\ <<cur, nv[1], nv[2]>> # FlashJob
        BY <2>1 DEF JobKeys, FlashJob
      <4> QED BY <3>2, <4>1
    <3>4. countInFlightJobs(cur, job') <= countInFlightJobs(cur, job) + 1
      BY <3>3, OneMoreJob
    <3>5. ASSUME NEW c \in Crs, c # cur
          PROVE  InFlightJobs(c, job') \subseteq InFlightJobs(c, job)
      <4>1. \A nv \in Nodes \X Versions : /\ <<c, nv[1], nv[2]>> \in JobKeys
                                          /\ <<c, nv[1], nv[2]>> # FlashJob
        BY <3>5 DEF JobKeys, FlashJob
      <4> QED BY <3>2, <4>1 DEF InFlightJobs
    <3>6. \A c \in Crs : c # cur => countInFlightJobs(c, job') <= countInFlightJobs(c, job)
      BY <3>5, FewerJobs
    <3>7. countInFlightJobs(cur, job') + (cap - 1) <= maxParallel(cur) /\ cap - 1 >= 0
      <4> DEFINE a == countInFlightJobs(cur, job)
                 b == countInFlightJobs(cur, job')
                 m == maxParallel(cur)
      <4>1. a \in Nat /\ b \in Nat /\ m \in Nat /\ cap \in Int /\ cap > 0
        BY <1>3, <2>1
      <4>2. a + cap <= m /\ b <= a + 1
        BY <2>1, <3>4
      <4> HIDE DEF a, b, m
      <4>3. b + (cap - 1) <= m /\ cap - 1 >= 0
        BY <4>1, <4>2
      <4> QED BY <4>3 DEF a, b, m
    <3>8. ParallelismBound'
      <4> SUFFICES ASSUME NEW c \in Crs
                   PROVE  countInFlightJobs(c, job') <= maxParallel(c)
        BY DEF ParallelismBound
      <4> DEFINE a == countInFlightJobs(c, job)
                 b == countInFlightJobs(c, job')
                 m == maxParallel(c)
      <4>1. a \in Nat /\ b \in Nat /\ m \in Nat /\ a <= m
        BY <1>1, <1>3 DEF ParallelismBound
      <4>2. CASE c = cur
        <5>1. b + (cap - 1) <= m /\ cap - 1 >= 0 /\ cap \in Int
          BY <2>1, <3>7, <4>2
        <5> HIDE DEF a, b, m
        <5>2. b <= m
          BY <4>1, <5>1
        <5> QED BY <5>2 DEF b, m
      <4>3. CASE c # cur
        <5>1. b <= a
          BY <3>6, <4>3
        <5> HIDE DEF a, b, m
        <5>2. b <= m
          BY <4>1, <5>1
        <5> QED BY <5>2 DEF b, m
      <4> QED BY <4>2, <4>3
    <3>9. SlotAccounting'
      <4>1. cap' = cap - 1 /\ cur' = cur /\ pc' = "advance"
        BY <2>2, <2>5
      <4>2. cap' >= 0 /\ countInFlightJobs(cur', job') + cap' <= maxParallel(cur')
        BY <3>7, <4>1
      <4> QED BY <4>1, <4>2 DEF SlotAccounting
    <3> QED BY <1>2, <3>8, <3>9 DEF SlotInv
  <2> QED BY <2>3, <2>4, <2>5
<1>5. CASE ~Spawn
  <2>1. \A c \in Crs : countInFlightJobs(c, job') <= countInFlightJobs(c, job)
    BY <1>1, <1>5, OnlySpawnStartsJobs, FewerJobs
  <2>2. ParallelismBound'
    BY <1>1, <1>3, <2>1 DEF ParallelismBound
  <2>3. SlotAccounting'
    <3>1. CASE CountJobs
      <4>1. cur \in Crs /\ cur' = cur /\ pc' = "advance" /\ job' = job
            /\ cap' = maxParallel(cur) - countInFlightJobs(cur, job)
        BY <1>1, <3>1 DEF CountJobs, TypeOK, ReadTypes, readVars, JobView, TrueJobReads
      <4> QED BY <1>1, <1>3, <4>1 DEF ParallelismBound, SlotAccounting
    <3>2. ASSUME NEW n \in Nodes, Claim(n) PROVE SlotAccounting'
      <4>1. /\ cur \in Crs /\ cur' = cur /\ cap' = cap /\ pc = "advance" /\ cap \in Int
            /\ job' = job /\ ns' = ns /\ (pc' = "act" => target' = n)
            /\ ~(NeedsSlot(n) /\ cap <= 0)
        BY <1>1, <3>2 DEF Claim, TypeOK, ReadTypes, LoopTypes, readVars
      <4> QED BY <1>1, <4>1 DEF SlotAccounting, NeedsSlot
    <3>3. ASSUME UNCHANGED <<cur, cap>>,
                 \/ pc' = "advance" /\ pc \in {"advance", "act"}
                 \/ UNCHANGED <<pc, ns, target>>
          PROVE  SlotAccounting'
      <4>1. pc \in {"advance", "act"} => cur \in Crs
        BY <1>1 DEF TypeOK, ReadTypes
      <4>2. cap \in Int
        BY <1>1 DEF TypeOK, LoopTypes
      <4> QED BY <1>1, <1>3, <2>1, <3>3, <4>1, <4>2 DEF SlotAccounting, NeedsSlot
    <3>4. ASSUME pc' \in {"idle", "observe"} PROVE SlotAccounting'
      BY <3>4 DEF SlotAccounting
    <3>5. CASE Reconcile
      <4>1. CASE \E c \in Crs : Start(c)
        BY <4>1, <3>4 DEF Start
      <4>2. CASE \E n \in Nodes : Observe(n)
        BY <4>2, <3>4 DEF Observe
      <4>3. CASE \E n \in Nodes : SkipFull(n)
        BY <4>3, <3>3 DEF SkipFull, readVars
      <4>4. CASE Cordon \/ Evict \/ Uncordon
        BY <4>4, <3>3 DEF Cordon, Evict, Uncordon, NodeVisited, readVars
      <4>5. CASE Publish \/ Abandon
        BY <4>5, <3>4 DEF Publish, Abandon, Return
      <4> QED BY <1>5, <3>1, <3>2, <3>5, <4>1, <4>2, <4>3, <4>4, <4>5 DEF Reconcile
    <3>6. CASE Environment
      <4>1. UNCHANGED localVars
        BY <3>6 DEF Environment, SyncNodes, SyncJobs, SyncPods, JobSucceeds, JobFails,
           JobExpires, CollectJob, DeleteCr, EditSpec, HumanCordon, HumanUncordon,
           ToggleSkip, DrainDeadline, PodStarts, PodFinishes, PodRemoved
      <4> QED BY <3>3, <4>1 DEF localVars, readVars, loopVars
    <3>7. CASE UNCHANGED vars
      BY <3>3, <3>7 DEF vars, localVars, readVars, loopVars
    <3> QED BY <3>5, <3>6, <3>7 DEF Next
  <2> QED BY <1>2, <2>2, <2>3 DEF SlotInv
<1> QED BY <1>4, <1>5

\* It holds at the start.
LEMMA SlotInvInit == Init => SlotInv
<1> SUFFICES ASSUME Init PROVE SlotInv OBVIOUS
<1>1. TypeOK
  BY InitType
<1>2. SlotAccounting
  BY DEF Init, SlotAccounting
<1>3. ASSUME NEW c \in Crs PROVE countInFlightJobs(c, job) <= maxParallel(c)
  <2>1. \A nv \in Nodes \X Versions : <<c, nv[1], nv[2]>> \in JobKeys
    BY DEF JobKeys
  <2>2. InFlightJobs(c, job) = {}
    BY <2>1 DEF Init, InFlightJobs
  <2>3. countInFlightJobs(c, job) = 0
    BY <2>2, FS_EmptySet DEF countInFlightJobs
  <2> QED BY <2>3, MaxParallelType DEF maxParallel
<1> QED BY <1>1, <1>2, <1>3 DEF SlotInv, ParallelismBound

\* So it always holds.
LEMMA SlotInvariant == TrueJobReads => (Spec => []SlotInv)
<1> SUFFICES ASSUME TrueJobReads PROVE Spec => []SlotInv OBVIOUS
<1>1. SlotInv /\ [Next]_vars => SlotInv'
  BY SlotInvStep
<1> QED BY <1>1, SlotInvInit, PTL DEF Spec

\* maxParallel is never exceeded: if the Job reads are true, at most maxParallel
\* flash Jobs of a CR are unfinished at any time, over all its versions, however
\* reconciles, crashes, failed writes, edits and Job ends interleave.
THEOREM MaxParallelHolds == TrueJobReads => (Spec => []ParallelismBound)
<1>1. SlotInv => ParallelismBound
  BY DEF SlotInv
<1> QED BY <1>1, SlotInvariant, PTL

\* Nor is a reconcile's own count of the free slots ever too high, from the listing of
\* the Jobs to the last Job it creates.
THEOREM CapacityIsTrue == TrueJobReads => (Spec => []SlotAccounting)
<1>1. SlotInv => SlotAccounting
  BY DEF SlotInv
<1> QED BY <1>1, SlotInvariant, PTL
=============================================================================
